---------------------------- MODULE TrialPromise ----------------------------
(***************************************************************************)
(* What a card trial promises, without saying how: a claim counts against  *)
(* the promotion and its user from the moment it is made; it is given back *)
(* only as long as the customer has not accepted it at Stripe; and an      *)
(* accepted one is granted, once and for good.                             *)
(***************************************************************************)
EXTENDS Naturals, FiniteSets

CONSTANTS Trials, Users, Cap, PerUser, None

VARIABLES holder, phase

Counts  == {t \in Trials : phase[t] \in {"held", "accepted", "granted"}}
Mine(u) == {t \in Counts : holder[t] = u}

Init ==
    /\ phase = [t \in Trials |-> "free"]
    /\ holder = [t \in Trials |-> None]

Claim(t, u) ==
    /\ phase[t] = "free"
    /\ Cardinality(Counts) < Cap
    /\ Cardinality(Mine(u)) < PerUser
    /\ \A x \in Mine(u) : phase[x] = "granted"
    /\ phase' = [phase EXCEPT ![t] = "held"]
    /\ holder' = [holder EXCEPT ![t] = u]

Move(t, from, to) ==
    /\ phase[t] = from
    /\ phase' = [phase EXCEPT ![t] = to]
    /\ UNCHANGED holder

Accept(t)  == Move(t, "held", "accepted")
Grant(t)   == Move(t, "accepted", "granted")
Release(t) == Move(t, "held", "released")

Next == \E t \in Trials :
    \/ \E u \in Users : Claim(t, u)
    \/ Accept(t) \/ Grant(t) \/ Release(t)

Spec == Init /\ [][Next]_<<holder, phase>>
=============================================================================

----------------------------- MODULE Entitlement -----------------------------
(***************************************************************************)
(* What buying a plan promises, without saying how: an order is placed,    *)
(* and then either its plan is granted, once and for good, or it is        *)
(* closed, for good.  OrderSettlement implements this as long as a commit  *)
(* that succeeded is reported as one that did.                             *)
(***************************************************************************)
CONSTANT Orders

VARIABLE phase

TypeOK == phase \in [Orders -> {"absent", "open", "granted", "closed"}]

Init == phase = [o \in Orders |-> "absent"]

Place(o) == phase[o] = "absent" /\ phase' = [phase EXCEPT ![o] = "open"]
Grant(o) == phase[o] = "open" /\ phase' = [phase EXCEPT ![o] = "granted"]
Close(o) == phase[o] = "open" /\ phase' = [phase EXCEPT ![o] = "closed"]

Next == \E o \in Orders : Place(o) \/ Grant(o) \/ Close(o)

Spec == Init /\ [][Next]_phase
=============================================================================

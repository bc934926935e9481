----------------------- MODULE TrialSubscriptionProofs -----------------------
(***************************************************************************)
(* Proofs about TrialSubscription: its types, that it implements           *)
(* TrialPromise and keeps the caps, that the rows end up saying what       *)
(* Stripe says, and that nobody is billed twice: all of them under every   *)
(* combination of the faults, for any number of trials and handlers.       *)
(***************************************************************************)
EXTENDS TrialSubscription, FiniteSetTheorems, TLAPS

(***************************************************************************)
(* Types.  They hold because a handler works on a row that exists, and     *)
(* because what Stripe was asked or has said exists at Stripe.             *)
(***************************************************************************)

\* Nothing can be accepted any more: the session has ended, or was never created
\* and its time is over.
Gone(t) == session[t] = "expired" \/ (session[t] = "absent" /\ late[t])

StripeInv ==
    /\ \A t \in Trials : session[t] # "absent" => owner[t] # None
    /\ \A t \in Trials : sub[t].status # "none" <=> session[t] = "complete"
    /\ \A e \in events : session[e.trial] = IF e.kind = "expired" THEN "expired" ELSE "complete"
    /\ \A e \in events \cup applied : e.id <= changes

StageOf(w) ==
    /\ pc[w] # "idle" => job[w].trial \in Trials /\ owner[job[w].trial] # None
    /\ pc[w] = "expire" => session[job[w].trial] = "expired"
    /\ pc[w] = "replace" => Gone(job[w].trial)
    /\ pc[w] \in {"subscription", "complete", "lifecycle", "cancel", "saveCancel"}
          => session[job[w].trial] = "complete"
    /\ pc[w] \notin {"idle", "lifecycle"} => job[w].event = None \/ job[w].event.kind = "completed"
    /\ pc[w] \in {"complete", "lifecycle"} => job[w].seen.status # "none"
    /\ pc[w] = "lifecycle" =>
          job[w].event \in Event /\ job[w].event.kind = "updated"
          /\ job[w].event.trial = job[w].trial /\ job[w].event.id <= changes

StageInv == \A w \in Workers : StageOf(w)

\* A row is bound to a subscription only once its checkout is complete.
BoundInv == \A t \in Trials : Bound(t) => session[t] = "complete"

TypeInv == TypeOK /\ StripeInv /\ StageInv /\ BoundInv

LEMMA InitTypeInv == Init => TypeInv
  BY DEF Init, TypeInv, TypeOK, StripeInv, StageInv, StageOf, BoundInv, Bound,
          NoJob, NoSub, Job, Subs, Stages, Live

\* The jobs that handlers are given.
LEMMA JobTypes ==
    /\ NoJob \in Job
    /\ \A u \in Users, t \in Trials, b \in BOOLEAN :
          [NoJob EXCEPT !.user = u, !.trial = t, !.ordered = b] \in Job
    /\ \A t \in Trials : [NoJob EXCEPT !.trial = t] \in Job
    /\ \A t \in Trials, e \in Event : [NoJob EXCEPT !.trial = t, !.event = e] \in Job
    /\ \A t \in Trials, e \in Event, s \in Subs :
          [NoJob EXCEPT !.trial = t, !.event = e, !.seen = s] \in Job
    /\ \A j \in Job, s \in Subs : [j EXCEPT !.seen = s] \in Job
    /\ \A j \in Job, b \in BOOLEAN :
          [j EXCEPT !.found = b] \in Job /\ [j EXCEPT !.ordered = b] \in Job
<1>1. NoSub \in Subs
  BY DEF NoSub, Subs
<1> HIDE DEF NoSub
<1> QED  BY <1>1 DEF NoJob, Job

LEMMA JobFields ==
    /\ \A j \in Job, b \in BOOLEAN :
          [j EXCEPT !.found = b].trial = j.trial /\ [j EXCEPT !.found = b].event = j.event
    /\ \A j \in Job, b \in BOOLEAN :
          [j EXCEPT !.ordered = b].trial = j.trial /\ [j EXCEPT !.ordered = b].event = j.event
  BY DEF Job

LEMMA WebhookTypes ==
    ASSUME NEW t \in Trials, NEW k \in EventKinds, NEW i \in Nat
    PROVE  [kind |-> k, trial |-> t, id |-> i] \in Event
  BY DEF Event

\* A handler that goes on changes its own stage and job only.
LEMMA Moves ==
    ASSUME TypeOK, NEW w \in Workers, NEW s \in Stages, NEW j \in Job, Goto(w, s, j)
    PROVE  /\ pc' \in [Workers -> Stages] /\ job' \in [Workers -> Job]
           /\ pc'[w] = s /\ job'[w] = j
           /\ \A v \in Workers \ {w} : pc'[v] = pc[v] /\ job'[v] = job[v]
  BY DEF TypeOK, Goto

LEMMA Returns ==
    ASSUME TypeOK, NEW w \in Workers, Return(w)
    PROVE  /\ pc' \in [Workers -> Stages] /\ job' \in [Workers -> Job]
           /\ pc'[w] = "idle"
           /\ \A v \in Workers \ {w} : pc'[v] = pc[v] /\ job'[v] = job[v]
  BY Moves, JobTypes DEF Return, Stages

\* Answering a webhook takes away that one at most.
LEMMA Answers ==
    ASSUME TypeOK, NEW e, NEW left \in Left(e)
    PROVE  left \subseteq events /\ \A x \in events : x \notin left => x = e
  BY DEF Left

LEMMA CancelTypes ==
    ASSUME TypeOK, NEW t \in Trials, NEW left \in SUBSET events, CancelRemotely(t, left)
    PROVE  sub' \in [Trials -> Subs] /\ changes' \in Nat /\ events' \subseteq Event
<1>1. sub \in [Trials -> Subs] /\ changes \in Nat /\ events \subseteq Event
  BY DEF TypeOK
<1>2. [sub[t] EXCEPT !.cancel = TRUE] \in Subs
  BY <1>1 DEF Subs
<1>3. sub' \in [Trials -> Subs]
  BY <1>1, <1>2 DEF CancelRemotely
<1>4. changes' \in Nat
  BY <1>1 DEF CancelRemotely
<1>5. [kind |-> "updated", trial |-> t, id |-> changes'] \in Event
  BY <1>4, WebhookTypes DEF EventKinds
<1> QED  BY <1>1, <1>3, <1>4, <1>5 DEF CancelRemotely

LEMMA ChangeTypes ==
    ASSUME TypeOK, NEW t \in Trials, NEW state \in Subs, NEW kinds \in SUBSET EventKinds,
           Change(t, state, kinds)
    PROVE  sub' \in [Trials -> Subs] /\ changes' \in Nat /\ events' \subseteq Event
<1>1. [kind : kinds, trial : {t}, id : {changes + 1}] \subseteq Event
  BY DEF TypeOK, Event
<1> QED  BY <1>1 DEF Change, TypeOK

LEMMA RecordTypes ==
    ASSUME TypeOK, NEW e \in Event, NEW state \in Subs, state.status # "none", Bound(e.trial),
           Record(e, state)
    PROVE  /\ applied' \subseteq Event /\ events' \subseteq Event
           /\ status' \in [Trials -> RowStatus \cup {"none"}]
           /\ \A t \in Trials : status'[t] = "none" <=> status[t] = "none"
           /\ cancel' \in [Trials -> BOOLEAN] /\ last' \in [Trials -> Nat]
<1>1. e.trial \in Trials /\ e.id \in Nat
  BY DEF Event
<1>2. state.status \in RowStatus /\ state.cancel \in BOOLEAN
  BY DEF Subs, RowStatus, Live
<1> QED
  BY <1>1, <1>2, Answers DEF Record, TypeOK, Bound, Live, Answered, Created

LEMMA NextTypeOK == ASSUME TypeInv, [Next]_vars PROVE TypeOK'
<1> USE DEF TypeInv
<1>1. ASSUME NEW u \in Users, PlaceOrder(u) PROVE TypeOK'
  BY <1>1 DEF TypeOK, PlaceOrder, stripe
<1>2. ASSUME NEW u \in Users, ExpireOrder(u) PROVE TypeOK'
  BY <1>2 DEF TypeOK, ExpireOrder, rows, stripe
<1>3. ASSUME NEW u \in Users, OperatorSettles(u) PROVE TypeOK'
  BY <1>3 DEF TypeOK, OperatorSettles, rows, stripe
<1>4. ASSUME NEW u \in Users, OtherGrant(u) \/ PlanEnds(u) PROVE TypeOK'
  BY <1>4 DEF TypeOK, OtherGrant, PlanEnds, rows, stripe
<1>5. ASSUME NEW t \in Trials, ExpireRemotely(t)
      PROVE  /\ session' \in [Trials -> {"absent", "open", "complete", "expired"}]
             /\ events' \subseteq Event
  <2>1. [kind |-> "expired", trial |-> t, id |-> 0] \in Event
    BY WebhookTypes DEF EventKinds
  <2> QED  BY <1>5, <2>1 DEF ExpireRemotely, TypeOK
<1>6. ASSUME NEW u \in Users, CancelOrder(u) PROVE TypeOK'
  <2> DEFINE bound == {t \in Rows(u) : linked[t] /\ status[t] = "checkout"}
  <2>1. /\ session' \in [Trials -> {"absent", "open", "complete", "expired"}]
        /\ events' \subseteq Event /\ sub' = sub /\ changes' = changes
    <3>1. CASE bound = {}
      BY <1>6, <3>1 DEF CancelOrder, stripe, TypeOK
    <3>2. CASE bound # {}
      <4>1. PICK t \in bound : ExpireRemotely(t)
        BY <1>6, <3>2 DEF CancelOrder
      <4> QED  BY <1>5, <4>1 DEF ExpireRemotely, Rows
    <3> QED  BY <3>1, <3>2
  <2>2. /\ status' \in [Trials -> RowStatus \cup {"none"}]
        /\ \A t \in Trials : status'[t] = "none" <=> status[t] = "none"
    BY <1>6 DEF CancelOrder, TypeOK, RowStatus
  <2>3. order' \in [Users -> {"none", "pending", "expired", "cancelled", "paid"}]
    BY <1>6 DEF CancelOrder, TypeOK
  <2> QED  BY <1>6, <2>1, <2>2, <2>3 DEF CancelOrder, TypeOK
<1>7. ASSUME NEW u \in Users, NEW t \in Trials, CancelOrderDies(u, t) PROVE TypeOK'
  <2>1. ExpireRemotely(t)
    BY <1>7 DEF CancelOrderDies
  <2> QED  BY <1>5, <1>7, <2>1 DEF CancelOrderDies, ExpireRemotely, TypeOK, rows, grants
<1>8. ASSUME NEW w \in Workers, NEW u \in Users, NEW b \in BOOLEAN, NEW t \in Trials,
             Claim(w, u, b, t)
      PROVE  TypeOK'
  <2>1. pc' \in [Workers -> Stages] /\ job' \in [Workers -> Job]
    BY <1>8, Moves, JobTypes DEF Claim, Stages
  <2>2. owner' \in [Trials -> Users \cup {None}] /\ linked' \in [Trials -> BOOLEAN]
        /\ status' \in [Trials -> RowStatus \cup {"none"}]
        /\ \A x \in Trials : status'[x] = "none" <=> owner'[x] = None
    BY <1>8, TrialAssumption DEF Claim, TypeOK, RowStatus
  <2> QED  BY <1>8, <2>1, <2>2 DEF Claim, TypeOK, grants, stripe
<1>9. ASSUME NEW w \in Workers, NEW u \in Users, NEW b \in BOOLEAN, NEW t \in Trials,
             Resume(w, u, b, t)
      PROVE  TypeOK'
  <2>1. pc' \in [Workers -> Stages] /\ job' \in [Workers -> Job]
    BY <1>9, Moves, JobTypes DEF Resume, Stages
  <2> QED  BY <1>9, <2>1 DEF Resume, TypeOK, rows, grants, stripe
<1>10. ASSUME NEW w \in Workers, CreateSession(w) PROVE TypeOK'
  <2>1. pc' \in [Workers -> Stages] /\ job' \in [Workers -> Job]
    BY <1>10, Moves, Returns DEF CreateSession, Stages, TypeOK
  <2> QED  BY <1>10, <2>1 DEF CreateSession, TypeOK, rows, grants
<1>11. ASSUME NEW w \in Workers, SearchSession(w) PROVE TypeOK'
  <2>1. pc' \in [Workers -> Stages] /\ job' \in [Workers -> Job]
    BY <1>11, Moves DEF SearchSession, Stages, TypeOK
  <2> QED  BY <1>11, <2>1 DEF SearchSession, TypeOK, rows, grants, stripe
<1>12. ASSUME NEW w \in Workers, SaveSession(w) PROVE TypeOK'
  <2>1. pc' \in [Workers -> Stages] /\ job' \in [Workers -> Job]
    BY <1>12, Moves, Returns DEF SaveSession, Stages, TypeOK
  <2> QED  BY <1>12, <2>1 DEF SaveSession, TypeOK, grants, stripe
<1>13. ASSUME NEW w \in Workers, ReadSession(w) PROVE TypeOK'
  <2>1. /\ job[w] \in Job /\ [job[w] EXCEPT !.found = (pc[w] = "confirm")] \in Job
    BY JobTypes DEF TypeOK
  <2>2. pc' \in [Workers -> Stages] /\ job' \in [Workers -> Job]
    BY <1>13, <2>1, Moves, Returns DEF ReadSession, Stages
  <2> QED  BY <1>13, <2>2 DEF ReadSession, TypeOK, rows, grants, stripe
<1>14. ASSUME NEW w \in Workers, ReleaseExpired(w) PROVE TypeOK'
  <2>1. pc' \in [Workers -> Stages] /\ job' \in [Workers -> Job]
    BY <1>14, Moves DEF ReleaseExpired, Stages, TypeOK
  <2> QED  BY <1>14, <2>1 DEF ReleaseExpired, Expire, TypeOK, RowStatus, grants, stripe
<1>15. ASSUME NEW w \in Workers, ReplaceAbsent(w) PROVE TypeOK'
  <2>1. linked[job[w].trial] \in BOOLEAN /\ job[w] \in Job
    BY <1>15 DEF ReplaceAbsent, StageInv, StageOf, TypeOK
  <2>2. pc' \in [Workers -> Stages] /\ job' \in [Workers -> Job]
    BY <1>15, <2>1, Moves, Returns, JobTypes DEF ReplaceAbsent, Stages
  <2> QED  BY <1>15, <2>2 DEF ReplaceAbsent, TypeOK, RowStatus, grants, stripe
<1>16. ASSUME NEW e \in events, SessionExpired(e) PROVE TypeOK'
  BY <1>16, Answers DEF SessionExpired, Expire, Answered, TypeOK, RowStatus, grants
<1>17. ASSUME NEW w \in Workers, NEW e \in events, Deliver(w, e) PROVE TypeOK'
  <2>1. e \in Event /\ e.trial \in Trials
    BY DEF TypeOK, Event
  <2>2. pc' \in [Workers -> Stages] /\ job' \in [Workers -> Job]
    BY <1>17, <2>1, Moves, JobTypes DEF Deliver, Stages
  <2> QED  BY <1>17, <2>2 DEF Deliver, TypeOK, rows, grants, stripe
<1>18. ASSUME NEW e \in events, AlreadyGranted(e) PROVE TypeOK'
  BY <1>18, Answers DEF AlreadyGranted, Answered, TypeOK, rows, grants
<1>19. ASSUME NEW w \in Workers, NEW t \in Trials, Confirm(w, t) PROVE TypeOK'
  <2>1. pc' \in [Workers -> Stages] /\ job' \in [Workers -> Job]
    BY <1>19, Moves, JobTypes DEF Confirm, Stages
  <2> QED  BY <1>19, <2>1 DEF Confirm, TypeOK, rows, grants, stripe
<1>20. ASSUME NEW w \in Workers, ReadSubscription(w) PROVE TypeOK'
  <2>1. job[w] \in Job /\ sub[job[w].trial] \in Subs
    BY <1>20 DEF ReadSubscription, StageInv, StageOf, TypeOK
  <2>2. pc' \in [Workers -> Stages] /\ job' \in [Workers -> Job]
    BY <1>20, <2>1, Moves, JobTypes DEF ReadSubscription, Stages
  <2> QED  BY <1>20, <2>2 DEF ReadSubscription, TypeOK, rows, grants, stripe
<1>21. ASSUME NEW t \in Trials, SettleTrial(t)
       PROVE  /\ settled' \in [Trials -> Nat] /\ plan' \in [Users -> BOOLEAN]
              /\ order' \in [Users -> {"none", "pending", "expired", "cancelled", "paid"}]
  <2> DEFINE u == owner[t]
             held == plan[u] \/ ~linked[t] \/ order[u] # "paid"
  <2>1. settled' = [settled EXCEPT ![t] = @ + 1] /\ plan' = [plan EXCEPT ![u] = held]
    BY <1>21 DEF SettleTrial
  <2>2. order' = [order EXCEPT ![u] = IF linked[t] THEN "paid" ELSE @]
    BY <1>21 DEF SettleTrial
  <2>3. u \in Users => held \in BOOLEAN
    BY Zenon DEF TypeOK
  <2> HIDE DEF held
  <2>4. plan \in [Users -> BOOLEAN] /\ settled \in [Trials -> Nat]
    BY DEF TypeOK
  <2>5. plan' \in [Users -> BOOLEAN]
    BY <2>1, <2>3, <2>4
  <2>6. settled' \in [Trials -> Nat]
    BY <2>1, <2>4
  <2> QED  BY <2>2, <2>5, <2>6 DEF TypeOK
<1>22. ASSUME NEW w \in Workers, Complete(w) PROVE TypeOK'
  <2> DEFINE t == job[w].trial
             seen == job[w].seen
  <2>1. t \in Trials /\ seen \in Subs /\ seen.status # "none"
    BY <1>22 DEF Complete, StageInv, StageOf, TypeOK, Job
  <2>2. pc' \in [Workers -> Stages] /\ job' \in [Workers -> Job]
    BY <1>22, Returns DEF Complete
  <2>3. sub' \in [Trials -> Subs] /\ changes' \in Nat /\ events' \subseteq Event
    <3>1. PICK left \in Left(job[w].event) :
              IF plan[owner[t]] THEN CancelRemotely(t, left)
              ELSE events' = left /\ UNCHANGED <<sub, changes>>
      BY <1>22 DEF Complete
    <3>2. left \in SUBSET events
      BY <3>1, Answers
    <3> QED  BY <2>1, <3>1, <3>2, CancelTypes DEF TypeOK
  <2>4. seen.status \in RowStatus
    BY <2>1 DEF Subs, RowStatus, Live
  <2>5. status' = [status EXCEPT ![t] = seen.status] /\ status[t] = "checkout"
    BY <1>22 DEF Complete
  <2>6. /\ status' \in [Trials -> RowStatus \cup {"none"}]
        /\ \A x \in Trials : status'[x] = "none" <=> status[x] = "none"
    BY <2>1, <2>4, <2>5 DEF TypeOK
  <2>7. seen.cancel \/ plan[owner[t]] \in BOOLEAN
    BY <2>1, <2>5 DEF Subs, TypeOK
  <2>8. cancel' \in [Trials -> BOOLEAN] /\ saved' \in [Trials -> BOOLEAN]
    BY <1>22, <2>7 DEF Complete, TypeOK
  <2>9. SettleTrial(t)
    BY <1>22 DEF Complete
  <2> QED
    BY <1>21, <1>22, <2>1, <2>2, <2>3, <2>6, <2>8, <2>9 DEF Complete, TypeOK
<1>23. ASSUME NEW w \in Workers, CompleteBound(w) PROVE TypeOK'
  <2>1. job[w].trial \in Trials
    BY <1>23 DEF CompleteBound, StageInv, StageOf
  <2>2. pc' \in [Workers -> Stages] /\ job' \in [Workers -> Job]
    BY <1>23, Returns DEF CompleteBound
  <2>3. /\ settled' \in [Trials -> Nat] /\ plan' \in [Users -> BOOLEAN]
        /\ order' \in [Users -> {"none", "pending", "expired", "cancelled", "paid"}]
    BY <1>21, <1>23, <2>1 DEF CompleteBound, TypeOK
  <2>4. events' \subseteq Event
    BY <1>23, Answers DEF CompleteBound, Answered, TypeOK
  <2> QED  BY <1>23, <2>2, <2>3, <2>4 DEF CompleteBound, TypeOK, rows
<1>24. ASSUME NEW w \in Workers, CompleteFails(w) PROVE TypeOK'
  <2>1. job[w].trial \in Trials
    BY <1>24 DEF CompleteFails, StageInv, StageOf
  <2>2. pc' \in [Workers -> Stages] /\ job' \in [Workers -> Job]
    BY <1>24, Returns DEF CompleteFails
  <2>3. sub' \in [Trials -> Subs] /\ changes' \in Nat /\ events' \subseteq Event
    BY <1>24, <2>1, CancelTypes DEF CompleteFails, TypeOK
  <2> QED  BY <1>24, <2>2, <2>3 DEF CompleteFails, TypeOK, rows, grants
<1>25. ASSUME NEW w \in Workers, NEW e \in events, DeliverUpdated(w, e) PROVE TypeOK'
  <2>1. e \in Event /\ e.trial \in Trials /\ sub[e.trial] \in Subs
    BY DEF TypeOK, Event
  <2>2. pc' \in [Workers -> Stages] /\ job' \in [Workers -> Job]
    BY <1>25, <2>1, Moves, JobTypes DEF DeliverUpdated, Stages
  <2> QED  BY <1>25, <2>2 DEF DeliverUpdated, TypeOK, rows, grants, stripe
<1>26. ASSUME NEW w \in Workers, ApplyLifecycle(w) PROVE TypeOK'
  <2> DEFINE e == job[w].event
  <2>1. e \in Event /\ job[w].seen \in Subs /\ job[w].seen.status # "none"
    BY <1>26 DEF ApplyLifecycle, StageInv, StageOf, TypeOK, Job
  <2>2. pc' \in [Workers -> Stages] /\ job' \in [Workers -> Job]
    BY <1>26, Returns DEF ApplyLifecycle
  <2>3. /\ applied' \subseteq Event /\ events' \subseteq Event
        /\ status' \in [Trials -> RowStatus \cup {"none"}]
        /\ \A t \in Trials : status'[t] = "none" <=> status[t] = "none"
        /\ cancel' \in [Trials -> BOOLEAN] /\ last' \in [Trials -> Nat]
    <3>1. CASE Bound(e.trial)
      <4>1. Record(e, job[w].seen)
        BY <1>26, <3>1 DEF ApplyLifecycle
      <4> HIDE DEF e
      <4> QED  BY <2>1, <3>1, <4>1, RecordTypes
    <3>2. CASE ~Bound(e.trial)
      BY <1>26, <3>2 DEF ApplyLifecycle, TypeOK
    <3> QED  BY <3>1, <3>2
  <2> QED  BY <1>26, <2>2, <2>3 DEF ApplyLifecycle, TypeOK, grants
<1>27. ASSUME NEW e \in events, Deleted(e) PROVE TypeOK'
  <2>1. e \in Event /\ e.trial \in Trials /\ sub[e.trial] \in Subs
    BY DEF TypeOK, Event
  <2>2. sub[e.trial].status # "none"
    BY <1>27, <2>1 DEF Deleted, StripeInv
  <2>3. Bound(e.trial) /\ Record(e, sub[e.trial])
    BY <1>27 DEF Deleted
  <2>4. /\ applied' \subseteq Event /\ events' \subseteq Event
        /\ status' \in [Trials -> RowStatus \cup {"none"}]
        /\ \A t \in Trials : status'[t] = "none" <=> status[t] = "none"
        /\ cancel' \in [Trials -> BOOLEAN] /\ last' \in [Trials -> Nat]
    BY <2>1, <2>2, <2>3, RecordTypes
  <2> QED  BY <1>27, <2>4 DEF Deleted, TypeOK, grants
<1>28. ASSUME NEW e \in events, InvoicePaid(e) PROVE TypeOK'
  BY <1>28, Answers DEF InvoicePaid, Answered, TypeOK, rows
<1>29. ASSUME NEW e \in events, InvoiceFailed(e) PROVE TypeOK'
  <2>1. e \in Event /\ e.trial \in Trials /\ sub[e.trial] \in Subs
    BY DEF TypeOK, Event
  <2>2. sub[e.trial].status \in RowStatus /\ sub[e.trial].cancel \in BOOLEAN
    BY <1>29, <2>1 DEF InvoiceFailed, StripeInv, Subs, RowStatus, Live
  <2>3. status[e.trial] # "none"
    BY <1>29 DEF InvoiceFailed, Bound, Live
  <2>4. status[e.trial] \in RowStatus
    BY <2>1, <2>3 DEF TypeOK
  <2>5. events' \subseteq Event
    BY <1>29, Answers DEF InvoiceFailed, Answered, TypeOK
  <2>6. /\ status' \in [Trials -> RowStatus \cup {"none"}]
        /\ \A t \in Trials : status'[t] = "none" <=> status[t] = "none"
    BY <1>29, <2>1, <2>2, <2>4 DEF InvoiceFailed, TypeOK, RowStatus
  <2> QED  BY <1>29, <2>1, <2>2, <2>5, <2>6 DEF InvoiceFailed, TypeOK, grants
<1>30. ASSUME NEW w \in Workers, NEW t \in Trials, StartCancel(w, t) PROVE TypeOK'
  <2>1. pc' \in [Workers -> Stages] /\ job' \in [Workers -> Job]
    BY <1>30, Moves, JobTypes DEF StartCancel, Stages
  <2> QED  BY <1>30, <2>1 DEF StartCancel, TypeOK, rows, grants, stripe
<1>31. ASSUME NEW w \in Workers, CancelBilling(w) PROVE TypeOK'
  <2>1. job[w].trial \in Trials /\ job[w] \in Job
    BY <1>31 DEF CancelBilling, StageInv, StageOf, TypeOK
  <2>2. pc' \in [Workers -> Stages] /\ job' \in [Workers -> Job]
    BY <1>31, <2>1, Moves, Returns DEF CancelBilling, Stages
  <2>3. sub' \in [Trials -> Subs] /\ changes' \in Nat /\ events' \subseteq Event
    BY <1>31, <2>1, CancelTypes DEF CancelBilling, TypeOK
  <2> QED  BY <1>31, <2>2, <2>3 DEF CancelBilling, TypeOK, rows, grants
<1>32. ASSUME NEW w \in Workers, SaveCancel(w) PROVE TypeOK'
  BY <1>32, Returns DEF SaveCancel, TypeOK, grants, stripe
<1>33. ASSUME NEW w \in Workers, GiveUp(w) PROVE TypeOK'
  BY <1>33, Returns DEF GiveUp, TypeOK, rows, grants, stripe
<1>34. ASSUME NEW t \in Trials, Deadline(t) PROVE TypeOK'
  BY <1>34 DEF Deadline, TypeOK, rows, grants, stripe
<1>35. ASSUME NEW t \in Trials, SubStarts(t) PROVE TypeOK'
  <2>1. /\ [kind |-> "completed", trial |-> t, id |-> 0] \in Event
        /\ [status |-> "trialing", cancel |-> FALSE] \in Subs
    BY WebhookTypes DEF EventKinds, Subs, Live
  <2> QED  BY <1>35, <2>1 DEF SubStarts, TypeOK, rows, grants
<1>36. ASSUME NEW t \in Trials, SessionTimesOut(t) PROVE TypeOK'
  <2>1. [kind |-> "expired", trial |-> t, id |-> 0] \in Event
    BY WebhookTypes DEF EventKinds
  <2> QED  BY <1>36, <2>1 DEF SessionTimesOut, TypeOK, rows, grants
<1>37. ASSUME NEW t \in Trials, Bills(t) \/ BillFails(t) \/ Ends(t) PROVE TypeOK'
  <2>1. [sub[t] EXCEPT !.status = "canceled"] \in Subs
    BY DEF TypeOK, Subs
  <2>2. \E state \in Subs, kinds \in SUBSET EventKinds : Change(t, state, kinds)
    BY <1>37, <2>1 DEF Bills, BillFails, Ends, Subs, Live, EventKinds
  <2>3. sub' \in [Trials -> Subs] /\ changes' \in Nat /\ events' \subseteq Event
    BY <2>2, ChangeTypes
  <2> QED  BY <2>2, <2>3 DEF Change, TypeOK, rows, grants
<1>38. CASE UNCHANGED vars
  BY <1>38 DEF vars, rows, grants, stripe, TypeOK
<1> QED
  BY <1>1, <1>2, <1>3, <1>4, <1>6, <1>7, <1>8, <1>9, <1>10, <1>11, <1>12, <1>13, <1>14, <1>15,
     <1>16, <1>17, <1>18, <1>19, <1>20, <1>22, <1>23, <1>24, <1>25, <1>26, <1>27, <1>28, <1>29,
     <1>30, <1>31, <1>32, <1>33, <1>34, <1>35, <1>36, <1>37, <1>38
  DEF Next, Customer, Office, StartTrial, Continue, Webhook, Stripe

(***************************************************************************)
(* What a step may do at Stripe: nothing but be answered, open a session,  *)
(* expire one, complete one, or change a subscription and tell of it.      *)
(***************************************************************************)

Quietly == UNCHANGED <<session, sub, changes>> /\ events' \subseteq events

Opens(t) ==
    /\ owner[t] # None /\ ~late[t] /\ session[t] = "absent"
    /\ session' = [session EXCEPT ![t] = "open"]
    /\ UNCHANGED <<sub, events, changes>>

Expires(t) ==
    /\ session[t] \in {"open", "expired"}
    /\ session' = [session EXCEPT ![t] = "expired"]
    /\ events' = events \cup {[kind |-> "expired", trial |-> t, id |-> 0]}
    /\ UNCHANGED <<sub, changes>>

Accepts(t) ==
    /\ session[t] = "open"
    /\ session' = [session EXCEPT ![t] = "complete"]
    /\ sub' = [sub EXCEPT ![t] = [status |-> "trialing", cancel |-> FALSE]]
    /\ events' = events \cup {[kind |-> "completed", trial |-> t, id |-> 0]}
    /\ changes' = changes

\* What tells of the subscription's state; invoices tell of its payments.
Tells == {"updated", "deleted"}

News(t) ==
    /\ sub[t].status \in Live
    /\ \E state \in Subs :
          /\ state.status # "none" /\ (sub[t].cancel => state.cancel)
          /\ sub' = [sub EXCEPT ![t] = state]
    /\ session' = session
    /\ changes' = changes + 1
    /\ events' \subseteq events \cup [kind : Tells \cup {"paid", "failed"}, trial : {t}, id : {changes + 1}]
    /\ \E k \in Tells : [kind |-> k, trial |-> t, id |-> changes + 1] \in events'

StripeStep == Quietly \/ \E t \in Trials : Opens(t) \/ Expires(t) \/ Accepts(t) \/ News(t)

LEMMA StripeSteps == ASSUME TypeInv, [Next]_vars PROVE StripeStep
<1> USE DEF TypeInv
<1>1. ASSUME NEW t \in Trials, ExpireRemotely(t) PROVE StripeStep
  BY <1>1 DEF ExpireRemotely, StripeStep, Expires
<1>2. ASSUME NEW u \in Users, CancelOrder(u) PROVE StripeStep
  <2> DEFINE bound == {t \in Rows(u) : linked[t] /\ status[t] = "checkout"}
  <2>1. CASE bound = {}
    BY <1>2, <2>1 DEF CancelOrder, stripe, StripeStep, Quietly
  <2>2. CASE bound # {}
    <3>1. PICK t \in bound : ExpireRemotely(t)
      BY <1>2, <2>2 DEF CancelOrder
    <3> QED  BY <1>1, <3>1 DEF Rows
  <2> QED  BY <2>1, <2>2
<1>3. ASSUME NEW u \in Users, NEW t \in Trials, CancelOrderDies(u, t) PROVE StripeStep
  BY <1>1, <1>3 DEF CancelOrderDies
<1>4. ASSUME NEW w \in Workers, CreateSession(w) PROVE StripeStep
  <2> DEFINE t == job[w].trial
  <2>1. t \in Trials /\ owner[t] # None /\ ~late[t]
    BY <1>4 DEF CreateSession, StageInv, StageOf
  <2>2. CASE session[t] = "absent"
    BY <1>4, <2>1, <2>2 DEF CreateSession, StripeStep, Opens
  <2>3. CASE session[t] # "absent"
    BY <1>4, <2>1, <2>3 DEF CreateSession, StripeStep, Quietly, TypeOK
  <2> QED  BY <2>2, <2>3
<1>5. ASSUME NEW t \in Trials, NEW left \in SUBSET events, CancelRemotely(t, left),
             session' = session
      PROVE  StripeStep
  <2>1. sub \in [Trials -> Subs] /\ changes \in Nat
    BY DEF TypeOK
  <2>2. CASE sub[t].cancel
    <3>1. sub' = sub
      BY <1>5, <2>1, <2>2 DEF CancelRemotely, Subs
    <3> QED  BY <1>5, <2>2, <3>1 DEF CancelRemotely, StripeStep, Quietly
  <2>3. CASE ~sub[t].cancel
    <3> DEFINE state == [sub[t] EXCEPT !.cancel = TRUE]
               n == [kind |-> "updated", trial |-> t, id |-> changes + 1]
    <3>1. /\ state \in Subs /\ state.status # "none" /\ state.cancel
          /\ sub' = [sub EXCEPT ![t] = state]
      BY <1>5, <2>1 DEF CancelRemotely, Subs, Live
    <3>2. changes' = changes + 1 /\ events' = left \cup {n}
      BY <1>5, <2>3 DEF CancelRemotely
    <3>3. n \in [kind : Tells \cup {"paid", "failed"}, trial : {t}, id : {changes + 1}]
      BY DEF Tells
    <3> HIDE DEF state
    <3> QED  BY <1>5, <3>1, <3>2, <3>3 DEF CancelRemotely, StripeStep, News, Tells
  <2> QED  BY <2>2, <2>3
<1>6. ASSUME NEW w \in Workers, Complete(w) PROVE StripeStep
  <2> DEFINE t == job[w].trial
  <2>1. t \in Trials /\ session' = session
    BY <1>6 DEF Complete, StageInv, StageOf
  <2>2. PICK left \in Left(job[w].event) :
            IF plan[owner[t]] THEN CancelRemotely(t, left)
            ELSE events' = left /\ UNCHANGED <<sub, changes>>
    BY <1>6 DEF Complete
  <2>3. left \in SUBSET events
    BY <2>2, Answers
  <2> QED  BY <1>5, <2>1, <2>2, <2>3 DEF StripeStep, Quietly
<1>7. ASSUME NEW w \in Workers, CompleteFails(w) PROVE StripeStep
  <2>1. job[w].trial \in Trials /\ session' = session
    BY <1>7 DEF CompleteFails, StageInv, StageOf
  <2> QED  BY <1>5, <1>7, <2>1 DEF CompleteFails, StripeStep, Quietly
<1>8. ASSUME NEW w \in Workers, CancelBilling(w) PROVE StripeStep
  <2>1. job[w].trial \in Trials /\ session' = session
    BY <1>8 DEF CancelBilling, StageInv, StageOf
  <2> QED  BY <1>5, <1>8, <2>1 DEF CancelBilling, StripeStep, Quietly
<1>9. ASSUME NEW t \in Trials, SubStarts(t) PROVE StripeStep
  BY <1>9 DEF SubStarts, StripeStep, Accepts
<1>10. ASSUME NEW t \in Trials, SessionTimesOut(t) PROVE StripeStep
  BY <1>10 DEF SessionTimesOut, StripeStep, Expires
<1>11. ASSUME NEW t \in Trials, Bills(t) \/ BillFails(t) \/ Ends(t) PROVE StripeStep
  <2>1. /\ [sub[t] EXCEPT !.status = "canceled"] \in Subs
        /\ [sub[t] EXCEPT !.status = "canceled"].status = "canceled"
        /\ [sub[t] EXCEPT !.status = "canceled"].cancel = sub[t].cancel
    BY DEF TypeOK, Subs
  <2>2. /\ sub[t].status \in Live
        /\ \E state \in Subs, k \in Tells, kinds \in SUBSET (Tells \cup {"paid", "failed"}) :
              /\ state.status # "none" /\ (sub[t].cancel => state.cancel) /\ k \in kinds
              /\ Change(t, state, kinds)
    BY <1>11, <2>1 DEF Bills, BillFails, Ends, Subs, Live, Tells
  <2>3. PICK state \in Subs, k \in Tells, kinds \in SUBSET (Tells \cup {"paid", "failed"}) :
            /\ state.status # "none" /\ (sub[t].cancel => state.cancel) /\ k \in kinds
            /\ Change(t, state, kinds)
    BY <2>2
  <2> DEFINE new == [kind : kinds, trial : {t}, id : {changes + 1}]
  <2>4. events' = events \cup new /\ sub' = [sub EXCEPT ![t] = state]
        /\ session' = session /\ changes' = changes + 1
    BY <2>3 DEF Change
  <2>5. [kind |-> k, trial |-> t, id |-> changes + 1] \in new
    BY <2>3
  <2>6. new \subseteq [kind : Tells \cup {"paid", "failed"}, trial : {t}, id : {changes + 1}]
    OBVIOUS
  <2> HIDE DEF new
  <2>7. News(t)
    BY <2>2, <2>3, <2>4, <2>5, <2>6 DEF News
  <2> QED  BY <2>7 DEF StripeStep
<1>12. ASSUME NEW e \in events,
              SessionExpired(e) \/ AlreadyGranted(e) \/ Deleted(e) \/ InvoicePaid(e) \/ InvoiceFailed(e)
       PROVE  StripeStep
  BY <1>12, Answers
  DEF SessionExpired, AlreadyGranted, Deleted, Record, InvoicePaid, InvoiceFailed, Answered,
      StripeStep, Quietly
<1>13. ASSUME NEW w \in Workers, CompleteBound(w) \/ ApplyLifecycle(w) PROVE StripeStep
  BY <1>13, Answers DEF CompleteBound, ApplyLifecycle, Record, Answered, StripeStep, Quietly
<1>14. CASE UNCHANGED stripe
  BY <1>14 DEF stripe, StripeStep, Quietly
<1>15. CASE UNCHANGED vars
  BY <1>14, <1>15 DEF vars
<1>16. ASSUME NEW u \in Users,
              \/ PlaceOrder(u) \/ ExpireOrder(u) \/ OperatorSettles(u) \/ OtherGrant(u) \/ PlanEnds(u)
       PROVE  StripeStep
  BY <1>14, <1>16 DEF PlaceOrder, ExpireOrder, OperatorSettles, OtherGrant, PlanEnds
<1>17. ASSUME NEW w \in Workers, NEW u \in Users, NEW b \in BOOLEAN, NEW t \in Trials,
              Claim(w, u, b, t) \/ Resume(w, u, b, t)
       PROVE  StripeStep
  BY <1>14, <1>17 DEF Claim, Resume
<1>18. ASSUME NEW w \in Workers,
              \/ SearchSession(w) \/ SaveSession(w) \/ ReadSession(w) \/ ReleaseExpired(w)
              \/ ReplaceAbsent(w) \/ ReadSubscription(w) \/ SaveCancel(w) \/ GiveUp(w)
       PROVE  StripeStep
  BY <1>14, <1>18 DEF SearchSession, SaveSession, ReadSession, ReleaseExpired, ReplaceAbsent,
                      ReadSubscription, SaveCancel, GiveUp
<1>19. ASSUME NEW w \in Workers, NEW e \in events, Deliver(w, e) \/ DeliverUpdated(w, e)
       PROVE  StripeStep
  BY <1>14, <1>19 DEF Deliver, DeliverUpdated
<1>20. ASSUME NEW t \in Trials, Deadline(t) PROVE StripeStep
  BY <1>14, <1>20 DEF Deadline
<1>21. ASSUME NEW w \in Workers, NEW t \in Trials, Confirm(w, t) \/ StartCancel(w, t)
       PROVE  StripeStep
  BY <1>14, <1>21 DEF Confirm, StartCancel
<1> QED
  BY <1>2, <1>3, <1>4, <1>6, <1>7, <1>8, <1>9, <1>10, <1>11, <1>12, <1>13, <1>15, <1>16, <1>17,
     <1>18, <1>19, <1>20, <1>21
  DEF Next, Customer, Office, StartTrial, Continue, Webhook, Stripe

\* A row stays its owner's, a deadline stays passed, and only what Stripe has said
\* is entered as applied.
LEMMA Forward ==
    ASSUME TypeInv, [Next]_vars
    PROVE  /\ \A t \in Trials : owner[t] # None => owner'[t] = owner[t]
           /\ \A t \in Trials : late[t] => late'[t]
           /\ \A e \in applied' : e.id <= changes
<1> USE DEF TypeInv
<1> DEFINE Goal == /\ \A t \in Trials : owner[t] # None => owner'[t] = owner[t]
                   /\ \A t \in Trials : late[t] => late'[t]
                   /\ \A e \in applied' : e.id <= changes
<1> SUFFICES Goal
  OBVIOUS
<1>1. ASSUME NEW w \in Workers, NEW u \in Users, NEW b \in BOOLEAN, NEW t \in Trials, Claim(w, u, b, t)
      PROVE  Goal
  BY <1>1 DEF Claim, StripeInv, TypeOK
<1>2. ASSUME NEW t \in Trials, Deadline(t) PROVE Goal
  BY <1>2 DEF Deadline, StripeInv, TypeOK, rows
<1>3. ASSUME NEW w \in Workers, ApplyLifecycle(w) PROVE Goal
  <2>1. job[w].event.id <= changes
    BY <1>3 DEF ApplyLifecycle, StageInv, StageOf
  <2>2. applied' \subseteq applied \cup {job[w].event}
    BY <1>3 DEF ApplyLifecycle, Record
  <2> QED  BY <1>3, <2>1, <2>2 DEF ApplyLifecycle, StripeInv
<1>4. ASSUME NEW e \in events, Deleted(e) PROVE Goal
  BY <1>4 DEF Deleted, Record, StripeInv
<1>5. CASE UNCHANGED <<owner, late, applied>>
  BY <1>5 DEF StripeInv
<1>6. CASE UNCHANGED vars
  BY <1>5, <1>6 DEF vars, rows
<1>7. ASSUME NEW u \in Users,
             \/ PlaceOrder(u) \/ CancelOrder(u) \/ ExpireOrder(u) \/ OperatorSettles(u)
             \/ OtherGrant(u) \/ PlanEnds(u)
      PROVE  Goal
  BY <1>5, <1>7
  DEF PlaceOrder, CancelOrder, ExpireOrder, OperatorSettles, OtherGrant, PlanEnds, rows
<1>8. ASSUME NEW w \in Workers, NEW u \in Users, NEW b \in BOOLEAN, NEW t \in Trials, Resume(w, u, b, t)
      PROVE  Goal
  BY <1>5, <1>8 DEF Resume, rows
<1>14. ASSUME NEW w \in Workers, NEW t \in Trials, Confirm(w, t) \/ StartCancel(w, t)
       PROVE  Goal
  BY <1>5, <1>14 DEF Confirm, StartCancel, rows
<1>15. ASSUME NEW u \in Users, NEW t \in Trials, CancelOrderDies(u, t) PROVE Goal
  BY <1>5, <1>15 DEF CancelOrderDies, rows
<1>16. ASSUME NEW w \in Workers, NEW e \in events, Deliver(w, e) \/ DeliverUpdated(w, e)
       PROVE  Goal
  BY <1>5, <1>16 DEF Deliver, DeliverUpdated, rows
<1>9. ASSUME NEW w \in Workers,
             \/ CreateSession(w) \/ SearchSession(w) \/ SaveSession(w) \/ ReadSession(w)
             \/ ReleaseExpired(w) \/ ReplaceAbsent(w) \/ ReadSubscription(w)
      PROVE  Goal
  BY <1>5, <1>9
  DEF CreateSession, SearchSession, SaveSession, ReadSession, ReleaseExpired, ReplaceAbsent,
      ReadSubscription, rows
<1>10. ASSUME NEW w \in Workers,
              \/ Complete(w) \/ CompleteBound(w) \/ CompleteFails(w)
              \/ CancelBilling(w) \/ SaveCancel(w) \/ GiveUp(w)
       PROVE  Goal
  BY <1>5, <1>10 DEF Complete, CompleteBound, CompleteFails, CancelBilling, SaveCancel, GiveUp, rows
<1>11. ASSUME NEW e \in events,
              \/ SessionExpired(e) \/ AlreadyGranted(e) \/ InvoicePaid(e) \/ InvoiceFailed(e)
       PROVE  Goal
  BY <1>5, <1>11 DEF SessionExpired, AlreadyGranted, InvoicePaid, InvoiceFailed, rows
<1>12. ASSUME NEW t \in Trials,
              SubStarts(t) \/ SessionTimesOut(t) \/ Bills(t) \/ BillFails(t) \/ Ends(t)
       PROVE  Goal
  BY <1>5, <1>12 DEF SubStarts, SessionTimesOut, Bills, BillFails, Ends, Change, rows
<1> HIDE DEF Goal
<1> QED
  BY <1>1, <1>2, <1>3, <1>4, <1>6, <1>7, <1>8, <1>9, <1>10, <1>11, <1>12, <1>14,
     <1>15, <1>16
  DEF Next, Customer, Office, StartTrial, Continue, Webhook, Stripe

\* Sessions and subscriptions only go on: what has ended stays as it ended.
LEMMA SessionsGoOn ==
    ASSUME TypeInv, [Next]_vars
    PROVE  /\ \A t \in Trials : session[t] \in {"complete", "expired"} => session'[t] = session[t]
           /\ \A t \in Trials : Gone(t) => Gone(t)'
           /\ changes' \in Nat /\ changes <= changes'
<1> USE DEF TypeInv
<1>1. StripeStep
  BY StripeSteps
<1>2. /\ \A t \in Trials : session[t] \in {"complete", "expired"} => session'[t] = session[t]
      /\ \A t \in Trials : session[t] = "absent" /\ late[t] => session'[t] = "absent"
      /\ changes' \in Nat /\ changes <= changes'
  BY <1>1 DEF StripeStep, Quietly, Opens, Expires, Accepts, News, TypeOK
<1> QED  BY <1>2, Forward DEF Gone

LEMMA NextStripeInv == ASSUME TypeInv, [Next]_vars PROVE StripeInv'
<1> USE DEF TypeInv
<1>1. /\ session \in [Trials -> {"absent", "open", "complete", "expired"}] /\ sub \in [Trials -> Subs]
      /\ changes \in Nat /\ \A e \in events : e.trial \in Trials /\ e.id \in Nat
  BY DEF TypeOK, Event
<1>2. /\ \A t \in Trials : owner[t] # None => owner'[t] # None
      /\ \A e \in applied' : e.id <= changes /\ e.id \in Nat
  BY Forward, NextTypeOK DEF TypeOK, Event
<1>3. CASE Quietly
  BY <1>2, <1>3 DEF Quietly, StripeInv
<1>4. ASSUME NEW t \in Trials, Opens(t) PROVE StripeInv'
  BY <1>1, <1>2, <1>4 DEF Opens, StripeInv
<1>5. ASSUME NEW t \in Trials, Expires(t) PROVE StripeInv'
  <2> DEFINE n == [kind |-> "expired", trial |-> t, id |-> 0]
  <2>1. n.kind = "expired" /\ n.trial = t /\ n.id = 0
    OBVIOUS
  <2>2. events' = events \cup {n}
    BY <1>5 DEF Expires
  <2> HIDE DEF n
  <2> QED  BY <1>1, <1>2, <1>5, <2>1, <2>2 DEF Expires, StripeInv
<1>6. ASSUME NEW t \in Trials, Accepts(t) PROVE StripeInv'
  <2> DEFINE n == [kind |-> "completed", trial |-> t, id |-> 0]
  <2>1. n.kind = "completed" /\ n.trial = t /\ n.id = 0
    OBVIOUS
  <2>2. events' = events \cup {n}
    BY <1>6 DEF Accepts
  <2> HIDE DEF n
  <2> QED  BY <1>1, <1>2, <1>6, <2>1, <2>2 DEF Accepts, StripeInv
<1>7. ASSUME NEW t \in Trials, News(t) PROVE StripeInv'
  <2>1. \A e \in events' : e \in events \/ (e.kind # "expired" /\ e.trial = t /\ e.id = changes')
    BY <1>7 DEF News, Tells
  <2>2. session[t] = "complete" /\ session' = session /\ changes' = changes + 1
    BY <1>7 DEF News, StripeInv, Live
  <2>3. \A x \in Trials : sub'[x].status # "none" <=> sub[x].status # "none"
    BY <1>1, <1>7 DEF News, Live
  <2> QED  BY <1>1, <1>2, <2>1, <2>2, <2>3 DEF StripeInv
<1> QED  BY StripeSteps, <1>3, <1>4, <1>5, <1>6, <1>7 DEF StripeStep

\* A handler that does not move keeps what its stage says.
LEMMA StageKept ==
    ASSUME TypeInv, [Next]_vars, NEW v \in Workers, pc'[v] = pc[v], job'[v] = job[v]
    PROVE  StageOf(v)'
<1>1. StageOf(v)
  BY DEF TypeInv, StageInv
<1>2. /\ \A t \in Trials : owner[t] # None => owner'[t] = owner[t]
      /\ \A t \in Trials : session[t] \in {"complete", "expired"} => session'[t] = session[t]
      /\ \A t \in Trials : Gone(t) => Gone(t)'
      /\ changes' \in Nat /\ changes <= changes'
  BY Forward, SessionsGoOn
<1>3. /\ pc[v] # "idle" => job[v].trial \in Trials /\ owner'[job[v].trial] # None
      /\ pc[v] = "expire" => session'[job[v].trial] = "expired"
      /\ pc[v] = "replace" => Gone(job[v].trial)'
      /\ pc[v] \in {"subscription", "complete", "lifecycle", "cancel", "saveCancel"}
            => session'[job[v].trial] = "complete"
  BY <1>1, <1>2 DEF StageOf
<1>4. pc[v] = "lifecycle" => job[v].event.id <= changes'
  BY <1>1, <1>2 DEF StageOf, TypeInv, TypeOK, Event
<1> QED  BY <1>1, <1>3, <1>4 DEF StageOf, Gone

LEMMA NextStageInv == ASSUME TypeInv, [Next]_vars PROVE StageInv'
<1> USE DEF TypeInv
<1>1. ASSUME NEW w \in Workers, StageOf(w)', \A v \in Workers \ {w} : pc'[v] = pc[v] /\ job'[v] = job[v]
      PROVE  StageInv'
  BY <1>1, StageKept DEF StageInv
<1>2. CASE UNCHANGED <<pc, job>>
  BY <1>2, StageKept DEF StageInv
<1>3. ASSUME NEW w \in Workers, Return(w) PROVE StageInv'
  <2>1. pc'[w] = "idle" /\ \A v \in Workers \ {w} : pc'[v] = pc[v] /\ job'[v] = job[v]
    BY <1>3, Returns
  <2>2. StageOf(w)'
    BY <2>1 DEF StageOf
  <2> QED  BY <1>1, <2>1, <2>2
<1>4. /\ \A t \in Trials : owner[t] # None => owner'[t] = owner[t]
      /\ \A t \in Trials : session[t] \in {"complete", "expired"} => session'[t] = session[t]
      /\ \A t \in Trials : Gone(t) => Gone(t)'
  BY Forward, SessionsGoOn
\* To the stages that say no more than that the row exists.
<1>5. ASSUME NEW w \in Workers, NEW j \in Job, NEW s \in {"restart", "create", "save", "read", "confirm"},
             Goto(w, s, j), j.trial \in Trials, owner'[j.trial] # None,
             j.event = None \/ j.event.kind = "completed"
      PROVE  StageInv'
  <2>1. /\ pc'[w] = s /\ job'[w] = j
        /\ \A v \in Workers \ {w} : pc'[v] = pc[v] /\ job'[v] = job[v]
    BY <1>5, Moves DEF Stages
  <2>2. StageOf(w)'
    BY <1>5, <2>1 DEF StageOf
  <2> QED  BY <1>1, <2>1, <2>2
<1>6. ASSUME NEW w \in Workers, NEW j \in Job, NEW s \in {"expire", "replace"},
             Goto(w, s, j), j.trial \in Trials, owner[j.trial] # None,
             s = "expire" => session[j.trial] = "expired",
             s = "replace" => Gone(j.trial),
             j.event = None \/ j.event.kind = "completed"
      PROVE  StageInv'
  <2>1. /\ pc'[w] = s /\ job'[w] = j
        /\ \A v \in Workers \ {w} : pc'[v] = pc[v] /\ job'[v] = job[v]
    BY <1>6, Moves DEF Stages
  <2>2. /\ owner'[j.trial] # None
        /\ s = "expire" => session'[j.trial] = "expired"
        /\ s = "replace" => Gone(j.trial)'
    BY <1>4, <1>6
  <2>3. StageOf(w)'
    BY <1>6, <2>1, <2>2 DEF StageOf, Gone
  <2> QED  BY <1>1, <2>1, <2>3
\* To the stages that work on a completed session.
<1>7. ASSUME NEW w \in Workers, NEW j \in Job,
             NEW s \in {"subscription", "complete", "cancel", "saveCancel"},
             Goto(w, s, j), j.trial \in Trials, session[j.trial] = "complete",
             j.event = None \/ j.event.kind = "completed",
             s = "complete" => j.seen.status # "none"
      PROVE  StageInv'
  <2>1. /\ pc'[w] = s /\ job'[w] = j
        /\ \A v \in Workers \ {w} : pc'[v] = pc[v] /\ job'[v] = job[v]
    BY <1>7, Moves DEF Stages
  <2>2. owner'[j.trial] # None /\ session'[j.trial] = "complete"
    BY <1>4, <1>7 DEF StripeInv
  <2>3. StageOf(w)'
    BY <1>7, <2>1, <2>2 DEF StageOf
  <2> QED  BY <1>1, <2>1, <2>3
<1>8. \A w \in Workers : job[w] \in Job
  BY DEF TypeOK
<1>9. \A e \in events : e \in Event /\ e.trial \in Trials /\ e.id \in Nat /\ e.id <= changes
  BY DEF TypeOK, StripeInv, Event
<1>10. ASSUME NEW w \in Workers, NEW u \in Users, NEW b \in BOOLEAN, NEW t \in Trials, Claim(w, u, b, t)
       PROVE  StageInv'
  <2>1. owner'[t] = u /\ u # None
    BY <1>10, TrialAssumption DEF Claim, TypeOK
  <2> DEFINE j == [NoJob EXCEPT !.user = u, !.trial = t, !.ordered = b]
  <2>2. j \in Job
    BY JobTypes
  <2>3. j.trial = t /\ j.event = None
    BY DEF NoJob
  <2>4. Goto(w, "create", j)
    BY <1>10 DEF Claim
  <2> HIDE DEF j
  <2> QED  BY <1>5, <2>1, <2>2, <2>3, <2>4
<1>11. ASSUME NEW w \in Workers, NEW u \in Users, NEW b \in BOOLEAN, NEW t \in Trials, Resume(w, u, b, t)
       PROVE  StageInv'
  <2>1. owner'[t] = u /\ u # None
    BY <1>11, TrialAssumption DEF Resume, rows
  <2> DEFINE j == [NoJob EXCEPT !.user = u, !.trial = t, !.ordered = b]
  <2>2. j \in Job
    BY JobTypes
  <2>3. j.trial = t /\ j.event = None
    BY DEF NoJob
  <2>4. Goto(w, "read", j) \/ Goto(w, "create", j)
    BY <1>11 DEF Resume
  <2> HIDE DEF j
  <2> QED  BY <1>5, <2>1, <2>2, <2>3, <2>4
\* What the checkout's handlers work on.
<1>12. ASSUME NEW w \in Workers, pc[w] \notin {"idle", "lifecycle"}
       PROVE  /\ job[w].trial \in Trials /\ owner[job[w].trial] # None /\ owner'[job[w].trial] # None
              /\ job[w].event = None \/ job[w].event.kind = "completed"
  BY <1>4, <1>12 DEF StageInv, StageOf
<1>13. ASSUME NEW w \in Workers, CreateSession(w) \/ SaveSession(w) PROVE StageInv'
  BY <1>3, <1>5, <1>8, <1>12, <1>13 DEF CreateSession, SaveSession
<1>14. ASSUME NEW w \in Workers, SearchSession(w) PROVE StageInv'
  BY <1>5, <1>6, <1>8, <1>12, <1>14 DEF SearchSession, Gone
<1>15. ASSUME NEW w \in Workers, ReadSession(w) PROVE StageInv'
  <2> DEFINE j == [job[w] EXCEPT !.found = (pc[w] = "confirm")]
  <2>1. j \in Job /\ j.trial = job[w].trial /\ j.event = job[w].event
    BY <1>8, JobTypes, JobFields
  <2>2. \/ session[job[w].trial] = "expired" /\ Goto(w, "expire", j)
        \/ session[job[w].trial] = "complete" /\ Goto(w, "subscription", job[w])
        \/ Return(w)
    BY <1>15 DEF ReadSession
  <2>3. pc[w] \notin {"idle", "lifecycle"}
    BY <1>15 DEF ReadSession
  <2> HIDE DEF j
  <2> QED  BY <1>3, <1>6, <1>7, <1>8, <1>12, <2>1, <2>2, <2>3
<1>16. ASSUME NEW w \in Workers, ReleaseExpired(w) PROVE StageInv'
  <2>1. pc[w] = "expire" /\ session[job[w].trial] = "expired"
    BY <1>16 DEF ReleaseExpired, StageInv, StageOf
  <2> QED  BY <1>5, <1>6, <1>8, <1>12, <1>16, <2>1 DEF ReleaseExpired, Gone
<1>17. ASSUME NEW w \in Workers, ReplaceAbsent(w) PROVE StageInv'
  <2> DEFINE j == [job[w] EXCEPT !.ordered = linked[job[w].trial]]
  <2>1. pc[w] = "replace"
    BY <1>17 DEF ReplaceAbsent
  <2>2. linked[job[w].trial] \in BOOLEAN
    BY <1>12, <2>1 DEF TypeOK
  <2>3. j \in Job /\ j.trial = job[w].trial /\ j.event = job[w].event
    BY <1>8, <2>2, JobTypes, JobFields
  <2>4. Goto(w, "restart", j) \/ Return(w)
    BY <1>17 DEF ReplaceAbsent
  <2> HIDE DEF j
  <2> QED  BY <1>3, <1>5, <1>12, <2>1, <2>3, <2>4
<1>18. ASSUME NEW w \in Workers, NEW e \in events, Deliver(w, e) PROVE StageInv'
  <2>1. session[e.trial] = "complete"
    BY <1>18 DEF Deliver, StripeInv
  <2> DEFINE j == [NoJob EXCEPT !.trial = e.trial, !.event = e]
  <2>2. j \in Job
    BY <1>9, JobTypes
  <2>3. j.trial = e.trial /\ j.event = e
    BY DEF NoJob
  <2>4. Goto(w, "subscription", j) /\ e.kind = "completed"
    BY <1>18 DEF Deliver
  <2> HIDE DEF j
  <2> QED  BY <1>7, <1>9, <2>1, <2>2, <2>3, <2>4
<1>19. ASSUME NEW w \in Workers, NEW t \in Trials, Confirm(w, t) PROVE StageInv'
  <2> DEFINE j == [NoJob EXCEPT !.trial = t]
  <2>1. j \in Job
    BY JobTypes
  <2>2. j.trial = t /\ j.event = None
    BY DEF NoJob
  <2>3. Goto(w, "subscription", j) /\ session[t] = "complete"
    BY <1>19 DEF Confirm
  <2> HIDE DEF j
  <2> QED  BY <1>7, <2>1, <2>2, <2>3
<1>20. ASSUME NEW w \in Workers, ReadSubscription(w) PROVE StageInv'
  <2> DEFINE j == [job[w] EXCEPT !.seen = sub[job[w].trial]]
  <2>1. pc[w] = "subscription" /\ session[job[w].trial] = "complete"
    BY <1>20 DEF ReadSubscription, StageInv, StageOf
  <2>2. sub[job[w].trial] \in Subs /\ sub[job[w].trial].status # "none"
    BY <1>12, <2>1 DEF TypeOK, StripeInv
  <2>3. j \in Job
    BY <1>8, <2>2, JobTypes
  <2>4. j.trial = job[w].trial /\ j.event = job[w].event /\ j.seen = sub[job[w].trial]
    BY <1>8 DEF Job
  <2>5. Goto(w, "complete", j)
    BY <1>20 DEF ReadSubscription
  <2> HIDE DEF j
  <2> QED  BY <1>7, <1>12, <2>1, <2>2, <2>3, <2>4, <2>5
<1>21. ASSUME NEW w \in Workers, NEW e \in events, DeliverUpdated(w, e) PROVE StageInv'
  <2> DEFINE j == [NoJob EXCEPT !.trial = e.trial, !.event = e, !.seen = sub[e.trial]]
  <2>1. e.kind = "updated" /\ session[e.trial] = "complete" /\ owner[e.trial] # None
    BY <1>9, <1>21 DEF DeliverUpdated, StripeInv
  <2>2. sub[e.trial] \in Subs /\ sub[e.trial].status # "none"
    BY <1>9, <2>1 DEF TypeOK, StripeInv
  <2>8. j \in Job
    BY <1>9, <2>2, JobTypes
  <2>3. j.trial = e.trial /\ j.event = e /\ j.seen = sub[e.trial]
    BY DEF NoJob
  <2>4. Goto(w, "lifecycle", j) /\ changes' = changes
    BY <1>21 DEF DeliverUpdated, stripe
  <2> HIDE DEF j
  <2>5. /\ pc'[w] = "lifecycle" /\ job'[w] = j
        /\ \A v \in Workers \ {w} : pc'[v] = pc[v] /\ job'[v] = job[v]
    BY <2>8, <2>4, Moves DEF Stages
  <2>6. owner'[e.trial] # None /\ session'[e.trial] = "complete"
    BY <1>4, <1>9, <2>1
  <2>7. StageOf(w)'
    BY <1>9, <2>1, <2>2, <2>3, <2>4, <2>5, <2>6 DEF StageOf
  <2> QED  BY <1>1, <2>5, <2>7
<1>22. ASSUME NEW w \in Workers, NEW t \in Trials, StartCancel(w, t) PROVE StageInv'
  <2> DEFINE j == [NoJob EXCEPT !.trial = t]
  <2>1. j \in Job
    BY JobTypes
  <2>2. j.trial = t /\ j.event = None
    BY DEF NoJob
  <2>3. Goto(w, "cancel", j) /\ status[t] \in Live
    BY <1>22 DEF StartCancel
  <2>4. session[t] = "complete"
    BY <2>3 DEF BoundInv, Bound
  <2> HIDE DEF j
  <2> QED  BY <1>7, <2>1, <2>2, <2>3, <2>4
<1>23. ASSUME NEW w \in Workers, CancelBilling(w) PROVE StageInv'
  <2>1. pc[w] = "cancel" /\ session[job[w].trial] = "complete"
    BY <1>23 DEF CancelBilling, StageInv, StageOf
  <2>2. Goto(w, "saveCancel", job[w]) \/ Return(w)
    BY <1>23 DEF CancelBilling
  <2> QED  BY <1>3, <1>7, <1>8, <1>12, <2>1, <2>2
<1>24. ASSUME NEW w \in Workers,
              \/ Complete(w) \/ CompleteBound(w) \/ CompleteFails(w) \/ ApplyLifecycle(w)
              \/ SaveCancel(w) \/ GiveUp(w)
       PROVE  StageInv'
  BY <1>3, <1>24 DEF Complete, CompleteBound, CompleteFails, ApplyLifecycle, SaveCancel, GiveUp
<1>25. CASE UNCHANGED vars
  BY <1>2, <1>25 DEF vars
<1>26. ASSUME NEW u \in Users,
              \/ PlaceOrder(u) \/ CancelOrder(u) \/ ExpireOrder(u) \/ OperatorSettles(u)
              \/ OtherGrant(u) \/ PlanEnds(u)
       PROVE  StageInv'
  BY <1>2, <1>26
  DEF PlaceOrder, CancelOrder, ExpireOrder, OperatorSettles, OtherGrant, PlanEnds
<1>27. ASSUME NEW u \in Users, NEW t \in Trials, CancelOrderDies(u, t) PROVE StageInv'
  BY <1>2, <1>27 DEF CancelOrderDies
<1>28. ASSUME NEW e \in events,
              \/ SessionExpired(e) \/ AlreadyGranted(e) \/ Deleted(e) \/ InvoicePaid(e)
              \/ InvoiceFailed(e)
       PROVE  StageInv'
  BY <1>2, <1>28 DEF SessionExpired, AlreadyGranted, Deleted, InvoicePaid, InvoiceFailed
<1>29. ASSUME NEW t \in Trials,
              \/ Deadline(t) \/ SubStarts(t) \/ SessionTimesOut(t) \/ Bills(t) \/ BillFails(t)
              \/ Ends(t)
       PROVE  StageInv'
  BY <1>2, <1>29 DEF Deadline, SubStarts, SessionTimesOut, Bills, BillFails, Ends, Change
<1> QED
  BY <1>10, <1>11, <1>13, <1>14, <1>15, <1>16, <1>17, <1>18, <1>19, <1>20, <1>21, <1>22, <1>23,
     <1>24, <1>25, <1>26, <1>27, <1>28, <1>29
  DEF Next, Customer, Office, StartTrial, Continue, Webhook, Stripe

(***************************************************************************)
(* What a step may make of a row's status.                                 *)
(***************************************************************************)

StatusStep(t) ==
    \/ status'[t] = status[t]
    \/ /\ owner[t] = None /\ owner'[t] # None /\ status'[t] = "checkout"
       /\ \A x \in Trials \ {t} : owner'[x] = owner[x] /\ (owner[x] = owner'[t] => ~Open(x))
    \/ status[t] = "checkout" /\ status'[t] = "expired" /\ Gone(t)'
    \/ /\ status[t] = "checkout" /\ Bound(t)' /\ session[t] = "complete"
       /\ settled'[t] = settled[t] + 1
       /\ linked'[t] = linked[t] /\ (linked[t] => order'[owner[t]] = "paid")
    \/ status[t] \in Live /\ Bound(t)'

LEMMA StatusSteps == ASSUME TypeInv, [Next]_vars PROVE \A t \in Trials : StatusStep(t)
<1> USE DEF TypeInv
<1> DEFINE Goal == \A t \in Trials : StatusStep(t)
<1> SUFFICES Goal
  OBVIOUS
<1>1. \A t \in Trials : session[t] = "expired" => Gone(t)'
  BY SessionsGoOn DEF Gone
<1>2. status \in [Trials -> RowStatus \cup {"none"}]
  BY DEF TypeOK
<1>3. ASSUME NEW u \in Users, CancelOrder(u) PROVE Goal
  <2> DEFINE bound == {t \in Rows(u) : linked[t] /\ status[t] = "checkout"}
  <2>1. \A t \in Trials : t \notin bound => status'[t] = status[t]
    BY <1>3 DEF CancelOrder
  <2>2. ASSUME NEW t \in bound PROVE StatusStep(t)
    <3>1. t \in Trials /\ status[t] = "checkout" /\ status'[t] = "expired"
      BY <1>3, <2>2 DEF CancelOrder, Rows
    <3>2. session' = [session EXCEPT ![t] = "expired"]
      BY <1>3, <2>2 DEF CancelOrder, ExpireRemotely
    <3>3. Gone(t)'
      BY <3>1, <3>2 DEF Gone, TypeOK
    <3> QED  BY <3>1, <3>3 DEF StatusStep
  <2> QED  BY <2>1, <2>2 DEF StatusStep
<1>4. ASSUME NEW w \in Workers, NEW u \in Users, NEW b \in BOOLEAN, NEW t \in Trials, Claim(w, u, b, t)
      PROVE  Goal
  <2>1. u # None
    BY TrialAssumption
  <2>2. /\ owner[t] = None /\ owner' = [owner EXCEPT ![t] = u]
        /\ status' = [status EXCEPT ![t] = "checkout"]
        /\ \A x \in Rows(u) : ~Open(x)
    BY <1>4 DEF Claim
  <2> QED  BY <1>2, <2>1, <2>2 DEF StatusStep, TypeOK, Rows
<1>5. ASSUME NEW w \in Workers, ReleaseExpired(w) PROVE Goal
  <2>1. job[w].trial \in Trials /\ session[job[w].trial] = "expired"
    BY <1>5 DEF ReleaseExpired, StageInv, StageOf
  <2> QED  BY <1>1, <1>2, <1>5, <2>1 DEF ReleaseExpired, Expire, StatusStep
<1>6. ASSUME NEW e \in events, SessionExpired(e) PROVE Goal
  <2>1. e.trial \in Trials /\ session[e.trial] = "expired"
    BY <1>6 DEF SessionExpired, StripeInv, TypeOK, Event
  <2> QED  BY <1>1, <1>2, <1>6, <2>1 DEF SessionExpired, Expire, StatusStep
<1>7. ASSUME NEW w \in Workers, ReplaceAbsent(w) PROVE Goal
  <2>1. pc[w] = "replace"
    BY <1>7 DEF ReplaceAbsent
  <2>2. PICK t \in Trials : t = job[w].trial /\ Gone(t)
    BY <2>1 DEF StageInv, StageOf
  <2>3. Gone(t)'
    BY <2>2, SessionsGoOn
  <2>4. \/ status' = status
        \/ status[t] \in {"checkout", "expired"} /\ status' = [status EXCEPT ![t] = "expired"]
    BY <1>7, <2>2 DEF ReplaceAbsent
  <2> QED  BY <1>2, <2>2, <2>3, <2>4 DEF StatusStep
<1>8. ASSUME NEW state \in Subs, state.status # "none" PROVE state.status \in Live \cup {"canceled"}
  BY <1>8 DEF Subs
<1>9. ASSUME NEW w \in Workers, Complete(w) PROVE Goal
  <2>1. /\ job[w].trial \in Trials /\ session[job[w].trial] = "complete"
        /\ job[w].seen \in Subs /\ job[w].seen.status # "none"
    BY <1>9 DEF Complete, StageInv, StageOf, TypeOK, Job
  <2> DEFINE t == job[w].trial
  <2>2. job[w].seen.status \in Live \cup {"canceled"}
    BY <1>8, <2>1
  <2>3. status[t] = "checkout" /\ status' = [status EXCEPT ![t] = job[w].seen.status]
    BY <1>9 DEF Complete
  <2>4. owner[t] \in Users
    BY <2>1, <2>3 DEF TypeOK
  <2>5. /\ settled'[t] = settled[t] + 1 /\ linked'[t] = linked[t]
        /\ linked[t] => order'[owner[t]] = "paid"
    BY <1>9, <2>1, <2>4 DEF Complete, SettleTrial, TypeOK
  <2>6. \A x \in Trials \ {t} : status'[x] = status[x]
    BY <1>2, <2>3
  <2>7. status'[t] \in Live \cup {"canceled"}
    BY <1>2, <2>1, <2>2, <2>3
  <2> QED  BY <2>1, <2>3, <2>5, <2>6, <2>7 DEF StatusStep, Bound
<1>10. ASSUME NEW e \in Event, NEW state \in Subs, state.status # "none", Bound(e.trial), Record(e, state)
       PROVE  Goal
  <2>1. e.trial \in Trials /\ state.status \in Live \cup {"canceled"}
    BY <1>8, <1>10 DEF Event
  <2> QED  BY <1>2, <1>10, <2>1 DEF Record, StatusStep, Bound
<1>11. \A e \in events : e \in Event /\ e.trial \in Trials /\ sub[e.trial] \in Subs
  BY DEF TypeOK, Event
<1>12. ASSUME NEW w \in Workers, ApplyLifecycle(w) PROVE Goal
  <2>1. job[w].event \in Event /\ job[w].seen \in Subs /\ job[w].seen.status # "none"
    BY <1>12 DEF ApplyLifecycle, StageInv, StageOf, TypeOK, Job
  <2>2. CASE Bound(job[w].event.trial)
    BY <1>10, <1>12, <2>1, <2>2 DEF ApplyLifecycle
  <2>3. CASE ~Bound(job[w].event.trial)
    BY <1>12, <2>3 DEF ApplyLifecycle, StatusStep
  <2> QED  BY <2>2, <2>3
<1>13. ASSUME NEW e \in events, Deleted(e) PROVE Goal
  <2>1. sub[e.trial].status # "none"
    BY <1>11, <1>13 DEF Deleted, StripeInv, BoundInv
  <2> QED  BY <1>10, <1>11, <1>13, <2>1 DEF Deleted
<1>14. ASSUME NEW e \in events, InvoiceFailed(e) PROVE Goal
  <2>1. sub[e.trial].status \in Live \cup {"canceled"}
    BY <1>8, <1>11, <1>14 DEF InvoiceFailed, StripeInv, BoundInv
  <2> QED  BY <1>2, <1>11, <1>14, <2>1 DEF InvoiceFailed, StatusStep, Bound
<1>15. CASE status' = status
  BY <1>15 DEF StatusStep
<1>16. CASE UNCHANGED vars
  BY <1>15, <1>16 DEF vars, rows
<1>17. ASSUME NEW u \in Users,
              \/ PlaceOrder(u) \/ ExpireOrder(u) \/ OperatorSettles(u) \/ OtherGrant(u) \/ PlanEnds(u)
       PROVE  Goal
  BY <1>15, <1>17 DEF PlaceOrder, ExpireOrder, OperatorSettles, OtherGrant, PlanEnds, rows
<1>18. ASSUME NEW u \in Users, NEW t \in Trials, CancelOrderDies(u, t) PROVE Goal
  BY <1>15, <1>18 DEF CancelOrderDies, rows
<1>19. ASSUME NEW w \in Workers, NEW u \in Users, NEW b \in BOOLEAN, NEW t \in Trials, Resume(w, u, b, t)
       PROVE  Goal
  BY <1>15, <1>19 DEF Resume, rows
<1>20. ASSUME NEW w \in Workers, NEW t \in Trials, Confirm(w, t) \/ StartCancel(w, t)
       PROVE  Goal
  BY <1>15, <1>20 DEF Confirm, StartCancel, rows
<1>21. ASSUME NEW w \in Workers,
              \/ CreateSession(w) \/ SearchSession(w) \/ SaveSession(w) \/ ReadSession(w)
              \/ ReadSubscription(w) \/ CompleteBound(w) \/ CompleteFails(w)
              \/ CancelBilling(w) \/ SaveCancel(w) \/ GiveUp(w)
       PROVE  Goal
  BY <1>15, <1>21
  DEF CreateSession, SearchSession, SaveSession, ReadSession, ReadSubscription, CompleteBound,
      CompleteFails, CancelBilling, SaveCancel, GiveUp, rows
<1>22. ASSUME NEW w \in Workers, NEW e \in events, Deliver(w, e) \/ DeliverUpdated(w, e)
       PROVE  Goal
  BY <1>15, <1>22 DEF Deliver, DeliverUpdated, rows
<1>23. ASSUME NEW e \in events, AlreadyGranted(e) \/ InvoicePaid(e) PROVE Goal
  BY <1>15, <1>23 DEF AlreadyGranted, InvoicePaid, rows
<1>24. ASSUME NEW t \in Trials,
              \/ Deadline(t) \/ SubStarts(t) \/ SessionTimesOut(t) \/ Bills(t) \/ BillFails(t)
              \/ Ends(t)
       PROVE  Goal
  BY <1>15, <1>24 DEF Deadline, SubStarts, SessionTimesOut, Bills, BillFails, Ends, Change, rows
<1> HIDE DEF Goal
<1> QED
  BY <1>3, <1>4, <1>5, <1>6, <1>7, <1>9, <1>12, <1>13, <1>14, <1>16, <1>17, <1>18, <1>19, <1>20,
     <1>21, <1>22, <1>23, <1>24
  DEF Next, Customer, Office, StartTrial, Continue, Webhook, Stripe

LEMMA NextTypeInv == ASSUME TypeInv, [Next]_vars PROVE TypeInv'
<1>1. ASSUME NEW t \in Trials, Bound(t)' PROVE session'[t] = "complete"
  <2>1. StatusStep(t)
    BY StatusSteps
  <2>2. session[t] = "complete" => session'[t] = "complete"
    BY SessionsGoOn
  <2>3. Bound(t) => session[t] = "complete"
    BY DEF TypeInv, BoundInv
  <2> QED  BY <1>1, <2>1, <2>2, <2>3 DEF StatusStep, Bound, Live
<1>2. BoundInv'
  BY <1>1 DEF BoundInv
<1> QED  BY <1>2, NextTypeOK, NextStripeInv, NextStageInv DEF TypeInv

LEMMA TypesHold == Spec => []TypeInv
  BY InitTypeInv, NextTypeInv, PTL DEF Spec

\* The types of the trials' rows, of Stripe's sessions and subscriptions, and of
\* what every handler holds: no handler works on a row that was never claimed.
THEOREM TypeCorrect == Spec => []TypeOK
  BY TypesHold, PTL DEF TypeInv

(***************************************************************************)
(* Claims.  A claim is released only when nothing can be accepted any      *)
(* more, so a handler that completes one finds it open or bound; and one   *)
(* that is bound was settled once, with the order it is linked to.         *)
(***************************************************************************)

ReleasedIsGone == \A t \in Trials : status[t] = "expired" => Gone(t)
SettledOnce    == \A t \in Trials : settled[t] = IF Bound(t) THEN 1 ELSE 0
LinkedIsPaid   == \A t \in Trials : linked[t] /\ Bound(t) => order[owner[t]] = "paid"
OneOpen        == \A x, y \in Trials : owner[x] = owner[y] /\ Open(x) /\ Open(y) => x = y

ClaimInv == TypeInv /\ ReleasedIsGone /\ SettledOnce /\ LinkedIsPaid /\ OneOpen

LEMMA InitClaimInv == Init => ClaimInv
<1> SUFFICES ASSUME Init PROVE ClaimInv
  OBVIOUS
<1>1. TypeInv
  BY InitTypeInv
<1> QED
  BY <1>1 DEF Init, ClaimInv, ReleasedIsGone, SettledOnce, LinkedIsPaid, OneOpen, Bound, Open, Live

\* A handler that completes a claim finds it open, or bound by another one.
LEMMA CompletesClaim ==
    ASSUME ClaimInv, NEW w \in Workers, pc[w] = "complete"
    PROVE  LET t == job[w].trial IN
           t \in Trials /\ owner[t] \in Users /\ (status[t] # "checkout" => Bound(t))
<1>1. job[w].trial \in Trials /\ owner[job[w].trial] # None /\ session[job[w].trial] = "complete"
  BY DEF ClaimInv, TypeInv, StageInv, StageOf
<1>2. status[job[w].trial] # "expired"
  BY <1>1 DEF ClaimInv, ReleasedIsGone, Gone
<1> QED  BY <1>1, <1>2 DEF ClaimInv, TypeInv, TypeOK, Bound, RowStatus, Live

\* An order is paid for good as long as a row is linked to it, rows are linked when
\* they are claimed, and settled when they are bound.
GrantStep(t) ==
    /\ linked'[t] => linked[t] \/ status'[t] = "checkout"
    /\ linked'[t] /\ owner[t] # None /\ order[owner[t]] = "paid" => order'[owner[t]] = "paid"
    /\ settled'[t] = settled[t] \/ (status[t] = "checkout" /\ Bound(t)')

LEMMA GrantSteps == ASSUME ClaimInv, [Next]_vars PROVE \A t \in Trials : GrantStep(t)
<1> USE DEF ClaimInv, TypeInv
<1> DEFINE Goal == \A t \in Trials : GrantStep(t)
<1> SUFFICES Goal
  OBVIOUS
<1>1. /\ linked \in [Trials -> BOOLEAN] /\ owner \in [Trials -> Users \cup {None}]
      /\ order \in [Users -> {"none", "pending", "expired", "cancelled", "paid"}]
      /\ settled \in [Trials -> Nat]
  BY DEF TypeOK
<1>2. ASSUME NEW u \in Users, PlaceOrder(u) PROVE Goal
  <2>1. /\ \A t \in Trials : linked'[t] <=> linked[t] /\ owner[t] # u
        /\ \A v \in Users \ {u} : order'[v] = order[v]
        /\ settled' = settled
    BY <1>1, <1>2 DEF PlaceOrder
  <2> QED  BY <1>1, <2>1 DEF GrantStep
<1>3. ASSUME NEW w \in Workers, NEW u \in Users, NEW b \in BOOLEAN, NEW t \in Trials, Claim(w, u, b, t)
      PROVE  Goal
  <2>1. /\ \A x \in Trials \ {t} : linked'[x] => linked[x]
        /\ status'[t] = "checkout"
        /\ order' = order /\ settled' = settled
    BY <1>1, <1>3 DEF Claim, grants, TypeOK
  <2> QED  BY <1>1, <2>1 DEF GrantStep
<1>4. ASSUME NEW u \in Users, NEW s \in {"expired", "paid", "cancelled"}, order[u] # "paid" \/ s = "paid",
             order' = [order EXCEPT ![u] = s], UNCHANGED <<linked, settled>>
      PROVE  Goal
  BY <1>1, <1>4 DEF GrantStep
<1>5. ASSUME NEW u \in Users, CancelOrder(u) \/ ExpireOrder(u) \/ OperatorSettles(u) PROVE Goal
  BY <1>4, <1>5 DEF CancelOrder, ExpireOrder, OperatorSettles, rows
<1>6. ASSUME NEW w \in Workers, ReplaceAbsent(w) PROVE Goal
  <2>1. /\ linked' = linked \/ linked' = [linked EXCEPT ![job[w].trial] = FALSE]
        /\ UNCHANGED <<order, settled>>
    BY <1>6 DEF ReplaceAbsent, grants
  <2> QED  BY <1>1, <2>1 DEF GrantStep
<1>7. ASSUME NEW w \in Workers, Complete(w) PROVE Goal
  <2>1. PICK t \in Trials : t = job[w].trial /\ owner[t] \in Users
    BY <1>7, CompletesClaim DEF Complete
  <2>2. /\ settled' = [settled EXCEPT ![t] = @ + 1] /\ linked' = linked
        /\ order' = [order EXCEPT ![owner[t]] = IF linked[t] THEN "paid" ELSE @]
        /\ status[t] = "checkout" /\ status' = [status EXCEPT ![t] = job[w].seen.status]
    BY <1>7, <2>1 DEF Complete, SettleTrial
  <2>3. job[w].seen.status \in Live \cup {"canceled"}
    BY <1>7, <2>1 DEF Complete, StageInv, StageOf, TypeOK, Job, Subs
  <2>4. status'[t] \in Live \cup {"canceled"}
    BY <2>2, <2>3 DEF TypeOK
  <2> QED  BY <1>1, <2>1, <2>2, <2>4 DEF GrantStep, Bound
<1>8. ASSUME NEW w \in Workers, CompleteBound(w) PROVE Goal
  <2>1. UNCHANGED <<settled, order, linked>>
    BY <1>8, CompletesClaim DEF CompleteBound, LinkedIsPaid, rows
  <2> QED  BY <2>1 DEF GrantStep
<1>9. CASE UNCHANGED <<linked, settled, order>>
  BY <1>9 DEF GrantStep
<1>10. CASE UNCHANGED vars
  BY <1>9, <1>10 DEF vars, rows, grants
<1>11. ASSUME NEW u \in Users, OtherGrant(u) \/ PlanEnds(u) PROVE Goal
  BY <1>9, <1>11 DEF OtherGrant, PlanEnds, rows
<1>12. ASSUME NEW u \in Users, NEW t \in Trials, CancelOrderDies(u, t) PROVE Goal
  BY <1>9, <1>12 DEF CancelOrderDies, rows, grants
<1>13. ASSUME NEW w \in Workers, NEW u \in Users, NEW b \in BOOLEAN, NEW t \in Trials, Resume(w, u, b, t)
       PROVE  Goal
  BY <1>9, <1>13 DEF Resume, rows, grants
<1>14. ASSUME NEW w \in Workers, NEW t \in Trials, Confirm(w, t) \/ StartCancel(w, t)
       PROVE  Goal
  BY <1>9, <1>14 DEF Confirm, StartCancel, rows, grants
<1>15. ASSUME NEW w \in Workers,
              \/ CreateSession(w) \/ SearchSession(w) \/ SaveSession(w) \/ ReadSession(w)
              \/ ReleaseExpired(w) \/ ReadSubscription(w) \/ CompleteFails(w) \/ ApplyLifecycle(w)
              \/ CancelBilling(w) \/ SaveCancel(w) \/ GiveUp(w)
       PROVE  Goal
  BY <1>9, <1>15
  DEF CreateSession, SearchSession, SaveSession, ReadSession, ReleaseExpired, ReadSubscription,
      CompleteFails, ApplyLifecycle, CancelBilling, SaveCancel, GiveUp, rows, grants
<1>16. ASSUME NEW w \in Workers, NEW e \in events, Deliver(w, e) \/ DeliverUpdated(w, e)
       PROVE  Goal
  BY <1>9, <1>16 DEF Deliver, DeliverUpdated, rows, grants
<1>17. ASSUME NEW e \in events,
              \/ SessionExpired(e) \/ AlreadyGranted(e) \/ Deleted(e) \/ InvoicePaid(e)
              \/ InvoiceFailed(e)
       PROVE  Goal
  BY <1>9, <1>17
  DEF SessionExpired, AlreadyGranted, Deleted, InvoicePaid, InvoiceFailed, rows, grants
<1>18. ASSUME NEW t \in Trials,
              \/ Deadline(t) \/ SubStarts(t) \/ SessionTimesOut(t) \/ Bills(t) \/ BillFails(t)
              \/ Ends(t)
       PROVE  Goal
  BY <1>9, <1>18 DEF Deadline, SubStarts, SessionTimesOut, Bills, BillFails, Ends, Change, rows, grants
<1> HIDE DEF Goal
<1> QED
  BY <1>2, <1>3, <1>5, <1>6, <1>7, <1>8, <1>10, <1>11, <1>12, <1>13, <1>14, <1>15, <1>16, <1>17,
     <1>18
  DEF Next, Customer, Office, StartTrial, Continue, Webhook, Stripe

LEMMA NextClaimInv == ASSUME ClaimInv, [Next]_vars PROVE ClaimInv'
<1>1. TypeInv'
  BY NextTypeInv DEF ClaimInv
<1>2. \A t \in Trials : StatusStep(t) /\ GrantStep(t)
  BY StatusSteps, GrantSteps DEF ClaimInv
<1>3. \A t \in Trials : /\ Gone(t) => Gone(t)'
                        /\ owner[t] # None => owner'[t] = owner[t]
                        /\ status[t] = "none" <=> owner[t] = None
                        /\ Bound(t) => status[t] \notin {"none", "checkout", "expired"}
  BY SessionsGoOn, Forward DEF ClaimInv, TypeInv, TypeOK, Bound, Live
<1>4. ReleasedIsGone'
  <2> SUFFICES ASSUME NEW t \in Trials, status'[t] = "expired" PROVE Gone(t)'
    BY DEF ReleasedIsGone
  <2> QED  BY <1>2, <1>3 DEF ClaimInv, ReleasedIsGone, StatusStep, Bound, Live
<1>5. SettledOnce'
  <2> SUFFICES ASSUME NEW t \in Trials PROVE settled'[t] = IF Bound(t)' THEN 1 ELSE 0
    BY DEF SettledOnce
  <2>1. settled[t] = IF Bound(t) THEN 1 ELSE 0
    BY DEF ClaimInv, SettledOnce
  <2> QED  BY <1>2, <1>3, <2>1 DEF StatusStep, GrantStep, Bound, Live
<1>6. LinkedIsPaid'
  <2> SUFFICES ASSUME NEW t \in Trials, linked'[t], Bound(t)' PROVE order'[owner'[t]] = "paid"
    BY DEF LinkedIsPaid
  <2>1. status'[t] # "checkout" /\ linked[t] /\ status[t] # "none"
    BY <1>2, <1>3 DEF StatusStep, GrantStep, Bound, Live
  <2>2. owner'[t] = owner[t] /\ owner[t] # None
    BY <1>3, <2>1
  <2>3. CASE Bound(t)
    <3>1. order[owner[t]] = "paid"
      BY <2>1, <2>3 DEF ClaimInv, LinkedIsPaid
    <3> QED  BY <1>2, <2>2, <3>1 DEF GrantStep
  <2>4. CASE ~Bound(t)
    BY <1>2, <2>1, <2>2, <2>4 DEF StatusStep, Bound, Live
  <2> QED  BY <2>3, <2>4
<1>7. OneOpen'
  <2> SUFFICES ASSUME NEW x \in Trials, NEW y \in Trials, owner'[x] = owner'[y], Open(x)', Open(y)', x # y
               PROVE  FALSE
    BY DEF OneOpen
  <2>1. \A t \in {x, y} : Open(t)' => owner[t] = None \/ Open(t)
    BY <1>2, <1>3 DEF StatusStep, Open, Bound, Live
  <2>2. \A t \in {x, y} : owner[t] = None /\ Open(t)' =>
           /\ owner'[t] # None
           /\ \A z \in Trials \ {t} : owner'[z] = owner[z] /\ (owner[z] = owner'[t] => ~Open(z))
    BY <1>2, <1>3 DEF StatusStep, Open, Bound, Live
  <2>3. owner[x] # None /\ owner[y] # None
    BY <2>1, <2>2
  <2>4. Open(x) /\ Open(y) /\ owner[x] = owner[y]
    BY <1>3, <2>1, <2>3
  <2> QED  BY <2>4 DEF ClaimInv, OneOpen
<1> QED  BY <1>1, <1>4, <1>5, <1>6, <1>7 DEF ClaimInv

LEMMA ClaimsHold == Spec => []ClaimInv
  BY InitClaimInv, NextClaimInv, PTL DEF Spec

(***************************************************************************)
(* Refinement.                                                             *)
(***************************************************************************)

PhaseOf(t) ==
    IF owner[t] = None THEN "free"
    ELSE IF status[t] = "expired" THEN "released"
    ELSE IF Bound(t) THEN "granted"
    ELSE IF session[t] = "complete" THEN "accepted" ELSE "held"

Phases == [t \in Trials |-> PhaseOf(t)]

\* One settlement per bound row: the phase that TrialPromise sees is the row's and
\* its session's.
LEMMA PhaseIs == ClaimInv => Phase = Phases
<1> SUFFICES ASSUME ClaimInv PROVE \A t \in Trials : Phase[t] = PhaseOf(t)
  BY DEF Phase, Phases
<1> TAKE t \in Trials
<1>1. settled[t] = IF Bound(t) THEN 1 ELSE 0
  BY DEF ClaimInv, SettledOnce
<1>2. Bound(t) => owner[t] # None /\ status[t] # "expired"
  BY DEF ClaimInv, TypeInv, TypeOK, Bound, Live
<1>3. CASE Bound(t)
  <2>1. settled[t] = 1 /\ owner[t] # None /\ status[t] # "expired"
    BY <1>1, <1>2, <1>3
  <2> QED  BY <1>3, <2>1 DEF Phase, PhaseOf
<1>4. CASE ~Bound(t)
  <2>1. ~(settled[t] > 0)
    BY <1>1, <1>4
  <2> QED  BY <1>4, <2>1 DEF Phase, PhaseOf
<1> QED  BY <1>3, <1>4

\* The caps of TrialPromise count what the panel counts.
LEMMA CountsAreClaims ==
    ClaimInv => /\ Promise!Counts = Claims
                /\ \A u \in Users : Promise!Mine(u) = Claims \cap Rows(u)
<1> SUFFICES ASSUME ClaimInv
             PROVE  /\ Promise!Counts = Claims
                    /\ \A u \in Users : Promise!Mine(u) = Claims \cap Rows(u)
  OBVIOUS
<1>1. \A t \in Trials : Phase[t] \in {"held", "accepted", "granted"} <=>
                           owner[t] # None /\ status[t] # "expired"
  BY PhaseIs DEF PhaseOf, Phases
<1>2. Promise!Counts = Claims
  BY <1>1 DEF Promise!Counts, Claims
<1> QED  BY <1>2 DEF Promise!Mine, Claims, Rows

\* Every step but a claim touches one row or one session.
LEMMA OneRow ==
    ASSUME ClaimInv, [Next]_vars
    PROVE  \/ \E w \in Workers, u \in Users, b \in BOOLEAN, t \in Trials : Claim(w, u, b, t)
           \/ UNCHANGED <<owner, status, session>>
           \/ /\ owner' = owner
              /\ \E t \in Trials : \A x \in Trials \ {t} :
                    status'[x] = status[x] /\ session'[x] = session[x]
<1> USE DEF ClaimInv, TypeInv
<1> DEFINE Touches(t) == \A x \in Trials \ {t} : status'[x] = status[x] /\ session'[x] = session[x]
           Goal == \/ \E w \in Workers, u \in Users, b \in BOOLEAN, t \in Trials : Claim(w, u, b, t)
                   \/ UNCHANGED <<owner, status, session>>
                   \/ owner' = owner /\ \E t \in Trials : Touches(t)
<1> SUFFICES Goal
  OBVIOUS
<1>1. status \in [Trials -> RowStatus \cup {"none"}]
      /\ session \in [Trials -> {"absent", "open", "complete", "expired"}]
  BY DEF TypeOK
<1>2. ASSUME NEW t \in Trials, Touches(t), owner' = owner PROVE Goal
  BY <1>2
<1>3. CASE UNCHANGED <<owner, status, session>>
  BY <1>3
<1>4. ASSUME NEW w \in Workers, NEW u \in Users, NEW b \in BOOLEAN, NEW t \in Trials, Claim(w, u, b, t)
      PROVE  Goal
  BY <1>4
<1>5. ASSUME NEW u \in Users, CancelOrder(u) PROVE Goal
  <2> DEFINE bound == {t \in Rows(u) : linked[t] /\ status[t] = "checkout"}
  <2>1. owner' = owner /\ status' = [t \in Trials |-> IF t \in bound THEN "expired" ELSE status[t]]
    BY <1>5 DEF CancelOrder
  <2>2. CASE bound = {}
    <3>1. status' = status /\ session' = session
      BY <1>1, <1>5, <2>1, <2>2 DEF CancelOrder, stripe
    <3> QED  BY <2>1, <3>1
  <2>3. CASE bound # {}
    <3>1. PICK t \in bound : ExpireRemotely(t)
      BY <1>5, <2>3 DEF CancelOrder
    <3>2. t \in Trials /\ \A x \in bound : x = t
      BY <3>1 DEF OneOpen, Open, Rows
    <3>3. session' = [session EXCEPT ![t] = "expired"]
      BY <3>1 DEF ExpireRemotely
    <3>4. Touches(t)
      BY <1>1, <2>1, <3>2, <3>3
    <3> QED  BY <1>2, <2>1, <3>2, <3>4
  <2> QED  BY <2>2, <2>3
<1>6. ASSUME NEW u \in Users, NEW t \in Trials, CancelOrderDies(u, t) PROVE Goal
  <2>1. session' = [session EXCEPT ![t] = "expired"] /\ owner' = owner /\ status' = status
    BY <1>6 DEF CancelOrderDies, ExpireRemotely, rows
  <2> QED  BY <1>1, <1>2, <2>1
<1>7. ASSUME NEW w \in Workers,
             CreateSession(w) \/ ReleaseExpired(w) \/ ReplaceAbsent(w) \/ Complete(w)
      PROVE  Goal
  <2>1. PICK t \in Trials : t = job[w].trial
    BY <1>7 DEF CreateSession, ReleaseExpired, ReplaceAbsent, Complete, StageInv, StageOf
  <2>2. owner' = owner
    BY <1>7 DEF CreateSession, ReleaseExpired, ReplaceAbsent, Complete, rows
  <2>3. /\ status' = status \/ \E s : status' = [status EXCEPT ![t] = s]
        /\ session' = session \/ \E s : session' = [session EXCEPT ![t] = s]
    BY <1>7, <2>1
    DEF CreateSession, ReleaseExpired, ReplaceAbsent, Complete, Expire, rows, stripe
  <2> QED  BY <1>1, <1>2, <2>2, <2>3
<1>8. ASSUME NEW e \in Event, NEW state, Record(e, state), UNCHANGED <<owner, session>> PROVE Goal
  <2>1. e.trial \in Trials
    BY DEF Event
  <2>2. \A x \in Trials \ {e.trial} : status'[x] = status[x]
    BY <1>1, <1>8 DEF Record
  <2> QED  BY <1>2, <1>8, <2>1, <2>2
<1>9. ASSUME NEW w \in Workers, ApplyLifecycle(w) PROVE Goal
  <2>1. job[w].event \in Event
    BY <1>9 DEF ApplyLifecycle, StageInv, StageOf
  <2>2. UNCHANGED <<owner, session>>
    BY <1>9 DEF ApplyLifecycle
  <2>3. Record(job[w].event, job[w].seen) \/ status' = status
    BY <1>9 DEF ApplyLifecycle
  <2> QED  BY <1>3, <1>8, <2>1, <2>2, <2>3
<1>10. \A e \in events : e \in Event /\ e.trial \in Trials
  BY DEF TypeOK, Event
<1>11. ASSUME NEW e \in events, Deleted(e) PROVE Goal
  BY <1>8, <1>10, <1>11 DEF Deleted
<1>12. ASSUME NEW e \in events, SessionExpired(e) \/ InvoiceFailed(e) PROVE Goal
  <2>1. owner' = owner /\ session' = session
    BY <1>12 DEF SessionExpired, InvoiceFailed
  <2>2. \A x \in Trials \ {e.trial} : status'[x] = status[x]
    BY <1>1, <1>12 DEF SessionExpired, InvoiceFailed, Expire
  <2> QED  BY <1>2, <1>10, <2>1, <2>2
<1>13. ASSUME NEW t \in Trials, SubStarts(t) \/ SessionTimesOut(t) PROVE Goal
  <2>1. owner' = owner /\ status' = status /\ \E s : session' = [session EXCEPT ![t] = s]
    BY <1>13 DEF SubStarts, SessionTimesOut, rows
  <2> QED  BY <1>1, <1>2, <2>1
<1>14. CASE UNCHANGED vars
  BY <1>3, <1>14 DEF vars, rows, stripe
<1>15. ASSUME NEW u \in Users,
              \/ PlaceOrder(u) \/ ExpireOrder(u) \/ OperatorSettles(u) \/ OtherGrant(u) \/ PlanEnds(u)
       PROVE  Goal
  BY <1>3, <1>15
  DEF PlaceOrder, ExpireOrder, OperatorSettles, OtherGrant, PlanEnds, rows, stripe
<1>16. ASSUME NEW w \in Workers, NEW u \in Users, NEW b \in BOOLEAN, NEW t \in Trials, Resume(w, u, b, t)
       PROVE  Goal
  BY <1>3, <1>16 DEF Resume, rows, stripe
<1>17. ASSUME NEW w \in Workers, NEW t \in Trials, Confirm(w, t) \/ StartCancel(w, t)
       PROVE  Goal
  BY <1>3, <1>17 DEF Confirm, StartCancel, rows, stripe
<1>18. ASSUME NEW w \in Workers,
              \/ SearchSession(w) \/ SaveSession(w) \/ ReadSession(w) \/ ReadSubscription(w)
              \/ CompleteBound(w) \/ CompleteFails(w) \/ CancelBilling(w) \/ SaveCancel(w) \/ GiveUp(w)
       PROVE  Goal
  BY <1>3, <1>18
  DEF SearchSession, SaveSession, ReadSession, ReadSubscription, CompleteBound, CompleteFails,
      CancelBilling, SaveCancel, GiveUp, rows, stripe
<1>19. ASSUME NEW w \in Workers, NEW e \in events, Deliver(w, e) \/ DeliverUpdated(w, e)
       PROVE  Goal
  BY <1>3, <1>19 DEF Deliver, DeliverUpdated, rows, stripe
<1>20. ASSUME NEW e \in events, AlreadyGranted(e) \/ InvoicePaid(e) PROVE Goal
  BY <1>3, <1>20 DEF AlreadyGranted, InvoicePaid, rows
<1>21. ASSUME NEW t \in Trials, Deadline(t) \/ Bills(t) \/ BillFails(t) \/ Ends(t) PROVE Goal
  BY <1>3, <1>21 DEF Deadline, Bills, BillFails, Ends, Change, rows, stripe
<1> HIDE DEF Goal
<1> QED
  BY <1>4, <1>5, <1>6, <1>7, <1>9, <1>11, <1>12, <1>13, <1>14, <1>15, <1>16, <1>17, <1>18, <1>19,
     <1>20, <1>21
  DEF Next, Customer, Office, StartTrial, Continue, Webhook, Stripe

LEMMA SameCardinality == \A S : Promise!Cardinality(S) = Cardinality(S)
  BY DEF Promise!Cardinality, Cardinality

LEMMA ClaimRefines ==
    ASSUME ClaimInv, ClaimInv', [Next]_vars, NEW u \in Users, NEW t \in Trials,
           \E w \in Workers, b \in BOOLEAN : Claim(w, u, b, t)
    PROVE  Promise!Claim(t, u)
<1>1. /\ \A x \in Rows(u) : ~Open(x)
      /\ Cardinality(Claims) < Cap /\ Cardinality(Claims \cap Rows(u)) < PerUser
      /\ owner[t] = None /\ owner' = [owner EXCEPT ![t] = u]
      /\ status' = [status EXCEPT ![t] = "checkout"]
      /\ session' = session
  BY DEF Claim, stripe
<1>2. Phase = Phases
  BY PhaseIs
<1>3. (ClaimInv => Phase = Phases)'
  BY PhaseIs, PTL
<1>4. Phase[t] = "free" /\ session[t] # "complete"
  <2>1. owner[t] = None
    BY <1>1
  <2> QED  BY <1>2, <2>1 DEF Phases, PhaseOf, ClaimInv, TypeInv, StripeInv
<1>5. Cardinality(Promise!Counts) < Cap /\ Cardinality(Promise!Mine(u)) < PerUser
  BY <1>1, CountsAreClaims
<1>9. Promise!Cardinality(Promise!Counts) < Cap /\ Promise!Cardinality(Promise!Mine(u)) < PerUser
  BY <1>5, SameCardinality
<1>6. ASSUME NEW x \in Promise!Mine(u) PROVE Phase[x] = "granted"
  <2>1. x \in Claims \cap Rows(u)
    BY <1>6, CountsAreClaims
  <2>2. x \in Trials /\ owner[x] # None /\ status[x] # "expired" /\ ~Open(x)
    BY <1>1, <2>1 DEF Claims
  <2>3. Bound(x)
    BY <2>2 DEF ClaimInv, TypeInv, TypeOK, RowStatus, Open, Bound, Live
  <2> QED  BY <1>2, <2>2, <2>3 DEF Phases, PhaseOf
<1>7. \A x \in Trials : PhaseOf(x)' = IF x = t THEN "held" ELSE PhaseOf(x)
  <2>1. u # None
    BY TrialAssumption
  <2>2. owner \in [Trials -> Users \cup {None}] /\ status \in [Trials -> RowStatus \cup {"none"}]
    BY DEF ClaimInv, TypeInv, TypeOK
  <2> QED  BY <1>1, <1>4, <2>1, <2>2 DEF PhaseOf, Bound, Live
<1>8. Phase' = [Phase EXCEPT ![t] = "held"]
  BY <1>2, <1>3, <1>7 DEF Phases
<1> QED  BY <1>1, <1>4, <1>9, <1>6, <1>8 DEF Promise!Claim

\* What else may happen to a claim: it is accepted, granted or released.
LEMMA PhaseMoves ==
    ASSUME ClaimInv, [Next]_vars, owner' = owner, NEW t \in Trials
    PROVE  \/ PhaseOf(t)' = PhaseOf(t)
           \/ PhaseOf(t) = "held" /\ PhaseOf(t)' \in {"accepted", "released"}
           \/ PhaseOf(t) = "accepted" /\ PhaseOf(t)' = "granted"
<1>1. StatusStep(t)
  BY StatusSteps DEF ClaimInv
<1>2. /\ session[t] \in {"complete", "expired"} => session'[t] = session[t]
      /\ Gone(t) => Gone(t)'
  BY SessionsGoOn DEF ClaimInv
<1>3. /\ Bound(t) => session[t] = "complete" /\ owner[t] # None
      /\ status[t] = "expired" => Gone(t)
      /\ owner[t] = None => status[t] = "none" /\ session[t] = "absent"
      /\ session[t] \in {"absent", "open", "complete", "expired"}
  BY DEF ClaimInv, TypeInv, TypeOK, BoundInv, ReleasedIsGone, StripeInv, Bound, Live
<1>4. CASE status'[t] = status[t]
  <2>1. Bound(t)' = Bound(t) /\ owner'[t] = owner[t]
    BY <1>4 DEF Bound
  <2> QED  BY <1>2, <1>3, <1>4, <2>1 DEF PhaseOf, Gone
<1>5. CASE status'[t] # status[t]
  <2>1. \/ status[t] = "checkout" /\ status'[t] = "expired" /\ Gone(t)'
        \/ status[t] = "checkout" /\ Bound(t)' /\ session[t] = "complete"
        \/ status[t] \in Live /\ Bound(t)'
    BY <1>1, <1>5 DEF StatusStep
  <2>2. Bound(t)' => status'[t] # "expired"
    BY DEF Bound, Live
  <2> QED  BY <1>2, <1>3, <2>1, <2>2 DEF PhaseOf, Gone, Bound, Live
<1> QED  BY <1>4, <1>5

LEMMA StepRefines ==
    ASSUME ClaimInv, ClaimInv', [Next]_vars
    PROVE  [Promise!Next]_<<owner, Phase>>
<1>1. Phase = Phases
  BY PhaseIs
<1>2. (ClaimInv => Phase = Phases)'
  BY PhaseIs, PTL
<1>3. CASE \E w \in Workers, u \in Users, b \in BOOLEAN, t \in Trials : Claim(w, u, b, t)
  BY <1>3, ClaimRefines DEF Promise!Next
<1>4. CASE UNCHANGED <<owner, status, session>>
  <2>1. \A t \in Trials : PhaseOf(t)' = PhaseOf(t)
    BY <1>4 DEF PhaseOf, Bound
  <2> QED  BY <1>1, <1>2, <1>4, <2>1 DEF Phases
<1>5. ASSUME owner' = owner, NEW t \in Trials,
             \A x \in Trials \ {t} : status'[x] = status[x] /\ session'[x] = session[x]
      PROVE  [Promise!Next]_<<owner, Phase>>
  <2>1. \A x \in Trials \ {t} : PhaseOf(x)' = PhaseOf(x)
    BY <1>5 DEF PhaseOf, Bound
  <2>2. Phase' = [Phase EXCEPT ![t] = PhaseOf(t)']
    BY <1>1, <1>2, <2>1 DEF Phases
  <2>3. CASE PhaseOf(t)' = PhaseOf(t)
    BY <1>1, <1>5, <2>2, <2>3 DEF Phases
  <2>4. CASE PhaseOf(t)' # PhaseOf(t)
    BY <1>1, <1>5, <2>2, <2>4, PhaseMoves
    DEF Phases, Promise!Next, Promise!Accept, Promise!Grant, Promise!Release, Promise!Move
  <2> QED  BY <2>3, <2>4
<1> QED  BY <1>3, <1>4, <1>5, OneRow

\* Under every combination of lost answers, lost acknowledgements and crashes: the
\* caps count every claim exactly, a completed checkout is never released, and it
\* is granted at most once (stripe_trial_start.go, stripe_trial_complete.go).
THEOREM TrialsImplementPromise == Spec => ImplementsTrialPromise
<1>1. ASSUME Init PROVE Promise!Init
  <2>1. Phase = [t \in Trials |-> "free"]
    BY <1>1 DEF Init, Phase
  <2> QED  BY <1>1, <2>1 DEF Init, Promise!Init
<1>2. ClaimInv /\ ClaimInv' /\ [Next]_vars => [Promise!Next]_<<owner, Phase>>
  BY StepRefines
<1> QED  BY <1>1, <1>2, ClaimsHold, PTL DEF Spec, ImplementsTrialPromise, Promise!Spec

\* The caps of the promotion and of its users.
CapsKept ==
    /\ Cardinality(Claims) <= Cap
    /\ \A u \in Users : Cardinality(Claims \cap Rows(u)) <= PerUser

LEMMA ClaimsAreFinite ==
    \A S \in SUBSET Trials : IsFiniteSet(S) /\ Cardinality(S) \in Nat
  BY TrialAssumption, FS_Subset, FS_CardinalityType

\* A set that gains at most one element stays within a bound it was below.
LEMMA OneMore ==
    ASSUME NEW S \in SUBSET Trials, NEW T \in SUBSET Trials, NEW t \in Trials, NEW n \in Nat,
           T \subseteq S \cup {t}, Cardinality(S) < n
    PROVE  Cardinality(T) <= n
<1>1. IsFiniteSet(S) /\ Cardinality(S) \in Nat /\ Cardinality(T) \in Nat
  BY ClaimsAreFinite
<1>2. IsFiniteSet(S \cup {t}) /\ Cardinality(S \cup {t}) <= Cardinality(S) + 1
  BY <1>1, FS_AddElement
<1>3. Cardinality(T) <= Cardinality(S \cup {t}) /\ Cardinality(S \cup {t}) \in Nat
  BY <1>2, FS_Subset, FS_CardinalityType
<1> QED  BY <1>1, <1>2, <1>3

LEMMA NextCapsKept == ASSUME ClaimInv, CapsKept, [Next]_vars PROVE CapsKept'
<1>1. /\ owner \in [Trials -> Users \cup {None}] /\ status \in [Trials -> RowStatus \cup {"none"}]
      /\ \A u \in Users : u # None
  BY TrialAssumption DEF ClaimInv, TypeInv, TypeOK
<1>2. /\ Claims \in SUBSET Trials /\ Claims' \in SUBSET Trials
      /\ \A u \in Users : /\ Claims \cap Rows(u) \in SUBSET Trials
                          /\ Claims' \cap Rows(u)' \in SUBSET Trials
  BY DEF Claims
<1>3. ASSUME NEW S \in SUBSET Trials, NEW T \in SUBSET S, NEW n \in Nat, Cardinality(S) <= n
      PROVE  Cardinality(T) <= n
  BY <1>3, ClaimsAreFinite, FS_Subset
<1>4. ASSUME NEW w \in Workers, NEW u \in Users, NEW b \in BOOLEAN, NEW t \in Trials, Claim(w, u, b, t)
      PROVE  CapsKept'
  <2>1. /\ Cardinality(Claims) < Cap /\ Cardinality(Claims \cap Rows(u)) < PerUser
        /\ owner[t] = None /\ owner' = [owner EXCEPT ![t] = u]
        /\ status' = [status EXCEPT ![t] = "checkout"]
    BY <1>4 DEF Claim
  <2>2. Claims' \subseteq Claims \cup {t}
    BY <1>1, <2>1 DEF Claims
  <2>3. Claims' \cap Rows(u)' \subseteq (Claims \cap Rows(u)) \cup {t}
    BY <1>1, <2>1 DEF Claims, Rows
  <2>4. \A v \in Users \ {u} : Claims' \cap Rows(v)' \subseteq Claims \cap Rows(v)
    BY <1>1, <2>1 DEF Claims, Rows
  <2>5. Cardinality(Claims') <= Cap
    BY <1>2, <2>1, <2>2, OneMore, TrialAssumption
  <2>6. Cardinality(Claims' \cap Rows(u)') <= PerUser
    BY <1>2, <2>1, <2>3, OneMore, TrialAssumption
  <2>7. \A v \in Users \ {u} : Cardinality(Claims' \cap Rows(v)') <= PerUser
    BY <1>2, <1>3, <2>4, TrialAssumption DEF CapsKept
  <2> QED  BY <2>5, <2>6, <2>7 DEF CapsKept
<1>5. CASE owner' = owner
  <2>1. \A t \in Trials : status[t] = "expired" => status'[t] = "expired"
    BY <1>5, StatusSteps DEF ClaimInv, StatusStep, Live
  <2>2. Claims' \subseteq Claims
    BY <1>5, <2>1 DEF Claims
  <2>3. \A u \in Users : Claims' \cap Rows(u)' \subseteq Claims \cap Rows(u)
    BY <1>5, <2>2 DEF Rows
  <2> QED  BY <1>2, <1>3, <2>2, <2>3, TrialAssumption DEF CapsKept
<1> QED  BY <1>4, <1>5, OneRow

\* Concurrent starts, retries and replaced checkouts never claim more places than
\* the promotion has, or than a user may have (stripe_trial_start.go).
THEOREM CapsAreKept == Spec => []CapsKept
<1>1. ASSUME Init PROVE CapsKept
  <2>1. Claims = {}
    BY <1>1 DEF Init, Claims
  <2>2. \A u \in Users : Claims \cap Rows(u) = {}
    BY <2>1
  <2> QED  BY <2>1, <2>2, FS_EmptySet, TrialAssumption DEF CapsKept
<1> QED  BY <1>1, ClaimsHold, NextCapsKept, PTL DEF Spec

(***************************************************************************)
(* The record.  What a handler has seen is what the subscription is, or    *)
(* Stripe has told of a change since; what a row says is what the          *)
(* subscription is, or the newest of what Stripe has told is still to be   *)
(* applied.                                                                *)
(***************************************************************************)

Told(t)   == {e \in events \cup applied : e.trial = t /\ e.kind \in Tells}
Latest(t) == {e \in Told(t) : \A x \in Told(t) : x.id <= e.id}

Row(t) == [status |-> status[t], cancel |-> cancel[t]]

SeenOf(w) ==
    LET t == job[w].trial  e == job[w].event  seen == job[w].seen IN
    /\ pc[w] \in {"complete", "lifecycle"} /\ seen.status = "canceled" => seen = sub[t]
    /\ pc[w] = "complete" => seen = sub[t] \/ Told(t) # {}
    /\ pc[w] = "lifecycle" => e \in Told(t) /\ (seen = sub[t] \/ e \notin Latest(t))
    /\ pc[w] = "saveCancel" => sub[t].cancel

RecordOf(t) ==
    /\ Told(t) # {} => Latest(t) # {}
    /\ Bound(t) => Row(t) = sub[t] \/ \E e \in Latest(t) : e \notin applied
    /\ status[t] = "canceled" => Row(t) = sub[t]
    /\ ~Bound(t) => \A e \in Told(t) : e \notin applied
    /\ last[t] = 0 \/ \E e \in Told(t) : e \in applied /\ last[t] = e.id
    /\ status[t] # "canceled" => \A e \in Told(t) : e \in applied => e.id <= last[t]

SeenInv   == \A w \in Workers : SeenOf(w)
RecordInv == \A t \in Trials : RecordOf(t)

RInv == TypeInv /\ SeenInv /\ RecordInv

LEMMA InitRInv == Init => RInv
<1> SUFFICES ASSUME Init PROVE RInv
  OBVIOUS
<1>1. \A t \in Trials : Told(t) = {}
  BY DEF Init, Told
<1>2. SeenInv
  BY DEF Init, SeenInv, SeenOf
<1>3. RecordInv
  BY <1>1 DEF Init, RecordInv, RecordOf, Bound, Live
<1> QED  BY <1>2, <1>3, InitTypeInv DEF RInv

\* Every other step leaves what a bound row says, and what Stripe has told.
KeepsTold == applied' = applied /\ \A e \in events : e.kind \in Tells => e \in events'

RowsKept ==
    /\ cancel' = cancel /\ last' = last /\ KeepsTold
    /\ \A t \in Trials : status'[t] = status[t] \/ (~Bound(t) /\ ~Bound(t)')

LEMMA RowSteps ==
    ASSUME TypeInv, [Next]_vars
    PROVE  \/ RowsKept
           \/ \E w \in Workers : Complete(w) \/ ApplyLifecycle(w) \/ SaveCancel(w)
           \/ \E e \in events : Deleted(e) \/ InvoiceFailed(e)
<1> USE DEF TypeInv
<1> DEFINE Goal == \/ RowsKept
                   \/ \E w \in Workers : Complete(w) \/ ApplyLifecycle(w) \/ SaveCancel(w)
                   \/ \E e \in events : Deleted(e) \/ InvoiceFailed(e)
<1> SUFFICES Goal
  OBVIOUS
<1>1. status \in [Trials -> RowStatus \cup {"none"}]
  BY DEF TypeOK
<1>2. ASSUME UNCHANGED <<cancel, last>>, KeepsTold,
             \A t \in Trials : \/ status'[t] = status[t]
                               \/ status[t] \in {"none", "checkout", "expired"}
                                  /\ status'[t] \in {"checkout", "expired"}
      PROVE  Goal
  BY <1>2 DEF RowsKept, Bound, Live
<1>3. ASSUME UNCHANGED <<cancel, last, status>>, KeepsTold PROVE Goal
  BY <1>3 DEF RowsKept
<1>4. events' = events /\ applied' = applied => KeepsTold
  BY DEF KeepsTold
<1>5. ASSUME NEW e, NEW left \in Left(e), e = None \/ e.kind \notin Tells, left \subseteq events',
             applied' = applied
      PROVE  KeepsTold
  <2>1. \A x \in events : x.kind \in Tells => x # e
    BY <1>5, NullAssumption DEF TypeOK
  <2> QED  BY <1>5, <2>1 DEF Left, KeepsTold
<1>6. ASSUME NEW u \in Users, CancelOrder(u) PROVE Goal
  <2> DEFINE bound == {t \in Rows(u) : linked[t] /\ status[t] = "checkout"}
  <2>1. UNCHANGED <<cancel, last, applied>> /\ events \subseteq events'
    BY <1>6 DEF CancelOrder, ExpireRemotely, stripe
  <2>2. status' = [t \in Trials |-> IF t \in bound THEN "expired" ELSE status[t]]
    BY <1>6 DEF CancelOrder
  <2> QED  BY <1>2, <2>1, <2>2 DEF KeepsTold
<1>7. ASSUME NEW u \in Users, NEW t \in Trials, CancelOrderDies(u, t) PROVE Goal
  BY <1>3, <1>7 DEF CancelOrderDies, ExpireRemotely, KeepsTold, rows
<1>8. ASSUME NEW w \in Workers, NEW u \in Users, NEW b \in BOOLEAN, NEW t \in Trials, Claim(w, u, b, t)
      PROVE  Goal
  <2>1. /\ UNCHANGED <<cancel, last, applied, events>>
        /\ status' = [status EXCEPT ![t] = "checkout"] /\ owner[t] = None
    BY <1>8 DEF Claim, stripe
  <2>2. status[t] = "none"
    BY <2>1 DEF TypeOK
  <2> QED  BY <1>1, <1>2, <1>4, <2>1, <2>2
<1>9. ASSUME NEW w \in Workers, ReleaseExpired(w) PROVE Goal
  <2>1. UNCHANGED <<cancel, last, applied, events>>
    BY <1>9 DEF ReleaseExpired, stripe
  <2> QED  BY <1>1, <1>2, <1>4, <1>9, <2>1 DEF ReleaseExpired, Expire
<1>10. ASSUME NEW w \in Workers, ReplaceAbsent(w) PROVE Goal
  <2>1. UNCHANGED <<cancel, last, applied, events>>
    BY <1>10 DEF ReplaceAbsent, stripe
  <2>2. \/ status' = status
        \/ /\ status[job[w].trial] \in {"checkout", "expired"}
           /\ status' = [status EXCEPT ![job[w].trial] = "expired"]
    BY <1>10 DEF ReplaceAbsent
  <2> QED  BY <1>1, <1>2, <1>4, <2>1, <2>2
<1>11. ASSUME NEW e \in events, SessionExpired(e) PROVE Goal
  <2>1. UNCHANGED <<cancel, last, applied>>
    BY <1>11 DEF SessionExpired
  <2>2. KeepsTold
    BY <1>5, <1>11, <2>1 DEF SessionExpired, Answered, Tells
  <2> QED  BY <1>1, <1>2, <1>11, <2>1, <2>2 DEF SessionExpired, Expire
<1>12. ASSUME NEW e \in events, AlreadyGranted(e) \/ InvoicePaid(e) PROVE Goal
  <2>1. UNCHANGED <<cancel, last, status, applied>>
    BY <1>12 DEF AlreadyGranted, InvoicePaid, rows
  <2>2. KeepsTold
    BY <1>5, <1>12, <2>1 DEF AlreadyGranted, InvoicePaid, Answered, Tells
  <2> QED  BY <1>3, <2>1, <2>2
<1>13. ASSUME NEW w \in Workers, CompleteBound(w) PROVE Goal
  <2>1. UNCHANGED <<cancel, last, status, applied>>
    BY <1>13 DEF CompleteBound, rows
  <2>2. job[w].event = None \/ job[w].event.kind = "completed"
    BY <1>13 DEF CompleteBound, StageInv, StageOf
  <2>3. KeepsTold
    BY <1>5, <1>13, <2>1, <2>2 DEF CompleteBound, Answered, Tells
  <2> QED  BY <1>3, <2>1, <2>3
<1>14. ASSUME NEW w \in Workers, CompleteFails(w) \/ CancelBilling(w) PROVE Goal
  <2>1. UNCHANGED <<cancel, last, status, applied>> /\ events \subseteq events'
    BY <1>14 DEF CompleteFails, CancelBilling, CancelRemotely, rows
  <2> QED  BY <1>3, <2>1 DEF KeepsTold
<1>15. ASSUME NEW t \in Trials,
              SubStarts(t) \/ SessionTimesOut(t) \/ Bills(t) \/ BillFails(t) \/ Ends(t)
       PROVE  Goal
  <2>1. UNCHANGED <<cancel, last, status, applied>> /\ events \subseteq events'
    BY <1>15 DEF SubStarts, SessionTimesOut, Bills, BillFails, Ends, Change, rows
  <2> QED  BY <1>3, <2>1 DEF KeepsTold
<1>16. CASE UNCHANGED <<cancel, last, status, applied, events>>
  BY <1>3, <1>4, <1>16
<1>17. CASE UNCHANGED vars
  BY <1>16, <1>17 DEF vars, rows, stripe
<1>18. ASSUME NEW u \in Users,
              \/ PlaceOrder(u) \/ ExpireOrder(u) \/ OperatorSettles(u) \/ OtherGrant(u) \/ PlanEnds(u)
       PROVE  Goal
  BY <1>16, <1>18
  DEF PlaceOrder, ExpireOrder, OperatorSettles, OtherGrant, PlanEnds, rows, stripe
<1>19. ASSUME NEW w \in Workers, NEW u \in Users, NEW b \in BOOLEAN, NEW t \in Trials, Resume(w, u, b, t)
       PROVE  Goal
  BY <1>16, <1>19 DEF Resume, rows, stripe
<1>20. ASSUME NEW w \in Workers, NEW t \in Trials, Confirm(w, t) \/ StartCancel(w, t)
       PROVE  Goal
  BY <1>16, <1>20 DEF Confirm, StartCancel, rows, stripe
<1>21. ASSUME NEW w \in Workers,
              \/ CreateSession(w) \/ SearchSession(w) \/ SaveSession(w) \/ ReadSession(w)
              \/ ReadSubscription(w) \/ GiveUp(w)
       PROVE  Goal
  BY <1>16, <1>21
  DEF CreateSession, SearchSession, SaveSession, ReadSession, ReadSubscription, GiveUp, rows, stripe
<1>22. ASSUME NEW w \in Workers, NEW e \in events, Deliver(w, e) \/ DeliverUpdated(w, e)
       PROVE  Goal
  BY <1>16, <1>22 DEF Deliver, DeliverUpdated, rows, stripe
<1>23. ASSUME NEW t \in Trials, Deadline(t) PROVE Goal
  BY <1>16, <1>23 DEF Deadline, rows, stripe
<1>24. ASSUME NEW w \in Workers, Complete(w) \/ ApplyLifecycle(w) \/ SaveCancel(w) PROVE Goal
  BY <1>24
<1>25. ASSUME NEW e \in events, Deleted(e) \/ InvoiceFailed(e) PROVE Goal
  BY <1>25
<1> HIDE DEF Goal
<1> QED
  BY <1>6, <1>7, <1>8, <1>9, <1>10, <1>11, <1>12, <1>13, <1>14, <1>15, <1>17, <1>18, <1>19, <1>20,
     <1>21, <1>22, <1>23, <1>24, <1>25
  DEF Next, Customer, Office, StartTrial, Continue, Webhook, Stripe

\* What Stripe has told stays told: a webhook about the subscription is answered
\* once it is entered as applied, and nothing else is entered.
LEMMA Heard ==
    ASSUME RInv, [Next]_vars
    PROVE  /\ applied \subseteq applied'
           /\ \A e \in events : e.kind \in Tells => e \in events' \cup applied'
           /\ \A e \in applied' \ applied : e \in Told(e.trial)
<1> DEFINE Goal == /\ applied \subseteq applied'
                   /\ \A e \in events : e.kind \in Tells => e \in events' \cup applied'
                   /\ \A e \in applied' \ applied : e \in Told(e.trial)
<1> SUFFICES Goal
  OBVIOUS
<1>1. CASE KeepsTold
  BY <1>1 DEF KeepsTold
<1>2. ASSUME NEW e, NEW state, Record(e, state), e \in Told(e.trial) PROVE Goal
  <2>1. applied' = applied \cup {e} /\ events' \in Left(e)
    BY <1>2 DEF Record, Answered
  <2>2. \A x \in events : x \in events' \cup {e}
    BY <2>1 DEF Left
  <2> QED  BY <1>2, <2>1, <2>2
<1>3. ASSUME NEW w \in Workers, ApplyLifecycle(w) PROVE Goal
  <2>1. job[w].event \in Told(job[w].event.trial)
    BY <1>3 DEF ApplyLifecycle, RInv, SeenInv, SeenOf, TypeInv, StageInv, StageOf
  <2>2. Record(job[w].event, job[w].seen) \/ UNCHANGED <<applied, events>>
    BY <1>3 DEF ApplyLifecycle
  <2> QED  BY <1>2, <2>1, <2>2
<1>4. ASSUME NEW e \in events, Deleted(e) PROVE Goal
  <2>1. e \in Told(e.trial)
    BY <1>4 DEF Deleted, Told, Tells
  <2> QED  BY <1>2, <1>4, <2>1 DEF Deleted
<1>5. ASSUME NEW w \in Workers, Complete(w) PROVE Goal
  <2>1. job[w].event = None \/ job[w].event.kind = "completed"
    BY <1>5 DEF Complete, RInv, TypeInv, StageInv, StageOf
  <2>2. \A x \in events : x.kind \in Tells => x # job[w].event
    BY <2>1, NullAssumption DEF RInv, TypeInv, TypeOK, Tells
  <2>3. PICK left \in Left(job[w].event) : left \subseteq events'
    BY <1>5 DEF Complete, CancelRemotely
  <2>4. \A x \in events : x.kind \in Tells => x \in events'
    BY <2>2, <2>3 DEF Left
  <2> QED  BY <1>1, <1>5, <2>4 DEF Complete, KeepsTold
<1>6. ASSUME NEW e \in events, InvoiceFailed(e) PROVE Goal
  <2>1. \A x \in events : x.kind \in Tells => x \in events'
    BY <1>6 DEF InvoiceFailed, Answered, Left, Tells
  <2> QED  BY <1>1, <1>6, <2>1 DEF InvoiceFailed, KeepsTold
<1>7. ASSUME NEW w \in Workers, SaveCancel(w) PROVE Goal
  BY <1>1, <1>7 DEF SaveCancel, stripe, KeepsTold
<1>8. RInv => TypeInv
  BY DEF RInv
<1> HIDE DEF Goal
<1> QED  BY <1>1, <1>3, <1>4, <1>5, <1>6, <1>7, <1>8, RowSteps DEF RowsKept

\* A step tells nothing new of a subscription and leaves it alone, or starts it, or
\* changes it and tells something newer than all that was told.
Untold(t) == sub'[t] = sub[t] /\ Told(t)' = Told(t)

Retold(t) ==
    /\ sub[t].status \in Live /\ (sub[t].cancel => sub'[t].cancel)
    /\ Told(t) \subseteq Told(t)' /\ Latest(t)' # {}
    /\ \A e \in Latest(t)' : e \notin Told(t) /\ e \notin applied'

LEMMA ToldSteps ==
    ASSUME RInv, [Next]_vars, NEW t \in Trials
    PROVE  Untold(t) \/ (session[t] = "open" /\ Told(t)' = Told(t)) \/ Retold(t)
<1>1. /\ sub \in [Trials -> Subs] /\ changes \in Nat
      /\ \A e \in events \cup applied : e.id \in Nat /\ e.id <= changes
      /\ \A e \in applied' : e.id <= changes
  BY Forward DEF RInv, TypeInv, TypeOK, StripeInv, Event
<1>2. Told(t) \subseteq Told(t)'
  BY Heard DEF Told
<1>3. ASSUME \A e \in events' : e \in events \/ e.kind \notin Tells \/ e.trial # t
      PROVE  Told(t)' = Told(t)
  <2>1. \A e \in Told(t)' : e \in Told(t)
    BY <1>3, Heard DEF Told
  <2> QED  BY <1>2, <2>1
<1>4. CASE Quietly
  BY <1>3, <1>4 DEF Quietly, Untold
<1>5. ASSUME NEW x \in Trials, Opens(x) PROVE Untold(t)
  BY <1>3, <1>5 DEF Opens, Untold
<1>6. ASSUME NEW x \in Trials, Expires(x) PROVE Untold(t)
  BY <1>3, <1>6 DEF Expires, Untold, Tells
<1>7. ASSUME NEW x \in Trials, Accepts(x) PROVE Untold(t) \/ (session[t] = "open" /\ Told(t)' = Told(t))
  BY <1>1, <1>3, <1>7 DEF Accepts, Untold, Tells
<1>8. ASSUME NEW x \in Trials, News(x), x # t PROVE Untold(t)
  <2>1. Told(t)' = Told(t)
    BY <1>3, <1>8 DEF News
  <2> QED  BY <1>1, <1>8, <2>1 DEF News, Untold
<1>9. CASE News(t)
  <2>1. PICK k \in Tells : [kind |-> k, trial |-> t, id |-> changes + 1] \in events'
    BY <1>9 DEF News
  <2> DEFINE n == [kind |-> k, trial |-> t, id |-> changes + 1]
  <2>2. n \in Told(t)' /\ n.id = changes + 1
    BY <2>1 DEF Told
  <2> HIDE DEF n
  <2>3. \A e \in Told(t)' : e.id = changes + 1 \/ (e.id \in Nat /\ e.id <= changes)
    BY <1>1, <1>9, Heard DEF News, Told
  <2>4. Latest(t)' = {e \in Told(t)' : e.id = changes + 1}
    BY <1>1, <2>2, <2>3 DEF Latest
  <2>5. \A e \in Told(t) \cup applied' : e.id # changes + 1
    BY <1>1 DEF Told
  <2>6. sub[t].status \in Live /\ (sub[t].cancel => sub'[t].cancel)
    BY <1>1, <1>9 DEF News
  <2> QED  BY <1>2, <2>2, <2>4, <2>5, <2>6 DEF Retold
<1> QED  BY StripeSteps, <1>4, <1>5, <1>6, <1>7, <1>8, <1>9 DEF StripeStep, RInv

\* A handler that does not move has seen the subscription as it is, or Stripe has
\* told of a change since.
LEMMA SeenKept ==
    ASSUME RInv, [Next]_vars, NEW v \in Workers, pc'[v] = pc[v], job'[v] = job[v]
    PROVE  SeenOf(v)'
<1>1. SeenOf(v)
  BY DEF RInv, SeenInv
<1>2. CASE pc[v] \notin {"complete", "lifecycle", "saveCancel"}
  BY <1>2 DEF SeenOf
<1>3. CASE pc[v] \in {"complete", "lifecycle", "saveCancel"}
  <2>1. PICK t \in Trials : t = job[v].trial /\ session[t] = "complete"
    BY <1>3 DEF RInv, TypeInv, StageInv, StageOf
  <2>2. Untold(t) \/ Retold(t)
    BY <2>1, ToldSteps
  <2>3. CASE Untold(t)
    <3>1. Latest(t)' = Latest(t)
      BY <2>3 DEF Latest, Untold
    <3> QED  BY <1>1, <2>1, <2>3, <3>1 DEF SeenOf, Untold
  <2>4. CASE Retold(t)
    <3>1. Told(t)' # {}
      BY <2>4 DEF Retold, Latest
    <3>2. sub[t].status # "canceled"
      BY <2>4 DEF Retold, Live
    <3> QED  BY <1>1, <2>1, <2>4, <3>1, <3>2 DEF SeenOf, Retold
  <2> QED  BY <2>2, <2>3, <2>4
<1> QED  BY <1>2, <1>3

LEMMA NextSeenInv == ASSUME RInv, [Next]_vars PROVE SeenInv'
<1> USE DEF RInv, TypeInv
<1>1. ASSUME NEW w \in Workers, SeenOf(w)', \A v \in Workers \ {w} : pc'[v] = pc[v] /\ job'[v] = job[v]
      PROVE  SeenInv'
  BY <1>1, SeenKept DEF SeenInv
<1>2. CASE UNCHANGED <<pc, job>>
  BY <1>2, SeenKept DEF SeenInv
\* To the stages in which nothing seen is held.
<1>3. ASSUME NEW w \in Workers, NEW j \in Job, NEW s \in Stages \ {"complete", "lifecycle", "saveCancel"},
             Goto(w, s, j)
      PROVE  SeenInv'
  <2>1. pc'[w] = s /\ \A v \in Workers \ {w} : pc'[v] = pc[v] /\ job'[v] = job[v]
    BY <1>3, Moves
  <2>2. SeenOf(w)'
    BY <2>1 DEF SeenOf
  <2> QED  BY <1>1, <2>1, <2>2
<1>4. ASSUME NEW w \in Workers, Return(w) PROVE SeenInv'
  BY <1>3, <1>4, JobTypes DEF Return, Stages
<1>5. \A w \in Workers : job[w] \in Job
  BY DEF TypeOK
<1>6. ASSUME NEW w \in Workers, NEW u \in Users, NEW b \in BOOLEAN, NEW t \in Trials,
             Claim(w, u, b, t) \/ Resume(w, u, b, t)
      PROVE  SeenInv'
  <2> DEFINE j == [NoJob EXCEPT !.user = u, !.trial = t, !.ordered = b]
  <2>1. j \in Job
    BY JobTypes
  <2>2. Goto(w, "create", j) \/ Goto(w, "read", j)
    BY <1>6 DEF Claim, Resume
  <2> HIDE DEF j
  <2> QED  BY <1>3, <2>1, <2>2 DEF Stages
<1>7. ASSUME NEW w \in Workers,
             CreateSession(w) \/ SearchSession(w) \/ SaveSession(w) \/ ReleaseExpired(w)
      PROVE  SeenInv'
  <2>1. \/ \E s \in {"save", "replace", "confirm", "restart"} : Goto(w, s, job[w])
        \/ Return(w)
    BY <1>7 DEF CreateSession, SearchSession, SaveSession, ReleaseExpired
  <2> QED  BY <1>3, <1>4, <1>5, <2>1 DEF Stages
<1>8. ASSUME NEW w \in Workers, ReadSession(w) PROVE SeenInv'
  <2> DEFINE j == [job[w] EXCEPT !.found = (pc[w] = "confirm")]
  <2>1. j \in Job
    BY <1>5, JobTypes
  <2>2. Goto(w, "expire", j) \/ Goto(w, "subscription", job[w]) \/ Return(w)
    BY <1>8 DEF ReadSession
  <2> HIDE DEF j
  <2> QED  BY <1>3, <1>4, <1>5, <2>1, <2>2 DEF Stages
<1>9. ASSUME NEW w \in Workers, ReplaceAbsent(w) PROVE SeenInv'
  <2> DEFINE j == [job[w] EXCEPT !.ordered = linked[job[w].trial]]
  <2>1. linked[job[w].trial] \in BOOLEAN
    BY <1>9 DEF ReplaceAbsent, StageInv, StageOf, TypeOK
  <2>2. j \in Job
    BY <1>5, <2>1, JobTypes
  <2>3. Goto(w, "restart", j) \/ Return(w)
    BY <1>9 DEF ReplaceAbsent
  <2> HIDE DEF j
  <2> QED  BY <1>3, <1>4, <2>2, <2>3 DEF Stages
<1>10. \A e \in events : e \in Event /\ e.trial \in Trials /\ sub[e.trial] \in Subs
  BY DEF TypeOK, Event
<1>11. ASSUME NEW w \in Workers, NEW e \in events, Deliver(w, e) PROVE SeenInv'
  <2> DEFINE j == [NoJob EXCEPT !.trial = e.trial, !.event = e]
  <2>1. j \in Job
    BY <1>10, JobTypes
  <2>2. Goto(w, "subscription", j)
    BY <1>11 DEF Deliver
  <2> HIDE DEF j
  <2> QED  BY <1>3, <2>1, <2>2 DEF Stages
<1>12. ASSUME NEW w \in Workers, NEW t \in Trials, Confirm(w, t) \/ StartCancel(w, t) PROVE SeenInv'
  <2> DEFINE j == [NoJob EXCEPT !.trial = t]
  <2>1. j \in Job
    BY JobTypes
  <2>2. Goto(w, "subscription", j) \/ Goto(w, "cancel", j)
    BY <1>12 DEF Confirm, StartCancel
  <2> HIDE DEF j
  <2> QED  BY <1>3, <2>1, <2>2 DEF Stages
<1>13. ASSUME NEW w \in Workers, ReadSubscription(w) PROVE SeenInv'
  <2> DEFINE j == [job[w] EXCEPT !.seen = sub[job[w].trial]]
  <2>1. sub[job[w].trial] \in Subs
    BY <1>13 DEF ReadSubscription, StageInv, StageOf, TypeOK
  <2>2. j \in Job
    BY <1>5, <2>1, JobTypes
  <2>3. j.trial = job[w].trial /\ j.seen = sub[job[w].trial]
    BY <1>5 DEF Job
  <2>4. Goto(w, "complete", j) /\ sub' = sub
    BY <1>13 DEF ReadSubscription, stripe
  <2> HIDE DEF j
  <2>5. /\ pc'[w] = "complete" /\ job'[w] = j
        /\ \A v \in Workers \ {w} : pc'[v] = pc[v] /\ job'[v] = job[v]
    BY <2>2, <2>4, Moves DEF Stages
  <2>6. SeenOf(w)'
    BY <2>3, <2>4, <2>5 DEF SeenOf
  <2> QED  BY <1>1, <2>5, <2>6
<1>14. ASSUME NEW w \in Workers, NEW e \in events, DeliverUpdated(w, e) PROVE SeenInv'
  <2> DEFINE j == [NoJob EXCEPT !.trial = e.trial, !.event = e, !.seen = sub[e.trial]]
  <2>1. j \in Job
    BY <1>10, JobTypes
  <2>2. j.trial = e.trial /\ j.event = e /\ j.seen = sub[e.trial]
    BY DEF NoJob
  <2>3. Goto(w, "lifecycle", j) /\ sub' = sub /\ events' = events /\ applied' = applied
    BY <1>14 DEF DeliverUpdated, stripe
  <2> HIDE DEF j
  <2>4. /\ pc'[w] = "lifecycle" /\ job'[w] = j
        /\ \A v \in Workers \ {w} : pc'[v] = pc[v] /\ job'[v] = job[v]
    BY <2>1, <2>3, Moves DEF Stages
  <2>5. e \in events' /\ e.kind \in Tells
    BY <1>14, <2>3 DEF DeliverUpdated, Tells
  <2>6. SeenOf(w)'
    BY <2>2, <2>3, <2>4, <2>5 DEF SeenOf, Told
  <2> QED  BY <1>1, <2>4, <2>6
<1>15. ASSUME NEW w \in Workers, CancelBilling(w) PROVE SeenInv'
  <2>1. PICK t \in Trials : t = job[w].trial
    BY <1>15 DEF CancelBilling, StageInv, StageOf
  <2>2. CASE CancelRemotely(t, events) /\ Goto(w, "saveCancel", job[w])
    <3>1. /\ pc'[w] = "saveCancel" /\ job'[w] = job[w]
          /\ \A v \in Workers \ {w} : pc'[v] = pc[v] /\ job'[v] = job[v]
      BY <1>5, <2>2, Moves DEF Stages
    <3>2. sub'[t].cancel
      BY <2>2 DEF CancelRemotely, TypeOK, Subs
    <3>3. SeenOf(w)'
      BY <2>1, <3>1, <3>2 DEF SeenOf
    <3> QED  BY <1>1, <3>1, <3>3
  <2> QED  BY <1>4, <1>15, <2>1, <2>2 DEF CancelBilling
<1>16. ASSUME NEW w \in Workers,
              \/ Complete(w) \/ CompleteBound(w) \/ CompleteFails(w) \/ ApplyLifecycle(w)
              \/ SaveCancel(w) \/ GiveUp(w)
       PROVE  SeenInv'
  BY <1>4, <1>16 DEF Complete, CompleteBound, CompleteFails, ApplyLifecycle, SaveCancel, GiveUp
<1>17. CASE UNCHANGED vars
  BY <1>2, <1>17 DEF vars
<1>18. ASSUME NEW u \in Users,
              \/ PlaceOrder(u) \/ CancelOrder(u) \/ ExpireOrder(u) \/ OperatorSettles(u)
              \/ OtherGrant(u) \/ PlanEnds(u)
       PROVE  SeenInv'
  BY <1>2, <1>18
  DEF PlaceOrder, CancelOrder, ExpireOrder, OperatorSettles, OtherGrant, PlanEnds
<1>19. ASSUME NEW u \in Users, NEW t \in Trials, CancelOrderDies(u, t) PROVE SeenInv'
  BY <1>2, <1>19 DEF CancelOrderDies
<1>20. ASSUME NEW e \in events,
              \/ SessionExpired(e) \/ AlreadyGranted(e) \/ Deleted(e) \/ InvoicePaid(e)
              \/ InvoiceFailed(e)
       PROVE  SeenInv'
  BY <1>2, <1>20 DEF SessionExpired, AlreadyGranted, Deleted, InvoicePaid, InvoiceFailed
<1>21. ASSUME NEW t \in Trials,
              \/ Deadline(t) \/ SubStarts(t) \/ SessionTimesOut(t) \/ Bills(t) \/ BillFails(t)
              \/ Ends(t)
       PROVE  SeenInv'
  BY <1>2, <1>21 DEF Deadline, SubStarts, SessionTimesOut, Bills, BillFails, Ends, Change
<1> QED
  BY <1>6, <1>7, <1>8, <1>9, <1>11, <1>12, <1>13, <1>14, <1>15, <1>16, <1>17, <1>18, <1>19, <1>20,
     <1>21
  DEF Next, Customer, Office, StartTrial, Continue, Webhook, Stripe

\* A row that no step touches: whatever Stripe tells of it is newer, and to be applied.
RowKept(t) ==
    /\ cancel'[t] = cancel[t] /\ last'[t] = last[t]
    /\ status'[t] = status[t] \/ (~Bound(t) /\ ~Bound(t)')
    /\ \A e \in Told(t) : e \in applied' => e \in applied

LEMMA RecordKept ==
    ASSUME RInv, [Next]_vars, NEW t \in Trials, RowKept(t)
    PROVE  RecordOf(t)'
<1>1. RecordOf(t)
  BY DEF RInv, RecordInv
<1>2. /\ \A e \in Told(t) : e \in applied' <=> e \in applied
      /\ Bound(t)' <=> Bound(t)
      /\ (status'[t] = "canceled" \/ status[t] = "canceled" => status'[t] = status[t])
  BY Heard DEF RowKept, Bound, Live
<1>3. Bound(t) => session[t] = "complete" /\ Row(t)' = Row(t)
  BY DEF RInv, TypeInv, BoundInv, RowKept, Row
<1>4. CASE Untold(t)
  <2>1. Latest(t)' = Latest(t) /\ Told(t)' = Told(t) /\ sub'[t] = sub[t]
    BY <1>4 DEF Untold, Latest
  <2>2. Latest(t) \subseteq Told(t)
    BY DEF Latest
  <2> QED  BY <1>1, <1>2, <1>3, <2>1, <2>2 DEF RecordOf, RowKept, Bound
<1>5. CASE session[t] = "open" /\ Told(t)' = Told(t)
  <2>1. ~Bound(t) /\ Latest(t)' = Latest(t)
    BY <1>3, <1>5 DEF Latest
  <2> QED  BY <1>1, <1>2, <1>5, <2>1 DEF RecordOf, RowKept, Bound
<1>6. CASE Retold(t)
  <2>1. /\ Told(t) \subseteq Told(t)' /\ Latest(t)' # {} /\ sub[t].status # "canceled"
        /\ \A e \in Latest(t)' : e \notin applied'
        /\ \A e \in Told(t)' : e \in applied' => e \in Told(t)
    <3>1. \A e \in Told(t)' : e \in applied' => e \in Told(t)
      BY Heard DEF Told
    <3> QED  BY <1>6, <3>1 DEF Retold, Live
  <2>2. status[t] # "canceled"
    BY <1>1, <2>1 DEF RecordOf, Row
  <2> QED  BY <1>1, <1>2, <2>1, <2>2 DEF RecordOf, RowKept
<1> QED  BY <1>4, <1>5, <1>6, ToldSteps

\* Record: the newest of what was told is applied, or still to be.
LEMMA RecordRecords ==
    ASSUME RInv, [Next]_vars, NEW t \in Trials, NEW e \in Event, NEW state \in Subs,
           state.status # "none", Bound(t), e.trial = t, e \in Told(t), Record(e, state), sub' = sub,
           state.status = "canceled" => state = sub[t],
           state = sub[t] \/ e \notin Latest(t)
    PROVE  RecordOf(t)'
<1>1. RecordOf(t)
  BY DEF RInv, RecordInv
<1>2. Told(t)' = Told(t) /\ Latest(t)' = Latest(t) /\ Latest(t) \subseteq Told(t)
  <2>1. Told(t)' = Told(t)
    BY DEF Record, Answered, Left, Told
  <2> QED  BY <2>1 DEF Latest
<1>3. \A x \in Told(t) : x.id \in Nat
  BY DEF RInv, TypeInv, TypeOK, Told, Event
<1>4. last[t] \in Nat /\ applied' = applied \cup {e}
  BY DEF RInv, TypeInv, TypeOK, Record
<1>5. CASE e \notin applied /\ status[t] # "canceled" /\ e.id >= last[t]
  <2>1. /\ status'[t] = state.status /\ cancel'[t] = state.cancel /\ last'[t] = e.id
    BY <1>5 DEF Record, Created, RInv, TypeInv, TypeOK
  <2>2. state.status \in Live \cup {"canceled"} /\ state = [status |-> state.status, cancel |-> state.cancel]
    BY DEF Subs
  <2>3. Row(t)' = state /\ Bound(t)'
    BY <2>1, <2>2 DEF Row, Bound
  <2>4. \A x \in Told(t) : x \in applied => x.id <= e.id
    BY <1>1, <1>3, <1>4, <1>5 DEF RecordOf
  <2>5. CASE state = sub[t]
    BY <1>1, <1>2, <1>3, <1>4, <2>1, <2>3, <2>4, <2>5 DEF RecordOf
  <2>6. CASE e \notin Latest(t)
    <3>1. PICK x \in Latest(t) : TRUE
      BY <1>1 DEF RecordOf
    <3>2. x \in Told(t) /\ x # e
      BY <2>6, <3>1 DEF Latest
    <3>3. x \notin applied
      <4> SUFFICES ASSUME x \in applied PROVE FALSE
        OBVIOUS
      <4>1. x.id <= e.id /\ \A y \in Told(t) : y.id <= x.id
        BY <2>4, <3>1, <3>2 DEF Latest
      <4>2. \A y \in Told(t) : y.id <= e.id
        BY <1>3, <3>2, <4>1
      <4> QED  BY <2>6, <4>2 DEF Latest
    <3>4. \E y \in Latest(t)' : y \notin applied'
      BY <1>2, <1>4, <3>1, <3>2, <3>3
    <3> QED  BY <1>1, <1>2, <1>3, <1>4, <2>1, <2>3, <2>4, <3>4 DEF RecordOf
  <2> QED  BY <2>5, <2>6
<1>6. CASE ~(e \notin applied /\ status[t] # "canceled" /\ e.id >= last[t])
  <2>1. status' = status /\ cancel' = cancel /\ last' = last
    BY <1>6 DEF Record, Created
  <2>2. Row(t)' = Row(t) /\ Bound(t)'
    BY <2>1 DEF Row, Bound
  <2>3. CASE e \in applied
    BY <1>1, <1>2, <1>4, <2>1, <2>2, <2>3 DEF RecordOf
  <2>4. CASE status[t] = "canceled"
    BY <1>1, <1>2, <1>4, <2>1, <2>2, <2>4 DEF RecordOf
  <2>5. CASE e.id < last[t]
    <3>1. e \notin Latest(t)
      BY <1>1, <1>3, <1>4, <2>5 DEF RecordOf, Latest
    <3>2. \A x \in Latest(t) : x \in applied' => x \in applied
      BY <1>4, <3>1
    <3> QED  BY <1>1, <1>2, <1>3, <1>4, <2>1, <2>2, <2>5, <3>2 DEF RecordOf
  <2> QED  BY <1>3, <1>4, <1>6, <2>3, <2>4, <2>5
<1> QED  BY <1>5, <1>6

\* A claim is bound to the subscription as it was seen; if that is stale, Stripe has
\* told of the change, and nothing it told of an unbound row was applied.
LEMMA CompleteRecords ==
    ASSUME RInv, [Next]_vars, NEW w \in Workers, Complete(w), NEW t \in Trials, t = job[w].trial
    PROVE  RecordOf(t)'
<1> DEFINE seen == job[w].seen
<1>1. RecordOf(t) /\ SeenOf(w)
  BY DEF RInv, RecordInv, SeenInv
<1>2. /\ pc[w] = "complete" /\ status[t] = "checkout"
      /\ status' = [status EXCEPT ![t] = seen.status]
      /\ cancel' = [cancel EXCEPT ![t] = seen.cancel \/ plan[owner[t]]]
      /\ last' = last /\ applied' = applied
  BY DEF Complete
<1>3. seen \in Subs /\ seen.status # "none" /\ session[t] = "complete"
  BY <1>2 DEF RInv, TypeInv, TypeOK, StageInv, StageOf, Job
<1>4. seen.status \in Live \cup {"canceled"} /\ seen = [status |-> seen.status, cancel |-> seen.cancel]
  BY <1>3 DEF Subs
<1>5. ~Bound(t) /\ \A e \in Told(t) : e \notin applied
  BY <1>1, <1>2 DEF RecordOf, Bound, Live
<1>6. Bound(t)' /\ status'[t] = seen.status
  BY <1>2, <1>4 DEF RInv, TypeInv, TypeOK, Bound
<1>7. (seen = sub[t] \/ Told(t) # {}) /\ (seen.status = "canceled" => seen = sub[t])
  BY <1>1, <1>2 DEF SeenOf
<1>8. last'[t] = 0 /\ \A e \in Told(t)' : e \notin applied'
  BY <1>1, <1>2, <1>5 DEF RecordOf, Told
<1>9. ASSUME Told(t)' # {} => Latest(t)' # {},
             Row(t)' = sub'[t] \/ (Latest(t)' # {} /\ seen.status # "canceled")
      PROVE  RecordOf(t)'
  <2>1. Latest(t)' \subseteq Told(t)'
    BY DEF Latest
  <2> QED  BY <1>6, <1>8, <1>9, <2>1 DEF RecordOf
<1>10. ASSUME sub' = sub, Told(t)' = Told(t), seen = sub[t] => Row(t)' = sub[t] PROVE RecordOf(t)'
  <2>1. Latest(t)' = Latest(t)
    BY <1>10 DEF Latest
  <2> QED  BY <1>1, <1>7, <1>9, <1>10, <2>1 DEF RecordOf
<1>11. PICK left \in Left(job[w].event) :
          IF plan[owner[t]] THEN CancelRemotely(t, left)
          ELSE events' = left /\ UNCHANGED <<sub, changes>>
  BY DEF Complete
<1>12. left \subseteq events /\ Told(t) \subseteq Told(t)'
  BY <1>11, Answers, Heard DEF RInv, TypeInv, Told
<1>13. events' = left => Told(t)' = Told(t)
  BY <1>2, <1>12 DEF Told
<1>14. CASE ~plan[owner[t]]
  <2>1. sub' = sub /\ Told(t)' = Told(t)
    BY <1>11, <1>13, <1>14
  <2>2. cancel'[t] = (seen.cancel \/ FALSE)
    BY <1>2, <1>14 DEF RInv, TypeInv, TypeOK
  <2>3. seen.cancel \in BOOLEAN
    BY <1>3 DEF Subs
  <2>4. cancel'[t] = seen.cancel
    BY <2>2, <2>3
  <2>5. Row(t)' = seen
    BY <1>4, <1>6, <2>4 DEF Row
  <2> QED  BY <1>10, <2>1, <2>5
<1>15. CASE plan[owner[t]]
  <2>1. CancelRemotely(t, left)
    BY <1>11, <1>15
  <2>2. sub[t].status \in Live /\ sub[t] \in Subs
    BY <2>1 DEF CancelRemotely, RInv, TypeInv, TypeOK
  <2>3. cancel'[t] = TRUE
    BY <1>2, <1>15 DEF RInv, TypeInv, TypeOK
  <2>4. seen.status # "canceled"
    BY <1>7, <2>2 DEF Live
  <2>5. CASE sub[t].cancel
    <3>1. sub' = sub /\ events' = left
      <4>1. sub \in [Trials -> Subs]
        BY DEF RInv, TypeInv, TypeOK
      <4> QED  BY <2>1, <2>5, <4>1 DEF CancelRemotely, Subs
    <3>2. sub[t].cancel = TRUE /\ sub[t] = [status |-> sub[t].status, cancel |-> sub[t].cancel]
      BY <2>2, <2>5 DEF Subs
    <3>3. seen = sub[t] => Row(t)' = sub[t]
      BY <1>6, <2>3, <3>2 DEF Row
    <3> QED  BY <1>10, <1>13, <3>1, <3>3
  <2>6. CASE ~sub[t].cancel
    <3>1. sub'[t] # sub[t]
      <4>1. sub'[t].cancel
        BY <2>1 DEF CancelRemotely, RInv, TypeInv, TypeOK, Subs
      <4> QED  BY <2>6, <4>1
    <3>2. Retold(t)
      BY <1>3, <3>1, ToldSteps DEF Untold
    <3> QED  BY <1>9, <2>4, <3>2 DEF Retold
  <2> QED  BY <2>5, <2>6
<1> QED  BY <1>14, <1>15

LEMMA NextRecordInv == ASSUME RInv, [Next]_vars PROVE RecordInv'
<1> USE DEF RInv, TypeInv
<1>1. CASE RowsKept
  BY <1>1, RecordKept DEF RowsKept, RowKept, KeepsTold, RecordInv
<1>2. /\ status \in [Trials -> RowStatus \cup {"none"}] /\ cancel \in [Trials -> BOOLEAN]
      /\ last \in [Trials -> Nat] /\ sub \in [Trials -> Subs]
      /\ \A e \in events : e \in Event /\ e.trial \in Trials
  BY DEF TypeOK, Event
<1>3. ASSUME NEW x \in Trials, RecordOf(x)', \A t \in Trials \ {x} : RowKept(t)
      PROVE  RecordInv'
  BY <1>3, RecordKept DEF RecordInv
<1>4. ASSUME NEW w \in Workers, Complete(w) PROVE RecordInv'
  <2>1. PICK x \in Trials : x = job[w].trial
    BY <1>4 DEF Complete, StageInv, StageOf
  <2>2. \A t \in Trials \ {x} : RowKept(t)
    BY <1>2, <1>4, <2>1 DEF Complete, RowKept
  <2> QED  BY <1>3, <1>4, <2>1, <2>2, CompleteRecords
<1>5. ASSUME NEW e \in Event, NEW state \in Subs, state.status # "none", Bound(e.trial),
             e \in Told(e.trial), Record(e, state), sub' = sub,
             state.status = "canceled" => state = sub[e.trial],
             state = sub[e.trial] \/ e \notin Latest(e.trial)
      PROVE  RecordInv'
  <2>1. PICK x \in Trials : x = e.trial
    BY DEF Event
  <2>2. RecordOf(x)'
    BY <1>5, <2>1, RecordRecords
  <2>3. \A t \in Trials \ {x} : e \notin Told(t)
    BY <2>1 DEF Told
  <2>4. \A t \in Trials \ {x} : RowKept(t)
    BY <1>2, <1>5, <2>1, <2>3 DEF Record, RowKept
  <2> QED  BY <1>3, <2>2, <2>4
<1>6. ASSUME NEW w \in Workers, ApplyLifecycle(w) PROVE RecordInv'
  <2> DEFINE e == job[w].event
  <2>1. /\ e \in Event /\ e.trial = job[w].trial /\ job[w].seen \in Subs /\ job[w].seen.status # "none"
        /\ UNCHANGED <<sub>>
    BY <1>6 DEF ApplyLifecycle, StageInv, StageOf, TypeOK, Job
  <2>2. /\ e \in Told(e.trial)
        /\ job[w].seen.status = "canceled" => job[w].seen = sub[e.trial]
        /\ job[w].seen = sub[e.trial] \/ e \notin Latest(e.trial)
    BY <1>6, <2>1 DEF ApplyLifecycle, SeenInv, SeenOf
  <2>3. CASE Bound(e.trial)
    <3>1. Record(e, job[w].seen)
      BY <1>6, <2>3 DEF ApplyLifecycle
    <3> HIDE DEF e
    <3> QED  BY <1>5, <2>1, <2>2, <2>3, <3>1
  <2>4. CASE ~Bound(e.trial)
    <3>1. UNCHANGED <<applied, status, cancel, last>>
      BY <1>6, <2>4 DEF ApplyLifecycle
    <3> QED  BY <3>1, RecordKept DEF RowKept, RecordInv
  <2> QED  BY <2>3, <2>4
<1>7. ASSUME NEW e \in events, Deleted(e) PROVE RecordInv'
  <2>1. e \in Event /\ e.trial \in Trials /\ e \in Told(e.trial)
    BY <1>2, <1>7 DEF Deleted, Told, Tells
  <2>2. sub[e.trial] \in Subs /\ sub[e.trial].status # "none"
    BY <1>2, <1>7, <2>1 DEF Deleted, StripeInv, BoundInv
  <2> QED  BY <1>5, <1>7, <2>1, <2>2 DEF Deleted
<1>8. ASSUME NEW e \in events, InvoiceFailed(e) PROVE RecordInv'
  <2>1. PICK x \in Trials : x = e.trial
    BY <1>2
  <2>2. \A t \in Trials \ {x} : RowKept(t)
    BY <1>2, <1>8, <2>1 DEF InvoiceFailed, RowKept
  <2>3. CASE status[x] = "canceled"
    <3>1. RowKept(x)
      BY <1>2, <1>8, <2>1, <2>3 DEF InvoiceFailed, RowKept
    <3> QED  BY <1>3, <2>2, <3>1, RecordKept
  <2>4. CASE status[x] # "canceled"
    <3>1. /\ sub[x] = [status |-> sub[x].status, cancel |-> sub[x].cancel]
          /\ sub[x].status \in Live \cup {"canceled"} /\ Bound(x)
      BY <1>2, <1>8, <2>1 DEF InvoiceFailed, StripeInv, BoundInv, Subs
    <3>2. /\ status'[x] = sub[x].status /\ cancel'[x] = sub[x].cancel
          /\ UNCHANGED <<last, applied, sub>>
      BY <1>2, <1>8, <2>1, <2>4 DEF InvoiceFailed
    <3>3. Row(x)' = sub'[x] /\ Bound(x)'
      BY <3>1, <3>2 DEF Row, Bound
    <3>4. Told(x)' = Told(x)
      BY <1>8 DEF InvoiceFailed, Answered, Left, Told, Tells
    <3>5. Latest(x)' = Latest(x)
      BY <3>4 DEF Latest
    <3>6. RecordOf(x)
      BY DEF RecordInv
    <3>7. RecordOf(x)'
      BY <2>4, <3>2, <3>3, <3>4, <3>5, <3>6 DEF RecordOf
    <3> QED  BY <1>3, <2>2, <3>7
  <2> QED  BY <2>3, <2>4
<1>9. ASSUME NEW w \in Workers, SaveCancel(w) PROVE RecordInv'
  <2>1. PICK x \in Trials : x = job[w].trial
    BY <1>9 DEF SaveCancel, StageInv, StageOf
  <2>2. sub[x].cancel /\ sub[x] \in Subs
    BY <1>2, <1>9, <2>1 DEF SaveCancel, SeenInv, SeenOf
  <2>3. UNCHANGED <<status, last, applied, events, sub>> /\ cancel' = [cancel EXCEPT ![x] = TRUE]
    BY <1>9, <2>1 DEF SaveCancel, stripe
  <2>4. \A t \in Trials \ {x} : RowKept(t)
    BY <1>2, <2>3 DEF RowKept
  <2>5. sub[x].cancel = TRUE
    BY <2>2 DEF Subs
  <2>6. Row(x) = sub[x] => Row(x)' = sub[x]
    BY <1>2, <2>3, <2>5 DEF Row
  <2>7. Told(x)' = Told(x) /\ Latest(x)' = Latest(x) /\ (Bound(x)' <=> Bound(x))
    <3>1. Told(x)' = Told(x)
      BY <2>3 DEF Told
    <3> QED  BY <2>3, <3>1 DEF Latest, Bound
  <2>8. RecordOf(x)
    BY DEF RecordInv
  <2>9. RecordOf(x)'
    BY <2>3, <2>6, <2>7, <2>8 DEF RecordOf
  <2> QED  BY <1>3, <2>4, <2>9
<1> QED  BY <1>1, <1>4, <1>6, <1>7, <1>8, <1>9, RowSteps

LEMMA RecordsHold == Spec => []RInv
<1>1. RInv /\ [Next]_vars => RInv'
  BY NextTypeInv, NextSeenInv, NextRecordInv DEF RInv
<1> QED  BY <1>1, InitRInv, PTL DEF Spec

\* However Stripe's events and answers are ordered, repeated or lost, and whatever
\* handler dies: once nothing is under way, a bound row says of its subscription what
\* Stripe says (stripe_trial_lifecycle.go, stripe_trial_complete.go).
THEOREM RecordsFollowStripe == Spec => []RecordFollowsStripe
<1>1. RInv => RecordFollowsStripe
  <2> SUFFICES ASSUME RInv, Quiet, NEW t \in Trials, Bound(t) PROVE sub[t] = Row(t)
    BY DEF RecordFollowsStripe, Row
  <2>1. \A e \in Latest(t) : e \in applied
    BY DEF Quiet, Latest, Told
  <2> QED  BY <2>1 DEF RInv, RecordInv, RecordOf
<1> QED  BY <1>1, RecordsHold, PTL

\* No user has two subscriptions at Stripe that bill.
BilledOnce == \A x, y \in Trials :
    owner[x] = owner[y] /\ sub[x].status \in Live /\ sub[y].status \in Live => x = y

\* A retry, a second tab or a replaced checkout never leaves a customer with two
\* subscriptions: the session of a claim that is given back has ended for good, and a
\* row is closed only once Stripe says that its subscription is
\* (stripe_trial_start.go, stripe_trial_lifecycle.go).
THEOREM NobodyIsBilledTwice == Spec => []BilledOnce
<1>1. ClaimInv /\ RInv => BilledOnce
  <2> SUFFICES ASSUME ClaimInv, RInv, NEW x \in Trials, sub[x].status \in Live PROVE Open(x)
    BY DEF ClaimInv, OneOpen, BilledOnce
  <2>1. session[x] = "complete" /\ owner[x] # None
    BY DEF RInv, TypeInv, StripeInv, Live
  <2>2. status[x] # "expired"
    BY <2>1 DEF ClaimInv, ReleasedIsGone, Gone
  <2>3. status[x] # "canceled"
    <3> SUFFICES ASSUME status[x] = "canceled" PROVE FALSE
      OBVIOUS
    <3>1. RecordOf(x)
      BY DEF RInv, RecordInv
    <3>2. Row(x) = sub[x]
      BY <3>1 DEF RecordOf
    <3>3. Row(x).status = "canceled"
      BY DEF Row
    <3> QED  BY <3>2, <3>3 DEF Live
  <2> QED  BY <2>1, <2>2, <2>3 DEF RInv, TypeInv, TypeOK, RowStatus, Open, Live
<1> QED  BY <1>1, ClaimsHold, RecordsHold, PTL
=============================================================================

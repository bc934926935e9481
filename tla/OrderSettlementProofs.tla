------------------------ MODULE OrderSettlementProofs ------------------------
(***************************************************************************)
(* Proofs about OrderSettlement: its types; that a plan is granted at most *)
(* once per order and only for a paid one, and that it implements          *)
(* Entitlement, both unless a commit acknowledgement is lost; that coupon  *)
(* counters, reservations and commissions agree with the orders; and what  *)
(* alone can leave an order paid without its plan.                         *)
(***************************************************************************)
EXTENDS OrderSettlement, FiniteSetTheorems, TLAPS

(***************************************************************************)
(* What a worker and a session refer to exists.  TypeOK alone is not       *)
(* inductive: answering a webhook needs a busy worker's event to be one.   *)
(***************************************************************************)
Busy == Stages \ {"idle", "openSession", "saveSession"}

JobsExist ==
    \A w \in Workers :
        /\ pc[w] \in Busy => job[w].event \in Events /\ job[w].order \in Orders
        /\ pc[w] = "openSession" => job[w].order \in Orders
        /\ pc[w] = "saveSession" => job[w].order \in Orders /\ job[w].session \in Sessions

HostedExist == \A s \in Sessions : hosted[s].state # "none" => hosted[s].order \in Orders

TypeInv == TypeOK /\ JobsExist /\ HostedExist

LEMMA PriceIsNat == ASSUME promo \in [Orders -> Codes \cup {None}], NEW o \in Orders
                    PROVE  Price(o) \in Nat
  BY ConstantsAssumption DEF Price, Discounted

LEMMA PanelEvents == ASSUME NEW k \in Channels, k \in PanelKinds, NEW o \in Orders
                     PROVE  <<k, o>> \in Events /\ <<k, o>>[1] = k
  BY DEF Events

LEMMA StripeEvents == ASSUME NEW k \in Channels, k \in StripeKinds, NEW s \in Sessions
                      PROVE  <<k, s>> \in Events /\ <<k, s>>[1] = k
  BY DEF Events

LEMMA WebhookKeys == ASSUME NEW e \in Events, e[1] = "webhook" PROVE e[2] \in Sessions
  BY DEF Events, PanelKinds, StripeKinds

LEMMA ReleaseTypes ==
    ASSUME TypeOK, NEW o \in Orders
    PROVE  Released(o) \in [Orders -> RedemptionRow] /\ CountAfterRelease(o) \in [Coupons -> Nat]
<1>1. redemption \in [Orders -> RedemptionRow] /\ redeemed \in [Coupons -> Nat]
  BY DEF TypeOK
<1>2. [redemption[o] EXCEPT !.state = "released"] \in RedemptionRow
  BY <1>1 DEF RedemptionRow
<1>3. \A c \in Coupons : redeemed[c] = 0 \/ redeemed[c] - 1 \in Nat
  BY <1>1
<1> QED  BY <1>1, <1>2, <1>3 DEF Released, CountAfterRelease

\* Closing a session at Stripe keeps its row.
LEMMA ClosedSession ==
    ASSUME TypeOK, NEW s \in Sessions, NEW st \in {"complete", "expired"}
    PROVE  LET row == [hosted[s] EXCEPT !.state = st]
           IN  row \in SessionRow /\ row.order = hosted[s].order /\ row.state = st
  BY DEF TypeOK, SessionRow

LEMMA ExpireTypes ==
    ASSUME TypeInv, NEW o \in Orders, ExpireHosted(o)
    PROVE  hosted' \in [Sessions -> SessionRow] /\ HostedExist'
<1>1. hosted \in [Sessions -> SessionRow] /\ session[o] \in Sessions \cup {None}
  BY DEF TypeInv, TypeOK
<1>2. CASE UNCHANGED hosted
  BY <1>1, <1>2 DEF TypeInv, HostedExist
<1>3. CASE ~UNCHANGED hosted
  <2> DEFINE row == [hosted[session[o]] EXCEPT !.state = "expired"]
  <2>1. session[o] \in Sessions /\ hosted' = [hosted EXCEPT ![session[o]] = row]
            /\ hosted[session[o]].state = "open"
    BY <1>1, <1>3 DEF ExpireHosted
  <2>2. row \in SessionRow /\ row.order = hosted[session[o]].order
    BY <2>1, ClosedSession DEF TypeInv
  <2> HIDE DEF row
  <2> QED  BY <1>1, <2>1, <2>2 DEF TypeInv, HostedExist
<1> QED  BY <1>2, <1>3

\* How a worker moves on, ends its job, gives up or answers the webhook.
LEMMA WorkerMoves ==
    ASSUME TypeInv, NEW w \in Workers, pc[w] # "idle"
    PROVE  LET Typed == pc' \in [Workers -> Stages] /\ job' \in [Workers -> JobRow] /\ JobsExist'
           IN  /\ Finish(w) => Typed
               /\ pc[w] \in Busy => \A st \in Busy : GoTo(w, st) => Typed
               /\ pc[w] \in Busy /\ GiveUp(w) => Typed
               /\ pc[w] \in Busy /\ Answer(w) => acked' \subseteq Sessions
<1> DEFINE Typed == pc' \in [Workers -> Stages] /\ job' \in [Workers -> JobRow] /\ JobsExist'
<1>0. pc \in [Workers -> Stages] /\ job \in [Workers -> JobRow] /\ acked \subseteq Sessions
  BY DEF TypeInv, TypeOK
<1>1. Finish(w) => Typed
  <2>1. NoJob \in JobRow
    BY DEF NoJob, JobRow
  <2> QED  BY <1>0, <2>1 DEF Finish, TypeInv, JobsExist, Busy, Stages
<1>2. ASSUME pc[w] \in Busy, NEW st \in Busy, GoTo(w, st) PROVE Typed
  BY <1>0, <1>2 DEF GoTo, TypeInv, JobsExist, Busy, Stages
<1>3. ASSUME pc[w] \in Busy, GiveUp(w) PROVE Typed
  BY <1>1, <1>2, <1>3 DEF GiveUp, Busy, Stages
<1>4. ASSUME pc[w] \in Busy, Answer(w) PROVE acked' \subseteq Sessions
  BY <1>0, <1>4, WebhookKeys DEF Answer, TypeInv, JobsExist
<1> QED  BY <1>1, <1>2, <1>3, <1>4

LEMMA InitTypeInv == Init => TypeInv
  BY ConstantsAssumption DEF Init, TypeInv, TypeOK, JobsExist, HostedExist, NoJob, Stages, Busy,
      RedemptionRow, SessionRow, JobRow

LEMMA NextTypeInv == TypeInv /\ [Next]_vars => TypeInv'
<1> SUFFICES ASSUME TypeInv, [Next]_vars PROVE TypeInv'
  OBVIOUS
<1> USE DEF PanelKinds, StripeKinds
<1>1. ASSUME NEW o \in Orders, PlaceOrder(o) PROVE TypeInv'
  BY <1>1 DEF TypeInv, TypeOK, JobsExist, HostedExist, Busy, Stages, rows,
     ledger, books, stripe, worker, PlaceOrder, Create
<1>2. ASSUME NEW o \in Orders, NEW w \in Workers, PlaceFreeOrder(o, w) PROVE TypeInv'
  BY <1>2, PanelEvents DEF TypeInv, TypeOK, JobsExist, HostedExist, Busy,
     Stages, rows, ledger, books, stripe, worker, PlaceFreeOrder, Create,
     Call, JobRow
<1>3. ASSUME NEW o \in Orders, NEW w \in Workers, GrantOrder(o, w) PROVE TypeInv'
  <2>1. BasePrice[o] \in Nat /\ <<"grant", o>> \in Events
    BY <1>3, PanelEvents, ConstantsAssumption DEF GrantOrder, Call
  <2>2. [event |-> <<"grant", o>>, order |-> o, amount |-> BasePrice[o], session |-> None]
            \in JobRow
    BY <2>1 DEF JobRow
  <2> QED
    BY <1>3, <2>1, <2>2 DEF TypeInv, TypeOK, JobsExist, HostedExist, Busy,
       Stages, rows, ledger, books, stripe, worker, GrantOrder, Create, Call
<1>4. ASSUME NEW o \in Orders, NEW c \in Coupons, ApplyCoupon(o, c) PROVE TypeInv'
  BY <1>4, ReleaseTypes DEF TypeInv, TypeOK, JobsExist, HostedExist, Busy,
     Stages, rows, ledger, books, stripe, worker, ApplyCoupon, Codes,
     RedemptionRow
<1>5. ASSUME NEW o \in Orders, NEW p \in Partners, ApplyAffiliate(o, p) PROVE TypeInv'
  BY <1>5, ReleaseTypes DEF TypeInv, TypeOK, JobsExist, HostedExist, Busy,
     Stages, rows, ledger, books, stripe, worker, ApplyAffiliate, Release,
     Codes
<1>6. ASSUME NEW o \in Orders, RemovePromotion(o) PROVE TypeInv'
  BY <1>6, ReleaseTypes DEF TypeInv, TypeOK, JobsExist, HostedExist, Busy,
     Stages, rows, ledger, books, stripe, worker, RemovePromotion, Release
<1>7. ASSUME NEW o \in Orders, NEW w \in Workers, StartCheckout(o, w) PROVE TypeInv'
  BY <1>7, PriceIsNat DEF TypeInv, TypeOK, JobsExist, HostedExist, Busy,
     Stages, rows, ledger, books, stripe, worker, StartCheckout, JobRow
<1>39. ASSUME NEW w \in Workers, NEW s \in Sessions, OpenSession(w, s) PROVE TypeInv'
  BY <1>39 DEF TypeInv, TypeOK, JobsExist, HostedExist, Busy, Stages, rows,
     ledger, books, stripe, worker, OpenSession, JobRow, SessionRow
<1>40. ASSUME NEW w \in Workers, CheckoutFails(w) PROVE TypeInv'
  BY <1>40 DEF TypeInv, TypeOK, JobsExist, HostedExist, Busy, Stages, rows,
     ledger, books, stripe, worker, CheckoutFails, Finish, NoJob, JobRow
<1>8. ASSUME NEW w \in Workers, SaveSession(w) PROVE TypeInv'
  BY <1>8 DEF TypeInv, TypeOK, JobsExist, HostedExist, Busy, Stages, rows,
     ledger, books, stripe, worker, SaveSession, Finish, NoJob, JobRow
<1>9. ASSUME NEW o \in Orders, StartManualCheckout(o) PROVE TypeInv'
  BY <1>9 DEF TypeInv, TypeOK, JobsExist, HostedExist, Busy, Stages, rows,
     ledger, books, stripe, worker, StartManualCheckout
<1>10. ASSUME NEW o \in Orders, Cancel(o) PROVE TypeInv'
  <2>1. hosted' \in [Sessions -> SessionRow] /\ HostedExist'
    BY <1>10, ExpireTypes DEF Cancel
  <2> QED
    BY <1>10, <2>1, ReleaseTypes DEF TypeInv, TypeOK, JobsExist, rows,
       ledger, books, stripe, worker, Cancel, Release
<1>11. ASSUME NEW o \in Orders, CancelFails(o) PROVE TypeInv'
  <2>1. hosted' \in [Sessions -> SessionRow] /\ HostedExist'
    BY <1>11, ExpireTypes DEF CancelFails
  <2> QED
    BY <1>11, <2>1 DEF TypeInv, TypeOK, JobsExist, rows, ledger, books,
       stripe, worker, CancelFails
<1>12. ASSUME NEW o \in Orders, PayCommission(o) PROVE TypeInv'
  BY <1>12 DEF TypeInv, TypeOK, JobsExist, HostedExist, Busy, Stages, rows,
     ledger, books, stripe, worker, PayCommission
<1>13. ASSUME NEW o \in Orders, NEW w \in Workers, MarkPaid(o, w) PROVE TypeInv'
  BY <1>13, PanelEvents DEF TypeInv, TypeOK, JobsExist, HostedExist, Busy,
     Stages, rows, ledger, books, stripe, worker, MarkPaid, Call, JobRow
<1>14. ASSUME NEW s \in Sessions, NEW w \in Workers, Webhook(s, w) PROVE TypeInv'
  <2>1. <<"webhook", s>> \in Events
    BY <1>14, StripeEvents DEF Webhook, Call
  <2>2. hosted[s].order \in Orders /\ hosted[s].amount \in Nat
    BY <1>14 DEF Webhook, TypeInv, TypeOK, HostedExist, SessionRow
  <2>3. [event |-> <<"webhook", s>>, order |-> hosted[s].order, amount |-> hosted[s].amount,
         session |-> None] \in JobRow
    BY <2>1, <2>2 DEF JobRow
  <2> QED
    BY <1>14, <2>1, <2>2, <2>3 DEF TypeInv, TypeOK, JobsExist, HostedExist, Busy,
       Stages, rows, ledger, books, stripe, worker, Webhook, Call
<1>15. ASSUME NEW s \in Sessions, NEW w \in Workers, Confirm(s, w) PROVE TypeInv'
  <2>1. <<"confirm", s>> \in Events
    BY <1>15, StripeEvents DEF Confirm, Call
  <2>2. hosted[s].order \in Orders /\ hosted[s].amount \in Nat
    BY <1>15 DEF Confirm, TypeInv, TypeOK, HostedExist, SessionRow
  <2>3. [event |-> <<"confirm", s>>, order |-> hosted[s].order, amount |-> hosted[s].amount,
         session |-> None] \in JobRow
    BY <2>1, <2>2 DEF JobRow
  <2> QED
    BY <1>15, <2>1, <2>2, <2>3 DEF TypeInv, TypeOK, JobsExist, HostedExist, Busy,
       Stages, rows, ledger, books, stripe, worker, Confirm, Call
<1>16. ASSUME NEW w \in Workers, ClaimDuplicate(w) PROVE TypeInv'
  <2>1. pc' \in [Workers -> Stages] /\ job' \in [Workers -> JobRow] /\ JobsExist'
    BY <1>16, WorkerMoves DEF ClaimDuplicate, Busy, Stages
  <2>2. acked' \subseteq Sessions
    BY <1>16, WorkerMoves DEF ClaimDuplicate, Busy, Stages, TypeInv, TypeOK,
       stripe
  <2> QED  BY <1>16, <2>1, <2>2 DEF TypeInv, TypeOK, HostedExist, rows,
   ledger, books, stripe, worker, ClaimDuplicate
<1>17. ASSUME NEW w \in Workers, ClaimUnsettleable(w) PROVE TypeInv'
  <2>1. pc' \in [Workers -> Stages] /\ job' \in [Workers -> JobRow] /\ JobsExist'
    BY <1>17, WorkerMoves DEF ClaimUnsettleable, Busy, Stages
  <2>2. acked' \subseteq Sessions
    BY <1>17, WorkerMoves DEF ClaimUnsettleable, Busy, Stages, TypeInv,
       TypeOK, stripe
  <2> QED  BY <1>17, <2>1, <2>2 DEF TypeInv, TypeOK, HostedExist, rows,
   ledger, books, stripe, worker, ClaimUnsettleable, Record
<1>18. ASSUME NEW w \in Workers, ClaimMismatch(w) PROVE TypeInv'
  <2>1. pc' \in [Workers -> Stages] /\ job' \in [Workers -> JobRow] /\ JobsExist'
    BY <1>18, WorkerMoves DEF ClaimMismatch, Busy, Stages
  <2>2. acked' \subseteq Sessions
    BY <1>18, WorkerMoves DEF ClaimMismatch, Busy, Stages, TypeInv, TypeOK,
       stripe
  <2> QED  BY <1>18, <2>1, <2>2 DEF TypeInv, TypeOK, HostedExist, rows,
   ledger, books, stripe, worker, ClaimMismatch, Record
<1>19. ASSUME NEW w \in Workers, ClaimOrder(w) PROVE TypeInv'
  BY <1>19 DEF TypeInv, TypeOK, JobsExist, HostedExist, Busy, Stages, rows,
     ledger, books, stripe, worker, ClaimOrder, Record, BookCommission, GoTo
<1>20. ASSUME NEW w \in Workers, GrantPlan(w) PROVE TypeInv'
  BY <1>20 DEF TypeInv, TypeOK, JobsExist, HostedExist, Busy, Stages, rows,
     ledger, books, stripe, worker, GrantPlan, GoTo
<1>21. ASSUME NEW w \in Workers, ConfirmRedemption(w) PROVE TypeInv'
  <2> DEFINE r == redemption[job[w].order]
             row == [r EXCEPT !.state = IF @ = "reserved" THEN "confirmed" ELSE @]
  <2>1. redemption' = [redemption EXCEPT ![job[w].order] = row]
    BY <1>21 DEF ConfirmRedemption
  <2>2. r \in RedemptionRow => row \in RedemptionRow
    BY DEF RedemptionRow
  <2>3. redemption' \in [Orders -> RedemptionRow]
    <3> HIDE DEF row
    <3> QED  BY <2>1, <2>2 DEF TypeInv, TypeOK
  <2>4. pc' \in [Workers -> Stages] /\ job' \in [Workers -> JobRow] /\ JobsExist'
    BY <1>21, WorkerMoves DEF ConfirmRedemption, Busy, Stages
  <2> QED
    BY <1>21, <2>3, <2>4 DEF TypeInv, TypeOK, HostedExist, rows, ledger,
       books, stripe, worker, ConfirmRedemption
<1>22. ASSUME NEW w \in Workers, MarkGranted(w) PROVE TypeInv'
  BY <1>22, WebhookKeys DEF TypeInv, TypeOK, JobsExist, HostedExist, Busy,
     Stages, rows, ledger, books, stripe, worker, MarkGranted, Finish,
     NoJob, Answer, JobRow
<1>23. ASSUME NEW w \in Workers, RevertOrder(w) PROVE TypeInv'
  BY <1>23 DEF TypeInv, TypeOK, JobsExist, HostedExist, Busy, Stages, rows,
     ledger, books, stripe, worker, RevertOrder, GoTo
<1>24. ASSUME NEW w \in Workers, DropCommission(w) PROVE TypeInv'
  BY <1>24 DEF TypeInv, TypeOK, JobsExist, HostedExist, Busy, Stages, rows,
     ledger, books, stripe, worker, DropCommission, GoTo
<1>25. ASSUME NEW w \in Workers, MarkFailed(w) PROVE TypeInv'
  <2>1. pc' \in [Workers -> Stages] /\ job' \in [Workers -> JobRow] /\ JobsExist'
    BY <1>25, WorkerMoves DEF MarkFailed, Busy, Stages
  <2> QED  BY <1>25, <2>1 DEF TypeInv, TypeOK, HostedExist, rows, ledger,
   books, stripe, worker, MarkFailed
<1>26. ASSUME NEW w \in Workers, WithdrawGrant(w) PROVE TypeInv'
  BY <1>26 DEF TypeInv, TypeOK, JobsExist, HostedExist, Busy, Stages, rows,
     ledger, books, stripe, worker, WithdrawGrant, Finish, NoJob, JobRow
<1>27. ASSUME NEW w \in Workers, GrantFails(w) PROVE TypeInv'
  BY <1>27 DEF TypeInv, TypeOK, JobsExist, HostedExist, Busy, Stages, rows,
     ledger, books, stripe, worker, GrantFails, GoTo
<1>28. ASSUME NEW w \in Workers, GrantUnacknowledged(w) PROVE TypeInv'
  BY <1>28 DEF TypeInv, TypeOK, JobsExist, HostedExist, Busy, Stages, rows,
     ledger, books, stripe, worker, GrantUnacknowledged, GoTo
<1>29. ASSUME NEW w \in Workers, StatementFails(w) PROVE TypeInv'
  <2>1. pc' \in [Workers -> Stages] /\ job' \in [Workers -> JobRow] /\ JobsExist'
    BY <1>29, WorkerMoves DEF StatementFails, NextStage, Busy, Stages
  <2>2. acked' \subseteq Sessions
    BY <1>29, WorkerMoves DEF StatementFails, NextStage, Busy, Stages,
       TypeInv, TypeOK, stripe
  <2> QED  BY <1>29, <2>1, <2>2 DEF TypeInv, TypeOK, HostedExist, rows,
   ledger, books, stripe, worker, StatementFails, NextStage
<1>30. ASSUME NEW w \in Workers, Crash(w) PROVE TypeInv'
  BY <1>30 DEF TypeInv, TypeOK, JobsExist, HostedExist, Busy, Stages, rows,
     ledger, books, stripe, worker, Crash, Finish, NoJob, JobRow
<1>31. ASSUME SweepExpire PROVE TypeInv'
  BY <1>31 DEF TypeInv, TypeOK, JobsExist, HostedExist, Busy, Stages, rows,
     ledger, books, stripe, worker, SweepExpire
<1>32. ASSUME NEW o \in Orders, SweepRelease(o) PROVE TypeInv'
  BY <1>32, ReleaseTypes DEF TypeInv, TypeOK, JobsExist, HostedExist, Busy,
     Stages, rows, ledger, books, stripe, worker, SweepRelease, Release
<1>33. ASSUME NEW o \in Orders, SweepReleaseFails(o) PROVE TypeInv'
  BY <1>33 DEF TypeInv, TypeOK, JobsExist, HostedExist, Busy, Stages, rows,
     ledger, books, stripe, worker, SweepReleaseFails
<1>34. ASSUME SweepCrash PROVE TypeInv'
  BY <1>34 DEF TypeInv, TypeOK, JobsExist, HostedExist, Busy, Stages, rows,
     ledger, books, stripe, worker, SweepCrash
<1>35. ASSUME NEW s \in Sessions, Pay(s) PROVE TypeInv'
  BY <1>35 DEF TypeInv, TypeOK, JobsExist, HostedExist, Busy, Stages, rows,
     ledger, books, stripe, worker, Pay, SessionRow
<1>36. ASSUME NEW o \in Orders, Deadline(o) PROVE TypeInv'
  <2> DEFINE closed(s) == [hosted[s] EXCEPT !.state = "expired"]
  <2>1. \A s \in Sessions : closed(s) \in SessionRow /\ closed(s).order = hosted[s].order
    BY ClosedSession DEF TypeInv
  <2>2. hosted' = [s \in Sessions |-> IF hosted[s].state = "open" /\ hosted[s].order = o
                                     THEN closed(s) ELSE hosted[s]]
    BY <1>36 DEF Deadline
  <2>3. hosted' \in [Sessions -> SessionRow] /\ HostedExist'
    <3> HIDE DEF closed
    <3> QED  BY <2>1, <2>2 DEF TypeInv, TypeOK, HostedExist
  <2> QED
    BY <1>36, <2>3 DEF TypeInv, TypeOK, JobsExist, rows, ledger, books,
       worker, Deadline
<1>37. ASSUME NEW e \in Events, FiveMinutes(e) PROVE TypeInv'
  BY <1>37 DEF TypeInv, TypeOK, JobsExist, HostedExist, Busy, Stages, rows,
     ledger, books, stripe, worker, FiveMinutes
<1>38. CASE UNCHANGED vars
  BY <1>38 DEF TypeInv, TypeOK, JobsExist, HostedExist, Busy, Stages, rows,
     ledger, books, stripe, worker, vars
<1> QED
  BY <1>1, <1>2, <1>3, <1>4, <1>5, <1>6, <1>7, <1>8, <1>9, <1>10, <1>11,
     <1>12, <1>13, <1>14, <1>15, <1>16, <1>17, <1>18, <1>19, <1>20, <1>21,
     <1>22, <1>23, <1>24, <1>25, <1>26, <1>27, <1>28, <1>29, <1>30, <1>31,
     <1>32, <1>33, <1>34, <1>35, <1>36, <1>37, <1>38, <1>39, <1>40 DEF Next, WorkerStep,
     WorkerFault, Request, Sweeper, Outside

\* Every column and row the program reads or writes has its type, and a busy
\* handler's event and order and a session's order exist.
THEOREM TypeCorrect == Spec => []TypeOK
<1>1. Init => TypeInv
  BY InitTypeInv
<1>2. TypeInv /\ [Next]_vars => TypeInv'
  BY NextTypeInv
<1>3. TypeInv => TypeOK
  BY DEF TypeInv
<1> QED  BY <1>1, <1>2, <1>3, PTL DEF Spec

-----------------------------------------------------------------------------
(***************************************************************************)
(* The claim is a lock.  An order whose settlement is under way is 'paid'  *)
(* and not granted yet, and one worker holds it: whoever else settles,     *)
(* cancels or sweeps finds it neither pending nor expired.  So the writes  *)
(* that do not look at the row - the revert's, the grant's - are safe.     *)
(***************************************************************************)
ClaimInv ==
    /\ \A w \in Workers, o \in Orders : Holds(w, o) => status[o] = "paid" /\ credits[o] = 0
    /\ \A v, w \in Workers, o \in Orders : Holds(v, o) /\ Holds(w, o) => v = w
    /\ \A o \in Orders : credits[o] > 0 =>
          credits[o] = 1 /\ status[o] = "paid" /\ \A w \in Workers : ~Holds(w, o)

LEMMA InitClaimInv == Init => ClaimInv
  BY DEF Init, ClaimInv, Holds

LEMMA NextClaimInv ==
    ASSUME TypeInv, ClaimInv, [Next]_vars, "lostAck" \notin Faults
    PROVE  ClaimInv'
<1> USE DEF Holds, ClaimInv, TypeInv, TypeOK
<1>1. ASSUME NEW o \in Orders, PlaceOrder(o) PROVE ClaimInv'
  BY <1>1 DEF rows, ledger, books, stripe, worker, PlaceOrder, Create
<1>2. ASSUME NEW o \in Orders, NEW w \in Workers, PlaceFreeOrder(o, w) PROVE ClaimInv'
  BY <1>2 DEF rows, ledger, books, stripe, worker, PlaceFreeOrder, Create,
     Call
<1>3. ASSUME NEW o \in Orders, NEW w \in Workers, GrantOrder(o, w) PROVE ClaimInv'
  BY <1>3 DEF rows, ledger, books, stripe, worker, GrantOrder, Create, Call
<1>4. ASSUME NEW o \in Orders, NEW c \in Coupons, ApplyCoupon(o, c) PROVE ClaimInv'
  BY <1>4 DEF rows, ledger, books, stripe, worker, ApplyCoupon
<1>5. ASSUME NEW o \in Orders, NEW p \in Partners, ApplyAffiliate(o, p) PROVE ClaimInv'
  BY <1>5 DEF rows, ledger, books, stripe, worker, ApplyAffiliate
<1>6. ASSUME NEW o \in Orders, RemovePromotion(o) PROVE ClaimInv'
  BY <1>6 DEF rows, ledger, books, stripe, worker, RemovePromotion
<1>7. ASSUME NEW o \in Orders, NEW w \in Workers, StartCheckout(o, w) PROVE ClaimInv'
  BY <1>7 DEF rows, ledger, books, stripe, worker, StartCheckout
<1>39. ASSUME NEW w \in Workers, NEW s \in Sessions, OpenSession(w, s) PROVE ClaimInv'
  BY <1>39 DEF rows, ledger, books, stripe, worker, OpenSession
<1>40. ASSUME NEW w \in Workers, CheckoutFails(w) PROVE ClaimInv'
  BY <1>40 DEF rows, ledger, books, stripe, worker, CheckoutFails, Finish
<1>8. ASSUME NEW w \in Workers, SaveSession(w) PROVE ClaimInv'
  BY <1>8 DEF rows, ledger, books, stripe, worker, SaveSession, Finish
<1>9. ASSUME NEW o \in Orders, StartManualCheckout(o) PROVE ClaimInv'
  BY <1>9 DEF rows, ledger, books, stripe, worker, StartManualCheckout
<1>10. ASSUME NEW o \in Orders, Cancel(o) PROVE ClaimInv'
  BY <1>10 DEF rows, ledger, books, stripe, worker, Cancel
<1>11. ASSUME NEW o \in Orders, CancelFails(o) PROVE ClaimInv'
  BY <1>11 DEF rows, ledger, books, stripe, worker, CancelFails
<1>12. ASSUME NEW o \in Orders, PayCommission(o) PROVE ClaimInv'
  BY <1>12 DEF rows, ledger, books, stripe, worker, PayCommission
<1>13. ASSUME NEW o \in Orders, NEW w \in Workers, MarkPaid(o, w) PROVE ClaimInv'
  BY <1>13 DEF rows, ledger, books, stripe, worker, MarkPaid, Call
<1>14. ASSUME NEW s \in Sessions, NEW w \in Workers, Webhook(s, w) PROVE ClaimInv'
  BY <1>14 DEF rows, ledger, books, stripe, worker, Webhook, Call
<1>15. ASSUME NEW s \in Sessions, NEW w \in Workers, Confirm(s, w) PROVE ClaimInv'
  BY <1>15 DEF rows, ledger, books, stripe, worker, Confirm, Call
<1>16. ASSUME NEW w \in Workers, ClaimDuplicate(w) PROVE ClaimInv'
  BY <1>16 DEF rows, ledger, books, stripe, worker, ClaimDuplicate, GiveUp,
     GoTo, Finish
<1>17. ASSUME NEW w \in Workers, ClaimUnsettleable(w) PROVE ClaimInv'
  BY <1>17 DEF rows, ledger, books, stripe, worker, ClaimUnsettleable,
     GiveUp, GoTo, Finish
<1>18. ASSUME NEW w \in Workers, ClaimMismatch(w) PROVE ClaimInv'
  BY <1>18 DEF rows, ledger, books, stripe, worker, ClaimMismatch, Settleable, GiveUp,
     GoTo, Finish
<1>19. ASSUME NEW w \in Workers, ClaimOrder(w) PROVE ClaimInv'
  BY <1>19 DEF rows, ledger, books, stripe, worker, ClaimOrder, GoTo,
     Settleable, JobsExist, Busy, Stages
<1>20. ASSUME NEW w \in Workers, GrantPlan(w) PROVE ClaimInv'
  BY <1>20 DEF rows, ledger, books, stripe, worker, GrantPlan, GoTo
<1>21. ASSUME NEW w \in Workers, ConfirmRedemption(w) PROVE ClaimInv'
  BY <1>21 DEF rows, ledger, books, stripe, worker, ConfirmRedemption, GoTo
<1>22. ASSUME NEW w \in Workers, MarkGranted(w) PROVE ClaimInv'
  BY <1>22 DEF rows, ledger, books, stripe, worker, MarkGranted, Finish
<1>23. ASSUME NEW w \in Workers, RevertOrder(w) PROVE ClaimInv'
  BY <1>23 DEF rows, ledger, books, stripe, worker, RevertOrder, GoTo
<1>24. ASSUME NEW w \in Workers, DropCommission(w) PROVE ClaimInv'
  BY <1>24 DEF rows, ledger, books, stripe, worker, DropCommission, GoTo
<1>25. ASSUME NEW w \in Workers, MarkFailed(w) PROVE ClaimInv'
  BY <1>25 DEF rows, ledger, books, stripe, worker, MarkFailed, GiveUp,
     GoTo, Finish
<1>26. ASSUME NEW w \in Workers, WithdrawGrant(w) PROVE ClaimInv'
  BY <1>26 DEF rows, ledger, books, stripe, worker, WithdrawGrant, Finish
<1>27. ASSUME NEW w \in Workers, GrantFails(w) PROVE ClaimInv'
  BY <1>27 DEF rows, ledger, books, stripe, worker, GrantFails, GoTo
<1>28. ASSUME NEW w \in Workers, GrantUnacknowledged(w) PROVE ClaimInv'
  BY <1>28 DEF rows, ledger, books, stripe, worker, GrantUnacknowledged,
     GoTo
<1>29. ASSUME NEW w \in Workers, StatementFails(w) PROVE ClaimInv'
  BY <1>29 DEF rows, ledger, books, stripe, worker, StatementFails,
     NextStage, GiveUp, GoTo, Finish
<1>30. ASSUME NEW w \in Workers, Crash(w) PROVE ClaimInv'
  BY <1>30 DEF rows, ledger, books, stripe, worker, Crash, Finish
<1>31. ASSUME SweepExpire PROVE ClaimInv'
  BY <1>31 DEF rows, ledger, books, stripe, worker, SweepExpire
<1>32. ASSUME NEW o \in Orders, SweepRelease(o) PROVE ClaimInv'
  BY <1>32 DEF rows, ledger, books, stripe, worker, SweepRelease
<1>33. ASSUME NEW o \in Orders, SweepReleaseFails(o) PROVE ClaimInv'
  BY <1>33 DEF rows, ledger, books, stripe, worker, SweepReleaseFails
<1>34. ASSUME SweepCrash PROVE ClaimInv'
  BY <1>34 DEF rows, ledger, books, stripe, worker, SweepCrash
<1>35. ASSUME NEW s \in Sessions, Pay(s) PROVE ClaimInv'
  BY <1>35 DEF rows, ledger, books, stripe, worker, Pay
<1>36. ASSUME NEW o \in Orders, Deadline(o) PROVE ClaimInv'
  BY <1>36 DEF rows, ledger, books, stripe, worker, Deadline
<1>37. ASSUME NEW e \in Events, FiveMinutes(e) PROVE ClaimInv'
  BY <1>37 DEF rows, ledger, books, stripe, worker, FiveMinutes
<1>38. CASE UNCHANGED vars
  BY <1>38 DEF rows, ledger, books, stripe, worker, vars
<1> QED
  BY <1>1, <1>2, <1>3, <1>4, <1>5, <1>6, <1>7, <1>8, <1>9, <1>10, <1>11,
     <1>12, <1>13, <1>14, <1>15, <1>16, <1>17, <1>18, <1>19, <1>20, <1>21,
     <1>22, <1>23, <1>24, <1>25, <1>26, <1>27, <1>28, <1>29, <1>30, <1>31,
     <1>32, <1>33, <1>34, <1>35, <1>36, <1>37, <1>38, <1>39, <1>40 DEF Next, WorkerStep,
     WorkerFault, Request, Sweeper, Outside

LEMMA ClaimInvHolds == ASSUME "lostAck" \notin Faults PROVE Spec => [](TypeInv /\ ClaimInv)
<1>1. Init => TypeInv /\ ClaimInv
  BY InitTypeInv, InitClaimInv
<1>2. TypeInv /\ ClaimInv /\ [Next]_vars => (TypeInv /\ ClaimInv)'
  BY NextTypeInv, NextClaimInv
<1> QED  BY <1>1, <1>2, PTL DEF Spec

\* However many handlers, events, retries, crashes and failed statements: an
\* order's plan is granted at most once.
THEOREM GrantedOnce == ASSUME "lostAck" \notin Faults PROVE Spec => []AtMostOneGrant
<1>1. TypeInv /\ ClaimInv => AtMostOneGrant
  BY DEF TypeInv, TypeOK, ClaimInv, AtMostOneGrant
<1> QED  BY <1>1, ClaimInvHolds, PTL

\* An order whose plan was granted is paid, and no late write reopens it.
THEOREM GrantedOrdersArePaid == ASSUME "lostAck" \notin Faults PROVE Spec => []GrantedIsPaid
<1>1. ClaimInv => GrantedIsPaid
  BY DEF ClaimInv, GrantedIsPaid
<1> QED  BY <1>1, ClaimInvHolds, PTL

-----------------------------------------------------------------------------
(* Refinement *)

LEMMA InitRefines == Init => E!Init
  BY DEF Init, E!Init, phase, Phase

\* Most of the program neither grants nor moves an order's status.
LEMMA QuietSteps ==
    ASSUME Next
    PROVE  \/ UNCHANGED <<status, credits>>
           \/ \E o \in Orders : Create(o) \/ Cancel(o)
           \/ \E w \in Workers : \/ ClaimMismatch(w) \/ ClaimOrder(w) \/ GrantPlan(w)
                                \/ GrantUnacknowledged(w) \/ RevertOrder(w) \/ WithdrawGrant(w)
           \/ SweepExpire
<1>1. ASSUME NEW w \in Workers, WorkerStep(w)
      PROVE  \/ UNCHANGED <<status, credits>>
             \/ ClaimMismatch(w) \/ ClaimOrder(w) \/ GrantPlan(w) \/ RevertOrder(w)
             \/ WithdrawGrant(w)
  BY <1>1 DEF WorkerStep, SaveSession, CheckoutFails, OpenSession, ClaimDuplicate, ClaimUnsettleable, ConfirmRedemption,
     MarkGranted, DropCommission, MarkFailed, rows, books
<1>2. ASSUME NEW w \in Workers, WorkerFault(w)
      PROVE  UNCHANGED <<status, credits>> \/ GrantUnacknowledged(w)
  BY <1>2 DEF WorkerFault, GrantFails, StatementFails, Crash, rows, books
<1>3. ASSUME NEW o \in Orders, Request(o)
      PROVE  UNCHANGED <<status, credits>> \/ Create(o) \/ Cancel(o)
  BY <1>3 DEF Request, PlaceOrder, PlaceFreeOrder, GrantOrder, RemovePromotion, CancelFails,
     StartManualCheckout, PayCommission, ApplyCoupon, ApplyAffiliate, MarkPaid, StartCheckout,
     rows, books
<1>4. ASSUME NEW s \in Sessions, NEW w \in Workers, Webhook(s, w) \/ Confirm(s, w)
      PROVE  UNCHANGED <<status, credits>>
  BY <1>4 DEF Webhook, Confirm, rows, books
<1>5. ASSUME Sweeper PROVE UNCHANGED <<status, credits>> \/ SweepExpire
  BY <1>5 DEF Sweeper, SweepRelease, SweepReleaseFails, SweepCrash, rows, books
<1>6. ASSUME Outside PROVE UNCHANGED <<status, credits>>
  BY <1>6 DEF Outside, Pay, Deadline, FiveMinutes, rows, books
<1> QED  BY <1>1, <1>2, <1>3, <1>4, <1>5, <1>6 DEF Next

\* What moves an order among pending, paid and expired is invisible.
LEMMA QuietPhase ==
    ASSUME UNCHANGED credits,
           \A o \in Orders : /\ (status'[o] = "none") <=> (status[o] = "none")
                            /\ (status'[o] = "cancelled") <=> (status[o] = "cancelled")
    PROVE  UNCHANGED phase
<1>1. \A o \in Orders : Phase(o)' = Phase(o)
  BY DEF Phase
<1> QED  BY <1>1 DEF phase

\* An order that is closed, or granted, has left the statuses Settle, the
\* sweeper and the revert write from.
LEMMA StepRefines ==
    ASSUME TypeInv, ClaimInv, [Next]_vars, "lostAck" \notin Faults
    PROVE  [E!Next]_phase
<1>1. status \in [Orders -> {"none", "pending", "paid", "cancelled", "expired"}]
      /\ credits \in [Orders -> Nat]
  BY DEF TypeInv, TypeOK
<1>2. \A w \in Workers : pc[w] \in Busy => job[w].order \in Orders
  BY DEF TypeInv, JobsExist
<1>3. CASE UNCHANGED <<status, credits>>
  BY <1>3, QuietPhase
<1>4. ASSUME NEW o \in Orders, Create(o) PROVE E!Place(o)
  <2>1. credits' = credits /\ credits[o] = 0
        /\ status[o] = "none" /\ status' = [status EXCEPT ![o] = "pending"]
    BY <1>1, <1>4 DEF Create, books, ClaimInv
  <2>2. Phase(o) = "absent" /\ Phase(o)' = "open"
    BY <1>1, <2>1 DEF Phase
  <2>3. \A x \in Orders \ {o} : Phase(x)' = Phase(x)
    BY <1>1, <2>1 DEF Phase
  <2> QED  BY <2>2, <2>3 DEF E!Place, phase
<1>5. ASSUME NEW o \in Orders, credits' = credits, status[o] = "pending",
             status' = [status EXCEPT ![o] = "cancelled"]
      PROVE  E!Close(o)
  <2>1. credits[o] = 0
    BY <1>1, <1>5 DEF ClaimInv
  <2>2. Phase(o) = "open" /\ Phase(o)' = "closed"
    BY <1>1, <1>5, <2>1 DEF Phase
  <2>3. \A x \in Orders \ {o} : Phase(x)' = Phase(x)
    BY <1>1, <1>5 DEF Phase
  <2> QED  BY <2>2, <2>3 DEF E!Close, phase
<1>6. ASSUME NEW o \in Orders, Cancel(o) PROVE E!Close(o)
  BY <1>5, <1>6 DEF Cancel, books
<1>7. ASSUME NEW w \in Workers, WithdrawGrant(w) PROVE [E!Next]_phase
  <2>1. job[w].order \in Orders /\ credits' = credits
    BY <1>2, <1>7 DEF WithdrawGrant, books, Busy, Stages
  <2>2. CASE status[job[w].order] = "pending"
    BY <1>5, <1>7, <2>1, <2>2 DEF WithdrawGrant, E!Next
  <2>3. CASE status[job[w].order] # "pending"
    BY <1>3, <1>7, <2>1, <2>3 DEF WithdrawGrant
  <2> QED  BY <2>2, <2>3
<1>8. ASSUME NEW w \in Workers, ClaimMismatch(w) \/ ClaimOrder(w) PROVE UNCHANGED phase
  BY <1>1, <1>2, <1>8, QuietPhase DEF ClaimMismatch, ClaimOrder, Settleable, Busy, Stages
<1>9. ASSUME NEW w \in Workers, RevertOrder(w) PROVE UNCHANGED phase
  <2>1. status[job[w].order] = "paid" /\ credits' = credits
    BY <1>2, <1>9 DEF RevertOrder, books, ClaimInv, Holds, Busy, Stages
  <2> QED  BY <1>1, <1>9, <2>1, QuietPhase DEF RevertOrder
<1>10. ASSUME NEW w \in Workers, GrantPlan(w) PROVE E!Next
  <2>1. PICK o \in Orders : o = job[w].order
    BY <1>2, <1>10 DEF GrantPlan, Busy, Stages
  <2>2. status[o] = "paid" /\ credits[o] = 0 /\ status' = status
        /\ credits' = [credits EXCEPT ![o] = @ + 1]
    BY <2>1, <1>10 DEF GrantPlan, rows, ClaimInv, Holds
  <2>3. Phase(o) = "open" /\ Phase(o)' = "granted"
    BY <1>1, <2>1, <2>2 DEF Phase
  <2>4. \A x \in Orders \ {o} : Phase(x)' = Phase(x)
    BY <1>1, <2>1, <2>2 DEF Phase
  <2>5. E!Grant(o)
    BY <2>1, <2>3, <2>4 DEF E!Grant, phase
  <2> QED  BY <2>1, <2>5 DEF E!Next
<1>11. ASSUME SweepExpire PROVE UNCHANGED phase
  BY <1>1, <1>11, QuietPhase DEF SweepExpire, books
<1>12. CASE UNCHANGED vars
  BY <1>3, <1>12 DEF vars, rows, books
<1>13. \A w \in Workers : ~GrantUnacknowledged(w)
  BY DEF GrantUnacknowledged
<1> QED
  BY <1>3, <1>4, <1>6, <1>7, <1>8, <1>9, <1>10, <1>11, <1>12, <1>13, QuietSteps DEF E!Next

\* Only the handlers that first check for a pending order change its code.
LEMMA PromoMoves ==
    ASSUME Next, TypeInv, NEW o \in Orders, status[o] # "pending"
    PROVE  promo'[o] = promo[o]
<1>1. promo \in [Orders -> Codes \cup {None}]
  BY DEF TypeInv, TypeOK
<1>2. ASSUME NEW w \in Workers, WorkerStep(w) PROVE UNCHANGED promo
  BY <1>2 DEF WorkerStep, SaveSession, CheckoutFails, OpenSession, ClaimDuplicate,
     ClaimUnsettleable, ClaimMismatch, ClaimOrder, GrantPlan, ConfirmRedemption, MarkGranted,
     RevertOrder, DropCommission, MarkFailed, WithdrawGrant, rows
<1>3. ASSUME NEW w \in Workers, WorkerFault(w) PROVE UNCHANGED promo
  BY <1>3 DEF WorkerFault, GrantFails, GrantUnacknowledged, StatementFails, Crash, rows
<1>4. ASSUME NEW x \in Orders, Request(x) PROVE promo'[o] = promo[o]
  <2>1. CASE RemovePromotion(x) \/ (\E c \in Coupons : ApplyCoupon(x, c))
             \/ \E c \in Partners : ApplyAffiliate(x, c)
    BY <1>1, <2>1 DEF RemovePromotion, ApplyCoupon, ApplyAffiliate
  <2>2. CASE UNCHANGED promo
    BY <2>2
  <2> QED
    BY <1>4, <2>1, <2>2 DEF Request, PlaceOrder, PlaceFreeOrder, GrantOrder, Create,
       StartManualCheckout, Cancel, CancelFails, PayCommission, MarkPaid, StartCheckout, rows
<1>5. ASSUME NEW s \in Sessions, NEW w \in Workers, Webhook(s, w) \/ Confirm(s, w)
      PROVE  UNCHANGED promo
  BY <1>5 DEF Webhook, Confirm, rows
<1>6. ASSUME Sweeper \/ Outside PROVE UNCHANGED promo
  BY <1>6 DEF Sweeper, SweepExpire, SweepRelease, SweepReleaseFails, SweepCrash, Outside, Pay,
     Deadline, FiveMinutes, rows
<1> QED  BY <1>2, <1>3, <1>4, <1>5, <1>6 DEF Next

\* No step takes the status, the grant or the discount of a granted order away:
\* neither the blind revert, nor a sweep, a cancellation or a change of code.
THEOREM GrantsAreFinal == ASSUME "lostAck" \notin Faults PROVE Spec => GrantIsFinal
<1>1. ASSUME TypeInv, ClaimInv, TypeInv', ClaimInv', Next, NEW o \in Orders, credits[o] > 0
      PROVE  status'[o] = "paid" /\ credits'[o] = credits[o] /\ promo'[o] = promo[o]
  <2>1. status[o] = "paid" /\ credits[o] = 1 /\ credits'[o] \in Nat
    BY <1>1 DEF ClaimInv, TypeInv, TypeOK
  <2>2. phase[o] = "granted"
    <3>1. Phase(o) = "granted"
      BY <2>1 DEF Phase
    <3> QED  BY <3>1 DEF phase
  <2>3. phase'[o] = "granted"
    <3>1. [E!Next]_phase
      BY <1>1, StepRefines
    <3>2. DOMAIN phase = Orders
      BY DEF phase
    <3> QED  BY <2>2, <3>1, <3>2 DEF E!Next, E!Place, E!Grant, E!Close
  <2>4. credits'[o] > 0
    <3>1. Phase(o)' = "granted"
      BY <2>3 DEF phase
    <3> QED  BY <2>1, <3>1 DEF Phase
  <2>5. status'[o] = "paid" /\ credits'[o] = 1
    BY <1>1, <2>4 DEF ClaimInv
  <2> QED  BY <1>1, <2>1, <2>5, PromoMoves
<1>2. TypeInv /\ ClaimInv /\ (TypeInv /\ ClaimInv)' /\ [Next]_vars
      => [\A o \in Orders : credits[o] > 0 =>
            status'[o] = "paid" /\ credits'[o] = credits[o] /\ promo'[o] = promo[o]]_vars
  BY <1>1
<1> QED  BY <1>2, ClaimInvHolds, PTL DEF Spec, GrantIsFinal

\* Settlement implements the promise: placed, then granted once for good or
\* closed for good, whichever handlers race for the order.
THEOREM SettlementImplementsEntitlement ==
    ASSUME "lostAck" \notin Faults PROVE Spec => ImplementsEntitlement
<1>1. TypeInv /\ ClaimInv /\ [Next]_vars => [E!Next]_phase
  BY StepRefines
<1> QED  BY <1>1, InitRefines, ClaimInvHolds, PTL DEF Spec, E!Spec, ImplementsEntitlement

-----------------------------------------------------------------------------
(***************************************************************************)
(* Coupons.  The counter of a coupon is never computed again from the      *)
(* reservations: every step adds or takes off the one it makes or returns, *)
(* so the equality is an induction over cardinalities, one more or less.   *)
(***************************************************************************)

\* The reservations of coupon c that count once that of order o is returned.
LiveAfterRelease(o, c) ==
    {x \in Orders : Released(o)[x].coupon = c /\ Live(Released(o)[x].state)}

LEMMA LiveIsFinite == ASSUME NEW c PROVE IsFiniteSet(LiveOf(c))
<1>1. LiveOf(c) \in SUBSET Orders
  BY DEF LiveOf
<1> QED  BY <1>1, FS_Subset, ConstantsAssumption

\* ReleaseTx keeps the counter exact, and its guard against zero never bites.
LEMMA ReleaseKeepsCount ==
    ASSUME TypeInv, CountIsLiveReservations, NEW o \in Orders, NEW c \in Coupons
    PROVE  /\ IsFiniteSet(LiveAfterRelease(o, c))
           /\ CountAfterRelease(o)[c] = Cardinality(LiveAfterRelease(o, c))
<1>1. /\ redemption \in [Orders -> RedemptionRow] /\ redeemed \in [Coupons -> Nat]
      /\ redeemed[c] = Cardinality(LiveOf(c)) /\ IsFiniteSet(LiveOf(c))
  BY LiveIsFinite DEF TypeInv, TypeOK, CountIsLiveReservations
<1>2. CASE redemption[o].state # "reserved"
  BY <1>1, <1>2 DEF LiveAfterRelease, LiveOf, Released, CountAfterRelease
<1>3. CASE redemption[o].state = "reserved" /\ redemption[o].coupon # c
  <2>1. LiveAfterRelease(o, c) = LiveOf(c)
    BY <1>1, <1>3 DEF LiveAfterRelease, LiveOf, Released, RedemptionRow
  <2>2. CountAfterRelease(o)[c] = redeemed[c]
    BY <1>1, <1>3 DEF CountAfterRelease
  <2> QED  BY <1>1, <2>1, <2>2
<1>4. CASE redemption[o].state = "reserved" /\ redemption[o].coupon = c
  <2>1. o \in LiveOf(c) /\ LiveAfterRelease(o, c) = LiveOf(c) \ {o}
    BY <1>1, <1>4 DEF LiveAfterRelease, LiveOf, Released, RedemptionRow, Live
  <2>2. /\ IsFiniteSet(LiveOf(c) \ {o})
        /\ Cardinality(LiveOf(c) \ {o}) = Cardinality(LiveOf(c)) - 1
    BY <1>1, <2>1, FS_RemoveElement
  <2>3. redeemed[c] # 0
    BY <1>1, <2>1, FS_EmptySet
  <2>4. CountAfterRelease(o)[c] = redeemed[c] - 1
    BY <1>1, <1>4, <2>3 DEF CountAfterRelease
  <2> QED  BY <1>1, <2>1, <2>2, <2>4
<1> QED  BY <1>2, <1>3, <1>4

\* The steps that touch reservations or counters.
LEMMA LedgerSteps ==
    ASSUME Next
    PROVE  \/ UNCHANGED ledger
           \/ \E o \in Orders : Release(o) \/ \E c \in Coupons : ApplyCoupon(o, c)
           \/ \E w \in Workers : ConfirmRedemption(w)
<1>1. ASSUME NEW w \in Workers, WorkerStep(w) PROVE UNCHANGED ledger \/ ConfirmRedemption(w)
  BY <1>1 DEF WorkerStep, SaveSession, CheckoutFails, OpenSession, ClaimDuplicate,
     ClaimUnsettleable, ClaimMismatch, ClaimOrder, GrantPlan, MarkGranted, RevertOrder,
     DropCommission, MarkFailed, WithdrawGrant
<1>2. ASSUME NEW w \in Workers, WorkerFault(w) PROVE UNCHANGED ledger
  BY <1>2 DEF WorkerFault, GrantFails, GrantUnacknowledged, StatementFails, Crash
<1>3. ASSUME NEW o \in Orders, Request(o)
      PROVE  UNCHANGED ledger \/ Release(o) \/ \E c \in Coupons : ApplyCoupon(o, c)
  BY <1>3 DEF Request, PlaceOrder, PlaceFreeOrder, GrantOrder, Create, RemovePromotion, Cancel,
     CancelFails, StartManualCheckout, PayCommission, ApplyAffiliate, MarkPaid, StartCheckout
<1>4. ASSUME NEW s \in Sessions, NEW w \in Workers, Webhook(s, w) \/ Confirm(s, w)
      PROVE  UNCHANGED ledger
  BY <1>4 DEF Webhook, Confirm
<1>5. ASSUME Sweeper PROVE UNCHANGED ledger \/ \E o \in Orders : Release(o)
  BY <1>5 DEF Sweeper, SweepExpire, SweepRelease, SweepReleaseFails, SweepCrash
<1>6. ASSUME Outside PROVE UNCHANGED ledger
  BY <1>6 DEF Outside, Pay, Deadline, FiveMinutes
<1> QED  BY <1>1, <1>2, <1>3, <1>4, <1>5, <1>6 DEF Next

LEMMA NextCount ==
    ASSUME TypeInv, CountIsLiveReservations, [Next]_vars
    PROVE  CountIsLiveReservations'
<1> SUFFICES ASSUME NEW c \in Coupons PROVE redeemed'[c] = Cardinality(LiveOf(c)')
  BY DEF CountIsLiveReservations
<1>1. redemption \in [Orders -> RedemptionRow] /\ redeemed[c] = Cardinality(LiveOf(c))
  BY DEF TypeInv, TypeOK, CountIsLiveReservations
<1>2. CASE UNCHANGED ledger
  BY <1>1, <1>2 DEF ledger, LiveOf
<1>3. ASSUME NEW o \in Orders, Release(o) PROVE redeemed'[c] = Cardinality(LiveOf(c)')
  <2>1. LiveOf(c)' = LiveAfterRelease(o, c) /\ redeemed' = CountAfterRelease(o)
    BY <1>3 DEF Release, LiveOf, LiveAfterRelease
  <2> QED  BY <2>1, ReleaseKeepsCount
<1>4. ASSUME NEW o \in Orders, NEW d \in Coupons, ApplyCoupon(o, d)
      PROVE  redeemed'[c] = Cardinality(LiveOf(c)')
  <2>1. /\ ~Live(Released(o)[o].state)
        /\ redemption' = [Released(o) EXCEPT ![o] = [coupon |-> d, state |-> "reserved"]]
        /\ redeemed' = [CountAfterRelease(o) EXCEPT ![d] = @ + 1]
    BY <1>4 DEF ApplyCoupon
  <2>2. Released(o) \in [Orders -> RedemptionRow] /\ CountAfterRelease(o) \in [Coupons -> Nat]
    BY ReleaseTypes DEF TypeInv
  <2>3. o \notin LiveAfterRelease(o, c)
    BY <2>1 DEF LiveAfterRelease
  <2>4. LiveOf(c)' = IF c = d THEN LiveAfterRelease(o, c) \cup {o} ELSE LiveAfterRelease(o, c)
    BY <2>1, <2>2 DEF LiveOf, LiveAfterRelease, Live
  <2>5. redeemed'[c] = IF c = d THEN CountAfterRelease(o)[c] + 1 ELSE CountAfterRelease(o)[c]
    BY <2>1, <2>2
  <2>6. /\ IsFiniteSet(LiveAfterRelease(o, c))
        /\ CountAfterRelease(o)[c] = Cardinality(LiveAfterRelease(o, c))
    BY ReleaseKeepsCount
  <2>7. Cardinality(LiveAfterRelease(o, c) \cup {o}) = Cardinality(LiveAfterRelease(o, c)) + 1
    BY <2>3, <2>6, FS_AddElement
  <2> QED  BY <2>4, <2>5, <2>6, <2>7
<1>5. ASSUME NEW w \in Workers, ConfirmRedemption(w)
      PROVE  redeemed'[c] = Cardinality(LiveOf(c)')
  <2>1. redeemed' = redeemed /\ job[w].order \in Orders
    BY <1>5 DEF ConfirmRedemption, TypeInv, JobsExist, Busy, Stages
  <2>2. \A x \in Orders : /\ redemption'[x].coupon = redemption[x].coupon
                          /\ Live(redemption'[x].state) <=> Live(redemption[x].state)
    BY <1>1, <1>5, <2>1 DEF ConfirmRedemption, Live, RedemptionRow
  <2>3. LiveOf(c)' = LiveOf(c)
    BY <2>2 DEF LiveOf
  <2> QED  BY <1>1, <2>1, <2>3
<1>6. CASE UNCHANGED vars
  BY <1>2, <1>6 DEF vars
<1> QED  BY <1>2, <1>3, <1>4, <1>5, <1>6, LedgerSteps

\* redeemed_count is exactly the number of live reservations of its coupon, for any
\* number of orders and coupons and under every fault.
THEOREM CountsAreExact == Spec => []CountIsLiveReservations
<1>1. Init => TypeInv /\ CountIsLiveReservations
  <2>1. ASSUME Init, NEW c \in Coupons PROVE redeemed[c] = Cardinality(LiveOf(c))
    <3>1. LiveOf(c) = {} /\ redeemed[c] = 0
      BY <2>1 DEF Init, LiveOf, Live
    <3> QED  BY <3>1, FS_EmptySet
  <2> QED  BY <2>1, InitTypeInv DEF CountIsLiveReservations
<1>2. TypeInv /\ CountIsLiveReservations /\ [Next]_vars => (TypeInv /\ CountIsLiveReservations)'
  BY NextTypeInv, NextCount
<1> QED  BY <1>1, <1>2, PTL DEF Spec

-----------------------------------------------------------------------------
(***************************************************************************)
(* Reservations and orders.  Expiry and release are two transactions, and  *)
(* between them the sweeper's list is what keeps the reservation's order   *)
(* accounted for.  An operator's grant is excluded: it withdraws the order *)
(* it made without releasing a code its user applied meanwhile.            *)
(***************************************************************************)
NoWithdrawal == \A w \in Workers : pc[w] # "withdraw"

\* Which steps move the orders, the reservations or the sweeper's list.
LEMMA ReservationSteps ==
    ASSUME Next
    PROVE  \/ UNCHANGED <<status, redemption, sweep>>
           \/ \E o \in Orders :
                 \/ Create(o) /\ UNCHANGED <<redemption, sweep>>
                 \/ Cancel(o) \/ SweepRelease(o) \/ SweepReleaseFails(o)
                 \/ Release(o) /\ UNCHANGED <<status, sweep>>
                 \/ \E c \in Coupons : ApplyCoupon(o, c)
           \/ \E w \in Workers : \/ ClaimMismatch(w) \/ ClaimOrder(w) \/ ConfirmRedemption(w)
                                \/ RevertOrder(w) \/ WithdrawGrant(w)
           \/ SweepExpire \/ SweepCrash
<1>1. ASSUME NEW w \in Workers, WorkerStep(w)
      PROVE  \/ UNCHANGED <<status, redemption, sweep>>
             \/ ClaimMismatch(w) \/ ClaimOrder(w) \/ ConfirmRedemption(w)
             \/ RevertOrder(w) \/ WithdrawGrant(w)
  BY <1>1 DEF WorkerStep, SaveSession, CheckoutFails, OpenSession, ClaimDuplicate,
     ClaimUnsettleable, GrantPlan, MarkGranted, DropCommission, MarkFailed, rows, ledger
<1>2. ASSUME NEW w \in Workers, WorkerFault(w) PROVE UNCHANGED <<status, redemption, sweep>>
  BY <1>2 DEF WorkerFault, GrantFails, GrantUnacknowledged, StatementFails, Crash, rows, ledger
<1>3. ASSUME NEW o \in Orders, Request(o)
      PROVE  \/ UNCHANGED <<status, redemption, sweep>>
             \/ Create(o) /\ UNCHANGED <<redemption, sweep>>
             \/ Cancel(o)
             \/ Release(o) /\ UNCHANGED <<status, sweep>>
             \/ \E c \in Coupons : ApplyCoupon(o, c)
  BY <1>3 DEF Request, PlaceOrder, PlaceFreeOrder, GrantOrder, Create, RemovePromotion, CancelFails,
     StartManualCheckout, PayCommission, ApplyAffiliate, MarkPaid, StartCheckout, rows, ledger
<1>4. ASSUME NEW s \in Sessions, NEW w \in Workers, Webhook(s, w) \/ Confirm(s, w)
      PROVE  UNCHANGED <<status, redemption, sweep>>
  BY <1>4 DEF Webhook, Confirm, rows, ledger
<1>5. ASSUME Outside PROVE UNCHANGED <<status, redemption, sweep>>
  BY <1>5 DEF Outside, Pay, Deadline, FiveMinutes, rows, ledger
<1> QED  BY <1>1, <1>2, <1>3, <1>4, <1>5 DEF Next, Sweeper

\* Only an event of the operator's grant leads a handler to the withdrawal.
LEMMA NextNoWithdrawal ==
    ASSUME TypeInv, NoWithdrawal, [Next]_vars, "grant" \notin Channels
    PROVE  NoWithdrawal'
<1>1. pc \in [Workers -> Stages] /\ \A w \in Workers : pc[w] \in Busy => job[w].event \in Events
  BY DEF TypeInv, TypeOK, JobsExist
<1>2. \A e \in Events : e[1] # "grant"
  BY DEF Events, PanelKinds, StripeKinds
<1>3. ASSUME NEW w \in Workers, pc[w] \in Busy, GiveUp(w) PROVE NoWithdrawal'
  BY <1>1, <1>2, <1>3 DEF GiveUp, Finish, NoWithdrawal
<1>4. ASSUME NEW w \in Workers, WorkerStep(w) PROVE NoWithdrawal'
  <2>1. CASE ClaimDuplicate(w) \/ ClaimUnsettleable(w) \/ ClaimMismatch(w) \/ MarkFailed(w)
    BY <1>3, <2>1 DEF ClaimDuplicate, ClaimUnsettleable, ClaimMismatch, MarkFailed, Busy, Stages
  <2> QED
    BY <1>1, <1>4, <2>1 DEF WorkerStep, SaveSession, CheckoutFails, OpenSession, ClaimOrder,
       GrantPlan, ConfirmRedemption, MarkGranted, RevertOrder, DropCommission, WithdrawGrant,
       GoTo, Finish, NoWithdrawal
<1>5. ASSUME NEW w \in Workers, WorkerFault(w) PROVE NoWithdrawal'
  <2>1. CASE StatementFails(w)
    BY <1>1, <1>3, <2>1 DEF StatementFails, NextStage, GoTo, Finish, NoWithdrawal, Busy, Stages
  <2> QED
    BY <1>1, <1>5, <2>1 DEF WorkerFault, GrantFails, GrantUnacknowledged, Crash, GoTo, Finish,
       NoWithdrawal
<1>6. ASSUME NEW o \in Orders, Request(o) PROVE NoWithdrawal'
  BY <1>1, <1>6 DEF Request, PlaceOrder, PlaceFreeOrder, GrantOrder, RemovePromotion, Cancel,
     CancelFails, StartManualCheckout, PayCommission, ApplyCoupon, ApplyAffiliate, MarkPaid,
     StartCheckout, Call, worker, NoWithdrawal
<1>7. ASSUME NEW s \in Sessions, NEW w \in Workers, Webhook(s, w) \/ Confirm(s, w)
      PROVE  NoWithdrawal'
  BY <1>1, <1>7 DEF Webhook, Confirm, Call, NoWithdrawal
<1>8. CASE Sweeper \/ Outside
  BY <1>8 DEF Sweeper, SweepExpire, SweepRelease, SweepReleaseFails, SweepCrash, Outside, Pay,
     Deadline, FiveMinutes, worker, NoWithdrawal
<1>9. CASE UNCHANGED vars
  BY <1>9 DEF vars, worker, NoWithdrawal
<1> QED  BY <1>4, <1>5, <1>6, <1>7, <1>8, <1>9 DEF Next

LEMMA NextReserved ==
    ASSUME TypeInv, NoWithdrawal, ReservedBacksLiveOrder, [Next]_vars,
           Faults \cap {"dbError", "crash"} = {}
    PROVE  ReservedBacksLiveOrder'
<1> USE DEF ReservedBacksLiveOrder
<1>1. /\ status \in [Orders -> {"none", "pending", "paid", "cancelled", "expired"}]
      /\ redemption \in [Orders -> RedemptionRow]
      /\ \A w \in Workers : pc[w] \in Busy => job[w].order \in Orders
  BY DEF TypeInv, TypeOK, JobsExist
\* A release takes a reservation away and makes none.
<1>2. ASSUME NEW o \in Orders, Release(o)
      PROVE  /\ redemption'[o].state # "reserved"
             /\ \A x \in Orders \ {o} : redemption'[x] = redemption[x]
  BY <1>1, <1>2 DEF Release, Released, RedemptionRow
<1>3. CASE UNCHANGED <<status, redemption, sweep>>
  BY <1>3
<1>4. ASSUME NEW o \in Orders, Create(o), UNCHANGED <<redemption, sweep>>
      PROVE  ReservedBacksLiveOrder'
  BY <1>1, <1>4 DEF Create
<1>5. ASSUME NEW o \in Orders, Cancel(o) PROVE ReservedBacksLiveOrder'
  BY <1>1, <1>2, <1>5 DEF Cancel
<1>6. ASSUME NEW o \in Orders, SweepRelease(o) PROVE ReservedBacksLiveOrder'
  BY <1>1, <1>2, <1>6 DEF SweepRelease, rows
<1>7. ASSUME NEW o \in Orders, Release(o), UNCHANGED <<status, sweep>>
      PROVE  ReservedBacksLiveOrder'
  BY <1>2, <1>7
<1>8. ASSUME NEW o \in Orders, NEW c \in Coupons, ApplyCoupon(o, c)
      PROVE  ReservedBacksLiveOrder'
  <2>1. \A x \in Orders \ {o} : redemption'[x] = redemption[x]
    BY <1>1, <1>8 DEF ApplyCoupon, Released
  <2> QED  BY <1>1, <1>8, <2>1 DEF ApplyCoupon
<1>9. ASSUME NEW w \in Workers, ClaimMismatch(w) \/ ClaimOrder(w) \/ RevertOrder(w)
      PROVE  ReservedBacksLiveOrder'
  BY <1>1, <1>9 DEF ClaimMismatch, ClaimOrder, RevertOrder, ledger, Busy, Stages
<1>10. ASSUME NEW w \in Workers, ConfirmRedemption(w) PROVE ReservedBacksLiveOrder'
  <2>1. \A x \in Orders : redemption'[x].state = "reserved" => redemption[x].state = "reserved"
    BY <1>1, <1>10 DEF ConfirmRedemption, RedemptionRow
  <2> QED  BY <1>10, <2>1 DEF ConfirmRedemption, rows
<1>11. CASE SweepExpire
  BY <1>1, <1>11 DEF SweepExpire, ledger
<1>12. \A w \in Workers : ~WithdrawGrant(w)
  BY DEF WithdrawGrant, NoWithdrawal
<1>13. ~SweepCrash /\ \A o \in Orders : ~SweepReleaseFails(o)
  BY DEF SweepCrash, SweepReleaseFails
<1>14. CASE UNCHANGED vars
  BY <1>14 DEF vars, rows, ledger
<1> QED
  BY <1>3, <1>4, <1>5, <1>6, <1>7, <1>8, <1>9, <1>10, <1>11, <1>12, <1>13, <1>14, ReservationSteps

\* A reservation belongs to an order that is pending, paid, or expired and about
\* to be released, although the sweeper expires and releases in two transactions
\* and late payments come in between; unless a statement fails or a process dies.
THEOREM ReservationsBackLiveOrders ==
    ASSUME Faults \cap {"dbError", "crash"} = {}, "grant" \notin Channels
    PROVE  Spec => []ReservedBacksLiveOrder
<1> DEFINE Inv == TypeInv /\ NoWithdrawal /\ ReservedBacksLiveOrder
<1>1. Init => Inv
  BY InitTypeInv DEF Init, NoWithdrawal, ReservedBacksLiveOrder
<1>2. Inv /\ [Next]_vars => Inv'
  BY NextTypeInv, NextNoWithdrawal, NextReserved
<1> QED  BY <1>1, <1>2, PTL DEF Spec

-----------------------------------------------------------------------------
(***************************************************************************)
(* Commissions.  An order leaves 'paid' in the revert only, and the worker *)
(* that reverts it goes on to drop the commission.                         *)
(***************************************************************************)

LEMMA NextCommission ==
    ASSUME TypeInv, CommissionIsBacked, [Next]_vars, Faults \cap {"dbError", "crash"} = {}
    PROVE  CommissionIsBacked'
<1> USE DEF CommissionIsBacked
<1> DEFINE Drops(v) == pc[v] = "dropCommission" =>
                           pc'[v] = "dropCommission" /\ job'[v] = job[v]
           Keeps(o) == /\ commission'[o] = "pending" => commission[o] = "pending"
                       /\ status[o] = "paid" => status'[o] = "paid"
<1>1. /\ status \in [Orders -> {"none", "pending", "paid", "cancelled", "expired"}]
      /\ commission \in [Orders -> {"none", "pending", "paid"}]
      /\ pc \in [Workers -> Stages] /\ job \in [Workers -> JobRow]
      /\ \A w \in Workers : pc[w] \in Busy => job[w].order \in Orders
  BY DEF TypeInv, TypeOK, JobsExist
\* A handler about to drop a commission does that next.
<1>2. ASSUME NEW w \in Workers, WorkerStep(w) \/ WorkerFault(w), NEW v \in Workers,
             v # w \/ ~DropCommission(w)
      PROVE  Drops(v)
  <2>1. CASE WorkerStep(w)
    BY <1>1, <1>2, <2>1 DEF WorkerStep, SaveSession, CheckoutFails, OpenSession,
       ClaimDuplicate, ClaimUnsettleable, ClaimMismatch, ClaimOrder, GrantPlan,
       ConfirmRedemption, MarkGranted, RevertOrder, DropCommission, MarkFailed, WithdrawGrant,
       GiveUp, GoTo, Finish
  <2>2. CASE WorkerFault(w)
    BY <1>1, <2>2 DEF WorkerFault, GrantFails, GrantUnacknowledged, StatementFails, Crash, GoTo
  <2> QED  BY <1>2, <2>1, <2>2
<1>3. ASSUME NEW w \in Workers, RevertOrder(w) PROVE CommissionIsBacked'
  <2>1. /\ pc'[w] = "dropCommission" /\ job'[w] = job[w] /\ commission' = commission
        /\ \A o \in Orders \ {job[w].order} : status'[o] = status[o]
    BY <1>1, <1>3 DEF RevertOrder, GoTo, books
  <2>2. \A v \in Workers : Drops(v)
    BY <1>1, <1>3 DEF RevertOrder, GoTo
  <2> QED  BY <2>1, <2>2
<1>4. ASSUME NEW w \in Workers, DropCommission(w) PROVE CommissionIsBacked'
  <2>1. /\ commission'[job[w].order] # "pending" /\ status' = status
        /\ \A o \in Orders \ {job[w].order} : commission'[o] = commission[o]
    BY <1>1, <1>4 DEF DropCommission, rows, Busy, Stages
  <2>2. \A v \in Workers \ {w} : Drops(v)
    BY <1>1, <1>4 DEF DropCommission, GoTo
  <2> QED  BY <2>1, <2>2
<1>5. ASSUME NEW w \in Workers, ClaimOrder(w) PROVE CommissionIsBacked'
  <2>1. /\ job[w].order \in Orders /\ status'[job[w].order] = "paid"
        /\ \A o \in Orders \ {job[w].order} : Keeps(o)
    BY <1>1, <1>5 DEF ClaimOrder, BookCommission, Busy, Stages
  <2>2. \A v \in Workers : Drops(v)
    BY <1>1, <1>5 DEF ClaimOrder, GoTo
  <2> QED  BY <2>1, <2>2
\* No other step books a commission or moves a paid order.
<1>6. ASSUME \A o \in Orders : Keeps(o), \A v \in Workers : Drops(v)
      PROVE  CommissionIsBacked'
  BY <1>6
<1>7. ASSUME NEW w \in Workers, WorkerStep(w) \/ WorkerFault(w),
             ~RevertOrder(w), ~DropCommission(w), ~ClaimOrder(w)
      PROVE  CommissionIsBacked'
  <2>1. CASE WorkerStep(w)
    <3>1. \A o \in Orders : Keeps(o)
      BY <1>1, <1>7, <2>1 DEF WorkerStep, SaveSession, CheckoutFails, OpenSession,
         ClaimDuplicate, ClaimUnsettleable, ClaimMismatch, GrantPlan, ConfirmRedemption,
         MarkGranted, MarkFailed, WithdrawGrant, Settleable, rows, books, Busy, Stages
    <3> QED  BY <1>2, <1>6, <1>7, <2>1, <3>1
  <2>2. CASE WorkerFault(w)
    <3>1. \A o \in Orders : Keeps(o)
      BY <2>2 DEF WorkerFault, GrantFails, GrantUnacknowledged, StatementFails, Crash, rows, books
    <3> QED  BY <1>2, <1>6, <1>7, <2>2, <3>1
  <2> QED  BY <1>7, <2>1, <2>2
<1>8. ASSUME NEW x \in Orders, Request(x) PROVE CommissionIsBacked'
  <2>1. \A o \in Orders : Keeps(o)
    BY <1>1, <1>8 DEF Request, PlaceOrder, PlaceFreeOrder, GrantOrder, Create, RemovePromotion,
       Cancel, CancelFails, StartManualCheckout, PayCommission, ApplyCoupon, ApplyAffiliate,
       MarkPaid, StartCheckout, rows, books
  <2>2. ASSUME NEW w \in Workers, \/ PlaceFreeOrder(x, w) \/ GrantOrder(x, w)
                                 \/ MarkPaid(x, w) \/ StartCheckout(x, w)
        PROVE  \A v \in Workers : Drops(v)
    BY <1>1, <2>2 DEF PlaceFreeOrder, GrantOrder, MarkPaid, StartCheckout, Call
  <2>3. ASSUME UNCHANGED worker PROVE \A v \in Workers : Drops(v)
    BY <2>3 DEF worker
  <2>4. \A v \in Workers : Drops(v)
    BY <1>8, <2>2, <2>3 DEF Request, PlaceOrder, RemovePromotion, Cancel, CancelFails,
       StartManualCheckout, PayCommission, ApplyCoupon, ApplyAffiliate
  <2> QED  BY <1>6, <2>1, <2>4
<1>9. ASSUME NEW s \in Sessions, NEW w \in Workers, Webhook(s, w) \/ Confirm(s, w)
      PROVE  CommissionIsBacked'
  <2>1. (\A o \in Orders : Keeps(o)) /\ \A v \in Workers : Drops(v)
    BY <1>1, <1>9 DEF Webhook, Confirm, Call, rows, books
  <2> QED  BY <1>6, <2>1
<1>10. CASE Sweeper \/ Outside \/ UNCHANGED vars
  <2>1. (\A o \in Orders : Keeps(o)) /\ \A v \in Workers : Drops(v)
    BY <1>10 DEF Sweeper, SweepExpire, SweepRelease, SweepReleaseFails, SweepCrash, Outside,
       Pay, Deadline, FiveMinutes, rows, books, worker, vars
  <2> QED  BY <1>6, <2>1
<1> QED  BY <1>3, <1>4, <1>5, <1>7, <1>8, <1>9, <1>10 DEF Next

\* A commission that is still owed is that of a paid order, or of one whose failed
\* settlement is about to drop it: no revert, withdrawal or sweep leaves one behind.
THEOREM CommissionsAreBacked ==
    ASSUME Faults \cap {"dbError", "crash"} = {} PROVE Spec => []CommissionIsBacked
<1>1. Init => TypeInv /\ CommissionIsBacked
  BY InitTypeInv DEF Init, CommissionIsBacked
<1>2. TypeInv /\ CommissionIsBacked /\ [Next]_vars => (TypeInv /\ CommissionIsBacked)'
  BY NextTypeInv, NextCommission
<1> QED  BY <1>1, <1>2, PTL DEF Spec

-----------------------------------------------------------------------------
(***************************************************************************)
(* Stranded orders.  Of all the steps of the program three can leave an    *)
(* order paid with nobody to grant it: a statement of the revert fails,    *)
(* the process dies, or the revert runs into the one-pending index.        *)
(***************************************************************************)

\* No step strands an order but those three, of the handler that holds its claim.
StrandedOnlyByFailure ==
    [][\A o \in Orders : ~Stranded(o) /\ Stranded(o)' =>
          \E w \in Workers :
             /\ Holds(w, o)
             /\ (RevertOrder(w) /\ PendingElsewhere(o)) \/ StatementFails(w) \/ Crash(w)]_vars

LEMMA StepStrands ==
    ASSUME TypeInv, Next, NEW o \in Orders, ~Stranded(o), Stranded(o)'
    PROVE  \E w \in Workers :
              /\ Holds(w, o)
              /\ (RevertOrder(w) /\ PendingElsewhere(o)) \/ StatementFails(w) \/ Crash(w)
<1>1. /\ status \in [Orders -> {"none", "pending", "paid", "cancelled", "expired"}]
      /\ credits \in [Orders -> Nat]
      /\ pc \in [Workers -> Stages] /\ job \in [Workers -> JobRow]
      /\ \A w \in Workers : pc[w] \in Busy => job[w].order \in Orders
  BY DEF TypeInv, TypeOK, JobsExist
<1>2. status'[o] = "paid" /\ credits'[o] = 0 /\ \A w \in Workers : ~Holds(w, o)'
  BY DEF Stranded
<1> DEFINE Still == credits[o] = 0 /\ (status'[o] = "paid" => status[o] = "paid")
           Held(v) == Holds(v, o) => Holds(v, o)'
\* Otherwise its claim would have been free, or free and unpaid, before.
<1>3. ASSUME Still, \A v \in Workers : Held(v) PROVE FALSE
  BY <1>2, <1>3 DEF Stranded
<1>4. ASSUME NEW w \in Workers, WorkerStep(w)
      PROVE  Holds(w, o) /\ RevertOrder(w) /\ PendingElsewhere(o)
  <2>1. \A v \in Workers \ {w} : Held(v)
    BY <1>1, <1>4 DEF WorkerStep, SaveSession, CheckoutFails, OpenSession, ClaimDuplicate,
       ClaimUnsettleable, ClaimMismatch, ClaimOrder, GrantPlan, ConfirmRedemption, MarkGranted,
       RevertOrder, DropCommission, MarkFailed, WithdrawGrant, GiveUp, GoTo, Finish, Holds
  <2>2. (~ClaimOrder(w) /\ ~GrantPlan(w)) \/ job[w].order # o
    BY <1>1, <1>2 DEF ClaimOrder, GrantPlan, GoTo, Holds, Busy, Stages
  <2>3. Still
    BY <1>1, <1>2, <1>4, <2>2 DEF WorkerStep, SaveSession, CheckoutFails, OpenSession,
       ClaimDuplicate, ClaimUnsettleable, ClaimMismatch, ClaimOrder, GrantPlan,
       ConfirmRedemption, MarkGranted, RevertOrder, DropCommission, MarkFailed, WithdrawGrant,
       rows, books, Busy, Stages
  <2>4. Holds(w, o) /\ ~Holds(w, o)'
    BY <1>3, <2>1, <2>3
  <2>5. RevertOrder(w)
    BY <1>4, <2>2, <2>4 DEF WorkerStep, SaveSession, CheckoutFails, OpenSession, ClaimDuplicate,
       ClaimUnsettleable, ClaimMismatch, ClaimOrder, ConfirmRedemption, MarkGranted, GrantPlan,
       DropCommission, MarkFailed, WithdrawGrant, Holds
  <2>6. PendingElsewhere(o)
    BY <1>1, <1>2, <2>4, <2>5 DEF RevertOrder, Holds
  <2> QED  BY <2>4, <2>5, <2>6
<1>5. ASSUME NEW w \in Workers, WorkerFault(w)
      PROVE  Holds(w, o) /\ (StatementFails(w) \/ Crash(w))
  <2>1. \A v \in Workers \ {w} : Held(v)
    BY <1>1, <1>5 DEF WorkerFault, GrantFails, GrantUnacknowledged, StatementFails, NextStage,
       Crash, GiveUp, GoTo, Finish, Holds
  <2>2. ~GrantUnacknowledged(w) \/ job[w].order # o
    BY <1>1, <1>2 DEF GrantUnacknowledged
  <2>3. Still
    BY <1>1, <1>2, <1>5, <2>2 DEF WorkerFault, GrantFails, GrantUnacknowledged, StatementFails,
       Crash, rows, books
  <2>4. Holds(w, o) /\ ~Holds(w, o)'
    BY <1>3, <2>1, <2>3
  <2>5. ~GrantFails(w)
    BY <1>1, <2>4 DEF GrantFails, GoTo, Holds
  <2> QED  BY <1>5, <2>2, <2>4, <2>5 DEF WorkerFault, Holds
<1>6. ASSUME NEW x \in Orders, Request(x) PROVE FALSE
  <2>1. Still
    BY <1>1, <1>2, <1>6 DEF Request, PlaceOrder, PlaceFreeOrder, GrantOrder, Create,
       RemovePromotion, Cancel, CancelFails, StartManualCheckout, PayCommission, ApplyCoupon,
       ApplyAffiliate, MarkPaid, StartCheckout, rows, books
  <2>2. \A v \in Workers : Held(v)
    BY <1>1, <1>6 DEF Request, PlaceOrder, PlaceFreeOrder, GrantOrder, RemovePromotion, Cancel,
       CancelFails, StartManualCheckout, PayCommission, ApplyCoupon, ApplyAffiliate, MarkPaid,
       StartCheckout, Call, worker, Holds
  <2> QED  BY <1>3, <2>1, <2>2
<1>7. ASSUME NEW s \in Sessions, NEW w \in Workers, Webhook(s, w) \/ Confirm(s, w) PROVE FALSE
  <2>1. Still /\ \A v \in Workers : Held(v)
    BY <1>1, <1>2, <1>7 DEF Webhook, Confirm, Call, rows, books, Holds
  <2> QED  BY <1>3, <2>1
<1>8. ASSUME Sweeper \/ Outside PROVE FALSE
  <2>1. Still /\ \A v \in Workers : Held(v)
    BY <1>1, <1>2, <1>8 DEF Sweeper, SweepExpire, SweepRelease, SweepReleaseFails, SweepCrash,
       Outside, Pay, Deadline, FiveMinutes, rows, books, worker, Holds
  <2> QED  BY <1>3, <2>1
<1> QED  BY <1>4, <1>5, <1>6, <1>7, <1>8 DEF Next

\* However many orders, handlers and faults: an order is left paid and ungranted by a
\* failed statement, a crash, or the refused revert, and by nothing else.
THEOREM OnlyFailuresStrand == Spec => StrandedOnlyByFailure
<1>1. TypeInv /\ [Next]_vars =>
          [\A o \in Orders : ~Stranded(o) /\ Stranded(o)' =>
              \E w \in Workers :
                 /\ Holds(w, o)
                 /\ (RevertOrder(w) /\ PendingElsewhere(o)) \/ StatementFails(w) \/ Crash(w)]_vars
  BY StepStrands
<1>2. Init => TypeInv
  BY InitTypeInv
<1>3. TypeInv /\ [Next]_vars => TypeInv'
  BY NextTypeInv
<1> QED  BY <1>1, <1>2, <1>3, PTL DEF Spec, StrandedOnlyByFailure

\* Without those faults, and for users of one order each, no order is ever left paid
\* without its plan, whatever fails in the grants.
THEOREM NothingIsStranded ==
    ASSUME Faults \cap {"dbError", "crash"} = {},
           \A x, y \in Orders : OwnerOf[x] = OwnerOf[y] => x = y
    PROVE  Spec => []NoneStranded
<1>1. Init => TypeInv /\ NoneStranded
  BY InitTypeInv DEF Init, NoneStranded, Stranded
<1>2. ASSUME TypeInv, NoneStranded, [Next]_vars PROVE (TypeInv /\ NoneStranded)'
  <2>1. CASE Next
    <3>1. \A w \in Workers : ~StatementFails(w) /\ ~Crash(w)
      BY DEF StatementFails, Crash
    <3>2. \A o \in Orders : ~PendingElsewhere(o)
      BY DEF PendingElsewhere
    <3>3. \A o \in Orders : ~Stranded(o)'
      BY <1>2, <2>1, <3>1, <3>2, StepStrands DEF NoneStranded
    <3> QED  BY <1>2, <3>3, NextTypeInv DEF NoneStranded
  <2>2. CASE UNCHANGED vars
    BY <1>2, <2>2, NextTypeInv DEF NoneStranded, Stranded, Holds, vars, rows, books, worker
  <2> QED  BY <1>2, <2>1, <2>2
<1> QED  BY <1>1, <1>2, PTL DEF Spec
=============================================================================

-------------------------- MODULE TrialSubscription --------------------------
(***************************************************************************)
(* Free trials that register a card: the panel claims a place under the    *)
(* promotion's caps, sends the customer to a Stripe checkout, grants the   *)
(* trial when Stripe confirms it, and from then on follows the             *)
(* subscription Stripe bills (services/stripe_trial_*.go).                 *)
(*                                                                         *)
(* One transaction, one autocommitted statement or one call of Stripe is   *)
(* one action; a handler that runs several is a worker with a stage.       *)
(* Stripe's webhooks arrive in any order, several at a time and again      *)
(* until one is answered with a 2xx.                                       *)
(***************************************************************************)
EXTENDS Naturals, FiniteSets

CONSTANTS
    Users,
    Trials,       \* ids of stripe_trial_subscriptions rows, used once
    Workers,      \* request handlers that run more than one step
    Cap,          \* max_redemptions of the promotion
    PerUser,      \* max_redemptions_per_user
    MaxChanges,   \* bound: changes of subscriptions at Stripe, cancellations aside
    Faults,       \* what may go wrong
    None          \* SQL NULL

FaultKinds == {"timeout",     \* the answer of a call that creates a session is lost
               "lostAnswer",  \* Stripe does not see the 2xx of a webhook
               "crash"}       \* the process dies between two steps

ASSUME TrialAssumption ==
    /\ IsFiniteSet(Trials)
    /\ Cap \in Nat /\ PerUser \in Nat /\ MaxChanges \in Nat
    /\ Faults \subseteq FaultKinds
    /\ None \notin Users \cup Trials

VARIABLES
    owner, status, saved, cancel, last, linked,
                 \* a stripe_trial_subscriptions row: user_id, status, whether
                 \* checkout_session_id is set, cancel_at_period_end,
                 \* last_event_created, whether trial_order_id is the user's order
    settled,     \* how often the row's trial order was settled
    late,        \* checkout_expires_at has passed
    renewed,     \* how often the user was granted a period for an invoice
    applied,     \* stripe_trial_events
    order,       \* the user's trial order placed ahead of the checkout
    plan,        \* the user has a plan that has not expired
    session,     \* Stripe: the checkout session of a row (its idempotency key)
    sub,         \* Stripe: the subscription a completed session started
    events,      \* Stripe: webhooks not answered with a 2xx yet
    changes,     \* Stripe: changes so far, the clock of its events
    pc, job      \* the handlers' stages, and what they work on

rows   == <<owner, status, saved, cancel, last, linked>>
grants == <<settled, renewed, order, plan>>
stripe == <<session, sub, events, changes>>
vars   == <<rows, late, grants, applied, stripe, pc, job>>

RowStatus  == {"checkout", "trialing", "active", "past_due", "canceled", "expired"}
Live       == {"trialing", "active", "past_due"}
Subs       == [status : {"none", "canceled"} \cup Live, cancel : BOOLEAN]
Ids        == 1..(MaxChanges + Cardinality(Trials))    \* every one is cancelled at most once
EventKinds == {"completed", "expired", "updated", "deleted", "paid", "failed"}
Event      == [kind : EventKinds, trial : Trials, id : Nat]
Stages     == {"idle", "restart", "create", "save", "read", "confirm", "expire", "replace",
               "subscription", "complete", "lifecycle", "cancel", "saveCancel"}
Job        == [user : Users \cup {None}, trial : Trials \cup {None}, ordered : BOOLEAN,
               found : BOOLEAN, event : Event \cup {None}, seen : Subs]

\* NULL is no webhook.
ASSUME NullAssumption == None \notin Event

NoSub == [status |-> "none", cancel |-> FALSE]
NoJob == [user |-> None, trial |-> None, ordered |-> FALSE, found |-> FALSE,
          event |-> None, seen |-> NoSub]

TypeOK ==
    /\ owner \in [Trials -> Users \cup {None}]
    /\ \A t \in Trials : status[t] = "none" <=> owner[t] = None
    /\ status \in [Trials -> RowStatus \cup {"none"}]
    /\ saved \in [Trials -> BOOLEAN]
    /\ cancel \in [Trials -> BOOLEAN]
    /\ last \in [Trials -> Nat]
    /\ linked \in [Trials -> BOOLEAN]
    /\ settled \in [Trials -> Nat]
    /\ late \in [Trials -> BOOLEAN]
    /\ renewed \in [Ids -> Nat]
    /\ applied \subseteq Event
    /\ order \in [Users -> {"none", "pending", "expired", "cancelled", "paid"}]
    /\ plan \in [Users -> BOOLEAN]
    /\ session \in [Trials -> {"absent", "open", "complete", "expired"}]
    /\ sub \in [Trials -> Subs]
    /\ events \subseteq Event
    /\ changes \in Nat
    /\ pc \in [Workers -> Stages]
    /\ job \in [Workers -> Job]

Init ==
    /\ owner = [t \in Trials |-> None]
    /\ status = [t \in Trials |-> "none"]
    /\ saved = [t \in Trials |-> FALSE]
    /\ cancel = [t \in Trials |-> FALSE]
    /\ last = [t \in Trials |-> 0]
    /\ linked = [t \in Trials |-> FALSE]
    /\ settled = [t \in Trials |-> 0]
    /\ late = [t \in Trials |-> FALSE]
    /\ renewed = [i \in Ids |-> 0]
    /\ applied = {}
    /\ order = [u \in Users |-> "none"]
    /\ plan = [u \in Users |-> FALSE]
    /\ session = [t \in Trials |-> "absent"]
    /\ sub = [t \in Trials |-> NoSub]
    /\ events = {}
    /\ changes = 0
    /\ pc = [w \in Workers |-> "idle"]
    /\ job = [w \in Workers |-> NoJob]

-----------------------------------------------------------------------------
(* Helpers *)

Rows(u) == {t \in Trials : owner[t] = u}

\* The rows that count against the promotion.
Claims == {t \in Trials : owner[t] # None /\ status[t] # "expired"}

\* subscription_id is set, by the statement that binds it.
Bound(t) == status[t] \in Live \cup {"canceled"}

\* A claim nobody has finished: idx_stripe_trial_user_open.
Open(t) == status[t] \in {"checkout"} \cup Live

\* The second in which a change happened, as its event reports it: changes are
\* taken to be at least a second apart.
Created(id) == id

\* A handler goes on to stage s, or returns.
Goto(w, s, j) == pc' = [pc EXCEPT ![w] = s] /\ job' = [job EXCEPT ![w] = j]
Return(w)     == Goto(w, "idle", NoJob)

\* The webhooks left after answering e (None: the browser asked) with a 2xx that
\* Stripe sees, or not.
Left(e)     == {events \ {e}} \cup (IF "lostAnswer" \in Faults THEN {events} ELSE {})
Answered(e) == events' \in Left(e)

-----------------------------------------------------------------------------
(* Orders of the user that carry the trial's code *)

\* Create and applyTrialTx; refused during a checkout or with a plan.
PlaceOrder(u) ==
    /\ order[u] # "pending" /\ ~plan[u]
    /\ \A t \in Rows(u) : status[t] # "checkout"
    /\ order' = [order EXCEPT ![u] = "pending"]
    /\ linked' = [t \in Trials |-> linked[t] /\ owner[t] # u]
    /\ UNCHANGED <<owner, status, saved, cancel, last, late, settled, renewed, plan, applied,
                   stripe, pc, job>>

\* OrderExpiryScheduler; an order bound to a checkout expires with it.
ExpireOrder(u) ==
    /\ order[u] = "pending"
    /\ \A t \in Rows(u) : linked[t] /\ status[t] = "checkout" => late[t]
    /\ order' = [order EXCEPT ![u] = "expired"]
    /\ UNCHANGED <<rows, late, settled, renewed, plan, applied, stripe, pc, job>>

\* The operator settles the pending or expired order.
OperatorSettles(u) ==
    /\ order[u] \in {"pending", "expired"}
    /\ order' = [order EXCEPT ![u] = "paid"]
    /\ plan' = [plan EXCEPT ![u] = TRUE]
    /\ UNCHANGED <<rows, late, settled, renewed, applied, stripe, pc, job>>

\* Any other way to a plan, and its end.
OtherGrant(u) ==
    /\ ~plan[u]
    /\ plan' = [plan EXCEPT ![u] = TRUE]
    /\ UNCHANGED <<rows, late, settled, renewed, order, applied, stripe, pc, job>>

PlanEnds(u) ==
    /\ plan[u]
    /\ plan' = [plan EXCEPT ![u] = FALSE]
    /\ UNCHANGED <<rows, late, settled, renewed, order, applied, stripe, pc, job>>

\* cancelForOwner holds the order's lock while Stripe expires the session of the
\* checkout, if there is one; the process may die after that.
ExpireRemotely(t) ==
    /\ saved[t] /\ session[t] \in {"open", "expired"}
    /\ session' = [session EXCEPT ![t] = "expired"]
    /\ events' = events \cup {[kind |-> "expired", trial |-> t, id |-> 0]}
    /\ UNCHANGED <<sub, changes>>

CancelOrder(u) ==
    LET bound == {t \in Rows(u) : linked[t] /\ status[t] = "checkout"} IN
    /\ order[u] = "pending"
    /\ IF bound = {} THEN UNCHANGED stripe ELSE \A t \in bound : ExpireRemotely(t)
    /\ status' = [t \in Trials |-> IF t \in bound THEN "expired" ELSE status[t]]
    /\ \A t \in Rows(u) : linked[t] => status'[t] \in {"expired", "canceled"}
    /\ order' = [order EXCEPT ![u] = "cancelled"]
    /\ UNCHANGED <<owner, saved, cancel, last, linked, late, settled, renewed, plan, applied, pc, job>>

CancelOrderDies(u, t) ==
    /\ "crash" \in Faults
    /\ order[u] = "pending" /\ owner[t] = u /\ linked[t] /\ status[t] = "checkout"
    /\ ExpireRemotely(t)
    /\ UNCHANGED <<rows, late, grants, applied, pc, job>>

-----------------------------------------------------------------------------
(* StartForOrder: one transaction claims a row or finds the one to resume *)

\* A request, or the call with which a handler replaces an expired checkout.
Starts(w, u, ordered) ==
    /\ \/ pc[w] = "idle"
       \/ pc[w] = "restart" /\ job[w].user = u /\ job[w].ordered = ordered
    /\ ~plan[u]

Claim(w, u, ordered, t) ==
    /\ Starts(w, u, ordered)
    /\ \A x \in Rows(u) : ~Open(x)
    /\ IF ordered THEN order[u] = "pending" ELSE order[u] # "pending"
    /\ Cardinality(Claims) < Cap
    /\ Cardinality(Claims \cap Rows(u)) < PerUser
    /\ owner[t] = None
    /\ owner' = [owner EXCEPT ![t] = u]
    /\ status' = [status EXCEPT ![t] = "checkout"]
    /\ linked' = [x \in Trials |-> IF x = t THEN ordered
                                   ELSE linked[x] /\ ~(ordered /\ owner[x] = u /\ status[x] = "expired")]
    /\ Goto(w, "create", [NoJob EXCEPT !.user = u, !.trial = t, !.ordered = ordered])
    /\ UNCHANGED <<saved, cancel, last, late, grants, applied, stripe>>

Resume(w, u, ordered, t) ==
    /\ Starts(w, u, ordered)
    /\ owner[t] = u /\ status[t] = "checkout"
    /\ ordered => linked[t]
    /\ Goto(w, IF saved[t] THEN "read" ELSE "create",
               [NoJob EXCEPT !.user = u, !.trial = t, !.ordered = ordered])
    /\ UNCHANGED <<rows, late, grants, applied, stripe>>

\* StartTrial before the deadline: Stripe creates the session, or returns the one
\* it created under the same idempotency key.
CreateSession(w) ==
    LET t == job[w].trial IN
    /\ pc[w] = "create" /\ ~late[t]
    /\ session' = [session EXCEPT ![t] = IF @ = "absent" THEN "open" ELSE @]
    /\ \/ Goto(w, "save", job[w])
       \/ "timeout" \in Faults /\ Return(w)
    /\ UNCHANGED <<rows, late, grants, applied, sub, events, changes>>

\* Mutant: the deadline alone is taken for the session's absence.
MutantSearchTrustsClock(w) ==
    LET t == job[w].trial IN
    /\ pc[w] = "create" /\ late[t]
    /\ Goto(w, IF saved[t] THEN "save" ELSE "replace", job[w])
    /\ UNCHANGED <<rows, late, grants, applied, stripe>>

\* StartTrial after it: the sessions created in the window are searched.
SearchSession(w) ==
    LET t == job[w].trial IN
    /\ pc[w] = "create" /\ late[t]
    /\ Goto(w, IF session[t] = "absent" THEN "replace" ELSE "save", job[w])
    /\ UNCHANGED <<rows, late, grants, applied, stripe>>

\* startCheckout saves the session; startOrReplace returns unless it is late.
SaveSession(w) ==
    LET t == job[w].trial IN
    /\ pc[w] = "save"
    /\ saved' = [saved EXCEPT ![t] = TRUE]
    /\ IF late[t] THEN Goto(w, "confirm", job[w]) ELSE Return(w)
    /\ UNCHANGED <<owner, status, cancel, last, linked, late, grants, applied, stripe>>

\* ReadTrialCheckout of the saved session, or of the one that was found.
ReadSession(w) ==
    LET t == job[w].trial IN
    /\ pc[w] \in {"read", "confirm"}
    /\ CASE session[t] = "expired"  -> Goto(w, "expire", [job[w] EXCEPT !.found = pc[w] = "confirm"])
         [] session[t] = "complete" /\ settled[t] = 0 -> Goto(w, "subscription", job[w])
         [] OTHER -> Return(w)
    /\ UNCHANGED <<rows, late, grants, applied, stripe>>

\* Process of a checkout that Stripe says expired.
Expire(t) == status' = [status EXCEPT ![t] = IF @ = "checkout" THEN "expired" ELSE @]

ReleaseExpired(w) ==
    LET t == job[w].trial IN
    /\ pc[w] = "expire"
    /\ Expire(t)
    /\ Goto(w, IF job[w].found THEN "replace" ELSE "restart", job[w])
    /\ UNCHANGED <<owner, saved, cancel, last, linked, late, grants, applied, stripe>>

\* replaceAbsentCheckout: the session expired, or was never created and no longer
\* can be. The order's link goes in a second statement, if the process lives.
ReplaceAbsent(w) ==
    LET t == job[w].trial IN
    /\ pc[w] = "replace"
    /\ IF status[t] \in {"checkout", "expired"}
       THEN /\ status' = [status EXCEPT ![t] = "expired"]
            /\ \/ /\ linked' = [linked EXCEPT ![t] = FALSE]
                  /\ Goto(w, "restart", [job[w] EXCEPT !.ordered = linked[t]])
               \/ "crash" \in Faults /\ Return(w) /\ UNCHANGED linked
       ELSE Return(w) /\ UNCHANGED <<status, linked>>
    /\ UNCHANGED <<owner, saved, cancel, last, late, grants, applied, stripe>>

SessionExpired(e) ==
    /\ e \in events /\ e.kind = "expired"
    /\ Expire(e.trial)
    /\ Answered(e)
    /\ UNCHANGED <<owner, saved, cancel, last, linked, late, grants, applied,
                   session, sub, changes, pc, job>>

-----------------------------------------------------------------------------
(* Complete: grants the trial once Stripe confirms its subscription *)

\* The webhook, or the browser coming back, unless the grant is already there.
Deliver(w, e) ==
    /\ pc[w] = "idle" /\ e \in events /\ e.kind = "completed" /\ settled[e.trial] = 0
    /\ Goto(w, "subscription", [NoJob EXCEPT !.trial = e.trial, !.event = e])
    /\ UNCHANGED <<rows, late, grants, applied, stripe>>

AlreadyGranted(e) ==
    /\ e \in events /\ e.kind = "completed" /\ settled[e.trial] > 0
    /\ Answered(e)
    /\ UNCHANGED <<rows, late, grants, applied, session, sub, changes, pc, job>>

Confirm(w, t) ==
    /\ pc[w] = "idle" /\ saved[t] /\ session[t] = "complete" /\ settled[t] = 0
    /\ Goto(w, "subscription", [NoJob EXCEPT !.trial = t])
    /\ UNCHANGED <<rows, late, grants, applied, stripe>>

\* Mutant: the answer of Stripe is not kept.
MutantReadSubscriptionNothing(w) ==
    /\ pc[w] = "subscription"
    /\ Goto(w, "complete", job[w])
    /\ UNCHANGED <<rows, late, grants, applied, stripe>>

\* ReadTrial, before the row is locked.
ReadSubscription(w) ==
    /\ pc[w] = "subscription"
    /\ Goto(w, "complete", [job[w] EXCEPT !.seen = sub[job[w].trial]])
    /\ UNCHANGED <<rows, late, grants, applied, stripe>>

\* CancelTrial: Stripe stops billing at the period's end, and says so in an event;
\* a subscription that has ended cannot be changed.
CancelRemotely(t, left) ==
    /\ sub[t].status \in Live
    /\ sub' = [sub EXCEPT ![t].cancel = TRUE]
    /\ changes' = IF sub[t].cancel THEN changes ELSE changes + 1
    /\ events' = IF sub[t].cancel THEN left
                 ELSE left \cup {[kind |-> "updated", trial |-> t, id |-> changes']}

\* settleTrialOrderTx: an order granted already is left alone; a plan the user
\* holds stays as it is.
SettleTrial(t) ==
    LET u == owner[t] IN
    /\ settled' = [settled EXCEPT ![t] = @ + 1]
    /\ order' = [order EXCEPT ![u] = IF linked[t] THEN "paid" ELSE @]
    /\ plan' = [plan EXCEPT ![u] = @ \/ ~linked[t] \/ order[u] # "paid"]

\* Mutant: an order that expired during the checkout is refused.
MutantReceiptedPending(t) == IF linked[t] THEN order[owner[t]] \in {"pending", "paid"}
                                          ELSE order[owner[t]] # "pending"

\* The receipt is the user's order, or a new one if idx_plan_orders_one_pending lets it in.
Receipted(t) == IF linked[t] THEN order[owner[t]] \in {"pending", "expired", "paid"}
                             ELSE order[owner[t]] # "pending"

\* The transaction binds the subscription to a claim that is still open, and
\* stops its billing first if the user has a plan by now.
Complete(w) ==
    LET t == job[w].trial  seen == job[w].seen IN
    /\ pc[w] = "complete" /\ status[t] = "checkout" /\ Receipted(t)
    /\ \E left \in Left(job[w].event) :
          IF plan[owner[t]] THEN CancelRemotely(t, left)
          ELSE events' = left /\ UNCHANGED <<sub, changes>>
    /\ status' = [status EXCEPT ![t] = seen.status]
    /\ cancel' = [cancel EXCEPT ![t] = seen.cancel \/ plan[owner[t]]]
    /\ saved' = [saved EXCEPT ![t] = TRUE]
    /\ SettleTrial(t)
    /\ Return(w)
    /\ UNCHANGED <<owner, last, linked, late, renewed, applied, session>>

\* A claim another handler bound meanwhile: its order is settled, or left alone.
CompleteBound(w) ==
    LET t == job[w].trial IN
    /\ pc[w] = "complete" /\ status[t] # "checkout"
    /\ linked[t] \/ settled[t] > 0
    /\ linked[t] => Receipted(t)
    /\ IF linked[t] /\ order[owner[t]] # "paid" THEN SettleTrial(t)
       ELSE UNCHANGED <<settled, order, plan>>
    /\ Answered(job[w].event)
    /\ Return(w)
    /\ UNCHANGED <<rows, late, renewed, applied, session, sub, changes>>

\* Every refusal, and a crash before the commit: rolled back, which Stripe is not.
CompleteFails(w) ==
    LET t == job[w].trial IN
    /\ pc[w] = "complete"
    /\ \/ "crash" \in Faults
       \/ ~Receipted(t)
       \/ status[t] = "checkout" /\ plan[owner[t]] /\ sub[t].status \notin Live
       \/ status[t] # "checkout" /\ ~linked[t] /\ settled[t] = 0
    /\ IF status[t] = "checkout" /\ plan[owner[t]] /\ sub[t].status \in Live
       THEN CancelRemotely(t, events) ELSE UNCHANGED <<events, sub, changes>>
    /\ Return(w)
    /\ UNCHANGED <<rows, late, grants, applied, session>>

-----------------------------------------------------------------------------
(* ApplyLifecycle and Invoice: what Stripe says of the bound subscription *)

\* customer.subscription.updated: Stripe is asked before the row is locked.
DeliverUpdated(w, e) ==
    /\ pc[w] = "idle" /\ e \in events /\ e.kind = "updated"
    /\ Goto(w, "lifecycle", [NoJob EXCEPT !.trial = e.trial, !.event = e, !.seen = sub[e.trial]])
    /\ UNCHANGED <<rows, late, grants, applied, stripe>>

\* Mutants: the order of the events is not checked, or nothing is.
MutantRecordAnyOrder(e, state) ==
    LET t == e.trial
        written == e \notin applied /\ status[t] # "canceled" IN
    /\ applied' = applied \cup {e}
    /\ status' = IF written THEN [status EXCEPT ![t] = state.status] ELSE status
    /\ cancel' = IF written THEN [cancel EXCEPT ![t] = state.cancel] ELSE cancel
    /\ last' = IF written THEN [last EXCEPT ![t] = Created(e.id)] ELSE last
    /\ Answered(e)

\* The transaction: once per event, never after canceled, never from an older event.
Record(e, state) ==
    LET t == e.trial
        written == e \notin applied /\ status[t] # "canceled" /\ Created(e.id) >= last[t] IN
    /\ applied' = applied \cup {e}
    /\ status' = IF written THEN [status EXCEPT ![t] = state.status] ELSE status
    /\ cancel' = IF written THEN [cancel EXCEPT ![t] = state.cancel] ELSE cancel
    /\ last' = IF written THEN [last EXCEPT ![t] = Created(e.id)] ELSE last
    /\ Answered(e)

ApplyLifecycle(w) ==
    LET e == job[w].event IN
    /\ pc[w] = "lifecycle"
    /\ IF Bound(e.trial) THEN Record(e, job[w].seen)
       ELSE UNCHANGED <<applied, status, cancel, last, events>>
    /\ Return(w)
    /\ UNCHANGED <<owner, saved, linked, late, grants, session, sub, changes>>

Deleted(e) ==
    /\ e \in events /\ e.kind = "deleted" /\ Bound(e.trial)
    /\ Record(e, sub[e.trial])
    /\ UNCHANGED <<owner, saved, linked, late, grants, session, sub, changes, pc, job>>

\* Mutant: an invoice without a row is answered as somebody else's.
MutantInvoicePaidUnbound(e) ==
    LET granted == Bound(e.trial) /\ renewed[e.id] = 0 IN
    /\ e \in events /\ e.kind = "paid"
    /\ renewed' = [renewed EXCEPT ![e.id] = IF granted THEN 1 ELSE @]
    /\ plan' = [plan EXCEPT ![owner[e.trial]] = @ \/ granted]
    /\ Answered(e)
    /\ UNCHANGED <<rows, late, settled, order, applied, session, sub, changes, pc, job>>

\* One receipt per invoice, under the row's lock; Stripe is read inside it.
InvoicePaid(e) ==
    /\ e \in events /\ e.kind = "paid" /\ Bound(e.trial)
    /\ renewed' = [renewed EXCEPT ![e.id] = IF @ = 0 THEN 1 ELSE @]
    /\ plan' = [plan EXCEPT ![owner[e.trial]] = @ \/ renewed[e.id] = 0]
    /\ Answered(e)
    /\ UNCHANGED <<rows, late, settled, order, applied, session, sub, changes, pc, job>>

InvoiceFailed(e) ==
    LET t == e.trial  open == status[t] # "canceled" IN
    /\ e \in events /\ e.kind = "failed" /\ Bound(t)
    /\ status' = [status EXCEPT ![t] = IF open THEN sub[t].status ELSE @]
    /\ cancel' = [cancel EXCEPT ![t] = IF open THEN sub[t].cancel ELSE @]
    /\ Answered(e)
    /\ UNCHANGED <<owner, saved, last, linked, late, grants, applied, session, sub, changes, pc, job>>

-----------------------------------------------------------------------------
(* Cancel: the customer stops the billing *)

StartCancel(w, t) ==
    /\ pc[w] = "idle" /\ status[t] \in Live /\ ~cancel[t]
    /\ Goto(w, "cancel", [NoJob EXCEPT !.trial = t])
    /\ UNCHANGED <<rows, late, grants, applied, stripe>>

CancelBilling(w) ==
    LET t == job[w].trial IN
    /\ pc[w] = "cancel"
    /\ \/ CancelRemotely(t, events) /\ Goto(w, "saveCancel", job[w])
       \/ sub[t].status \notin Live /\ Return(w) /\ UNCHANGED <<sub, changes, events>>
    /\ UNCHANGED <<rows, late, grants, applied, session>>

\* By id alone, whatever the row says by now.
SaveCancel(w) ==
    /\ pc[w] = "saveCancel"
    /\ cancel' = [cancel EXCEPT ![job[w].trial] = TRUE]
    /\ Return(w)
    /\ UNCHANGED <<owner, status, saved, last, linked, late, grants, applied, stripe>>

-----------------------------------------------------------------------------
(* Faults, the clock, and Stripe *)

\* A call fails or the process dies; a replaced checkout may also be refused.
GiveUp(w) ==
    /\ pc[w] # "idle" /\ ("crash" \in Faults \/ pc[w] = "restart")
    /\ Return(w)
    /\ UNCHANGED <<rows, late, grants, applied, stripe>>

Deadline(t) ==
    /\ owner[t] # None /\ ~late[t]
    /\ late' = [late EXCEPT ![t] = TRUE]
    /\ UNCHANGED <<rows, grants, applied, stripe, pc, job>>

SubStarts(t) ==
    /\ session[t] = "open"
    /\ session' = [session EXCEPT ![t] = "complete"]
    /\ sub' = [sub EXCEPT ![t] = [status |-> "trialing", cancel |-> FALSE]]
    /\ events' = events \cup {[kind |-> "completed", trial |-> t, id |-> 0]}
    /\ UNCHANGED <<rows, late, grants, applied, changes, pc, job>>

SessionTimesOut(t) ==
    /\ session[t] = "open" /\ late[t]
    /\ session' = [session EXCEPT ![t] = "expired"]
    /\ events' = events \cup {[kind |-> "expired", trial |-> t, id |-> 0]}
    /\ UNCHANGED <<rows, late, grants, applied, sub, changes, pc, job>>

\* A change of a subscription, and its events.
Change(t, state, kinds) ==
    /\ changes < MaxChanges + Cardinality({x \in Trials : sub[x].cancel})
    /\ sub' = [sub EXCEPT ![t] = state]
    /\ changes' = changes + 1
    /\ events' = events \cup [kind : kinds, trial : {t}, id : {changes + 1}]
    /\ UNCHANGED <<rows, late, grants, applied, session, pc, job>>

Bills(t)     == /\ sub[t].status \in Live /\ ~sub[t].cancel
                /\ Change(t, [status |-> "active", cancel |-> FALSE], {"updated", "paid"})
BillFails(t) == /\ sub[t].status \in Live /\ ~sub[t].cancel
                /\ Change(t, [status |-> "past_due", cancel |-> FALSE], {"updated", "failed"})
Ends(t)      == /\ sub[t].status \in Live
                /\ Change(t, [sub[t] EXCEPT !.status = "canceled"], {"deleted"})

-----------------------------------------------------------------------------
Customer == \E u \in Users :
    \/ PlaceOrder(u) \/ CancelOrder(u)
    \/ \E t \in Trials : CancelOrderDies(u, t)

Office == \E u \in Users :
    ExpireOrder(u) \/ OperatorSettles(u) \/ OtherGrant(u) \/ PlanEnds(u)

StartTrial(w) == \E u \in Users, ordered \in BOOLEAN, t \in Trials :
    Claim(w, u, ordered, t) \/ Resume(w, u, ordered, t)

\* What a handler does next once it runs.
Continue(w) ==
    \/ CreateSession(w) \/ SearchSession(w) \/ SaveSession(w) \/ ReadSession(w)
    \/ ReleaseExpired(w) \/ ReplaceAbsent(w)
    \/ ReadSubscription(w) \/ Complete(w) \/ CompleteBound(w) \/ CompleteFails(w)
    \/ ApplyLifecycle(w) \/ CancelBilling(w) \/ SaveCancel(w) \/ GiveUp(w)

\* A webhook.
Webhook(e) ==
    \/ SessionExpired(e) \/ AlreadyGranted(e) \/ Deleted(e)
    \/ InvoicePaid(e) \/ InvoiceFailed(e)
    \/ \E w \in Workers : Deliver(w, e) \/ DeliverUpdated(w, e)

Stripe == \E t \in Trials :
    \/ Deadline(t) \/ SubStarts(t) \/ SessionTimesOut(t)
    \/ Bills(t) \/ BillFails(t) \/ Ends(t)

Next ==
    \/ Customer \/ Office \/ Stripe
    \/ \E w \in Workers :
         \/ StartTrial(w) \/ Continue(w)
         \/ \E t \in Trials : Confirm(w, t) \/ StartCancel(w, t)
    \/ \E e \in events : Webhook(e)

Spec == Init /\ [][Next]_vars

\* A handler that runs goes on unless it dies; Stripe repeats a webhook until it is
\* answered, and one of the attempts lives through; the scheduler expires orders.
Granting(w, t) == job[w].trial = t /\ (ReadSubscription(w) \/ Complete(w) \/ CompleteBound(w))

Fairness ==
    /\ \A w \in Workers : WF_vars(Continue(w))
    /\ \A t \in Trials : /\ SF_vars(\E w \in Workers, e \in events : e.trial = t /\ Deliver(w, e))
                          /\ SF_vars(\E w \in Workers : pc[w] = "subscription" /\ Granting(w, t))
                          /\ SF_vars(\E w \in Workers : pc[w] = "complete" /\ Granting(w, t))
    /\ \A i \in Ids : SF_vars(\E e \in events : e.id = i /\ InvoicePaid(e))
    /\ \A u \in Users : WF_vars(ExpireOrder(u))

FairSpec == Spec /\ Fairness

-----------------------------------------------------------------------------
(* Properties *)

\* What has become of a claim, in the terms of TrialPromise.
Phase == [t \in Trials |->
    IF owner[t] = None THEN "free"
    ELSE IF status[t] = "expired" THEN "released"
    ELSE IF settled[t] > 0 THEN IF settled[t] = 1 THEN "granted" ELSE "granted twice"
    ELSE IF session[t] = "complete" THEN "accepted" ELSE "held"]

Promise == INSTANCE TrialPromise WITH holder <- owner, phase <- Phase

\* The caps count every claim exactly, a claim whose checkout the customer has
\* completed is never released, and it is granted once
\* (stripe_trial_start.go: only Stripe-confirmed expiration releases a claim).
ImplementsTrialPromise == Promise!Spec

\* Once every webhook is answered and every handler has finished, a bound row
\* says of its subscription what Stripe says, in whatever order the events and the
\* answers of Stripe came (stripe_trial_lifecycle.go:21-74).
Quiet == events = {} /\ \A w \in Workers : pc[w] = "idle"

RecordFollowsStripe ==
    Quiet => \A t \in Trials : Bound(t) => sub[t] = [status |-> status[t], cancel |-> cancel[t]]

\* Every completed checkout is granted in the end, unless its subscription ends
\* at Stripe before the panel could bind it.
CompletedIsGranted == \A t \in Trials :
    session[t] = "complete" ~> settled[t] = 1 \/ sub[t].status = "canceled"

\* Every charged renewal is granted in the end, and once: also if its webhook
\* comes before the checkout's, comes again, or its handler dies.
PaidIsExtended == \A t \in Trials : \A i \in Ids :
    [kind |-> "paid", trial |-> t, id |-> i] \in events ~> [](renewed[i] = 1)
=============================================================================

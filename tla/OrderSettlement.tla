--------------------------- MODULE OrderSettlement ---------------------------
(***************************************************************************)
(* Plan orders of the panel and everything that can change one: the user   *)
(* placing, discounting, checking out and cancelling it, the operator      *)
(* confirming or granting it, Stripe reporting a payment, the expiry       *)
(* sweeper, and PaymentService.Settle, through which every payment goes.   *)
(*                                                                         *)
(* One database transaction, or one autocommitted statement, is one        *)
(* action.  Code that runs several of them in a row is a worker with a     *)
(* program counter, so other requests run between its steps and the        *)
(* process may die there.  The faults that may happen are a constant, so   *)
(* that a run says which ones its properties survive.                      *)
(***************************************************************************)
EXTENDS Naturals, FiniteSets

CONSTANTS
    Users, Orders,          \* an order id is used once; OwnerOf fixes its user
    OwnerOf,
    Coupons, Partners,      \* promotion_codes and affiliate_partners rows
    BasePrice, DiscountOf,  \* undiscounted price of an order, discount of a code
    MaxRedemptions,         \* overall cap of a coupon
    MaxPerUser,             \* per-user cap of a coupon
    Sessions,               \* ids of hosted (Stripe) checkout sessions
    Channels,               \* the kinds of confirmation that occur
    Workers,                \* request handlers that run more than one step
    Faults,                 \* what may go wrong
    MaxLostAcks,            \* bound: lost acknowledgements per order
    None                    \* SQL NULL

Codes == Coupons \cup Partners

\* The event keys (provider, external_id) of payment_events: one per order for
\* the operator's click, the operator's grant and a free order, and two per
\* Stripe session, the webhook's and the browser's return from checkout.
PanelKinds  == {"admin", "grant", "promotion"}
StripeKinds == {"webhook", "confirm"}
Events == ((Channels \cap PanelKinds) \X Orders) \cup ((Channels \cap StripeKinds) \X Sessions)

FaultKinds == {"grantError",  \* GrantPlanWithDuration fails and rolls back
               "lostAck",     \* it commits, and the acknowledgement is lost
               "dbError",     \* a later bookkeeping statement fails
               "crash"}       \* the process dies between two steps

ASSUME ConstantsAssumption ==
    /\ OwnerOf \in [Orders -> Users]
    /\ BasePrice \in [Orders -> Nat]
    /\ DiscountOf \in [Codes -> Nat]
    /\ MaxRedemptions \in [Coupons -> Nat]
    /\ MaxPerUser \in [Coupons -> Nat]
    /\ Channels \subseteq PanelKinds \cup StripeKinds
    /\ Faults \subseteq FaultKinds
    /\ MaxLostAcks \in Nat
    /\ None \notin Codes \cup Sessions \cup Orders \cup Events
    /\ IsFiniteSet(Orders)

VARIABLES
    status,      \* plan_orders.status; "none" before the row exists
    promo,       \* plan_orders.promotion_id or affiliate_partner_id
    session,     \* plan_orders.provider_session_id while the provider is Stripe
    due,         \* plan_orders.expires_at has passed
    redemption,  \* the order's promotion_redemptions row: its coupon and status
    redeemed,    \* promotion_codes.redeemed_count
    commission,  \* status of the order's affiliate_commissions row
    event,       \* payment_events.outcome of every event key
    stale,       \* the event was received more than five minutes ago
    credits,     \* how often the plan of an order was granted to its user
    hosted,      \* what Stripe holds of a session: state, order and amount
    acked,       \* sessions whose webhook was answered with a 2xx
    pc,          \* where a worker is in its handler; the stages follow
    job,         \* what it works on: event key, order, amount, session
    sweep        \* orders the sweeper expired and has not released yet

rows   == <<status, promo, session, due>>
ledger == <<redemption, redeemed>>
books  == <<event, stale, commission, credits>>
stripe == <<hosted, acked>>
worker == <<pc, job>>
vars   == <<rows, ledger, books, stripe, worker, sweep>>

NoJob == [event |-> None, order |-> None, amount |-> 0, session |-> None]

Stages == {"idle", "claim", "grant", "confirm", "mark", "revert", "dropCommission",
           "markFailed", "withdraw", "openSession", "saveSession"}

RedemptionRow == [coupon : Coupons \cup {None},
                  state : {"none", "reserved", "confirmed", "released"}]
SessionRow == [state : {"none", "open", "complete", "expired"},
               order : Orders \cup {None}, amount : Nat]
JobRow == [event : Events \cup {None}, order : Orders \cup {None}, amount : Nat,
           session : Sessions \cup {None}]

TypeOK ==
    /\ status \in [Orders -> {"none", "pending", "paid", "cancelled", "expired"}]
    /\ promo \in [Orders -> Codes \cup {None}]
    /\ session \in [Orders -> Sessions \cup {None}]
    /\ due \in [Orders -> BOOLEAN]
    /\ redemption \in [Orders -> RedemptionRow]
    /\ redeemed \in [Coupons -> Nat]
    /\ commission \in [Orders -> {"none", "pending", "paid"}]
    /\ event \in [Events -> {"none", "received", "granted", "ignored", "failed"}]
    /\ stale \in [Events -> BOOLEAN]
    /\ credits \in [Orders -> Nat]
    /\ hosted \in [Sessions -> SessionRow]
    /\ pc \in [Workers -> Stages]
    /\ job \in [Workers -> JobRow]
    /\ acked \subseteq Sessions
    /\ sweep \subseteq Orders

Init ==
    /\ status = [o \in Orders |-> "none"]
    /\ promo = [o \in Orders |-> None]
    /\ session = [o \in Orders |-> None]
    /\ due = [o \in Orders |-> FALSE]
    /\ redemption = [o \in Orders |-> [coupon |-> None, state |-> "none"]]
    /\ redeemed = [c \in Coupons |-> 0]
    /\ commission = [o \in Orders |-> "none"]
    /\ event = [e \in Events |-> "none"]
    /\ stale = [e \in Events |-> FALSE]
    /\ credits = [o \in Orders |-> 0]
    /\ hosted = [s \in Sessions |-> [state |-> "none", order |-> None, amount |-> 0]]
    /\ acked = {}
    /\ pc = [w \in Workers |-> "idle"]
    /\ job = [w \in Workers |-> NoJob]
    /\ sweep = {}

-----------------------------------------------------------------------------
(* Helpers *)

Discounted(price, c) == IF c = None THEN price
                        ELSE IF DiscountOf[c] > price THEN 0 ELSE price - DiscountOf[c]

\* plan_orders.price_cents: the snapshot follows the applied code.
Price(o) == Discounted(BasePrice[o], promo[o])

\* idx_plan_orders_one_pending: another order of o's user is pending.
PendingElsewhere(o) == \E x \in Orders \ {o} : OwnerOf[x] = OwnerOf[o] /\ status[x] = "pending"

Live(state) == state \in {"reserved", "confirmed"}

LiveOf(c) == {o \in Orders : redemption[o].coupon = c /\ Live(redemption[o].state)}

\* promotion_redemptions and redeemed_count after PromotionService.ReleaseTx.
Released(o) == IF redemption[o].state = "reserved"
               THEN [redemption EXCEPT ![o].state = "released"] ELSE redemption

\* Mutant: a second release subtracts again, and nothing stops it at zero.
MutantCountUnguarded(o) == [redeemed EXCEPT ![redemption[o].coupon] = @ - 1]

CountAfterRelease(o) ==
    IF redemption[o].state = "reserved"
    THEN [redeemed EXCEPT ![redemption[o].coupon] = IF @ = 0 THEN 0 ELSE @ - 1]
    ELSE redeemed

Release(o) == redemption' = Released(o) /\ redeemed' = CountAfterRelease(o)

GoTo(w, stage) == pc' = [pc EXCEPT ![w] = stage] /\ UNCHANGED job

Finish(w) == pc' = [pc EXCEPT ![w] = "idle"] /\ job' = [job EXCEPT ![w] = NoJob]

\* After Settle returns without a grant: the operator's grant withdraws the
\* order it made, every other caller is done.
GiveUp(w) == IF job[w].event[1] = "grant" THEN GoTo(w, "withdraw") ELSE Finish(w)

\* The webhook route answers 200 unless Settle returned an error.
Answer(w) == acked' = IF job[w].event[1] = "webhook"
                      THEN acked \cup {job[w].event[2]} ELSE acked

Call(w, e, o, amount) ==
    /\ e[1] \in Channels
    /\ pc[w] = "idle"
    /\ pc' = [pc EXCEPT ![w] = "claim"]
    /\ job' = [job EXCEPT ![w] = [event |-> e, order |-> o, amount |-> amount,
                                  session |-> None]]

-----------------------------------------------------------------------------
(* The user and the operator *)

\* POST /user/orders: the row, guarded by the one-pending index.
Create(o) ==
    /\ status[o] = "none" /\ ~PendingElsewhere(o)
    /\ status' = [status EXCEPT ![o] = "pending"]
    /\ UNCHANGED <<promo, session, due, ledger, books, stripe, sweep>>

PlaceOrder(o) == Create(o) /\ UNCHANGED worker

\* A free plan with no code and no Stripe is settled by the handler itself.
PlaceFreeOrder(o, w) ==
    /\ BasePrice[o] = 0 /\ Sessions = {}
    /\ Create(o)
    /\ Call(w, <<"promotion", o>>, o, 0)

\* The operator grants a plan: an order made and settled in one request.
GrantOrder(o, w) == Create(o) /\ Call(w, <<"grant", o>>, o, BasePrice[o])

\* Mutant: replacing a code forgets to return the slot of the old one.
MutantApplyKeepsSlot(o, c) ==
    /\ status[o] = "pending" /\ redeemed[c] < MaxRedemptions[c]
    /\ redemption' = [redemption EXCEPT ![o] = [coupon |-> c, state |-> "reserved"]]
    /\ redeemed' = [redeemed EXCEPT ![c] = @ + 1]
    /\ promo' = [promo EXCEPT ![o] = c]
    /\ UNCHANGED <<status, session, due, books, stripe, worker, sweep>>

\* PATCH /user/orders/:id/promotion with a coupon: the old reservation is given
\* back, the caps are checked and a slot is taken, all in one transaction.
ApplyCoupon(o, c) ==
    LET freed == Released(o)
        mine  == {x \in Orders : /\ freed[x].coupon = c /\ Live(freed[x].state)
                                 /\ OwnerOf[x] = OwnerOf[o]}
        count == CountAfterRelease(o)
    IN  /\ status[o] = "pending"
        /\ ~Live(freed[o].state)
        /\ Cardinality(mine) < MaxPerUser[c]
        /\ count[c] < MaxRedemptions[c]
        /\ redemption' = [freed EXCEPT ![o] = [coupon |-> c, state |-> "reserved"]]
        /\ redeemed' = [count EXCEPT ![c] = @ + 1]
        /\ promo' = [promo EXCEPT ![o] = c]
        /\ UNCHANGED <<status, session, due, books, stripe, worker, sweep>>

\* An affiliate code has no cap and takes no slot.
ApplyAffiliate(o, p) ==
    /\ status[o] = "pending"
    /\ Release(o)
    /\ promo' = [promo EXCEPT ![o] = p]
    /\ UNCHANGED <<status, session, due, books, stripe, worker, sweep>>

RemovePromotion(o) ==
    /\ status[o] = "pending"
    /\ Release(o)
    /\ promo' = [promo EXCEPT ![o] = None]
    /\ UNCHANGED <<status, session, due, books, stripe, worker, sweep>>

\* POST /user/orders/:id/checkout with Stripe: the order is read, a session is
\* opened for the price that was read unless the order's deadline is too near,
\* and its id is written to the row, whatever became of the order meanwhile.
StartCheckout(o, w) ==
    /\ Sessions # {} /\ status[o] = "pending" /\ pc[w] = "idle"
    /\ pc' = [pc EXCEPT ![w] = "openSession"]
    /\ job' = [job EXCEPT ![w] = [event |-> None, order |-> o, amount |-> Price(o),
                                  session |-> None]]
    /\ UNCHANGED <<rows, ledger, books, stripe, sweep>>

OpenSession(w, s) ==
    LET o == job[w].order IN
    /\ pc[w] = "openSession" /\ ~due[o]
    /\ hosted[s].state = "none"
    /\ hosted' = [hosted EXCEPT ![s] = [state |-> "open", order |-> o,
                                        amount |-> job[w].amount]]
    /\ pc' = [pc EXCEPT ![w] = "saveSession"]
    /\ job' = [job EXCEPT ![w].session = s]
    /\ UNCHANGED <<rows, ledger, books, acked, sweep>>

\* Stripe cannot be reached, or refuses an order about to expire.
CheckoutFails(w) ==
    /\ pc[w] = "openSession"
    /\ Finish(w)
    /\ UNCHANGED <<rows, ledger, books, stripe, sweep>>

SaveSession(w) ==
    /\ pc[w] = "saveSession"
    /\ session' = [session EXCEPT ![job[w].order] = job[w].session]
    /\ Finish(w)
    /\ UNCHANGED <<status, promo, due, ledger, books, stripe, sweep>>

\* The same request naming the admin provider, which has no session.
StartManualCheckout(o) ==
    /\ status[o] = "pending"
    /\ session' = [session EXCEPT ![o] = None]
    /\ UNCHANGED <<status, promo, due, ledger, books, stripe, worker, sweep>>

\* POST .../cancel, by the user or the operator.  The recorded session is
\* expired at Stripe first, where it may have expired already, and a complete
\* one refuses the cancellation.
ExpireHosted(o) ==
    LET s == session[o] IN
    IF s # None /\ hosted[s].state # "expired"
    THEN hosted[s].state = "open" /\ hosted' = [hosted EXCEPT ![s].state = "expired"]
    ELSE UNCHANGED hosted

Cancel(o) ==
    /\ status[o] = "pending"
    /\ ExpireHosted(o)
    /\ status' = [status EXCEPT ![o] = "cancelled"]
    /\ Release(o)
    /\ UNCHANGED <<promo, session, due, books, acked, worker, sweep>>

\* The transaction fails after Stripe closed the session.
CancelFails(o) ==
    /\ "dbError" \in Faults
    /\ status[o] = "pending"
    /\ ExpireHosted(o)
    /\ UNCHANGED <<rows, ledger, books, acked, worker, sweep>>

\* The operator records that a commission was paid out to the partner.
PayCommission(o) ==
    /\ commission[o] = "pending"
    /\ commission' = [commission EXCEPT ![o] = "paid"]
    /\ UNCHANGED <<rows, ledger, event, stale, credits, stripe, worker, sweep>>

-----------------------------------------------------------------------------
(* Confirmations that reach Settle *)

MarkPaid(o, w) ==
    /\ status[o] # "none"
    /\ Call(w, <<"admin", o>>, o, 0)
    /\ UNCHANGED <<rows, ledger, books, stripe, sweep>>

\* Stripe delivers, and delivers again until it is answered with a 2xx.
Webhook(s, w) ==
    /\ hosted[s].state = "complete"
    /\ Call(w, <<"webhook", s>>, hosted[s].order, hosted[s].amount)
    /\ UNCHANGED <<rows, ledger, books, stripe, sweep>>

\* The browser returns from checkout; a paid order is answered at once.
Confirm(s, w) ==
    /\ hosted[s].state = "complete"
    /\ status[hosted[s].order] # "paid" /\ session[hosted[s].order] # None
    /\ Call(w, <<"confirm", s>>, hosted[s].order, hosted[s].amount)
    /\ UNCHANGED <<rows, ledger, books, stripe, sweep>>

-----------------------------------------------------------------------------
(* PaymentService.Settle: one transaction claims the event and the order *)

Reopens(e) == event[e] \in {"none", "failed"} \/ (event[e] = "received" /\ stale[e])

Provider(e) == IF e[1] \in StripeKinds THEN "stripe" ELSE e[1]

AmountMismatch(e, o, amount) ==
    \/ Provider(e) = "promotion" /\ Price(o) # 0
    \/ Provider(e) = "stripe" /\ amount # Price(o)
    \/ amount > 0 /\ amount # Price(o)

\* Mutants: no guard against a second event; a cancelled order is settled; a
\* late payment is refused.
MutantSettleAgain(o)     == status[o] # "cancelled"
MutantSettleCancelled(o) == status[o] # "paid"
MutantSettleInTime(o)    == status[o] = "pending"

Settleable(o) == status[o] \in {"pending", "expired"}

Record(e, outcome) ==
    /\ event' = [event EXCEPT ![e] = outcome]
    /\ stale' = [stale EXCEPT ![e] = FALSE]

ClaimDuplicate(w) ==
    /\ pc[w] = "claim"
    /\ ~Reopens(job[w].event)
    /\ GiveUp(w) /\ Answer(w)
    /\ UNCHANGED <<rows, ledger, books, hosted, sweep>>

ClaimUnsettleable(w) ==
    LET e == job[w].event  o == job[w].order IN
    /\ pc[w] = "claim" /\ Reopens(e)
    /\ ~Settleable(o)
    /\ Record(e, "ignored") /\ GiveUp(w) /\ Answer(w)
    /\ UNCHANGED <<rows, ledger, commission, credits, hosted, sweep>>

\* The order goes (back) to pending; if the index forbids that, the whole
\* transaction is rolled back and Settle returns an error.
ClaimMismatch(w) ==
    LET e == job[w].event  o == job[w].order IN
    /\ pc[w] = "claim" /\ Reopens(e)
    /\ Settleable(o) /\ AmountMismatch(e, o, job[w].amount)
    /\ IF PendingElsewhere(o)
       THEN UNCHANGED <<status, event, stale, acked>>
       ELSE status' = [status EXCEPT ![o] = "pending"] /\ Record(e, "ignored") /\ Answer(w)
    /\ GiveUp(w)
    /\ UNCHANGED <<promo, session, due, ledger, commission, credits, hosted, sweep>>

\* ON CONFLICT DO NOTHING: an existing commission row is kept.
BookCommission(o) ==
    IF promo[o] \in Partners /\ commission[o] = "none"
    THEN [commission EXCEPT ![o] = "pending"] ELSE commission

ClaimOrder(w) ==
    LET e == job[w].event  o == job[w].order IN
    /\ pc[w] = "claim" /\ Reopens(e)
    /\ Settleable(o) /\ ~AmountMismatch(e, o, job[w].amount)
    /\ status' = [status EXCEPT ![o] = "paid"]
    /\ Record(e, "received")
    /\ commission' = BookCommission(o)
    /\ GoTo(w, "grant")
    /\ UNCHANGED <<promo, session, due, ledger, credits, stripe, sweep>>

-----------------------------------------------------------------------------
(* PaymentService.Settle: the grant and what follows it *)

GrantPlan(w) ==
    /\ pc[w] = "grant"
    /\ credits' = [credits EXCEPT ![job[w].order] = @ + 1]
    /\ GoTo(w, "confirm")
    /\ UNCHANGED <<rows, ledger, event, stale, commission, stripe, sweep>>

GrantFails(w) ==
    /\ "grantError" \in Faults
    /\ pc[w] = "grant"
    /\ GoTo(w, "revert")
    /\ UNCHANGED <<rows, ledger, books, stripe, sweep>>

GrantUnacknowledged(w) ==
    /\ "lostAck" \in Faults
    /\ pc[w] = "grant" /\ credits[job[w].order] < MaxLostAcks
    /\ credits' = [credits EXCEPT ![job[w].order] = @ + 1]
    /\ GoTo(w, "revert")
    /\ UNCHANGED <<rows, ledger, event, stale, commission, stripe, sweep>>

ConfirmRedemption(w) ==
    /\ pc[w] = "confirm"
    /\ redemption' = [redemption EXCEPT ![job[w].order].state =
                          IF @ = "reserved" THEN "confirmed" ELSE @]
    /\ GoTo(w, "mark")
    /\ UNCHANGED <<rows, redeemed, books, stripe, sweep>>

MarkGranted(w) ==
    /\ pc[w] = "mark"
    /\ event' = [event EXCEPT ![job[w].event] = "granted"]
    /\ Finish(w) /\ Answer(w)
    /\ UNCHANGED <<rows, ledger, stale, commission, credits, hosted, sweep>>

\* Mutants: the commission is forgotten; the order is.
MutantRevertOrderOnly(w) ==
    /\ pc[w] = "revert"
    /\ status' = [status EXCEPT ![job[w].order] = "pending"]
    /\ GoTo(w, "markFailed")
    /\ UNCHANGED <<promo, session, due, ledger, books, stripe, sweep>>

MutantRevertEventOnly(w) ==
    /\ pc[w] = "revert"
    /\ GoTo(w, "markFailed")
    /\ UNCHANGED <<rows, ledger, books, stripe, sweep>>

\* revertFailedSettle: three statements, each only logged when it fails.
RevertOrder(w) ==
    LET o == job[w].order IN
    /\ pc[w] = "revert"
    /\ status' = IF PendingElsewhere(o) THEN status ELSE [status EXCEPT ![o] = "pending"]
    /\ GoTo(w, "dropCommission")
    /\ UNCHANGED <<promo, session, due, ledger, books, stripe, sweep>>

DropCommission(w) ==
    /\ pc[w] = "dropCommission"
    /\ commission' = [commission EXCEPT ![job[w].order] = IF @ = "pending" THEN "none" ELSE @]
    /\ GoTo(w, "markFailed")
    /\ UNCHANGED <<rows, ledger, event, stale, credits, stripe, sweep>>

\* Mutant: the caller forgets the order it made when Settle fails.
MutantFailAndForget(w) ==
    /\ pc[w] = "markFailed"
    /\ event' = [event EXCEPT ![job[w].event] = "failed"]
    /\ Finish(w)
    /\ UNCHANGED <<rows, ledger, stale, commission, credits, stripe, sweep>>

MarkFailed(w) ==
    /\ pc[w] = "markFailed"
    /\ event' = [event EXCEPT ![job[w].event] = "failed"]
    /\ GiveUp(w)
    /\ UNCHANGED <<rows, ledger, stale, commission, credits, stripe, sweep>>

\* The operator's grant did not settle: its order is not left waiting.
WithdrawGrant(w) ==
    LET o == job[w].order IN
    /\ pc[w] = "withdraw"
    /\ status' = IF status[o] = "pending" THEN [status EXCEPT ![o] = "cancelled"] ELSE status
    /\ Finish(w)
    /\ UNCHANGED <<promo, session, due, ledger, books, stripe, sweep>>

\* One of the statements above fails; the worker logs it and carries on.
NextStage(w) ==
    CASE pc[w] = "confirm"        -> GoTo(w, "mark")
      [] pc[w] = "revert"         -> GoTo(w, "dropCommission")
      [] pc[w] = "dropCommission" -> GoTo(w, "markFailed")
      [] pc[w] = "markFailed"     -> GiveUp(w)
      [] OTHER                           -> Finish(w)

StatementFails(w) ==
    /\ "dbError" \in Faults
    /\ pc[w] \in {"confirm", "mark", "revert", "dropCommission", "markFailed",
                         "withdraw", "saveSession"}
    /\ NextStage(w)
    /\ IF pc[w] = "mark" THEN Answer(w) ELSE UNCHANGED acked
    /\ UNCHANGED <<rows, ledger, books, hosted, sweep>>

Crash(w) ==
    /\ "crash" \in Faults
    /\ pc[w] # "idle"
    /\ Finish(w)
    /\ UNCHANGED <<rows, ledger, books, stripe, sweep>>

-----------------------------------------------------------------------------
(* The expiry sweeper: one statement expires, then a transaction per order *)

\* Mutant: nothing is left to release.
MutantSweepForgets ==
    LET lapsed == {o \in Orders : status[o] = "pending" /\ due[o]} IN
    /\ lapsed # {}
    /\ status' = [o \in Orders |-> IF o \in lapsed THEN "expired" ELSE status[o]]
    /\ UNCHANGED <<promo, session, due, ledger, books, stripe, worker, sweep>>

SweepExpire ==
    LET lapsed == {o \in Orders : status[o] = "pending" /\ due[o]} IN
    /\ sweep = {} /\ lapsed # {}
    /\ status' = [o \in Orders |-> IF o \in lapsed THEN "expired" ELSE status[o]]
    /\ sweep' = lapsed
    /\ UNCHANGED <<promo, session, due, ledger, books, stripe, worker>>

SweepRelease(o) ==
    /\ o \in sweep
    /\ Release(o)
    /\ sweep' = sweep \ {o}
    /\ UNCHANGED <<rows, books, stripe, worker>>

SweepReleaseFails(o) ==
    /\ "dbError" \in Faults
    /\ o \in sweep
    /\ sweep' = sweep \ {o}
    /\ UNCHANGED <<rows, ledger, books, stripe, worker>>

SweepCrash ==
    /\ "crash" \in Faults
    /\ sweep # {}
    /\ sweep' = {}
    /\ UNCHANGED <<rows, ledger, books, stripe, worker>>

-----------------------------------------------------------------------------
(* The outside: the customer on the hosted page, Stripe and the clock *)

\* A hosted session is payable until it is expired or lapses with its order.
Pay(s) ==
    /\ hosted[s].state = "open" /\ ~due[hosted[s].order]
    /\ hosted' = [hosted EXCEPT ![s].state = "complete"]
    /\ UNCHANGED <<rows, ledger, books, acked, worker, sweep>>

Deadline(o) ==
    /\ status[o] # "none" /\ ~due[o]
    /\ due' = [due EXCEPT ![o] = TRUE]
    /\ hosted' = [s \in Sessions |-> IF hosted[s].state = "open" /\ hosted[s].order = o
                                     THEN [hosted[s] EXCEPT !.state = "expired"] ELSE hosted[s]]
    /\ UNCHANGED <<status, promo, session, ledger, books, acked, worker, sweep>>

FiveMinutes(e) ==
    /\ event[e] = "received" /\ ~stale[e]
    /\ stale' = [stale EXCEPT ![e] = TRUE]
    /\ UNCHANGED <<rows, ledger, event, commission, credits, stripe, worker, sweep>>

-----------------------------------------------------------------------------
WorkerStep(w) ==
    \/ SaveSession(w) \/ CheckoutFails(w) \/ \E s \in Sessions : OpenSession(w, s)
    \/ ClaimDuplicate(w) \/ ClaimUnsettleable(w) \/ ClaimMismatch(w) \/ ClaimOrder(w)
    \/ GrantPlan(w) \/ ConfirmRedemption(w) \/ MarkGranted(w)
    \/ RevertOrder(w) \/ DropCommission(w) \/ MarkFailed(w) \/ WithdrawGrant(w)

WorkerFault(w) ==
    GrantFails(w) \/ GrantUnacknowledged(w) \/ StatementFails(w) \/ Crash(w)

Request(o) ==
    \/ PlaceOrder(o) \/ RemovePromotion(o) \/ StartManualCheckout(o)
    \/ Cancel(o) \/ CancelFails(o) \/ PayCommission(o)
    \/ \E c \in Coupons : ApplyCoupon(o, c)
    \/ \E p \in Partners : ApplyAffiliate(o, p)
    \/ \E w \in Workers : PlaceFreeOrder(o, w) \/ GrantOrder(o, w) \/ MarkPaid(o, w)
                         \/ StartCheckout(o, w)

Sweeper == SweepExpire \/ SweepCrash
           \/ \E o \in Orders : SweepRelease(o) \/ SweepReleaseFails(o)

Outside ==
    \/ \E s \in Sessions : Pay(s)
    \/ \E o \in Orders : Deadline(o)
    \/ \E e \in Events : FiveMinutes(e)

Next ==
    \/ \E w \in Workers : WorkerStep(w) \/ WorkerFault(w)
    \/ \E o \in Orders : Request(o)
    \/ \E s \in Sessions, w \in Workers : Webhook(s, w) \/ Confirm(s, w)
    \/ Sweeper
    \/ Outside

Spec == Init /\ [][Next]_vars

\* Handlers and the sweeper keep running; a session Stripe has no 2xx for is
\* delivered again; a grant that is tried over and over succeeds in the end.
Fairness ==
    /\ \A w \in Workers : WF_vars(WorkerStep(w)) /\ SF_vars(GrantPlan(w))
    /\ WF_vars(SweepExpire) /\ \A o \in Orders : WF_vars(SweepRelease(o))
    /\ \A s \in Sessions : SF_vars(s \notin acked /\ \E w \in Workers : Webhook(s, w))

FairSpec == Spec /\ Fairness

-----------------------------------------------------------------------------
(* Properties *)

\* The worker holds the claim of order o and has not granted it yet.
Holds(w, o) == pc[w] \in {"grant", "revert"} /\ job[w].order = o

\* payment.go:19, "Happens at most once per order": however many events, of
\* whichever providers, replayed or reopened after five minutes, name an order,
\* its plan is granted to the user at most once.
AtMostOneGrant == \A o \in Orders : credits[o] <= 1

\* An order whose plan was granted is paid and stays paid: no cancellation, no
\* sweep and no other handler's revert reaches it, although revertFailedSettle
\* writes 'pending' without looking at the row.
GrantedIsPaid == \A o \in Orders : credits[o] > 0 => status[o] = "paid"

\* redeemed_count is the number of reservations that are not released, through
\* replacements, cancellations, sweeps and confirmations in any order.
CountIsLiveReservations == \A c \in Coupons : redeemed[c] = Cardinality(LiveOf(c))

\* A commission that can still be dropped belongs to a paid order, or to one
\* whose failed settlement is about to drop it.
CommissionIsBacked ==
    \A o \in Orders : commission[o] = "pending" =>
        \/ status[o] = "paid"
        \/ \E w \in Workers : pc[w] = "dropCommission" /\ job[w].order = o

\* Paid, not granted, and nobody left who would grant it or give it back.
Stranded(o) == status[o] = "paid" /\ credits[o] = 0 /\ ~\E w \in Workers : Holds(w, o)

\* payment.go:81-84: a grant failure reverts the order so that a retry can
\* still settle it: no order stays paid without its plan.
NoneStranded == \A o \in Orders : ~Stranded(o)

\* schema.go:788-791: a 'reserved' redemption still backs a live order - one
\* that is pending, paid, or expired with its release on the way.
ReservedBacksLiveOrder ==
    \A o \in Orders : redemption[o].state = "reserved" =>
        status[o] \in {"pending", "paid"} \/ o \in sweep

\* payment.go:73-74, "a late confirmation is still honoured": the order of a
\* completed checkout is granted in the end, whenever the sweeper ran, unless it
\* is cancelled or another price was agreed after the checkout was opened.
PaymentIsHonoured ==
    \A s \in Sessions, o \in Orders :
        [](hosted[s].order = o => hosted[s].amount = Price(o)) =>
            (hosted[s].state = "complete" /\ hosted[s].order = o
                ~> credits[o] > 0 \/ status[o] = "cancelled")

\* plan_grant.go:107: a grant of the operator is never left waiting for a payment
\* that will not come: when granting the plan fails, its order does not stay pending.
GrantIsResolved ==
    \A o \in Orders, w \in Workers :
        job[w].event = <<"grant", o>> ~> status[o] # "pending"

\* Once an order was granted no step takes its status, its plan or its
\* discount away.
GrantIsFinal ==
    [][\A o \in Orders : credits[o] > 0 =>
          status'[o] = "paid" /\ credits'[o] = credits[o] /\ promo'[o] = promo[o]]_vars

-----------------------------------------------------------------------------
(* Refinement: the phase of an order in Entitlement *)

Phase(o) ==
    CASE credits[o] > 0          -> "granted"
      [] status[o] = "cancelled" -> "closed"
      [] status[o] = "none"      -> "absent"
      [] OTHER                   -> "open"

phase == [o \in Orders |-> Phase(o)]

E == INSTANCE Entitlement WITH phase <- phase

\* Every step is a step of Entitlement: an order is granted at most once, a
\* cancelled one never, and neither is ever reopened.
ImplementsEntitlement == E!Spec
=============================================================================

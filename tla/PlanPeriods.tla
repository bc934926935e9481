------------------------------ MODULE PlanPeriods ------------------------------
(***************************************************************************)
(* The term of a user's plan and the usage counted against it: grants of   *)
(* plans, the monthly reset on the anniversary of the term's start, the    *)
(* expiry check, reset tickets, and the operator's corrections             *)
(* (services/plan.go, services/reset_ticket.go,                            *)
(* scheduler/traffic_reset.go, scheduler/expiry_check.go,                  *)
(* handlers/admin_user.go).                                                *)
(*                                                                         *)
(* All of them write one row of users, in a transaction or a statement     *)
(* whose NOW() is the time at which it began, while it may have to wait    *)
(* for the row's lock. So each has two steps: Begin takes the time, and    *)
(* what a bulk UPDATE reads before it meets the lock; the other step has   *)
(* the lock, sees the row as it is then, and commits.                      *)
(***************************************************************************)
EXTENDS Naturals, Sequences

CONSTANTS
    Plans, Capped,    \* plans, and those with a traffic_limit
    Tickets,          \* ids of reset_tickets
    Usage,            \* units of traffic that are charged, each once
    Requests, Resets, Expiries,
                      \* transactions under way: of request handlers, of the
                      \* reset schedulers, of the expiry schedulers
    FirstDay,         \* first day of each month, and the day after the last one
    Duration,         \* days a plan is granted for
    Validity,         \* days a ticket is valid
    Terms,            \* from when to when an operator may set the term by hand
    MaxOps,           \* bound: grants of plans and corrections by the operator
    None              \* SQL NULL

Months == 1..(Len(FirstDay) - 1)
LastDay == FirstDay[Len(FirstDay)] - 1
Days   == 1..LastDay

ASSUME PeriodsAssumption ==
    /\ Capped \subseteq Plans
    /\ FirstDay \in Seq(Nat \ {0}) /\ Len(FirstDay) > 1 /\ FirstDay[1] = 1
    /\ \A m, n \in DOMAIN FirstDay : m < n => FirstDay[m] < FirstDay[n]
    /\ \A d \in Days : \E m \in Months : FirstDay[m] <= d /\ d < FirstDay[m + 1]
    /\ Terms \subseteq Days \X Days
    /\ Duration \in Nat /\ Validity \in Nat /\ MaxOps \in Nat
    /\ None \notin Nat \cup Plans \cup Tickets
    /\ Requests \cap Resets = {} /\ Requests \cap Expiries = {} /\ Resets \cap Expiries = {}

VARIABLES
    plan, started, expires, used, resetAt, status, active,
                      \* the user's row: plan_id, plan_started_at, plan_expires_at,
                      \* traffic_used, traffic_reset_at, status, is_active
    ticket,           \* state and expires_at of a row of reset_tickets, and reset_bytes
    now,
    tx,               \* what each transaction does, since when, and what it read
    ops,
    charged, cleared, \* history: units charged; units cleared without a ticket
    served            \* history: the period the scheduler reset last, and how often
                      \* since a new term, or a reset by hand older than it

row     == <<plan, started, expires, used, resetAt, status, active>>
history == <<charged, cleared, served>>
vars    == <<row, ticket, now, tx, ops, history>>

Workers == Requests \cup Resets \cup Expiries
Held    == [state : {"held"}, until : Nat, bytes : {{}}]
Spent   == [state : {"spent"}, until : Nat, bytes : SUBSET Usage]
NoTicket == [state |-> "none", until |-> 1, bytes |-> {}]
Tx      == [op : {"none", "grant", "redeem", "clear", "reset", "expire"}, stamp : Days,
            on : Plans \cup Tickets \cup {None}, due : Nat]
Unserved == [period |-> 0, times |-> 0]
NoTx    == [op |-> "none", stamp |-> 1, on |-> None, due |-> 0]

TypeOK ==
    /\ plan \in Plans \cup {None}
    /\ started \in Days \cup {None} /\ expires \in Nat \cup {None}
    /\ used \subseteq Usage
    /\ resetAt \in Days \cup {None}
    /\ status \in {"active", "expired", "suspended"} /\ active \in BOOLEAN
    /\ ticket \in [Tickets -> Held \cup Spent \cup {NoTicket}]
    /\ now \in Days
    /\ tx \in [Workers -> Tx]
    /\ ops \in 0..MaxOps
    /\ charged \subseteq Usage /\ cleared \subseteq Usage
    /\ served \in [period : 0..LastDay, times : 0..2]

\* AdminUserHandler.Create may set plan_id and leaves the term to a later grant.
Init ==
    /\ plan \in Plans \cup {None} /\ started = None /\ expires = None
    /\ used = {} /\ resetAt = None
    /\ status = "active" /\ active = TRUE
    /\ ticket = [t \in Tickets |-> NoTicket]
    /\ now = 1
    /\ tx = [w \in Workers |-> NoTx]
    /\ ops = 0
    /\ charged = {} /\ cleared = {}
    /\ served = Unserved

-----------------------------------------------------------------------------
(* The calendar *)

MonthOf(d) == CHOOSE m \in Months : FirstDay[m] <= d /\ d < FirstDay[m + 1]

\* d + make_interval(months => k): the same day, or the last one of a shorter month.
AddMonths(d, k) ==
    LET m == MonthOf(d) + k  day == FirstDay[m] + (d - FirstDay[MonthOf(d)]) IN
    IF day < FirstDay[m + 1] THEN day ELSE FirstDay[m + 1] - 1

\* Mutant of PeriodStart: a day that the month has not is carried into the next.
MutantPeriodStartOverflows(start, t) ==
    LET elapsed == MonthOf(t) - MonthOf(start)
        Same(k) == FirstDay[MonthOf(start) + k] + (start - FirstDay[MonthOf(start)]) IN
    IF Same(elapsed) <= t THEN Same(elapsed) ELSE Same(elapsed - 1)

\* period_start of the reset's query.
PeriodStart(start, t) ==
    LET elapsed == MonthOf(t) - MonthOf(start) IN
    IF AddMonths(start, elapsed) <= t THEN AddMonths(start, elapsed) ELSE AddMonths(start, elapsed - 1)

-----------------------------------------------------------------------------
(* Transactions *)

Begin(w, op, on, due) ==
    /\ tx[w].op = "none"
    /\ tx' = [tx EXCEPT ![w] = [op |-> op, stamp |-> now, on |-> on, due |-> due]]
    /\ UNCHANGED <<row, ticket, now, history>>

Ends(w) == tx' = [tx EXCEPT ![w] = NoTx] /\ UNCHANGED <<now, ops>>

Operator == ops < MaxOps /\ ops' = ops + 1

BeginGrant(w, p)  == Operator /\ Begin(w, "grant", p, 0)
BeginClear(w)     == Operator /\ Begin(w, "clear", None, 0)
BeginRedeem(w, t) == ticket[t].state # "none" /\ Begin(w, "redeem", t, 0) /\ UNCHANGED ops

\* A reset by hand; the period may have begun, and been reset, while it waited.
ByHand(stamp) ==
    /\ used' = {} /\ resetAt' = stamp
    /\ served' = IF stamp < served.period THEN Unserved ELSE served

\* grantPlanTx: a renewal keeps usage and anchor, anything else starts a new term.
GrantPlan(w) ==
    LET stamp == tx[w].stamp
        renewal == plan = tx[w].on /\ expires # None /\ expires > stamp IN
    /\ tx[w].op = "grant"
    /\ plan' = tx[w].on
    /\ expires' = Duration + IF expires # None /\ expires > stamp THEN expires ELSE stamp
    /\ started' = IF renewal THEN started ELSE stamp
    /\ resetAt' = IF renewal THEN resetAt ELSE stamp
    /\ used' = IF renewal THEN used ELSE {}
    /\ cleared' = IF renewal THEN cleared ELSE cleared \cup used
    /\ served' = IF renewal THEN served ELSE Unserved
    /\ status' = "active" /\ active' = TRUE
    /\ Ends(w)
    /\ UNCHANGED <<ticket, charged>>

\* AdminUserHandler.ResetTraffic.
ResetTraffic(w) ==
    /\ tx[w].op = "clear"
    /\ ByHand(tx[w].stamp)
    /\ cleared' = cleared \cup used
    /\ Ends(w)
    /\ UNCHANGED <<plan, started, expires, status, active, ticket, charged>>

\* What Redeem asks of the ticket and of the plan; the ticket's expiry against
\* the clock, the plan's against NOW().
Redeemable(w, t) ==
    /\ ticket[t].state = "held" /\ now < ticket[t].until
    /\ plan \in Capped /\ expires # None /\ expires > tx[w].stamp

\* Mutant of Redeem: the row of the ticket is written without a look at its state.
MutantRedeemUnlocked(w) ==
    LET t == tx[w].on IN
    /\ tx[w].op = "redeem" /\ ticket[t].state # "none"
    /\ ticket' = [ticket EXCEPT ![t].state = "spent", ![t].bytes = used]
    /\ ByHand(tx[w].stamp)
    /\ Ends(w)
    /\ UNCHANGED <<plan, started, expires, status, active, charged, cleared>>

\* ResetTicketService.Redeem, with the user's row locked.
Redeem(w) ==
    LET t == tx[w].on IN
    /\ tx[w].op = "redeem" /\ Redeemable(w, t)
    /\ ticket' = [ticket EXCEPT ![t].state = "spent", ![t].bytes = used]
    /\ ByHand(tx[w].stamp)
    /\ Ends(w)
    /\ UNCHANGED <<plan, started, expires, status, active, charged, cleared>>

RedeemRefused(w) ==
    /\ tx[w].op = "redeem" /\ ~Redeemable(w, tx[w].on)
    /\ Ends(w)
    /\ UNCHANGED <<row, ticket, history>>

-----------------------------------------------------------------------------
(* The schedulers *)

\* COALESCE(traffic_reset_at, plan_started_at)
LastReset == IF resetAt = None THEN started ELSE resetAt

\* The subquery of the reset: a running term.
Running ==
    /\ active /\ plan # None /\ started # None /\ expires # None
    /\ started <= now /\ now < expires

\* The statement's snapshot has the row, and the period it is in.
BeginReset(w) ==
    /\ Running /\ LastReset < PeriodStart(started, now)
    /\ Begin(w, "reset", None, PeriodStart(started, now)) /\ UNCHANGED ops

\* Mutant of Reset: the row is not looked at again.
MutantResetBlind(w) ==
    /\ tx[w].op = "reset" /\ started # None
    /\ used' = {} /\ resetAt' = tx[w].stamp
    /\ status' = IF status = "suspended" THEN "active" ELSE status
    /\ cleared' = cleared \cup used
    /\ served' = [period |-> tx[w].due,
                  times |-> IF served.period = tx[w].due THEN 2 ELSE 1]
    /\ Ends(w)
    /\ UNCHANGED <<plan, started, expires, active, ticket, charged>>

\* TrafficResetScheduler.run. With the lock, the statement evaluates its last
\* condition on the row as it is now, and on the period it read before.
Reset(w) ==
    /\ tx[w].op = "reset" /\ started # None /\ LastReset < tx[w].due
    /\ used' = {} /\ resetAt' = tx[w].stamp
    /\ status' = IF status = "suspended" THEN "active" ELSE status
    /\ cleared' = cleared \cup used
    /\ served' = [period |-> tx[w].due,
                  times |-> IF served.period = tx[w].due THEN 2 ELSE 1]
    /\ Ends(w)
    /\ UNCHANGED <<plan, started, expires, active, ticket, charged>>

ResetSkips(w) ==
    /\ tx[w].op = "reset" /\ ~(started # None /\ LastReset < tx[w].due)
    /\ Ends(w)
    /\ UNCHANGED <<row, ticket, history>>

\* ExpiryCheckScheduler.run: the conditions of its UPDATE, at the time NOW().
Expired(stamp) == expires # None /\ expires < stamp /\ status = "active" /\ active

BeginExpire(w) == Expired(now) /\ Begin(w, "expire", None, 0) /\ UNCHANGED ops

Expire(w) ==
    /\ tx[w].op = "expire" /\ Expired(tx[w].stamp)
    /\ status' = "expired" /\ active' = FALSE
    /\ Ends(w)
    /\ UNCHANGED <<plan, started, expires, used, resetAt, ticket, history>>

ExpireSkips(w) ==
    /\ tx[w].op = "expire" /\ ~Expired(tx[w].stamp)
    /\ Ends(w)
    /\ UNCHANGED <<row, ticket, history>>

-----------------------------------------------------------------------------
(* Everything that needs no time of its own *)

\* accountStats adds to whatever the row says.
Charge(c) ==
    /\ c \in Usage \ charged
    /\ charged' = charged \cup {c} /\ used' = used \cup {c}
    /\ UNCHANGED <<plan, started, expires, resetAt, status, active, ticket, now, tx, ops,
                   cleared, served>>

\* ResetTicketService.Grant, to the user, to the plan's users, or to all.
GrantTicket(t) ==
    /\ ticket[t] = NoTicket /\ active
    /\ ticket' = [ticket EXCEPT ![t] = [state |-> "held", until |-> now + Validity, bytes |-> {}]]
    /\ UNCHANGED <<row, now, tx, ops, history>>

\* ResetTicketService.Revoke deletes a ticket that is not spent.
Revoke(t) ==
    /\ Operator /\ ticket[t].state = "held"
    /\ ticket' = [ticket EXCEPT ![t] = NoTicket]
    /\ UNCHANGED <<row, now, tx, history>>

\* AdminUserHandler.Update and Delete: the status and is_active of the row.
SetState(s, a) ==
    /\ Operator /\ status' = s /\ active' = a
    /\ UNCHANGED <<plan, started, expires, used, resetAt, ticket, now, tx, history>>

\* AdminUserHandler.Update with dates of the term.
SetTerm(from, to) ==
    /\ Operator /\ plan # None
    /\ started' = from /\ expires' = to
    /\ served' = Unserved
    /\ UNCHANGED <<plan, used, resetAt, status, active, ticket, now, tx, charged, cleared>>

Tick ==
    /\ now < LastDay /\ now' = now + 1
    /\ UNCHANGED <<row, ticket, tx, ops, history>>

-----------------------------------------------------------------------------
Request(w) ==
    \/ \E p \in Plans : BeginGrant(w, p)
    \/ \E t \in Tickets : BeginRedeem(w, t)
    \/ BeginClear(w)

Finish(w) ==
    \/ GrantPlan(w) \/ ResetTraffic(w) \/ Redeem(w) \/ RedeemRefused(w)
    \/ Reset(w) \/ ResetSkips(w) \/ Expire(w) \/ ExpireSkips(w)

Next ==
    \/ \E w \in Requests : Request(w)
    \/ \E w \in Resets : BeginReset(w)
    \/ \E w \in Expiries : BeginExpire(w)
    \/ \E w \in Workers : Finish(w)
    \/ \E c \in Usage : Charge(c)
    \/ \E t \in Tickets : GrantTicket(t) \/ Revoke(t)
    \/ \E s \in {"active", "suspended"}, a \in BOOLEAN : SetState(s, a)
    \/ \E term \in Terms : SetTerm(term[1], term[2])
    \/ Tick

Spec == Init /\ [][Next]_vars

\* The schedulers' tickers fire and a lock is given in the end. Nothing is
\* assumed of the clock: a day may be as long as it takes.
FairSpec ==
    /\ Spec
    /\ \A w \in Resets : WF_vars(BeginReset(w))
    /\ \A w \in Workers : WF_vars(Finish(w))

-----------------------------------------------------------------------------
(* What the user can rely on *)

\* Of everything that was charged each unit still counts, or was taken off once:
\* by the ticket that says so, or by a reset.
UsageIsResetOnce ==
    LET OnTickets == UNION {ticket[t].bytes : t \in Tickets} IN
    /\ charged = used \cup cleared \cup OnTickets
    /\ used \cap cleared = {} /\ (used \cup cleared) \cap OnTickets = {}
    /\ \A t, u \in Tickets : t # u => ticket[t].bytes \cap ticket[u].bytes = {}

\* The scheduler resets a period once, however many servers it runs on, unless a
\* reset by hand that began before the period commits after that.
OnceAPeriod == served.times <= 1

\* The last anniversary of the term's start: its day, or the last of a shorter month.
DayOf(d) == d - FirstDay[MonthOf(d)]
Anniversary(s, d) ==
    \/ DayOf(d) = DayOf(s)
    \/ DayOf(d) < DayOf(s) /\ d + 1 = FirstDay[MonthOf(d) + 1]
Due(s, t) == CHOOSE a \in s..t : Anniversary(s, a) /\ \A b \in (a + 1)..t : ~Anniversary(s, b)

\* Every period of a running term is reset, in short months too, and whatever
\* grants, expiries and tickets are under way.
EveryPeriodIsReset == []<>(Running => LastReset >= Due(started, now))

=============================================================================

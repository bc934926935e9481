------------------------- MODULE PlanPeriodsProofs -------------------------
(* Proofs about PlanPeriods, for any plans, tickets, transactions and calendar. *)
EXTENDS PlanPeriods, Integers, TLAPS

USE DEF row, history

\* A grant is of a plan, a redemption of a ticket, and a statement of the reset
\* works on a period that has begun when it starts.
TxFits ==
    \A w \in Workers :
        /\ tx[w].op = "grant" => tx[w].on \in Plans
        /\ tx[w].op = "redeem" => tx[w].on \in Tickets
        /\ tx[w].op = "reset" => tx[w].due <= tx[w].stamp

\* Whatever the scheduler reset last, the row still shows.
ResetIsShown ==
    \/ served = Unserved
    \/ started # None /\ served.period \in Nat \ {0} /\ served.times = 1 /\ LastReset >= served.period

IInv == TypeOK /\ UsageIsResetOnce /\ TxFits /\ ResetIsShown

-----------------------------------------------------------------------------
(* The calendar *)

\* A day is in the month that MonthOf picks.
LEMMA DayIsInMonth ==
    ASSUME NEW d \in Days
    PROVE  MonthOf(d) \in Months /\ FirstDay[MonthOf(d)] <= d /\ d < FirstDay[MonthOf(d) + 1]
BY PeriodsAssumption DEF MonthOf

\* First days are days.
LEMMA FirstDays == /\ LastDay \in Nat /\ Len(FirstDay) \in Nat
                   /\ \A m \in 1..Len(FirstDay) : FirstDay[m] \in Nat \ {0}
                   /\ Months = 1..(Len(FirstDay) - 1)
                   /\ \A m, n \in 1..Len(FirstDay) : m < n => FirstDay[m] < FirstDay[n]
BY PeriodsAssumption DEF Months, LastDay

\* AddMonths ends in the month it is asked for.
LEMMA AddedMonths ==
    ASSUME NEW d \in Days, NEW k \in Int, MonthOf(d) + k \in Months
    PROVE  AddMonths(d, k) \in Nat /\ AddMonths(d, k) < FirstDay[MonthOf(d) + k + 1]
<1> DEFINE m == MonthOf(d) + k  day == FirstDay[m] + (d - FirstDay[MonthOf(d)])
<1>1. m \in 1..Len(FirstDay) /\ m + 1 \in 1..Len(FirstDay)
  BY FirstDays
<1>2. FirstDay[m] \in Nat \ {0} /\ FirstDay[m + 1] \in Nat \ {0}
  BY <1>1, FirstDays
<1>3. d - FirstDay[MonthOf(d)] \in Nat
  BY DayIsInMonth, FirstDays DEF Days
<1>4. AddMonths(d, k) = IF day < FirstDay[m + 1] THEN day ELSE FirstDay[m + 1] - 1
  BY DEF AddMonths
<1> QED  BY <1>2, <1>3, <1>4

\* The period of a term that has begun has begun.
LEMMA PeriodStarts ==
    ASSUME NEW s \in Days, NEW t \in Days, s <= t
    PROVE  PeriodStart(s, t) \in Nat /\ PeriodStart(s, t) <= t
<1> DEFINE a == MonthOf(s)  b == MonthOf(t)
<1>1. /\ a \in Months /\ FirstDay[a] <= s /\ s < FirstDay[a + 1]
      /\ b \in Months /\ FirstDay[b] <= t /\ t < FirstDay[b + 1]
  BY DayIsInMonth
<1>2. a \in 1..Len(FirstDay) /\ b \in 1..Len(FirstDay) /\ b + 1 \in 1..Len(FirstDay)
  BY <1>1, FirstDays
<1>3. a <= b
  <2> SUFFICES ASSUME b < a PROVE FALSE
    BY <1>2
  <2>1. FirstDay[b + 1] <= FirstDay[a]
    <3>1. CASE b + 1 = a
      BY <3>1, <1>2, FirstDays
    <3>2. CASE b + 1 < a
      BY <3>2, <1>2, FirstDays
    <3> QED  BY <1>2, <3>1, <3>2
  <2> QED  BY <2>1, <1>1, <1>2, FirstDays DEF Days
<1> DEFINE k == b - a
<1>4. AddMonths(s, k) \in Nat
  BY <1>1, <1>2, AddedMonths
<1>5. CASE AddMonths(s, k) <= t
  BY <1>4, <1>5 DEF PeriodStart
<1>6. CASE ~(AddMonths(s, k) <= t)
  <2>1. PeriodStart(s, t) = AddMonths(s, k - 1)
    BY <1>6 DEF PeriodStart
  <2>2. a < b
    <3> SUFFICES ASSUME a = b PROVE FALSE
      BY <1>2, <1>3
    <3>1. FirstDay[a] \in Nat /\ s \in Nat
      BY <1>2, FirstDays DEF Days
    <3>2. a + k = a
      BY <1>2
    <3>3. AddMonths(s, k) = s
      BY <1>1, <3>1, <3>2 DEF AddMonths
    <3> QED  BY <3>3, <1>6
  <2>3. k - 1 \in Int /\ a + (k - 1) \in Months /\ a + (k - 1) + 1 = b
    BY <2>2, <1>1, <1>2, FirstDays
  <2>4. AddMonths(s, k - 1) \in Nat /\ AddMonths(s, k - 1) < FirstDay[b]
    BY <2>3, AddedMonths
  <2> QED  BY <2>1, <2>4, <1>1, <1>2, FirstDays DEF Days
<1> QED  BY <1>5, <1>6

-----------------------------------------------------------------------------
(* One transaction at a time *)

\* What is written when a transaction ends leaves the others alone.
LEMMA EndedOthers ==
    ASSUME TypeOK, TxFits, NEW w \in Workers, Ends(w)
    PROVE  tx' \in [Workers -> Tx] /\ now' \in Days /\ ops' \in 0..MaxOps /\ TxFits'
<1>1. NoTx \in Tx
  BY FirstDays, PeriodsAssumption DEF NoTx, Tx, Days, TypeOK
<1>2. tx' \in [Workers -> Tx] /\ now' = now /\ ops' = ops
  BY <1>1 DEF Ends, TypeOK
<1>3. TxFits'
  BY DEF Ends, TxFits, TypeOK, NoTx
<1> QED  BY <1>2, <1>3 DEF TypeOK

\* A transaction that begins has the time, and a reset a period that has begun.
LEMMA Begun ==
    ASSUME IInv, NEW w \in Workers, NEW op \in {"grant", "redeem", "clear", "reset", "expire"},
           NEW on \in Plans \cup Tickets \cup {None}, NEW due \in Nat,
           op = "grant" => on \in Plans, op = "redeem" => on \in Tickets, op = "reset" => due <= now,
           ops' \in 0..MaxOps, Begin(w, op, on, due)
    PROVE  IInv'
<1>1. TypeOK'
  BY DEF IInv, TypeOK, Begin, Tx
<1>2. UsageIsResetOnce' /\ ResetIsShown'
  BY DEF IInv, Begin, UsageIsResetOnce, ResetIsShown, LastReset
<1>3. TxFits'
  BY DEF IInv, TypeOK, Begin, TxFits
<1> QED  BY <1>1, <1>2, <1>3 DEF IInv

LEMMA BeginKeeps ==
    ASSUME IInv, NEW w \in Workers,
           \/ Request(w) \/ BeginReset(w) \/ BeginExpire(w)
    PROVE  IInv'
<1>0. ops \in 0..MaxOps /\ MaxOps \in Nat /\ None \notin Nat
  BY PeriodsAssumption DEF IInv, TypeOK
<1>1. CASE \E p \in Plans : BeginGrant(w, p)
  BY <1>0, <1>1, Begun DEF BeginGrant, Operator
<1>2. CASE \E t \in Tickets : BeginRedeem(w, t)
  BY <1>0, <1>2, Begun DEF BeginRedeem
<1>3. CASE BeginClear(w)
  BY <1>0, <1>3, Begun DEF BeginClear, Operator
<1>4. CASE BeginReset(w)
  <2>1. started \in Days /\ now \in Days /\ started <= now
    BY <1>4 DEF BeginReset, Running, IInv, TypeOK
  <2>2. PeriodStart(started, now) \in Nat /\ PeriodStart(started, now) <= now
    BY <2>1, PeriodStarts
  <2> QED  BY <1>0, <1>4, <2>2, Begun DEF BeginReset
<1>5. CASE BeginExpire(w)
  BY <1>0, <1>5, Begun DEF BeginExpire
<1> QED  BY <1>1, <1>2, <1>3, <1>4, <1>5 DEF Request

LEMMA GrantKeeps ==
    ASSUME IInv, NEW w \in Workers, GrantPlan(w)
    PROVE  IInv'
<1> DEFINE stamp == tx[w].stamp
           renewal == plan = tx[w].on /\ expires # None /\ expires > stamp
<1>0. stamp \in Days /\ None \notin Nat /\ Duration \in Nat /\ tx[w].on \in Plans
  BY PeriodsAssumption DEF IInv, TypeOK, Tx, TxFits, GrantPlan
<1>1. tx' \in [Workers -> Tx] /\ now' \in Days /\ ops' \in 0..MaxOps /\ TxFits'
  BY EndedOthers DEF IInv, GrantPlan
<1>2. expires' \in Nat
  BY <1>0 DEF GrantPlan, IInv, TypeOK, Days
<1>3. /\ plan' \in Plans /\ started' \in Days \cup {None} /\ resetAt' \in Days \cup {None}
      /\ used' \subseteq Usage /\ cleared' \subseteq Usage
      /\ served' = served \/ served' = Unserved
      /\ status' = "active" /\ active' = TRUE /\ ticket' = ticket /\ charged' = charged
  BY <1>0 DEF GrantPlan, IInv, TypeOK
<1>4. Unserved \in [period : 0..LastDay, times : 0..2]
  BY FirstDays DEF Unserved
<1>5. TypeOK'
  BY <1>1, <1>2, <1>3, <1>4 DEF IInv, TypeOK
<1>6. UsageIsResetOnce'
  BY <1>3 DEF GrantPlan, IInv, UsageIsResetOnce
<1>7. ResetIsShown'
  <2>1. CASE renewal
    <3>1. started' = started /\ resetAt' = resetAt /\ served' = served
      BY <2>1 DEF GrantPlan
    <3> QED  BY <3>1 DEF IInv, ResetIsShown, LastReset
  <2>2. CASE ~renewal
    <3>1. served' = Unserved
      BY <2>2 DEF GrantPlan
    <3> QED  BY <3>1 DEF ResetIsShown
  <2> QED  BY <2>1, <2>2
<1> QED  BY <1>1, <1>5, <1>6, <1>7 DEF IInv

\* A reset by hand shows whatever the scheduler reset, unless it is older.
LEMMA ByHandShows ==
    ASSUME IInv, NEW w \in Workers, ByHand(tx[w].stamp), started' = started
    PROVE  /\ ResetIsShown'
           /\ resetAt' \in Days /\ served' \in [period : 0..LastDay, times : 0..2]
<1>1. tx[w].stamp \in Days /\ tx[w].stamp \in Nat /\ None \notin Nat
  BY PeriodsAssumption DEF IInv, TypeOK, Tx, Days
<1>2. CASE tx[w].stamp < served.period
  <2>1. served' = Unserved /\ resetAt' = tx[w].stamp
    BY <1>2 DEF ByHand
  <2>2. Unserved \in [period : 0..LastDay, times : 0..2]
    BY FirstDays DEF Unserved
  <2> QED  BY <1>1, <2>1, <2>2 DEF ResetIsShown
<1>3. CASE ~(tx[w].stamp < served.period)
  <2>1. served' = served /\ resetAt' = tx[w].stamp
    BY <1>3 DEF ByHand
  <2>2. resetAt' # None
    BY <1>1, <2>1
  <2>3. ResetIsShown'
    BY <1>1, <1>3, <2>1, <2>2 DEF IInv, ResetIsShown, LastReset
  <2> QED  BY <1>1, <2>1, <2>3 DEF IInv, TypeOK
<1> QED  BY <1>2, <1>3

LEMMA ClearKeeps ==
    ASSUME IInv, NEW w \in Workers, ResetTraffic(w)
    PROVE  IInv'
<1>1. tx' \in [Workers -> Tx] /\ now' \in Days /\ ops' \in 0..MaxOps /\ TxFits'
  BY EndedOthers DEF IInv, ResetTraffic
<1>2. ResetIsShown' /\ resetAt' \in Days /\ served' \in [period : 0..LastDay, times : 0..2]
  BY ByHandShows DEF ResetTraffic
<1>3. TypeOK'
  BY <1>1, <1>2 DEF ResetTraffic, ByHand, IInv, TypeOK
<1>4. UsageIsResetOnce'
  BY DEF ResetTraffic, ByHand, IInv, UsageIsResetOnce
<1> QED  BY <1>1, <1>2, <1>3, <1>4 DEF IInv

LEMMA RedeemKeeps ==
    ASSUME IInv, NEW w \in Workers, Redeem(w)
    PROVE  IInv'
<1> DEFINE t == tx[w].on
<1>0. t \in Tickets /\ ticket[t] \in Held
  BY DEF Redeem, Redeemable, IInv, TypeOK, TxFits, Held, Spent, NoTicket
<1>1. tx' \in [Workers -> Tx] /\ now' \in Days /\ ops' \in 0..MaxOps /\ TxFits'
  BY EndedOthers DEF IInv, Redeem
<1>2. ResetIsShown' /\ resetAt' \in Days /\ served' \in [period : 0..LastDay, times : 0..2]
  BY ByHandShows DEF Redeem
<1> DEFINE spent == [state |-> "spent", until |-> ticket[t].until, bytes |-> used]
<1>3. used' = {} /\ charged' = charged /\ cleared' = cleared
  BY DEF Redeem, ByHand
<1>4. /\ ticket' \in [Tickets -> Held \cup Spent \cup {NoTicket}]
      /\ \A u \in Tickets : ticket'[u] = IF u = t THEN spent ELSE ticket[u]
  <2>1. spent \in Spent
    BY <1>0 DEF Held, Spent, IInv, TypeOK
  <2>2. ticket' = [ticket EXCEPT ![t].state = "spent", ![t].bytes = used]
    BY DEF Redeem
  <2>3. ticket \in [Tickets -> Held \cup Spent \cup {NoTicket}]
    BY DEF IInv, TypeOK
  <2>4. ticket'[t] = spent
    BY <1>0, <2>2, <2>3 DEF Held
  <2>5. DOMAIN ticket' = Tickets /\ \A u \in Tickets : u # t => ticket'[u] = ticket[u]
    BY <1>0, <2>2, <2>3
  <2>6. ticket' = [u \in Tickets |-> ticket'[u]]
    BY <2>2, <2>3
  <2> HIDE DEF spent
  <2> QED  BY <1>0, <2>1, <2>3, <2>4, <2>5, <2>6
<1>5. TypeOK'
  BY <1>1, <1>2, <1>3, <1>4 DEF Redeem, IInv, TypeOK
<1>6. UsageIsResetOnce'
  <2>1. ticket[t].bytes = {}
    BY <1>0 DEF Held
  <2>2. \A u \in Tickets : ticket'[u].bytes = IF u = t THEN used ELSE ticket[u].bytes
    BY <1>4
  <2>3. UNION {ticket'[u].bytes : u \in Tickets} = used \cup UNION {ticket[u].bytes : u \in Tickets}
    BY <1>0, <2>1, <2>2
  <2>4. \A u \in Tickets : ticket[u].bytes \cap used = {}
    BY DEF IInv, UsageIsResetOnce
  <2> QED  BY <1>0, <1>3, <2>1, <2>2, <2>3, <2>4 DEF IInv, UsageIsResetOnce
<1> QED  BY <1>1, <1>2, <1>5, <1>6 DEF IInv

LEMMA ResetKeeps ==
    ASSUME IInv, NEW w \in Workers, Reset(w)
    PROVE  IInv'
<1>0. /\ tx[w].stamp \in Days /\ tx[w].stamp \in Nat /\ tx[w].due \in Nat /\ tx[w].due <= tx[w].stamp
      /\ None \notin Nat /\ LastReset \in Nat /\ LastReset < tx[w].due /\ tx[w].due \in 0..LastDay
  <2>1. tx[w] \in Tx /\ tx[w].op = "reset" /\ started # None /\ LastReset < tx[w].due
    BY DEF Reset, IInv, TypeOK
  <2>2. /\ tx[w].stamp \in Days /\ tx[w].stamp \in Nat /\ tx[w].due \in Nat
        /\ tx[w].due <= tx[w].stamp
    BY <2>1 DEF Tx, Days, IInv, TxFits
  <2>3. LastReset \in Nat
    BY <2>1 DEF LastReset, IInv, TypeOK, Days
  <2>4. tx[w].due \in 0..LastDay
    BY <2>2, FirstDays DEF Days
  <2> QED  BY <2>1, <2>2, <2>3, <2>4, PeriodsAssumption
<1>1. tx' \in [Workers -> Tx] /\ now' \in Days /\ ops' \in 0..MaxOps /\ TxFits'
  BY EndedOthers DEF IInv, Reset
<1>2. served' = [period |-> tx[w].due, times |-> 1]
  <2>1. served.period # tx[w].due
    BY <1>0 DEF IInv, ResetIsShown, Unserved
  <2> QED  BY <2>1 DEF Reset
<1>3. TypeOK'
  BY <1>0, <1>1, <1>2 DEF Reset, IInv, TypeOK
<1>4. UsageIsResetOnce'
  BY DEF Reset, IInv, UsageIsResetOnce
<1>5. ResetIsShown'
  <2>1. resetAt' = tx[w].stamp /\ resetAt' # None /\ started' # None
    BY <1>0 DEF Reset
  <2> QED  BY <1>0, <1>2, <2>1 DEF ResetIsShown, LastReset
<1> QED  BY <1>1, <1>3, <1>4, <1>5 DEF IInv

\* Transactions that end without a write, and the expiry.
LEMMA OthersKeep ==
    ASSUME IInv, NEW w \in Workers,
           RedeemRefused(w) \/ ResetSkips(w) \/ Expire(w) \/ ExpireSkips(w)
    PROVE  IInv'
<1>1. tx' \in [Workers -> Tx] /\ now' \in Days /\ ops' \in 0..MaxOps /\ TxFits'
  BY EndedOthers DEF IInv, RedeemRefused, ResetSkips, Expire, ExpireSkips
<1>2. /\ UNCHANGED <<plan, started, expires, used, resetAt, ticket, history>>
      /\ status' \in {"active", "expired", "suspended"} /\ active' \in BOOLEAN
  BY DEF RedeemRefused, ResetSkips, Expire, ExpireSkips, IInv, TypeOK
<1>3. TypeOK'
  BY <1>1, <1>2 DEF IInv, TypeOK
<1>4. UsageIsResetOnce' /\ ResetIsShown'
  BY <1>2 DEF IInv, UsageIsResetOnce, ResetIsShown, LastReset
<1> QED  BY <1>1, <1>3, <1>4 DEF IInv

-----------------------------------------------------------------------------
(* Steps without a time of their own *)

LEMMA ChargeKeeps ==
    ASSUME IInv, NEW c \in Usage, Charge(c)
    PROVE  IInv'
<1>1. TypeOK' /\ TxFits'
  BY DEF Charge, IInv, TypeOK, TxFits
<1>2. UsageIsResetOnce' /\ ResetIsShown'
  BY DEF Charge, IInv, UsageIsResetOnce, ResetIsShown, LastReset
<1> QED  BY <1>1, <1>2 DEF IInv

\* A ticket that is not spent holds nothing, before and after.
LEMMA TicketKeeps ==
    ASSUME IInv, NEW t \in Tickets, GrantTicket(t) \/ Revoke(t)
    PROVE  IInv'
<1>1. PICK new \in Held \cup {NoTicket} : ticket' = [ticket EXCEPT ![t] = new]
  <2>1. CASE GrantTicket(t)
    <3>1. [state |-> "held", until |-> now + Validity, bytes |-> {}] \in Held
      BY PeriodsAssumption DEF Held, IInv, TypeOK, Days
    <3> QED  BY <2>1, <3>1 DEF GrantTicket
  <2>2. CASE Revoke(t)
    BY <2>2 DEF Revoke
  <2> QED  BY <2>1, <2>2
<1>2. UNCHANGED <<row, now, tx, history>> /\ ops' \in 0..MaxOps
  BY PeriodsAssumption DEF GrantTicket, Revoke, Operator, IInv, TypeOK
<1>3. TypeOK' /\ TxFits' /\ ResetIsShown'
  BY <1>1, <1>2 DEF IInv, TypeOK, TxFits, ResetIsShown, LastReset
<1>4. \A u \in Tickets : ticket'[u].bytes = ticket[u].bytes
  <2>1. new.bytes = {} /\ ticket[t].bytes = {}
    BY DEF GrantTicket, Revoke, Held, Spent, NoTicket, IInv, TypeOK
  <2> QED  BY <1>1, <2>1 DEF IInv, TypeOK
<1>5. UsageIsResetOnce'
  <2>1. UNION {ticket'[u].bytes : u \in Tickets} = UNION {ticket[u].bytes : u \in Tickets}
    BY <1>4
  <2> QED  BY <1>2, <1>4, <2>1 DEF IInv, UsageIsResetOnce
<1> QED  BY <1>3, <1>5 DEF IInv

LEMMA OperatorKeeps ==
    ASSUME IInv,
           \/ \E s \in {"active", "suspended"}, a \in BOOLEAN : SetState(s, a)
           \/ \E term \in Terms : SetTerm(term[1], term[2])
           \/ Tick
    PROVE  IInv'
<1>1. CASE \E s \in {"active", "suspended"}, a \in BOOLEAN : SetState(s, a)
  <2>1. TypeOK' /\ TxFits'
    BY <1>1, PeriodsAssumption DEF SetState, Operator, IInv, TypeOK, TxFits
  <2>2. UsageIsResetOnce' /\ ResetIsShown'
    BY <1>1 DEF SetState, IInv, UsageIsResetOnce, ResetIsShown, LastReset
  <2> QED  BY <2>1, <2>2 DEF IInv
<1>2. CASE \E term \in Terms : SetTerm(term[1], term[2])
  <2>1. PICK term \in Terms : SetTerm(term[1], term[2])
    BY <1>2
  <2>2. term[1] \in Days /\ term[2] \in Days /\ term[2] \in Nat
    BY PeriodsAssumption DEF Days
  <2>3. Unserved \in [period : 0..LastDay, times : 0..2]
    BY FirstDays DEF Unserved
  <2>4. TypeOK' /\ TxFits'
    BY <2>1, <2>2, <2>3, PeriodsAssumption DEF SetTerm, Operator, IInv, TypeOK, TxFits
  <2>5. UsageIsResetOnce' /\ ResetIsShown'
    BY <2>1 DEF SetTerm, IInv, UsageIsResetOnce, ResetIsShown
  <2> QED  BY <2>4, <2>5 DEF IInv
<1>3. CASE Tick
  <2>1. TypeOK' /\ TxFits'
    BY <1>3, FirstDays DEF Tick, Days, IInv, TypeOK, TxFits
  <2>2. UsageIsResetOnce' /\ ResetIsShown'
    BY <1>3 DEF Tick, IInv, UsageIsResetOnce, ResetIsShown, LastReset
  <2> QED  BY <2>1, <2>2 DEF IInv
<1> QED  BY <1>1, <1>2, <1>3

-----------------------------------------------------------------------------
LEMMA InitHolds == Init => IInv
<1> SUFFICES ASSUME Init PROVE IInv
  OBVIOUS
<1>1. 1 \in Days
  <2>1. 1 \in 1..Len(FirstDay) /\ Len(FirstDay) \in 1..Len(FirstDay) /\ 1 < Len(FirstDay)
    BY PeriodsAssumption, FirstDays
  <2>2. FirstDay[1] < FirstDay[Len(FirstDay)]
    BY <2>1, FirstDays
  <2> QED  BY <2>1, <2>2, PeriodsAssumption, FirstDays DEF Days, LastDay
<1>2. TypeOK
  <2>1. NoTx \in Tx /\ Unserved \in [period : 0..LastDay, times : 0..2]
    BY <1>1, FirstDays DEF NoTx, Tx, Unserved
  <2> QED  BY <1>1, <2>1, PeriodsAssumption DEF Init, TypeOK
<1>3. TxFits /\ ResetIsShown
  BY DEF Init, TxFits, ResetIsShown, NoTx
<1>4. UsageIsResetOnce
  <2>1. \A t \in Tickets : ticket[t].bytes = {}
    BY DEF Init, NoTicket
  <2> QED  BY <2>1 DEF Init, UsageIsResetOnce
<1> QED  BY <1>2, <1>3, <1>4 DEF IInv

LEMMA FinishKeeps ==
    ASSUME IInv, NEW w \in Workers, Finish(w)
    PROVE  IInv'
BY GrantKeeps, ClearKeeps, RedeemKeeps, ResetKeeps, OthersKeep DEF Finish

LEMMA Inductive == IInv /\ [Next]_vars => IInv'
<1> SUFFICES ASSUME IInv, [Next]_vars PROVE IInv'
  OBVIOUS
<1>1. CASE \E w \in Workers : Request(w) \/ BeginReset(w) \/ BeginExpire(w)
  BY <1>1, BeginKeeps
<1>2. CASE \E w \in Workers : Finish(w)
  BY <1>2, FinishKeeps
<1>3. CASE \E c \in Usage : Charge(c)
  BY <1>3, ChargeKeeps
<1>4. CASE \E t \in Tickets : GrantTicket(t) \/ Revoke(t)
  BY <1>4, TicketKeeps
<1>5. CASE \/ \E s \in {"active", "suspended"}, a \in BOOLEAN : SetState(s, a)
           \/ \E term \in Terms : SetTerm(term[1], term[2])
           \/ Tick
  BY <1>5, OperatorKeeps
<1>6. CASE UNCHANGED vars
  <2>1. TypeOK' /\ TxFits'
    BY <1>6 DEF vars, IInv, TypeOK, TxFits
  <2>2. UsageIsResetOnce' /\ ResetIsShown'
    BY <1>6 DEF vars, IInv, UsageIsResetOnce, ResetIsShown, LastReset
  <2> QED  BY <2>1, <2>2 DEF IInv
<1> QED  BY <1>1, <1>2, <1>3, <1>4, <1>5, <1>6 DEF Next, Workers

LEMMA IInvHolds == Spec => []IInv
BY InitHolds, Inductive, PTL DEF Spec

-----------------------------------------------------------------------------
\* Every variable keeps its type, for any transactions, tickets and calendar.
THEOREM TypeCorrect == Spec => []TypeOK
<1>1. IInv => TypeOK
  BY DEF IInv
<1> QED  BY <1>1, IInvHolds, PTL

\* reset_ticket.go:236-239 and traffic_reset.go:71: what was charged still counts,
\* or one ticket has it, or it was cleared, whatever runs beside the redemption.
THEOREM UsageIsTakenOffOnce == Spec => []UsageIsResetOnce
<1>1. IInv => UsageIsResetOnce
  BY DEF IInv
<1> QED  BY <1>1, IInvHolds, PTL

\* traffic_reset.go:94: schedulers beside each other, on a row that changes under
\* them, reset a period once, unless an older reset by hand was written after it.
THEOREM PeriodsAreResetOnce == Spec => []OnceAPeriod
<1>1. IInv => OnceAPeriod
  BY DEF IInv, TypeOK, ResetIsShown, OnceAPeriod, Unserved
<1> QED  BY <1>1, IInvHolds, PTL
=============================================================================

---------------------- MODULE TrafficAccountingProofs ----------------------
(***************************************************************************)
(* Theorems about TrafficAccounting, for any units of traffic, capacities  *)
(* and failures.  The inductive invariant says where a unit may be, that a *)
(* batch is posted and accounted only while its file is durable, and that  *)
(* a unit's charge is exactly that its batch is in the ledger.             *)
(***************************************************************************)
EXTENDS TrafficAccounting, FiniteSetTheorems, TLAPS

(* Units come from Xray, and an id without a payload is not used anywhere. *)
Origin ==
    /\ counter \cup pending \subseteq carried
    /\ \A b \in Batches : content[b] \subseteq carried
    /\ \A b \in Batches : content[b] = {} => b \notin files \cup late \cup accounted

(* What was posted is durable until it is in the ledger. *)
Durable ==
    /\ fresh \subseteq files
    /\ stage \in {"send", "wait", "remove"} => fresh = {}
    /\ fresh \cap (late \cup accounted) = {}
    /\ late \subseteq files \cup accounted

(* What was removed, or is about to be, is in the ledger. *)
Safe ==
    /\ gone \subseteq accounted
    /\ request = "accepted" \/ stage = "remove" =>
          \A b \in files : Oldest(b) => b \in accounted

InLedger(t) == \E b \in accounted : t \in content[b]

(* The ledger decides what a unit was charged. *)
Ledger == \A t \in Traffic : charged[t] = IF InLedger(t) THEN 1 ELSE 0

IInv == TypeOK /\ OwnedOnce /\ Origin /\ Durable /\ Safe /\ Ledger

-----------------------------------------------------------------------------
LEMMA BatchesAreNumbers == Batches \subseteq Int
  BY FS_CardinalityType, AccountingAssumption DEF Batches

LEMMA OneOldest ==
    ASSUME files \subseteq Batches, NEW b, NEW d, Oldest(b), Oldest(d)
    PROVE  b = d
<1>1. b \in Int /\ d \in Int
  BY BatchesAreNumbers DEF Oldest
<1>2. b <= d /\ d <= b
  BY DEF Oldest
<1> QED
  BY <1>1, <1>2

LEMMA Begins == Init => IInv
<1> SUFFICES ASSUME Init PROVE IInv
  OBVIOUS
<1>1. TypeOK
  BY DEF Init, TypeOK, Stages
<1>2. OwnedOnce /\ Origin
  BY DEF Init, OwnedOnce, Origin
<1>3. Durable /\ Safe
  BY DEF Init, Durable, Safe
<1>4. Ledger
  BY DEF Init, Ledger, InLedger
<1> QED
  BY <1>1, <1>2, <1>3, <1>4 DEF IInv

(* Steps that move no unit and no file. *)
Idle == UNCHANGED <<carried, counter, pending, content, files, fresh, gone,
                    accounted, charged>>

LEMMA IdleKeeps ==
    ASSUME IInv, Idle, TypeOK', late' \subseteq late \cup {b \in files : request = "sent" /\ stage = "wait" /\ Oldest(b)},
           stage' \in {"wait", "remove", "send"} => fresh = {},
           request' = "accepted" \/ stage' = "remove" => request = "accepted" \/ stage = "remove"
    PROVE  IInv'
<1> USE DEF Idle, IInv
<1>1. OwnedOnce' /\ Ledger'
  BY DEF OwnedOnce, Ledger, InLedger
<1>2. Origin'
  BY DEF Origin, TypeOK
<1>3. Durable'
  BY DEF Durable
<1>4. Safe'
  BY DEF Safe, Oldest
<1> QED
  BY <1>1, <1>2, <1>3, <1>4

LEMMA RoundKeeps ==
    ASSUME IInv,
           \/ Tick \/ QueueNothing \/ QueueFails \/ DrainEmpty \/ DrainFails
           \/ SendStats \/ Acknowledged \/ Refused \/ TimesOut \/ RemoveFails
           \/ SkipPoll \/ StatsFails \/ \E b \in Batches : LateLost(b)
    PROVE  IInv'
<1> USE DEF node, loop, panel
<1>1. Idle
  BY DEF Idle, Tick, QueueNothing, QueueFails, DrainEmpty, DrainFails, SendStats,
         Acknowledged, Refused, TimesOut, RemoveFails, SkipPoll, StatsFails, LateLost
<1>2. TypeOK'
  BY DEF IInv, TypeOK, Stages, AfterQueueError, Drained, Tick, QueueNothing, QueueFails,
         DrainEmpty, DrainFails, SendStats, Acknowledged, Refused, TimesOut, RemoveFails,
         SkipPoll, StatsFails, LateLost
<1>3. late' \subseteq late \cup {b \in files : request = "sent" /\ stage = "wait" /\ Oldest(b)}
  BY DEF IInv, TypeOK, Tick, QueueNothing, QueueFails, DrainEmpty, DrainFails, SendStats,
         Acknowledged, Refused, TimesOut, RemoveFails, SkipPoll, StatsFails, LateLost
<1>4. stage' \in {"wait", "remove", "send"} => fresh = {}
  BY DEF IInv, Durable, AfterQueueError, Drained, Tick, QueueNothing, QueueFails,
         DrainEmpty, DrainFails, SendStats, Acknowledged, Refused, TimesOut, RemoveFails,
         SkipPoll, StatsFails, LateLost
<1>5. request' = "accepted" \/ stage' = "remove" => request = "accepted" \/ stage = "remove"
  BY DEF AfterQueueError, Drained, Tick, QueueNothing, QueueFails,
         DrainEmpty, DrainFails, SendStats, Acknowledged, Refused, TimesOut, RemoveFails,
         SkipPoll, StatsFails, LateLost
<1> QED
  BY <1>1, <1>2, <1>3, <1>4, <1>5, IdleKeeps

(* The pending sample moves to the disk under a new id. *)
LEMMA QueueKeeps ==
    ASSUME IInv, QueueBatch \/ QueueUnsynced
    PROVE  IInv'
<1> USE DEF IInv
<1> PICK b \in Batches :
        /\ NewBatch(b)
        /\ content' = [content EXCEPT ![b] = pending]
        /\ files' = files \cup {b}
        /\ fresh' \subseteq fresh \cup {b}
        /\ stage' \in {"sync", "rest"}
  BY DEF QueueBatch, QueueUnsynced, AfterQueueError
<1>1. /\ pending' = {} /\ pending # {} /\ stage = "queue" /\ gone' \subseteq gone
      /\ UNCHANGED <<carried, counter, polled, request, late, accounted, charged>>
  BY DEF QueueBatch, QueueUnsynced, panel
<1>2. content[b] = {} /\ b \notin files \cup late \cup accounted
  BY DEF NewBatch, Origin
<1>3. /\ content' \in [Batches -> SUBSET Traffic]
      /\ content'[b] = pending
      /\ \A d \in Batches : d # b => content'[d] = content[d]
  BY DEF TypeOK
<1>4. TypeOK'
  BY <1>1, <1>3 DEF TypeOK, Stages
<1>5. OwnedOnce'
  BY <1>1, <1>3 DEF OwnedOnce
<1>6. Origin'
  BY <1>1, <1>3 DEF Origin, TypeOK
<1>7. Durable'
  BY <1>1, <1>2 DEF Durable
<1>8. Safe'
  BY <1>1 DEF Safe, TypeOK
<1>9. Ledger'
  BY <1>1, <1>2, <1>3 DEF Ledger, InLedger, TypeOK
<1> QED
  BY <1>4, <1>5, <1>6, <1>7, <1>8, <1>9

LEMMA SyncKeeps ==
    ASSUME IInv, SyncOutbox
    PROVE  IInv'
<1> USE DEF IInv, SyncOutbox, panel
<1>1. TypeOK' /\ OwnedOnce'
  BY DEF TypeOK, Stages, OwnedOnce
<1>2. Origin' /\ Durable'
  BY DEF Origin, Durable, TypeOK
<1>3. Safe'
  BY DEF Safe, TypeOK
<1>4. Ledger'
  BY DEF Ledger, InLedger
<1> QED
  BY <1>1, <1>2, <1>3, <1>4

(* A file leaves the outbox after its batch entered the ledger. *)
LEMMA RemoveKeeps ==
    ASSUME IInv, RemoveFirst \/ RemoveUnsynced
    PROVE  IInv'
<1> USE DEF IInv
<1>1. /\ stage = "remove" /\ stage' \in {"send", "rest", "poll"}
      /\ files' = {b \in files : ~Oldest(b)} /\ fresh' \subseteq fresh
      /\ gone' \subseteq gone \cup {b \in files : Oldest(b)}
      /\ UNCHANGED <<carried, counter, pending, content, polled, request, late,
                     accounted, charged>>
  BY DEF RemoveFirst, RemoveUnsynced, Drained, panel
<1>2. fresh = {} /\ \A b \in files : Oldest(b) => b \in accounted
  BY <1>1 DEF Durable, Safe
<1>3. TypeOK' /\ OwnedOnce'
  BY <1>1 DEF TypeOK, Stages, OwnedOnce
<1>4. Origin' /\ Durable'
  BY <1>1, <1>2 DEF Origin, Durable
<1>5. Safe'
  BY <1>1, <1>2 DEF Safe, TypeOK
<1>6. Ledger'
  BY <1>1 DEF Ledger, InLedger
<1> QED
  BY <1>3, <1>4, <1>5, <1>6

(* Units move between Xray and the agent's memory, or disappear from them. *)
LEMMA MemoryKeeps ==
    ASSUME IInv, Poll \/ PollFails \/ XrayRestarts \/ \E t \in Traffic : Carry(t)
    PROVE  IInv'
<1> USE DEF IInv, node, loop, panel
<1>1. /\ UNCHANGED <<content, files, fresh, gone, request, late, accounted, charged>>
      /\ stage' = stage \/ (stage = "poll" /\ stage' \in {"queue", "rest"})
  BY DEF Poll, PollFails, XrayRestarts, Carry
<1>2. TypeOK'
  BY DEF TypeOK, Stages, Poll, PollFails, XrayRestarts, Carry
<1>3. OwnedOnce'
  BY DEF OwnedOnce, Origin, Poll, PollFails, XrayRestarts, Carry
<1>4. Origin'
  BY DEF Origin, Poll, PollFails, XrayRestarts, Carry
<1>5. Durable' /\ Safe'
  BY <1>1 DEF Durable, Safe, Oldest
<1>6. Ledger'
  BY <1>1 DEF Ledger, InLedger
<1> QED
  BY <1>2, <1>3, <1>4, <1>5, <1>6

(* A batch enters the ledger with its charges, or was in it already. *)
LEMMA StatsKeeps ==
    ASSUME IInv, NEW b \in Batches, Stats(b) \/ LateStats(b)
    PROVE  IInv'
<1> USE DEF IInv, node
<1>1. /\ AccountStats(b)
      /\ UNCHANGED <<carried, counter, pending, content, files, fresh, gone, stage, polled>>
      /\ late' \subseteq late
  BY DEF Stats, LateStats
<1>2. accounted' = accounted \cup {b} /\ b \notin fresh /\ content[b] # {}
  BY DEF AccountStats, Stats, LateStats, Durable, Origin, TypeOK, Oldest
<1>3. charged' \in [Traffic -> Nat]
  BY <1>1 DEF AccountStats, TypeOK
<1>4. TypeOK'
  BY <1>1, <1>2, <1>3 DEF TypeOK, Stats, LateStats
<1>5. OwnedOnce' /\ Origin'
  BY <1>1, <1>2 DEF OwnedOnce, Origin
<1>6. Durable'
  BY <1>1, <1>2 DEF Durable, Stats, LateStats
<1>7. Safe'
  <2>1. CASE Stats(b)
    <3>1. stage = "wait" /\ Oldest(b)
      BY <2>1 DEF Stats, TypeOK
    <3>2. \A d \in files : Oldest(d) => d = b
      BY <3>1, OneOldest DEF TypeOK
    <3> QED
      BY <1>1, <1>2, <3>1, <3>2 DEF Safe, Oldest
  <2>2. CASE LateStats(b)
    BY <1>1, <1>2, <2>2 DEF Safe, Oldest, LateStats
  <2> QED
    BY <2>1, <2>2
<1>8. Ledger'
  <2> SUFFICES ASSUME NEW t \in Traffic
               PROVE  charged'[t] = IF InLedger(t)' THEN 1 ELSE 0
    BY DEF Ledger
  <2>1. InLedger(t)' <=> InLedger(t) \/ t \in content[b]
    BY <1>1, <1>2 DEF InLedger
  <2>2. charged[t] = IF InLedger(t) THEN 1 ELSE 0
    BY DEF Ledger
  <2>3. CASE b \in accounted
    <3>1. charged' = charged /\ (t \in content[b] => InLedger(t))
      BY <1>1, <2>3 DEF AccountStats, InLedger
    <3> QED
      BY <2>1, <2>2, <3>1
  <2>4. CASE b \notin accounted
    <3>1. charged'[t] = charged[t] + (IF t \in content[b] THEN 1 ELSE 0)
      BY <1>1, <2>4 DEF AccountStats
    <3>2. t \in content[b] => ~InLedger(t)
      BY <2>4 DEF InLedger, OwnedOnce, TypeOK
    <3> QED
      BY <2>1, <2>2, <3>1, <3>2
  <2> QED
    BY <2>3, <2>4
<1> QED
  BY <1>4, <1>5, <1>6, <1>7, <1>8

(* A restart empties the memory; a power failure forgets only fresh names and *)
(* brings back only files whose batch is in the ledger.                       *)
LEMMA RestartKeeps ==
    ASSUME IInv, AgentDies \/ PowerFails
    PROVE  IInv'
<1> USE DEF IInv
<1>1. /\ Restart /\ counter' \subseteq counter
      /\ fresh' \subseteq fresh /\ fresh' \subseteq files' /\ gone' \subseteq gone
      /\ files' \subseteq files \cup gone /\ files \ fresh \subseteq files'
      /\ UNCHANGED <<carried, content, accounted, charged>>
  BY DEF AgentDies, PowerFails, panel, Durable
<1>2. late' \subseteq late \cup {b \in files : request = "sent" /\ Oldest(b)}
  BY <1>1 DEF Restart
<1>3. request = "sent" => stage = "wait" /\ fresh = {}
  BY DEF TypeOK, Durable
<1>4. TypeOK'
  BY <1>1, <1>2 DEF TypeOK, Stages, Restart
<1>5. OwnedOnce'
  BY <1>1 DEF OwnedOnce, Restart
<1>6. Origin'
  BY <1>1, <1>2 DEF Origin, Restart, Safe, TypeOK
<1>7. Durable'
  BY <1>1, <1>2, <1>3 DEF Durable, Restart
<1>8. Safe'
  BY <1>1 DEF Safe, Restart
<1>9. Ledger'
  BY <1>1 DEF Ledger, InLedger
<1> QED
  BY <1>4, <1>5, <1>6, <1>7, <1>8, <1>9

LEMMA StepsKeep == IInv /\ [Next]_vars => IInv'
<1> SUFFICES ASSUME IInv, [Next]_vars PROVE IInv'
  OBVIOUS
<1>1. CASE Collector
  BY <1>1, RoundKeeps, QueueKeeps, SyncKeeps, RemoveKeeps, MemoryKeeps DEF Collector
<1>2. CASE Panel
  BY <1>2, RoundKeeps, StatsKeeps DEF Panel
<1>3. CASE World
  BY <1>3, MemoryKeeps, RestartKeeps DEF World
<1>4. CASE UNCHANGED vars
  BY <1>4 DEF IInv, vars, node, loop, panel, TypeOK, OwnedOnce, Origin, Durable, Safe,
              Ledger, InLedger, Oldest
<1> QED
  BY <1>1, <1>2, <1>3, <1>4 DEF Next

LEMMA Invariance == Spec => []IInv
  BY Begins, StepsKeep, PTL DEF Spec

-----------------------------------------------------------------------------
(* The collector, its outbox and the panel's ledger keep their types, and a   *)
(* POST is in flight exactly while the loop waits for it.                     *)
THEOREM TypeCorrect == Spec => []TypeOK
  BY Invariance, PTL DEF IInv

(* Whatever fails, a unit is in one place and so reported under one batch id. *)
THEOREM UnitsAreOwnedOnce == Spec => []OwnedOnce
  BY Invariance, PTL DEF IInv

(* Replays after lost answers, refusals and crashes charge nothing twice.     *)
THEOREM NothingChargedTwice == Spec => []ChargedAtMostOnce
<1>1. IInv => ChargedAtMostOnce
  BY DEF IInv, Ledger, ChargedAtMostOnce
<1> QED
  BY <1>1, Invariance, PTL

-----------------------------------------------------------------------------
LEMMA FilesAreFinite ==
    ASSUME files \subseteq Batches
    PROVE  IsFiniteSet(files)
<1>1. IsFiniteSet(Batches)
  BY FS_CardinalityType, FS_Interval, AccountingAssumption, 0 \in Int, 1 \in Int DEF Batches
<1> QED
  BY <1>1, FS_Subset

LEMMA RoomRemains ==
    ASSUME TypeOK, HasCapacity, files' \subseteq files
    PROVE  HasCapacity'
<1>1. IsFiniteSet(files)
  BY FilesAreFinite DEF TypeOK
<1>2. /\ IsFiniteSet(files') /\ Cardinality(files') <= Cardinality(files)
      /\ Cardinality(files) \in Nat
  BY <1>1, FS_Subset, FS_CardinalityType
<1>3. Cardinality(files') \in Nat
  BY <1>2, FS_CardinalityType
<1> QED
  BY <1>2, <1>3, AccountingAssumption DEF HasCapacity

(* The destructive read never takes what the outbox has no room for, and a    *)
(* sample that waits in memory does not lose its place to anything.           *)
THEOREM PendingAlwaysFits == Spec => []PendingFits
<1>1. Init => PendingFits
  BY DEF Init, PendingFits
<1>2. IInv /\ PendingFits /\ [Next]_vars => PendingFits'
  <2> SUFFICES ASSUME IInv, PendingFits, [Next]_vars, pending' # {}
               PROVE  HasCapacity'
    BY DEF PendingFits
  <2> USE DEF node
  <2>1. files' \subseteq files
    <3>1. CASE Collector
      BY <3>1 DEF Collector, Tick, QueueNothing, QueueBatch, QueueUnsynced, QueueFails,
                 DrainEmpty, SyncOutbox, DrainFails, SendStats, Acknowledged, Refused,
                 TimesOut, RemoveFirst, RemoveUnsynced, RemoveFails, Poll, SkipPoll, PollFails
    <3>2. CASE Panel
      BY <3>2 DEF Panel, StatsFails, Stats, LateStats, LateLost
    <3>3. CASE World
      BY <3>3 DEF World, XrayRestarts, AgentDies, PowerFails, Restart, Carry
    <3> QED
      BY <3>1, <3>2, <3>3 DEF Next, vars
  <2>2. pending # {} \/ HasCapacity
    <3>1. CASE Collector
      BY <3>1 DEF Collector, Tick, QueueNothing, QueueBatch, QueueUnsynced, QueueFails,
                 DrainEmpty, SyncOutbox, DrainFails, SendStats, Acknowledged, Refused,
                 TimesOut, RemoveFirst, RemoveUnsynced, RemoveFails, Poll, SkipPoll, PollFails
    <3>2. CASE Panel
      BY <3>2 DEF Panel, StatsFails, Stats, LateStats, LateLost
    <3>3. CASE World
      BY <3>3 DEF World, XrayRestarts, AgentDies, PowerFails, Restart, Carry
    <3> QED
      BY <3>1, <3>2, <3>3 DEF Next, vars
  <2> QED
    BY <2>1, <2>2, RoomRemains DEF PendingFits, IInv
<1> QED
  BY <1>1, <1>2, Invariance, PTL DEF Spec

-----------------------------------------------------------------------------
(* What a step may do to one unit, in terms of where it is. *)
Queued == Of(files \ fresh)

UnitMoves(t) ==
    /\ charged[t] > 0 => charged'[t] > 0
    /\ charged'[t] > 0 => charged[t] > 0 \/ t \in Queued
    /\ t \in Queued => t \in Queued' \/ charged'[t] > 0
    /\ t \in carried => t \in carried'
    /\ t \in carried' \ carried => t \in Held' \ Queued'
    /\ t \in Queued' => t \in Held \/ charged[t] > 0
    /\ t \in carried /\ t \in Held' => t \in Held \/ charged[t] > 0

LEMMA ChargedIsInLedger ==
    ASSUME IInv, NEW t \in Traffic
    PROVE  charged[t] > 0 <=> InLedger(t)
  BY DEF IInv, Ledger

(* Steps that leave every unit where it is, or forget some in memory. *)
LEMMA StillMoves ==
    ASSUME IInv, NEW t \in Traffic,
           UNCHANGED <<carried, content, files, charged>>, fresh' \subseteq fresh,
           counter' \cup pending' \subseteq counter \cup pending
    PROVE  UnitMoves(t)
<1>1. Queued \subseteq Queued' /\ Queued' \subseteq Held /\ Held' \subseteq Held
  BY DEF Queued, Held, Of
<1> QED
  BY <1>1 DEF UnitMoves, Held

LEMMA QueueMoves ==
    ASSUME IInv, NEW t \in Traffic, QueueBatch \/ QueueUnsynced
    PROVE  UnitMoves(t)
<1> PICK b \in Batches :
        /\ NewBatch(b)
        /\ content' = [content EXCEPT ![b] = pending]
        /\ files' = files \cup {b}
        /\ fresh' \subseteq fresh \cup {b}
  BY DEF QueueBatch, QueueUnsynced
<1>1. UNCHANGED <<carried, counter, charged>> /\ pending' = {}
  BY DEF QueueBatch, QueueUnsynced, panel
<1>2. b \notin files /\ content[b] = {}
  BY DEF NewBatch, IInv, Origin
<1>3. \A d : content'[d] = IF d = b /\ d \in Batches THEN pending ELSE content'[d]
  BY DEF IInv, TypeOK
<1>4. \A d \in files : content'[d] = content[d]
  BY <1>2 DEF IInv, TypeOK
<1>5. content'[b] = pending
  BY DEF IInv, TypeOK
<1>6. Queued \subseteq Queued'
  BY <1>2, <1>4 DEF Queued, Of
<1>7. Queued' \subseteq Held /\ Held' \subseteq Held
  BY <1>1, <1>4, <1>5 DEF Queued, Held, Of
<1> QED
  BY <1>1, <1>6, <1>7 DEF UnitMoves

LEMMA RemoveMoves ==
    ASSUME IInv, NEW t \in Traffic, RemoveFirst \/ RemoveUnsynced
    PROVE  UnitMoves(t)
<1>1. /\ stage = "remove" /\ files' = {b \in files : ~Oldest(b)} /\ fresh' \subseteq fresh
      /\ UNCHANGED <<carried, counter, pending, content, charged>>
  BY DEF RemoveFirst, RemoveUnsynced, panel
<1>2. Queued' \subseteq Held /\ Held' \subseteq Held
  BY <1>1 DEF Queued, Held, Of
<1>3. t \in Queued => t \in Queued' \/ charged[t] > 0
  <2> SUFFICES ASSUME NEW b \in files \ fresh, t \in content[b], t \notin Queued'
               PROVE  charged[t] > 0
    BY DEF Queued, Of
  <2>1. b \notin files' \ fresh'
    BY <1>1 DEF Queued, Of
  <2>2. b \in accounted
    BY <1>1, <2>1 DEF IInv, Safe
  <2> QED
    BY <2>2, ChargedIsInLedger DEF InLedger
<1> QED
  BY <1>1, <1>2, <1>3 DEF UnitMoves

LEMMA StatsMoves ==
    ASSUME IInv, NEW t \in Traffic, NEW b \in Batches, Stats(b) \/ LateStats(b)
    PROVE  UnitMoves(t)
<1>1. /\ AccountStats(b)
      /\ UNCHANGED <<carried, counter, pending, content, files, fresh>>
  BY DEF Stats, LateStats, node
<1>2. charged[t] \in Nat
  BY DEF IInv, TypeOK
<1>3. charged'[t] = charged[t] \/ (charged'[t] = charged[t] + 1 /\ t \in content[b])
  BY <1>1, <1>2 DEF AccountStats
<1>4. b \in files \ fresh \/ b \in accounted
  BY DEF IInv, Durable, Stats, LateStats, Oldest, TypeOK
<1>5. t \in content[b] => t \in Queued \/ charged[t] > 0
  BY <1>4, ChargedIsInLedger DEF Queued, Of, InLedger
<1>6. Queued' = Queued /\ Held' = Held /\ Queued \subseteq Held
  BY <1>1 DEF Queued, Held, Of
<1> QED
  BY <1>1, <1>2, <1>3, <1>5, <1>6 DEF UnitMoves

LEMMA CarryMoves ==
    ASSUME IInv, NEW t \in Traffic, NEW u \in Traffic, Carry(u)
    PROVE  UnitMoves(t)
<1>1. /\ u \notin carried /\ carried' = carried \cup {u} /\ counter' = counter \cup {u}
      /\ UNCHANGED <<pending, content, files, fresh, charged>>
  BY DEF Carry, node, panel
<1>2. \A b \in files : u \notin content[b]
  BY <1>1 DEF IInv, TypeOK, Origin
<1>3. Queued' = Queued /\ u \notin Queued /\ Queued \subseteq Held /\ Held' = Held \cup {u}
  BY <1>1, <1>2 DEF Queued, Held, Of
<1> QED
  BY <1>1, <1>3 DEF UnitMoves

LEMMA PowerMoves ==
    ASSUME IInv, NEW t \in Traffic, PowerFails
    PROVE  UnitMoves(t)
<1> PICK forgotten \in SUBSET fresh, back \in SUBSET gone :
        files' = (files \ forgotten) \cup back
  BY DEF PowerFails
<1>1. /\ fresh' = {} /\ counter' = {} /\ pending' = {}
      /\ UNCHANGED <<carried, content, charged>>
  BY DEF PowerFails, Restart, panel
<1>2. \A b \in back : b \in accounted
  BY DEF IInv, Safe
<1>3. t \in Of(back) => charged[t] > 0
  BY <1>2, ChargedIsInLedger DEF Of, InLedger
<1>4. Queued \subseteq Queued'
  BY <1>1 DEF Queued, Of
<1>5. /\ Queued' \subseteq Held \cup Of(back)
      /\ Held' \subseteq Held \cup Of(back)
  BY <1>1 DEF Queued, Held, Of
<1> QED
  BY <1>1, <1>3, <1>4, <1>5 DEF UnitMoves

LEMMA EveryUnitMoves ==
    ASSUME IInv, [Next]_vars, NEW t \in Traffic
    PROVE  UnitMoves(t)
<1> USE DEF node, panel
<1>1. CASE \/ Tick \/ QueueNothing \/ QueueFails \/ DrainEmpty \/ SyncOutbox
           \/ DrainFails \/ SendStats \/ Acknowledged \/ Refused \/ TimesOut
           \/ RemoveFails \/ Poll \/ SkipPoll \/ PollFails \/ XrayRestarts \/ AgentDies
           \/ StatsFails \/ (\E b \in Batches : LateLost(b)) \/ UNCHANGED vars
  <2>1. UNCHANGED <<carried, content, files, charged>> /\ fresh' \subseteq fresh
    BY <1>1 DEF Tick, QueueNothing, QueueFails, DrainEmpty, SyncOutbox, DrainFails, SendStats,
                Acknowledged, Refused, TimesOut, RemoveFails, Poll, SkipPoll, PollFails,
                XrayRestarts, AgentDies, StatsFails, LateLost, vars
  <2>2. counter' \cup pending' \subseteq counter \cup pending
    BY <1>1 DEF Tick, QueueNothing, QueueFails, DrainEmpty, SyncOutbox, DrainFails, SendStats,
                Acknowledged, Refused, TimesOut, RemoveFails, Poll, SkipPoll, PollFails,
                XrayRestarts, AgentDies, Restart, StatsFails, LateLost, vars
  <2> QED
    BY <2>1, <2>2, StillMoves
<1>2. CASE QueueBatch \/ QueueUnsynced
  BY <1>2, QueueMoves
<1>3. CASE RemoveFirst \/ RemoveUnsynced
  BY <1>3, RemoveMoves
<1>4. CASE \E b \in Batches : Stats(b) \/ LateStats(b)
  BY <1>4, StatsMoves
<1>5. CASE \E u \in Traffic : Carry(u)
  BY <1>5, CarryMoves
<1>6. CASE PowerFails
  BY <1>6, PowerMoves
<1> QED
  BY <1>1, <1>2, <1>3, <1>4, <1>5, <1>6 DEF Next, Collector, Panel, World

(* The outbox gives up no unit that is not charged, whatever fails.           *)
THEOREM QueuedUnitsAreKept == Spec => QueuedIsKept
<1>1. IInv /\ [Next]_vars =>
          \A t \in Of(files \ fresh) : t \in Of(files)' \/ charged'[t] > 0
  <2> SUFFICES ASSUME IInv, [Next]_vars, NEW t \in Of(files \ fresh)
               PROVE  t \in Of(files)' \/ charged'[t] > 0
    OBVIOUS
  <2>1. t \in Traffic
    BY DEF Of, IInv, TypeOK
  <2>2. t \in Queued' \/ charged'[t] > 0
    BY <2>1, EveryUnitMoves DEF UnitMoves, Queued
  <2>3. Queued' \subseteq Of(files)'
    BY DEF Queued, Of
  <2> QED
    BY <2>2, <2>3
<1> QED
  BY <1>1, Invariance, PTL DEF Spec, QueuedIsKept

-----------------------------------------------------------------------------
(* Where a unit can be; what is charged or held went through Xray. *)
Placed == \A t \in Traffic :
    /\ charged[t] > 0 => t \in carried
    /\ t \in Held => t \in carried
    /\ t \in Queued => t \in Held

LEMMA UnitsArePlaced == IInv => Placed
<1> SUFFICES ASSUME IInv, NEW t \in Traffic
             PROVE  /\ charged[t] > 0 => t \in carried
                    /\ t \in Held => t \in carried
                    /\ t \in Queued => t \in Held
  BY DEF Placed
<1>1. charged[t] > 0 => t \in carried
  BY ChargedIsInLedger DEF InLedger, IInv, TypeOK, Origin
<1>2. t \in Held => t \in carried
  BY DEF Held, Of, IInv, TypeOK, Origin
<1>3. t \in Queued => t \in Held
  BY DEF Held, Queued, Of
<1> QED
  BY <1>1, <1>2, <1>3

(* A step of the node or the panel is a step of Metering, or changes nothing. *)
LEMMA MeterMoves ==
    ASSUME Placed, Placed', NEW t \in Traffic, UnitMoves(t), Meter(t)' # Meter(t)
    PROVE  <<Meter(t), Meter(t)'>> \in M!Moves
  BY DEF Placed, UnitMoves, Meter, Queued, M!Moves

(* The node, its outbox and the panel together keep the promise of Metering:  *)
(* lost only from memory, charged only from a durable batch, both for good.   *)
THEOREM AccountingImplementsMetering == Spec => ImplementsMetering
<1>1. Init => M!Init
  BY DEF Init, M!Init, meter, Meter
<1>2. IInv /\ IInv' /\ Placed /\ Placed' /\ [Next]_vars => [M!Next]_meter
  <2> SUFFICES ASSUME IInv, Placed, Placed', [Next]_vars
               PROVE  M!Next
    OBVIOUS
  <2>1. \A t \in Traffic : Meter(t)' # Meter(t) => <<Meter(t), Meter(t)'>> \in M!Moves
    BY EveryUnitMoves, MeterMoves
  <2>2. meter' = [t \in Traffic |-> Meter(t)']
    BY DEF meter
  <2>3. \A t \in Traffic : meter[t] = Meter(t) /\ meter'[t] = Meter(t)'
    BY <2>2 DEF meter
  <2>4. meter' \in [Traffic -> M!States]
    <3>1. \A t \in Traffic : Meter(t)' \in M!States
      BY DEF Meter, M!States
    <3> QED
      BY <2>2, <3>1
  <2> QED
    BY <2>1, <2>3, <2>4 DEF M!Next
<1> QED
  BY <1>1, <1>2, Invariance, UnitsArePlaced, PTL DEF Spec, ImplementsMetering, M!Spec
=============================================================================

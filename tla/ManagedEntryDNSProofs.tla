------------------------ MODULE ManagedEntryDNSProofs ------------------------
(***************************************************************************)
(* Theorems about ManagedEntryDNS, for any workers, addresses, faults and  *)
(* bounds.  A worker reports on what it read before its provider calls:    *)
(* the invariant says what is still true of that reading when the report's *)
(* UPDATE finds the row with the same generation, under the lock.          *)
(***************************************************************************)
EXTENDS ManagedEntryDNS, FiniteSetTheorems, WellFoundedInduction, TLAPS

(* A worker that holds the lock is at work. *)
LockHeld == \A w \in Workers : lock = w => pc[w] # "idle"

(* One generation has one intent. *)
SnapshotsCurrent ==
    \A w \in Workers : pc[w] # "idle" =>
        /\ snap[w].gen <= gen /\ snap[w].ip \in IPs
        /\ Current(w) => snap[w].ip = desired

(* Nobody else writes the row's observation while a worker has the lock. *)
ShownStillShown ==
    \A w \in Workers :
        pc[w] # "idle" /\ lock = w /\ snap[w].shown /\ gen = snap[w].gen =>
            action = "present" /\ snap[w].action = "present" /\ observed = desired

(* What is reported answers the action that was read. *)
Answering ==
    \A w \in Workers :
        /\ snap[w].action = "delete" => call[w].done.op \in {"none", "delete"}
        /\ pc[w] = "write" => call[w].done \in Call
        /\ pc[w] = "report" => /\ verdict[w] \in [kind : Verdicts, id : Ids \cup {None}]
                               /\ verdict[w].kind = "ready" => snap[w].action = "present"

DeletedIsOver == action = "delete" => status \notin {"pending", "ready"}

IInv ==
    /\ TypeOK /\ ReadyIsIntended /\ NotForgotten
    /\ LockHeld /\ SnapshotsCurrent /\ ShownStillShown /\ Answering /\ DeletedIsOver

-----------------------------------------------------------------------------
LEMMA LowestIsMember ==
    ASSUME NEW S \in SUBSET Ids, S # {}
    PROVE  Lowest(S) \in S
<1>1. S \subseteq Nat
  BY DNSAssumption DEF Ids
<1>2. \E x \in S : \A y \in S : ~ (<<y, x>> \in OpToRel(<, Nat))
  <2>1. ASSUME NEW R, IsWellFoundedOn(R, Nat)
        PROVE  \E x \in S : \A y \in S : ~ (<<y, x>> \in R)
    BY <1>1, <2>1, WFMin
  <2> QED
    BY <2>1, NatLessThanWellFounded, Zenon
<1>3. \A x, y \in Nat : y < x => <<y, x>> \in OpToRel(<, Nat)
  BY Zenon DEF OpToRel
<1>4. \A x, y \in Nat : ~ (y < x) => x <= y
  OBVIOUS
<1>5. \E x \in S : \A y \in S : x <= y
  BY <1>1, <1>2, <1>3, <1>4, Zenon
<1> QED
  BY <1>5 DEF Lowest

LEMMA OwnedIsFinite ==
    /\ Owned \subseteq Ids /\ IsFiniteSet(Owned) /\ Cardinality(Owned) \in Nat
    /\ Cardinality(Owned) = 0 <=> Owned = {}
<1>1. Owned \subseteq Ids
  BY DEF Owned
<1>2. IsFiniteSet(Ids)
  BY DNSAssumption, FS_Interval DEF Ids
<1> QED
  BY <1>1, <1>2, FS_Subset, FS_EmptySet, FS_CardinalityType

LEMMA Begins == Init => IInv
<1> SUFFICES ASSUME Init PROVE IInv
  OBVIOUS
<1>1. Idle \in Snapshot /\ NotYet \in Tried
  BY DNSAssumption DEF Idle, Snapshot, NotYet, Written, Tried, NoCall
<1>2. TypeOK
  <2>1. /\ action \in {"present", "delete"} /\ desired \in IPs /\ gen \in 1..MaxGen
        /\ status \in Status /\ observed \in IPs \cup {None} /\ cached \in Ids \cup {None}
        /\ scheduled \in BOOLEAN /\ invalid \in BOOLEAN /\ faults \in 0..MaxFaults
    <3>1. gen \in 1..MaxGen /\ faults \in 0..MaxFaults
      BY DNSAssumption DEF Init
    <3>2. status \in Status /\ scheduled \in BOOLEAN /\ invalid \in BOOLEAN
      BY DEF Init, Status
    <3> QED
      BY <3>1, <3>2 DEF Init
  <2>2. /\ records \in [Ids -> IPs \cup {None, Wrong}] /\ foreign \in BOOLEAN
        /\ late \subseteq Call /\ lock \in Workers \cup {None}
    BY DEF Init
  <2>3. /\ pc \in [Workers -> {"idle", "list", "write", "report"}]
        /\ snap \in [Workers -> Snapshot] /\ call \in [Workers -> Tried]
        /\ verdict \in [Workers -> [kind : Verdicts, id : Ids \cup {None}] \cup {None}]
    BY <1>1 DEF Init
  <2> QED
    BY <2>1, <2>2, <2>3 DEF TypeOK
<1>3. ReadyIsIntended /\ NotForgotten /\ DeletedIsOver
  BY DEF Init, ReadyIsIntended, NotForgotten, DeletedIsOver
<1>4. LockHeld /\ SnapshotsCurrent /\ ShownStillShown
  BY DNSAssumption DEF Init, LockHeld, SnapshotsCurrent, ShownStillShown
<1>5. Answering
  BY DEF Init, Answering, Idle
<1> QED
  BY <1>2, <1>3, <1>4, <1>5 DEF IInv

-----------------------------------------------------------------------------
(* The intent *)

LEMMA EnsureIntentKeeps ==
    ASSUME IInv, NEW ip \in IPs, EnsureIntent(ip)
    PROVE  IInv'
<1> USE DEF IInv, EnsureIntent, worker, zone
<1>1. UNCHANGED <<action, observed, cached, zone, lock, worker, faults>> /\ action = "present"
  OBVIOUS
<1>2. TypeOK'
  <2>1. /\ desired' \in IPs /\ gen' \in 1..MaxGen /\ status' \in Status
        /\ scheduled' \in BOOLEAN /\ invalid' \in BOOLEAN
    <3>1. status' \in Status
      BY DEF TypeOK, Status
    <3>2. gen' \in 1..MaxGen
      BY DNSAssumption DEF TypeOK
    <3>3. scheduled' \in BOOLEAN /\ invalid' \in BOOLEAN
      BY DEF TypeOK
    <3> QED
      BY <3>1, <3>2, <3>3
  <2> QED
    BY <1>1, <2>1 DEF TypeOK
<1>3. ReadyIsIntended' /\ NotForgotten' /\ DeletedIsOver'
  BY DEF ReadyIsIntended, NotForgotten, DeletedIsOver, TypeOK
<1>4. LockHeld' /\ Answering'
  BY DEF LockHeld, Answering
<1>5. gen' >= gen /\ (gen' = gen => desired' = desired)
  BY DEF TypeOK
<1>6. \A w \in Workers : snap[w].gen \in Nat /\ gen \in Nat /\ gen' \in Nat
  BY DNSAssumption, <1>2 DEF TypeOK, Snapshot
<1>7. SnapshotsCurrent' /\ ShownStillShown'
  BY <1>1, <1>5, <1>6 DEF SnapshotsCurrent, ShownStillShown, Current
<1> QED
  BY <1>2, <1>3, <1>4, <1>7

LEMMA EnsureInvalidKeeps ==
    ASSUME IInv, EnsureInvalid
    PROVE  IInv'
<1> USE DEF IInv, EnsureInvalid, Fault, worker, zone
<1>1. TypeOK'
  <2>1. /\ status' \in Status /\ scheduled' \in BOOLEAN /\ invalid' \in BOOLEAN
        /\ faults' \in 0..MaxFaults
    <3>1. status' \in Status
      BY DEF Status
    <3>2. faults' \in 0..MaxFaults
      BY DNSAssumption DEF TypeOK
    <3>3. scheduled' \in BOOLEAN /\ invalid' \in BOOLEAN
      OBVIOUS
    <3> QED
      BY <3>1, <3>2, <3>3
  <2>2. UNCHANGED <<action, desired, gen, observed, cached, zone, lock, worker>>
    OBVIOUS
  <2> QED
    BY <2>1, <2>2 DEF TypeOK
<1>2. ReadyIsIntended' /\ NotForgotten' /\ DeletedIsOver'
  BY DEF ReadyIsIntended, NotForgotten, DeletedIsOver
<1>3. LockHeld' /\ Answering' /\ SnapshotsCurrent' /\ ShownStillShown'
  BY DEF LockHeld, Answering, SnapshotsCurrent, ShownStillShown, Current
<1> QED
  BY <1>1, <1>2, <1>3

LEMMA DeleteNodeKeeps ==
    ASSUME IInv, DeleteNode
    PROVE  IInv'
<1> USE DEF IInv, DeleteNode, worker, zone
<1>1. TypeOK'
  <2>1. /\ action' \in {"present", "delete"} /\ gen' \in 1..MaxGen /\ status' \in Status
        /\ scheduled' \in BOOLEAN
    BY DNSAssumption DEF TypeOK, Status
  <2>2. UNCHANGED <<desired, observed, cached, invalid, zone, lock, worker, faults>>
    OBVIOUS
  <2> QED
    BY <2>1, <2>2 DEF TypeOK
<1>2. ReadyIsIntended' /\ NotForgotten' /\ DeletedIsOver'
  BY DEF ReadyIsIntended, NotForgotten, DeletedIsOver
<1>3. LockHeld' /\ Answering'
  BY DEF LockHeld, Answering
<1>4. \A w \in Workers : snap[w].gen \in Nat /\ gen \in Nat
  BY DNSAssumption DEF TypeOK, Snapshot
<1>5. SnapshotsCurrent' /\ ShownStillShown'
  BY <1>4, DNSAssumption DEF SnapshotsCurrent, ShownStillShown, Current
<1> QED
  BY <1>1, <1>2, <1>3, <1>5

-----------------------------------------------------------------------------
(* A worker *)

LEMMA AcquireKeeps ==
    ASSUME IInv, NEW w \in Workers, Acquire(w)
    PROVE  IInv'
<1> USE DEF IInv, Acquire, row, zone
<1> DEFINE s == [action |-> action, gen |-> gen, ip |-> desired, cached |-> cached,
                 shown |-> status = "ready" /\ desired = observed]
<1>1. s \in Snapshot /\ NotYet \in Tried
  BY DNSAssumption DEF TypeOK, Snapshot, NotYet, Written, Tried, NoCall
<1>2. /\ UNCHANGED <<row, zone, verdict, faults>> /\ lock' = w /\ pc[w] = "idle"
      /\ snap' = [snap EXCEPT ![w] = s]
      /\ call' = [call EXCEPT ![w] = NotYet]
      /\ pc' = [pc EXCEPT ![w] = "list"]
  OBVIOUS
<1>3. TypeOK'
  BY <1>1, <1>2 DEF TypeOK
<1>4. ReadyIsIntended' /\ NotForgotten' /\ DeletedIsOver'
  BY DEF ReadyIsIntended, NotForgotten, DeletedIsOver
<1>5. s.gen = gen /\ s.ip = desired /\ s.action = action
      /\ (s.shown => status = "ready" /\ desired = observed)
  OBVIOUS
<1>6. /\ snap'[w] = s /\ call'[w] = NotYet /\ pc'[w] = "list"
      /\ \A v \in Workers \ {w} : snap'[v] = snap[v] /\ call'[v] = call[v] /\ pc'[v] = pc[v]
  BY <1>2 DEF TypeOK
<1> HIDE DEF s
<1>7. LockHeld'
  BY <1>2, <1>6 DEF LockHeld
<1>8. SnapshotsCurrent'
  BY <1>2, <1>5, <1>6 DEF SnapshotsCurrent, Current, TypeOK
<1>9. ShownStillShown'
  BY <1>2, <1>5, <1>6 DEF ShownStillShown, ReadyIsIntended
<1>10. Answering'
  BY <1>2, <1>6 DEF Answering, NotYet, Written, NoCall
<1> QED
  BY <1>3, <1>4, <1>7, <1>8, <1>9, <1>10

(* A step of a worker that leaves the row and the locks alone. *)
LEMMA WorkKeeps ==
    ASSUME IInv, NEW w \in Workers, TypeOK',
           UNCHANGED <<row, lock, snap>>,
           pc[w] # "idle", pc'[w] # "idle",
           \A v \in Workers \ {w} : pc'[v] = pc[v] /\ call'[v] = call[v] /\ verdict'[v] = verdict[v],
           snap[w].action = "delete" => call'[w].done.op \in {"none", "delete"},
           pc'[w] = "write" => call'[w].done \in Call,
           pc'[w] = "report" =>
               /\ verdict'[w] \in [kind : Verdicts, id : Ids \cup {None}]
               /\ verdict'[w].kind = "ready" => snap[w].action = "present"
    PROVE  IInv'
<1> USE DEF IInv, row
<1>1. ReadyIsIntended' /\ NotForgotten' /\ DeletedIsOver'
  BY DEF ReadyIsIntended, NotForgotten, DeletedIsOver
<1>2. LockHeld' /\ SnapshotsCurrent' /\ ShownStillShown'
  <2>1. \A v \in Workers : pc'[v] # "idle" <=> pc[v] # "idle"
    OBVIOUS
  <2> QED
    BY <2>1 DEF LockHeld, SnapshotsCurrent, ShownStillShown, Current
<1>3. Answering'
  BY DEF Answering
<1> QED
  BY <1>1, <1>2, <1>3

Outcomes == {"goOn", "ready", "conflict", "retry", "rejected"}

(* What a listing after a call may say: ready only after a create or an update. *)
LEMMA AfterWriteType ==
    ASSUME IInv, NEW w \in Workers
    PROVE  /\ AfterWrite(w) \in Outcomes
           /\ AfterWrite(w) = "ready" => snap[w].action = "present" /\ Owned # {}
<1> DEFINE op == call[w].done.op
           err == call[w].err
<1>1. /\ op \in {"none", "create", "update", "delete"}
      /\ snap[w].action = "delete" => op \in {"none", "delete"}
      /\ snap[w].action \in {"present", "delete"}
  BY DEF IInv, TypeOK, Tried, Call, NoCall, Answering, Snapshot
<1>2. Failure(err) \in Outcomes \ {"goOn", "ready"}
  BY DEF Failure, Outcomes
<1>3. Cardinality(Owned) = 1 => Owned # {}
  BY OwnedIsFinite
<1>4. CASE op = "none"
  BY <1>4 DEF AfterWrite, Outcomes
<1>5. CASE op = "create"
  BY <1>1, <1>2, <1>3, <1>5 DEF AfterWrite, Outcomes
<1>6. CASE op = "update"
  BY <1>1, <1>2, <1>3, <1>6 DEF AfterWrite, Outcomes
<1>7. CASE op = "delete"
  BY <1>1, <1>2, <1>7 DEF AfterWrite, Outcomes
<1> QED
  BY <1>1, <1>4, <1>5, <1>6, <1>7

(* A worker that reports. *)
LEMMA ReportKeeps ==
    ASSUME IInv, NEW w \in Workers, pc[w] # "idle",
           NEW k \in Verdicts, NEW id \in Ids \cup {None},
           Report(w, k, id), k = "ready" => snap[w].action = "present",
           UNCHANGED <<row, zone, lock, snap>>, faults' \in 0..MaxFaults
    PROVE  IInv'
<1> DEFINE v == [kind |-> k, id |-> id]
<1>1. /\ pc' = [pc EXCEPT ![w] = "report"] /\ verdict' = [verdict EXCEPT ![w] = v] /\ call' = call
  BY DEF Report
<1>2. v \in [kind : Verdicts, id : Ids \cup {None}]
  OBVIOUS
<1>3. v.kind = k
  OBVIOUS
<1> HIDE DEF v
<1>4. TypeOK'
  BY <1>1, <1>2 DEF IInv, TypeOK, row, zone
<1>5. /\ pc'[w] = "report" /\ verdict'[w] = v
      /\ \A u \in Workers \ {w} : pc'[u] = pc[u] /\ verdict'[u] = verdict[u]
  BY <1>1 DEF IInv, TypeOK
<1> QED
  BY <1>1, <1>2, <1>3, <1>4, <1>5, WorkKeeps DEF IInv, Answering

(* A worker that decides on a call. *)
LEMMA WriteKeeps ==
    ASSUME IInv, NEW w \in Workers, pc[w] # "idle",
           NEW op \in {"create", "update", "delete"}, NEW id \in Ids \cup {None},
           NEW keep \in Ids \cup {None},
           Write(w, op, id, keep), snap[w].action = "delete" => op = "delete",
           UNCHANGED <<row, zone, lock, snap, faults>>
    PROVE  IInv'
<1> DEFINE c == [op |-> op, id |-> id, ip |-> snap[w].ip]
           x == Written(c, "none", keep)
<1>1. /\ pc' = [pc EXCEPT ![w] = "write"] /\ call' = [call EXCEPT ![w] = x] /\ verdict' = verdict
  BY DEF Write
<1>2. snap[w].ip \in IPs
  BY DEF IInv, SnapshotsCurrent
<1>3. c \in Call /\ c.op = op
  BY <1>2 DEF Call
<1>4. x \in Tried /\ x.done = c
  BY <1>3 DEF Written, Tried
<1> HIDE DEF c, x
<1>5. TypeOK'
  BY <1>1, <1>4 DEF IInv, TypeOK, row, zone
<1>6. /\ pc'[w] = "write" /\ call'[w] = x
      /\ \A u \in Workers \ {w} : pc'[u] = pc[u] /\ call'[u] = call[u]
  BY <1>1 DEF IInv, TypeOK
<1> QED
  BY <1>1, <1>3, <1>4, <1>5, <1>6, WorkKeeps

(* ReconcilePresent and ReconcileDelete, on what the listing shows. *)
LEMMA ReconcileDecides ==
    ASSUME IInv, NEW w \in Workers, pc[w] # "idle",
           IF snap[w].action = "delete" THEN ReconcileDelete(w) ELSE ReconcilePresent(w),
           UNCHANGED <<row, zone, lock, snap, faults>>
    PROVE  IInv'
<1>1. faults' \in 0..MaxFaults /\ snap[w].action \in {"present", "delete"}
  BY DEF IInv, TypeOK, Snapshot
<1>2. /\ Owned \subseteq Ids
      /\ Owned # {} => Lowest(Owned) \in Ids
  BY OwnedIsFinite, LowestIsMember
<1>3. CASE snap[w].action = "delete"
  <2>1. CASE Owned = {}
    <3>1. Report(w, "deleted", None)
      BY <1>3, <2>1 DEF ReconcileDelete
    <3> QED
      BY <1>1, <3>1, ReportKeeps DEF Verdicts
  <2>2. CASE Owned # {}
    <3>1. Write(w, "delete", Lowest(Owned), None)
      BY <1>3, <2>2 DEF ReconcileDelete
    <3> QED
      BY <1>2, <2>2, <3>1, WriteKeeps
  <2> QED
    BY <2>1, <2>2
<1>4. CASE snap[w].action = "present"
  <2>1. ReconcilePresent(w)
    BY <1>4
  <2>2. Owned # {} => Keeper(w) \in Ids
    BY <1>2 DEF Keeper
  <2>3. CASE foreign
    <3>1. Report(w, "conflict", None)
      BY <2>1, <2>3 DEF ReconcilePresent
    <3> QED
      BY <1>1, <3>1, ReportKeeps DEF Verdicts
  <2>4. CASE ~foreign /\ Owned = {}
    <3>1. Write(w, "create", None, None)
      <4>1. ~foreign /\ Owned = {} /\ ~(Cardinality(Owned) > 1) /\ Cardinality(Owned) # 1
        BY <2>4, OwnedIsFinite
      <4> QED
        BY <2>1, <4>1 DEF ReconcilePresent
    <3> QED
      BY <1>4, <3>1, WriteKeeps
  <2>5. CASE ~foreign /\ Cardinality(Owned) > 1
    <3>1. Owned # {}
      BY <2>5, OwnedIsFinite
    <3>2. Write(w, "delete", Lowest(Owned \ {Keeper(w)}), Keeper(w))
      <4>1. ~foreign /\ Owned # {} /\ Cardinality(Owned) > 1 /\ Cardinality(Owned) # 1
        BY <2>5, <3>1, OwnedIsFinite
      <4> HIDE DEF Owned
      <4> QED
        BY <2>1, <4>1 DEF ReconcilePresent
    <3>3. Owned \ {Keeper(w)} # {}
      <4>1. Cardinality({Keeper(w)}) = 1
        BY FS_Singleton
      <4>2. Owned # {Keeper(w)}
        BY <2>5, <4>1
      <4> QED
        BY <3>1, <4>2
    <3>4. Lowest(Owned \ {Keeper(w)}) \in Ids
      BY <1>2, <3>3, LowestIsMember
    <3> QED
      BY <1>4, <2>2, <3>1, <3>2, <3>4, WriteKeeps
  <2>6. CASE ~foreign /\ Cardinality(Owned) = 1
    <3>1. Owned # {}
      BY <2>6, OwnedIsFinite
    <3>2. IF Matches(w, Keeper(w)) THEN Report(w, "ready", Keeper(w))
                                   ELSE Write(w, "update", Keeper(w), Keeper(w))
      BY <2>1, <2>6, <3>1 DEF ReconcilePresent
    <3>3. CASE Report(w, "ready", Keeper(w))
      BY <1>1, <1>4, <2>2, <3>1, <3>3, ReportKeeps DEF Verdicts
    <3>4. CASE Write(w, "update", Keeper(w), Keeper(w))
      BY <1>4, <2>2, <3>1, <3>4, WriteKeeps
    <3> QED
      BY <3>2, <3>3, <3>4
  <2>7. Cardinality(Owned) > 1 \/ Cardinality(Owned) = 1 \/ Owned = {}
    BY OwnedIsFinite
  <2> QED
    BY <2>3, <2>4, <2>5, <2>6, <2>7
<1> QED
  BY <1>1, <1>3, <1>4

LEMMA ListKeeps ==
    ASSUME IInv, NEW w \in Workers,
           List(w) \/ \E err \in {"transient", "durable"} : ListFails(w, err)
    PROVE  IInv'
<1>1. pc[w] # "idle"
  BY DEF List, ListFails
<1>2. CASE List(w)
  <2>1. /\ UNCHANGED <<row, zone, lock, snap, faults>>
        /\ faults' \in 0..MaxFaults
    BY <1>2 DEF List, IInv, TypeOK
  <2>2. CASE AfterWrite(w) = "ready"
    <3>1. Report(w, "ready", Lowest(Owned))
      BY <1>2, <2>2 DEF List
    <3>2. Lowest(Owned) \in Ids /\ snap[w].action = "present"
      BY <2>2, AfterWriteType, OwnedIsFinite, LowestIsMember
    <3> QED
      BY <1>1, <2>1, <3>1, <3>2, ReportKeeps DEF Verdicts
  <2>3. CASE AfterWrite(w) \notin {"ready", "goOn"}
    <3>1. Report(w, AfterWrite(w), None)
      BY <1>2, <2>3 DEF List
    <3>2. AfterWrite(w) \in Verdicts /\ AfterWrite(w) # "ready"
      BY <2>3, AfterWriteType DEF Verdicts, Outcomes
    <3> QED
      BY <1>1, <2>1, <3>1, <3>2, ReportKeeps
  <2>4. CASE AfterWrite(w) = "goOn"
    <3>1. IF snap[w].action = "delete" THEN ReconcileDelete(w) ELSE ReconcilePresent(w)
      BY <1>2, <2>4 DEF List
    <3> QED
      BY <1>1, <2>1, <3>1, ReconcileDecides
  <2> QED
    BY <2>2, <2>3, <2>4
<1>3. ASSUME NEW err \in {"transient", "durable"}, ListFails(w, err)
      PROVE  IInv'
  <2>1. /\ Report(w, Failure(err), None) /\ UNCHANGED <<row, zone, lock, snap>>
        /\ Failure(err) \in Verdicts /\ Failure(err) # "ready"
    BY <1>3 DEF ListFails, Failure, Verdicts
  <2>2. faults' \in 0..MaxFaults
    BY <1>3, DNSAssumption DEF ListFails, Fault, IInv, TypeOK
  <2> QED
    BY <1>1, <2>1, <2>2, ReportKeeps
<1> QED
  BY <1>2, <1>3

-----------------------------------------------------------------------------
(* A provider call *)

LEMMA AppliedType ==
    ASSUME IInv, NEW c \in Call, NEW id \in Target(c)
    PROVE  Applied(c, id) \in [Ids -> IPs \cup {None, Wrong}]
<1>1. c.ip \in IPs
  BY DEF Call
<1>2. id \in Ids
  BY DEF Target, Unused, Owned
<1>3. records \in [Ids -> IPs \cup {None, Wrong}]
  BY DEF IInv, TypeOK
<1> QED
  BY <1>1, <1>2, <1>3 DEF Applied

(* The worker has its answer; what the zone became is a zone. *)
LEMMA AnsweredKeeps ==
    ASSUME IInv, NEW w \in Workers, pc[w] = "write",
           NEW err \in {"none", "transient", "durable"}, Answered(w, err),
           records' \in [Ids -> IPs \cup {None, Wrong}], late' \subseteq Call,
           faults' \in 0..MaxFaults
    PROVE  IInv'
<1>1. /\ pc' = [pc EXCEPT ![w] = "list"] /\ call' = [call EXCEPT ![w].err = err]
      /\ UNCHANGED <<row, foreign, lock, snap, verdict>>
  BY DEF Answered
<1>2. call' \in [Workers -> Tried]
  BY <1>1 DEF IInv, TypeOK, Tried
<1>3. TypeOK'
  BY <1>1, <1>2 DEF IInv, TypeOK, row
<1>4. /\ pc'[w] = "list" /\ call'[w].done = call[w].done
      /\ \A u \in Workers \ {w} : pc'[u] = pc[u] /\ call'[u] = call[u]
  BY <1>1 DEF IInv, TypeOK, Tried
<1>5. snap[w].action = "delete" => call'[w].done.op \in {"none", "delete"}
  BY <1>4 DEF IInv, Answering
<1> QED
  BY <1>1, <1>3, <1>4, <1>5, WorkKeeps

LEMMA CallKeeps ==
    ASSUME IInv, NEW w \in Workers,
           \/ CallProvider(w) \/ CallNotFound(w)
           \/ \E err \in {"transient", "durable"} : CallFails(w, err)
    PROVE  IInv'
<1> DEFINE c == call[w].done
<1>1. pc[w] = "write"
  BY DEF CallProvider, CallNotFound, CallFails
<1>2. c \in Call
  BY <1>1 DEF IInv, Answering
<1>3. /\ records \in [Ids -> IPs \cup {None, Wrong}] /\ late \subseteq Call
      /\ faults \in 0..MaxFaults
  BY DEF IInv, TypeOK
<1>4. CASE CallProvider(w)
  <2>1. PICK id \in Target(c) : records' = Applied(c, id)
    BY <1>4 DEF CallProvider
  <2>2. /\ Answered(w, "none") /\ late' = late /\ faults' = faults
    BY <1>4 DEF CallProvider
  <2> QED
    BY <1>1, <1>2, <1>3, <2>1, <2>2, AppliedType, AnsweredKeeps
<1>5. CASE CallNotFound(w)
  <2>1. Answered(w, "durable") /\ records' = records /\ late' = late /\ faults' = faults
    BY <1>5 DEF CallNotFound
  <2> QED
    BY <1>1, <1>3, <2>1, AnsweredKeeps
<1>6. ASSUME NEW err \in {"transient", "durable"}, CallFails(w, err)
      PROVE  IInv'
  <2>1. Answered(w, err) /\ faults' \in 0..MaxFaults
    BY <1>3, <1>6, DNSAssumption DEF CallFails, Fault
  <2>2. /\ records' = records \/ \E id \in Target(c) : records' = Applied(c, id)
        /\ late' = late \/ late' = late \cup {c}
    BY <1>6 DEF CallFails
  <2>3. records' \in [Ids -> IPs \cup {None, Wrong}] /\ late' \subseteq Call
    BY <1>2, <1>3, <2>2, AppliedType
  <2> QED
    BY <1>1, <2>1, <2>3, AnsweredKeeps
<1> QED
  BY <1>4, <1>5, <1>6

-----------------------------------------------------------------------------
(* The end of a worker's work *)

LEMMA GoIdleKeeps ==
    ASSUME IInv, NEW w \in Workers, GoIdle(w),
           UNCHANGED <<action, desired, gen>>, observed' = observed \/ lock = w
    PROVE  /\ lock' \in Workers \cup {None}
           /\ pc' \in [Workers -> {"idle", "list", "write", "report"}]
           /\ snap' \in [Workers -> Snapshot] /\ call' \in [Workers -> Tried]
           /\ verdict' \in [Workers -> [kind : Verdicts, id : Ids \cup {None}] \cup {None}]
           /\ LockHeld' /\ SnapshotsCurrent' /\ ShownStillShown' /\ Answering'
<1>1. Idle \in Snapshot /\ NotYet \in Tried /\ Idle.action = "present"
  BY DNSAssumption DEF Idle, Snapshot, NotYet, Written, Tried, NoCall
<1>2. /\ pc' = [pc EXCEPT ![w] = "idle"] /\ snap' = [snap EXCEPT ![w] = Idle]
      /\ call' = [call EXCEPT ![w] = NotYet] /\ verdict' = [verdict EXCEPT ![w] = None]
      /\ lock' = IF lock = w THEN None ELSE lock
  BY DEF GoIdle
<1>3. /\ lock' \in Workers \cup {None}
      /\ pc' \in [Workers -> {"idle", "list", "write", "report"}]
      /\ snap' \in [Workers -> Snapshot] /\ call' \in [Workers -> Tried]
      /\ verdict' \in [Workers -> [kind : Verdicts, id : Ids \cup {None}] \cup {None}]
  BY <1>1, <1>2 DEF IInv, TypeOK
<1>4. /\ pc'[w] = "idle" /\ snap'[w] = Idle
      /\ \A u \in Workers \ {w} : /\ pc'[u] = pc[u] /\ snap'[u] = snap[u]
                                  /\ call'[u] = call[u] /\ verdict'[u] = verdict[u]
  BY <1>2 DEF IInv, TypeOK
<1>5. lock' # w /\ \A u \in Workers : lock' = u => lock = u /\ u # w
  BY <1>2, DNSAssumption
<1>6. LockHeld'
  BY <1>4, <1>5 DEF IInv, LockHeld
<1>7. SnapshotsCurrent'
  BY <1>4 DEF IInv, SnapshotsCurrent, Current
<1>8. ShownStillShown'
  BY <1>4, <1>5 DEF IInv, ShownStillShown
<1>9. Answering'
  BY <1>1, <1>4 DEF IInv, Answering
<1> QED
  BY <1>3, <1>6, <1>7, <1>8, <1>9

(* A report speaks of the intent the row still has. *)
LEMMA CompleteKeeps ==
    ASSUME IInv, NEW w \in Workers, Complete(w)
    PROVE  IInv'
<1>1. /\ pc[w] = "report" /\ lock = w /\ gen = snap[w].gen /\ action = snap[w].action
      /\ invalid' = FALSE /\ GoIdle(w)
      /\ UNCHANGED <<action, desired, gen, zone, faults>>
      /\ Ready(w) \/ Deleted(w) \/ Failed(w) \/ Transient(w)
  BY DEF Complete, Current
<1>2. /\ snap[w].ip = desired /\ snap[w].ip \in IPs
      /\ snap[w].shown => action = "present" /\ observed = desired
      /\ verdict[w] \in [kind : Verdicts, id : Ids \cup {None}]
      /\ verdict[w].kind = "ready" => action = "present"
  BY <1>1 DEF IInv, SnapshotsCurrent, ShownStillShown, Answering, Current
<1>3. action \in {"present", "delete"} /\ observed \in IPs \cup {None} /\ cached \in Ids \cup {None}
  BY DEF IInv, TypeOK
<1>4. /\ status' \in Status /\ observed' \in IPs \cup {None} /\ cached' \in Ids \cup {None}
      /\ scheduled' \in BOOLEAN
      /\ ReadyIsIntended' /\ NotForgotten' /\ DeletedIsOver'
  <2>1. CASE Ready(w)
    BY <1>1, <1>2, <2>1 DEF Ready, Status, ReadyIsIntended, NotForgotten, DeletedIsOver
  <2>2. CASE Deleted(w)
    BY <1>3, <2>2 DEF Deleted, Status, ReadyIsIntended, NotForgotten, DeletedIsOver
  <2>3. CASE Failed(w)
    BY <1>3, <2>3 DEF Failed, Status, ReadyIsIntended, NotForgotten, DeletedIsOver
  <2>4. CASE Transient(w)
    <3>1. /\ status' = IF snap[w].action = "delete" THEN "deleting"
                       ELSE IF snap[w].shown THEN "ready" ELSE "pending"
          /\ scheduled' = TRUE /\ observed' = observed /\ cached' = cached
      BY <2>4 DEF Transient
    <3>2. status' \in Status /\ scheduled' \in BOOLEAN
      BY <3>1 DEF Status
    <3>3. ReadyIsIntended'
      BY <1>1, <1>2, <3>1 DEF ReadyIsIntended
    <3>4. NotForgotten' /\ DeletedIsOver'
      BY <1>1, <3>1 DEF NotForgotten, DeletedIsOver
    <3> QED
      BY <1>3, <3>1, <3>2, <3>3, <3>4
  <2> QED
    BY <1>1, <2>1, <2>2, <2>3, <2>4
<1>5. /\ lock' \in Workers \cup {None}
      /\ pc' \in [Workers -> {"idle", "list", "write", "report"}]
      /\ snap' \in [Workers -> Snapshot] /\ call' \in [Workers -> Tried]
      /\ verdict' \in [Workers -> [kind : Verdicts, id : Ids \cup {None}] \cup {None}]
      /\ LockHeld' /\ SnapshotsCurrent' /\ ShownStillShown' /\ Answering'
  BY <1>1, GoIdleKeeps
<1>6. TypeOK'
  BY <1>1, <1>4, <1>5 DEF IInv, TypeOK, zone
<1> QED
  BY <1>4, <1>5, <1>6 DEF IInv

LEMMA QuitsKeep ==
    ASSUME IInv, NEW w \in Workers, Stale(w) \/ Stop(w)
    PROVE  IInv'
<1>1. GoIdle(w) /\ UNCHANGED <<row, records, foreign>>
  BY DEF Stale, Stop, zone
<1>2. /\ lock' \in Workers \cup {None}
      /\ pc' \in [Workers -> {"idle", "list", "write", "report"}]
      /\ snap' \in [Workers -> Snapshot] /\ call' \in [Workers -> Tried]
      /\ verdict' \in [Workers -> [kind : Verdicts, id : Ids \cup {None}] \cup {None}]
      /\ LockHeld' /\ SnapshotsCurrent' /\ ShownStillShown' /\ Answering'
  BY <1>1, GoIdleKeeps DEF row
<1>3. late' \subseteq Call /\ faults' \in 0..MaxFaults
  <2>1. CASE Stale(w)
    BY <2>1 DEF Stale, zone, IInv, TypeOK
  <2>2. CASE Stop(w)
    <3>1. late' = late \/ (pc[w] = "write" /\ late' = late \cup {call[w].done})
      BY <2>2 DEF Stop
    <3>2. faults' \in 0..MaxFaults
      BY <2>2, DNSAssumption DEF Stop, Fault, IInv, TypeOK
    <3> QED
      BY <3>1, <3>2 DEF IInv, TypeOK, Answering
  <2> QED
    BY <2>1, <2>2
<1>4. TypeOK'
  BY <1>1, <1>2, <1>3 DEF IInv, TypeOK, row
<1>5. ReadyIsIntended' /\ NotForgotten' /\ DeletedIsOver'
  BY <1>1 DEF row, IInv, ReadyIsIntended, NotForgotten, DeletedIsOver
<1> QED
  BY <1>2, <1>4, <1>5 DEF IInv

-----------------------------------------------------------------------------
(* What fails *)

(* The zone, and the lock given up, are nothing the invariant depends on. *)
LEMMA OutsideKeeps ==
    ASSUME IInv, UNCHANGED <<row, worker>>, lock' \in {lock, None},
           records' \in [Ids -> IPs \cup {None, Wrong}], foreign' \in BOOLEAN,
           late' \subseteq Call, faults' \in 0..MaxFaults
    PROVE  IInv'
<1> USE DEF row, worker, IInv
<1>1. TypeOK'
  BY DEF TypeOK
<1>2. ReadyIsIntended' /\ NotForgotten' /\ DeletedIsOver'
  BY DEF ReadyIsIntended, NotForgotten, DeletedIsOver
<1>3. LockHeld' /\ ShownStillShown'
  BY DNSAssumption DEF LockHeld, ShownStillShown
<1>4. SnapshotsCurrent' /\ Answering'
  BY DEF SnapshotsCurrent, Answering, Current
<1> QED
  BY <1>1, <1>2, <1>3, <1>4

LEMMA OutsideSteps ==
    ASSUME IInv,
           \/ \E w \in Workers : LoseSession(w)
           \/ \E c \in late : LateTakesEffect(c) \/ LateLost(c)
           \/ \E i \in Ids, content \in {None, Wrong} : Tamper(i, content)
           \/ TamperForeign
    PROVE  IInv'
<1>1. /\ records \in [Ids -> IPs \cup {None, Wrong}] /\ foreign \in BOOLEAN
      /\ late \subseteq Call /\ faults \in 0..MaxFaults
  BY DEF IInv, TypeOK
<1>2. \A kind : Fault(kind) => faults' \in 0..MaxFaults
  BY <1>1, DNSAssumption DEF Fault
<1>3. ASSUME NEW w \in Workers, LoseSession(w) PROVE IInv'
  BY <1>1, <1>2, <1>3, OutsideKeeps DEF LoseSession, zone
<1>4. ASSUME NEW c \in late, LateTakesEffect(c) PROVE IInv'
  <2>1. PICK id \in Target(c) : records' = Applied(c, id)
    BY <1>4 DEF LateTakesEffect
  <2>2. records' \in [Ids -> IPs \cup {None, Wrong}] /\ late' \subseteq Call
    BY <1>1, <1>4, <2>1, AppliedType DEF LateTakesEffect
  <2> QED
    BY <1>1, <1>4, <2>2, OutsideKeeps DEF LateTakesEffect
<1>5. ASSUME NEW c \in late, LateLost(c) PROVE IInv'
  BY <1>1, <1>5, OutsideKeeps DEF LateLost
<1>6. ASSUME NEW i \in Ids, NEW content \in {None, Wrong}, Tamper(i, content) PROVE IInv'
  <2>1. records' \in [Ids -> IPs \cup {None, Wrong}]
    BY <1>1, <1>6 DEF Tamper
  <2> QED
    BY <1>1, <1>2, <1>6, <2>1, OutsideKeeps DEF Tamper
<1>7. CASE TamperForeign
  BY <1>1, <1>2, <1>7, OutsideKeeps DEF TamperForeign
<1> QED
  BY <1>3, <1>4, <1>5, <1>6, <1>7

-----------------------------------------------------------------------------
LEMMA NextKeeps == IInv /\ [Next]_vars => IInv'
<1> SUFFICES ASSUME IInv, [Next]_vars PROVE IInv'
  OBVIOUS
<1>1. CASE Intent
  BY <1>1, EnsureIntentKeeps, EnsureInvalidKeeps, DeleteNodeKeeps DEF Intent
<1>2. CASE Failing
  BY <1>2, ListKeeps, CallKeeps, QuitsKeep, OutsideSteps DEF Failing
<1>3. ASSUME NEW w \in Workers, Acquire(w) PROVE IInv'
  BY <1>3, AcquireKeeps
<1>4. ASSUME NEW w \in Workers, Reconcile(w) PROVE IInv'
  BY <1>4, ListKeeps, CallKeeps, CompleteKeeps, QuitsKeep DEF Reconcile
<1>5. CASE UNCHANGED vars
  <2>1. /\ UNCHANGED <<row, worker>> /\ lock' = lock /\ records' = records
        /\ foreign' = foreign /\ late' = late /\ faults' = faults
    BY <1>5 DEF vars, zone
  <2>2. /\ records \in [Ids -> IPs \cup {None, Wrong}] /\ foreign \in BOOLEAN
        /\ late \subseteq Call /\ faults \in 0..MaxFaults
    BY DEF IInv, TypeOK
  <2> QED
    BY <2>1, <2>2, OutsideKeeps
<1> QED
  BY <1>1, <1>2, <1>3, <1>4, <1>5 DEF Next

LEMMA Inductive == Spec => []IInv
BY Begins, NextKeeps, PTL DEF Spec

(* Every variable keeps its type (database/schema.go, managed_entry_dns). *)
THEOREM TypeCorrect == Spec => []TypeOK
<1>1. IInv => TypeOK
  BY DEF IInv
<1> QED
  BY <1>1, Inductive, PTL

(* A row that says ready is one the panel wants published, and shows the     *)
(* address it now wants, however many workers of how many servers report on  *)
(* older readings, sessions lost and calls late included                     *)
(* (managed_entry_owner_store.go, the fence of complete).                    *)
THEOREM ReadyRowsAreIntended == Spec => []ReadyIsIntended
<1>1. IInv => ReadyIsIntended
  BY DEF IInv
<1> QED
  BY <1>1, Inductive, PTL

(* A row in a status no operator need look at is due again some time         *)
(* (managed_entry_owner_store.go, next_attempt_at).                          *)
THEOREM RowsAreNotForgotten == Spec => []NotForgotten
<1>1. IInv => NotForgotten
  BY DEF IInv
<1> QED
  BY <1>1, Inductive, PTL

(* A deleted node's row stays a deletion and is never shown as pending or    *)
(* ready again, whatever a worker that read it before the deletion reports   *)
(* (DeleteNodeWithManagedDNS, complete).                                     *)
THEOREM DeletionsAreFinal == Spec => DeletionIsFinal
<1>1. IInv /\ [Next]_vars /\ action = "delete" => action' = "delete"
  <2> SUFFICES ASSUME [Next]_vars, action = "delete" PROVE action' = "delete"
    OBVIOUS
  <2>1. CASE Intent
    BY <2>1 DEF Intent, EnsureIntent, EnsureInvalid, DeleteNode
  <2>2. CASE Failing
    BY <2>2 DEF Failing, ListFails, CallFails, Answered, LoseSession, Stop, LateTakesEffect,
                LateLost, Tamper, TamperForeign, row
  <2>3. CASE \E w \in Workers : Acquire(w) \/ Reconcile(w)
    BY <2>3 DEF Acquire, Reconcile, List, CallProvider, CallNotFound, Complete, Stale,
                Answered, row
  <2>4. CASE UNCHANGED vars
    BY <2>4 DEF vars, row
  <2> QED
    BY <2>1, <2>2, <2>3, <2>4 DEF Next
<1>2. IInv' => (action' = "delete" => status' \notin {"pending", "ready"})
  BY DEF IInv, DeletedIsOver
<1>3. IInv /\ [Next]_vars
        => [action = "delete" => action' = "delete" /\ status' \notin {"pending", "ready"}]_vars
  BY <1>1, <1>2, NextKeeps
<1> QED
  BY <1>3, Inductive, PTL DEF Spec, DeletionIsFinal

=============================================================================

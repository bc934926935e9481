-------------------------- MODULE UuidSlotsProofs --------------------------
(***************************************************************************)
(* Theorems about UuidSlots, for any devices, Exits, limit and windows     *)
(* that satisfy SlotsAssumption.  The inductive invariant dates what is    *)
(* stored and what is under way, and says that a report is truthful: it    *)
(* names every association that is older than the report and still open.   *)
(***************************************************************************)
EXTENDS UuidSlots, FiniteSetTheorems, TLAPS

(* Nothing is dated in the future. *)
Dated ==
    /\ \A d \in Devices : reservedAt[d] <= now /\ absence[d].since <= now
    /\ \A n \in Nodes : report[n].sampled <= now /\ report[n].at <= now
    /\ \A n \in Nodes, d \in Devices : open[n][d] <= now
    /\ \A m \in reports : m.sampled <= now

(* A report arrives within the delay of its node. *)
Prompt ==
    /\ \A m \in reports : now <= m.sampled + Delay[m.node]
    /\ \A n \in Nodes : report[n].at <= report[n].sampled + Delay[n]

Names(n, time, ids) ==
    \A d \in Devices : open[n][d] # 0 /\ open[n][d] < time => d \in ids

(* An association that was open when the report was made is in it, or ended. *)
Truthful ==
    /\ \A m \in reports : Names(m.node, m.sampled, m.ids)
    /\ \A n \in Nodes : Names(n, report[n].sampled, report[n].ids)

IInv == TypeOK /\ SlotsWithinLimit /\ AbsenceIsOfHolder /\ Dated /\ Prompt /\ Truthful

-----------------------------------------------------------------------------
LEMMA SlotsAreFinite ==
    ASSUME TypeOK
    PROVE  IsFiniteSet(slots) /\ Cardinality(slots) \in Nat
BY SlotsAssumption, FS_Subset, FS_CardinalityType DEF TypeOK

LEMMA DelaysAreNumbers == \A n \in Nodes : Delay[n] \in Nat
  BY SlotsAssumption

LEMMA Begins == Init => IInv
<1> SUFFICES ASSUME Init PROVE IInv
  OBVIOUS
<1>1. TypeOK
  BY DEF Init, TypeOK, Absent, NoReport
<1>2. SlotsWithinLimit
  BY FS_EmptySet, SlotsAssumption DEF Init, SlotsWithinLimit
<1>3. AbsenceIsOfHolder /\ Dated
  BY DEF Init, AbsenceIsOfHolder, Dated, Absent, NoReport
<1>4. Prompt /\ Truthful
  BY SlotsAssumption DEF Init, Prompt, Truthful, Names, NoReport
<1> QED
  BY <1>1, <1>2, <1>3, <1>4 DEF IInv

-----------------------------------------------------------------------------
(* Steps of the account: what reports say is left alone. *)

LEMMA AdmissionKeeps ==
    ASSUME IInv, NEW n \in Nodes, NEW d \in Devices, AdmitHolder(n, d)
    PROVE  IInv'
<1> USE DEF IInv, AdmitHolder, account, fleet, agents
<1>1. TypeOK'
  BY DEF TypeOK, Granted
<1>2. SlotsWithinLimit' /\ AbsenceIsOfHolder'
  BY DEF SlotsWithinLimit, AbsenceIsOfHolder
<1>3. Dated' /\ Prompt' /\ Truthful'
  BY DEF Dated, Prompt, Truthful, Names
<1> QED
  BY <1>1, <1>2, <1>3

LEMMA ReserveKeeps ==
    ASSUME IInv, NEW n \in Nodes, NEW d \in Devices, Reserve(n, d)
    PROVE  IInv'
<1> USE DEF IInv, Reserve, fleet, agents
<1>1. TypeOK'
  BY DEF TypeOK, Granted
<1>2. SlotsWithinLimit'
  <2>1. Cardinality(slots \cup {d}) = Cardinality(slots) + 1
    BY SlotsAreFinite, FS_AddElement
  <2> QED
    BY <2>1, SlotsAreFinite, SlotsAssumption DEF SlotsWithinLimit
<1>3. AbsenceIsOfHolder'
  BY DEF AbsenceIsOfHolder, TypeOK
<1>4. Dated'
  BY DEF Dated, TypeOK
<1>5. Prompt' /\ Truthful'
  BY DEF Prompt, Truthful, Names
<1> QED
  BY <1>1, <1>2, <1>3, <1>4, <1>5

(* An association that opens is as old as now, and no report is younger. *)
LEMMA OpenKeeps ==
    ASSUME IInv, NEW n \in Nodes, NEW d \in Devices, Open(n, d)
    PROVE  IInv'
<1> USE DEF IInv, Open, account, fleet, agents
<1>1. TypeOK'
  BY DEF TypeOK
<1>2. SlotsWithinLimit' /\ AbsenceIsOfHolder' /\ Prompt'
  BY DEF SlotsWithinLimit, AbsenceIsOfHolder, Prompt
<1>3. \A k \in Nodes, e \in Devices : open'[k][e] = open[k][e] \/ open'[k][e] = now
  BY DEF TypeOK
<1>4. Dated'
  BY <1>3 DEF Dated, TypeOK
<1>5. Truthful'
  <2>1. \A m \in reports : /\ m.sampled \in Nat /\ m.sampled <= now
                            /\ m.node \in Nodes /\ m.ids \in SUBSET Devices
    BY DEF TypeOK, Dated
  <2>2. \A k \in Nodes : /\ report[k].sampled \in Nat /\ report[k].sampled <= now
                          /\ report[k].ids \in SUBSET Devices
    BY DEF TypeOK, Dated
  <2>3. \A k \in Nodes, time \in Nat, ids \in SUBSET Devices :
            time <= now /\ Names(k, time, ids) => Names(k, time, ids)'
    BY <1>3 DEF Names, TypeOK
  <2> QED
    BY <2>1, <2>2, <2>3 DEF Truthful
<1> QED
  BY <1>1, <1>2, <1>4, <1>5

(* Associations that end, of one device or with their process. *)
LEMMA CloseKeeps ==
    ASSUME IInv, NEW n \in Nodes, Restart(n) \/ \E d \in Devices : Close(n, d)
    PROVE  IInv'
<1> USE DEF IInv, Restart, Close, account, fleet, agents, wire
<1>1. TypeOK'
  <2>1. CASE Restart(n)
    BY <2>1 DEF TypeOK
  <2>2. ASSUME NEW d \in Devices, Close(n, d) PROVE TypeOK'
    BY <2>2 DEF TypeOK
  <2> QED
    BY <2>1, <2>2
<1>2. SlotsWithinLimit' /\ AbsenceIsOfHolder' /\ Prompt'
  BY DEF SlotsWithinLimit, AbsenceIsOfHolder, Prompt
<1>3. \A k \in Nodes, e \in Devices : open'[k][e] = open[k][e] \/ open'[k][e] = 0
  <2>1. CASE Restart(n)
    BY <2>1 DEF TypeOK
  <2>2. ASSUME NEW d \in Devices, Close(n, d)
        PROVE  \A k \in Nodes, e \in Devices : open'[k][e] = open[k][e] \/ open'[k][e] = 0
    BY <2>2 DEF TypeOK
  <2> QED
    BY <2>1, <2>2
<1>4. Dated'
  <2>1. UNCHANGED <<now, reservedAt, absence, report, reports>>
    OBVIOUS
  <2>2. now \in Nat
    BY DEF TypeOK
  <2>3. \A k \in Nodes, e \in Devices : open'[k][e] <= now
    BY <1>3, <2>2 DEF Dated
  <2> QED
    BY <2>1, <2>3 DEF Dated
<1>5. Truthful'
  <2>1. \A m \in reports : m.node \in Nodes
    BY DEF TypeOK
  <2>2. \A k \in Nodes : \A time, ids : Names(k, time, ids) => Names(k, time, ids)'
    BY <1>3 DEF Names
  <2> QED
    BY <2>1, <2>2 DEF Truthful
<1> QED
  BY <1>1, <1>2, <1>4, <1>5

-----------------------------------------------------------------------------
(* Steps of the reports. *)

LEMMA AnnounceKeeps ==
    ASSUME IInv, NEW n \in Nodes, Announce(n)
    PROVE  IInv'
<1> USE DEF IInv, Announce, account, fleet, agents
<1>1. TypeOK'
  BY DEF TypeOK
<1>2. SlotsWithinLimit' /\ AbsenceIsOfHolder'
  BY DEF SlotsWithinLimit, AbsenceIsOfHolder
<1>3. Dated' /\ Prompt' /\ Truthful'
  BY DEF Dated, Prompt, Truthful, Names
<1> QED
  BY <1>1, <1>2, <1>3

LEMMA BeginKeeps ==
    ASSUME IInv, NEW n \in Nodes, BeginExitReportGeneration(n)
    PROVE  IInv'
<1> USE DEF IInv, account
<1> PICK m \in begins :
        /\ begins' = begins \ {m}
        /\ fence' = [fence EXCEPT ![n] = m.gen]
        /\ report' = [report EXCEPT ![n] = NoReport]
        /\ announced' \in {announced, [announced EXCEPT ![n] = TRUE]}
        /\ UNCHANGED <<now, account, process, sampled, open, answers, reports>>
  BY DEF BeginExitReportGeneration
<1>1. TypeOK'
  <2>1. m.gen \in Nat
    BY DEF TypeOK
  <2>2. announced' \in [Nodes -> BOOLEAN]
    BY DEF TypeOK
  <2>3. report' \in [Nodes -> [gen : Nat, sampled : Nat, ids : SUBSET Devices, at : Nat]]
    BY DEF TypeOK, NoReport
  <2> QED
    BY <2>1, <2>2, <2>3 DEF TypeOK
<1>2. SlotsWithinLimit' /\ AbsenceIsOfHolder'
  BY DEF SlotsWithinLimit, AbsenceIsOfHolder
<1>3. \A k \in Nodes : report'[k] = report[k] \/ report'[k] = NoReport
  BY DEF TypeOK
<1>4. Dated'
  BY <1>3 DEF Dated, TypeOK, NoReport
<1>5. Prompt'
  BY <1>3, DelaysAreNumbers DEF Prompt, TypeOK, NoReport
<1>6. Truthful'
  BY <1>3 DEF Truthful, Names, TypeOK, NoReport
<1> QED
  BY <1>1, <1>2, <1>4, <1>5, <1>6

LEMMA ReportKeeps ==
    ASSUME IInv, NEW n \in Nodes, ReportActiveUUIDs(n)
    PROVE  IInv'
<1> USE DEF IInv, ReportActiveUUIDs, account, fleet
<1> DEFINE new == [node |-> n, gen |-> process[n], sampled |-> now,
                   ids |-> {d \in Devices : open[n][d] # 0}]
<1>1. TypeOK'
  BY DEF TypeOK
<1>2. SlotsWithinLimit' /\ AbsenceIsOfHolder'
  BY DEF SlotsWithinLimit, AbsenceIsOfHolder
<1>3. Dated'
  BY DEF Dated, TypeOK
<1>4. Prompt'
  <2>1. new.node = n /\ new.sampled = now /\ reports' = reports \cup {new}
    OBVIOUS
  <2>2. now <= now + Delay[n]
    BY DelaysAreNumbers DEF TypeOK
  <2> HIDE DEF new
  <2> QED
    BY <2>1, <2>2 DEF Prompt
<1>5. Truthful'
  <2>1. Names(n, now, new.ids)'
    BY DEF Names
  <2> QED
    BY <2>1 DEF Truthful, Names
<1> QED
  BY <1>1, <1>2, <1>3, <1>4, <1>5

(* A report that is stored is one that was under way, with the time it came. *)
LEMMA PublishKeeps ==
    ASSUME IInv, NEW n \in Nodes, PublishAdmittedUUIDReport(n)
    PROVE  IInv'
<1> USE DEF IInv, account, agents
<1> PICK m \in reports :
        /\ m.node = n /\ reports' = reports \ {m}
        /\ \/ report' = [report EXCEPT ![n] = [gen |-> m.gen, sampled |-> m.sampled,
                                               ids |-> m.ids, at |-> now]]
           \/ UNCHANGED report
        /\ UNCHANGED <<now, account, fence, agents, open, answers, begins>>
  BY DEF PublishAdmittedUUIDReport
<1>1. TypeOK'
  <2>1. m.gen \in Nat /\ m.sampled \in Nat /\ m.ids \subseteq Devices
    BY DEF TypeOK
  <2>2. [gen |-> m.gen, sampled |-> m.sampled, ids |-> m.ids, at |-> now]
          \in [gen : Nat, sampled : Nat, ids : SUBSET Devices, at : Nat]
    BY <2>1 DEF TypeOK
  <2>3. report \in [Nodes -> [gen : Nat, sampled : Nat, ids : SUBSET Devices, at : Nat]]
    BY DEF TypeOK
  <2>4. report' \in [Nodes -> [gen : Nat, sampled : Nat, ids : SUBSET Devices, at : Nat]]
    BY <2>2, <2>3
  <2> QED
    BY <2>4 DEF TypeOK
<1>2. SlotsWithinLimit' /\ AbsenceIsOfHolder'
  BY DEF SlotsWithinLimit, AbsenceIsOfHolder
<1>3. \A k \in Nodes : \/ report'[k] = report[k]
                       \/ /\ k = m.node /\ report'[k].sampled = m.sampled
                          /\ report'[k].ids = m.ids /\ report'[k].at = now
  BY DEF TypeOK
<1>4. Dated'
  BY <1>3 DEF Dated, TypeOK
<1>5. Prompt'
  BY <1>3 DEF Prompt, TypeOK
<1>6. Truthful'
  BY <1>3 DEF Truthful, Names
<1> QED
  BY <1>1, <1>2, <1>4, <1>5, <1>6

-----------------------------------------------------------------------------
(* The reconciler and the clock. *)

LEMMA ReconcileKeeps ==
    ASSUME IInv, ReconcileAccountUUIDSlots
    PROVE  IInv'
<1> USE DEF IInv, ReconcileAccountUUIDSlots, Release, fleet, agents, wire
<1>1. \A d \in Devices :
          \/ absence'[d] = absence[d] /\ ~ Expired(d)
          \/ absence'[d].since = 0 /\ absence'[d] = Absent
          \/ d \in slots /\ ~ Expired(d) /\ absence'[d] = [since |-> now, nonce |-> nonce[d]]
  BY DEF NextAbsence, Absent, Expired, Missing
<1>2. \A d \in Devices : Expired(d) => d \in slots
  BY DEF Expired, Missing
<1>3. TypeOK'
  <2>1. absence' \in [Devices -> [since : Nat, nonce : Nat]]
    BY <1>1 DEF TypeOK, Absent
  <2> QED
    BY <1>2, <2>1 DEF TypeOK
<1>4. SlotsWithinLimit'
  <2>1. slots' \subseteq slots
    OBVIOUS
  <2>2. Cardinality(slots') <= Cardinality(slots) /\ Cardinality(slots') \in Nat
    BY <2>1, SlotsAreFinite, FS_Subset, FS_CardinalityType
  <2> QED
    BY <2>2, SlotsAreFinite, SlotsAssumption DEF SlotsWithinLimit
<1>5. AbsenceIsOfHolder'
  BY <1>1 DEF AbsenceIsOfHolder, Dated, TypeOK
<1>6. Dated'
  BY <1>1 DEF Dated, TypeOK
<1>7. Prompt' /\ Truthful'
  BY DEF Prompt, Truthful, Names
<1> QED
  BY <1>3, <1>4, <1>5, <1>6, <1>7

LEMMA TickKeeps == ASSUME IInv, Tick PROVE IInv'
<1> USE DEF IInv, Tick, account
<1>1. TypeOK'
  BY DEF TypeOK, NoReport
<1>2. SlotsWithinLimit' /\ AbsenceIsOfHolder'
  BY DEF SlotsWithinLimit, AbsenceIsOfHolder
<1>3. \A n \in Nodes : report'[n] = report[n] \/ report'[n] = NoReport
  OBVIOUS
<1>4. Dated'
  BY <1>3 DEF Dated, TypeOK, NoReport
<1>5. Prompt'
  BY <1>3, DelaysAreNumbers DEF Prompt, TypeOK, NoReport
<1>6. Truthful'
  BY <1>3 DEF Truthful, Names, TypeOK, NoReport
<1> QED
  BY <1>1, <1>2, <1>4, <1>5, <1>6

LEMMA Invariance == Spec => []IInv
<1>1. IInv /\ [Next]_vars => IInv'
  <2> SUFFICES ASSUME IInv, [Next]_vars PROVE IInv'
    OBVIOUS
  <2>1. CASE Tick
    BY <2>1, TickKeeps
  <2>2. CASE ReconcileAccountUUIDSlots
    BY <2>2, ReconcileKeeps
  <2>3. ASSUME NEW n \in Nodes, Node(n) PROVE IInv'
    BY <2>3, AdmissionKeeps, ReserveKeeps, OpenKeeps, CloseKeeps, AnnounceKeeps,
       BeginKeeps, ReportKeeps, PublishKeeps DEF Node
  <2>4. CASE UNCHANGED vars
    BY <2>4 DEF vars, account, fleet, agents, wire, IInv, TypeOK, SlotsWithinLimit,
       AbsenceIsOfHolder, Dated, Prompt, Truthful, Names
  <2> QED
    BY <2>1, <2>2, <2>3, <2>4 DEF Next
<1> QED
  BY <1>1, Begins, PTL DEF Spec

-----------------------------------------------------------------------------
(* The state of the account, the fleet and the wire is always well formed;   *)
(* no holder of a slot lacks the reservation that the reconciler asks for.   *)
THEOREM TypeCorrect == Spec => []TypeOK
BY Invariance, PTL DEF IInv

(* The cap of the plan holds whatever is admitted, released, late or lost.   *)
THEOREM CapIsKept == Spec => []SlotsWithinLimit
BY Invariance, PTL DEF IInv

(* The reconciler counts only absences of the reservation that is held: the  *)
(* nonce it compares can never differ.                                       *)
THEOREM AbsencesAreOfHolders == Spec => []AbsenceIsOfHolder
BY Invariance, PTL DEF IInv

-----------------------------------------------------------------------------
(* A device that is released is in no believed report, so what it has open   *)
(* is not older than the report of its node.                                 *)
LEMMA ReleasedIsUnreported ==
    ASSUME IInv, [Next]_vars, NEW d \in Released, NEW n \in Nodes
    PROVE  /\ d \in Devices /\ Expired(d)
           /\ open[n][d] = 0 \/ open[n][d] >= now - MaxAge - Delay[n]
<1>1. ReconcileAccountUUIDSlots
  <2>1. slots' # slots
    BY DEF Released
  <2>2. CASE \E k \in Nodes : Node(k)
    <3> PICK k \in Nodes : Node(k)
      BY <2>2
    <3>1. slots \subseteq slots'
      BY DEF Node, AdmitHolder, Reserve, Open, Close, Restart, Announce,
             BeginExitReportGeneration, ReportActiveUUIDs, PublishAdmittedUUIDReport,
             account
    <3> QED
      BY <3>1 DEF Released
  <2> QED
    BY <2>1, <2>2 DEF Next, Tick, vars, account
<1>2. d \in Devices /\ Expired(d)
  BY <1>1 DEF Released, ReconcileAccountUUIDSlots, Release, IInv, TypeOK
<1>3. d \notin report[n].ids
  BY <1>2 DEF Expired, Missing, Live
<1>4. open[n][d] = 0 \/ open[n][d] >= report[n].sampled
  BY <1>2, <1>3 DEF IInv, TypeOK, Truthful, Names
<1>5. report[n].sampled >= now - MaxAge - Delay[n]
  <2>1. TTL - (now - report[n].at) >= MinTTL
    BY <1>1 DEF ReconcileAccountUUIDSlots, Believed
  <2>2. report[n].at <= report[n].sampled + Delay[n]
    BY DEF IInv, Prompt
  <2> QED
    BY <2>1, <2>2, SlotsAssumption DEF IInv, TypeOK, MaxAge
<1> QED
  BY <1>2, <1>4, <1>5, SlotsAssumption DEF IInv, TypeOK, MaxAge

(* No association older than the believed reports loses its device's slot.   *)
THEOREM OldAssociationsKeepSlots == Spec => OldAssociationKeepsSlot
<1>1. IInv /\ [Next]_vars =>
          \A d \in Released, n \in Nodes :
              open[n][d] = 0 \/ open[n][d] >= now - MaxAge - Delay[n]
  BY ReleasedIsUnreported
<1> QED
  BY <1>1, Invariance, PTL DEF Spec, OldAssociationKeepsSlot

(* A new device's first association keeps the slot: the absence that would   *)
(* end it began after the reservation, and its window outlasts the delays.   *)
THEOREM NewcomersKeepSlots == Spec => NewcomerKeepsSlot
<1>1. ASSUME IInv, [Next]_vars, NEW d \in Released, NEW n \in Nodes
      PROVE  open[n][d] = 0 \/ open[n][d] > reservedAt[d] + Delay[n]
  <2>1. /\ d \in Devices /\ Expired(d)
        /\ open[n][d] = 0 \/ open[n][d] >= now - MaxAge - Delay[n]
    BY <1>1, ReleasedIsUnreported
  <2>2. absence[d].since >= reservedAt[d] /\ now - absence[d].since >= Window
    BY <1>1, <2>1 DEF Expired, Watched, IInv, AbsenceIsOfHolder
  <2>3. Window > MaxAge + 2 * Delay[n] /\ Delay[n] \in Nat /\ Window \in Nat /\ MaxAge \in Int
    BY SlotsAssumption DEF MaxAge
  <2> QED
    BY <1>1, <2>1, <2>2, <2>3 DEF IInv, TypeOK
<1>2. IInv /\ [Next]_vars =>
          \A d \in Released, n \in Nodes :
              open[n][d] = 0 \/ open[n][d] > reservedAt[d] + Delay[n]
  BY <1>1
<1> QED
  BY <1>2, Invariance, PTL DEF Spec, NewcomerKeepsSlot
=============================================================================

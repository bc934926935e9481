----------------------------- MODULE UuidSlots -----------------------------
(***************************************************************************)
(* How many devices of one account are connected at a time.  An Exit asks  *)
(* the panel before it opens a device's first association; the panel       *)
(* reserves a slot in Redis if the plan has one left.  Every Exit reports  *)
(* the devices it has open, and the reconciler takes back the slot of a    *)
(* device that no Exit has reported for a while.  Requests and answers may *)
(* be late or lost, reports are older than they look, and an Exit's agent  *)
(* may be restarted.                                                       *)
(*                                                                         *)
(* Every Redis script is one action.  Times are those of Redis, starting   *)
(* at 1; 0 means "never".  A tick is a few seconds, in which an agent      *)
(* sends at most one report, so that the time of a report orders the       *)
(* reports of a process as its sequence number does.                       *)
(***************************************************************************)
EXTENDS Integers, FiniteSets

CONSTANTS
    Devices,      \* the account's devices
    Nodes,        \* the Exits it may use
    Limit,        \* max_concurrent of its plan
    TTL,          \* admittedReportTTL, 30 s
    MinTTL,       \* what a report must have left of it, 15 s
    Window,       \* how long a device is absent before its slot is returned, 30 s
    Delay,        \* how late a node's request is answered or arrives, at most: 3 s
    MaxTime,      \* bound on the clock
    MaxRestarts   \* bound on the restarts of a node's agent

MaxAge == TTL - MinTTL   \* of a report that the reconciler believes

\* The windows of the code: 30 s against reports of 15 s and two delays of 3 s.
ASSUME SlotsAssumption ==
    /\ IsFiniteSet(Devices) /\ Nodes # {}
    /\ Limit \in Nat \ {0}   \* 0 is the plan without a cap: nothing is reserved
    /\ TTL \in Nat /\ MinTTL \in 0 .. TTL /\ Window \in Nat /\ Delay \in [Nodes -> Nat]
    /\ MaxTime \in Nat /\ MaxRestarts \in [Nodes -> Nat]
    /\ \A n \in Nodes : Window > MaxAge + 2 * Delay[n]

VARIABLES
    now,         \* the clock of Redis
    slots,       \* account_uuid_slots
    sequence,    \* account_uuid_slots:sequence
    nonce,       \* :reservations, 0 for a device without one
    reservedAt,  \* :reserved_at
    absence,     \* :absence:<device>
    fence,       \* node:<node>:admitted:fence, the generation that may report
    report,      \* node:<node>:admitted
    process,     \* how often the node's agent was started: its generation
    announced,   \* the agent knows that its generation was accepted
    sampled,     \* the agent has reported in this tick
    open,        \* since when a node has an association of a device
    answers,     \* admissions granted and not known to the node yet
    begins,      \* announcements under way
    reports      \* reports under way

account == <<slots, sequence, nonce, reservedAt, absence>>
fleet   == <<fence, report>>
agents  == <<process, announced, sampled>>
wire    == <<answers, begins, reports>>
vars    == <<now, account, fleet, agents, open, wire>>

Absent == [since |-> 0, nonce |-> 0]
NoReport == [gen |-> 0, sampled |-> 0, ids |-> {}, at |-> 0]

TypeOK ==
    /\ now \in Nat \ {0}
    /\ slots \subseteq Devices /\ sequence \in Nat
    /\ nonce \in [Devices -> Nat] /\ reservedAt \in [Devices -> Nat]
    /\ slots = {d \in Devices : nonce[d] # 0}   \* no reservation fence is missing
    /\ slots = {d \in Devices : reservedAt[d] # 0}
    /\ absence \in [Devices -> [since : Nat, nonce : Nat]]
    /\ fence \in [Nodes -> Nat]
    /\ report \in [Nodes -> [gen : Nat, sampled : Nat, ids : SUBSET Devices, at : Nat]]
    /\ process \in [Nodes -> Nat \ {0}] /\ announced \in [Nodes -> BOOLEAN]
    /\ sampled \in [Nodes -> BOOLEAN]
    /\ open \in [Nodes -> [Devices -> Nat]]
    /\ answers \subseteq [node : Nodes, device : Devices, at : Nat]
    /\ begins \subseteq [node : Nodes, gen : Nat, sent : Nat]
    /\ reports \subseteq [node : Nodes, gen : Nat, sampled : Nat, ids : SUBSET Devices]

Init ==
    /\ now = 1
    /\ slots = {} /\ sequence = 0
    /\ nonce = [d \in Devices |-> 0] /\ reservedAt = [d \in Devices |-> 0]
    /\ absence = [d \in Devices |-> Absent]
    /\ fence = [n \in Nodes |-> 0] /\ report = [n \in Nodes |-> NoReport]
    /\ process = [n \in Nodes |-> 1] /\ announced = [n \in Nodes |-> FALSE]
    /\ sampled = [n \in Nodes |-> FALSE]
    /\ open = [n \in Nodes |-> [d \in Devices |-> 0]]
    /\ answers = {} /\ begins = {} /\ reports = {}

-----------------------------------------------------------------------------
(* Admission *)

\* The node waits for one answer per device; more requests would get the same.
Asks(n, d) == \A a \in answers : ~ (a.node = n /\ a.device = d)

Granted(n, d) == answers' = answers \cup {[node |-> n, device |-> d, at |-> now]}

\* A device that holds a slot is admitted, and nothing is recorded of it.
AdmitHolder(n, d) ==
    /\ Asks(n, d) /\ d \in slots
    /\ Granted(n, d)
    /\ UNCHANGED <<now, account, fleet, agents, open, begins, reports>>

\* Mutant: the plan's last slot is given twice.
MutantReserveOneMore(n, d) ==
    /\ Asks(n, d) /\ d \notin slots /\ Cardinality(slots) <= Limit
    /\ sequence' = sequence + 1
    /\ nonce' = [nonce EXCEPT ![d] = sequence + 1]
    /\ reservedAt' = [reservedAt EXCEPT ![d] = now]
    /\ slots' = slots \cup {d}
    /\ Granted(n, d)
    /\ UNCHANGED <<now, absence, fleet, agents, open, begins, reports>>

Reserve(n, d) ==
    /\ Asks(n, d) /\ d \notin slots /\ Cardinality(slots) < Limit
    /\ sequence' = sequence + 1
    /\ nonce' = [nonce EXCEPT ![d] = sequence + 1]
    /\ reservedAt' = [reservedAt EXCEPT ![d] = now]
    /\ slots' = slots \cup {d}
    /\ Granted(n, d)
    /\ UNCHANGED <<now, absence, fleet, agents, open, begins, reports>>

\* The answer arrives and an association opens; with others of the same device
\* open already, the device stays open since the first of them.
Open(n, d) ==
    /\ \E a \in answers : a.node = n /\ a.device = d /\ answers' = answers \ {a}
    /\ open' = [open EXCEPT ![n][d] = IF @ = 0 THEN now ELSE @]
    /\ UNCHANGED <<now, account, fleet, agents, begins, reports>>

\* The last association of the device at this node ends.
Close(n, d) ==
    /\ open[n][d] # 0
    /\ open' = [open EXCEPT ![n][d] = 0]
    /\ UNCHANGED <<now, account, fleet, agents, wire>>

-----------------------------------------------------------------------------
(* Reports *)

\* The agent dies with its associations and starts with a new generation.
Restart(n) ==
    /\ process[n] <= MaxRestarts[n]
    /\ process' = [process EXCEPT ![n] = @ + 1]
    /\ announced' = [announced EXCEPT ![n] = FALSE]
    /\ sampled' = [sampled EXCEPT ![n] = FALSE]
    /\ open' = [open EXCEPT ![n] = [d \in Devices |-> 0]]
    /\ answers' = {a \in answers : a.node # n}
    /\ UNCHANGED <<now, account, fleet, begins, reports>>

\* One request at a time, until one is answered.
Announce(n) ==
    /\ ~ announced[n] /\ \A m \in begins : ~ (m.node = n /\ m.gen = process[n])
    /\ begins' = begins \cup {[node |-> n, gen |-> process[n], sent |-> now]}
    /\ UNCHANGED <<now, account, fleet, agents, open, answers, reports>>

\* The panel lets the generation report, and forgets what another one reported.
\* The agent learns it unless the answer is lost, or it is no longer there.
BeginExitReportGeneration(n) ==
    \E m \in begins :
        /\ m.node = n /\ begins' = begins \ {m}
        /\ fence' = [fence EXCEPT ![n] = m.gen]
        /\ report' = [report EXCEPT ![n] = NoReport]
        /\ \/ UNCHANGED announced
           \/ m.gen = process[n] /\ announced' = [announced EXCEPT ![n] = TRUE]
        /\ UNCHANGED <<now, account, process, sampled, open, answers, reports>>

\* The devices with an open association, idle ones included.
ReportActiveUUIDs(n) ==
    /\ announced[n] /\ ~ sampled[n]
    /\ sampled' = [sampled EXCEPT ![n] = TRUE]
    /\ reports' = reports \cup {[node |-> n, gen |-> process[n], sampled |-> now,
                                 ids |-> {d \in Devices : open[n][d] # 0}]}
    /\ UNCHANGED <<now, account, fleet, process, announced, open, answers, begins>>

\* Refused from another generation, and when a newer one is stored.
Accepted(m) ==
    /\ m.gen = fence[m.node]
    /\ report[m.node].gen = m.gen => m.sampled > report[m.node].sampled

\* A report that is refused changes nothing.
PublishAdmittedUUIDReport(n) ==
    \E m \in reports :
        /\ m.node = n /\ reports' = reports \ {m}
        /\ IF Accepted(m)
           THEN report' = [report EXCEPT ![n] = [gen |-> m.gen, sampled |-> m.sampled,
                                                 ids |-> m.ids, at |-> now]]
           ELSE UNCHANGED report
        /\ UNCHANGED <<now, account, fence, agents, open, answers, begins>>

-----------------------------------------------------------------------------
(* The reconciler *)

\* Mutant: a report is believed until Redis forgets it.
MutantBelievedUntilTTL(n) ==
    /\ report[n].at # 0
    /\ fence[n] # 0 /\ report[n].gen = fence[n]

\* The report's PTTL, and that it is of the generation that may report.
Believed(n) ==
    /\ report[n].at # 0 /\ TTL - (now - report[n].at) >= MinTTL
    /\ fence[n] # 0 /\ report[n].gen = fence[n]

Live == UNION {report[n].ids : n \in Nodes}

\* Some report was published when the device had not been admitted yet.
Fenced(d) == \E n \in Nodes : report[n].at <= reservedAt[d]

Missing(d) == d \in slots /\ d \notin Live /\ ~ Fenced(d)

Watched(d) == absence[d].since # 0 /\ absence[d].nonce = nonce[d]

\* Mutant: absent in two observations, however close.
MutantExpiredAtOnce(d) == Missing(d) /\ Watched(d)

Expired(d) == Missing(d) /\ Watched(d) /\ now - absence[d].since >= Window

\* Mutant: only the membership is removed.
MutantReleaseKeepsReservation(D) ==
    /\ slots' = slots \ D
    /\ UNCHANGED <<nonce, reservedAt>>

Release(D) ==
    /\ slots' = slots \ D
    /\ nonce' = [d \in Devices |-> IF d \in D THEN 0 ELSE nonce[d]]
    /\ reservedAt' = [d \in Devices |-> IF d \in D THEN 0 ELSE reservedAt[d]]

NextAbsence(d) ==
    IF d \notin slots THEN absence[d]
    ELSE IF ~ Missing(d) \/ Expired(d) THEN Absent
    ELSE IF Watched(d) THEN absence[d]
    ELSE [since |-> now, nonce |-> nonce[d]]

ReconcileAccountUUIDSlots ==
    /\ \A n \in Nodes : Believed(n)
    /\ Release({d \in Devices : Expired(d)})
    /\ absence' = [d \in Devices |-> NextAbsence(d)]
    /\ UNCHANGED <<now, sequence, fleet, agents, open, wire>>

-----------------------------------------------------------------------------
(* Time *)

\* What is later than its node's Delay is lost; a report is forgotten when its TTL ends.
Tick ==
    /\ now < MaxTime
    /\ now' = now + 1
    /\ answers' = {a \in answers : now < a.at + Delay[a.node]}
    /\ begins' = {m \in begins : now < m.sent + Delay[m.node]}
    /\ reports' = {m \in reports : now < m.sampled + Delay[m.node]}
    /\ report' = [n \in Nodes |-> IF now + 1 < report[n].at + TTL THEN report[n] ELSE NoReport]
    /\ sampled' = [n \in Nodes |-> FALSE]
    /\ UNCHANGED <<account, fence, process, announced, open>>

Node(n) ==
    \/ Restart(n) \/ Announce(n) \/ BeginExitReportGeneration(n)
    \/ ReportActiveUUIDs(n) \/ PublishAdmittedUUIDReport(n)
    \/ \E d \in Devices : AdmitHolder(n, d) \/ Reserve(n, d) \/ Open(n, d) \/ Close(n, d)

Next == Tick \/ ReconcileAccountUUIDSlots \/ \E n \in Nodes : Node(n)

Spec == Init /\ [][Next]_vars

-----------------------------------------------------------------------------
(* Properties *)

\* uuid_slot.go:20-21: admissions at several Exits, releases and late reports
\* never bring an account above the cap of its plan.
SlotsWithinLimit == Cardinality(slots) <= Limit

\* uuid_slot_reconcile.go:83-85: an absence is of the reservation that holds the slot
\* now, and began after it; the time an earlier holder was away never counts.
AbsenceIsOfHolder ==
    \A d \in Devices : absence[d].since # 0 =>
        /\ d \in slots
        /\ absence[d].nonce = nonce[d] /\ absence[d].since >= reservedAt[d]

Released == slots \ slots'

\* uuid_slot.go:14-15, "an idle but connected tunnel must not lose its admitted
\* slot", for the association that the slot was reserved for: it keeps its slot
\* although every report may have been sampled before it was open.
NewcomerKeepsSlot ==
    [][\A d \in Released, n \in Nodes :
        open[n][d] = 0 \/ open[n][d] > reservedAt[d] + Delay[n]]_vars

\* The same for any association: one that is older than the oldest report that is
\* believed, delay included, keeps its device's slot through restarts, stale
\* generations and reports out of order.
OldAssociationKeepsSlot ==
    [][\A d \in Released, n \in Nodes :
        open[n][d] = 0 \/ open[n][d] >= now - MaxAge - Delay[n]]_vars
=============================================================================

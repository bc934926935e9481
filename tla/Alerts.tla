-------------------------------- MODULE Alerts --------------------------------
(***************************************************************************)
(* One alert of one node: the monitor samples the node, moves the alert's  *)
(* row through its life and pages the operator at its boundaries, while    *)
(* the operator acknowledges, silences and closes the same row             *)
(* (services/alert_rules.go, services/alerts.go,                           *)
(* scheduler/node_monitor.go, handlers/admin_alert.go).                    *)
(*                                                                         *)
(* A pass reads nodes and rows, computes, and writes each row back with a  *)
(* statement of its own; the operator's statements fall in between, and    *)
(* the process may die after any of them. Times are kept as ages, in       *)
(* sweeps of the monitor, each up to the bound it is compared with.        *)
(***************************************************************************)
EXTENDS Integers

CONSTANTS
    Kinds,              \* the rules looked at
    FireFor, ClearFor,  \* by kind: sweeps a breach, a recovery must last
    MaxGap,             \* alertMaxGap: sweeps between samples that still count as one row
    MaxFaults           \* bound: passes that are missed or die

AllKinds == {"offline", "xray_down", "shaping_failed", "cpu", "memory", "disk"}

ASSUME AlertsAssumption ==
    /\ Kinds \subseteq AllKinds
    /\ FireFor \in [Kinds -> Nat] /\ ClearFor \in [Kinds -> Nat]
    /\ MaxGap \in Nat /\ MaxFaults \in Nat

Unset    == -1
Numeric  == {"cpu", "memory", "disk"}
Resource == Kinds \ {"offline"}
Warning  == 1
Error    == 2
BaseSeverity(k) == IF k \in {"offline", "xray_down"} THEN Error ELSE Warning

\* What a reading is worth to a rule: below clear, in the band, at or above
\* fire, at or above deescalate, at or above escalate. A boolean is 0 or 2.
Levels(k) == IF k \in Numeric THEN 0..4 ELSE {0, 2}

VARIABLES
    kind,                  \* which rule: fixed
    status, silent, level, \* the node: nodes.status, no heartbeat for 40 s, its last reading
    row,                   \* node_alerts
    pc, pass, edge,        \* the monitor: stage, what the pass read, the edge it found
    due,                   \* the ticker has fired
    faults,
    told, calm, ackedAt    \* history: pages for this episode; age of the last sample
                           \* that did not show the breach; severity acknowledged

node == <<status, silent, level>>
vars == <<kind, node, row, pc, pass, edge, due, faults, told, calm, ackedAt>>

Ages(n) == {Unset} \cup 0..n
Rows(k) == [exists : BOOLEAN, state : {"ok", "pending", "firing", "stale"}, severity : 0..2,
            breach : Ages(FireFor[k]), clear : Ages(ClearFor[k]), fired : BOOLEAN,
            evaluated : Ages(MaxGap + 1), acked : BOOLEAN, silenced : BOOLEAN]
NewRow  == [exists |-> FALSE, state |-> "ok", severity |-> 0, breach |-> Unset, clear |-> Unset,
            fired |-> FALSE, evaluated |-> Unset, acked |-> FALSE, silenced |-> FALSE]
NoPass  == [row |-> NewRow, online |-> FALSE, level |-> 0]

TypeOK ==
    /\ kind \in Kinds
    /\ status \in {"online", "offline", "gone"} /\ silent \in BOOLEAN /\ level \in 0..4
    /\ row \in Rows(kind)
    /\ row.fired <=> row.state \in {"firing", "stale"}
    /\ pc \in {"idle", "persist", "record"}
    /\ pass \in [row : Rows(kind), online : BOOLEAN, level : 0..4]
    /\ edge \in {"none", "fire", "escalate", "resolve"}
    /\ due \in BOOLEAN
    /\ faults \in 0..MaxFaults
    /\ told \in {"no", "yes", "twice"}
    /\ calm \in 0..FireFor[kind]
    /\ ackedAt \in 0..2

Init ==
    /\ kind \in Kinds
    /\ status = "online" /\ silent = FALSE /\ level \in Levels(kind)
    /\ row = NewRow
    /\ pc = "idle" /\ pass = NoPass /\ edge = "none" /\ due = FALSE
    /\ faults = 0
    /\ told = "no" /\ calm = 0 /\ ackedAt = 0

-----------------------------------------------------------------------------
(* The rules: alert_rules.go *)

\* Mutant: an age that nobody samples counts all the same.
MutantGapCounts(s) == s

\* gapReset: what nobody sampled does not count.
GapReset(s) == IF s.evaluated <= MaxGap THEN s ELSE [s EXCEPT !.breach = Unset, !.clear = Unset]

\* severityFor, holding the current one inside the escalation band.
SeverityFor(current, l) ==
    IF kind \notin Numeric THEN BaseSeverity(kind)
    ELSE IF l = 4 THEN Error
    ELSE IF l < 3 \/ current = 0 THEN BaseSeverity(kind) ELSE current

Since(age) == IF age = Unset THEN 0 ELSE age

\* Mutant: an alert whose node stopped reporting is taken for recovered.
MutantFrozenResolves(s) == [s EXCEPT !.state = "ok", !.breach = Unset, !.clear = Unset,
                                     !.fired = FALSE]

\* advance: a resource rule on a node that does not report.
Frozen(s) == [s EXCEPT !.state = IF s.fired THEN "stale" ELSE "ok",
                       !.breach = Unset, !.clear = Unset]

\* advance: a breaching sample. An episode that fired is resumed.
Breaching(s) ==
    LET b == [s EXCEPT !.clear = Unset, !.breach = Since(s.breach)]
        fires == s.fired \/ s.state = "firing" \/ b.breach >= FireFor[kind] IN
    [b EXCEPT !.state = IF fires THEN "firing" ELSE "pending",
              !.fired = s.fired \/ (fires /\ s.state # "firing")]

\* Mutant: every clearing sample restarts the recovery.
MutantClearingRestarts(s) ==
    LET c == [s EXCEPT !.breach = Unset, !.clear = 0] IN
    IF c.clear < ClearFor[kind]
    THEN [c EXCEPT !.state = IF @ = "pending" THEN "ok" ELSE @]
    ELSE IF s.state = "ok" THEN c ELSE [c EXCEPT !.state = "ok", !.fired = FALSE]

\* advance: a clearing sample. Only an episode that fired can be resolved.
Clearing(s) ==
    LET c == [s EXCEPT !.breach = Unset, !.clear = Since(s.clear)] IN
    IF c.clear < ClearFor[kind]
    THEN [c EXCEPT !.state = IF @ = "pending" THEN "ok" ELSE @]
    ELSE IF s.state = "ok" THEN c ELSE [c EXCEPT !.state = "ok", !.fired = FALSE]

\* advance: inside the band nothing moves but the severity.
Advance(s, online, l) ==
    LET rated == [s EXCEPT !.severity = SeverityFor(s.severity, l)] IN
    IF kind \in Resource /\ ~online THEN Frozen(s)
    ELSE IF l >= 2 THEN Breaching(rated) ELSE IF l = 0 THEN Clearing(rated) ELSE rated

\* The edge that advance reports; the first observation of a row seeds it and
\* is no news.
EdgeOf(s, t) ==
    IF ~s.exists THEN "none"
    ELSE IF ~s.fired /\ t.fired THEN "fire"
    ELSE IF s.fired /\ ~t.fired THEN "resolve"
    ELSE IF s.state = "firing" /\ t.state = "firing" /\ t.breach # Unset /\ t.severity > s.severity
         THEN "escalate" ELSE "none"

-----------------------------------------------------------------------------
(* The node *)

\* A heartbeat, with a reading.
Heartbeat(l) ==
    /\ status # "gone"
    /\ status' = "online" /\ silent' = FALSE /\ level' = l
    /\ UNCHANGED <<kind, row, pc, pass, edge, due, faults, told, calm, ackedAt>>

\* 40 seconds without one.
GoSilent ==
    /\ status # "gone" /\ ~silent /\ silent' = TRUE
    /\ UNCHANGED <<kind, status, level, row, pc, pass, edge, due, faults, told, calm, ackedAt>>

\* The node is deleted; its alerts stay.
DeleteNode ==
    /\ status # "gone" /\ status' = "gone"
    /\ UNCHANGED <<kind, silent, level, row, pc, pass, edge, due, faults, told, calm, ackedAt>>

-----------------------------------------------------------------------------
(* The monitor: NodeMonitorScheduler.run *)

Older(age, bound) == IF age = Unset \/ age >= bound THEN age ELSE age + 1
Fault == faults < MaxFaults /\ faults' = faults + 1

\* Fifteen seconds. A pass still due is missed, and that is a failure.
Tick ==
    /\ pc # "persist"
    /\ IF due \/ pc = "record" THEN Fault ELSE UNCHANGED faults
    /\ due' = TRUE
    /\ row' = [row EXCEPT !.breach = Older(@, FireFor[kind]), !.clear = Older(@, ClearFor[kind]),
                          !.evaluated = Older(@, MaxGap + 1)]
    /\ calm' = Older(calm, FireFor[kind])
    /\ UNCHANGED <<kind, node, pc, pass, edge, told, ackedAt>>

\* The sweep, and what Evaluate reads.
Load ==
    /\ pc = "idle" /\ due
    /\ due' = FALSE
    /\ status' = IF status = "online" /\ silent THEN "offline" ELSE status
    /\ IF status = "gone" THEN UNCHANGED <<pc, pass>>
       ELSE pc' = "persist" /\ pass' = [row |-> row, online |-> status' = "online",
                                        level |-> IF kind # "offline" THEN level
                                                  ELSE IF status' = "online" THEN 0 ELSE 2]
    /\ UNCHANGED <<kind, silent, level, row, edge, faults, told, calm, ackedAt>>

\* Mutant: an acknowledgement outlives an escalation.
MutantUpsertKeepsAck(t) ==
    LET severity == IF t.severity = 0 THEN BaseSeverity(kind) ELSE t.severity IN
    [t EXCEPT !.exists = TRUE, !.severity = severity, !.evaluated = 0,
              !.acked = row.acked /\ t.state # "ok", !.silenced = row.silenced]

\* persist: the columns of the pass over the row as it now is; the
\* acknowledgement is kept or cleared by what the row says now.
Upsert(t) ==
    LET severity == IF t.severity = 0 THEN BaseSeverity(kind) ELSE t.severity IN
    [t EXCEPT !.exists = TRUE, !.severity = severity, !.evaluated = 0,
              !.acked = row.acked /\ t.state # "ok" /\ severity <= row.severity,
              !.silenced = row.silenced]

\* This sample does not continue a breach.
Breaks == pass.level = 0 \/ (kind \in Resource /\ ~pass.online) \/ pass.row.evaluated > MaxGap

Persist ==
    LET t == Advance(GapReset(pass.row), pass.online, pass.level) IN
    /\ pc = "persist"
    /\ row' = Upsert(t)
    /\ edge' = EdgeOf(pass.row, t)
    /\ pc' = IF edge' = "none" THEN "idle" ELSE "record"
    /\ pass' = NoPass
    /\ told' = IF t.fired THEN told ELSE "no"
    /\ calm' = IF Breaks THEN 0 ELSE calm
    /\ ackedAt' = IF row'.acked THEN ackedAt ELSE 0
    /\ UNCHANGED <<kind, node, due, faults>>

\* Mutant: a pass that dies is taken up again at the same transition.
MutantRecordAgain ==
    /\ pc = "record"
    /\ \/ pc' = "idle" /\ edge' = "none" /\ UNCHANGED faults
       \/ Fault /\ UNCHANGED <<pc, edge>>
    /\ told' = IF edge # "fire" \/ row.silenced THEN told
               ELSE IF told = "no" THEN "yes" ELSE "twice"
    /\ UNCHANGED <<kind, node, row, pass, due, calm, ackedAt>>

\* record: the page, unless silenced.
Record ==
    /\ pc = "record"
    /\ pc' = "idle" /\ edge' = "none"
    /\ told' = IF edge # "fire" \/ row.silenced THEN told
               ELSE IF told = "no" THEN "yes" ELSE "twice"
    /\ UNCHANGED <<kind, node, row, pass, due, faults, calm, ackedAt>>

\* The pass fails, or the process dies: what was written stays.
PassDies ==
    /\ pc # "idle" /\ Fault
    /\ pc' = "idle" /\ pass' = NoPass /\ edge' = "none"
    /\ UNCHANGED <<kind, node, row, due, told, calm, ackedAt>>

-----------------------------------------------------------------------------
(* The operator: AlertService's statements on one row *)

Acknowledge(ack) ==
    /\ row.exists
    /\ row' = [row EXCEPT !.acked = ack]
    /\ ackedAt' = IF ack THEN row.severity ELSE 0
    /\ UNCHANGED <<kind, node, pc, pass, edge, due, faults, told, calm>>

\* Silence, and the end of its window.
Silence(on) ==
    /\ row.exists
    /\ row' = [row EXCEPT !.silenced = on]
    /\ UNCHANGED <<kind, node, pc, pass, edge, due, faults, told, calm, ackedAt>>

\* Mutant: a closed alert is still one that has fired.
MutantCloseKeepsFired ==
    /\ row.state # "ok" /\ (row.state = "stale" \/ status = "gone")
    /\ row' = [row EXCEPT !.state = "ok", !.breach = Unset, !.clear = Unset,
                          !.acked = FALSE, !.silenced = FALSE]
    /\ told' = "no" /\ ackedAt' = 0
    /\ UNCHANGED <<kind, node, pc, pass, edge, due, faults, calm>>

\* Only for what the monitor cannot resolve: a frozen alert, or one whose node is gone.
Close ==
    /\ row.state # "ok" /\ (row.state = "stale" \/ status = "gone")
    /\ row' = [row EXCEPT !.state = "ok", !.fired = FALSE,
                          !.breach = Unset, !.clear = Unset, !.acked = FALSE, !.silenced = FALSE]
    /\ told' = "no" /\ ackedAt' = 0
    /\ UNCHANGED <<kind, node, pc, pass, edge, due, faults, calm>>

-----------------------------------------------------------------------------
Environment == (\E l \in Levels(kind) : Heartbeat(l)) \/ GoSilent \/ DeleteNode
Operator    == (\E b \in BOOLEAN : Acknowledge(b) \/ Silence(b)) \/ Close

Next == Environment \/ Operator \/ Tick \/ Load \/ Persist \/ Record \/ PassDies

Spec == Init /\ [][Next]_vars

\* The ticker fires and a pass goes on unless it fails; nodes and operators do
\* as they like.
FairSpec == Spec /\ WF_vars(Tick) /\ WF_vars(Load) /\ WF_vars(Persist) /\ WF_vars(Record)

-----------------------------------------------------------------------------
(* What the operator can rely on *)

\* One episode pages as fired once, whatever dies in between, freezes, or comes
\* back.
PagedOnce == told # "twice"

\* An acknowledgement was made of a severity no lower than the one that stands.
AckCoversSeverity == row.acked => ackedAt >= row.severity

\* Nothing fires that was not sampled, again and again, for as long as its rule asks.
FiresOnlySustained == [][edge' = "fire" => calm' >= FireFor[kind]]_vars

\* What a recovery says was a recovery of something that had fired and never of
\* a node that only stopped reporting.
ResolvesOnlyObserved ==
    [][edge' = "resolve" /\ pc = "persist" =>
         pass.row.fired /\ pass.level = 0 /\ (pass.online \/ kind = "offline")]_vars

\* In the end the alert says what lasts: a lasting breach fires, a lasting
\* recovery resolves.
Bad  == /\ status # "gone"
        /\ IF kind = "offline" THEN silent ELSE ~silent /\ level >= 2
Good == /\ status # "gone" /\ ~silent
        /\ kind # "offline" => level = 0
FollowsTheNode ==
    /\ <>[]Bad => <>[](row.state = "firing")
    /\ <>[]Good => <>[](row.state = "ok")

=============================================================================

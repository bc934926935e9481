----------------------------- MODULE AlertsProofs -----------------------------
(***************************************************************************)
(* Theorems about Alerts, for any rules, durations, gap and number of      *)
(* failed passes.  A pass works on a row it read earlier: the invariant    *)
(* says of that copy, and of an edge still to be recorded, what it says of *)
(* the row, whatever the operator did to the row meanwhile.                *)
(***************************************************************************)
EXTENDS Alerts, TLAPS

(* The age of a breach is no more than what was sampled. *)
Sampled(s) == s.breach <= calm

FiredState(s) == s.fired <=> s.state \in {"firing", "stale"}

(* An episode that has not fired was not told.  Only the alert of a node that  *)
(* is gone can be closed before its page goes out, and it never fires again.   *)
NotToldYet ==
    /\ ~row.fired => told = "no" \/ (status = "gone" /\ pc # "persist")
    /\ pc = "persist" /\ ~pass.row.fired => told = "no"
    /\ edge = "fire" => told = "no" /\ (row.state = "firing" \/ status = "gone")

EdgeStands ==
    /\ edge # "none" => pc = "record"
    /\ edge = "fire" => calm >= FireFor[kind]

IInv ==
    /\ TypeOK /\ AckCoversSeverity /\ PagedOnce
    /\ Sampled(row) /\ (pc = "persist" => Sampled(pass.row) /\ FiredState(pass.row))
    /\ NotToldYet /\ EdgeStands

-----------------------------------------------------------------------------
(* The rules *)

LEMMA Durations ==
    ASSUME TypeOK
    PROVE  FireFor[kind] \in Nat /\ ClearFor[kind] \in Nat /\ MaxGap \in Nat /\ MaxFaults \in Nat
BY AlertsAssumption DEF TypeOK

LEMMA RowFields ==
    ASSUME NEW k \in Kinds, NEW s \in Rows(k)
    PROVE  /\ s.exists \in BOOLEAN /\ s.state \in {"ok", "pending", "firing", "stale"}
           /\ s.severity \in 0..2 /\ s.breach \in Ages(FireFor[k]) /\ s.clear \in Ages(ClearFor[k])
           /\ s.fired \in BOOLEAN /\ s.evaluated \in Ages(MaxGap + 1)
           /\ s.acked \in BOOLEAN /\ s.silenced \in BOOLEAN
BY DEF Rows

LEMMA NewRowType == \A k \in Kinds : NewRow \in Rows(k)
  BY DEF NewRow, Rows, Ages, Unset

LEMMA GapResetType ==
    ASSUME TypeOK, NEW s \in Rows(kind)
    PROVE  /\ GapReset(s) \in Rows(kind)
           /\ GapReset(s).fired = s.fired /\ GapReset(s).state = s.state
           /\ GapReset(s).breach = s.breach \/ GapReset(s).breach = Unset
           /\ s.evaluated > MaxGap => GapReset(s).breach = Unset
<1>1. kind \in Kinds
  BY DEF TypeOK
<1>2. CASE s.evaluated <= MaxGap
  BY <1>1, <1>2, Durations, RowFields DEF GapReset, Ages, Unset
<1>3. CASE ~(s.evaluated <= MaxGap)
  <2>1. GapReset(s) = [s EXCEPT !.breach = Unset, !.clear = Unset]
    BY <1>3 DEF GapReset
  <2>2. Unset \in Ages(FireFor[kind]) /\ Unset \in Ages(ClearFor[kind])
    BY DEF Ages
  <2> QED
    BY <2>1, <2>2 DEF Rows
<1> QED
  BY <1>2, <1>3

LEMMA SeverityType ==
    ASSUME NEW current \in 0..2, NEW l \in 0..4
    PROVE  SeverityFor(current, l) \in 0..2
BY DEF SeverityFor, BaseSeverity, Warning, Error

LEMMA FrozenType ==
    ASSUME TypeOK, NEW s \in Rows(kind), FiredState(s)
    PROVE  /\ Frozen(s) \in Rows(kind) /\ FiredState(Frozen(s))
           /\ Frozen(s).breach = Unset /\ Frozen(s).fired = s.fired
<1>1. Unset \in Ages(FireFor[kind]) /\ Unset \in Ages(ClearFor[kind])
  BY DEF Ages
<1>2. (IF s.fired THEN "stale" ELSE "ok") \in {"ok", "pending", "firing", "stale"}
  OBVIOUS
<1>3. Frozen(s) \in Rows(kind)
  BY <1>1, <1>2 DEF Frozen, Rows
<1> QED
  BY <1>3 DEF Frozen, FiredState, Rows

LEMMA BreachingType ==
    ASSUME TypeOK, NEW s \in Rows(kind), FiredState(s)
    PROVE  /\ Breaching(s) \in Rows(kind) /\ FiredState(Breaching(s))
           /\ Breaching(s).breach = Since(s.breach)
           /\ s.fired => Breaching(s).fired
           /\ Breaching(s).fired /\ ~s.fired =>
                  Breaching(s).state = "firing" /\ Since(s.breach) >= FireFor[kind]
<1> DEFINE b == [s EXCEPT !.clear = Unset, !.breach = Since(s.breach)]
           fires == s.fired \/ s.state = "firing" \/ b.breach >= FireFor[kind]
           was == s.fired \/ (fires /\ s.state # "firing")
           st == IF fires THEN "firing" ELSE "pending"
<1>1. kind \in Kinds
  BY DEF TypeOK
<1>2. Since(s.breach) \in Ages(FireFor[kind]) /\ Unset \in Ages(ClearFor[kind])
  BY <1>1, RowFields, Durations DEF Since, Ages, Unset
<1>3. b \in Rows(kind) /\ b.breach = Since(s.breach)
  BY <1>2 DEF Rows
<1>4. Breaching(s) = [b EXCEPT !.state = st, !.fired = was]
  BY DEF Breaching
<1>5. was \in BOOLEAN
  BY <1>1, RowFields
<1>6. st \in {"ok", "pending", "firing", "stale"}
  OBVIOUS
<1>7. /\ Breaching(s) \in Rows(kind)
      /\ Breaching(s).breach = b.breach /\ Breaching(s).fired = was /\ Breaching(s).state = st
  <2> HIDE DEF b, was, st
  <2> QED
    BY <1>3, <1>4, <1>5, <1>6 DEF Rows
<1>8. was <=> st = "firing"
  BY DEF FiredState
<1> QED
  BY <1>3, <1>7, <1>8 DEF FiredState

LEMMA ClearingType ==
    ASSUME TypeOK, NEW s \in Rows(kind), FiredState(s)
    PROVE  /\ Clearing(s) \in Rows(kind) /\ FiredState(Clearing(s))
           /\ Clearing(s).breach = Unset
           /\ Clearing(s).fired => s.fired
<1> DEFINE c == [s EXCEPT !.breach = Unset, !.clear = Since(s.clear)]
<1>1. kind \in Kinds
  BY DEF TypeOK
<1>2. Since(s.clear) \in Ages(ClearFor[kind]) /\ Unset \in Ages(FireFor[kind])
  BY <1>1, RowFields, Durations DEF Since, Ages, Unset
<1>3. /\ c \in Rows(kind) /\ c.breach = Unset
      /\ c.state = s.state /\ c.fired = s.fired
  BY <1>2 DEF Rows
<1>4. \/ Clearing(s) = c
      \/ c.state = "pending" /\ Clearing(s) = [c EXCEPT !.state = "ok"]
      \/ c.state # "pending" /\ Clearing(s) = [c EXCEPT !.state = c.state]
      \/ Clearing(s) = [c EXCEPT !.state = "ok", !.fired = FALSE]
  BY DEF Clearing
<1> HIDE DEF c
<1>5. CASE Clearing(s) = c
  BY <1>3, <1>5 DEF FiredState
<1>6. CASE c.state = "pending" /\ Clearing(s) = [c EXCEPT !.state = "ok"]
  BY <1>3, <1>6 DEF FiredState, Rows
<1>7. CASE Clearing(s) = [c EXCEPT !.state = c.state]
  BY <1>3, <1>7 DEF FiredState, Rows
<1>8. CASE Clearing(s) = [c EXCEPT !.state = "ok", !.fired = FALSE]
  BY <1>3, <1>8 DEF FiredState, Rows
<1> QED
  BY <1>4, <1>5, <1>6, <1>7, <1>8

(* What a pass makes of a row: a breach it did not see itself adds nothing. *)
LEMMA AdvanceType ==
    ASSUME TypeOK, NEW s \in Rows(kind), FiredState(s), NEW online \in BOOLEAN, NEW l \in 0..4
    PROVE  /\ Advance(s, online, l) \in Rows(kind) /\ FiredState(Advance(s, online, l))
           /\ Advance(s, online, l).breach \in {Unset, Since(s.breach), s.breach}
           /\ l = 0 \/ (kind \in Resource /\ ~online) => Advance(s, online, l).breach = Unset
           /\ Advance(s, online, l).fired /\ ~s.fired =>
                  /\ Advance(s, online, l).state = "firing"
                  /\ Since(s.breach) >= FireFor[kind]
                  /\ l >= 2 /\ ~(kind \in Resource /\ ~online)
           /\ ~Advance(s, online, l).fired /\ s.fired =>
                  l = 0 /\ ~(kind \in Resource /\ ~online)
<1> DEFINE rated == [s EXCEPT !.severity = SeverityFor(s.severity, l)]
<1>1. /\ rated \in Rows(kind) /\ rated.breach = s.breach
      /\ rated.fired = s.fired /\ rated.state = s.state
  <2>1. SeverityFor(s.severity, l) \in 0..2
    BY RowFields, SeverityType DEF TypeOK
  <2> QED
    BY <2>1 DEF Rows
<1>2. FiredState(rated)
  BY <1>1 DEF FiredState
<1> HIDE DEF rated
<1>3. CASE kind \in Resource /\ ~online
  <2>1. Advance(s, online, l) = Frozen(s)
    BY <1>3 DEF Advance
  <2> QED
    BY <1>3, <2>1, FrozenType
<1>4. CASE ~(kind \in Resource /\ ~online) /\ l >= 2
  <2>1. Advance(s, online, l) = Breaching(rated)
    BY <1>4 DEF Advance, rated
  <2> QED
    BY <1>1, <1>2, <1>4, <2>1, BreachingType
<1>5. CASE ~(kind \in Resource /\ ~online) /\ l = 0
  <2>1. Advance(s, online, l) = Clearing(rated)
    BY <1>5 DEF Advance, rated
  <2> QED
    BY <1>1, <1>2, <1>5, <2>1, ClearingType
<1>6. CASE ~(kind \in Resource /\ ~online) /\ l = 1
  <2>1. Advance(s, online, l) = rated
    BY <1>6 DEF Advance, rated
  <2> QED
    BY <1>1, <1>2, <1>6, <2>1
<1> QED
  BY <1>3, <1>4, <1>5, <1>6

-----------------------------------------------------------------------------
(* The steps *)

LEMMA Begins == Init => IInv
<1> SUFFICES ASSUME Init PROVE IInv
  OBVIOUS
<1>1. kind \in Kinds /\ FireFor[kind] \in Nat /\ MaxFaults \in Nat
  BY AlertsAssumption DEF Init
<1>2. NewRow \in Rows(kind)
  BY <1>1, NewRowType
<1>3. level \in 0..4
  BY DEF Init, Levels
<1>4. NoPass \in [row : Rows(kind), online : BOOLEAN, level : 0..4]
  BY <1>2 DEF NoPass
<1>5. TypeOK
  <2>1. row.fired <=> row.state \in {"firing", "stale"}
    BY DEF Init, NewRow
  <2> QED
    <3>1. row \in Rows(kind) /\ pass \in [row : Rows(kind), online : BOOLEAN, level : 0..4]
      BY <1>2, <1>4 DEF Init
    <3>2. calm \in 0..FireFor[kind] /\ faults \in 0..MaxFaults /\ ackedAt \in 0..2
      BY <1>1 DEF Init
    <3>3. /\ status \in {"online", "offline", "gone"} /\ silent \in BOOLEAN /\ due \in BOOLEAN
          /\ pc \in {"idle", "persist", "record"}
          /\ edge \in {"none", "fire", "escalate", "resolve"} /\ told \in {"no", "yes", "twice"}
      BY DEF Init
    <3> QED
      BY <1>1, <1>3, <2>1, <3>1, <3>2, <3>3 DEF TypeOK
<1>6. AckCoversSeverity /\ PagedOnce /\ Sampled(row)
  BY DEF Init, AckCoversSeverity, PagedOnce, Sampled, NewRow, Unset
<1>7. NotToldYet /\ EdgeStands
  BY DEF Init, NotToldYet, EdgeStands
<1> QED
  BY <1>5, <1>6, <1>7 DEF IInv, Init

LEMMA EnvironmentKeeps ==
    ASSUME IInv, Environment \/ UNCHANGED vars
    PROVE  IInv'
<1>1. /\ UNCHANGED <<kind, row, pc, pass, edge, due, faults, told, calm, ackedAt>>
      /\ status = "gone" => status' = "gone"
  BY DEF Environment, Heartbeat, GoSilent, DeleteNode, vars, node
<1>2. status' \in {"online", "offline", "gone"} /\ silent' \in BOOLEAN /\ level' \in 0..4
  <2>1. ASSUME NEW l \in Levels(kind), Heartbeat(l)
        PROVE  status' = "online" /\ silent' = FALSE /\ level' \in 0..4
    BY <2>1 DEF Heartbeat, Levels
  <2>2. CASE GoSilent \/ DeleteNode \/ UNCHANGED vars
    BY <2>2 DEF GoSilent, DeleteNode, IInv, TypeOK, vars, node
  <2> QED
    BY <2>1, <2>2 DEF Environment
<1>3. TypeOK'
  <2>1. Rows(kind)' = Rows(kind)
    BY <1>1 DEF Rows
  <2> QED
    BY <1>1, <1>2, <2>1 DEF IInv, TypeOK
<1> QED
  BY <1>1, <1>3 DEF IInv, AckCoversSeverity, PagedOnce, Sampled, FiredState, NotToldYet, EdgeStands

LEMMA OlderType ==
    ASSUME NEW bound \in Nat, NEW age \in Ages(bound)
    PROVE  /\ Older(age, bound) \in Ages(bound) /\ Older(age, bound) >= age
           /\ \A other \in 0..bound : age <= other => Older(age, bound) <= Older(other, bound)
BY DEF Older, Ages, Unset

LEMMA TickKeeps ==
    ASSUME IInv, Tick
    PROVE  IInv'
<1> USE DEF IInv
<1> DEFINE b == Older(row.breach, FireFor[kind])
           c == Older(row.clear, ClearFor[kind])
           e == Older(row.evaluated, MaxGap + 1)
<1>1. kind \in Kinds /\ row \in Rows(kind)
  BY DEF TypeOK
<1>2. /\ b \in Ages(FireFor[kind]) /\ c \in Ages(ClearFor[kind]) /\ e \in Ages(MaxGap + 1)
  BY <1>1, RowFields, Durations, OlderType
<1>3. /\ row' = [row EXCEPT !.breach = b, !.clear = c, !.evaluated = e]
      /\ calm' = Older(calm, FireFor[kind])
      /\ pc # "persist" /\ due' = TRUE
      /\ UNCHANGED <<kind, node, pc, pass, edge, told, ackedAt>>
  BY DEF Tick
<1>4. faults' \in 0..MaxFaults
  BY Durations DEF Tick, Fault, TypeOK
<1>5. calm' \in 0..FireFor[kind] /\ calm' >= calm /\ b <= calm'
  BY <1>1, <1>3, RowFields, Durations, OlderType DEF TypeOK, Sampled, Ages, Older, Unset
<1>6. /\ row' \in Rows(kind) /\ row'.breach = b /\ row'.state = row.state
      /\ row'.fired = row.fired /\ row'.acked = row.acked /\ row'.severity = row.severity
  <2> HIDE DEF b, c, e
  <2> QED
    BY <1>1, <1>2, <1>3 DEF Rows
<1>7. TypeOK'
  BY <1>3, <1>4, <1>5, <1>6 DEF TypeOK, node
<1>8. AckCoversSeverity' /\ PagedOnce' /\ Sampled(row)' /\ NotToldYet' /\ EdgeStands'
  <2>1. Sampled(row)'
    BY <1>5, <1>6 DEF Sampled
  <2>2. EdgeStands'
    BY <1>3, <1>5, Durations DEF EdgeStands, TypeOK
  <2> QED
    BY <1>3, <1>6, <2>1, <2>2 DEF AckCoversSeverity, PagedOnce, NotToldYet, node
<1> QED
  BY <1>3, <1>7, <1>8

LEMMA LoadKeeps ==
    ASSUME IInv, Load
    PROVE  IInv'
<1> USE DEF IInv
<1>1. /\ UNCHANGED <<kind, silent, level, row, edge, faults, told, calm, ackedAt>>
      /\ due' = FALSE /\ pc = "idle"
      /\ status' \in {"online", "offline", "gone"} /\ (status' = "gone" <=> status = "gone")
  BY DEF Load, TypeOK
<1>2. CASE status = "gone"
  <2>1. UNCHANGED <<pc, pass>>
    BY <1>2 DEF Load
  <2>2. TypeOK'
    <3>1. Rows(kind)' = Rows(kind)
      BY <1>1 DEF Rows
    <3> QED
      BY <1>1, <2>1, <3>1 DEF TypeOK
  <2> QED
    BY <1>1, <2>1, <2>2 DEF AckCoversSeverity, PagedOnce, Sampled, FiredState, NotToldYet, EdgeStands
<1>3. CASE status # "gone"
  <2> DEFINE l == IF kind # "offline" THEN level ELSE IF status' = "online" THEN 0 ELSE 2
             o == status' = "online"
  <2>1. pc' = "persist" /\ pass' = [row |-> row, online |-> o, level |-> l]
    BY <1>3 DEF Load
  <2>2. l \in 0..4 /\ o \in BOOLEAN
    BY DEF TypeOK
  <2>3. /\ pass' \in [row : Rows(kind), online : BOOLEAN, level : 0..4]
        /\ pass'.row = row
    <3> HIDE DEF l, o
    <3> QED
      BY <2>1, <2>2 DEF TypeOK
  <2>4. TypeOK'
    BY <1>1, <2>1, <2>3 DEF TypeOK, Rows
  <2>5. AckCoversSeverity' /\ PagedOnce' /\ Sampled(row)' /\ Sampled(pass.row)'
    BY <1>1, <2>3 DEF AckCoversSeverity, PagedOnce, Sampled
  <2>6. FiredState(pass.row)'
    BY <2>3 DEF FiredState, TypeOK
  <2>7. NotToldYet' /\ EdgeStands'
    BY <1>1, <1>3, <2>1, <2>3 DEF NotToldYet, EdgeStands
  <2> QED
    BY <2>4, <2>5, <2>6, <2>7
<1> QED
  BY <1>2, <1>3

(* The row that is written, from what the pass computed and what it finds. *)
LEMMA UpsertType ==
    ASSUME TypeOK, NEW t \in Rows(kind)
    PROVE  /\ Upsert(t) \in Rows(kind)
           /\ Upsert(t).fired = t.fired /\ Upsert(t).state = t.state /\ Upsert(t).breach = t.breach
           /\ Upsert(t).acked => row.acked /\ Upsert(t).severity <= row.severity
<1> DEFINE v == IF t.severity = 0 THEN BaseSeverity(kind) ELSE t.severity
           a == row.acked /\ t.state # "ok" /\ v <= row.severity
           q == row.silenced
<1>1. kind \in Kinds /\ row \in Rows(kind)
  BY DEF TypeOK
<1>2. v \in 0..2
  BY <1>1, RowFields DEF BaseSeverity, Warning, Error
<1>3. a \in BOOLEAN /\ q \in BOOLEAN /\ 0 \in Ages(MaxGap + 1)
  BY <1>1, RowFields, Durations DEF Ages
<1>4. Upsert(t) = [t EXCEPT !.exists = TRUE, !.severity = v, !.evaluated = 0,
                            !.acked = a, !.silenced = q]
  BY DEF Upsert
<1>5. a => row.acked /\ v <= row.severity
  OBVIOUS
<1> HIDE DEF v, a, q
<1> QED
  BY <1>2, <1>3, <1>4, <1>5 DEF Rows

(* One pass: what it read, what it computes of that, and what it reports. *)
LEMMA PassComputes ==
    ASSUME IInv, Persist
    PROVE  \E t \in Rows(kind) :
               /\ FiredState(t)
               /\ row' = Upsert(t) /\ edge' = EdgeOf(pass.row, t)
               /\ told' = IF t.fired THEN told ELSE "no"
               /\ t.breach <= calm'
               /\ t.fired /\ ~pass.row.fired => t.state = "firing" /\ calm' >= FireFor[kind]
               /\ ~t.fired /\ pass.row.fired =>
                      pass.level = 0 /\ (pass.online \/ kind = "offline")
<1> USE DEF IInv
<1> DEFINE s == GapReset(pass.row)
<1>0. PICK t : t = Advance(s, pass.online, pass.level)
  OBVIOUS
<1>1. /\ kind \in Kinds /\ pass.row \in Rows(kind)
      /\ pass.online \in BOOLEAN /\ pass.level \in 0..4
  BY DEF TypeOK
<1>2. /\ s \in Rows(kind) /\ FiredState(s) /\ s.fired = pass.row.fired
      /\ s.breach = pass.row.breach \/ s.breach = Unset
      /\ pass.row.evaluated > MaxGap => s.breach = Unset
  BY <1>1, GapResetType DEF FiredState, Persist
<1>3. /\ row' = Upsert(t) /\ edge' = EdgeOf(pass.row, t)
      /\ told' = IF t.fired THEN told ELSE "no"
      /\ calm' = IF Breaks THEN 0 ELSE calm
      /\ pass.row.breach <= calm
  BY <1>0 DEF Persist, Sampled
<1>4. /\ calm \in Nat /\ FireFor[kind] \in Nat /\ s.breach \in Ages(FireFor[kind])
      /\ pass.row.breach \in Ages(FireFor[kind])
  BY <1>1, <1>2, RowFields, Durations DEF TypeOK
<1> HIDE DEF s
<1>5. /\ t \in Rows(kind) /\ FiredState(t)
      /\ t.breach \in {Unset, Since(s.breach), s.breach}
      /\ pass.level = 0 \/ (kind \in Resource /\ ~pass.online) => t.breach = Unset
      /\ t.fired /\ ~s.fired =>
             /\ t.state = "firing" /\ Since(s.breach) >= FireFor[kind]
             /\ pass.level >= 2 /\ ~(kind \in Resource /\ ~pass.online)
      /\ ~t.fired /\ s.fired => pass.level = 0 /\ ~(kind \in Resource /\ ~pass.online)
  BY <1>0, <1>1, <1>2, AdvanceType
<1>6. t.breach <= calm'
  BY <1>2, <1>3, <1>4, <1>5 DEF Breaks, Since, Ages, Unset
<1>7. t.fired /\ ~pass.row.fired => t.state = "firing" /\ calm' >= FireFor[kind]
  BY <1>1, <1>2, <1>3, <1>4, <1>5 DEF Breaks, Since, Ages, Unset
<1>8. ~t.fired /\ pass.row.fired => pass.level = 0 /\ (pass.online \/ kind = "offline")
  BY <1>1, <1>2, <1>5 DEF Resource
<1> QED
  BY <1>3, <1>5, <1>6, <1>7, <1>8

LEMMA PersistKeeps ==
    ASSUME IInv, Persist
    PROVE  IInv'
<1> USE DEF IInv
<1>1. PICK t \in Rows(kind) :
          /\ FiredState(t)
          /\ row' = Upsert(t) /\ edge' = EdgeOf(pass.row, t)
          /\ told' = IF t.fired THEN told ELSE "no"
          /\ t.breach <= calm'
          /\ t.fired /\ ~pass.row.fired => t.state = "firing" /\ calm' >= FireFor[kind]
  BY PassComputes
<1>2. /\ UNCHANGED <<kind, node, due, faults>> /\ pass' = NoPass
      /\ pc' = IF edge' = "none" THEN "idle" ELSE "record"
      /\ calm' = IF Breaks THEN 0 ELSE calm
      /\ ackedAt' = IF row'.acked THEN ackedAt ELSE 0
      /\ pc = "persist"
  BY DEF Persist
<1>3. /\ row' \in Rows(kind)
      /\ row'.fired = t.fired /\ row'.state = t.state /\ row'.breach = t.breach
      /\ row'.acked => row.acked /\ row'.severity <= row.severity
  BY <1>1, UpsertType
<1>4. /\ edge' \in {"none", "fire", "escalate", "resolve"}
      /\ edge' = "fire" => ~pass.row.fired /\ t.fired
  BY <1>1 DEF EdgeOf
<1>5. NoPass \in [row : Rows(kind), online : BOOLEAN, level : 0..4]
  <2>1. NewRow \in Rows(kind)
    BY NewRowType DEF TypeOK
  <2> QED
    BY <2>1 DEF NoPass
<1>6. calm' \in 0..FireFor[kind]
  BY <1>2, Durations DEF TypeOK
<1>7. /\ ackedAt' \in 0..2 /\ told' \in {"no", "yes", "twice"} /\ told' # "twice"
      /\ pc' \in {"idle", "persist", "record"}
  BY <1>1, <1>2 DEF TypeOK, PagedOnce
<1>8. row'.fired <=> row'.state \in {"firing", "stale"}
  BY <1>1, <1>3 DEF FiredState
<1>9. TypeOK'
  BY <1>2, <1>3, <1>4, <1>5, <1>6, <1>7, <1>8 DEF TypeOK, node
<1>10. AckCoversSeverity'
  <2>1. /\ row.severity \in 0..2 /\ row'.severity \in 0..2 /\ ackedAt \in 0..2
    BY <1>3, RowFields DEF TypeOK
  <2> QED
    BY <1>2, <1>3, <2>1 DEF AckCoversSeverity
<1>11. NotToldYet'
  BY <1>1, <1>2, <1>3, <1>4 DEF NotToldYet
<1>12. Sampled(row)' /\ EdgeStands' /\ PagedOnce'
  BY <1>1, <1>2, <1>3, <1>4, <1>7 DEF Sampled, EdgeStands, PagedOnce
<1> QED
  BY <1>2, <1>9, <1>10, <1>11, <1>12

(* The page, or the end of the pass without it. *)
LEMMA RecordKeeps ==
    ASSUME IInv, Record \/ PassDies
    PROVE  IInv'
<1> USE DEF IInv
<1>1. /\ UNCHANGED <<kind, node, row, due, calm, ackedAt>>
      /\ pc' = "idle" /\ edge' = "none" /\ pc # "idle"
      /\ pass' = pass \/ pass' = NoPass
      /\ told' = told \/ (edge = "fire" /\ pc = "record" /\ told' = IF told = "no" THEN "yes" ELSE "twice")
  BY DEF Record, PassDies
<1>2. faults' \in 0..MaxFaults
  BY Durations DEF Record, PassDies, Fault, TypeOK
<1>3. NoPass \in [row : Rows(kind), online : BOOLEAN, level : 0..4]
  <2>1. NewRow \in Rows(kind)
    BY NewRowType DEF TypeOK
  <2> QED
    BY <2>1 DEF NoPass
<1>4. told' \in {"no", "yes"}
  BY <1>1 DEF TypeOK, PagedOnce, NotToldYet
<1>5. TypeOK'
  <2>1. Rows(kind)' = Rows(kind)
    BY <1>1 DEF Rows
  <2> QED
    BY <1>1, <1>2, <1>3, <1>4, <2>1 DEF TypeOK, node
<1>6. ~row.fired => told' = "no" \/ status = "gone"
  BY <1>1 DEF NotToldYet, TypeOK
<1> QED
  BY <1>1, <1>4, <1>5, <1>6 DEF AckCoversSeverity, PagedOnce, Sampled, NotToldYet, EdgeStands, node

LEMMA OperatorKeeps ==
    ASSUME IInv, Operator
    PROVE  IInv'
<1> USE DEF IInv
<1>1. UNCHANGED <<kind, node, pc, pass, edge, due, faults, calm>>
  BY DEF Operator, Acknowledge, Silence, Close
<1>2. row \in Rows(kind) /\ kind \in Kinds
  BY DEF TypeOK
<1>3. ASSUME NEW ack \in BOOLEAN, Acknowledge(ack)
      PROVE  IInv'
  <2>1. /\ row' = [row EXCEPT !.acked = ack] /\ told' = told
        /\ ackedAt' = IF ack THEN row.severity ELSE 0
    BY <1>3 DEF Acknowledge
  <2>2. /\ row' \in Rows(kind) /\ row'.acked = ack /\ row'.severity = row.severity
        /\ row'.fired = row.fired /\ row'.state = row.state /\ row'.breach = row.breach
    BY <1>2, <2>1 DEF Rows
  <2>3. ackedAt' \in 0..2 /\ row.severity \in 0..2
    BY <1>2, <2>1, RowFields
  <2>4. TypeOK'
    BY <1>1, <2>1, <2>2, <2>3 DEF TypeOK, node
  <2> QED
    BY <1>1, <2>1, <2>2, <2>3, <2>4
       DEF AckCoversSeverity, PagedOnce, Sampled, FiredState, NotToldYet, EdgeStands, node
<1>4. ASSUME NEW on \in BOOLEAN, Silence(on)
      PROVE  IInv'
  <2>1. /\ row' = [row EXCEPT !.silenced = on] /\ told' = told /\ ackedAt' = ackedAt
    BY <1>4 DEF Silence
  <2>2. /\ row' \in Rows(kind) /\ row'.acked = row.acked /\ row'.severity = row.severity
        /\ row'.fired = row.fired /\ row'.state = row.state /\ row'.breach = row.breach
    BY <1>2, <2>1 DEF Rows
  <2>3. TypeOK'
    BY <1>1, <2>1, <2>2 DEF TypeOK, node
  <2> QED
    BY <1>1, <2>1, <2>2, <2>3
       DEF AckCoversSeverity, PagedOnce, Sampled, FiredState, NotToldYet, EdgeStands, node
<1>5. CASE Close
  <2>1. /\ row' = [row EXCEPT !.state = "ok", !.fired = FALSE, !.breach = Unset,
                              !.clear = Unset, !.acked = FALSE, !.silenced = FALSE]
        /\ told' = "no" /\ ackedAt' = 0
        /\ row.state = "stale" \/ status = "gone"
    BY <1>5 DEF Close
  <2>2. Unset \in Ages(FireFor[kind]) /\ Unset \in Ages(ClearFor[kind])
    BY DEF Ages
  <2>3. /\ row' \in Rows(kind) /\ row'.acked = FALSE
        /\ row'.fired = FALSE /\ row'.state = "ok" /\ row'.breach = Unset
    BY <1>2, <2>1, <2>2 DEF Rows
  <2>4. TypeOK'
    BY <1>1, <2>1, <2>3 DEF TypeOK, node
  <2>5. Sampled(row)'
    BY <1>1, <1>2, <2>3, Durations DEF Sampled, Unset, TypeOK
  <2>6. edge = "fire" => status = "gone"
    BY <2>1 DEF NotToldYet
  <2> QED
    BY <1>1, <2>1, <2>3, <2>4, <2>5, <2>6
       DEF AckCoversSeverity, PagedOnce, Sampled, FiredState, NotToldYet, EdgeStands, node
<1> QED
  BY <1>3, <1>4, <1>5 DEF Operator

LEMMA NextKeeps ==
    ASSUME IInv, [Next]_vars
    PROVE  IInv'
BY EnvironmentKeeps, OperatorKeeps, TickKeeps, LoadKeeps, PersistKeeps, RecordKeeps DEF Next

LEMMA Inductive == Spec => []IInv
<1> QED
  BY Begins, NextKeeps, PTL DEF Spec

(* The row, the pass and their ages keep their types, and a row counts as having *)
(* fired exactly while it is firing or stale (advance, AlertService.Close).      *)
THEOREM TypeCorrect == Spec => []TypeOK
<1>1. IInv => TypeOK
  BY DEF IInv
<1> QED
  BY <1>1, Inductive, PTL

(* An episode is announced once, although passes die between writing a row and *)
(* paging, nodes freeze and come back, and operators close alerts meanwhile.   *)
THEOREM EpisodesArePagedOnce == Spec => []PagedOnce
<1>1. IInv => PagedOnce
  BY DEF IInv
<1> QED
  BY <1>1, Inductive, PTL

(* No acknowledgement covers a severity above the one that was acknowledged, *)
(* also when it was given during the pass that escalates (persist).          *)
THEOREM AcksCoverSeverity == Spec => []AckCoversSeverity
<1>1. IInv => AckCoversSeverity
  BY DEF IInv
<1> QED
  BY <1>1, Inductive, PTL

(* What is announced was breached for as long as its rule asks, by samples no *)
(* further apart than the gap that counts (gapReset, advance).                *)
THEOREM FiringIsSustained == Spec => FiresOnlySustained
<1>1. ASSUME IInv, IInv', [Next]_vars
      PROVE  [edge' = "fire" => calm' >= FireFor[kind]]_vars
  <2>1. kind' = kind
    BY <1>1 DEF Next, Environment, Heartbeat, GoSilent, DeleteNode, Operator, Acknowledge, Silence,
                Close, Tick, Load, Persist, Record, PassDies, vars
  <2> QED
    BY <1>1, <2>1 DEF IInv, EdgeStands
<1> QED
  BY <1>1, Inductive, PTL DEF Spec, FiresOnlySustained

(* A recovery is announced only of what had fired, and on a sample below the *)
(* threshold of a node that reports (advance, persist).                      *)
THEOREM ResolvesAreObserved == Spec => ResolvesOnlyObserved
<1> DEFINE A == edge' = "resolve" /\ pc = "persist" =>
                    pass.row.fired /\ pass.level = 0 /\ (pass.online \/ kind = "offline")
<1>1. ASSUME IInv, Persist
      PROVE  A
  <2>1. PICK t \in Rows(kind) :
            /\ edge' = EdgeOf(pass.row, t)
            /\ ~t.fired /\ pass.row.fired => pass.level = 0 /\ (pass.online \/ kind = "offline")
    BY <1>1, PassComputes
  <2> QED
    BY <2>1 DEF EdgeOf
<1>2. ASSUME IInv, [Next]_vars, ~Persist, pc = "persist"
      PROVE  edge' = "none"
  BY <1>2 DEF IInv, EdgeStands, Next, Environment, Heartbeat, GoSilent, DeleteNode, Operator,
              Acknowledge, Silence, Close, Tick, Load, Record, PassDies, vars
<1>3. ASSUME IInv, [Next]_vars
      PROVE  [A]_vars
  BY <1>1, <1>2, <1>3
<1> QED
  BY <1>3, Inductive, PTL DEF Spec, ResolvesOnlyObserved

=============================================================================

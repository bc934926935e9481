----------------------- MODULE CredentialEvictionProofs -----------------------
(***************************************************************************)
(* Theorems about CredentialEviction, for any devices, Exits, schedulers   *)
(* and bounds.  What an acknowledgment promises starts before it is sent   *)
(* and outlives the process that sent it: from the moment an Exit applies  *)
(* a snapshot that names an eviction until the eviction's row is deleted,  *)
(* the Exit is barred to the device, and so is every snapshot it fetches.  *)
(***************************************************************************)
EXTENDS CredentialEviction, FiniteSetTheorems, TLAPS

(* No session of the device, and no way to one. *)
Barred(n, d) ==
    /\ d \notin asking[n] /\ d \notin open[n]
    /\ known[n] => d \in revoked[n]

(* ... after the snapshot that is about to be applied as well. *)
Guarded(n, d) == Barred(n, d) /\ (phase[n] = "apply" => d \in snap[n].uuids)

(* The revocation is about the eviction that is recorded now. *)
Stands(r) == status[r.dev] # "none" /\ epoch[r.dev] = r.epoch

SnapshotsCover ==
    \A n \in Exits : \A r \in snap[n].rows : r.dev \in snap[n].uuids /\ r.epoch <= issued

(* What an Exit is going to acknowledge, or tried to. *)
Promises(n) == todo[n] \cup {r \in Revocation : <<n, r>> \in late}

PromisesKept ==
    \A n \in Exits : \A r \in Promises(n) :
        r.epoch <= issued /\ (Stands(r) => Guarded(n, r.dev))

AcksKept ==
    \A d \in Devices : \A n \in acks[d] :
        status[d] # "none" /\ member[n] = "serving" /\ Guarded(n, d)

(* A node that has not registered serves nobody. *)
PendingIdle ==
    \A n \in Exits : member[n] = "pending" =>
        ~known[n] /\ phase[n] = "fetch" /\ asking[n] = {} /\ open[n] = {}

(* What a scheduler decided on the Exits that it found. *)
Decided ==
    \A s \in Schedulers :
        /\ stage[s] = "begin" => target[s] \in Devices /\ fleet[s] # {}
        /\ \A n \in fleet[s] : member[n] # "pending"

ConfirmedByAll ==
    \A d \in Devices : status[d] = "confirmed" =>
        \A n \in required[d] : n \in acks[d] \/ member[n] = "gone"

(* An Exit that the eviction does not require joined after it began: the   *)
(* required ones were then the fleet, unless one of them was already gone, *)
(* and in that case the eviction is never confirmed.                       *)
Whole(d) == status[d] = "confirmed" \/ \A n \in required[d] : member[n] # "gone"

JoinersGuarded ==
    \A d \in Devices, n \in Exits :
        status[d] # "none" /\ Whole(d) /\ n \notin required[d] /\ member[n] # "gone"
            => Guarded(n, d)

IInv ==
    /\ TypeOK /\ OnePending
    /\ SnapshotsCover /\ PromisesKept /\ AcksKept
    /\ PendingIdle /\ Decided /\ ConfirmedByAll /\ JoinersGuarded

-----------------------------------------------------------------------------
LEMMA Begins == Init => IInv
<1> SUFFICES ASSUME Init PROVE IInv
  OBVIOUS
<1>1. TypeOK
  BY EvictionAssumption DEF Init, TypeOK, Snapshots, Nothing
<1>2. OnePending
  BY DEF Init, OnePending, Pending
<1>3. SnapshotsCover /\ PromisesKept /\ AcksKept
  BY DEF Init, SnapshotsCover, PromisesKept, Promises, AcksKept, Nothing
<1>4. PendingIdle /\ Decided /\ ConfirmedByAll /\ JoinersGuarded
  BY DEF Init, PendingIdle, Decided, ConfirmedByAll, JoinersGuarded
<1> QED
  BY <1>1, <1>2, <1>3, <1>4 DEF IInv

(* What an Exit that answers Exits can tell of the panel. *)
LEMMA RevokedDevicesType ==
    ASSUME TypeOK
    PROVE  /\ RevokedDevices \in Snapshots
           /\ \A d \in Devices : status[d] # "none" => d \in RevokedDevices.uuids
           /\ \A r \in RevokedDevices.rows :
                  r \in Revocation /\ r.dev \in RevokedDevices.uuids /\ r.epoch <= issued
<1> DEFINE rows == {[dev |-> d, epoch |-> epoch[d]] : d \in {e \in Devices : status[e] # "none"}}
<1>1. \A r \in rows : /\ r \in Revocation /\ r.epoch <= issued
                      /\ r.dev \in Devices /\ status[r.dev] # "none"
  BY DEF TypeOK, Revocation, Epochs
<1>2. RevokedDevices.rows = rows /\ RevokedDevices.uuids = Revoked
  BY DEF RevokedDevices
<1>3. Revoked \in SUBSET Devices /\ \A d \in Devices : status[d] # "none" => d \in Revoked
  BY DEF Revoked
<1>4. RevokedDevices = [uuids |-> Revoked, rows |-> rows]
  BY DEF RevokedDevices
<1>5. RevokedDevices \in Snapshots
  BY <1>1, <1>3, <1>4 DEF Snapshots
<1> QED
  BY <1>1, <1>2, <1>3, <1>5

-----------------------------------------------------------------------------
(* Steps of the panel: what agents hold is left alone. *)

LEMMA MarkKeeps ==
    ASSUME IInv, NEW s \in Schedulers, Mark(s) \/ Pass(s) \/ \E d \in Devices : Decide(s, d)
    PROVE  IInv'
<1> USE DEF IInv, Mark, Pass, Decide, panel, row, poll, sessions
<1>1. TypeOK'
  <2>1. ban' \in [Devices -> {"free", "timed", "held"}]
    BY DEF TypeOK
  <2>2. stage' \in [Schedulers -> {"mark", "purge", "decide", "begin"}]
    BY DEF TypeOK
  <2>3. target' \in [Schedulers -> Devices \cup {None}]
    BY DEF TypeOK
  <2>4. fleet' \in [Schedulers -> SUBSET Exits]
    BY DEF TypeOK, Serving
  <2> QED
    BY <2>1, <2>2, <2>3, <2>4 DEF TypeOK
<1>2. UNCHANGED <<row, member, issued, poll, sessions, late>>
  OBVIOUS
<1>3. OnePending' /\ SnapshotsCover' /\ PromisesKept' /\ AcksKept' /\ PendingIdle'
  BY <1>2 DEF OnePending, Pending, SnapshotsCover, PromisesKept, Promises, AcksKept, PendingIdle,
              Stands, Guarded, Barred
<1>4. ConfirmedByAll' /\ JoinersGuarded'
  BY <1>2 DEF ConfirmedByAll, JoinersGuarded, Whole, Guarded, Barred
<1>5. Decided'
  <2>1. CASE Mark(s) \/ Pass(s)
    BY <2>1 DEF Decided, TypeOK
  <2>2. ASSUME NEW d \in Devices, Decide(s, d) PROVE Decided'
    BY <2>2 DEF Decided, TypeOK, Serving
  <2> QED
    BY <2>1, <2>2
<1> QED
  BY <1>1, <1>3, <1>4, <1>5

(* Time, and operators that ban or retire. *)
LEMMA BanKeeps ==
    ASSUME IInv, NEW d \in Devices, Terminate(d) \/ Retire(d) \/ TimePasses(d)
    PROVE  IInv'
<1> USE DEF IInv, Terminate, Retire, TimePasses, Intervene, row, scheduler, poll, sessions
<1>1. TypeOK'
  <2>1. ban' \in [Devices -> {"free", "timed", "held"}]
    BY DEF TypeOK
  <2>2. retired' \subseteq Devices /\ ops' \in 0..MaxOps
    BY EvictionAssumption DEF TypeOK
  <2> QED
    BY <2>1, <2>2 DEF TypeOK
<1>2. UNCHANGED <<row, member, issued, scheduler, poll, sessions, late>>
  OBVIOUS
<1>3. OnePending' /\ SnapshotsCover' /\ PromisesKept' /\ AcksKept' /\ PendingIdle'
  BY <1>2 DEF OnePending, Pending, SnapshotsCover, PromisesKept, Promises, AcksKept, PendingIdle,
              Stands, Guarded, Barred
<1>4. ConfirmedByAll' /\ JoinersGuarded' /\ Decided'
  BY <1>2 DEF ConfirmedByAll, JoinersGuarded, Whole, Guarded, Barred, Decided
<1> QED
  BY <1>1, <1>3, <1>4

(* A deleted row binds nobody any more. *)
LEMMA PurgeKeeps ==
    ASSUME IInv, NEW s \in Schedulers, Purge(s)
    PROVE  IInv'
<1> USE DEF IInv, Purge, poll, sessions
<1>2. \A d \in Devices :
          \/ status'[d] = "none" /\ acks'[d] = {}
          \/ /\ status'[d] = status[d] /\ epoch'[d] = epoch[d]
             /\ required'[d] = required[d] /\ acks'[d] = acks[d]
  OBVIOUS
<1>1. TypeOK'
  <2>1. status' \in [Devices -> {"none", "pending", "confirmed"}]
    BY DEF TypeOK
  <2>2. epoch' \in [Devices -> 0..MaxEpoch]
    BY EvictionAssumption DEF TypeOK
  <2>3. required' \in [Devices -> SUBSET Exits] /\ acks' \in [Devices -> SUBSET Exits]
    BY DEF TypeOK
  <2>4. stage' \in [Schedulers -> {"mark", "purge", "decide", "begin"}]
    BY DEF TypeOK
  <2> QED
    BY <1>2, <2>1, <2>2, <2>3, <2>4 DEF TypeOK
<1>3. UNCHANGED <<member, issued, fleet, poll, sessions, late>>
  OBVIOUS
<1>4. OnePending'
  BY <1>2 DEF OnePending, Pending
<1>5. SnapshotsCover' /\ PendingIdle' /\ Decided'
  BY <1>3 DEF SnapshotsCover, PendingIdle, Decided, TypeOK
<1>6. PromisesKept'
  <2>1. \A n \in Exits : Promises(n)' = Promises(n) /\ Promises(n) \subseteq Revocation
    BY DEF Promises, TypeOK
  <2>2. \A r \in Revocation : Stands(r)' => Stands(r)
    BY <1>2 DEF Stands, Revocation
  <2>3. \A n \in Exits, d \in Devices : Guarded(n, d) => Guarded(n, d)'
    BY <1>3 DEF Guarded, Barred
  <2> QED
    BY <2>1, <2>2, <2>3 DEF PromisesKept, Revocation
<1>7. AcksKept'
  BY <1>2, <1>3 DEF AcksKept, Guarded, Barred
<1>8. ConfirmedByAll' /\ JoinersGuarded'
  BY <1>2, <1>3 DEF ConfirmedByAll, JoinersGuarded, Whole, Guarded, Barred
<1> QED
  BY <1>1, <1>4, <1>5, <1>6, <1>7, <1>8

(* The only step that needs a device: its eviction is new to every agent. *)
LEMMA BeginKeeps ==
    ASSUME IInv, NEW s \in Schedulers, Begin(s)
    PROVE  IInv'
<1> USE DEF IInv
<1> DEFINE d == target[s]
           begun == /\ ban[d] = "free" /\ Pending = {}
                    /\ Cardinality(Serving) = Cardinality(fleet[s])
                    /\ issued < MaxEpoch
<1>1. /\ UNCHANGED <<retired, member, poll, sessions, late, ops, faults>>
      /\ stage' = [stage EXCEPT ![s] = "mark"]
      /\ target' = [target EXCEPT ![s] = None]
      /\ fleet' = [fleet EXCEPT ![s] = {}]
  BY DEF Begin
<1>2. Decided'
  BY <1>1 DEF Decided, TypeOK
<1>3. CASE ~begun
  <2>1. UNCHANGED <<ban, row, issued>>
    BY <1>3 DEF Begin
  <2>2. TypeOK'
    BY <1>1, <2>1 DEF TypeOK, row, poll, sessions
  <2>3. OnePending' /\ SnapshotsCover' /\ PromisesKept' /\ AcksKept' /\ PendingIdle'
    BY <1>1, <2>1 DEF row, poll, sessions, OnePending, Pending, SnapshotsCover, PromisesKept,
           Promises, AcksKept, PendingIdle, Stands, Guarded, Barred
  <2>4. ConfirmedByAll' /\ JoinersGuarded'
    BY <1>1, <2>1 DEF row, poll, sessions, ConfirmedByAll, JoinersGuarded, Whole, Guarded, Barred
  <2> QED
    BY <1>2, <2>2, <2>3, <2>4
<1>4. CASE begun
  <2>1. /\ ban' = [ban EXCEPT ![d] = "held"]
        /\ status' = [status EXCEPT ![d] = "pending"]
        /\ epoch' = [epoch EXCEPT ![d] = issued + 1]
        /\ required' = [required EXCEPT ![d] = fleet[s]]
        /\ acks' = [acks EXCEPT ![d] = {}]
        /\ issued' = issued + 1
    BY <1>4 DEF Begin
  <2>2. fleet[s] \in SUBSET Exits /\ issued \in Nat /\ issued < MaxEpoch /\ MaxEpoch \in Nat
    BY <1>4, EvictionAssumption DEF TypeOK
  <2>3. d \in Devices /\ fleet[s] # {}
    BY DEF Begin, Decided
  <2>4. TypeOK'
    <3>1. /\ ban' \in [Devices -> {"free", "timed", "held"}]
          /\ status' \in [Devices -> {"none", "pending", "confirmed"}]
      BY <2>1, <2>3 DEF TypeOK
    <3>2. epoch' \in [Devices -> 0..MaxEpoch] /\ issued' \in 0..MaxEpoch
      BY <2>1, <2>2, <2>3 DEF TypeOK
    <3>3. required' \in [Devices -> SUBSET Exits] /\ acks' \in [Devices -> SUBSET Exits]
      BY <2>1, <2>2, <2>3 DEF TypeOK
    <3>4. \A e \in Devices : status'[e] # "none" => epoch'[e] \in 1..issued' /\ required'[e] # {}
      BY <2>1, <2>2, <2>3 DEF TypeOK
    <3>5. /\ stage' \in [Schedulers -> {"mark", "purge", "decide", "begin"}]
          /\ target' \in [Schedulers -> Devices \cup {None}]
          /\ fleet' \in [Schedulers -> SUBSET Exits]
      BY <1>1 DEF TypeOK
    <3> QED
      BY <1>1, <3>1, <3>2, <3>3, <3>4, <3>5 DEF TypeOK, poll, sessions
  <2>5. OnePending'
    BY <1>4, <2>1, <2>3 DEF OnePending, Pending, TypeOK
  <2>6. SnapshotsCover' /\ PendingIdle'
    BY <1>1, <2>1, <2>2 DEF SnapshotsCover, PendingIdle, poll, sessions, TypeOK, Snapshots, Revocation, Epochs
  <2>7. PromisesKept'
    <3>1. \A n \in Exits : Promises(n)' = Promises(n) /\ Promises(n) \subseteq Revocation
      BY <1>1 DEF Promises, TypeOK, poll
    <3>2. \A r \in Revocation : r.epoch <= issued /\ Stands(r)' => Stands(r)
      BY <2>1, <2>2, <2>3 DEF Stands, Revocation, Epochs, TypeOK
    <3>3. \A n \in Exits, e \in Devices : Guarded(n, e) => Guarded(n, e)'
      BY <1>1 DEF Guarded, Barred, poll, sessions
    <3>4. \A r \in Revocation : r.epoch \in Nat /\ r.dev \in Devices
      BY EvictionAssumption DEF Revocation, Epochs
    <3> QED
      BY <2>1, <2>2, <3>1, <3>2, <3>3, <3>4 DEF PromisesKept
  <2>8. AcksKept'
    BY <1>1, <2>1, <2>3 DEF AcksKept, Guarded, Barred, poll, sessions, TypeOK
  <2>9. ConfirmedByAll'
    BY <1>1, <2>1, <2>3 DEF ConfirmedByAll, TypeOK
  <2>10. JoinersGuarded'
    <3>1. ASSUME \A n \in fleet[s] : member[n] # "gone"
          PROVE  fleet[s] = Serving
      <4>1. fleet[s] \subseteq Serving
        BY <2>2, <3>1 DEF Decided, Serving, TypeOK
      <4>2. IsFiniteSet(Serving)
        BY EvictionAssumption, FS_Subset DEF Serving
      <4> QED
        BY <1>4, <4>1, <4>2, FS_Subset
    <3>2. ASSUME NEW n \in Exits, \A k \in fleet[s] : member[k] # "gone",
                 n \notin fleet[s], member[n] # "gone"
          PROVE  Guarded(n, d)
      BY <2>3, <3>1, <3>2 DEF PendingIdle, Serving, TypeOK, Guarded, Barred
    <3>3. \A n \in Exits, e \in Devices : Guarded(n, e) => Guarded(n, e)'
      BY <1>1 DEF Guarded, Barred, poll, sessions
    <3>4. ASSUME NEW e \in Devices, NEW n \in Exits,
                 (status[e] # "none" /\ Whole(e) /\ n \notin required[e] /\ member[n] # "gone")'
          PROVE  Guarded(n, e)'
      <4>1. CASE e = d
        BY <1>1, <2>1, <2>3, <3>2, <3>3, <3>4, <4>1 DEF Whole, TypeOK
      <4>2. CASE e # d
        BY <1>1, <2>1, <2>3, <3>3, <3>4, <4>2 DEF Whole, JoinersGuarded, TypeOK
      <4> QED
        BY <4>1, <4>2
    <3> QED
      BY <3>4 DEF JoinersGuarded
  <2> QED
    BY <1>2, <2>4, <2>5, <2>6, <2>7, <2>8, <2>9, <2>10
<1> QED
  BY <1>3, <1>4

(* A node that joins is idle. *)
LEMMA RegisterKeeps ==
    ASSUME IInv, NEW n \in Exits, Register(n)
    PROVE  IInv'
<1> USE DEF IInv, Register, Intervene
<1>1. /\ UNCHANGED <<ban, retired, row, issued, scheduler, poll, sessions, late, faults>>
      /\ member' = [member EXCEPT ![n] = "serving"] /\ member[n] = "pending"
      /\ ops' \in 0..MaxOps
  BY EvictionAssumption DEF TypeOK
<1>2. TypeOK'
  BY <1>1 DEF TypeOK, row, scheduler, poll, sessions
<1>3. \A k \in Exits : \/ member'[k] = member[k]
                       \/ k = n /\ member[k] = "pending" /\ member'[k] = "serving"
  BY <1>1 DEF TypeOK
<1>4. OnePending' /\ SnapshotsCover' /\ PromisesKept'
  BY <1>1 DEF OnePending, Pending, SnapshotsCover, PromisesKept, Promises,
              Stands, Guarded, Barred, row, poll, sessions
<1>5. AcksKept' /\ ConfirmedByAll'
  BY <1>1, <1>3 DEF AcksKept, ConfirmedByAll, Guarded, Barred, row, poll, sessions, TypeOK
<1>6. PendingIdle' /\ Decided'
  BY <1>1, <1>3 DEF PendingIdle, Decided, row, poll, sessions, scheduler, TypeOK
<1>7. JoinersGuarded'
  <2>1. \A d \in Devices : Whole(d)' => Whole(d)
    BY <1>1, <1>3 DEF Whole, row, TypeOK
  <2> QED
    BY <1>1, <1>3, <2>1 DEF JoinersGuarded, Guarded, Barred, row, poll, sessions
<1> QED
  BY <1>2, <1>4, <1>5, <1>6, <1>7

(* A node that goes takes its acknowledgments along. *)
LEMMA DeleteNodeKeeps ==
    ASSUME IInv, NEW n \in Exits, DeleteNode(n)
    PROVE  IInv'
<1> USE DEF IInv, DeleteNode, Intervene
<1>1. /\ UNCHANGED <<ban, retired, status, epoch, required, issued, scheduler, poll, sessions, late, faults>>
      /\ member' = [member EXCEPT ![n] = "gone"] /\ member[n] = "serving"
      /\ acks' = [d \in Devices |-> acks[d] \ {n}]
      /\ ops' \in 0..MaxOps
  BY EvictionAssumption DEF TypeOK
<1>2. TypeOK'
  <2>1. acks' \in [Devices -> SUBSET Exits]
    BY <1>1 DEF TypeOK
  <2> QED
    BY <1>1, <2>1 DEF TypeOK, scheduler, poll, sessions
<1>3. \A k \in Exits : member'[k] = IF k = n THEN "gone" ELSE member[k]
  BY <1>1 DEF TypeOK
<1>4. OnePending' /\ SnapshotsCover' /\ PromisesKept'
  BY <1>1 DEF OnePending, Pending, SnapshotsCover, PromisesKept, Promises,
              Stands, Guarded, Barred, poll, sessions
<1>5. AcksKept' /\ ConfirmedByAll'
  BY <1>1, <1>3 DEF AcksKept, ConfirmedByAll, Guarded, Barred, poll, sessions, TypeOK
<1>6. PendingIdle' /\ Decided'
  BY <1>1, <1>3 DEF PendingIdle, Decided, poll, sessions, scheduler, TypeOK
<1>7. JoinersGuarded'
  <2>1. \A d \in Devices : Whole(d)' => Whole(d)
    BY <1>1, <1>3 DEF Whole, TypeOK
  <2> QED
    BY <1>1, <1>3, <2>1 DEF JoinersGuarded, Guarded, Barred, poll, sessions
<1> QED
  BY <1>2, <1>4, <1>5, <1>6, <1>7

-----------------------------------------------------------------------------
(* Steps of an agent that leave the panel alone. *)

LEMMA GuardsSuffice ==
    ASSUME IInv, TypeOK', UNCHANGED <<row, member, issued, scheduler>>,
           SnapshotsCover', PendingIdle',
           \A n \in Exits, d \in Devices : status[d] # "none" /\ Guarded(n, d) => Guarded(n, d)',
           \A n \in Exits : \A r \in Revocation :
               r \in Promises(n)' /\ r \notin Promises(n) =>
                   r.epoch <= issued /\ (Stands(r) => Guarded(n, r.dev)')
    PROVE  IInv'
<1> USE DEF IInv, row, scheduler
<1>1. OnePending' /\ ConfirmedByAll' /\ Decided'
  BY DEF OnePending, Pending, ConfirmedByAll, Decided
<1>2. PromisesKept'
  <2>1. \A n \in Exits : Promises(n)' \subseteq Revocation
    BY DEF Promises, TypeOK
  <2>2. \A r \in Revocation : (Stands(r)' <=> Stands(r)) /\ r.dev \in Devices
    BY DEF Stands, Revocation
  <2> QED
    BY <2>1, <2>2 DEF PromisesKept, Stands
<1>3. AcksKept' /\ JoinersGuarded'
  BY DEF AcksKept, JoinersGuarded, Whole, TypeOK
<1> QED
  BY <1>1, <1>2, <1>3

LEMMA FetchKeeps ==
    ASSUME IInv, NEW n \in Exits, Fetch(n)
    PROVE  IInv'
<1> USE DEF IInv, Fetch
<1>1. /\ UNCHANGED <<panel, scheduler, todo, sessions, late, ops, faults>>
      /\ phase' = [phase EXCEPT ![n] = "apply"] /\ phase[n] = "fetch"
      /\ snap' = [snap EXCEPT ![n] = RevokedDevices]
      /\ member[n] = "serving"
  OBVIOUS
<1>2. TypeOK'
  BY <1>1, RevokedDevicesType DEF TypeOK, panel, row, scheduler, sessions
<1>3. SnapshotsCover'
  BY <1>1, RevokedDevicesType DEF SnapshotsCover, TypeOK, panel
<1>4. PendingIdle'
  BY <1>1 DEF PendingIdle, panel, sessions, TypeOK
<1>5. \A k \in Exits, d \in Devices : status[d] # "none" /\ Guarded(k, d) => Guarded(k, d)'
  BY <1>1, RevokedDevicesType DEF Guarded, Barred, sessions, TypeOK
<1>6. \A k \in Exits : Promises(k)' = Promises(k)
  BY <1>1 DEF Promises
<1> QED
  BY <1>1, <1>2, <1>3, <1>4, <1>5, <1>6, GuardsSuffice DEF panel

(* FetchFails, Watchdog: the process lives on, without its sessions. *)
LEMMA UnavailableKeeps ==
    ASSUME IInv, NEW n \in Exits, FetchFails(n) \/ Watchdog(n) \/ Restart(n)
    PROVE  IInv'
<1> USE DEF IInv
<1>1. /\ UNCHANGED <<panel, scheduler, late>>
      /\ RevocationUnavailable(n)
  BY DEF FetchFails, Watchdog, Restart
<1>2. \/ UNCHANGED <<poll, revoked>>
      \/ /\ revoked' = [revoked EXCEPT ![n] = {}]
         /\ phase' = [phase EXCEPT ![n] = "fetch"]
         /\ snap' = [snap EXCEPT ![n] = Nothing]
         /\ todo' = [todo EXCEPT ![n] = {}]
  BY DEF FetchFails, Watchdog, Restart
<1>3. ops' \in 0..MaxOps /\ faults' \in 0..MaxFaults
  BY EvictionAssumption DEF FetchFails, Watchdog, Restart, Fault, TypeOK
<1>4. /\ known' = [known EXCEPT ![n] = FALSE]
      /\ asking' = [asking EXCEPT ![n] = @ \ Devices]
      /\ open' = [open EXCEPT ![n] = @ \ Devices]
  BY <1>1 DEF RevocationUnavailable, Cut
<1>5. TypeOK'
  <2>1. /\ known' \in [Exits -> BOOLEAN]
        /\ asking' \in [Exits -> SUBSET Devices]
        /\ open' \in [Exits -> SUBSET Devices]
        /\ revoked' \in [Exits -> SUBSET Devices]
    BY <1>2, <1>4 DEF TypeOK, poll
  <2>2. /\ phase' \in [Exits -> {"fetch", "apply", "ack"}]
        /\ snap' \in [Exits -> Snapshots]
        /\ todo' \in [Exits -> SUBSET Revocation]
    <3>1. Nothing \in Snapshots
      BY DEF Snapshots, Nothing
    <3>2. /\ snap \in [Exits -> Snapshots]
          /\ phase \in [Exits -> {"fetch", "apply", "ack"}]
          /\ todo \in [Exits -> SUBSET Revocation]
      BY DEF TypeOK
    <3>3. CASE UNCHANGED <<poll, revoked>>
      BY <3>2, <3>3 DEF poll
    <3>4. CASE /\ phase' = [phase EXCEPT ![n] = "fetch"]
               /\ snap' = [snap EXCEPT ![n] = Nothing]
               /\ todo' = [todo EXCEPT ![n] = {}]
      BY <3>1, <3>2, <3>4
    <3> QED
      BY <1>2, <3>3, <3>4
  <2> QED
    BY <1>1, <1>3, <2>1, <2>2 DEF TypeOK, panel, row, scheduler
<1>6. SnapshotsCover'
  <2>1. Nothing.rows = {}
    BY DEF Nothing
  <2>2. \A k \in Exits : snap'[k] = snap[k] \/ snap'[k] = Nothing
    BY <1>2 DEF poll, TypeOK
  <2> QED
    BY <1>1, <2>1, <2>2 DEF SnapshotsCover, panel
<1>7. PendingIdle'
  BY <1>1, <1>2, <1>4 DEF PendingIdle, panel, poll, TypeOK
<1>8. \A k \in Exits, d \in Devices : Guarded(k, d) => Guarded(k, d)'
  BY <1>2, <1>4 DEF Guarded, Barred, poll, TypeOK
<1>9. \A k \in Exits : Promises(k)' \subseteq Promises(k)
  BY <1>1, <1>2 DEF Promises, poll, TypeOK
<1> QED
  BY <1>1, <1>5, <1>6, <1>7, <1>8, <1>9, GuardsSuffice DEF panel

(* The snapshot takes effect: whatever is acknowledged from now on is done. *)
LEMMA ApplyKeeps ==
    ASSUME IInv, NEW n \in Exits, Apply(n)
    PROVE  IInv'
<1> USE DEF IInv
<1>1. /\ UNCHANGED <<panel, scheduler, late, ops, faults>>
      /\ phase[n] = "apply"
      /\ phase' = [phase EXCEPT ![n] = IF snap[n].rows = {} THEN "fetch" ELSE "ack"]
      /\ todo' = [todo EXCEPT ![n] = snap[n].rows]
      /\ snap' = [snap EXCEPT ![n] = Nothing]
  BY DEF Apply
<1>2. /\ known' = [known EXCEPT ![n] = TRUE]
      /\ revoked' = [revoked EXCEPT ![n] = snap[n].uuids]
      /\ asking' = [asking EXCEPT ![n] = @ \ snap[n].uuids]
      /\ open' = [open EXCEPT ![n] = @ \ snap[n].uuids]
  BY DEF Apply, Cut
<1>3. snap[n].uuids \in SUBSET Devices /\ snap[n].rows \in SUBSET Revocation
  BY DEF TypeOK, Snapshots
<1>4. Nothing \in Snapshots /\ Nothing.rows = {}
  BY DEF Snapshots, Nothing
<1>5. TypeOK'
  <2>1. /\ known' \in [Exits -> BOOLEAN]
        /\ asking' \in [Exits -> SUBSET Devices]
        /\ open' \in [Exits -> SUBSET Devices]
        /\ revoked' \in [Exits -> SUBSET Devices]
    BY <1>2, <1>3 DEF TypeOK
  <2>2. phase' \in [Exits -> {"fetch", "apply", "ack"}]
    BY <1>1 DEF TypeOK
  <2>3. snap' \in [Exits -> Snapshots] /\ todo' \in [Exits -> SUBSET Revocation]
    BY <1>1, <1>3, <1>4 DEF TypeOK
  <2> QED
    BY <1>1, <2>1, <2>2, <2>3 DEF TypeOK, panel, row, scheduler
<1>6. SnapshotsCover'
  <2>1. \A k \in Exits : snap'[k] = snap[k] \/ snap'[k] = Nothing
    BY <1>1 DEF TypeOK
  <2> QED
    BY <1>1, <1>4, <2>1 DEF SnapshotsCover, panel
<1>7. PendingIdle'
  <2>1. member[n] # "pending"
    BY <1>1 DEF PendingIdle
  <2> QED
    BY <1>1, <1>2, <2>1 DEF PendingIdle, panel, TypeOK
<1>8. \A d \in snap[n].uuids : Guarded(n, d)'
  BY <1>1, <1>2, <1>3 DEF Guarded, Barred, TypeOK
<1>9. \A k \in Exits, d \in Devices : Guarded(k, d) => Guarded(k, d)'
  <2>1. ASSUME NEW k \in Exits, NEW d \in Devices, Guarded(k, d)
        PROVE  Guarded(k, d)'
    <3>1. CASE k = n
      BY <1>1, <1>8, <2>1, <3>1 DEF Guarded
    <3>2. CASE k # n
      BY <1>1, <1>2, <2>1, <3>2 DEF Guarded, Barred, TypeOK
    <3> QED
      BY <3>1, <3>2
  <2> QED
    BY <2>1
<1>10. \A k \in Exits : \A r \in Promises(k)' :
          r \in Promises(k) \/ (k = n /\ r \in snap[n].rows)
  BY <1>1 DEF Promises, TypeOK
<1>11. \A r \in snap[n].rows : r.dev \in snap[n].uuids /\ r.epoch <= issued
  BY DEF SnapshotsCover
<1> QED
  BY <1>1, <1>5, <1>6, <1>7, <1>8, <1>9, <1>10, <1>11, GuardsSuffice DEF panel

(* A client's session: none comes to be where the device is barred. *)
LEMMA SessionKeeps ==
    ASSUME IInv, NEW n \in Exits, NEW d \in Devices, Session(n, d)
    PROVE  IInv'
<1> USE DEF IInv
<1>1. UNCHANGED <<panel, scheduler, poll, known, revoked, late, ops, faults>>
  BY DEF Session, Ask, Admit, Close
<1>2. /\ asking' \in [Exits -> SUBSET Devices]
      /\ open' \in [Exits -> SUBSET Devices]
  BY DEF Session, Ask, Admit, Close, Cut, TypeOK
<1>3. \A k \in Exits, e \in Devices :
          e \in asking'[k] \cup open'[k] =>
              \/ e \in asking[k] \cup open[k]
              \/ k = n /\ e = d /\ Authentic(n, d) /\ member[n] # "pending"
  BY DEF Session, Ask, Admit, Close, Cut, Running, TypeOK
<1>4. TypeOK'
  BY <1>1, <1>2 DEF TypeOK, panel, row, scheduler, poll
<1>5. SnapshotsCover'
  BY <1>1 DEF SnapshotsCover, panel, poll
<1>6. PendingIdle'
  <2>1. ASSUME NEW k \in Exits, member[k] = "pending"
        PROVE  asking'[k] = {} /\ open'[k] = {}
    BY <1>2, <1>3, <2>1 DEF PendingIdle
  <2> QED
    BY <1>1, <2>1 DEF PendingIdle, panel, poll
<1>7. \A k \in Exits, e \in Devices : Guarded(k, e) => Guarded(k, e)'
  BY <1>1, <1>3 DEF Guarded, Barred, Authentic, poll
<1>8. \A k \in Exits : Promises(k)' = Promises(k)
  BY <1>1 DEF Promises, poll
<1> QED
  BY <1>1, <1>4, <1>5, <1>6, <1>7, <1>8, GuardsSuffice DEF panel

-----------------------------------------------------------------------------
(* Acknowledgments *)

(* One is counted for the eviction that it names, if that one stands. *)
LEMMA AcknowledgeCounts ==
    ASSUME IInv, NEW n \in Exits, NEW r \in Revocation, r \in Promises(n),
           Acknowledge(n, r) \/ UNCHANGED row
    PROVE  /\ UNCHANGED <<epoch, required>>
           /\ status' \in [Devices -> {"none", "pending", "confirmed"}]
           /\ acks' \in [Devices -> SUBSET Exits]
           /\ \A d \in Devices : /\ status'[d] = "none" <=> status[d] = "none"
                                 /\ status'[d] = "pending" => status[d] = "pending"
                                 /\ status[d] = "confirmed" => status'[d] = "confirmed"
           /\ \A d \in Devices : \A k \in acks'[d] :
                  k \in acks[d] \/ (status[d] # "none" /\ member[k] = "serving" /\ Guarded(k, d))
           /\ \A d \in Devices : acks[d] \subseteq acks'[d]
           /\ \A d \in Devices : status'[d] = "confirmed" =>
                  status[d] = "confirmed" \/ required[d] \subseteq acks'[d]
<1> USE DEF IInv
<1>1. CASE UNCHANGED row
  BY <1>1 DEF row, TypeOK
<1>2. CASE Acknowledge(n, r) /\ ~UNCHANGED row
  <2> DEFINE d == r.dev
  <2>1. d \in Devices
    BY DEF Revocation
  <2>2. /\ member[n] = "serving" /\ status[d] # "none" /\ epoch[d] = r.epoch /\ n \in required[d]
        /\ acks' = [acks EXCEPT ![d] = @ \cup {n}]
        /\ status' = [status EXCEPT ![d] =
               IF required[d] \subseteq acks[d] \cup {n} THEN "confirmed" ELSE @]
        /\ UNCHANGED <<epoch, required>>
    BY <1>2 DEF Acknowledge
  <2>3. Guarded(n, d)
    BY <2>2 DEF PromisesKept, Stands
  <2>4. /\ status' \in [Devices -> {"none", "pending", "confirmed"}]
        /\ acks' \in [Devices -> SUBSET Exits]
    BY <2>1, <2>2 DEF TypeOK
  <2>5. \A e \in Devices \ {d} : status'[e] = status[e] /\ acks'[e] = acks[e]
    BY <2>2 DEF TypeOK
  <2>6. /\ acks'[d] = acks[d] \cup {n}
        /\ status'[d] = IF required[d] \subseteq acks[d] \cup {n} THEN "confirmed" ELSE status[d]
    BY <2>1, <2>2 DEF TypeOK
  <2>7. status[d] \in {"pending", "confirmed"}
    BY <2>1, <2>2 DEF TypeOK
  <2> QED
    BY <2>1, <2>2, <2>3, <2>4, <2>5, <2>6, <2>7
<1> QED
  BY <1>1, <1>2

LEMMA AckKeeps ==
    ASSUME IInv, NEW n \in Exits, NEW r \in Revocation, r \in Promises(n),
           Acknowledge(n, r) \/ UNCHANGED row,
           UNCHANGED <<ban, retired, member, issued, scheduler, snap, sessions, ops>>,
           faults' \in 0..MaxFaults,
           phase' \in [Exits -> {"fetch", "apply", "ack"}],
           todo' \in [Exits -> SUBSET Revocation],
           late' \subseteq Exits \X Revocation,
           \A k \in Exits : /\ phase'[k] = "apply" => phase[k] = "apply"
                            /\ phase[k] = "fetch" => phase'[k] = "fetch"
                            /\ Promises(k)' \subseteq Promises(k)
    PROVE  IInv'
<1> USE DEF IInv
<1>1. TypeOK'
  BY AcknowledgeCounts DEF TypeOK, scheduler, sessions
<1>2. OnePending'
  BY AcknowledgeCounts DEF OnePending, Pending
<1>3. \A k \in Exits, e \in Devices : Guarded(k, e) => Guarded(k, e)'
  BY DEF Guarded, Barred, sessions
<1>4. SnapshotsCover' /\ PendingIdle' /\ Decided'
  BY DEF SnapshotsCover, PendingIdle, Decided, sessions, scheduler
<1>5. PromisesKept'
  <2>1. \A k \in Exits : Promises(k) \subseteq Revocation
    BY DEF Promises, TypeOK
  <2>2. \A q \in Revocation : q.dev \in Devices /\ (Stands(q)' => Stands(q))
    BY AcknowledgeCounts DEF Stands, Revocation
  <2> QED
    BY <1>3, <2>1, <2>2 DEF PromisesKept
<1>6. AcksKept'
  <2>1. ASSUME NEW e \in Devices, NEW k \in acks'[e]
        PROVE  status'[e] # "none" /\ member'[k] = "serving" /\ Guarded(k, e)'
    <3>1. k \in Exits
      BY <1>1 DEF TypeOK
    <3>2. status[e] # "none" /\ member[k] = "serving" /\ Guarded(k, e)
      BY AcknowledgeCounts DEF AcksKept
    <3>3. status'[e] # "none"
      BY <3>2, AcknowledgeCounts
    <3> QED
      BY <1>3, <3>1, <3>2, <3>3
  <2> QED
    BY <2>1 DEF AcksKept
<1>7. ConfirmedByAll'
  <2>1. ASSUME NEW e \in Devices, status'[e] = "confirmed", NEW k \in required'[e]
        PROVE  k \in acks'[e] \/ member'[k] = "gone"
    BY <2>1, AcknowledgeCounts DEF ConfirmedByAll
  <2> QED
    BY <2>1 DEF ConfirmedByAll
<1>8. JoinersGuarded'
  <2>1. ASSUME NEW e \in Devices, Whole(e)'
        PROVE  Whole(e)
    <3>1. CASE \A k \in required'[e] : member'[k] # "gone"
      BY <3>1, AcknowledgeCounts DEF Whole
    <3>2. CASE status'[e] = "confirmed" /\ status[e] # "confirmed"
      <4>1. \A k \in required[e] : k \in acks'[e]
        BY <3>2, AcknowledgeCounts
      <4>2. \A k \in acks'[e] : member[k] = "serving"
        BY AcknowledgeCounts DEF AcksKept
      <4> QED
        BY <4>1, <4>2 DEF Whole
    <3> QED
      BY <2>1, <3>1, <3>2 DEF Whole
  <2> QED
    BY <1>3, <2>1, AcknowledgeCounts DEF JoinersGuarded
<1> QED
  BY <1>1, <1>2, <1>4, <1>5, <1>6, <1>7, <1>8

(* An answer, a failure for the agent, and a request that comes late. *)
LEMMA SentKeeps ==
    ASSUME IInv, NEW n \in Exits, NEW r \in todo[n], Ack(n, r) \/ AckFails(n, r)
    PROVE  IInv'
<1> USE DEF IInv
<1>1. r \in Revocation /\ r \in Promises(n)
  BY DEF TypeOK, Promises
<1>2. /\ Acknowledge(n, r) \/ UNCHANGED row
      /\ UNCHANGED <<ban, retired, member, issued, scheduler, snap, sessions, ops>>
      /\ phase[n] = "ack"
      /\ todo' = [todo EXCEPT ![n] = @ \ {r}]
      /\ phase' = [phase EXCEPT ![n] = IF todo[n] = {r} THEN "fetch" ELSE "ack"]
      /\ late' \in {late, late \cup {<<n, r>>}}
  BY DEF Ack, AckFails, Sent
<1>3. faults' \in 0..MaxFaults
  BY EvictionAssumption DEF Ack, AckFails, Fault, TypeOK
<1>4. /\ phase' \in [Exits -> {"fetch", "apply", "ack"}]
      /\ todo' \in [Exits -> SUBSET Revocation]
      /\ late' \subseteq Exits \X Revocation
  BY <1>1, <1>2 DEF TypeOK
<1>5. \A k \in Exits : /\ phase'[k] = "apply" => phase[k] = "apply"
                       /\ phase[k] = "fetch" => phase'[k] = "fetch"
  BY <1>2 DEF TypeOK
<1>6. \A k \in Exits : Promises(k)' \subseteq Promises(k)
  BY <1>1, <1>2 DEF Promises, TypeOK
<1> QED
  BY <1>1, <1>2, <1>3, <1>4, <1>5, <1>6, AckKeeps

LEMMA AckArrivesKeeps ==
    ASSUME IInv, NEW m \in late, AckArrives(m)
    PROVE  IInv'
<1> USE DEF IInv
<1>1. m[1] \in Exits /\ m[2] \in Revocation /\ m = <<m[1], m[2]>>
  BY DEF TypeOK
<1>2. m[2] \in Promises(m[1])
  BY <1>1 DEF Promises
<1>3. /\ Acknowledge(m[1], m[2]) /\ late' = late \ {m}
      /\ UNCHANGED <<ban, retired, member, issued, scheduler, poll, sessions, ops, faults>>
  BY DEF AckArrives
<1>4. \A k \in Exits : Promises(k)' \subseteq Promises(k)
  BY <1>3 DEF Promises, poll
<1> QED
  BY <1>1, <1>2, <1>3, <1>4, AckKeeps DEF TypeOK, poll

-----------------------------------------------------------------------------
LEMMA NextKeeps ==
    ASSUME IInv, [Next]_vars
    PROVE  IInv'
<1>1. ASSUME NEW s \in Schedulers, Check(s) PROVE IInv'
  BY <1>1, MarkKeeps, PurgeKeeps, BeginKeeps DEF Check
<1>2. ASSUME NEW n \in Exits, Poll(n) PROVE IInv'
  BY <1>2, FetchKeeps, ApplyKeeps, SentKeeps DEF Poll
<1>3. ASSUME NEW n \in Exits, NEW d \in Devices, Session(n, d) PROVE IInv'
  BY <1>3, SessionKeeps
<1>4. ASSUME NEW d \in Devices, TimePasses(d) PROVE IInv'
  BY <1>4, BanKeeps
<1>5. CASE Intervention
  BY <1>5, BanKeeps, RegisterKeeps, DeleteNodeKeeps DEF Intervention
<1>6. CASE Failing
  BY <1>6, UnavailableKeeps, SentKeeps, AckArrivesKeeps DEF Failing
<1>7. CASE UNCHANGED vars
  <2>1. TypeOK'
    BY <1>7 DEF vars, panel, row, scheduler, poll, sessions, IInv, TypeOK
  <2>2. UNCHANGED <<row, member, issued, scheduler, poll, sessions, late>>
    BY <1>7 DEF vars, panel
  <2>3. OnePending' /\ SnapshotsCover' /\ PromisesKept' /\ AcksKept' /\ PendingIdle'
    BY <2>2 DEF IInv, OnePending, Pending, SnapshotsCover, PromisesKept, Promises, AcksKept,
                PendingIdle, Stands, Guarded, Barred, row, poll, sessions
  <2>4. ConfirmedByAll' /\ JoinersGuarded' /\ Decided'
    BY <2>2 DEF IInv, ConfirmedByAll, JoinersGuarded, Whole, Guarded, Barred, Decided,
                row, scheduler, poll, sessions
  <2> QED
    BY <2>1, <2>3, <2>4 DEF IInv
<1> QED
  BY <1>1, <1>2, <1>3, <1>4, <1>5, <1>6, <1>7 DEF Next

LEMMA Inductive == Spec => []IInv
<1> QED
  BY Begins, NextKeeps, PTL DEF Spec

(* The rows, the schedulers and the agents stay in their types, and a recorded *)
(* eviction has an epoch and an Exit (uuid_eviction.go, node-agent/cmd/main.go). *)
THEOREM TypeCorrect == Spec => []TypeOK
<1>1. IInv => TypeOK
  BY DEF IInv
<1> QED
  BY <1>1, Inductive, PTL

(* Schedulers of several servers, each with its own picture of the account and *)
(* of the fleet, never evict two of its devices at once (beginUUIDEviction).   *)
THEOREM OneAtATime == Spec => []OnePending
<1>1. IInv => OnePending
  BY DEF IInv
<1> QED
  BY <1>1, Inductive, PTL

(* While an Exit's acknowledgment stands the Exit has no session of the device, *)
(* and none about to be admitted (AcknowledgeUUIDEviction, revokedUUIDPollLoop). *)
THEOREM AcknowledgedIsClosed == Spec => []AckedIsClosed
<1>1. IInv => AckedIsClosed
  BY DEF IInv, AcksKept, AckedIsClosed, Guarded, Barred, TypeOK
<1> QED
  BY <1>1, Inductive, PTL

(* A confirmed eviction holds on the whole fleet, on Exits that joined or took *)
(* another's place since it was decided as well (beginUUIDEviction's recount). *)
THEOREM ConfirmedIsFleetwide == Spec => []ConfirmedFleetwide
<1>1. ASSUME IInv, NEW d \in Devices, NEW n \in Serving, status[d] = "confirmed"
      PROVE  d \notin asking[n] \cup open[n]
  <2>1. n \in Exits /\ member[n] = "serving"
    BY DEF Serving
  <2>2. CASE n \in required[d]
    BY <1>1, <2>1, <2>2 DEF IInv, ConfirmedByAll, AcksKept, Guarded, Barred
  <2>3. CASE n \notin required[d]
    BY <1>1, <2>1, <2>3 DEF IInv, JoinersGuarded, Whole, Guarded, Barred
  <2> QED
    BY <2>2, <2>3
<1>2. IInv => ConfirmedFleetwide
  BY <1>1 DEF ConfirmedFleetwide
<1> QED
  BY <1>2, Inductive, PTL

=============================================================================

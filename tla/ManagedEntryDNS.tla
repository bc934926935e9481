--------------------------- MODULE ManagedEntryDNS ---------------------------
(***************************************************************************)
(* The DNS record of one entry node: the panel writes what it wants into a *)
(* row of managed_entry_dns, and workers make Cloudflare follow it         *)
(* (services/managed_entry_*.go, scheduler/managed_entry_dns.go).          *)
(*                                                                         *)
(* A worker holds the node's advisory lock on a database session while it  *)
(* works, but no transaction: it reads the row once, lists the provider's  *)
(* records, changes them one call at a time and lists them again after     *)
(* each, and reports with an UPDATE that the row's generation and action   *)
(* fence. One call or one statement is one action.                         *)
(***************************************************************************)
EXTENDS Naturals, FiniteSets

CONSTANTS
    Workers,     \* ReconcileOwner calls, of one or several API servers
    IPs,         \* addresses the node may register with
    None,        \* SQL NULL; no record
    MaxId,       \* bound: record ids in use or remembered at one time
    MaxGen,      \* bound: changes of the intent
    MaxFaults,   \* bound: occurrences of what may fail
    Faults       \* what may fail

FaultKinds == {"transient",  \* a provider call fails, its effect done, lost or still to come
               "durable",    \* the provider refuses a call
               "session",    \* a worker's database session dies and its lock with it
               "stop",       \* a worker stops: the server shuts down or dies
               "config",     \* a registration finds the zone's configuration wrong
               "byHand"}     \* somebody edits the zone

ASSUME DNSAssumption ==
    /\ Faults \subseteq FaultKinds
    /\ None \notin IPs \cup Workers
    /\ MaxId \in Nat /\ MaxGen \in Nat \ {0} /\ MaxFaults \in Nat

Ids    == 1..MaxId
Wrong  == "wrong"                  \* a content nobody wants
Status == {"pending", "ready", "conflict", "error", "deleting", "deleted"}

VARIABLES
    action, desired, gen, status, observed, cached, scheduled, invalid,
                 \* the row: desired_action, desired_ipv4, generation,
                 \* dns_status, observed_ipv4, provider_record_id, whether
                 \* next_attempt_at is set, error_code = invalid_configuration
    records,     \* Cloudflare: content of the records with the row's marker
    foreign,     \* Cloudflare: another record has the hostname
    late,        \* calls whose caller gave up and that may still take effect
    lock,        \* the worker whose session holds the advisory lock
    pc, snap, call,
                 \* a worker's stage, what it read of the row, its provider
                 \* call, and below what it is going to report
    verdict,
    faults       \* how many times something failed

row    == <<action, desired, gen, status, observed, cached, scheduled, invalid>>
zone   == <<records, foreign, late>>
worker == <<pc, snap, call, verdict>>
vars   == <<row, zone, lock, worker, faults>>

Call     == [op : {"create", "update", "delete"}, id : Ids \cup {None}, ip : IPs]
Verdicts == {"ready", "deleted", "conflict", "rejected", "retry"}
NoCall   == [op |-> "none", id |-> None, ip |-> None]
Tried    == [done : Call \cup {NoCall}, err : {"none", "transient", "durable"},
             keep : Ids \cup {None}]
Written(c, err, keep) == [done |-> c, err |-> err, keep |-> keep]
NotYet   == Written(NoCall, "none", None)
Idle     == [action |-> "present", gen |-> 0, ip |-> None, cached |-> None, shown |-> FALSE]
Snapshot == [action : {"present", "delete"}, gen : 0..MaxGen, ip : IPs \cup {None},
             cached : Ids \cup {None}, shown : BOOLEAN]

TypeOK ==
    /\ action \in {"present", "delete"}
    /\ desired \in IPs
    /\ gen \in 1..MaxGen
    /\ status \in Status
    /\ observed \in IPs \cup {None}
    /\ cached \in Ids \cup {None}
    /\ scheduled \in BOOLEAN /\ invalid \in BOOLEAN
    /\ records \in [Ids -> IPs \cup {None, Wrong}]
    /\ foreign \in BOOLEAN
    /\ late \subseteq Call
    /\ lock \in Workers \cup {None}
    /\ pc \in [Workers -> {"idle", "list", "write", "report"}]
    /\ snap \in [Workers -> Snapshot]
    /\ call \in [Workers -> Tried]
    /\ verdict \in [Workers -> [kind : Verdicts, id : Ids \cup {None}] \cup {None}]
    /\ faults \in 0..MaxFaults

\* The row as the node's first registration leaves it.
Init ==
    /\ action = "present" /\ desired \in IPs /\ gen = 1
    /\ status = "pending" /\ observed = None /\ cached = None
    /\ scheduled = TRUE /\ invalid = FALSE
    /\ records = [i \in Ids |-> None] /\ foreign = FALSE /\ late = {}
    /\ lock = None
    /\ pc = [w \in Workers |-> "idle"]
    /\ snap = [w \in Workers |-> Idle]
    /\ call = [w \in Workers |-> NotYet]
    /\ verdict = [w \in Workers |-> None]
    /\ faults = 0

-----------------------------------------------------------------------------
Fault(kind) == kind \in Faults /\ faults < MaxFaults /\ faults' = faults + 1

(* The intent *)

\* Mutants of EnsureIntent: every registration is a new generation; a deleted
\* node's row is revived.
MutantEnsureIntentEach(ip) ==
    /\ action = "present" /\ gen <= MaxGen
    /\ desired' = ip /\ gen' = gen + 1
    /\ status' = "pending" /\ scheduled' = TRUE /\ invalid' = FALSE
    /\ UNCHANGED <<action, observed, cached, zone, lock, worker, faults>>

MutantEnsureIntentRevives(ip) ==
    LET changed == desired # ip IN
    /\ changed => gen < MaxGen
    /\ desired' = ip
    /\ gen' = IF changed THEN gen + 1 ELSE gen
    /\ status' = IF changed \/ invalid THEN "pending" ELSE status
    /\ scheduled' = (changed \/ invalid \/ scheduled)
    /\ invalid' = FALSE
    /\ UNCHANGED <<action, observed, cached, zone, lock, worker, faults>>

\* EnsureManagedEntryDNSIntent for a registration with an IPv4 address.
EnsureIntent(ip) ==
    LET changed == desired # ip  pending == changed \/ invalid IN
    /\ action = "present"
    /\ changed => gen < MaxGen
    /\ desired' = ip
    /\ gen' = IF changed THEN gen + 1 ELSE gen
    /\ status' = IF pending THEN "pending" ELSE status
    /\ scheduled' = (pending \/ scheduled)
    /\ invalid' = FALSE
    /\ UNCHANGED <<action, observed, cached, zone, lock, worker, faults>>

\* The same with an address that is none, or outside the configured zone.
EnsureInvalid ==
    /\ action = "present" /\ Fault("config")
    /\ status' = "error" /\ invalid' = TRUE /\ scheduled' = FALSE
    /\ UNCHANGED <<action, desired, gen, observed, cached, zone, lock, worker>>

\* DeleteNodeWithManagedDNS waits for the lock and deletes the node; the row stays.
DeleteNode ==
    /\ lock = None /\ action = "present" /\ gen < MaxGen
    /\ action' = "delete" /\ gen' = gen + 1
    /\ status' = "deleting" /\ scheduled' = TRUE
    /\ UNCHANGED <<desired, observed, cached, invalid, zone, lock, worker, faults>>

-----------------------------------------------------------------------------
(* A worker *)

\* ListDue and TryAcquire: the lock, then the row.
Acquire(w) ==
    /\ pc[w] = "idle" /\ scheduled /\ lock = None
    /\ lock' = w
    /\ snap' = [snap EXCEPT ![w] = [action |-> action, gen |-> gen, ip |-> desired, cached |-> cached,
                                    shown |-> status = "ready" /\ desired = observed]]
    /\ call' = [call EXCEPT ![w] = NotYet]
    /\ pc' = [pc EXCEPT ![w] = "list"]
    /\ UNCHANGED <<row, zone, verdict, faults>>

Owned   == {i \in Ids : records[i] # None}
Lowest(S) == CHOOSE i \in S : \A j \in S : i <= j

\* managedEntryKeeper
Keeper(w) == IF snap[w].cached \in Owned THEN snap[w].cached ELSE Lowest(Owned)
Matches(w, i) == records[i] = snap[w].ip

Report(w, kind, id) ==
    /\ pc' = [pc EXCEPT ![w] = "report"]
    /\ verdict' = [verdict EXCEPT ![w] = [kind |-> kind, id |-> id]]
    /\ UNCHANGED call

Write(w, op, id, keep) ==
    /\ pc' = [pc EXCEPT ![w] = "write"]
    /\ call' = [call EXCEPT ![w] = Written([op |-> op, id |-> id, ip |-> snap[w].ip], "none", keep)]
    /\ UNCHANGED verdict

\* providerFailure, for a call that failed.
Failure(err) == IF err = "transient" THEN "retry" ELSE "rejected"

\* What the listing after a call makes of it: a verdict, or to go on. A failed
\* create or update that shows in the listing counts as done.
AfterWrite(w) ==
    LET last == call[w].done  err == call[w].err
        only == ~foreign /\ Cardinality(Owned) = 1 /\ Matches(w, Lowest(Owned)) IN
    CASE last.op = "none" -> "goOn"
      [] last.op = "create" /\ err # "none" -> IF only THEN "ready" ELSE Failure(err)
      [] last.op = "create" /\ err = "none" -> IF Owned = {} THEN "conflict" ELSE "goOn"
      [] last.op = "update" /\ err # "none" ->
             IF only /\ last.id \in Owned THEN "ready" ELSE Failure(err)
      [] last.op = "update" /\ err = "none" ->
             IF foreign \/ Owned # {last.id} THEN "conflict"
             ELSE IF ~Matches(w, last.id) THEN "retry" ELSE "goOn"
      [] last.op = "delete" ->
             IF snap[w].action = "present" /\ err # "none" /\ foreign THEN "conflict"
             ELSE IF last.id \in Owned THEN (IF err # "none" THEN Failure(err) ELSE "retry")
             ELSE IF snap[w].action = "present" /\ call[w].keep \notin Owned THEN "conflict"
             ELSE "goOn"

\* reconcileDelete: the owned records go one by one.
ReconcileDelete(w) ==
    IF Owned = {} THEN Report(w, "deleted", None) ELSE Write(w, "delete", Lowest(Owned), None)

\* Mutant of ReconcilePresent: a right record among several is good enough.
MutantReconcilePresentAny(w) ==
    CASE foreign -> Report(w, "conflict", None)
      [] ~foreign /\ Owned = {} -> Write(w, "create", None, None)
      [] ~foreign /\ Owned # {} ->
             IF Matches(w, Keeper(w)) THEN Report(w, "ready", Keeper(w))
                                      ELSE Write(w, "update", Keeper(w), Keeper(w))

\* reconcilePresent: duplicates go, the keeper is corrected.
ReconcilePresent(w) ==
    CASE foreign -> Report(w, "conflict", None)
      [] ~foreign /\ Owned = {} -> Write(w, "create", None, None)
      [] ~foreign /\ Cardinality(Owned) > 1 ->
             Write(w, "delete", Lowest(Owned \ {Keeper(w)}), Keeper(w))
      [] ~foreign /\ Cardinality(Owned) = 1 ->
             IF Matches(w, Keeper(w)) THEN Report(w, "ready", Keeper(w))
                                      ELSE Write(w, "update", Keeper(w), Keeper(w))

\* ListExactAllTypes, on its own or after a call, and the decision on its answer.
List(w) ==
    /\ pc[w] = "list"
    /\ IF AfterWrite(w) = "ready" THEN Report(w, "ready", Lowest(Owned))
       ELSE IF AfterWrite(w) # "goOn" THEN Report(w, AfterWrite(w), None)
       ELSE IF snap[w].action = "delete" THEN ReconcileDelete(w) ELSE ReconcilePresent(w)
    /\ UNCHANGED <<row, zone, lock, snap, faults>>

ListFails(w, err) ==
    /\ pc[w] = "list" /\ Fault(err)
    /\ Report(w, Failure(err), None)
    /\ UNCHANGED <<row, zone, lock, snap>>

\* What a call leaves of the records. A create takes a new id: one that neither
\* a record nor anything that could name it has.
Applied(c, id) == [records EXCEPT ![id] = IF c.op = "delete" THEN None ELSE c.ip]
Known     == Owned \cup {cached} \cup {c.id : c \in late} \cup
             UNION {{snap[w].cached, call[w].done.id, call[w].keep} : w \in Workers}
Unused    == Ids \ Known
Target(c) == IF c.op = "create" THEN Unused ELSE {c.id} \cap Owned

Answered(w, err) ==
    /\ pc' = [pc EXCEPT ![w] = "list"]
    /\ call' = [call EXCEPT ![w].err = err]
    /\ UNCHANGED <<row, foreign, lock, snap, verdict>>

\* Create, Update, Delete: done and answered; its object is gone; or it fails
\* with its effect done, not done, or, when the caller gave up, still to come.
CallProvider(w) ==
    /\ pc[w] = "write"
    /\ \E id \in Target(call[w].done) : records' = Applied(call[w].done, id)
    /\ Answered(w, "none")
    /\ UNCHANGED <<late, faults>>

CallNotFound(w) ==
    /\ pc[w] = "write" /\ call[w].done.op # "create" /\ Target(call[w].done) = {}
    /\ Answered(w, "durable")
    /\ UNCHANGED <<records, late, faults>>

CallFails(w, err) ==
    LET c == call[w].done IN
    /\ pc[w] = "write" /\ Fault(err) /\ Answered(w, err)
    /\ \/ UNCHANGED <<records, late>>
       \/ err = "transient" /\ UNCHANGED late /\ \E id \in Target(c) : records' = Applied(c, id)
       \/ err = "transient" /\ late' = late \cup {c} /\ UNCHANGED records

GoIdle(w) ==
    /\ pc' = [pc EXCEPT ![w] = "idle"]
    /\ snap' = [snap EXCEPT ![w] = Idle]
    /\ call' = [call EXCEPT ![w] = NotYet]
    /\ verdict' = [verdict EXCEPT ![w] = None]
    /\ lock' = IF lock = w THEN None ELSE lock

\* Ready, Deleted, Failed and Transient: what each writes.
Ready(w) ==
    /\ verdict[w].kind = "ready"
    /\ status' = "ready" /\ scheduled' = TRUE
    /\ observed' = snap[w].ip /\ cached' = verdict[w].id

Deleted(w) ==
    /\ verdict[w].kind = "deleted"
    /\ status' = "deleted" /\ scheduled' = TRUE
    /\ observed' = None /\ UNCHANGED cached

Failed(w) ==
    /\ verdict[w].kind \in {"conflict", "rejected"}
    /\ status' = IF verdict[w].kind = "conflict" THEN "conflict" ELSE "error"
    /\ scheduled' = FALSE
    /\ UNCHANGED <<observed, cached>>

Transient(w) ==
    /\ verdict[w].kind = "retry"
    /\ status' = IF snap[w].action = "delete" THEN "deleting"
                 ELSE IF snap[w].shown THEN "ready" ELSE "pending"
    /\ scheduled' = TRUE
    /\ UNCHANGED <<observed, cached>>

\* Mutant of Current: the generation is not compared.
MutantCurrentAnyGeneration(w) == action = snap[w].action

\* The UPDATE finds the row it was made for.
Current(w) == gen = snap[w].gen /\ action = snap[w].action

\* complete, on the session that holds the lock, then Release.
Complete(w) ==
    /\ pc[w] = "report" /\ lock = w /\ Current(w)
    /\ Ready(w) \/ Deleted(w) \/ Failed(w) \/ Transient(w)
    /\ invalid' = FALSE
    /\ GoIdle(w)
    /\ UNCHANGED <<action, desired, gen, zone, faults>>

\* ErrManagedEntryDNSStale, or no session any more.
Stale(w) ==
    /\ pc[w] = "report" /\ ~(lock = w /\ Current(w))
    /\ GoIdle(w)
    /\ UNCHANGED <<row, zone, faults>>

-----------------------------------------------------------------------------
(* What fails *)

\* The database closes the session, and its lock with it; the worker goes on.
LoseSession(w) ==
    /\ lock = w /\ Fault("session")
    /\ lock' = None
    /\ UNCHANGED <<row, zone, worker>>

\* The worker's context ends, or its process: nothing is reported, and a call
\* it has out may take effect later.
Stop(w) ==
    /\ pc[w] # "idle" /\ Fault("stop")
    /\ IF pc[w] = "write" THEN late' \in {late, late \cup {call[w].done}} ELSE UNCHANGED late
    /\ GoIdle(w)
    /\ UNCHANGED <<row, records, foreign>>

LateTakesEffect(c) ==
    /\ c \in late /\ late' = late \ {c}
    /\ \E id \in Target(c) : records' = Applied(c, id)
    /\ UNCHANGED <<row, foreign, lock, worker, faults>>

LateLost(c) ==
    /\ c \in late /\ late' = late \ {c}
    /\ UNCHANGED <<row, records, foreign, lock, worker, faults>>

Tamper(i, content) ==
    /\ i \in Owned /\ Fault("byHand")
    /\ records' = [records EXCEPT ![i] = content]
    /\ UNCHANGED <<row, foreign, late, lock, worker>>

TamperForeign ==
    /\ Fault("byHand") /\ foreign' = ~foreign
    /\ UNCHANGED <<row, records, late, lock, worker>>

-----------------------------------------------------------------------------
Reconcile(w) ==
    \/ List(w) \/ CallProvider(w) \/ CallNotFound(w) \/ Complete(w) \/ Stale(w)

Intent == (\E ip \in IPs : EnsureIntent(ip)) \/ EnsureInvalid \/ DeleteNode

Failing ==
    \/ \E w \in Workers, err \in {"transient", "durable"} : ListFails(w, err) \/ CallFails(w, err)
    \/ \E w \in Workers : LoseSession(w) \/ Stop(w)
    \/ \E c \in late : LateTakesEffect(c) \/ LateLost(c)
    \/ \E i \in Ids, content \in {None, Wrong} : Tamper(i, content)
    \/ TamperForeign

Next == Intent \/ Failing \/ \E w \in Workers : Acquire(w) \/ Reconcile(w)

Spec == Init /\ [][Next]_vars

\* Every worker polls, and answers, fails or times out. No row waits for
\* registrations, and what was given up need never happen.
FairSpec ==
    /\ Spec
    /\ \A w \in Workers : WF_vars(Acquire(w)) /\ WF_vars(Reconcile(w))

-----------------------------------------------------------------------------
(* What the panel can rely on *)

\* A row that says ready shows the address now wanted, whatever workers with an
\* older picture report.
ReadyIsIntended == status = "ready" => action = "present" /\ observed = desired

\* No row is forgotten: one that no operator need look at is due some time.
NotForgotten == status \in {"pending", "ready", "deleting", "deleted"} => scheduled

\* A deleted node's row never goes back to being published, nor is its record
\* called ready again.
DeletionIsFinal ==
    [][action = "delete" => action' = "delete" /\ status' \notin {"pending", "ready"}]_vars

\* In the end the zone is what the row asks for, or the row shows an operator
\* that it is not: late calls, lost sessions, edits by hand and stops included.
Settled == \/ status \in {"conflict", "error"}
           \/ action = "present" /\ Cardinality(Owned) = 1 /\ \A i \in Owned : records[i] = desired
           \/ action = "delete" /\ Owned = {}
Converges == <>[]Settled

=============================================================================

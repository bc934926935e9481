------------------------- MODULE CredentialEviction -------------------------
(***************************************************************************)
(* Eviction of an account's credentials: a scheduler bans the newest UUID  *)
(* of an account that is over its limit, until every Exit has confirmed    *)
(* that it closed the UUID's sessions (scheduler/uuid_eviction.go,         *)
(* database/schema_uuid_eviction.go, handlers/node_agent_revoked.go, the   *)
(* poll loop of node-agent/cmd/main.go and deviceegress/server.go).        *)
(*                                                                         *)
(* One statement of the scheduler outside a transaction, one transaction,  *)
(* one request, and one critical section of the agent is one action.       *)
(***************************************************************************)
EXTENDS Naturals, FiniteSets

CONSTANTS
    Devices,     \* the UUIDs of one account
    Exits,       \* Exit nodes
    Schedulers,  \* ConcurrencySchedulers, one per API server
    None,        \* no device
    MaxEpoch,    \* bound: evictions begun
    MaxOps,      \* bound: interventions of operator and user
    MaxFaults    \* bound: failures of agents and their requests

ASSUME EvictionAssumption ==
    /\ Exits # {} /\ IsFiniteSet(Exits)
    /\ None \notin Devices
    /\ MaxEpoch \in Nat /\ MaxOps \in Nat /\ MaxFaults \in Nat

Epochs == 1..MaxEpoch

VARIABLES
    ban,         \* devices.evicted_until: "free" is NULL or past, "timed" an
                 \* instant to come, "held" the year 9999
    retired,     \* devices with retired_at
    status, epoch, required,
                 \* the device's row of uuid_evictions
    acks,        \* uuid_eviction_acknowledgments of the row's epoch
    member,      \* nodes.status: "pending", "serving"; "gone" is deleted
    issued,      \* epochs given so far
    stage, target, fleet,
                 \* a scheduler's next statement; what it is going to evict
                 \* and the Exits that it found ready
    phase, snap, todo,
                 \* an agent's poll: what it does next, the snapshot it
                 \* fetched, the revocations it has yet to acknowledge
    known, revoked,
                 \* Server.revocationKnown and Server.revoked
    asking, open,
                 \* devices with authenticated sessions that have their permit
                 \* but are not admitted yet, and with admitted ones
    late,        \* acknowledgments whose sender gave up and that may arrive
    ops, faults

row       == <<status, epoch, required, acks>>
panel     == <<ban, retired, row, member, issued>>
scheduler == <<stage, target, fleet>>
poll      == <<phase, snap, todo>>
sessions  == <<known, revoked, asking, open>>
vars      == <<panel, scheduler, poll, sessions, late, ops, faults>>

Revocation == [dev : Devices, epoch : Epochs]
Snapshots  == [uuids : SUBSET Devices, rows : SUBSET Revocation]
Nothing    == [uuids |-> {}, rows |-> {}]

TypeOK ==
    /\ ban \in [Devices -> {"free", "timed", "held"}]
    /\ retired \subseteq Devices
    /\ status \in [Devices -> {"none", "pending", "confirmed"}]
    /\ epoch \in [Devices -> 0..MaxEpoch]
    /\ required \in [Devices -> SUBSET Exits]
    /\ acks \in [Devices -> SUBSET Exits]
    /\ member \in [Exits -> {"pending", "serving", "gone"}]
    /\ issued \in 0..MaxEpoch
    /\ stage \in [Schedulers -> {"mark", "purge", "decide", "begin"}]
    /\ target \in [Schedulers -> Devices \cup {None}]
    /\ fleet \in [Schedulers -> SUBSET Exits]
    /\ phase \in [Exits -> {"fetch", "apply", "ack"}]
    /\ snap \in [Exits -> Snapshots]
    /\ todo \in [Exits -> SUBSET Revocation]
    /\ known \in [Exits -> BOOLEAN]
    /\ revoked \in [Exits -> SUBSET Devices]
    /\ asking \in [Exits -> SUBSET Devices]
    /\ open \in [Exits -> SUBSET Devices]
    /\ late \subseteq Exits \X Revocation
    /\ ops \in 0..MaxOps /\ faults \in 0..MaxFaults
    /\ \A d \in Devices : status[d] # "none" => epoch[d] \in 1..issued /\ required[d] # {}

Serving == {n \in Exits : member[n] = "serving"}

Init ==
    /\ ban = [d \in Devices |-> "free"]
    /\ retired = {}
    /\ status = [d \in Devices |-> "none"]
    /\ epoch = [d \in Devices |-> 0]
    /\ required = [d \in Devices |-> {}]
    /\ acks = [d \in Devices |-> {}]
    /\ member \in {f \in [Exits -> {"pending", "serving"}] : \E n \in Exits : f[n] = "serving"}
    /\ issued = 0
    /\ stage = [s \in Schedulers |-> "mark"]
    /\ target = [s \in Schedulers |-> None]
    /\ fleet = [s \in Schedulers |-> {}]
    /\ phase = [n \in Exits |-> "fetch"]
    /\ snap = [n \in Exits |-> Nothing]
    /\ todo = [n \in Exits |-> {}]
    /\ known = [n \in Exits |-> FALSE]
    /\ revoked = [n \in Exits |-> {}]
    /\ asking = [n \in Exits |-> {}]
    /\ open = [n \in Exits |-> {}]
    /\ late = {} /\ ops = 0 /\ faults = 0

-----------------------------------------------------------------------------
(* The scheduler's pass over the account *)

\* The cooldown counts from the confirmation: it may be over at once.
Mark(s) ==
    /\ stage[s] = "mark"
    /\ LET over == {d \in Devices : status[d] = "confirmed" /\ ban[d] = "held"}
       IN  ban' = [d \in Devices |-> IF d \in over THEN "timed" ELSE ban[d]]
    /\ stage' = [stage EXCEPT ![s] = "purge"]
    /\ UNCHANGED <<retired, row, member, issued, target, fleet, poll, sessions, late, ops, faults>>

Purge(s) ==
    /\ stage[s] = "purge"
    /\ LET over == {d \in Devices : status[d] = "confirmed" /\ ban[d] = "free"}
           Clear(f, value) == [d \in Devices |-> IF d \in over THEN value ELSE f[d]]
       IN  /\ status' = Clear(status, "none")
           /\ epoch' = Clear(epoch, 0)
           /\ required' = Clear(required, {})
           /\ acks' = Clear(acks, {})
    /\ stage' = [stage EXCEPT ![s] = "decide"]
    /\ UNCHANGED <<ban, retired, member, issued, target, fleet, poll, sessions, late, ops, faults>>

Pending == {d \in Devices : status[d] = "pending"}

\* Nothing to do: an eviction is pending, the account is within its limit, it is
\* not clear who came last, or an Exit is not ready.
Pass(s) ==
    /\ stage[s] = "decide"
    /\ stage' = [stage EXCEPT ![s] = "mark"]
    /\ UNCHANGED <<panel, target, fleet, poll, sessions, late, ops, faults>>

MutantDecideEmpty(s, d) ==
    /\ stage[s] = "decide" /\ Pending = {}
    /\ stage' = [stage EXCEPT ![s] = "begin"]
    /\ target' = [target EXCEPT ![s] = d]
    /\ fleet' = [fleet EXCEPT ![s] = Serving]
    /\ UNCHANGED <<panel, poll, sessions, late, ops, faults>>

\* Reports lag behind: whom they name as the newest need not be connected now.
Decide(s, d) ==
    /\ stage[s] = "decide"
    /\ Pending = {} /\ Serving # {}
    /\ stage' = [stage EXCEPT ![s] = "begin"]
    /\ target' = [target EXCEPT ![s] = d]
    /\ fleet' = [fleet EXCEPT ![s] = Serving]
    /\ UNCHANGED <<panel, poll, sessions, late, ops, faults>>

MutantBeginUnchecked(s) ==
    /\ stage[s] = "begin"
    /\ stage' = [stage EXCEPT ![s] = "mark"]
    /\ LET d == target[s]
       IN  IF ban[d] = "free" /\ Pending = {} /\ issued < MaxEpoch
           THEN /\ ban' = [ban EXCEPT ![d] = "held"]
                /\ status' = [status EXCEPT ![d] = "pending"]
                /\ epoch' = [epoch EXCEPT ![d] = issued + 1]
                /\ required' = [required EXCEPT ![d] = fleet[s]]
                /\ acks' = [acks EXCEPT ![d] = {}]
                /\ issued' = issued + 1
           ELSE UNCHANGED <<ban, row, issued>>
    /\ target' = [target EXCEPT ![s] = None]
    /\ fleet' = [fleet EXCEPT ![s] = {}]
    /\ UNCHANGED <<retired, member, poll, sessions, late, ops, faults>>

Begin(s) ==
    /\ stage[s] = "begin"
    /\ stage' = [stage EXCEPT ![s] = "mark"]
    /\ LET d == target[s]
       IN  IF /\ ban[d] = "free" /\ Pending = {}
              /\ Cardinality(Serving) = Cardinality(fleet[s])
              /\ issued < MaxEpoch
           THEN /\ ban' = [ban EXCEPT ![d] = "held"]
                /\ status' = [status EXCEPT ![d] = "pending"]
                /\ epoch' = [epoch EXCEPT ![d] = issued + 1]
                /\ required' = [required EXCEPT ![d] = fleet[s]]
                /\ acks' = [acks EXCEPT ![d] = {}]
                /\ issued' = issued + 1
           ELSE UNCHANGED <<ban, row, issued>>
    /\ target' = [target EXCEPT ![s] = None]
    /\ fleet' = [fleet EXCEPT ![s] = {}]
    /\ UNCHANGED <<retired, member, poll, sessions, late, ops, faults>>

-----------------------------------------------------------------------------
(* Operators, users, and time *)

Intervene == ops < MaxOps /\ ops' = ops + 1

\* TerminateSession sets its own end of the ban, whatever ban there is.
Terminate(d) ==
    /\ Intervene
    /\ ban' = [ban EXCEPT ![d] = "timed"]
    /\ UNCHANGED <<retired, row, member, issued, scheduler, poll, sessions, late, faults>>

Retire(d) ==
    /\ Intervene /\ d \notin retired
    /\ retired' = retired \cup {d}
    /\ ban' = [ban EXCEPT ![d] = "held"]
    /\ UNCHANGED <<row, member, issued, scheduler, poll, sessions, late, faults>>

Register(n) ==
    /\ Intervene /\ member[n] = "pending"
    /\ member' = [member EXCEPT ![n] = "serving"]
    /\ UNCHANGED <<ban, retired, row, issued, scheduler, poll, sessions, late, faults>>

\* The node's acknowledgments go with it, the rows that require it stay.
DeleteNode(n) ==
    /\ Intervene /\ member[n] = "serving"
    /\ member' = [member EXCEPT ![n] = "gone"]
    /\ acks' = [d \in Devices |-> acks[d] \ {n}]
    /\ UNCHANGED <<ban, retired, status, epoch, required, issued, scheduler, poll, sessions, late, faults>>

TimePasses(d) ==
    /\ ban[d] = "timed"
    /\ ban' = [ban EXCEPT ![d] = "free"]
    /\ UNCHANGED <<retired, row, member, issued, scheduler, poll, sessions, late, ops, faults>>

-----------------------------------------------------------------------------
(* The panel's answers to an Exit *)

MutantRevokedBanned == {d \in Devices : ban[d] # "free" \/ d \in retired}

Revoked == {d \in Devices : ban[d] # "free" \/ d \in retired \/ status[d] # "none"}

MutantRevokedDevicesBanned ==
    [uuids |-> Revoked,
     rows  |-> {[dev |-> d, epoch |-> epoch[d]] :
                    d \in {e \in Devices : status[e] # "none" /\ ban[e] # "free"}}]

RevokedDevices ==
    [uuids |-> Revoked,
     rows  |-> {[dev |-> d, epoch |-> epoch[d]] : d \in {e \in Devices : status[e] # "none"}}]

\* AcknowledgeUUIDEviction, for an authenticated Exit.
Acknowledge(n, r) ==
    LET d == r.dev
    IN  IF /\ member[n] = "serving"
           /\ status[d] # "none" /\ epoch[d] = r.epoch
           /\ n \in required[d]
        THEN /\ acks' = [acks EXCEPT ![d] = @ \cup {n}]
             /\ status' = [status EXCEPT ![d] =
                    IF required[d] \subseteq acks[d] \cup {n} THEN "confirmed" ELSE @]
             /\ UNCHANGED <<epoch, required>>
        ELSE UNCHANGED row

-----------------------------------------------------------------------------
(* The agent of an Exit *)

Running(n) == member[n] # "pending"
Fault == faults < MaxFaults /\ faults' = faults + 1

Cut(sets, n, devs) == [sets EXCEPT ![n] = @ \ devs]

\* revocationKnown is false and every session is closed.
RevocationUnavailable(n) ==
    /\ known' = [known EXCEPT ![n] = FALSE]
    /\ asking' = Cut(asking, n, Devices)
    /\ open' = Cut(open, n, Devices)

Fetch(n) ==
    /\ phase[n] = "fetch" /\ member[n] = "serving"
    /\ phase' = [phase EXCEPT ![n] = "apply"]
    /\ snap' = [snap EXCEPT ![n] = RevokedDevices]
    /\ UNCHANGED <<panel, scheduler, todo, sessions, late, ops, faults>>

\* The panel is out of reach, or does not know the node any more.
FetchFails(n) ==
    /\ Running(n) /\ phase[n] = "fetch"
    /\ IF member[n] = "gone" THEN UNCHANGED faults ELSE Fault
    /\ RevocationUnavailable(n)
    /\ UNCHANGED <<panel, scheduler, poll, revoked, late, ops>>

\* ReconcileRevokedUUIDs, before anything is acknowledged.
Apply(n) ==
    /\ phase[n] = "apply"
    /\ known' = [known EXCEPT ![n] = TRUE]
    /\ revoked' = [revoked EXCEPT ![n] = snap[n].uuids]
    /\ asking' = Cut(asking, n, snap[n].uuids)
    /\ open' = Cut(open, n, snap[n].uuids)
    /\ phase' = [phase EXCEPT ![n] = IF snap[n].rows = {} THEN "fetch" ELSE "ack"]
    /\ todo' = [todo EXCEPT ![n] = snap[n].rows]
    /\ snap' = [snap EXCEPT ![n] = Nothing]
    /\ UNCHANGED <<panel, scheduler, late, ops, faults>>

Sent(n, r) ==
    /\ phase[n] = "ack" /\ r \in todo[n]
    /\ todo' = [todo EXCEPT ![n] = @ \ {r}]
    /\ phase' = [phase EXCEPT ![n] = IF todo[n] = {r} THEN "fetch" ELSE "ack"]
    /\ UNCHANGED <<snap, sessions, scheduler, ban, retired, member, issued, ops>>

Ack(n, r) == Sent(n, r) /\ Acknowledge(n, r) /\ UNCHANGED <<late, faults>>

\* The request fails for the agent, which goes on: it is lost, or underway.
AckFails(n, r) ==
    /\ Sent(n, r) /\ Fault
    /\ late' \in {late, late \cup {<<n, r>>}}
    /\ UNCHANGED row

AckArrives(m) ==
    /\ m \in late
    /\ late' = late \ {m}
    /\ Acknowledge(m[1], m[2])
    /\ UNCHANGED <<ban, retired, member, issued, scheduler, poll, sessions, ops, faults>>

\* A poll hangs for five seconds.
Watchdog(n) ==
    /\ known[n] /\ Fault
    /\ RevocationUnavailable(n)
    /\ UNCHANGED <<panel, scheduler, poll, revoked, late, ops>>

Restart(n) ==
    /\ Running(n) /\ Fault
    /\ RevocationUnavailable(n)
    /\ revoked' = [revoked EXCEPT ![n] = {}]
    /\ phase' = [phase EXCEPT ![n] = "fetch"]
    /\ snap' = [snap EXCEPT ![n] = Nothing]
    /\ todo' = [todo EXCEPT ![n] = {}]
    /\ UNCHANGED <<panel, scheduler, late, ops>>

\* What authentication and, once more, admission look at.
Authentic(n, d) == known[n] /\ d \notin revoked[n]

\* A client authenticates and the panel permits its device.  Whatever revokes
\* the device in between closes the session, so that both hold at the permit.
Ask(n, d) ==
    /\ Running(n) /\ d \notin asking[n] \cup open[n]
    /\ Authentic(n, d)
    /\ member[n] = "serving" /\ ban[d] = "free" /\ d \notin retired
    /\ asking' = [asking EXCEPT ![n] = @ \cup {d}]
    /\ UNCHANGED <<panel, scheduler, poll, known, revoked, open, late, ops, faults>>

\* reserveBeforeSuccess looks once more before the session is admitted.
Admit(n, d) ==
    /\ d \in asking[n]
    /\ asking' = Cut(asking, n, {d})
    /\ open' = IF Authentic(n, d)
               THEN [open EXCEPT ![n] = @ \cup {d}] ELSE open
    /\ UNCHANGED <<panel, scheduler, poll, known, revoked, late, ops, faults>>

Close(n, d) ==
    /\ d \in asking[n] \cup open[n]
    /\ asking' = Cut(asking, n, {d})
    /\ open' = Cut(open, n, {d})
    /\ UNCHANGED <<panel, scheduler, poll, known, revoked, late, ops, faults>>

-----------------------------------------------------------------------------
Check(s) == Mark(s) \/ Purge(s) \/ Pass(s) \/ Begin(s) \/ \E d \in Devices : Decide(s, d)

\* The rounds of the agent that the panel answers.
Poll(n) == Fetch(n) \/ Apply(n) \/ \E r \in todo[n] : Ack(n, r)

Session(n, d) == Ask(n, d) \/ Admit(n, d) \/ Close(n, d)

Intervention ==
    \/ \E d \in Devices : Terminate(d) \/ Retire(d)
    \/ \E n \in Exits : Register(n) \/ DeleteNode(n)

Failing ==
    \/ \E n \in Exits : FetchFails(n) \/ Watchdog(n) \/ Restart(n)
    \/ \E n \in Exits : \E r \in todo[n] : AckFails(n, r)
    \/ \E m \in late : AckArrives(m)

Next ==
    \/ \E s \in Schedulers : Check(s)
    \/ \E n \in Exits : Poll(n)
    \/ \E n \in Exits, d \in Devices : Session(n, d)
    \/ \E d \in Devices : TimePasses(d)
    \/ Intervention
    \/ Failing

Spec == Init /\ [][Next]_vars

\* Schedulers tick and find the account's observation complete, agents poll, and
\* bans end.  No session, and no intervention, need ever come.
FairSpec ==
    /\ Spec
    /\ \A s \in Schedulers : WF_vars(Check(s))
    /\ \A n \in Exits : WF_vars(Poll(n))
    /\ \A d \in Devices : WF_vars(TimePasses(d))

-----------------------------------------------------------------------------
(* What an eviction means *)

\* node-agent/cmd/main.go:669, "Acknowledge only after local sessions have been
\* closed": while an Exit's acknowledgment stands the Exit has no session of the
\* device, nor one about to be admitted, although bans end or are cut short,
\* requests arrive late, and agents lose what they knew.
AckedIsClosed ==
    \A d \in Devices : \A n \in acks[d] : d \notin asking[n] \cup open[n]

\* uuid_eviction.go:48-49, "must not confirm a partial snapshot": when an eviction
\* counts as confirmed no Exit of the fleet has a session of its device, the Exits
\* that joined or were replaced since it was decided included.
ConfirmedFleetwide ==
    \A d \in Devices, n \in Serving :
        status[d] = "confirmed" => d \notin asking[n] \cup open[n]

\* Schedulers of several servers evict one device of an account at a time.
OnePending == \A d, e \in Pending : d = e

\* Every eviction is confirmed, its cooldown ends and its row is deleted, unless
\* an Exit it requires was deleted.
EvictionEnds ==
    \A d \in Devices :
        status[d] # "none" ~> status[d] = "none" \/ ~(required[d] \subseteq Serving)
=============================================================================

------------------------- MODULE TrafficAccounting -------------------------
(***************************************************************************)
(* From Xray's counters to a user's traffic_used.  The node agent's        *)
(* collector reads and resets the counters, writes what it read to an      *)
(* outbox on disk, posts the oldest batch until the panel answers 200, and *)
(* removes it; the panel charges a batch id once.  Either side may fail or *)
(* die between any two steps, and a reply or a directory sync may be lost. *)
(*                                                                         *)
(* A unit of traffic is an identity, not a number: what one device sent    *)
(* between two polls.  It is carried once, and the question is how often   *)
(* it is charged.  A batch id stands for a file name; the outbox sends the *)
(* files in the order of their names.                                      *)
(***************************************************************************)
EXTENDS Naturals, FiniteSets

CONSTANTS
    Traffic,      \* units of traffic that devices send through the node
    MaxBatches,   \* capacity of the outbox
    MaxStats,     \* devices the panel accepts in one batch
    Faults        \* what may go wrong

FaultKinds == {"disk",     \* a write, rename, remove or directory sync fails
               "network",  \* a request or its answer is lost or late
               "panel",    \* the panel's transaction fails
               "xray",     \* Xray restarts, or its answer is lost after the reset
               "crash",    \* the agent's process dies
               "power"}    \* the node dies, with what the disk had not synced

ASSUME AccountingAssumption ==
    /\ IsFiniteSet(Traffic)
    /\ MaxBatches \in Nat \ {0} /\ MaxStats \in Nat \ {0}
    /\ Faults \subseteq FaultKinds

Batches == 1 .. Cardinality(Traffic)   \* a batch is never empty

VARIABLES
    carried,    \* units that went through Xray (history)
    counter,    \* units in Xray's counters
    pending,    \* Collector.pending: read and reset, not on disk yet
    content,    \* the immutable payload of a batch; {} before it is written
    files,      \* outbox.files, what the directory shows
    fresh,      \* files whose creation is not synced
    gone,       \* removed files whose removal is not synced
    stage,      \* where collect() is
    polled,     \* this round has read the counters
    request,    \* the POST of the oldest batch
    late,       \* batches of abandoned POSTs that may still reach the panel
    accounted,  \* traffic_batches
    charged     \* how often a unit was added to traffic_used

node  == <<pending, content, files, fresh, gone>>
loop  == <<stage, polled, request, late>>
panel == <<accounted, charged>>
vars  == <<carried, counter, node, loop, panel>>

Stages == {"rest", "queue", "sync", "send", "wait", "remove", "poll"}

TypeOK ==
    /\ carried \subseteq Traffic /\ counter \subseteq Traffic /\ pending \subseteq Traffic
    /\ content \in [Batches -> SUBSET Traffic]
    /\ files \subseteq Batches /\ fresh \subseteq Batches /\ gone \subseteq Batches
    /\ stage \in Stages /\ polled \in BOOLEAN
    /\ request \in {"none", "sent", "accepted", "refused"}
    /\ (request # "none") <=> (stage = "wait")
    /\ late \subseteq Batches /\ accounted \subseteq Batches
    /\ charged \in [Traffic -> Nat]

Init ==
    /\ carried = {} /\ counter = {} /\ pending = {}
    /\ content = [b \in Batches |-> {}]
    /\ files = {} /\ fresh = {} /\ gone = {}
    /\ stage = "queue" /\ polled = FALSE
    /\ request = "none" /\ late = {}
    /\ accounted = {}
    /\ charged = [t \in Traffic |-> 0]

-----------------------------------------------------------------------------
(* Helpers *)

Oldest(b) == b \in files /\ \A x \in files : b <= x

\* newBatch draws an id nobody used; the clock in a name may have been set back.
NewBatch(b) == b \in Batches /\ content[b] = {}

HasCapacity == Cardinality(files) < MaxBatches

\* drain returned: the first one of a round is followed by the poll.
Drained == stage' = (IF polled THEN "rest" ELSE "poll")

\* collect goes on to drain after queuePending, unless the poll's own fails.
AfterQueueError == stage' = (IF polled THEN "rest" ELSE "sync")

-----------------------------------------------------------------------------
(* The collector's round *)

\* Mutant: the new round believes that it has polled.
MutantTickKeepsPolled ==
    /\ stage = "rest"
    /\ stage' = "queue" /\ polled' = polled
    /\ UNCHANGED <<carried, counter, node, request, late, panel>>

Tick ==
    /\ stage = "rest"
    /\ stage' = "queue" /\ polled' = FALSE
    /\ UNCHANGED <<carried, counter, node, request, late, panel>>

QueueNothing ==
    /\ stage = "queue" /\ pending = {}
    /\ stage' = "sync"
    /\ UNCHANGED <<carried, counter, node, polled, request, late, panel>>

\* The file is written, synced and renamed, and the directory synced.
QueueBatch ==
    /\ stage = "queue" /\ pending # {} /\ HasCapacity
    /\ \E b \in Batches :
          /\ NewBatch(b)
          /\ content' = [content EXCEPT ![b] = pending]
          /\ files' = files \cup {b}
    /\ pending' = {}
    /\ fresh' = {} /\ gone' = {}
    /\ stage' = "sync"
    /\ UNCHANGED <<carried, counter, polled, request, late, panel>>

\* The rename succeeded and the directory sync failed: the file owns the sample.
QueueUnsynced ==
    /\ "disk" \in Faults
    /\ stage = "queue" /\ pending # {} /\ HasCapacity
    /\ \E b \in Batches :
          /\ NewBatch(b)
          /\ content' = [content EXCEPT ![b] = pending]
          /\ files' = files \cup {b} /\ fresh' = fresh \cup {b}
    /\ pending' = {}
    /\ AfterQueueError
    /\ UNCHANGED <<carried, counter, gone, polled, request, late, panel>>

\* The outbox is full or nothing was published: the sample stays in memory.
QueueFails ==
    /\ stage = "queue" /\ pending # {}
    /\ HasCapacity => "disk" \in Faults
    /\ AfterQueueError
    /\ UNCHANGED <<carried, counter, node, polled, request, late, panel>>

DrainEmpty ==
    /\ stage \in {"sync", "send"} /\ files = {}
    /\ Drained
    /\ UNCHANGED <<carried, counter, node, polled, request, late, panel>>

\* Mutant: the directory is not synced before the first POST.
MutantSyncNothing ==
    /\ stage = "sync" /\ files # {}
    /\ stage' = "send"
    /\ UNCHANGED <<carried, counter, node, polled, request, late, panel>>

SyncOutbox ==
    /\ stage = "sync" /\ files # {}
    /\ fresh' = {} /\ gone' = {}
    /\ stage' = "send"
    /\ UNCHANGED <<carried, counter, pending, content, files, polled, request, late, panel>>

\* The directory cannot be synced, or the oldest file not read.
DrainFails ==
    /\ "disk" \in Faults
    /\ stage \in {"sync", "send"} /\ files # {}
    /\ Drained
    /\ UNCHANGED <<carried, counter, node, polled, request, late, panel>>

SendStats ==
    /\ stage = "send" /\ files # {}
    /\ stage' = "wait" /\ request' = "sent"
    /\ UNCHANGED <<carried, counter, node, polled, late, panel>>

Acknowledged ==
    /\ stage = "wait" /\ request = "accepted"
    /\ stage' = "remove" /\ request' = "none"
    /\ UNCHANGED <<carried, counter, node, polled, late, panel>>

Refused ==
    /\ stage = "wait" /\ request = "refused"
    /\ request' = "none" /\ Drained
    /\ UNCHANGED <<carried, counter, node, polled, late, panel>>

\* The client gives up; the panel may still receive what was sent.
TimesOut ==
    /\ "network" \in Faults
    /\ stage = "wait"
    /\ request' = "none" /\ Drained
    /\ late' = IF request = "sent" THEN late \cup {b \in files : Oldest(b)} ELSE late
    /\ UNCHANGED <<carried, counter, node, polled, panel>>

RemoveFirst ==
    /\ stage = "remove"
    /\ files' = {b \in files : ~Oldest(b)}
    /\ fresh' = {} /\ gone' = {}
    /\ stage' = "send"
    /\ UNCHANGED <<carried, counter, pending, content, polled, request, late, panel>>

RemoveUnsynced ==
    /\ "disk" \in Faults
    /\ stage = "remove"
    /\ files' = {b \in files : ~Oldest(b)}
    /\ gone' = gone \cup {b \in files : Oldest(b)}
    /\ Drained
    /\ UNCHANGED <<carried, counter, pending, content, fresh, polled, request, late, panel>>

RemoveFails ==
    /\ "disk" \in Faults
    /\ stage = "remove"
    /\ Drained
    /\ UNCHANGED <<carried, counter, node, polled, request, late, panel>>

\* Mutant: the room is looked for after the reset.
MutantPollAnyway ==
    /\ stage = "poll" /\ pending = {}
    /\ pending' = counter /\ counter' = {}
    /\ stage' = "queue" /\ polled' = TRUE
    /\ UNCHANGED <<carried, content, files, fresh, gone, request, late, panel>>

\* The destructive read, taken only when its result can be kept.
Poll ==
    /\ stage = "poll" /\ pending = {} /\ HasCapacity
    /\ pending' = counter /\ counter' = {}
    /\ stage' = "queue" /\ polled' = TRUE
    /\ UNCHANGED <<carried, content, files, fresh, gone, request, late, panel>>

SkipPoll ==
    /\ stage = "poll"
    /\ pending # {} \/ ~HasCapacity
    /\ stage' = "rest"
    /\ UNCHANGED <<carried, counter, node, polled, request, late, panel>>

\* Xray did not answer, or answered after the reset and was not heard.
PollFails ==
    /\ "xray" \in Faults
    /\ stage = "poll" /\ pending = {} /\ HasCapacity
    /\ counter' \in {counter, {}}
    /\ stage' = "rest"
    /\ UNCHANGED <<carried, node, polled, request, late, panel>>

-----------------------------------------------------------------------------
(* The panel: accountStats, one transaction *)

\* Mutant: the batch marker is not looked at.
MutantChargeAgain(b) ==
    /\ accounted' = accounted \cup {b}
    /\ charged' = [t \in Traffic |-> charged[t] + (IF t \in content[b] THEN 1 ELSE 0)]

\* A batch id that is known was committed with all its effects.
AccountStats(b) ==
    /\ accounted' = accounted \cup {b}
    /\ charged' = IF b \in accounted THEN charged
                  ELSE [t \in Traffic |-> charged[t] + (IF t \in content[b] THEN 1 ELSE 0)]

Accepts(b) == Cardinality(content[b]) <= MaxStats

Stats(b) ==
    /\ request = "sent" /\ Oldest(b) /\ Accepts(b)
    /\ AccountStats(b)
    /\ request' = "accepted"
    /\ UNCHANGED <<carried, counter, node, stage, polled, late>>

\* A failed transaction (500), or too many devices (400): not acknowledged.
StatsFails ==
    /\ request = "sent"
    /\ \/ "panel" \in Faults
       \/ \E b \in Batches : Oldest(b) /\ ~Accepts(b)
    /\ request' = "refused"
    /\ UNCHANGED <<carried, counter, node, stage, polled, late, panel>>

LateStats(b) ==
    /\ b \in late /\ Accepts(b)
    /\ AccountStats(b)
    /\ late' = late \ {b}
    /\ UNCHANGED <<carried, counter, node, stage, polled, request>>

LateLost(b) ==
    /\ b \in late
    /\ late' = late \ {b}
    /\ UNCHANGED <<carried, counter, node, stage, polled, request, panel>>

-----------------------------------------------------------------------------
(* Devices, Xray and the node *)

Carry(t) ==
    /\ t \notin carried
    /\ carried' = carried \cup {t} /\ counter' = counter \cup {t}
    /\ UNCHANGED <<node, loop, panel>>

XrayRestarts ==
    /\ "xray" \in Faults
    /\ counter # {}
    /\ counter' = {}
    /\ UNCHANGED <<carried, node, loop, panel>>

\* Mutant: the POST survives the process that waits for it.
MutantRestartKeepsRequest ==
    /\ stage' = "queue" /\ polled' = FALSE /\ request' = request
    /\ pending' = {}
    /\ late' = late

\* The agent starts again: openOutbox, then a round at once.
Restart ==
    /\ stage' = "queue" /\ polled' = FALSE /\ request' = "none"
    /\ pending' = {}
    /\ late' = IF request = "sent" THEN late \cup {b \in files : Oldest(b)} ELSE late

AgentDies ==
    /\ "crash" \in Faults
    /\ Restart
    /\ UNCHANGED <<carried, counter, content, files, fresh, gone, panel>>

\* Unsynced names may or may not have reached the disk; Xray dies as well.
PowerFails ==
    /\ "power" \in Faults
    /\ Restart
    /\ counter' = {}
    /\ \E forgotten \in SUBSET fresh, back \in SUBSET gone :
          files' = (files \ forgotten) \cup back
    /\ fresh' = {} /\ gone' = {}
    /\ UNCHANGED <<carried, content, panel>>

-----------------------------------------------------------------------------
Collector ==
    \/ Tick
    \/ QueueNothing \/ QueueBatch \/ QueueUnsynced \/ QueueFails
    \/ DrainEmpty \/ SyncOutbox \/ DrainFails
    \/ SendStats \/ Acknowledged \/ Refused \/ TimesOut
    \/ RemoveFirst \/ RemoveUnsynced \/ RemoveFails
    \/ Poll \/ SkipPoll \/ PollFails

Panel == StatsFails \/ \E b \in Batches : Stats(b) \/ LateStats(b) \/ LateLost(b)

World == XrayRestarts \/ AgentDies \/ PowerFails \/ \E t \in Traffic : Carry(t)

Next == Collector \/ Panel \/ World

Spec == Init /\ [][Next]_vars

\* What the loop does at a stage when nothing goes wrong.
Succeeds(s) ==
    /\ stage = s
    /\ \/ Tick \/ QueueNothing \/ QueueBatch \/ DrainEmpty \/ SyncOutbox
       \/ SendStats \/ Acknowledged \/ RemoveFirst \/ Poll

\* The ticker fires and every select of the loop returns (WF); a disk, a panel or
\* an agent that fails, however often, does not fail at one step for ever (SF).
Fairness ==
    /\ WF_vars(Collector)
    /\ \A s \in Stages : SF_vars(Succeeds(s))
    /\ SF_vars(\E b \in Batches : Stats(b))

FairSpec == Spec /\ Fairness

-----------------------------------------------------------------------------
(* Properties *)

Of(B) == UNION {content[b] : b \in B}

Charged == {t \in Traffic : charged[t] > 0}

\* Units that something still holds and will pass on.
Held == counter \cup pending \cup Of(files)

Lost == carried \ (Held \cup Charged)

\* collector.go:145-146, "the file is now the owner of this sample": a unit is in
\* one place, Xray's counters, the agent's memory or one batch, so that no
\* failure makes the agent report it under two ids.
OwnedOnce ==
    /\ counter \cap pending = {}
    /\ \A b \in Batches : content[b] \cap (counter \cup pending) = {}
    /\ \A b, d \in Batches : b # d => content[b] \cap content[d] = {}

\* collector.go:123-124: Xray is reset only when the outbox has room for what was
\* read, also after failed writes, failed rounds and restarts.
PendingFits == pending # {} => HasCapacity

\* outbox.go:110-111 and node_stats_accounting.go:45-46: whatever is replayed,
\* after whichever crash or lost answer, no unit is charged twice.
ChargedAtMostOnce == \A t \in Traffic : charged[t] <= 1

\* outbox.go:18-19, "it never discards queued reports": a unit in a batch that is
\* safely on disk stays there until it is charged, through crashes and refusals.
QueuedIsKept ==
    [][\A t \in Of(files \ fresh) : t \in Of(files)' \/ charged'[t] > 0]_vars

\* README.md:129, "a panel outage never loses billing data": what a node carries
\* is charged in the end, or was lost with the memory of Xray or of the agent,
\* unless a batch has more devices than the panel takes: that one blocks the outbox.
CarriedIsSettled ==
    [](\A b \in files : Cardinality(content[b]) <= MaxStats)
        => []<>(carried \subseteq Charged \cup Lost)

-----------------------------------------------------------------------------
(* Refinement *)

Meter(t) ==
    IF charged[t] > 0 THEN "charged"
    ELSE IF t \notin carried THEN "unused"
    ELSE IF t \in Of(files \ fresh) THEN "queued"
    ELSE IF t \in Held THEN "held"
    ELSE "lost"

meter == [t \in Traffic |-> Meter(t)]

M == INSTANCE Metering WITH meter <- meter

\* A unit is lost only from memory, charged only from a durable batch, and both
\* are final: nothing that was lost or charged comes back.
ImplementsMetering == M!Spec
=============================================================================

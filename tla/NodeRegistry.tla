---------------------------- MODULE NodeRegistry ----------------------------
(***************************************************************************)
(* The node keys of the controller: how heartbeats and resource snapshots  *)
(* travel from an agent's telemetry loops (agent/app/services/telemetry.py)*)
(* into Redis, through the two write-coalescing caches of RedisStateStore, *)
(* and how the reconciler reads them and marks silent nodes unavailable.   *)
(*                                                                         *)
(* Every update of a node key is a GET followed by a SET, with no lock:    *)
(* updates that overlap write back what they read.  The two are separate   *)
(* steps here.                                                             *)
(*                                                                         *)
(* Time advances in ticks of one heartbeat interval.  A timestamp is       *)
(* recorded by its age in ticks, up to MaxAge, so that behaviours may go   *)
(* on for ever in finitely many states.  The clocks of agents and          *)
(* controller are taken to agree.                                          *)
(***************************************************************************)
EXTENDS Integers, FiniteSets

CONSTANTS
    Nodes,
    Loads,            \* what an agent may sample; one number for CPU and memory
    LoadStep,         \* snapshot_change_threshold, of controller and agents
    WriteThreshold,   \* heartbeat_write_threshold_seconds
    Timeout,          \* heartbeat_timeout_seconds + reconciliation_interval_seconds
    SnapshotInterval, \* resource_snapshot_interval_seconds of the agents
    MaxDelay,         \* how long a post and its handler may last
    MaxAge,           \* ages beyond it are not told apart
    Never,            \* the age of what was never written
    NoLoad,           \* no snapshot
    NoRecord,         \* the node key does not exist
    Faults            \* which faults happen: see the actions

Age     == 0..MaxAge
Older(a) == IF a \in Nat /\ a < MaxAge THEN a + 1 ELSE a

NodeState == [status: {"healthy", "unavailable"}, beat: Age, snapshot: Loads \cup {NoLoad}]
Record    == NodeState \cup {NoRecord}

ASSUME RegistryAssumption ==
    /\ Loads \subseteq Nat
    /\ {LoadStep, WriteThreshold, Timeout, MaxDelay, MaxAge} \subseteq Nat
    /\ SnapshotInterval \in Nat \ {0}
    /\ Timeout < MaxAge
    /\ WriteThreshold + MaxDelay < MaxAge
    /\ Never \notin Nat /\ NoLoad \notin Nat /\ NoRecord \notin NodeState \cup Nodes
    /\ Faults \subseteq {"partition", "agent", "controller", "store"}

VARIABLES
    registry,      \* node:<id>, the NodeState of each node
    members,       \* the set of node ids under the key "nodes"
    lastWritten,   \* _node_last_written, as an age
    lastSnapshot,  \* _node_last_snapshot
    calls,         \* the posts of the agents, from the send to the last write
    round,         \* Reconciler.run_once: the nodes to visit and the visit under way
    up,            \* the agent process runs
    net,           \* the agent reaches the controller
    sent,          \* _last_sent_snapshot of the agent
    beatDue,       \* the heartbeat loop is at the start of its body
    sampleIn,      \* ticks until the snapshot loop takes its next sample
    steady         \* history: ticks since a fault last hit the agent or its posts

agentVars == <<up, net, sent, beatDue, sampleIn, steady>>
caches    == <<lastWritten, lastSnapshot>>
vars      == <<registry, members, caches, calls, round, agentVars>>

(***************************************************************************)
(* A post on its way through its handler: "sent" until the handler has     *)
(* read the node key into seen, "write" until the SET, "note" until the    *)
(* SADD and the cache.                                                     *)
(***************************************************************************)
Call == [node: Nodes, kind: {"heartbeat", "snapshot"}, age: Age, load: Loads \cup {NoLoad},
         at: {"sent", "write", "note"}, seen: Record]

\* The round: at "idle", at "mark" before mark_node_unavailable, at "unset"
\* between its GET and its SET, at "evacuate" during handle_node_unreachable, at
\* "retry" during the retries of pending deployments.
Round == [at: {"idle", "mark", "unset", "evacuate", "retry"}, silent: SUBSET Nodes,
          visits: SUBSET Nodes, seen: Record]
NoRound == [at |-> "idle", silent |-> {}, visits |-> {}, seen |-> NoRecord]

Init ==
    /\ registry = [n \in Nodes |-> NoRecord]
    /\ members = {}
    /\ lastWritten = [n \in Nodes |-> Never]
    /\ lastSnapshot = [n \in Nodes |-> NoLoad]
    /\ calls = {}
    /\ round = NoRound
    /\ up = [n \in Nodes |-> TRUE]
    /\ net = [n \in Nodes |-> TRUE]
    /\ sent = [n \in Nodes |-> NoLoad]
    /\ beatDue = [n \in Nodes |-> TRUE]
    /\ sampleIn = [n \in Nodes |-> 0]
    /\ steady = [n \in Nodes |-> 0]

-----------------------------------------------------------------------------
(* The telemetry loops of an agent. _post swallows every error.            *)

Changed(last, load) == last = NoLoad \/ (IF load < last THEN last - load ELSE load - last) >= LoadStep

Post(n, kind, load) ==
    calls' = IF net[n]
             THEN calls \cup {[node |-> n, kind |-> kind, age |-> 0, load |-> load,
                               at |-> "sent", seen |-> NoRecord]}
             ELSE calls

\* _heartbeat_loop
Beat(n) ==
    /\ up[n] /\ beatDue[n]
    /\ Post(n, "heartbeat", NoLoad)
    /\ beatDue' = [beatDue EXCEPT ![n] = FALSE]
    /\ UNCHANGED <<registry, members, caches, round, up, net, sent, sampleIn, steady>>

\* _resource_snapshot_loop: what was sent is remembered whether or not it arrived.
Sample(n, load) ==
    /\ up[n] /\ sampleIn[n] = 0
    /\ sampleIn' = [sampleIn EXCEPT ![n] = SnapshotInterval]
    /\ IF Changed(sent[n], load)
       THEN /\ Post(n, "snapshot", load)
            /\ sent' = [sent EXCEPT ![n] = load]
       ELSE UNCHANGED <<calls, sent>>
    /\ UNCHANGED <<registry, members, caches, round, up, net, beatDue, steady>>

-----------------------------------------------------------------------------
(* upsert_node_heartbeat and upsert_node_snapshot.                         *)

\* Mutant: one heartbeat too many is skipped.
Coalesced_TooLong(c) == lastWritten[c.node] # Never /\ lastWritten[c.node] - c.age <= WriteThreshold

\* The heartbeat comes too soon after the last one that was written.
Coalesced(c) == lastWritten[c.node] # Never /\ lastWritten[c.node] - c.age < WriteThreshold

Forwards(c, point) == calls' = (calls \ {c}) \cup {point}
Ends(c)            == calls' = calls \ {c}

Reads(c) == Forwards(c, [c EXCEPT !.at = "write", !.seen = registry[c.node]])

HeartbeatReads(c) ==
    /\ c.kind = "heartbeat" /\ c.at = "sent"
    /\ IF Coalesced(c) THEN Ends(c) ELSE Reads(c)
    /\ UNCHANGED <<registry, members, caches, round, agentVars>>

\* Mutant: the cache is written before the SADD.
HeartbeatWrites_NotesFirst(c) ==
    /\ c.kind = "heartbeat" /\ c.at = "write"
    /\ registry' = [registry EXCEPT ![c.node] =
            [status |-> "healthy", beat |-> c.age,
             snapshot |-> IF c.seen = NoRecord THEN NoLoad ELSE c.seen.snapshot]]
    /\ lastWritten' = [lastWritten EXCEPT ![c.node] = c.age]
    /\ Forwards(c, [c EXCEPT !.at = "note", !.seen = NoRecord])
    /\ UNCHANGED <<members, lastSnapshot, round, agentVars>>

\* Mutant: a heartbeat does not make a node healthy again.
HeartbeatWrites_KeepsStatus(c) ==
    /\ c.kind = "heartbeat" /\ c.at = "write"
    /\ registry' = [registry EXCEPT ![c.node] =
            IF c.seen = NoRecord
            THEN [status |-> "healthy", beat |-> c.age, snapshot |-> NoLoad]
            ELSE [c.seen EXCEPT !.beat = c.age]]
    /\ Forwards(c, [c EXCEPT !.at = "note", !.seen = NoRecord])
    /\ UNCHANGED <<members, caches, round, agentVars>>

HeartbeatWrites(c) ==
    /\ c.kind = "heartbeat" /\ c.at = "write"
    /\ registry' = [registry EXCEPT ![c.node] =
            [status |-> "healthy", beat |-> c.age,
             snapshot |-> IF c.seen = NoRecord THEN NoLoad ELSE c.seen.snapshot]]
    /\ Forwards(c, [c EXCEPT !.at = "note", !.seen = NoRecord])
    /\ UNCHANGED <<members, caches, round, agentVars>>

HeartbeatNoted(c) ==
    /\ c.kind = "heartbeat" /\ c.at = "note"
    /\ members' = members \cup {c.node}
    /\ lastWritten' = [lastWritten EXCEPT ![c.node] = c.age]
    /\ Ends(c)
    /\ UNCHANGED <<registry, lastSnapshot, round, agentVars>>

\* A snapshot of an unknown node is refused with an error.
SnapshotReads(c) ==
    /\ c.kind = "snapshot" /\ c.at = "sent"
    /\ IF Changed(lastSnapshot[c.node], c.load) /\ registry[c.node] # NoRecord
       THEN Reads(c)
       ELSE Ends(c)
    /\ UNCHANGED <<registry, members, caches, round, agentVars>>

SnapshotWrites(c) ==
    /\ c.kind = "snapshot" /\ c.at = "write"
    /\ registry' = [registry EXCEPT ![c.node] = [c.seen EXCEPT !.snapshot = c.load]]
    /\ lastSnapshot' = [lastSnapshot EXCEPT ![c.node] = c.load]
    /\ Ends(c)
    /\ UNCHANGED <<members, lastWritten, round, agentVars>>

Handle(c) ==
    \/ HeartbeatReads(c) \/ HeartbeatWrites(c) \/ HeartbeatNoted(c)
    \/ SnapshotReads(c) \/ SnapshotWrites(c)

-----------------------------------------------------------------------------
(* Reconciler.run_once.  A round that finds no silent node is left out.    *)

Silent(n) == /\ registry[n] # NoRecord
             /\ registry[n].status = "healthy"
             /\ registry[n].beat > Timeout

\* list_nodes; the age of each listed heartbeat is judged against the time
\* at which the round started.
ListNodes ==
    /\ round.at = "idle"
    /\ \E n \in members : Silent(n)
    /\ round' = [round EXCEPT !.at = "mark", !.silent = {n \in members : Silent(n)}]
    /\ UNCHANGED <<registry, members, caches, calls, agentVars>>

\* Mutant: the node that is visited stays on the list.
MarkReads_KeepsNode(n) ==
    /\ round.at = "mark" /\ n \in round.silent
    /\ round' = [round EXCEPT !.at = "unset", !.visits = {n}, !.seen = registry[n]]
    /\ UNCHANGED <<registry, members, caches, calls, agentVars>>

\* The GET of mark_node_unavailable.
MarkReads(n) ==
    /\ round.at = "mark" /\ n \in round.silent
    /\ round' = [round EXCEPT !.at = "unset", !.silent = @ \ {n}, !.visits = {n}, !.seen = registry[n]]
    /\ UNCHANGED <<registry, members, caches, calls, agentVars>>

\* Mutant: the copy that is written back has its old status.
MarkWrites_KeepsStatus(n) ==
    /\ round.at = "unset" /\ n \in round.visits
    /\ registry' = [registry EXCEPT ![n] = round.seen]
    /\ round' = [round EXCEPT !.at = "evacuate", !.seen = NoRecord]
    /\ UNCHANGED <<members, caches, calls, agentVars>>

\* Mutant: a status that is not one of NodeStatus.
MarkWrites_Unreachable(n) ==
    /\ round.at = "unset" /\ n \in round.visits
    /\ registry' = [registry EXCEPT ![n] = [round.seen EXCEPT !.status = "unreachable"]]
    /\ round' = [round EXCEPT !.at = "evacuate", !.seen = NoRecord]
    /\ UNCHANGED <<members, caches, calls, agentVars>>

\* Its SET.
MarkWrites(n) ==
    /\ round.at = "unset" /\ n \in round.visits
    /\ registry' = [registry EXCEPT ![n] = [round.seen EXCEPT !.status = "unavailable"]]
    /\ round' = [round EXCEPT !.at = "evacuate", !.seen = NoRecord]
    /\ UNCHANGED <<members, caches, calls, agentVars>>

\* handle_node_unreachable has returned: on to the next node of the list.
Evacuated ==
    /\ round.at = "evacuate"
    /\ round' = [round EXCEPT !.at = "mark", !.visits = {}]
    /\ UNCHANGED <<registry, members, caches, calls, agentVars>>

\* list_pending_deployments, after the last node of the list.
ListPending ==
    /\ round.at = "mark" /\ round.silent = {}
    /\ round' = [round EXCEPT !.at = "retry"]
    /\ UNCHANGED <<registry, members, caches, calls, agentVars>>

\* The last retry has returned.
RoundEnd ==
    /\ round.at = "retry"
    /\ round' = NoRound
    /\ UNCHANGED <<registry, members, caches, calls, agentVars>>

RoundStep ==
    \/ ListNodes \/ Evacuated \/ ListPending \/ RoundEnd
    \/ \E n \in Nodes : MarkReads(n) \/ MarkWrites(n)

-----------------------------------------------------------------------------
(* Time: an interval passes once every loop has done its part of it, no    *)
(* handler is overdue and no Redis call of the round is under way.  An     *)
(* evacuation and the retries may last for any number of ticks.            *)

Good(n) == up[n] /\ net[n]

OlderRecord(r) == IF r = NoRecord THEN NoRecord ELSE [r EXCEPT !.beat = Older(@)]
OlderCall(c)   == [c EXCEPT !.age = Older(@), !.seen = OlderRecord(@)]

Tick ==
    /\ \A n \in Nodes : up[n] => ~beatDue[n] /\ sampleIn[n] > 0
    /\ \A c \in calls : c.age < MaxDelay
    /\ round.at \in {"idle", "evacuate", "retry"}
    /\ registry' = [n \in Nodes |-> OlderRecord(registry[n])]
    /\ lastWritten' = [n \in Nodes |-> Older(lastWritten[n])]
    /\ calls' = {OlderCall(c) : c \in calls}
    /\ beatDue' = [n \in Nodes |-> TRUE]
    /\ sampleIn' = [n \in Nodes |-> IF up[n] THEN sampleIn[n] - 1 ELSE sampleIn[n]]
    /\ steady' = [n \in Nodes |-> IF Good(n) THEN Older(steady[n]) ELSE 0]
    /\ UNCHANGED <<members, lastSnapshot, round, up, net, sent>>

-----------------------------------------------------------------------------
(* Faults.                                                                 *)

\* The network between an agent and the controller fails or comes back.
Partition(n) ==
    /\ "partition" \in Faults
    /\ net' = [net EXCEPT ![n] = ~@]
    /\ steady' = [steady EXCEPT ![n] = 0]
    /\ UNCHANGED <<registry, members, caches, calls, round, up, sent, beatDue, sampleIn>>

\* The agent process dies.
AgentStops(n) ==
    /\ "agent" \in Faults
    /\ up[n]
    /\ up' = [up EXCEPT ![n] = FALSE]
    /\ beatDue' = [beatDue EXCEPT ![n] = FALSE]
    /\ steady' = [steady EXCEPT ![n] = 0]
    /\ UNCHANGED <<registry, members, caches, calls, round, net, sent, sampleIn>>

\* It starts again, a tick later at the earliest, with empty memory.
AgentStarts(n) ==
    /\ ~up[n] /\ beatDue[n]
    /\ up' = [up EXCEPT ![n] = TRUE]
    /\ sent' = [sent EXCEPT ![n] = NoLoad]
    /\ sampleIn' = [sampleIn EXCEPT ![n] = 0]
    /\ UNCHANGED <<registry, members, caches, calls, round, net, beatDue, steady>>

\* The controller dies and starts again: its handlers, its round and its
\* caches are gone, the keys in Redis are not.
ControllerFails ==
    /\ "controller" \in Faults
    /\ calls' = {}
    /\ round' = NoRound
    /\ lastWritten' = [n \in Nodes |-> Never]
    /\ lastSnapshot' = [n \in Nodes |-> NoLoad]
    /\ steady' = [n \in Nodes |-> 0]
    /\ UNCHANGED <<registry, members, up, net, sent, beatDue, sampleIn>>

\* A Redis call of a handler raises; a SET that was made before it stays.
StoreFails(c) ==
    /\ "store" \in Faults
    /\ Ends(c)
    /\ steady' = [steady EXCEPT ![c.node] = 0]
    /\ UNCHANGED <<registry, members, caches, round, up, net, sent, beatDue, sampleIn>>

\* A Redis call of the round raises: run_forever logs it and goes on.
RoundFails ==
    /\ "store" \in Faults
    /\ round.at # "idle"
    /\ round' = NoRound
    /\ UNCHANGED <<registry, members, caches, calls, agentVars>>

Next ==
    \/ \E n \in Nodes : Beat(n) \/ Partition(n) \/ AgentStops(n) \/ AgentStarts(n)
    \/ \E n \in Nodes, l \in Loads : Sample(n, l)
    \/ \E c \in calls : Handle(c) \/ StoreFails(c)
    \/ RoundStep \/ Tick \/ ControllerFails \/ RoundFails

\* The loops run on timers, every Redis call returns and every evacuation
\* ends; asyncio leaves no task that can run waiting for ever.  Time passes,
\* however many faults happen: an agent that comes and goes does not stop it.
Fairness ==
    /\ \A n \in Nodes : WF_vars(Beat(n)) /\ WF_vars(\E l \in Loads : Sample(n, l))
    /\ WF_vars(\E c \in calls : Handle(c))
    /\ WF_vars(RoundStep)
    /\ SF_vars(Tick)

Spec     == Init /\ [][Next]_vars
LiveSpec == Spec /\ Fairness

-----------------------------------------------------------------------------
(* Properties.                                                             *)

TypeOK ==
    /\ registry \in [Nodes -> Record]
    /\ members \subseteq Nodes
    /\ lastWritten \in [Nodes -> Age \cup {Never}]
    /\ lastSnapshot \in [Nodes -> Loads \cup {NoLoad}]
    /\ calls \subseteq Call
    /\ round \in Round
    /\ up \in [Nodes -> BOOLEAN]
    /\ net \in [Nodes -> BOOLEAN]
    /\ sent \in [Nodes -> Loads \cup {NoLoad}]
    /\ beatDue \in [Nodes -> BOOLEAN]
    /\ sampleIn \in [Nodes -> 0..SnapshotInterval]
    /\ steady \in [Nodes -> Age]

(***************************************************************************)
(* The write cache never hides a node: when heartbeats of a node are       *)
(* skipped because one was written, that node has its key and is listed,   *)
(* whatever failed between its SET and its SADD (state_store.py:179-181).  *)
(***************************************************************************)
SkippedIsListed ==
    \A n \in Nodes : lastWritten[n] # Never => registry[n] # NoRecord /\ n \in members

(***************************************************************************)
(* What makes it inductive: the updates under way have read a record, and  *)
(* the key is written before its node is listed or its heartbeat is noted. *)
(***************************************************************************)
UpdatesHaveRecords ==
    /\ \A n \in members : registry[n] # NoRecord
    /\ \A c \in calls :
        /\ c.at = "note" => registry[c.node] # NoRecord
        /\ c.kind = "snapshot" /\ c.at = "write" => c.seen # NoRecord
    /\ round.silent \subseteq members
    /\ round.at = "unset" => round.seen # NoRecord

ListedInv == TypeOK /\ UpdatesHaveRecords /\ SkippedIsListed

(***************************************************************************)
(* A node whose heartbeats have arrived for a while is not taken for       *)
(* silent, although two stretches of heartbeats may be missing from its    *)
(* key: one that the cache skips, and one that a snapshot handler, which   *)
(* had read the key before, overwrites (state_store.py:144-149, 199).  It  *)
(* holds for configurations that are Timely.                               *)
(***************************************************************************)
\* Heartbeats this far apart are not coalesced.
Gap     == IF WriteThreshold = 0 THEN 1 ELSE WriteThreshold
\* The age the record of a steady node grows to, if nothing is overwritten.
Lag     == Gap + 2 * MaxDelay
Settled == 2 * Lag
Timely  == Timeout >= Settled /\ SnapshotInterval > Lag

SteadyIsNotSilent ==
    [][round.at = "idle" /\ round'.at = "mark" =>
            \A n \in round'.silent : steady[n] <= Settled]_vars

(***************************************************************************)
(* What makes it inductive.  A heartbeat of age a is clean if it was sent  *)
(* since the last fault; it is pending until the SET of its handler.  The  *)
(* record of a healthy node is either Fresh, as a heartbeat wrote it, and  *)
(* then a clean heartbeat much newer than it is pending; or Overwritten    *)
(* by the handler of the last sample, and then the heartbeats older than   *)
(* that sample count, as those that came later may be hidden by the cache. *)
(***************************************************************************)
Healthy(n) == registry[n] # NoRecord /\ registry[n].status = "healthy"
Clean(n, a)   == a < steady[n] /\ (a = 0 => ~beatDue[n])
Pending(n, a) == \E c \in calls : /\ c.node = n /\ c.kind = "heartbeat" /\ c.age = a
                                  /\ c.at \in {"sent", "write"}
Noting(n)     == {c \in calls : c.node = n /\ c.at = "note"}

Fresh(n) ==
    LET beat == registry[n].beat IN
    /\ lastWritten[n] # Never => beat - lastWritten[n] <= MaxDelay
    /\ \A c \in Noting(n) : beat - c.age <= MaxDelay
    /\ \A a \in Age : Clean(n, a) /\ beat - a >= MaxDelay + Gap => Pending(n, a)

SampleAge(n) == SnapshotInterval - sampleIn[n]
Overwritten(n) ==
    LET since == (IF SampleAge(n) < steady[n] THEN SampleAge(n) ELSE steady[n]) - MaxDelay IN
    /\ lastWritten[n] # Never => lastWritten[n] >= since
    /\ \A c \in Noting(n) : c.age >= since
    /\ \A a \in Age : Clean(n, a) /\ since - a >= Gap => Pending(n, a)
    /\ steady[n] - SampleAge(n) > Lag => registry[n].beat <= Lag + SampleAge(n)

\* The handlers under way are young, and a snapshot is of the last sample.
YoungCall(c) ==
    /\ c.age <= MaxDelay
    /\ c.at = "note" => c.kind = "heartbeat"
    /\ c.kind = "snapshot" /\ c.age < steady[c.node] => c.age = SampleAge(c.node)
\* What a snapshot handler will write back was fresh when the sample was taken.
RecentSeen(c) ==
    c.kind = "snapshot" /\ c.at = "write" /\ c.seen.status = "healthy"
        /\ steady[c.node] - c.age > Lag
    => c.seen.beat <= Lag + c.age
CallsAreYoung == \A c \in calls : YoungCall(c)
SeenIsRecent  == \A c \in calls : RecentSeen(c)
SteadyIsGood == \A n \in Nodes : steady[n] > 0 => Good(n)
BeatsCount   == \A n \in Nodes : Healthy(n) => Fresh(n) \/ Overwritten(n)

SteadyInv == CallsAreYoung /\ SteadyIsGood /\ SeenIsRecent /\ BeatsCount

(***************************************************************************)
(* A node whose agent stays up and connected is healthy for good some      *)
(* day, however it was marked and whatever stale records late handlers     *)
(* wrote back.                                                             *)
(***************************************************************************)
ReturnsToService ==
    \A n \in Nodes : <>[]Good(n) => <>[]Healthy(n)

(***************************************************************************)
(* A node whose agent stays away is unavailable for good some day, even    *)
(* if a late handler of a snapshot writes it back as healthy after the     *)
(* reconciler has marked it.                                               *)
(***************************************************************************)
IsGivenUp ==
    \A n \in Nodes : <>[]~Good(n) => <>[]~Healthy(n)

(***************************************************************************)
(* "Always write if node was unavailable (status change)"                  *)
(* (state_store.py:154): a heartbeat of a node that is unavailable is      *)
(* never skipped.  It is, when the node was marked from an older list.     *)
(***************************************************************************)
UnavailableIsWritten ==
    [][\A c \in calls :
         /\ HeartbeatReads(c)
         /\ registry[c.node] # NoRecord
         /\ registry[c.node].status = "unavailable"
         => Reads(c)]_vars

(***************************************************************************)
(* "service assigned to one node" (docs/runtime-smoke-test.md:48): a node  *)
(* that is up and connected becomes a candidate of the scheduler, which    *)
(* needs its snapshot.  It never does when its only snapshot came before   *)
(* its first heartbeat and its load stays the same.                        *)
(***************************************************************************)
BecomesCandidate ==
    \A n \in Nodes : []Good(n) => <>(registry[n] # NoRecord /\ registry[n].snapshot # NoLoad)

=============================================================================

---------------------------- MODULE Controller ----------------------------
(***************************************************************************)
(* The service-lifecycle core of the orchestrator's controller: the        *)
(* handlers of ServiceManager (deploy, stop, restart, retry) and of        *)
(* SelfHealingManager (crash report, health report, node unreachable), and *)
(* the Reconciler loop that drives two of them.                            *)
(*                                                                         *)
(* The controller is one asyncio process.  A handler for service s holds   *)
(* the lock of s from its first read to its last write, but every await on *)
(* Redis or on an agent lets other handlers run.  A handler is therefore   *)
(* modelled as a job: the point it has reached (job[s].pc) and the Redis   *)
(* writes it has still to make before it gets there (todo[s], in the       *)
(* order of the source).  One step performs one write, or one agent call,  *)
(* or one read that the lock does not protect.  Reads of keys that only    *)
(* the lock holder writes are made in the step that uses them.             *)
(***************************************************************************)
EXTENDS Naturals, Sequences

CONSTANTS
    Services,            \* service ids
    Nodes,               \* node ids
    NoNode,              \* absence of a node id
    NoService,           \* absence of a service id
    MaxRestartAttempts,  \* settings.max_restart_attempts
    Grace,               \* settings.startup_grace_period_seconds, in clock ticks
    Cooldown,            \* reconciliation interval times cooldown intervals
    Faults,              \* subset of {"store", "crash", "timeout"}
    MaxTime,             \* bound: the clock stops here
    MaxGeneration,       \* bound: reports and rounds stop at this generation
    MaxRestartCount      \* bound: reports stop at this restart counter

ASSUME ConstantsAssumption ==
    /\ NoNode \notin Nodes
    /\ NoService \notin Services
    /\ MaxRestartAttempts \in Nat
    /\ Grace \in Nat
    /\ Cooldown \in Nat
    /\ MaxTime \in Nat
    /\ MaxGeneration \in Nat
    /\ MaxRestartCount \in Nat
    /\ Faults \subseteq {"store", "crash", "timeout"}

VARIABLES
    \* Redis, one key per service
    desired,     \* status of the desired state, "none" when the key is absent
    observed,    \* observed state, status "none" when the key is absent
    placement,   \* node of the placement, NoNode when the key is absent
    pending,     \* TRUE when a pending deployment is recorded
    restarts,    \* restart counter
    generation,  \* service generation
    \* Redis, one key per node
    node,        \* "unknown" until the first heartbeat
    \* memory of the controller process
    cooldown,    \* end of the recovery cooldown, 0 when none is set
    recovering,  \* generations with a recovery in progress (_active_recovery)
    job,         \* the handler that holds the lock of the service
    todo,        \* the writes that handler has still to make
    round,       \* the reconciliation round
    \* the rest of the world
    hosts,       \* nodes whose agent started a container and did not stop it
    now,         \* the clock that stamps reports
    \* history
    inPlace      \* in-place restarts since the restart counter was last reset

store == <<desired, observed, placement, pending, restarts, generation, inPlace>>
vars == <<store, node, cooldown, recovering, job, todo, round, hosts, now>>

-----------------------------------------------------------------------------
(* Data *)

DesiredStatus == {"none", "deploying", "running", "stopped"}
ObservedStatus == {"none", "pending", "placement_failed", "running", "failed", "stopped"}

\* The health field is left out: clients read it, the controller never does.
ObservedState == [status : ObservedStatus, node : Nodes \cup {NoNode}, grace : Nat]

Observation(st, n, g) == [status |-> st, node |-> n, grace |-> g]

NoObservation == Observation("none", NoNode, 0)

\* Copy of the observed state with a new status; a state for node n when there
\* is nothing to copy.
CopyAs(s, st, n) ==
    IF observed[s].status = "none" THEN Observation(st, n, 0)
    ELSE [observed[s] EXCEPT !.status = st]

\* A pending write: the key it sets and the value it sets it to.
W(k, v) == [key |-> k, val |-> v]

-----------------------------------------------------------------------------
(* Jobs *)

NoJob == [pc |-> "idle", op |-> "none", target |-> NoNode, from |-> NoNode, at |-> 0]

Idle(s) == job[s].pc = "idle"

\* The handler of s is at point p and has made every write that precedes it.
At(s, p) == job[s].pc = p /\ todo[s] = <<>>

Start(s, p, o, n, t, plan) ==
    /\ job' = [job EXCEPT ![s] = [pc |-> p, op |-> o, target |-> n, from |-> n, at |-> t]]
    /\ todo' = [todo EXCEPT ![s] = plan]

Continue(s, p, n, plan) ==
    /\ job' = [job EXCEPT ![s] = [@ EXCEPT !.pc = p, !.target = n]]
    /\ todo' = [todo EXCEPT ![s] = plan]

\* Mutant: no finally clause around the recovery.
Leave_KeepsSlot(s) ==
    /\ job' = [job EXCEPT ![s] = NoJob]
    /\ todo' = [todo EXCEPT ![s] = <<>>]
    /\ UNCHANGED recovering

\* The lock of s is released and the recovery slot with it (finally clause).
Leave(s) ==
    /\ job' = [job EXCEPT ![s] = NoJob]
    /\ todo' = [todo EXCEPT ![s] = <<>>]
    /\ recovering' = [recovering EXCEPT ![s] = {}]

NoRound == [phase |-> "idle", at |-> 0, stale |-> {}, node |-> NoNode,
            left |-> {}, job |-> NoService]

\* An entry of a list the round works through: a placement, or a pending
\* deployment (no node).
Item(s, n) == [service |-> s, node |-> n]

\* Mutant: the round is never told that its handler returned.
Returned_Lost(s) == round

\* run_once awaits the handler it started: when the handler returns the round
\* goes on, when it raises the round is abandoned.
Returned(s) == IF round.job = s THEN [round EXCEPT !.job = NoService] ELSE round
Raised(s) == IF round.job = s THEN NoRound ELSE round

Init ==
    /\ desired = [s \in Services |-> "none"]
    /\ observed = [s \in Services |-> NoObservation]
    /\ placement = [s \in Services |-> NoNode]
    /\ pending = [s \in Services |-> FALSE]
    /\ restarts = [s \in Services |-> 0]
    /\ generation = [s \in Services |-> 0]
    /\ node = [n \in Nodes |-> "unknown"]
    /\ cooldown = [s \in Services |-> 0]
    /\ recovering = [s \in Services |-> {}]
    /\ job = [s \in Services |-> NoJob]
    /\ todo = [s \in Services |-> <<>>]
    /\ round = NoRound
    /\ hosts = [s \in Services |-> {}]
    /\ now = 0
    /\ inPlace = [s \in Services |-> 0]

-----------------------------------------------------------------------------
(* Write plans: the writes of a handler in the order of the source. *)

DeployPlan == <<W("desired", "deploying")>>

PlacementFailedPlan ==
    <<W("observed", Observation("placement_failed", NoNode, 0)), W("pending", TRUE)>>

\* Mutant: a failed deployment is not queued.
DeployFailedPlan_NotQueued == <<W("observed", Observation("pending", NoNode, 0))>>

DeployFailedPlan ==
    <<W("observed", Observation("pending", NoNode, 0)), W("pending", TRUE)>>

DeployedPlan(n) ==
    <<W("placement", n), W("pending", FALSE), W("desired", "running"),
      W("observed", Observation("running", n, 0)), W("restarts", 0)>>

\* Mutant: the placement is cleared before the service is shown as stopped.
StoppedPlan_ClearsFirst(s) ==
    <<W("placement", NoNode), W("observed", Observation("stopped", NoNode, 0)),
      W("pending", FALSE), W("restarts", 0)>>
    \o (IF desired[s] = "none" THEN <<>> ELSE <<W("desired", "stopped")>>)

StoppedPlan(s) ==
    <<W("observed", Observation("stopped", NoNode, 0)), W("placement", NoNode),
      W("pending", FALSE), W("restarts", 0)>>
    \o (IF desired[s] = "none" THEN <<>> ELSE <<W("desired", "stopped")>>)

ManuallyRestartedPlan(s) ==
    <<W("observed", CopyAs(s, "running", job[s].target))>>

CountedPlan(s) == <<W("restarts", restarts[s] + 1)>>

HealthyPlan(s) ==
    <<W("pending", FALSE), W("restarts", 0), W("cooldown", 0),
      W("observed", [observed[s] EXCEPT !.status = "running", !.grace = 0]),
      W("desired", "running")>>

NodeMissingPlan(s, at) ==
    <<W("pending", TRUE), W("observed", CopyAs(s, "pending", NoNode)),
      W("cooldown", at + Cooldown)>>

RestartedPlan(s) ==
    <<W("generation", generation[s] + 1),
      W("observed", [observed[s] EXCEPT !.status = "running", !.grace = job[s].at + Grace]),
      W("cooldown", job[s].at + Cooldown)>>

\* Mutant: the health value is stored as the status.
RestartFailedPlan_BadStatus(s) ==
    <<W("pending", TRUE), W("observed", CopyAs(s, "unhealthy", job[s].from)),
      W("cooldown", job[s].at + Cooldown)>>

RestartFailedPlan(s) ==
    <<W("pending", TRUE), W("observed", CopyAs(s, "failed", job[s].from)),
      W("cooldown", job[s].at + Cooldown)>>

\* No other node can take the service: after exhausted restarts the node id is
\* kept and a cooldown starts, after an unreachable node the node id is dropped.
NoCandidatePlan(s) ==
    <<W("pending", TRUE), W("observed", CopyAs(s, "pending", job[s].from)),
      W("cooldown", job[s].at + Cooldown)>>

NoReplacementPlan(s) ==
    <<W("pending", TRUE),
      W("observed", [observed[s] EXCEPT !.status = "pending", !.node = NoNode])>>

RescheduleFailedPlan(s) ==
    <<W("pending", TRUE), W("observed", CopyAs(s, "failed", job[s].from)),
      W("cooldown", job[s].at + Cooldown)>>

\* Mutant: the failure is shown before the retry is queued.
EvacuationFailedPlan_ShownFirst(s) ==
    <<W("observed", CopyAs(s, "failed", job[s].from)), W("pending", TRUE)>>

EvacuationFailedPlan(s) ==
    <<W("pending", TRUE), W("observed", CopyAs(s, "failed", job[s].from))>>

\* Mutant: the observed state keeps the node that was left.
RescheduledPlan_OldNode(s, n) ==
    <<W("generation", generation[s] + 1), W("placement", n), W("restarts", 0), W("pending", FALSE),
      W("observed", Observation("running", job[s].from, job[s].at + Grace)),
      W("cooldown", job[s].at + Cooldown)>>

RescheduledPlan(s, n) ==
    <<W("generation", generation[s] + 1), W("placement", n), W("restarts", 0),
      W("pending", FALSE), W("observed", Observation("running", n, job[s].at + Grace)),
      W("cooldown", job[s].at + Cooldown)>>

EvacuatedPlan(s, n) ==
    <<W("generation", generation[s] + 1), W("placement", n), W("pending", FALSE),
      W("restarts", 0), W("observed", Observation("running", n, job[s].at + Grace))>>

-----------------------------------------------------------------------------
(* Steps every handler is made of *)

Put(f, k, s, w) == IF w.key = k THEN [f EXCEPT ![s] = w.val] ELSE f

\* One write.  The cooldown is process memory, the other keys are in Redis;
\* inPlace follows the resets of the restart counter.
Perform(s, w) ==
    /\ desired' = Put(desired, "desired", s, w)
    /\ observed' = Put(observed, "observed", s, w)
    /\ placement' = Put(placement, "placement", s, w)
    /\ pending' = Put(pending, "pending", s, w)
    /\ restarts' = Put(restarts, "restarts", s, w)
    /\ generation' = Put(generation, "generation", s, w)
    /\ cooldown' = Put(cooldown, "cooldown", s, w)
    /\ inPlace' = IF w.key = "restarts" /\ w.val = 0 THEN [inPlace EXCEPT ![s] = 0] ELSE inPlace

Write(s) ==
    /\ todo[s] # <<>>
    /\ Perform(s, Head(todo[s]))
    /\ todo' = [todo EXCEPT ![s] = Tail(@)]
    /\ UNCHANGED <<node, recovering, job, round, hosts, now>>

\* The agent of n executes a command that leaves the containers of s on the
\* nodes of after.  ok is what the controller gets back: an error means that the
\* command was not executed, or, after a timeout, that it may have been.
AgentExecutes(s, after, ok) ==
    \/ /\ ok
       /\ hosts' = [hosts EXCEPT ![s] = after]
    \/ /\ ~ok
       /\ hosts' = hosts
    \/ /\ ~ok
       /\ "timeout" \in Faults
       /\ hosts' = [hosts EXCEPT ![s] = after]

\* Mutant: the status of a node is not looked at.
Schedulable_AnyStatus(candidates) == candidates \cup {NoNode}

\* choose_node_least_load among the candidates: some healthy one, or none, as
\* resource snapshots (which this module leaves open) may disqualify any node.
Schedulable(candidates) == {n \in candidates : node[n] = "healthy"} \cup {NoNode}

\* list_nodes and the scheduling decision; the deploy call is sent.
UnscheduledPlan(s) ==
    CASE job[s].op = "deploy" -> PlacementFailedPlan
      [] job[s].op = "reschedule" -> NoCandidatePlan(s)
      [] job[s].op = "unreachable" -> NoReplacementPlan(s)

Schedule(s) ==
    /\ At(s, "schedule")
    /\ \E n \in Schedulable(Nodes \ {job[s].from}) :
          IF n = NoNode THEN Continue(s, "sync", n, UnscheduledPlan(s))
                        ELSE Continue(s, "deploy", n, <<>>)
    /\ UNCHANGED <<store, node, cooldown, recovering, round, hosts, now>>

\* The deploy call returns.  After exhausted restarts the previous node is
\* stopped before anything is recorded.
DeploySucceeds(s) ==
    LET n == job[s].target IN
    CASE job[s].op = "deploy" -> Continue(s, "commit", n, DeployedPlan(n))
      [] job[s].op = "reschedule" -> Continue(s, "retire", n, <<>>)
      [] job[s].op = "unreachable" -> Continue(s, "commit", n, EvacuatedPlan(s, n))

\* Mutant: after an error of the agent another node is tried at once.
DeployFails_TriesOn(s) == Continue(s, "schedule", job[s].target, <<>>)

DeployFails(s) ==
    Continue(s, "sync", job[s].target,
             CASE job[s].op = "deploy" -> DeployFailedPlan
               [] job[s].op = "reschedule" -> RescheduleFailedPlan(s)
               [] job[s].op = "unreachable" -> EvacuationFailedPlan(s))

DeployReply(s) ==
    /\ At(s, "deploy")
    /\ \E ok \in BOOLEAN :
          /\ AgentExecutes(s, hosts[s] \cup {job[s].target}, ok)
          /\ IF ok THEN DeploySucceeds(s) ELSE DeployFails(s)
    /\ UNCHANGED <<store, node, cooldown, recovering, round, now>>

\* Mutant: the new container is stopped instead of the old one.
RetireReply_StopsTarget(s) ==
    /\ At(s, "retire")
    /\ \E ok \in BOOLEAN : AgentExecutes(s, hosts[s] \ {job[s].target}, ok)
    /\ Continue(s, "commit", job[s].target, RescheduledPlan(s, job[s].target))
    /\ UNCHANGED <<store, node, cooldown, recovering, round, now>>

\* The best-effort stop on the previous node returns; its outcome is ignored.
RetireReply(s) ==
    /\ At(s, "retire")
    /\ \E ok \in BOOLEAN : AgentExecutes(s, hosts[s] \ {job[s].from}, ok)
    /\ Continue(s, "commit", job[s].target, RescheduledPlan(s, job[s].target))
    /\ UNCHANGED <<store, node, cooldown, recovering, round, now>>

\* The restart call of a recovery returns.  A restart also starts a container
\* that was stopped.
RestartReply(s) ==
    /\ At(s, "restart")
    /\ \E ok \in BOOLEAN :
          /\ AgentExecutes(s, hosts[s] \cup {job[s].target}, ok)
          /\ IF ok
             THEN /\ Continue(s, "exit", job[s].target, RestartedPlan(s))
                  /\ inPlace' = [inPlace EXCEPT ![s] = @ + 1]
             ELSE /\ Continue(s, "sync", job[s].target, RestartFailedPlan(s))
                  /\ UNCHANGED inPlace
    /\ UNCHANGED <<desired, observed, placement, pending, restarts, generation,
                   node, cooldown, recovering, round, now>>

\* The agent call of a manual stop returns; an error is recorded and ignored.
StopReply(s) ==
    /\ At(s, "stop")
    /\ \E ok \in BOOLEAN : AgentExecutes(s, hosts[s] \ {job[s].target}, ok)
    /\ Continue(s, "sync", job[s].target, StoppedPlan(s))
    /\ UNCHANGED <<store, node, cooldown, recovering, round, now>>

\* The agent call of a manual restart returns; an error is raised to the caller.
ManualReply(s) ==
    /\ At(s, "manual")
    /\ \E ok \in BOOLEAN :
          /\ AgentExecutes(s, hosts[s] \cup {job[s].target}, ok)
          /\ IF ok
             THEN /\ Continue(s, "sync", job[s].target, ManuallyRestartedPlan(s))
                  /\ UNCHANGED recovering
             ELSE Leave(s)
    /\ UNCHANGED <<store, node, cooldown, round, now>>

\* Mutant: only the handlers that end with _sync_ingress return.
Finish_OnlyAfterSync(s) ==
    /\ At(s, "sync")
    /\ Leave(s)
    /\ round' = Returned(s)
    /\ UNCHANGED <<store, node, cooldown, hosts, now>>

\* The handler returns, after _sync_ingress where it calls it.
Finish(s) ==
    /\ job[s].pc \in {"commit", "sync", "exit"}
    /\ todo[s] = <<>>
    /\ Leave(s)
    /\ round' = Returned(s)
    /\ UNCHANGED <<store, node, cooldown, hosts, now>>

\* Redis fails: during a write, which may have taken effect, during an event
\* append (before a cooldown is set or at the end), or during list_nodes.  The
\* handler raises; the try blocks that record a new container first stop that
\* container again.
Guarded(s) == job[s].pc = "commit" /\ Head(todo[s]).key \notin {"generation", "cooldown"}

StoreFails(s) ==
    /\ "store" \in Faults
    /\ \/ /\ todo[s] # <<>>
          /\ Head(todo[s]).key # "cooldown"
          /\ Perform(s, Head(todo[s]))
       \/ /\ todo[s] # <<>> \/ job[s].pc \in {"schedule", "commit", "sync"}
          /\ UNCHANGED <<store, cooldown>>
    /\ IF todo[s] # <<>> /\ Guarded(s)
       THEN /\ Continue(s, "undo", job[s].target, <<>>)
            /\ UNCHANGED <<recovering, round>>
       ELSE /\ Leave(s)
            /\ round' = Raised(s)
    /\ UNCHANGED <<node, hosts, now>>

\* The compensating stop returns and the store's exception is raised again.
UndoReply(s) ==
    /\ At(s, "undo")
    /\ \E ok \in BOOLEAN : AgentExecutes(s, hosts[s] \ {job[s].target}, ok)
    /\ Leave(s)
    /\ round' = Raised(s)
    /\ UNCHANGED <<store, node, cooldown, now>>

-----------------------------------------------------------------------------
(* Requests and reports: each takes the lock of its service when it is free. *)

\* POST /services/deploy.  A running service is left as it is.
DeployRequest(s) ==
    /\ Idle(s)
    /\ observed[s].status # "running"
    /\ Start(s, "schedule", "deploy", NoNode, 0, DeployPlan)
    /\ UNCHANGED <<store, node, cooldown, recovering, round, hosts, now>>

\* POST /services/{id}/stop
StopRequest(s) ==
    /\ Idle(s)
    /\ IF placement[s] # NoNode /\ node[placement[s]] # "unknown"
       THEN Start(s, "stop", "stop", placement[s], 0, <<>>)
       ELSE Start(s, "sync", "stop", NoNode, 0, StoppedPlan(s))
    /\ UNCHANGED <<store, node, cooldown, recovering, round, hosts, now>>

\* POST /services/{id}/restart, which does nothing without a placement
RestartRequest(s) ==
    /\ Idle(s)
    /\ placement[s] # NoNode
    /\ node[placement[s]] # "unknown"
    /\ Start(s, "manual", "manual", placement[s], 0, <<>>)
    /\ UNCHANGED <<store, node, cooldown, recovering, round, hosts, now>>

\* The filters of both report handlers: n sent the report, g is its generation
\* if it has one.  Reports may be late: at is any time up to now and g any
\* generation the service has had.
NoGen == {}
Generations(s) == {NoGen} \cup {{g} : g \in 0..generation[s]}

\* Mutant: reports on stopped services are accepted.
Accepted_Stopped(s, n, g) ==
    /\ observed[s].status # "none"
    /\ placement[s] = n
    /\ g # NoGen => g = {generation[s]}

Accepted(s, n, g) ==
    /\ observed[s].status # "none"
    /\ desired[s] \notin {"none", "stopped"}
    /\ placement[s] = n
    /\ g # NoGen => g = {generation[s]}

InGrace(s, at) == at < observed[s].grace
InCooldown(s, at) == at < cooldown[s]

\* Mutant: the budget is compared with the count before this restart.
Recover_OffByOne(s, at) ==
    /\ recovering' = [recovering EXCEPT ![s] = {generation[s]}]
    /\ IF restarts[s] <= MaxRestartAttempts /\ node[placement[s]] # "unknown"
       THEN Start(s, "restart", "restart", placement[s], at, CountedPlan(s))
       ELSE Start(s, "schedule", "reschedule", placement[s], at, CountedPlan(s))

\* Mutant: the node shown for the service is asked, not the one of its placement.
Recover_ShownNode(s, at) ==
    /\ recovering' = [recovering EXCEPT ![s] = {generation[s]}]
    /\ IF restarts[s] + 1 <= MaxRestartAttempts /\ node[placement[s]] # "unknown"
       THEN Start(s, "restart", "restart", observed[s].node, at, CountedPlan(s))
       ELSE Start(s, "schedule", "reschedule", placement[s], at, CountedPlan(s))

\* A recovery starts: in place while the budget lasts, elsewhere afterwards.
Recover(s, at) ==
    /\ recovering' = [recovering EXCEPT ![s] = {generation[s]}]
    /\ IF restarts[s] + 1 <= MaxRestartAttempts /\ node[placement[s]] # "unknown"
       THEN Start(s, "restart", "restart", placement[s], at, CountedPlan(s))
       ELSE Start(s, "schedule", "reschedule", placement[s], at, CountedPlan(s))

\* Bounds of the model on recoveries.
Bounded(s) == generation[s] < MaxGeneration /\ restarts[s] < MaxRestartCount

CrashReport(s, n, at, g) ==
    /\ Idle(s)
    /\ Bounded(s)
    /\ Accepted(s, n, g)
    /\ ~InGrace(s, at)
    /\ generation[s] \notin recovering[s]
    /\ Recover(s, at)
    /\ UNCHANGED <<store, node, cooldown, round, hosts, now>>

HealthyReport(s, n, g) ==
    /\ Idle(s)
    /\ Accepted(s, n, g)
    /\ Start(s, "exit", "healthy", n, 0, HealthyPlan(s))
    /\ UNCHANGED <<store, node, cooldown, recovering, round, hosts, now>>

\* A report that says unhealthy often enough (health_check_retries); a report
\* below that count, or within the cooldown, only changes the health shown.
UnhealthyReport(s, n, at, g) ==
    /\ Idle(s)
    /\ Bounded(s)
    /\ Accepted(s, n, g)
    /\ ~InGrace(s, at)
    /\ ~InCooldown(s, at)
    /\ generation[s] \notin recovering[s]
    /\ IF node[n] = "unknown"
       THEN /\ Start(s, "sync", "unhealthy", n, at, NodeMissingPlan(s, at))
            /\ UNCHANGED recovering
       ELSE Recover(s, at)
    /\ UNCHANGED <<store, node, cooldown, round, hosts, now>>

Report(s) ==
    \E n \in Nodes, at \in 0..now, g \in Generations(s) :
        \/ CrashReport(s, n, at, g)
        \/ HealthyReport(s, n, g)
        \/ UnhealthyReport(s, n, at, g)

-----------------------------------------------------------------------------
(* The reconciler: run_once, one round after the other. *)

\* list_nodes: the healthy nodes whose last heartbeat is too old.  Any healthy
\* node may be silent for that long.
RoundStart ==
    /\ round.phase = "idle"
    /\ \E stale \in SUBSET {n \in Nodes : node[n] = "healthy"} :
          /\ stale # {} => \A s \in Services : generation[s] < MaxGeneration
          /\ round' = [NoRound EXCEPT !.phase = "nodes", !.at = now, !.stale = stale]
    /\ UNCHANGED <<store, node, cooldown, recovering, job, todo, hosts, now>>

\* mark_node_unavailable for the next node of the list as it was read
MarkUnavailable ==
    /\ round.phase = "nodes"
    /\ round.left = {} /\ round.job = NoService
    /\ \E n \in round.stale :
          /\ node' = [node EXCEPT ![n] = "unavailable"]
          /\ round' = [round EXCEPT !.phase = "marked", !.node = n, !.stale = @ \ {n}]
    /\ UNCHANGED <<store, cooldown, recovering, job, todo, hosts, now>>

PlacedOn(n) == {s \in Services : placement[s] = n}

\* handle_node_unreachable: list_placements
ListPlacements ==
    /\ round.phase = "marked"
    /\ round' = [round EXCEPT !.phase = "nodes",
                              !.node = NoNode,
                              !.left = {Item(s, round.node) : s \in PlacedOn(round.node)}]
    /\ UNCHANGED <<store, node, cooldown, recovering, job, todo, hosts, now>>

\* The lock of the next service placed on the node when the list was read:
\* the placement of the list is used, not the current one.
Unreachable(s, n) ==
    /\ round.phase = "nodes"
    /\ round.job = NoService
    /\ Item(s, n) \in round.left
    /\ Idle(s)
    /\ IF desired[s] = "none"
       THEN /\ round' = [round EXCEPT !.left = @ \ {Item(s, n)}]
            /\ UNCHANGED <<job, todo>>
       ELSE /\ round' = [round EXCEPT !.left = @ \ {Item(s, n)}, !.job = s]
            /\ Start(s, "schedule", "unreachable", n, round.at, <<>>)
    /\ UNCHANGED <<store, node, cooldown, recovering, hosts, now>>

\* Mutant: services that are not shown as pending are not retried.
Queued_PendingOnly == {s \in Services : pending[s] /\ observed[s].status = "pending"}

Queued == {s \in Services : pending[s]}

\* list_pending_deployments, once every stale node is handled
ListPending ==
    /\ round.phase = "nodes"
    /\ round.stale = {} /\ round.left = {} /\ round.job = NoService
    /\ round' = [round EXCEPT !.phase = "retry", !.at = 0,
                              !.left = {Item(s, NoNode) : s \in Queued}]
    /\ UNCHANGED <<store, node, cooldown, recovering, job, todo, hosts, now>>

\* retry_pending_deployment: neither the pending record nor the desired status
\* is read again.
Retry(s) ==
    /\ round.phase = "retry"
    /\ round.job = NoService
    /\ Item(s, NoNode) \in round.left
    /\ Idle(s)
    /\ IF desired[s] = "none"
       THEN /\ round' = [round EXCEPT !.left = @ \ {Item(s, NoNode)}, !.job = s]
            /\ Start(s, "exit", "retry", NoNode, 0, <<W("pending", FALSE)>>)
       ELSE IF observed[s].status = "running"
       THEN /\ round' = [round EXCEPT !.left = @ \ {Item(s, NoNode)}]
            /\ UNCHANGED <<job, todo>>
       ELSE /\ round' = [round EXCEPT !.left = @ \ {Item(s, NoNode)}, !.job = s]
            /\ Start(s, "schedule", "deploy", NoNode, 0, DeployPlan)
    /\ UNCHANGED <<store, node, cooldown, recovering, hosts, now>>

\* Redis fails in a call the round makes itself: run_forever logs the exception
\* and the rest of the round is dropped.
RoundFails ==
    /\ "store" \in Faults
    /\ round.phase # "idle" /\ round.job = NoService
    /\ round' = NoRound
    /\ UNCHANGED <<store, node, cooldown, recovering, job, todo, hosts, now>>

RoundEnd ==
    /\ round.phase = "retry"
    /\ round.left = {} /\ round.job = NoService
    /\ round' = NoRound
    /\ UNCHANGED <<store, node, cooldown, recovering, job, todo, hosts, now>>

-----------------------------------------------------------------------------
(* The rest of the world *)

Heartbeat(n) ==
    /\ node[n] # "healthy"
    /\ node' = [node EXCEPT ![n] = "healthy"]
    /\ UNCHANGED <<store, cooldown, recovering, job, todo, round, hosts, now>>

\* upsert_node_snapshot writes the whole node back: when a heartbeat was written
\* after its read, the node falls back to the status that was read.
StaleSnapshot(n) ==
    /\ node[n] = "healthy"
    /\ node' = [node EXCEPT ![n] = "unavailable"]
    /\ UNCHANGED <<store, cooldown, recovering, job, todo, round, hosts, now>>

Tick ==
    /\ now < MaxTime
    /\ now' = now + 1
    /\ UNCHANGED <<store, node, cooldown, recovering, job, todo, round, hosts>>

\* The controller process dies and is started again; Redis and the agents
\* keep their state.
ControllerCrash ==
    /\ "crash" \in Faults
    /\ cooldown' = [s \in Services |-> 0]
    /\ recovering' = [s \in Services |-> {}]
    /\ job' = [s \in Services |-> NoJob]
    /\ todo' = [s \in Services |-> <<>>]
    /\ round' = NoRound
    /\ UNCHANGED <<store, node, hosts, now>>

-----------------------------------------------------------------------------

Handler(s) ==
    \/ Write(s) \/ Schedule(s) \/ Finish(s)
    \/ DeployReply(s) \/ RetireReply(s) \/ RestartReply(s)
    \/ StopReply(s) \/ ManualReply(s) \/ UndoReply(s)

Reconcile ==
    \/ RoundStart \/ MarkUnavailable \/ ListPlacements \/ ListPending \/ RoundEnd
    \/ \E s \in Services : Retry(s) \/ \E n \in Nodes : Unreachable(s, n)

Request(s) == DeployRequest(s) \/ StopRequest(s) \/ RestartRequest(s) \/ Report(s)

Next ==
    \/ \E s \in Services : Handler(s) \/ Request(s) \/ StoreFails(s)
    \/ Reconcile \/ RoundFails
    \/ \E n \in Nodes : Heartbeat(n) \/ StaleSnapshot(n)
    \/ Tick
    \/ ControllerCrash

Spec == Init /\ [][Next]_vars

\* asyncio runs every ready task, agent calls and Redis calls return or time
\* out, the reconciler loop starts a round at every interval, and an asyncio
\* lock is granted in the order of the requests, so that the reconciler obtains
\* it however many reports arrive.
Fairness ==
    /\ \A s \in Services : WF_vars(Handler(s))
    /\ WF_vars(RoundStart \/ MarkUnavailable \/ ListPlacements \/ ListPending \/ RoundEnd)
    /\ \A s \in Services : SF_vars(Retry(s))
    /\ \A s \in Services, n \in Nodes : SF_vars(Unreachable(s, n))

FairSpec == Spec /\ Fairness

-----------------------------------------------------------------------------
(* Invariants *)

Writes ==
    [key : {"desired"}, val : DesiredStatus \ {"none"}]
    \cup [key : {"observed"}, val : ObservedState]
    \cup [key : {"placement"}, val : Nodes \cup {NoNode}]
    \cup [key : {"pending"}, val : BOOLEAN]
    \cup [key : {"restarts", "generation", "cooldown"}, val : Nat]

Points == {"idle", "schedule", "deploy", "retire", "restart", "stop", "manual",
           "commit", "sync", "exit", "undo"}
Operations == {"none", "deploy", "reschedule", "unreachable", "restart", "stop",
               "manual", "healthy", "unhealthy", "retry"}

StoreOK ==
    /\ desired \in [Services -> DesiredStatus]
    /\ observed \in [Services -> ObservedState]
    /\ placement \in [Services -> Nodes \cup {NoNode}]
    /\ pending \in [Services -> BOOLEAN]
    /\ restarts \in [Services -> Nat]
    /\ generation \in [Services -> Nat]
    /\ inPlace \in [Services -> Nat]
    /\ cooldown \in [Services -> Nat]

JobsOK ==
    /\ job \in [Services -> [pc : Points, op : Operations, target : Nodes \cup {NoNode},
                             from : Nodes \cup {NoNode}, at : Nat]]
    /\ todo \in [Services -> Seq(Writes)]
    /\ recovering \in [Services -> SUBSET Nat]

RoundOK ==
    round \in [phase : {"idle", "nodes", "marked", "retry"}, at : Nat,
               stale : SUBSET Nodes, node : Nodes \cup {NoNode},
               left : SUBSET [service : Services, node : Nodes \cup {NoNode}],
               job : Services \cup {NoService}]

WorldOK ==
    /\ node \in [Nodes -> {"unknown", "healthy", "unavailable"}]
    /\ hosts \in [Services -> SUBSET Nodes]
    /\ now \in Nat

\* Every key of the store, every job, every write still to be made and the
\* reconciliation round hold values of their types.
TypeOK == StoreOK /\ JobsOK /\ RoundOK /\ WorldOK

Running(s) == observed[s].status = "running"

\* A service shown as running has a placement, at every step of every handler
\* and whatever write or process fails: routing, reports and restarts all look
\* the node up in the placement.
RunningIsPlaced == \A s \in Services : Running(s) => placement[s] # NoNode

\* The strengthening that makes it inductive.  A plan that shows the service as
\* running never clears the placement, and sets one first unless there is one; a
\* plan that clears the placement first shows the service as not running; the
\* placement the handler found is still there when an agent restart returns.
ShowsRunning(w) == w.key = "observed" /\ w.val.status = "running"
ShowsDown(w) == w.key = "observed" /\ w.val.status # "running"
SetsPlacement(w) == w.key = "placement" /\ w.val # NoNode
ClearsPlacement(w) == w.key = "placement" /\ w.val = NoNode

SafePlan(plan, running, placed) ==
    /\ \A i \in 1..Len(plan) : ShowsRunning(plan[i]) =>
          placed \/ \E j \in 1..(i - 1) : SetsPlacement(plan[j])
    /\ \A i \in 1..Len(plan) : ClearsPlacement(plan[i]) =>
          /\ ~running \/ \E j \in 1..(i - 1) : ShowsDown(plan[j])
          /\ \A j \in 1..Len(plan) : ~ShowsRunning(plan[j])

JobSafe(s) ==
    /\ SafePlan(todo[s], Running(s), placement[s] # NoNode)
    /\ job[s].pc \in {"schedule", "deploy", "retire"} =>
          job[s].op \in {"deploy", "reschedule", "unreachable"}
    /\ job[s].pc \in {"deploy", "retire", "restart", "manual"} => job[s].target # NoNode
    /\ job[s].pc \in {"restart", "manual"} =>
          /\ placement[s] # NoNode
          /\ \A i \in 1..Len(todo[s]) : ~ClearsPlacement(todo[s][i])

PlacedInv == TypeOK /\ RunningIsPlaced /\ \A s \in Services : JobSafe(s)

\* A service that self-healing gave up on can still be recovered, whatever
\* fails: either a retry is queued, or it has a placement whose agent reports on
\* it.
FailedIsRecoverable ==
    \A s \in Services : observed[s].status = "failed" => pending[s] \/ placement[s] # NoNode

\* A service is restarted in place at most max_restart_attempts times before
\* something resets its counter, also when the controller dies or Redis fails
\* between the count and the restart.
RestartBudget == \A s \in Services : inPlace[s] <= MaxRestartAttempts

\* The recovery slot of a service is never left behind by a handler that
\* returned or raised: a leaked slot would silence every later recovery of that
\* generation.
RecoverySlotReleased == \A s \in Services : Idle(s) => recovering[s] = {}

\* The agent that is asked to restart a service is the one the service is placed
\* on at that moment, and the service is still wanted: nothing moves or stops it
\* between the handler's reads and the agent call.
RestartsTheWantedInstance ==
    \A s \in Services :
        At(s, "restart") => job[s].target = placement[s] /\ desired[s] # "stopped"

\* Every node id in a placement belongs to a registered node, so the branches
\* for a missing node are never taken.
PlacementNodeKnown ==
    \A s \in Services : placement[s] # NoNode => node[placement[s]] # "unknown"

\* What makes these four and the action properties below inductive.  The writes
\* of a plan fit the state they will be made in: the counter is reset, or counted
\* up by the only write; the service is placed on nodes that are known and have
\* its container; and it is made wanted only if it was not stopped.
Entries(plan) == {plan[i] : i \in DOMAIN plan}
Homes(s) == {n \in hosts[s] : node[n] # "unknown"}

Fits(plan, count, homes, wish) ==
    \A w \in Entries(plan) :
        /\ w.key = "restarts" => w.val = 0 \/ (w.val = count + 1 /\ Len(plan) = 1)
        /\ w.key = "placement" => w.val = NoNode \/ w.val \in homes
        /\ w.key = "desired" /\ w.val = "running" =>
              /\ wish # "stopped"
              /\ \A v \in Entries(plan) : v.key = "desired" => v.val = "running"

\* A job carries what it has found out: a restart that is counted leaves room in
\* the budget, and a node that was chosen is known and not the one to be left.
JobFits(s) ==
    /\ Idle(s) => recovering[s] = {}
    /\ job[s].pc = "restart" =>
          /\ job[s].target = placement[s] /\ desired[s] # "stopped"
          /\ \A w \in Entries(todo[s]) : w.key = "restarts" /\ w.val # 0
          /\ inPlace[s] < restarts[s] + Len(todo[s])
          /\ restarts[s] + Len(todo[s]) <= MaxRestartAttempts
    /\ job[s].pc = "schedule" /\ job[s].op = "deploy" =>
          todo[s] = DeployPlan \/ (todo[s] = <<>> /\ desired[s] = "deploying")
    /\ job[s].pc \in {"deploy", "retire"} =>
          /\ todo[s] = <<>>
          /\ job[s].target # job[s].from /\ node[job[s].target] # "unknown"
          /\ job[s].op = "deploy" => desired[s] = "deploying"
    /\ job[s].pc = "retire" => job[s].target \in hosts[s]

RecoveryInv ==
    \A s \in Services :
        /\ inPlace[s] <= restarts[s] /\ inPlace[s] <= MaxRestartAttempts
        /\ placement[s] # NoNode => node[placement[s]] # "unknown"
        /\ Fits(todo[s], restarts[s], Homes(s), desired[s])
        /\ JobFits(s)

\* What makes FailedIsRecoverable inductive: it will hold after each of the writes
\* still to be made (the retry is queued before the failure is shown, the service
\* placed before its retry is dropped), so that each may be the last.  And who shows
\* a failure has found the service wanted: the retry of a service that nobody wants
\* drops the queue entry whatever is shown.
ShowsFailed(w) == w.key = "observed" /\ w.val.status = "failed"
Queues(w) == w.key = "pending" /\ w.val = TRUE
Unqueues(w) == w.key = "pending" /\ w.val = FALSE

\* What the first k writes of a plan leave of a failure, a queue entry, a placement.
FailedAfter(k, plan, failed) ==
    \/ \E i \in 1..k : ShowsFailed(plan[i])
    \/ failed /\ \A i \in 1..k : plan[i].key # "observed"

QueuedAfter(k, plan, queued) ==
    \/ queued /\ \A i \in 1..k : ~Unqueues(plan[i])
    \/ \E i \in 1..k : Queues(plan[i]) /\ \A j \in (i + 1)..k : ~Unqueues(plan[j])

PlacedAfter(k, plan, placed) ==
    \/ placed /\ \A i \in 1..k : ~ClearsPlacement(plan[i])
    \/ \E i \in 1..k : SetsPlacement(plan[i]) /\ \A j \in (i + 1)..k : ~ClearsPlacement(plan[j])

Recoverable(plan, failed, queued, placed) ==
    \A k \in 0..Len(plan) :
        FailedAfter(k, plan, failed) => QueuedAfter(k, plan, queued) \/ PlacedAfter(k, plan, placed)

GivesUp(s) ==
    \/ observed[s].status = "failed" \/ \E w \in Entries(todo[s]) : ShowsFailed(w)
    \/ job[s].pc = "restart" \/ job[s].op \in {"reschedule", "unreachable"}

QueueInv ==
    \A s \in Services :
        /\ Recoverable(todo[s], observed[s].status = "failed", pending[s], placement[s] # NoNode)
        /\ GivesUp(s) => desired[s] # "none"

\* Without store faults and crashes: between handlers, a service that is down
\* but not stopped has a queued retry, so that it is not forgotten.
DownIsQueued ==
    \A s \in Services :
        Idle(s) /\ observed[s].status \in {"pending", "placement_failed", "failed"} => pending[s]

\* Without store faults and crashes: between handlers, a service shown as
\* running has a container on the node it is placed on.
RunningIsServed ==
    \A s \in Services : Idle(s) /\ Running(s) => placement[s] \in hosts[s]

\* Without store faults and crashes: between handlers, the node shown for a
\* running service is the one it is placed on, or unknown.
ObservedNodeIsPlacement ==
    \A s \in Services : Idle(s) /\ Running(s) => observed[s].node \in {NoNode, placement[s]}

(***************************************************************************)
(* The reconciler awaits only a handler that it has started and that will  *)
(* return to it: an unreachable node's while it handles nodes, a retry     *)
(* afterwards.  No request takes the lock in between, and no handler that  *)
(* returns, raises or dies leaves the round waiting.                       *)
(***************************************************************************)
RoundAwaits ==
    round.job # NoService =>
        /\ job[round.job].pc \notin {"idle", "manual", "stop", "restart"}
        /\ \/ round.phase = "nodes" /\ job[round.job].op = "unreachable"
           \/ round.phase = "retry" /\ job[round.job].op \in {"deploy", "retry"}

\* With it, a handler that has returned has nothing left to write.
ProgressInv == RoundAwaits /\ \A s \in Services : Idle(s) => todo[s] = <<>>

\* The inductive invariant of the handlers, with every fault.
ControllerInv == PlacedInv /\ RecoveryInv /\ QueueInv /\ ProgressInv

-----------------------------------------------------------------------------
(* Action properties *)

\* A placement is recorded only on a node whose agent has started the container.
PlacedAfterDeploy ==
    [][\A s \in Services :
          placement'[s] \notin {placement[s], NoNode} => placement'[s] \in hosts[s]]_vars

\* A stopped service becomes wanted again only through a deployment: no report
\* that was under way when it was stopped turns it back to running.
StoppedOnlyRedeployed ==
    [][\A s \in Services :
          desired[s] = "stopped" => desired'[s] \in {"stopped", "deploying"}]_vars

\* What a handler has left to do at a point, besides the writes under way: the
\* agent calls, list_nodes, the writes that may follow them and its return.
StepsFrom(p) ==
    CASE p = "idle" -> 0
      [] p \in {"commit", "sync", "exit", "undo"} -> 1
      [] p = "manual" -> 3
      [] p = "restart" -> 5
      [] p = "stop" -> 7
      [] p = "retire" -> 8
      [] p = "deploy" -> 9
      [] p = "schedule" -> 10

StepsLeft(s) == StepsFrom(job[s].pc) + Len(todo[s])

\* One write, list_nodes, the deploy call, the stop on the old node, six writes
\* and the return.
LongestHandler == 11

HandlerShrinks(s) ==
    job'[s] # job[s] \/ todo'[s] # todo[s] =>
        StepsLeft(s)' < (IF Idle(s) THEN LongestHandler + 1 ELSE StepsLeft(s))

\* Lexicographic: the nodes left to mark, the mark that is not followed up yet,
\* the items of the list, the handler that is awaited.
RoundShrinks ==
    LET FewerNodes == round'.stale \subseteq round.stale /\ round'.stale # round.stale
        FewerItems == round'.left \subseteq round.left /\ round'.left # round.left
        NodePhases == {"nodes", "marked"}
    IN
    \/ round.phase = "idle" \/ round'.phase = "idle"
    \/ round.phase \in NodePhases /\ round'.phase = "retry"
    \/ {round.phase, round'.phase} \subseteq NodePhases /\ FewerNodes
    \/ /\ round'.stale = round.stale
       /\ \/ round.phase = "marked" /\ round'.phase = "nodes"
          \/ round'.phase = round.phase /\ FewerItems
          \/ /\ round'.phase = round.phase /\ round'.left = round.left
             /\ round.job # NoService /\ round'.job = NoService

(***************************************************************************)
(* No handler and no round goes on for ever: a handler holds its lock for  *)
(* at most LongestHandler steps of its own (a failed deployment is queued, *)
(* not tried on the next node), and every step of a round leaves it fewer  *)
(* nodes, items or handlers to wait for, although requests and reports     *)
(* change the lists it works through.                                      *)
(***************************************************************************)
StepsRunOut ==
    [][/\ \A s \in Services : HandlerShrinks(s)
       /\ round' # round => RoundShrinks]_vars

-----------------------------------------------------------------------------
(* Liveness *)

\* The lock of a service is always released again: no handler, compensation or
\* raised exception leaves it held.
LockReleased == \A s \in Services : ~Idle(s) ~> Idle(s)

\* Every reconciliation round ends, although it waits for the locks of other
\* handlers and for the handlers it starts itself.
RoundsEnd == round.phase # "idle" ~> round.phase = "idle"

\* A queued deployment is tried again, or its service runs, or the queue entry
\* goes away: it is not left in the queue for ever, unless a failing store cuts
\* rounds short again and again.
CutShort == round.phase # "idle" /\ round' = NoRound /\ ~RoundEnd
QueuedIsRetried ==
    \/ \A s \in Services :
          pending[s] ~> \/ ~pending[s]
                        \/ Running(s)
                        \/ job[s].op = "deploy"
    \/ []<><<CutShort>>_vars

=============================================================================

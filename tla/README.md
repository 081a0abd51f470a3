# A formal model of the mini orchestrator

TLA+ modules, TLC configurations and TLAPS proofs for the orchestrator in this
repository: a controller (FastAPI, asyncio, Redis) that places container
services on worker nodes, and an agent per node that drives Docker.

## 1. Inventory

| component | state | operations | talks to |
|---|---|---|---|
| `controller/service_manager.py` | none of its own | deploy, stop, restart, retry of a pending deployment | store, agents, scheduler, ingress |
| `controller/self_healing.py` | cooldown and recovery slot per service (memory) | crash report, health report, node unreachable | store, agents, scheduler, ingress |
| `controller/reconciler.py` | the lists a round works through | one round every 15 s: mark silent nodes, evacuate them, retry pending deployments | store, both managers |
| `controller/state_store.py` | Redis keys per service and per node; two coalescing caches and the lock table (memory) | one getter and one setter per key, heartbeats, snapshots, marks | Redis |
| `controller/scheduler.py` | none | least-load choice among healthy nodes with a snapshot | - |
| `controller/ingress_manager.py` | upstream file, nginx container handle, a lock | sync of the one routed service | store, agents, nginx |
| `controller/agent_client.py` | connection pool | deploy, stop, restart, local state, with timeouts | agents |
| `controller/api.py`, `main.py` | - | HTTP endpoints; wiring, start and stop of the reconciler | all of the above |
| `agent/app/services/workload_manager.py`, `core/state.py` | workload records (memory) | deploy, stop, restart, health check of all workloads, port selection | Docker adapter |
| `agent/app/adapters/docker_adapter.py` | containers (in Docker) | deploy, stop, restart, inspect | Docker |
| `agent/app/services/docker_event_watcher.py` | cooldown per service | thread that turns Docker events into crash reports | controller |
| `agent/app/services/telemetry.py` | last snapshot sent | heartbeat, snapshot and health loops | controller |
| sample app, infra, scripts, legacy shims | - | demonstration, deployment, re-exports | - |

**How they interact.** A request or an agent's report enters the controller by
HTTP, takes the asyncio lock of its service, reads Redis, calls an agent and
writes Redis again, one `await` per call. The reconciler is a task of the same
process that starts two of the same handlers itself. Nothing but the lock of a
service keeps handlers apart; the node keys and the lists of a round are
covered by no lock. Redis survives the controller, the cooldowns, the recovery
slots and the coalescing caches do not.

**What is hard.**

* *Interleavings*: every await lets other handlers run. The lists the
  reconciler works through are read before the locks are taken and are stale
  when they are used. A deployment can be in flight while its node is marked.
* *Failures*: any Redis call may raise in the middle of a sequence of five or
  six writes; some sequences are compensated by an agent call that may fail
  too. The process may die between any two writes.
* *Timeouts*: an agent call that timed out may have been executed.
* *Late messages*: reports may refer to an instance, a placement or a desired
  state that is gone.
* *Progress*: the reconciler waits for locks and for handlers; a queued
  deployment competes with reports that queue it again.

`PROJECT.json` lists each hazard at its line, with the properties that cover it.

**What makes each component correct.**

* *Service lifecycle* (service manager, self-healing): the records of a service
  agree with each other at every await; a service that is down and wanted is
  never forgotten; the restart budget and the recovery slot survive failures;
  late reports neither revive nor move anything.
* *Reconciler*: every round ends; every queued service is retried; a failed
  node is left.
* *Node registry*: a node that sends heartbeats becomes schedulable again, and
  none of its fields is lost for good.
* *Scheduler*: the chosen node is healthy, has the free resources, and no other
  such node is preferred by the documented order.
* *Ingress*: once it is quiet, the upstream names the container of a running
  service, or the unavailable target.
* *Agent*: the record of a workload agrees with its container after the last
  command; ports are unique.

## 2. Modules

| module | what it is |
|---|---|
| `Controller` | the service lifecycle: every handler of `ServiceManager` and `SelfHealingManager`, the `Reconciler`, the faults around them, and the properties |
| `Ingress` | `sync_service`: the upstream file, the reload of nginx, the ingress events |
| `Routing` | `Controller` with `Ingress` where its handlers call `_sync_ingress` |
| `Lifecycle` | what the controller promises about its services when nothing cuts a handler short |
| `Refinement` | the mapping of `Controller` to `Lifecycle` and its invariant |
| `NodeRegistry` | the node keys: telemetry loops, heartbeat and snapshot handlers with both caches, marking by the reconciler, with time |
| `NodeStatus` | the nodes of `Controller` as `NodeRegistry` implements them |
| `Scheduler` | `choose_node_least_load` as an operator |
| `Ports` | the port probe of the agents as an operator |
| `Placement` | services that compete for nodes and for host ports: scheduling, port choice, Docker and retries, over `Scheduler` and `Ports` |
| `Agent` | one agent: its records, commands, containers and health loop |
| `EventWatcher` | the thread that turns Docker events into crash reports |
| `ControllerProofs`, `RecoveryProofs`, `QueueProofs`, `RefinementProofs`, `RoutingProofs`, `NodeRegistryProofs`, `PlacementProofs`, `AgentProofs` | theorems, for every value of the constants |
| `MCController`, `MCRouting`, `MCNodeRegistry`, `MCPlacement`, `MCAgent`, `MCEventWatcher` | instances for TLC |

They meet at calls: what `Controller` calls an agent call is a command of
`Agent`; its health and crash reports are what `Agent` and `EventWatcher` send; the
status of its `node` is the status in the `registry` of `NodeRegistry`, whose steps
it abstracts to `Heartbeat`, `StaleSnapshot` and the mark of a round, which
`NodeStatus` states and proves; its
`Schedulable` leaves open what `Scheduler` decides. `Placement` has the agent's view
of ports that `Agent` leaves out, and reduces the controller to what it wants of a
service. `Ingress` has no behaviour of its own: `Routing` drives it.

### Controller

A handler for service `s` is a *job*. `job[s].pc` is the point it has reached,
`todo[s]` the writes it makes before it gets there, in the order of the source
(the operators named `...Plan`). One step makes one write, or one agent call, or
one read that the lock does not protect (`list_nodes`, the lists of a round).
Reads of keys that only the lock holder writes are made in the step that uses
them. `Idle(s)` is the free lock.

| in the code | in the model |
|---|---|
| `service:<id>:desired`, `:observed`, `:placement`, `:pending`, `:restart_counter`, `:generation` | `desired`, `observed`, `placement`, `pending`, `restarts`, `generation` |
| `node:<id>` | `node` (status only; `"unknown"` until the first heartbeat) |
| `_cooldown_until`, `_active_recovery` | `cooldown`, `recovering` |
| `StateStore.acquire_service_lock` and a running handler | `job`, `todo` |
| local variables of `Reconciler.run_once` and of the loops it calls | `round` |
| containers that the agents started | `hosts` |
| `deploy`, `stop`, `restart` | `DeployRequest`, `StopRequest`, `RestartRequest` and the steps they lead to |
| `handle_crash_report`, `handle_health_report` | `CrashReport`, `HealthyReport`, `UnhealthyReport` |
| `handle_node_unreachable` | `ListPlacements`, `Unreachable` |
| `retry_pending_deployment` | `Retry` |
| `try: ... except Exception: agent.stop; raise` | `Guarded`, `StoreFails`, `UndoReply` |
| `finally: _release_recovery` | `Leave` |
| the logged exception of `run_forever` | `Raised`, `RoundFails` |

Abstractions: the health field and the event and recovery logs are left out, as
the controller never reads them; the scheduler may choose any healthy node or
none, because the resource snapshots are left open; the SET and the SADD of a
setter are one write; `_sync_ingress` is the point at which a handler returns
(`Routing` puts the synchronisation there).
The branches for a placement or a target on a node that is not registered are
in the model and never taken (`PlacementNodeKnown`): nodes are never deleted.

### NodeRegistry

Every update of a node key is a GET and a SET without a lock, so the two are
separate steps, and so is the SADD after the SET of a heartbeat. A post of an
agent is a record in `calls` that carries what its handler has read; the round
of the reconciler is one, too (`round`).

| in the code | in the model |
|---|---|
| `node:<id>`, the set `nodes` | `registry`, `members` |
| `_node_last_written`, `_node_last_snapshot` | `lastWritten`, `lastSnapshot` |
| `_heartbeat_loop`, `_resource_snapshot_loop`, `_last_sent_snapshot` | `Beat`, `Sample`, `sent`, `beatDue`, `sampleIn` |
| `upsert_node_heartbeat` | `HeartbeatReads`, `HeartbeatWrites`, `HeartbeatNoted` |
| `upsert_node_snapshot` | `SnapshotReads`, `SnapshotWrites` |
| `run_once`, `mark_node_unavailable` | `ListNodes`, `MarkReads`, `MarkWrites`, `Evacuated`, `ListPending`, `RoundEnd` |
| the swallowed error of `_post`, death of agent and controller, a Redis error | `Partition`, `AgentStops`, `ControllerFails`, `StoreFails`, `RoundFails` |

A timestamp is modelled by its age: `Tick` makes everything one tick older, up
to `MaxAge`, where the code cannot tell ages apart any more. A tick is one
heartbeat interval; `Tick` waits for the loops that are due and for posts older
than `MaxDelay`. Left out: addresses and URLs, which a heartbeat copies; CPU and
memory are one number, as the code treats them alike; agents and controller have
one clock; an agent that restarts takes at least a tick; evacuations and retries, which
may take any time, are a point of the round that it leaves when it may.

`NodeStatus` maps this to the nodes of `Controller`: `Status` is its `node`, and
`NodesRound` its round, in which a mark is one step, the SET. The INSTANCE has no
services, because the handlers of services read the status of nodes and never write it.
A heartbeat that is written is `Heartbeat`; a handler that writes back an older record
is `StaleSnapshot` or, if the status stays, a stutter; caches, SADD, time and posts
are stutters.

### Agent

A command is a record in `commands` that carries the workload record it has
read, from the request to the write of the record; `health` holds the local
variables of `health_check_all`. A step is what happens between two awaits. Docker
calls run in threads: their effect on the container and the write of the record
are separate steps.

| in the code | in the model |
|---|---|
| `AgentLocalState.workloads` | `record` (status, container id, `container_ip`) |
| the containers with the labels of this agent | `container` (id and address; no address when it is down) |
| `deploy`, `stop`, `restart` and the adapter's `_deploy_sync`, `_stop_sync`, `_restart_sync` | `Reads`, `DeployInspects`, `DeployRuns`, `StopRuns`, `RestartRuns`, `Saves` |
| `health_check_all`, `_resolve_internal_health_url`, `_check_workload_health` | `HealthLists`, `HealthVisits`, `HealthFindsAddress`, `HealthChecks`, `HealthSaves`, `HealthReports` |
| a request the controller gave up; an agent process that dies; a Docker call that fails; a container that exits | `TimesOut`, `AgentRestarts`, `DockerFails` and `HealthDies`, `Exits` |

Left out: published ports, the counter of failed checks (the controller counts
on its own), timestamps, and name collisions with containers of others. A Docker
call that fails is taken to have failed before it started or stopped anything.
Docker gives a container any free address when it starts.

### Scheduler, Ports and Placement

`Scheduler` and `Ports` are pure: `ChooseNodeLeastLoad` with its filters and its key of
load, memory and id, and `NextPort`, the first free port of a cyclic probe that starts
at the checksum of the service id. Utilizations are numbers up to `Full`, ids have a
`Rank`.

`Placement` is a command of the controller from the choice of a node to the agent's
reply.

| in the code | in the model |
|---|---|
| the scheduling of a deployment, a retry, a recovery elsewhere | `Schedules`, `Evacuates` |
| `_ensure_published_port`; `container.status`, `_published_port`, `run` of `_deploy_sync`; `upsert_workload` | `Chooses`, `Runs`, `Saves` |
| a deployment answered with an error, retried by the reconciler | `Refused`, `wanted = "queued"` |
| `stop`, `restart` | `Stops`, `Restarts` |
| `WorkloadRecord.published_port`, `status` | `record` |
| containers and their port bindings, in Docker | `container` |
| a container that exits, also before it is inspected; an agent that restarts | `Exits`, `Runs` with `"early"`, `AgentRestarts` |

The resource snapshots may be anything whenever a node is chosen (`States`), so that
the choice depends on no history. A service has one command under way at a time.

### Ingress and Routing

| in the code | in the model |
|---|---|
| the upstream file; what nginx has loaded | `upstream`, `nginx` |
| `_resolve_target` with its twenty reads of the agent | `Decisions` |
| `sync_service`: write, reload, event | `Resolves`, `ReloadSucceeds`, `ReloadFails`, `Records` |
| nginx starts or dies | `NginxStarts`, `NginxDies` |
| `_sync_ingress` of both managers | `Syncing`, `Sync` |

A target is known by its node. Routing concerns the one service that
`ingress_active_service_id` names; for every other service `sync_service` returns at
once. Left out: an ingress or a reload that the settings disable, and the text of the
file. Redis and the controller do not fail in `Routing`: between the write of the file
and the reload a crash would leave nginx with the old target until the next change.

### Lifecycle and Refinement

`Lifecycle` has four variables per service, `desired`, `status`, `placement` and
`queued`, and ten kinds of step: a deployment begins, fails or succeeds, a service is
moved, restarted, revived by a report, given up or stopped. In `Controller` each of
them takes an agent call and up to six writes, with awaits in between that let every
other handler run. `Refinement` maps a state of `Controller` to the record *after the
writes that the handler still has to make* (`After`): the abstract step happens when
the handler has decided, which is when the call it awaited returns, and every write
after it is a stutter. It holds without store faults and crashes, which cut handlers
short; `Controller` itself says what survives those.

### EventWatcher

The stream of `client.events` (`events`, `StreamBreaks`, `Reconnects` in `run`),
`_handle_event` in the watching thread (`Handles`) with `_cooldown` (`cooling`,
`CoolsDown`), and the tasks of the event loop that post reports (`tasks`, `Sends`).
A stop is announced like a crash.

## 3. Runs

| run | question | faults | bounds |
|---|---|---|---|
| `faults` | what does every await point keep, and does every handler come to its end, whatever fails? | Redis calls, process death | 1 service, 2 nodes, restart budget 1, 1 generation |
| `quiet` | are handlers atomic to an observer, do the records agree with each other, with the containers and with the upstream file between handlers, does nginx follow the file? | agent errors and timeouts, unreadable agents, reloads, nginx | 1 service, 2 nodes, budget 1, 1 generation |
| `live` | are locks released, do rounds end, are queued services retried? | agent errors, Redis calls, process death | 1 service, 1 node, budget 1, clock 0..1 |
| `stranded` | is a failed node left? (it is not) | a node that fails for good | 1 service, 2 nodes |
| `placement` | are ports on record, and routes to published ones, when deployments compete? | exits, early exits, agent restarts | 2 services, 2 nodes with 2 ports each, one explicit port, 3 states of a node |
| `registry_store` | is a node whose heartbeats are skipped listed, can overlapping updates make a live node look silent, does a node behave as `Controller` has it? | Redis calls, process death | 1 node, 1 load, timeout 6, ages to 8, posts last up to 1 tick |
| `registry_live` | do nodes come back, and are dead ones given up, for good? | partitions, agent restarts | 1 node, 2 loads, timeout 4, ages to 5 |
| `registry_skipped` | is the heartbeat of an unavailable node written? (it is not) | partitions | 1 node |
| `registry_idle` | does a live node become a candidate? (it need not) | none | 1 node |
| `agent` | do records and containers agree, and is a dead container noticed? | exits, early exits, Docker errors, timeouts, agent restarts | 1 service, 2 containers, 1 address, 2 commands at a time |
| `agent_stopped` | is an "already running" container running? (it need not be) | none | 1 service |
| `watcher` | is a crash reported? (it is not) | none | 2 services |

Why the bounds are enough: handlers of different services share nothing but the
node keys and the round, and the round handles its services one after the
other, so one service exercises every handler against every other one that can
run on the same service. Two nodes give every handler a node to move to or none.
A budget of 1 makes in-place restarts, exhausted budgets and reschedules
happen. The first generation makes reports and rounds from before and after a
restart coexist. The clock only has to tell *in grace* from *after grace* and *in
cooldown* from *after*; `faults` and `quiet` need no time for what they ask. One node
is enough in `live`, where a handler has to come to its end whether it finds a node or
not. `MaxTime`, `MaxGeneration` and `MaxRestartCount` are the three bounds; each stops
reports or rounds and nothing that is under way. Deadlock is checked in every run.
In `faults` the cooldown is zero, which only lets more reports through.
The largest runs are `faults` (2.1 million states), `agent` (2.0) and `quiet` (1.5).

In `NodeRegistry` nodes share nothing but the list of a round, so the questions are
about one. Ages run to just above the largest delay the code compares with. In
`Agent` services share nothing but the health loop and the addresses of the
network (see `DeadIsNoticed` for those); two containers let one replace another
while a record of the first is written back; two commands at a time let one
overtake another. `MaxId` and `MaxCommands` only stop new requests. In `Placement` two
services on the same node compete for a port, two ports let one be free or the range be
exhausted, the second node lets a service leave its container behind, and the three
states of a node are those that the two services tell apart.

Fairness (`Fairness` in `Controller`): every step of a running handler is
weakly fair, because asyncio runs ready tasks and every agent and Redis call
returns or times out; the reconciler's own steps are weakly fair, because
`run_forever` starts a round at every interval; the two steps that take a lock
for the reconciler are strongly fair, because `asyncio.Lock` wakes its waiters
in order, however many reports arrive. Requests, reports, heartbeats, faults
and the clock have no fairness. In `NodeRegistry` the loops, the handlers and the
round are weakly fair for the same reasons, and `Tick` is strongly fair: time
passes whatever faults come and go. In `Agent` the commands of each service and
the health loop are weakly fair: every Docker call and every health check ends or
fails; in `EventWatcher` the thread, the tasks and the backoff.

What the runs show, property by property, is said in the comment above each
property. In short: no failed write and no crash makes a running service lose
its placement, loses a service that self-healing gave up on, breaks the restart
budget or leaks a recovery slot; late reports do not revive a stopped service;
without store failures and crashes a service that is down stays queued, and a
service shown as running has its container where it is placed. Locks are released
and rounds end even if Redis calls fail; a queued deployment is retried unless
they cut rounds short again and again. Without store failures and crashes a handler
is one step to an observer (`ImplementsLifecycle`). Between handlers the upstream file
names the node the service runs on, and if nginx has another target loaded, a failed
reload is on record. The port on an agent's record is the one its container is
published on, and until something exits too early or an agent restarts, the agent
knows every port that Docker would refuse.

`SteadyIsNotSilent` is about a configuration, `Timely`: with
`Lag == Gap + 2 * MaxDelay`, where `Gap` is the write threshold and at least 1, timeout
plus grace are at least `2 * Lag` heartbeat intervals and the snapshot interval is above
`Lag`. One `Lag` is lost to the write cache and to posts under way, another one to a
snapshot handler that overwrites what was written meanwhile; the next sample comes only
after the record has recovered. `registry_store` takes the least such values, and with
a load threshold of zero, so that every sample is sent: with a timeout of one tick less
TLC finds a live node marked. The defaults in ticks of the agents' 3 s (threshold 10 s,
snapshots every 15 s, timeout 30 s plus 15 s: `Gap` 4, snapshot interval 5, timeout 15)
are `Timely` if posts are handled within the interval they are sent in. If they may last
into the next one, `Lag` is 6, samples may overwrite heartbeats one after another, and
TLC finds a live node marked with these settings, and with a longer timeout (23) too:
then the snapshot interval is what has to grow. `registry_live` says that
neither the caches nor stale writes keep a node from coming back or from being given
up, if posts do not last a tick.

In `agent` commands overlap once one has timed out, and the agent may restart. Until
the first of the two happens (`Serial`) a running container is watched and a stopped
one is down, although the health loop writes back records it read before: what the loop
can break is the status of a stopped workload. A container that stays down is reported
in every round whatever has happened, with the exceptions that `DeadIsNoticed` names.

**Findings.**

* `stranded`. The placements of a silent node are listed once, right after the node
  is marked unavailable. A deployment whose agent call is in flight at that moment
  records its placement later, and as the reconciler skips nodes that are not
  healthy, no later round looks at it: the service stays shown as running on the
  failed node. `docs/runtime-smoke-test.md:97` expects "workloads from failed node
  become pending/rescheduled according to policy".
* `registry_skipped`. A heartbeat that comes soon after the last one that was
  written is skipped before the status of the node is read; the exception "Always
  write if node was unavailable" (`state_store.py:154`) is never reached.
* `registry_idle`. The snapshot loop remembers a snapshot as sent although it was
  refused because the first heartbeat had not been handled; an idle node then has
  no snapshot for good, and the scheduler never chooses it.
* `agent_stopped`. The health loop overwrites the record of a workload stopped
  meanwhile with "running"; the next deployment is answered with
  "already_running" and starts nothing.
* `watcher`. The watcher asks for an event loop in a thread that has none,
  takes the error for a shutdown, and never sends a crash report. With a loop there
  (`LoopInWatcherThread == TRUE`) the property holds. The crash reports of
  `Controller` are those the API accepts.

**Limits.** Some cases show up as exceptions that a property names, or as a property
that is not claimed because it does not hold:

* After a restart of the agent a stop is answered with "stopped" though the container
  runs (`StoppedIsDown`). A container that exits before its address is read is never
  checked, and one whose address was given to another may pass its checks
  (`DeadIsNoticed`).
* After a restart of the agent no port is on record, and a container that exits before
  it is inspected is recorded without one; in both cases the probe may stop at a held
  port at every retry (`HeldPortIsRecorded`). As nothing else depends on the attempt,
  a retry may choose the node that refused the last one again.
* Records are never removed (`remove_workload` has no caller), so that services that
  are stopped or moved away keep their ports reserved.
* A synchronisation that cannot read the agent of the new node keeps the old target,
  and nothing tries it again (`unread` in `FileIsTrue`).
* A cleared target is never loaded: nginx refuses a file without a server and goes on
  with the old one (`DivergenceIsRecorded`). `ingress_unavailable_target` occurs in the
  text of an event only.
* A healthy report shows a service as running whose target was cleared, and the ingress
  does not route to it until its next change (the converse of `FileIsTrue`).
* An evacuation goes by the list its round has read: it may bring back a service that
  was stopped meanwhile, which is then shown as running and desired stopped, or "move"
  one to the node it is on (`Moved` in `Lifecycle`).
* A failed stop on the agent is swallowed and the service is recorded as stopped
  (`service_manager.py:159`; `hosts` in `StopReply`). `RunningIsServed` is about running
  services only.
* Agents send no generation with their reports (`self_healing.py:67`), so that the guard
  against late reports is never used; `NoGen` is one of the reports of `Controller`.
* A manual restart sets no grace period (`service_manager.py:198`): the death that it
  announces counts as a crash and takes one restart of the budget.
* The SET and the SADD of a placement are two commands (`state_store.py:276`), and a mark
  comes before its evacuation (`reconciler.py:43`): a crash between them leaves a service
  that no later round finds. The first is one write here, the second is what `stranded`
  reaches without a crash.
* The age of a heartbeat is the agent's clock against the controller's (`api.py:129`);
  there is one clock here.

## 4. Proofs

Every theorem holds for any sets of services, nodes, ports, addresses and loads and any
values of the settings and the bounds that meet the named assumptions of the modules
(`ConstantsAssumption`, `RoutingAssumption`, `RegistryAssumption`,
`SchedulerAssumption`, `PortsAssumption`, `PlacementAssumption`, `AgentAssumption`,
`NoneAssumption`). Unless said otherwise it holds with all faults. Each inductive
invariant is also an invariant of a run, by itself or as a conjunct of `ControllerInv`
(`ControllerInvariant`) or `NodesInv`, so that TLC has seen it hold where its premises
do occur.

| module | theorems | inductive invariant |
|---|---|---|
| `ControllerProofs` | `TypeCorrect`, `RunningServicesArePlaced`, `RoundsAwaitHandlers`, and of steps `HandlersAndRoundsEnd` | `PlacedInv` (`Invariant`), `ProgressInv` (`ProgressInvariant`) |
| `RecoveryProofs` | `RestartsStayInBudget`, `RecoverySlotsAreReleased`, `PlacementsNameKnownNodes`, `RestartsReachTheInstance`, and of steps `PlacementsFollowContainers`, `StoppedStaysStopped` | `RecoveryInv` (`RecoveryInvariant`) |
| `QueueProofs` | `FailedServicesAreRecoverable` | `QueueInv` (`QueueInvariant`); all four of the handlers, `ControllerInv` (`ControllerInvariant`) |
| `RefinementProofs` | `ControllerImplementsLifecycle`, `DownServicesAreQueued`, `RunningServicesAreServed`, `ShownNodesAreTrue`, for `Faults \subseteq {"timeout"}` | `RefinementInv` (`RefinementInvariant`) |
| `RoutingProofs` | `RoutingRefinesController`, `TheFileIsTrue`, `DivergencesAreRecorded` | `RoutingInv` (`RoutingInvariant`) |
| `NodeRegistryProofs` | `RegistryTypeCorrect`, `SkippedNodesAreListed`; of steps `SteadyNodesAreNotSilent`, for `Timely` settings; `RegistryImplementsController` | `ListedInv` (`RegistryInvariant`), `SteadyInv` (`SteadyInvariant`), with it and `StatusInv`, `NodesInv` (`NodesInvariant`) |
| `PlacementProofs` | `LeastLoadIsChosen`, `FreePortIsFound`; `PlacementTypeCorrect`, `RoutesToPublishedPort`, `AgentKnowsHeldPorts` | `PlacementInv` (`PlacementInvariant`) |
| `AgentProofs` | `AgentTypeCorrect`, `RunningContainersAreWatched`, and of steps `StoppedContainersAreDown` | `AgentInv` (`AgentInvariant`) |

**Running services are placed** (`ControllerProofs`). `RunningIsPlaced` is not
inductive: whether the next write breaks it depends on the writes still to be made.
`PlacedInv` adds `JobSafe`, which says of the plan under way that it never shows the
service as running unless there is a placement or it sets one first, and that it clears
the placement only of a service that is not running or that it has shown as down
before. The proof has three layers, and those of the next modules follow it: every
concrete plan is well typed and safe (lemmas `...PlanTypes`, `...AreSafe`); performing
the first write of a safe plan keeps the service placed and the rest of the plan safe
(`PerformSafe`); every action installs a safe plan or performs a write (one lemma per
action, over `Started`, `Continued`, `Emptied`).

**Handlers and rounds end** (`ControllerProofs`). `StepsLeft` counts the writes and calls
that a handler can still make before it returns, at most 11, and `StepsRunOut` says that
whatever step changes a handler's state lowers its count.
A round goes down a lexicographic order: nodes left to mark, the mark not followed up
yet, items of the list, the handler awaited. That no step of a round leaves all four
unchanged needs `RoundAwaits`: the handler a round waits for is under way and was
started by the round, so that it is the round's turn when it returns. Requests and
reports for other services cannot prolong either. This is the part of `LockReleased`
and `RoundsEnd` that can be proved; that each step is eventually taken is fairness, and
is left to TLC.

**Recoveries** (`RecoveryProofs`). The budget is checked when a recovery starts, and
the counter is written an await later, by a write that may fail. `RecoveryInv` says of
the writes of every plan that they fit the state they will be made in (`Fits`: the
counter is reset or raised by one, a placement is a known node that has the container,
a stopped service is not made wanted), and of every job that what it found out still
holds (`JobFits`: a restart in place leaves room in the budget and goes to the node of
the placement, a recovery slot is taken only while its handler runs, the node of a
deployment is known and not the one to be left). The action properties follow from it:
a placement is set only where a container has been started, and a stopped service is
taken up again only by a deployment.

**Nothing is lost** (`QueueProofs`). After every prefix of the writes still to be made,
a service that is shown as failed is in the retry queue or still placed
(`Recoverable`). This takes the right order in each plan, and one fact about a
different handler: a retry drops the queue entry of a service that nobody wants, so a
service that is being given up must be wanted (`GivesUp`).

**Handlers are atomic to an observer** (`RefinementProofs`). `Refinement` maps each key
to its value after the plan under way. A write of the plan leaves that unchanged, since
a plan sets each key at most once (`SetsOnce`), so only the steps that install a plan
have to be mapped to a step of `Lifecycle`, one lemma for each. `Consistent` is what
the steps of `Lifecycle` need to be enabled: what the records and the containers say
while a deployment or a recovery is undecided. The assumption on `Faults` is
needed, as a crash drops a plan half written. What holds between handlers is then read
off `RefinementInv`, because an idle service has an empty plan.

**The ingress** (`RoutingProofs`). Every step of `Routing` is a step of `Controller` or
leaves its variables alone (`RoutingRefinesController`), so that the theorems about
`Controller` hold of `Routing`; they are used in the proof that only a handler that
goes on to synchronise moves the active service or shows it as down.

**The registry** (`NodeRegistryProofs`). A node whose heartbeats the cache skips must be
registered and listed, or it would stay out of the reconciler's sight until the cache
expires. To see that a step keeps this, one has to know that a handler about to write
the cache has written the key, and that no handler writes back a record that did not
exist (`UpdatesHaveRecords`); with the types the two make `ListedInv`.

That a live node is not taken for silent is a fact about how old its record may be. The
age has two bounds, and `SteadyInv` says that one of them applies to every healthy node.
A record is `Fresh` if a heartbeat wrote it: then a later heartbeat is either under way
or so close to it that the cache was right to skip it. It is `Overwritten` if the last
snapshot handler wrote back what it had read before a heartbeat: then the cache may hide
heartbeats from that time, those sent before the sample do count, and the record it
wrote back was `Fresh` when it was read. As the snapshot interval is above `Lag`, the
record is `Fresh` again before the next sample is taken (`SeenIsRecent`), so overwriting
does not accumulate, and the age stays within `2 * Lag`.

`RegistryImplementsController` has a lemma for each action: it is a step of `Controller`
or leaves `Status` and `NodesRound` alone. `StatusInv` is what a node that is written
back or visited needs: a handler that has read a record finds one there, so that no SET
brings a status where the mapping has `"unknown"`.

**Scheduling and ports** (`PlacementProofs`). The first two theorems are about the
operators alone. The chosen node is eligible and before every other eligible one: the
order is strict and total, and a finite set of candidates has a least one, by the
well-foundedness of inclusion on the candidates before each. The probe reaches every
port of its range, because the offsets of a cyclic probe cover the residues. With these,
`PlacementInv` relates every call under way, record and container.

**The agent** (`AgentProofs`). A record agrees with its container only when no command
is under way, so `AgentInv` speaks of what a command is about to write (`SavesTrue`),
of there being one command at a time (`OneAtATime`), and of the loop, whose entries
were not stopped when it read them (`LoopOK`). The type theorem needs to count the
deployments that may still take a container id (`Bounded`), by lemmas on cardinalities.

**Model-checked only**: liveness (fairness is out of the prover's reach; of what
`LockReleased` and `RoundsEnd` rest on, `StepsRunOut` is proved) and the properties that
do not hold. That `Timely` cannot be relaxed is TLC's finding, too. Liveness is checked
for `Controller` alone, as its composition with the ingress is too large for it.

## 5. Plan

1. `Controller`, its runs and theorems: done, with `Lifecycle` as what it implements.
2. `NodeRegistry`, its runs and theorems, with `NodeStatus`: done.
3. `Agent`, `EventWatcher`, their runs, theorems about `Agent`: done. Left: the
   composition of `Agent` with `Controller`, where a planned stop is announced as a
   death.
4. `Scheduler` and `Ports`, with `Placement` to use both, and theorems: done.
5. `Ingress` and `Routing`, with theorems: done.

## 6. Not modelled

* Docker, its SDK, nginx and Redis are external: their effects are modelled as the code
  uses them.
* The event and recovery logs, the health field and the GET endpoints: no handler reads
  them to decide anything.
* Sampling of `/proc`, logging, parsing of settings and requests, HTTP status codes,
  connection pools, the text of addresses and files.
* The sample application, the legacy shims (re-exports), compose files and scripts: no
  orchestration state.

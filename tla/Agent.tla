-------------------------------- MODULE Agent --------------------------------
(***************************************************************************)
(* One agent: the workload records of AgentWorkloadManager, the containers *)
(* that DockerSdkAdapter starts and stops, and the health loop of the      *)
(* telemetry service.                                                      *)
(*                                                                         *)
(* A command reads the record of its service, calls Docker in a thread and *)
(* writes the record back; the health loop reads all records, checks one   *)
(* container after the other and writes each record back.  Nothing but the *)
(* controller keeps two of them apart, and the controller stops waiting    *)
(* for a command after a time, while the agent goes on with it.            *)
(***************************************************************************)
EXTENDS Naturals, FiniteSets

CONSTANTS
    Services,
    NoRecord,     \* the agent has no record of the service
    Addresses,    \* the addresses of the Docker network
    NoAddress,    \* of a container that does not run; not known to the agent
    MaxId,        \* bound: how many containers a service may have had
    MaxCommands,  \* bound: how many commands for a service may be under way
    Faults        \* which faults happen: see the actions

ASSUME AgentAssumption ==
    /\ MaxId \in Nat \ {0} /\ MaxCommands \in Nat \ {0}
    /\ Faults \subseteq {"exit", "early", "docker", "timeout", "agent"}

VARIABLES
    record,     \* AgentLocalState.workloads
    container,  \* the container of each service on this node, in Docker
    lastId,     \* the last container id given to a service
    commands,   \* deploy, stop and restart, from the request to the reply
    health,     \* health_check_all: what it has still to visit, and its reports
    happened    \* history: the faults so far that some properties do without

vars == <<record, container, lastId, commands, health, happened>>

Id      == 0..MaxId
Address == Addresses \cup {NoAddress}

\* A container has an address while it runs, and may get another one when it
\* is started again.
Container   == [id: Id, address: Address]
NoContainer == [id |-> 0, address |-> NoAddress]
Up(s)       == container[s].address # NoAddress
Free        == Addresses \ {container[s].address : s \in Services}

\* address is container_ip.
WorkloadRecord == [status: {"running", "stopped", "unhealthy"}, id: Id, address: Address]
Records        == WorkloadRecord \cup {NoRecord}

ASSUME NoneAssumption == NoRecord \notin WorkloadRecord /\ NoAddress \notin Addresses

\* A command is at "read" before get_workload, at "inspect" before the
\* adapter's inspect, at "run" before the adapter's deploy, stop or restart,
\* and at "save" before upsert_workload.
Command == [service: Services, slot: 1..MaxCommands, op: {"deploy", "stop", "restart"},
            at: {"read", "inspect", "run", "save"}, seen: Records, awaited: BOOLEAN]

Visit  == [service: Services, seen: WorkloadRecord]
Report == [service: Services, healthy: BOOLEAN]

\* The health loop is at "visit" before it takes the next record of its list,
\* at "address" before it writes an address it had to look up, at "check"
\* before the HTTP request and at "save" before upsert_workload.
Health == [at: {"idle", "visit", "address", "check", "save", "dead"}, todo: SUBSET Visit,
           now: SUBSET Visit, healthy: BOOLEAN, reports: SUBSET Report]
Resting == [at |-> "idle", todo |-> {}, now |-> {}, healthy |-> FALSE, reports |-> {}]

Init ==
    /\ record = [s \in Services |-> NoRecord]
    /\ container = [s \in Services |-> NoContainer]
    /\ lastId = [s \in Services |-> 0]
    /\ commands = {}
    /\ health = Resting
    /\ happened = {}

-----------------------------------------------------------------------------
(* Commands.                                                               *)

Under(s) == {c \in commands : c.service = s}

\* Mutant: the lock is not kept while a command is under way.
SendOverlaps(s, op) ==
    /\ op = "deploy" =>
          lastId[s] + Cardinality({c \in Under(s) : c.op = "deploy"}) < MaxId
    /\ \E slot \in (1..MaxCommands) \ {c.slot : c \in Under(s)} :
          commands' = commands \cup
             {[service |-> s, slot |-> slot, op |-> op, at |-> "read",
               seen |-> NoRecord, awaited |-> TRUE]}
    /\ UNCHANGED <<record, container, lastId, health, happened>>

\* The controller sends one command at a time, unless one has timed out.
Send(s, op) ==
    /\ \A c \in Under(s) : ~c.awaited
    /\ op = "deploy" =>
          lastId[s] + Cardinality({c \in Under(s) : c.op = "deploy"}) < MaxId
    /\ \E slot \in (1..MaxCommands) \ {c.slot : c \in Under(s)} :
          commands' = commands \cup
             {[service |-> s, slot |-> slot, op |-> op, at |-> "read",
               seen |-> NoRecord, awaited |-> TRUE]}
    /\ UNCHANGED <<record, container, lastId, health, happened>>

Ends(c)        == commands' = commands \ {c}
Forwards(c, d) == commands' = (commands \ {c}) \cup {d}

\* Mutant: a workload that is not recorded as running needs no stop.
ReadsStopsOnlyRunning(c) ==
    /\ c.at = "read"
    /\ IF \/ c.op # "deploy" /\ record[c.service] = NoRecord
          \/ c.op = "stop" /\ record[c.service].status # "running"
       THEN Ends(c)
       ELSE Forwards(c, [c EXCEPT !.seen = record[c.service],
                                  !.at = IF c.op = "deploy" THEN "inspect" ELSE "run"])
    /\ UNCHANGED <<record, container, lastId, health, happened>>

\* get_workload.  Without a record a stop is answered at once, and so is a
\* restart, with an error.
Reads(c) ==
    /\ c.at = "read"
    /\ IF c.op # "deploy" /\ record[c.service] = NoRecord
       THEN Ends(c)
       ELSE Forwards(c, [c EXCEPT !.seen = record[c.service],
                                  !.at = IF c.op = "deploy" THEN "inspect" ELSE "run"])
    /\ UNCHANGED <<record, container, lastId, health, happened>>

\* The record says running and names the container that inspect finds,
\* which also finds containers that have exited.
AlreadyRunning(c) ==
    /\ c.seen # NoRecord
    /\ c.seen.status = "running"
    /\ container[c.service].id # 0
    /\ c.seen.id = container[c.service].id

DeployInspects(c) ==
    /\ c.op = "deploy" /\ c.at = "inspect"
    /\ IF AlreadyRunning(c) THEN Ends(c) ELSE Forwards(c, [c EXCEPT !.at = "run"])
    /\ UNCHANGED <<record, container, lastId, health, happened>>

\* _deploy_sync: a running container is kept, another one is removed and a
\* new one started.  The new one may exit before its address is read.
DeployRuns(c) ==
    /\ c.op = "deploy" /\ c.at = "run"
    /\ LET s == c.service
       IN  IF Up(s)
           THEN UNCHANGED <<container, lastId>>
           ELSE \E a \in Free \cup {b \in {NoAddress} : "early" \in Faults} :
                /\ lastId' = [lastId EXCEPT ![s] = @ + 1]
                /\ container' = [container EXCEPT ![s] = [id |-> lastId'[s], address |-> a]]
    /\ Forwards(c, [c EXCEPT !.at = "save",
            !.seen = [status  |-> "running",
                      id      |-> container'[c.service].id,
                      address |-> container'[c.service].address]])
    /\ happened' = happened \cup {f \in {"early"} : container'[c.service].address = NoAddress}
    /\ UNCHANGED <<record, health>>

StopRuns(c) ==
    /\ c.op = "stop" /\ c.at = "run"
    /\ container' = [container EXCEPT ![c.service].address = NoAddress]
    /\ Forwards(c, [c EXCEPT !.at = "save", !.seen.status = "stopped"])
    /\ UNCHANGED <<record, lastId, health, happened>>

\* Mutant: the restart does not set the status.
RestartRunsKeepsStatus(c) ==
    /\ c.op = "restart" /\ c.at = "run"
    /\ IF container[c.service].id = 0
       THEN Ends(c) /\ UNCHANGED container
       ELSE /\ \E a \in Free \cup ({container[c.service].address} \ {NoAddress}) :
                  container' = [container EXCEPT ![c.service].address = a]
            /\ Forwards(c, [c EXCEPT !.at = "save"])
    /\ UNCHANGED <<record, lastId, health, happened>>

RestartRuns(c) ==
    /\ c.op = "restart" /\ c.at = "run"
    /\ IF container[c.service].id = 0
       THEN Ends(c) /\ UNCHANGED container
       ELSE /\ \E a \in Free \cup ({container[c.service].address} \ {NoAddress}) :
                  container' = [container EXCEPT ![c.service].address = a]
            /\ Forwards(c, [c EXCEPT !.at = "save", !.seen.status = "running"])
    /\ UNCHANGED <<record, lastId, health, happened>>

\* upsert_workload and the reply.
Saves(c) ==
    /\ c.at = "save"
    /\ record' = [record EXCEPT ![c.service] = c.seen]
    /\ Ends(c)
    /\ UNCHANGED <<container, lastId, health, happened>>

CommandStep(c) ==
    Reads(c) \/ DeployInspects(c) \/ DeployRuns(c) \/ StopRuns(c) \/ RestartRuns(c) \/ Saves(c)

-----------------------------------------------------------------------------
(* The health loop.                                                        *)

At(point) == health.at = point

\* list_workloads.
HealthLists ==
    /\ At("idle")
    /\ health' = [Resting EXCEPT !.at = "visit",
            !.todo = {[service |-> s, seen |-> record[s]] : s \in {t \in Services : record[t] # NoRecord}}]
    /\ UNCHANGED <<record, container, lastId, commands, happened>>

Inspected(v) == [v EXCEPT !.seen.address = container[v.service].address]

\* Mutant: only workloads that are recorded as running are checked.
HealthVisitsRunning(v) ==
    /\ At("visit") /\ v \in health.todo
    /\ health' = [health EXCEPT
            !.todo = @ \ {v},
            !.now = {IF v.seen.address = NoAddress THEN Inspected(v) ELSE v},
            !.at = IF v.seen.status # "running" THEN "visit"
                   ELSE IF v.seen.address # NoAddress THEN "check"
                   ELSE IF Up(v.service) THEN "address"
                   ELSE "visit"]
    /\ UNCHANGED <<record, container, lastId, commands, happened>>

\* The next record of the list.  A stopped one is skipped; so is one whose
\* address is unknown and cannot be found, as a container that is down has none.
HealthVisits(v) ==
    /\ At("visit") /\ v \in health.todo
    /\ health' = [health EXCEPT
            !.todo = @ \ {v},
            !.now = {IF v.seen.address = NoAddress THEN Inspected(v) ELSE v},
            !.at = IF v.seen.status = "stopped" THEN "visit"
                   ELSE IF v.seen.address # NoAddress THEN "check"
                   ELSE IF Up(v.service) THEN "address"
                   ELSE "visit"]
    /\ UNCHANGED <<record, container, lastId, commands, happened>>

HealthFindsAddress(v) ==
    /\ At("address") /\ v \in health.now
    /\ record' = [record EXCEPT ![v.service] = v.seen]
    /\ health' = [health EXCEPT !.at = "check"]
    /\ UNCHANGED <<container, lastId, commands, happened>>

\* _check_workload_health.  Whatever container has the address now answers,
\* well or badly; nothing answers if none has it.
Answers(a) == \E s \in Services : container[s].address = a

HealthChecks(v) ==
    /\ At("check") /\ v \in health.now
    /\ \E ok \in BOOLEAN :
        /\ ok => Answers(v.seen.address)
        /\ health' = [health EXCEPT !.at = "save", !.healthy = ok]
    /\ UNCHANGED <<record, container, lastId, commands, happened>>

\* Mutant: the outcome of the check is stored as the status.
HealthSavesOutcome(v) ==
    /\ At("save") /\ v \in health.now
    /\ record' = [record EXCEPT ![v.service] =
            [v.seen EXCEPT !.status = IF health.healthy THEN "healthy" ELSE "unhealthy"]]
    /\ health' = [health EXCEPT !.at = "visit",
            !.reports = @ \cup {[service |-> v.service, healthy |-> health.healthy]}]
    /\ UNCHANGED <<container, lastId, commands, happened>>

HealthSaves(v) ==
    /\ At("save") /\ v \in health.now
    /\ record' = [record EXCEPT ![v.service] =
            [v.seen EXCEPT !.status = IF health.healthy THEN "running" ELSE "unhealthy"]]
    /\ health' = [health EXCEPT !.at = "visit",
            !.reports = @ \cup {[service |-> v.service, healthy |-> health.healthy]}]
    /\ UNCHANGED <<container, lastId, commands, happened>>

\* The loop is through its list and posts its reports.
HealthReports ==
    /\ At("visit") /\ health.todo = {}
    /\ health' = Resting
    /\ UNCHANGED <<record, container, lastId, commands, happened>>

HealthStep ==
    \/ HealthLists \/ HealthReports
    \/ \E v \in health.todo : HealthVisits(v)
    \/ \E v \in health.now : HealthFindsAddress(v) \/ HealthChecks(v) \/ HealthSaves(v)

-----------------------------------------------------------------------------
(* Faults.                                                                 *)

\* A container exits by itself.
Exits(s) ==
    /\ "exit" \in Faults
    /\ Up(s)
    /\ container' = [container EXCEPT ![s].address = NoAddress]
    /\ UNCHANGED <<record, lastId, commands, health, happened>>

\* A Docker call of a command fails, before it started or stopped anything.
\* A deployment may have removed the old container by then, and may leave a
\* new one that did not start.
DockerFails(c) ==
    /\ "docker" \in Faults
    /\ c.at \in {"inspect", "run"}
    /\ Ends(c)
    /\ LET s == c.service
       IN  \/ UNCHANGED <<container, lastId>>
           \/ /\ c.op = "deploy" /\ c.at = "run" /\ ~Up(s)
              /\ \/ /\ container' = [container EXCEPT ![s] = NoContainer]
                    /\ UNCHANGED lastId
                 \/ /\ lastId' = [lastId EXCEPT ![s] = @ + 1]
                    /\ container' = [container EXCEPT ![s] = [NoContainer EXCEPT !.id = lastId'[s]]]
    /\ UNCHANGED <<record, health, happened>>

\* So does the inspect of the health loop: nothing catches the exception, and
\* the loop has ended.
HealthDies ==
    /\ "docker" \in Faults
    /\ At("visit")
    /\ \E v \in health.todo : v.seen.status # "stopped" /\ v.seen.address = NoAddress
    /\ health' = [Resting EXCEPT !.at = "dead"]
    /\ UNCHANGED <<record, container, lastId, commands, happened>>

\* The controller stops waiting; the command goes on.
TimesOut(c) ==
    /\ "timeout" \in Faults
    /\ c.awaited
    /\ Forwards(c, [c EXCEPT !.awaited = FALSE])
    /\ happened' = happened \cup {"timeout"}
    /\ UNCHANGED <<record, container, lastId, health>>

\* The agent process dies and starts again.  Its containers go on.
AgentRestarts ==
    /\ "agent" \in Faults
    /\ record' = [s \in Services |-> NoRecord]
    /\ commands' = {}
    /\ health' = Resting
    /\ happened' = happened \cup {"agent"}
    /\ UNCHANGED <<container, lastId>>

Next ==
    \/ \E s \in Services, op \in {"deploy", "stop", "restart"} : Send(s, op)
    \/ \E c \in commands : CommandStep(c) \/ DockerFails(c) \/ TimesOut(c)
    \/ HealthStep
    \/ \E s \in Services : Exits(s)
    \/ HealthDies \/ AgentRestarts

\* Every Docker call and health check ends, and the loop runs on a timer.
Fairness ==
    /\ \A s \in Services : WF_vars(\E c \in Under(s) : CommandStep(c))
    /\ WF_vars(HealthStep)

Spec     == Init /\ [][Next]_vars
LiveSpec == Spec /\ Fairness

-----------------------------------------------------------------------------
(* Properties.                                                             *)

TypeOK ==
    /\ record \in [Services -> Records]
    /\ container \in [Services -> Container]
    /\ lastId \in [Services -> Id]
    /\ commands \subseteq Command
    /\ health \in Health
    /\ happened \subseteq Faults

(***************************************************************************)
(* A container that runs is looked after once its commands are done: the   *)
(* agent has a record of it that the health loop does not skip, although   *)
(* the loop writes back records it read before (workload_manager.py:126,   *)
(* 166).  It takes commands that do not overlap and an agent that does not *)
(* die.                                                                    *)
(***************************************************************************)
Serial     == happened \cap {"timeout", "agent"} = {}
Watched(s) == record[s] # NoRecord /\ record[s].status # "stopped"
RunningIsWatched ==
    Serial => \A s \in Services : Up(s) /\ Under(s) = {} => Watched(s)

(***************************************************************************)
(* Why that is so, as an invariant.  Commands that wait are the only ones  *)
(* of their service; what one is about to write agrees with the container; *)
(* the loop has skipped what was stopped when it read its list, and never  *)
(* turns a record into a stopped one; a container that runs has a record   *)
(* to watch it by, or is about to get one.                                 *)
(***************************************************************************)
Starting(s) == {c \in Under(s) : c.op = "deploy" /\ c.at # "save"}
Starts(c)     == c.op # "stop" /\ c.at = "save"

Bounded ==
    /\ IsFiniteSet(commands)
    /\ \A s \in Services : lastId[s] + Cardinality(Starting(s)) <= MaxId

SeenOK ==
    \A c \in commands :
        c.at = "save" \/ (c.at = "run" /\ c.op # "deploy") => c.seen \in WorkloadRecord

LoopOK ==
    health.at \in {"address", "check", "save"} =>
        \A v \in health.now : v.seen.status # "stopped"

OneAtATime ==
    Serial => /\ \A c \in commands : c.awaited
              /\ \A c, d \in commands : c.service = d.service => c = d

SavesTrue ==
    Serial => \A c \in commands :
                 c.at = "save" => IF c.op = "stop" THEN ~Up(c.service) ELSE c.seen.status = "running"

UpIsWatched ==
    Serial => \A s \in Services : Up(s) => Watched(s) \/ \E c \in Under(s) : Starts(c)

AgentInv == TypeOK /\ Bounded /\ SeenOK /\ LoopOK /\ OneAtATime /\ SavesTrue /\ UpIsWatched

(***************************************************************************)
(* status="stopped" (workload_manager.py:80-85, 96-101): when a stop is    *)
(* answered the container is down, if commands did not overlap.  It is not *)
(* so after the agent was restarted, because it has no record then and     *)
(* does not ask Docker.                                                    *)
(***************************************************************************)
StoppedIsDown ==
    [][\A c \in commands :
         Serial /\ c.op = "stop" /\ c.awaited /\ Ends(c) /\ (Saves(c) \/ Reads(c))
            => ~Up(c.service)]_vars

(***************************************************************************)
(* status="already_running" (workload_manager.py:50-55): a deployment is   *)
(* answered so only when the container runs.  It is not so when the health *)
(* loop has written back a record that it read before a stop, or when the  *)
(* container has exited since.                                             *)
(***************************************************************************)
AlreadyRunningRuns ==
    [][\A c \in commands :
         DeployInspects(c) /\ AlreadyRunning(c) => Up(c.service)]_vars

(***************************************************************************)
(* Whatever records late handlers write back, however commands overlap and *)
(* even if the agent restarts: a container that stays down is reported     *)
(* unhealthy again and again, unless it was stopped or has no record.      *)
(* There are two exceptions.  A container that exits before its address is *)
(* read is never checked (workload_manager.py:132-140).  And the address   *)
(* of a container that is gone may be given to another service's, which    *)
(* then answers the check, as the record keeps it (217-218); so this is    *)
(* for a single service.                                                   *)
(***************************************************************************)
StaysDown(s) == ~Up(s) /\ Under(s) = {}
DeadIsNoticed ==
    \A s \in Services :
        <>[]StaysDown(s) =>
            \/ <>("early" \in happened)
            \/ <>[]~Watched(s)
            \/ []<>([service |-> s, healthy |-> FALSE] \in health.reports)

=============================================================================

------------------------------ MODULE Placement ------------------------------
(***************************************************************************)
(* Services compete for nodes and for host ports: the controller chooses a *)
(* node by the resource snapshots it has, the agent of that node chooses a *)
(* port by the workload records it has, and Docker refuses a port that     *)
(* another container holds.  A deployment that is refused is queued and    *)
(* tried again.                                                            *)
(*                                                                         *)
(* Here the controller is reduced to what it wants of a service; Controller*)
(* is the model of its records.  A service has one command under way at a  *)
(* time (Agent models those that overlap).                                 *)
(***************************************************************************)
EXTENDS Scheduler, Ports

CONSTANTS
    Services,
    NoRecord,     \* the agent has no record of the service
    NoContainer,  \* the node has no container of the service
    MinimumOf,    \* what each service asks of a node
    HashOf,       \* crc32 of each service id
    PortBase,     \* published_port_base and published_port_max of each node
    PortMax,
    Explicit,     \* bound: the ports each service may ask for
    States,       \* bound: the states of a node that are looked at
    Faults        \* subset of {"exit", "early", "agent"}

PortOrNone == Nat \cup {NoPort}

\* named: the record, if there is one, has the id of this container.
Container == [up : BOOLEAN, port : Nat, named : BOOLEAN]
Record    == [port : PortOrNone, running : BOOLEAN]

ASSUME PlacementAssumption ==
    /\ MinimumOf \in [Services -> Minimum]
    /\ HashOf \in [Services -> Nat]
    /\ PortBase \in [Nodes -> Nat] /\ PortMax \in [Nodes -> Nat]
    /\ Explicit \in [Services -> SUBSET Nat]
    /\ States \subseteq NodeState
    /\ Faults \subseteq {"exit", "early", "agent"}
    /\ NoRecord \notin Record /\ NoContainer \notin Container

VARIABLES
    wanted,     \* "off", "queued" for a deployment, or "up" in the eyes of the controller
    port,       \* the published_port of each service, the same in every request
    home,       \* the node of the placement
    call,       \* the deploy command under way, if any
    record,     \* AgentLocalState.workloads of each node: published port and status
    container,  \* the containers of each node, in Docker
    happened    \* history: the faults so far that some properties do without

vars == <<wanted, port, home, call, record, container, happened>>

NoCall == [at |-> "none", node |-> NoNode, port |-> NoPort]
Call   == [at : {"none", "choose", "run", "save"}, node : Nodes \cup {NoNode}, port : PortOrNone]

Init ==
    /\ wanted = [s \in Services |-> "off"]
    /\ port \in [Services -> UNION {Explicit[s] : s \in Services} \cup {NoPort}]
    /\ \A s \in Services : port[s] \in Explicit[s] \cup {NoPort}
    /\ home = [s \in Services |-> NoNode]
    /\ call = [s \in Services |-> NoCall]
    /\ record = [n \in Nodes |-> [s \in Services |-> NoRecord]]
    /\ container = [n \in Nodes |-> [s \in Services |-> NoContainer]]
    /\ happened = {}

Quiet(s) == call[s].at = "none"
Up(n, s) == container[n][s] # NoContainer /\ container[n][s].up

-----------------------------------------------------------------------------
(* The controller *)

Request(s) ==
    /\ wanted[s] = "off"
    /\ wanted' = [wanted EXCEPT ![s] = "queued"]
    /\ UNCHANGED <<port, home, call, record, container, happened>>

SendTo(s, n) == call' = [call EXCEPT ![s] = [at |-> "choose", node |-> n, port |-> NoPort]]

\* A deployment, or its retry: without a candidate the service stays queued.
\* Nodes may have changed in any way since list_nodes was last called.
Schedules(s) ==
    /\ wanted[s] = "queued" /\ Quiet(s)
    /\ \E nodes \in [Nodes -> States] :
          LET n == ChooseNodeLeastLoad(MinimumOf[s], nodes)
          IN  n # NoNode /\ SendTo(s, n)
    /\ UNCHANGED <<wanted, port, home, record, container, happened>>

\* The controller gives up the instance where it is placed, without stopping
\* it, and looks for a node among the others.
Evacuates(s) ==
    /\ wanted[s] = "up" /\ Quiet(s)
    /\ wanted' = [wanted EXCEPT ![s] = "queued"]
    /\ \E nodes \in [Nodes \ {home[s]} -> States] :
          LET n == ChooseNodeLeastLoad(MinimumOf[s], nodes)
          IN  IF n = NoNode THEN UNCHANGED call ELSE SendTo(s, n)
    /\ UNCHANGED <<port, home, record, container, happened>>

Ends(s) == call' = [call EXCEPT ![s] = NoCall]

\* The agent's answer: the service is up on that node, or it stays queued.
Deployed(s) ==
    /\ wanted' = [wanted EXCEPT ![s] = "up"]
    /\ home' = [home EXCEPT ![s] = call[s].node]
    /\ Ends(s)

Refused(s) == Ends(s) /\ UNCHANGED <<wanted, home>>

-----------------------------------------------------------------------------
(* The agents *)

\* The ports in the records of the other services, stopped ones as well.
Used(n, s) ==
    {record[n][t].port : t \in {u \in Services : u # s /\ record[n][u] # NoRecord}} \ {NoPort}

PortFor(n, s) ==
    IF port[s] # NoPort THEN port[s]
                        ELSE NextPort(HashOf[s], Used(n, s), PortBase[n], PortMax[n])

\* _ensure_published_port; the command fails when no port is left.
Chooses(s) ==
    /\ call[s].at = "choose"
    /\ LET p == PortFor(call[s].node, s)
       IN  IF p = NoPort THEN Refused(s)
           ELSE /\ call' = [call EXCEPT ![s].at = "run", ![s].port = p]
                /\ UNCHANGED <<wanted, home>>
    /\ UNCHANGED <<port, record, container, happened>>

\* The record says running and names the container, which may have exited.
AlreadyRunning(n, s) ==
    /\ record[n][s] # NoRecord /\ record[n][s].running
    /\ container[n][s] # NoContainer /\ container[n][s].named

\* Another container of the node holds the port.
Taken(n, s, p) == \E t \in Services \ {s} : Up(n, t) /\ container[n][t].port = p

StartsContainer(n, s, p, up) ==
    container' = [container EXCEPT ![n][s] = [up |-> up, port |-> p, named |-> FALSE]]

\* Mutant: the port that was chosen is taken for the container's.
KeptPort_Chosen(n, s) == call[s].port

\* _published_port of the container that is kept.
KeptPort(n, s) == container[n][s].port

\* _deploy_sync: a running container is kept.  Another one is replaced, by one
\* that does not start when the port is taken, or exits before it is inspected.
Runs(s) ==
    LET n == call[s].node
        p == call[s].port
        ToSave(q) == call' = [call EXCEPT ![s].at = "save", ![s].port = q]
    IN
    /\ call[s].at = "run"
    /\ \/ /\ AlreadyRunning(n, s)
          /\ Deployed(s)
          /\ UNCHANGED <<container, happened>>
       \/ /\ ~AlreadyRunning(n, s) /\ Up(n, s)
          /\ ToSave(KeptPort(n, s))
          /\ UNCHANGED <<wanted, home, container, happened>>
       \/ /\ ~AlreadyRunning(n, s) /\ ~Up(n, s) /\ Taken(n, s, p)
          /\ StartsContainer(n, s, p, FALSE)
          /\ Refused(s)
          /\ UNCHANGED happened
       \/ /\ ~AlreadyRunning(n, s) /\ ~Up(n, s) /\ ~Taken(n, s, p)
          /\ \/ StartsContainer(n, s, p, TRUE) /\ ToSave(p) /\ UNCHANGED happened
             \/ /\ "early" \in Faults
                /\ StartsContainer(n, s, p, FALSE) /\ ToSave(NoPort)
                /\ happened' = happened \cup {"early"}
          /\ UNCHANGED <<wanted, home>>
    /\ UNCHANGED <<port, record>>

\* Mutant: the port of a record is not written again.
Saves_FirstPort(s) ==
    LET n == call[s].node IN
    /\ call[s].at = "save"
    /\ record' = [record EXCEPT ![n][s] =
            [port |-> IF @ = NoRecord THEN call[s].port ELSE @.port, running |-> TRUE]]
    /\ container' = [container EXCEPT ![n][s].named = TRUE]
    /\ Deployed(s)
    /\ UNCHANGED <<port, happened>>

\* upsert_workload and the reply.
Saves(s) ==
    LET n == call[s].node IN
    /\ call[s].at = "save"
    /\ record' = [record EXCEPT ![n][s] = [port |-> call[s].port, running |-> TRUE]]
    /\ container' = [container EXCEPT ![n][s].named = TRUE]
    /\ Deployed(s)
    /\ UNCHANGED <<port, happened>>

\* A stop: without a record the agent answers that it has stopped the service.
Stops(s) ==
    LET n == home[s] IN
    /\ wanted[s] # "off" /\ Quiet(s)
    /\ wanted' = [wanted EXCEPT ![s] = "off"]
    /\ home' = [home EXCEPT ![s] = NoNode]
    /\ IF n # NoNode /\ record[n][s] # NoRecord
       THEN /\ record' = [record EXCEPT ![n][s].running = FALSE]
            /\ container' = [container EXCEPT ![n][s] =
                    IF @ = NoContainer THEN @ ELSE [@ EXCEPT !.up = FALSE]]
       ELSE UNCHANGED <<record, container>>
    /\ UNCHANGED <<port, call, happened>>

\* A restart, in place, of a container that runs or has exited.  It fails if the
\* port was taken meanwhile, or without a record, and the service is queued.
Restarts(s) ==
    LET n == home[s] IN
    /\ wanted[s] = "up" /\ Quiet(s)
    /\ IF /\ record[n][s] # NoRecord /\ container[n][s] # NoContainer
          /\ ~Taken(n, s, container[n][s].port)
       THEN /\ container' = [container EXCEPT ![n][s].up = TRUE]
            /\ record' = [record EXCEPT ![n][s].running = TRUE]
            /\ UNCHANGED wanted
       ELSE /\ wanted' = [wanted EXCEPT ![s] = "queued"]
            /\ UNCHANGED <<container, record>>
    /\ UNCHANGED <<port, home, call, happened>>

-----------------------------------------------------------------------------
(* Faults *)

Exits(n, s) ==
    /\ "exit" \in Faults
    /\ Up(n, s)
    /\ container' = [container EXCEPT ![n][s].up = FALSE]
    /\ UNCHANGED <<wanted, port, home, call, record, happened>>

\* The health loop records a container that is down as unhealthy, unless it
\* never knew its address.
Unhealthy(n, s) ==
    /\ record[n][s] # NoRecord /\ record[n][s].running /\ record[n][s].port # NoPort
    /\ ~Up(n, s)
    /\ record' = [record EXCEPT ![n][s].running = FALSE]
    /\ UNCHANGED <<wanted, port, home, call, container, happened>>

\* The agent process dies and starts again: its records are gone, its
\* containers run on, and its callers get an error.
AgentRestarts(n) ==
    /\ "agent" \in Faults
    /\ record' = [record EXCEPT ![n] = [s \in Services |-> NoRecord]]
    /\ call' = [s \in Services |-> IF call[s].node = n THEN NoCall ELSE call[s]]
    /\ happened' = happened \cup {"agent"}
    /\ UNCHANGED <<wanted, port, home, container>>

Next ==
    \/ \E s \in Services :
          Request(s) \/ Schedules(s) \/ Chooses(s) \/ Runs(s) \/ Saves(s) \/ Evacuates(s) \/ Stops(s) \/ Restarts(s)
    \/ \E n \in Nodes : AgentRestarts(n)
    \/ \E n \in Nodes, s \in Services : Exits(n, s) \/ Unhealthy(n, s)

Spec == Init /\ [][Next]_vars

-----------------------------------------------------------------------------
(* Properties *)

\* In particular a container is published in the range of its node, which the
\* network lets through (README.md:134), unless its service asks for a port.
TypeOK ==
    /\ \A n \in Nodes, s \in Services :
          container[n][s] # NoContainer =>
             container[n][s].port \in Explicit[s] \cup PortRange(PortBase[n], PortMax[n])
    /\ wanted \in [Services -> {"off", "queued", "up"}]
    /\ port \in [Services -> PortOrNone]
    /\ home \in [Services -> Nodes \cup {NoNode}]
    /\ call \in [Services -> Call]
    /\ record \in [Nodes -> [Services -> Record \cup {NoRecord}]]
    /\ container \in [Nodes -> [Services -> Container \cup {NoContainer}]]
    /\ happened \subseteq Faults

(***************************************************************************)
(* The port that the agent has on record, and that the ingress routes to   *)
(* (ingress_manager.py:139-142), is the one the container is published on, *)
(* whatever fails, and although a deployment may keep a container whose    *)
(* port is not the one it chose, and a refused one leaves a container that *)
(* the record does not name.  The record may have no port: the container   *)
(* exited before it was inspected (workload_manager.py:57-63), and no      *)
(* restart looks it up again.                                              *)
(***************************************************************************)
RoutedPortIsPublished ==
    \A s \in Services :
        LET n == home[s] IN
        wanted[s] = "up" /\ Quiet(s) /\ Up(n, s) /\ record[n][s] # NoRecord =>
            record[n][s].port \in {NoPort, container[n][s].port}

(***************************************************************************)
(* The agent knows every port that Docker will refuse: a container that    *)
(* runs is on record with its port, unless the command that started it has *)
(* still to save the record.  So a port is refused only if two deployments *)
(* chose it at a time, and the one that lost chooses another when it is    *)
(* tried again (README.md:144-145, workload_manager.py:235-259).  There    *)
(* are two exceptions, after which the probe may stop at a taken port      *)
(* every time: a restart of the agent loses its records, and a container   *)
(* that exits before it is inspected is recorded without its port.         *)
(***************************************************************************)
Saving(n, s) == call[s].at = "save" /\ call[s].node = n

HeldPortIsRecorded ==
    happened = {} =>
        \A n \in Nodes, s \in Services :
            Up(n, s) /\ ~Saving(n, s) =>
                record[n][s] # NoRecord /\ record[n][s].port = container[n][s].port

(***************************************************************************)
(* The invariant that makes the two inductive.  A call about to be saved   *)
(* has a container with the port it carries; a container that the record   *)
(* names has the port of the record; a container runs only if it is named  *)
(* or about to be; and a service that is up has a named container where it *)
(* is placed.  After a fault each of these holds unless the record or the  *)
(* port is missing.                                                        *)
(***************************************************************************)
Named(n, s) == container[n][s] # NoContainer /\ container[n][s].named

CallsOK ==
    \A s \in Services :
        LET n == call[s].node IN
        /\ ~Quiet(s) => n \in Nodes
        /\ call[s].at = "run" => call[s].port \in Explicit[s] \cup PortRange(PortBase[n], PortMax[n])
        /\ call[s].at = "save" =>
              /\ container[n][s] # NoContainer
              /\ call[s].port \in {NoPort, container[n][s].port}
              /\ happened = {} => call[s].port = container[n][s].port

ContainersOK ==
    \A n \in Nodes, s \in Services :
        /\ Named(n, s) /\ record[n][s] # NoRecord =>
              record[n][s].port \in {NoPort, container[n][s].port}
        /\ happened = {} =>
              /\ Named(n, s) => record[n][s] # NoRecord /\ record[n][s].port = container[n][s].port
              /\ Up(n, s) /\ ~Saving(n, s) => Named(n, s)

PlacedOK ==
    \A s \in Services :
        LET n == home[s] IN
        wanted[s] = "up" =>
            /\ Quiet(s) /\ n \in Nodes
            /\ record[n][s] # NoRecord \/ happened = {} => Named(n, s)

PlacementInv ==
    /\ TypeOK
    /\ \A s \in Services : port[s] \in Explicit[s] \cup {NoPort}
    /\ CallsOK /\ ContainersOK /\ PlacedOK

=============================================================================

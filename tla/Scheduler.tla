------------------------------ MODULE Scheduler ------------------------------
(***************************************************************************)
(* choose_node_least_load: the node a deployment is sent to, as an         *)
(* operator on the list of nodes the store returned.  Utilizations are     *)
(* numbers up to Full, which stands for 1.0; nodes have a rank, the order  *)
(* of their ids.                                                           *)
(***************************************************************************)
EXTENDS Naturals, FiniteSets

CONSTANTS
    Nodes,
    NoNode,      \* no node was selected
    NoSnapshot,  \* the node has not sent a resource snapshot
    Full,        \* a utilization of 1.0
    Rank         \* the order of the node ids

ASSUME SchedulerAssumption ==
    /\ IsFiniteSet(Nodes)
    /\ NoNode \notin Nodes
    /\ Full \in Nat
    /\ Rank \in [Nodes -> Nat]
    /\ \A m, n \in Nodes : Rank[m] = Rank[n] => m = n
    /\ NoSnapshot \notin [cpu : 0..Full, memory : 0..Full]

Snapshot  == [cpu : 0..Full, memory : 0..Full]
NodeState == [status : {"healthy", "unavailable"}, snapshot : Snapshot \cup {NoSnapshot}]
Minimum   == [cpu : 0..Full, memory : 0..Full]

\* min is what the service asks for: min_free_cpu and min_free_memory.
SatisfiesMinimum(min, state) ==
    /\ state.snapshot # NoSnapshot
    /\ Full - state.snapshot.cpu >= min.cpu
    /\ Full - state.snapshot.memory >= min.memory

Eligible(min, nodes) ==
    {n \in DOMAIN nodes : nodes[n].status = "healthy" /\ SatisfiesMinimum(min, nodes[n])}

Load(state) ==
    IF state.snapshot.cpu >= state.snapshot.memory THEN state.snapshot.cpu
                                                   ELSE state.snapshot.memory

\* The key of the minimum: load, then memory utilization, then node id.
Before(nodes, m, n) ==
    \/ Load(nodes[m]) < Load(nodes[n])
    \/ /\ Load(nodes[m]) = Load(nodes[n])
       /\ \/ nodes[m].snapshot.memory < nodes[n].snapshot.memory
          \/ /\ nodes[m].snapshot.memory = nodes[n].snapshot.memory
             /\ Rank[m] < Rank[n]

Least(candidates, nodes) ==
    CHOOSE n \in candidates : \A m \in candidates : ~Before(nodes, m, n)

ChooseNodeLeastLoad(min, nodes) ==
    IF Eligible(min, nodes) = {} THEN NoNode ELSE Least(Eligible(min, nodes), nodes)

=============================================================================

----------------------------- MODULE MCPlacement -----------------------------
(* Instances of Placement for TLC. *)
EXTENDS Placement, TLC

CONSTANTS n1, n2, a, b

\* Node n1 has two ports, n2 none, as its range is the wrong way round; the
\* services start at the second port.
MCRank == [n \in Nodes |-> IF n = n1 THEN 1 ELSE 2]
MCPortBase == [n \in Nodes |-> 1]
MCPortMax  == [n \in Nodes |-> IF n = n1 THEN 2 ELSE 0]
MCHash == (a :> 1) @@ (b :> 1)

MCExplicit == (a :> {}) @@ (b :> {1})

\* Service b asks for an idle node.
MCMinimum == (a :> [cpu |-> 0, memory |-> 0]) @@ (b :> [cpu |-> 1, memory |-> 1])

\* A node that has sent no snapshot, or is silent, and the two loads.
Healthy(u, m) == [status |-> "healthy", snapshot |-> [cpu |-> u, memory |-> m]]
MCStates ==
    {[status |-> "healthy", snapshot |-> NoSnapshot],
     [status |-> "unavailable", snapshot |-> [cpu |-> 0, memory |-> 0]],
     Healthy(0, 0), Healthy(1, 0)}

=============================================================================

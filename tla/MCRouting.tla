----------------------------- MODULE MCRouting -----------------------------
(* Instances of Routing for TLC. *)
EXTENDS Routing, Refinement, TLC

\* Nodes play the same role everywhere in Routing.
Symmetry == Permutations(Nodes)

=============================================================================

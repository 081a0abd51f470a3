--------------------------- MODULE MCNodeRegistry ---------------------------
(* Instances of NodeRegistry, and of its refinement, for TLC.              *)
EXTENDS NodeStatus

CONSTANTS n1

=============================================================================

--------------------------- MODULE MCController ---------------------------
(* Instances of Controller for TLC. *)
EXTENDS Controller, TLC

\* Nodes play the same role everywhere in Controller.
Symmetry == Permutations(Nodes)

-----------------------------------------------------------------------------
(* A node that fails for good: once it is marked unavailable its agent sends *)
(* neither heartbeats nor snapshots nor reports.                             *)

SilentNext ==
    /\ Next
    /\ \A n \in Nodes : node[n] = "unavailable" => node'[n] = "unavailable"
    /\ \A n \in Nodes : node[n] = "healthy" /\ node'[n] = "unavailable" => round'.node = n
    /\ \A s \in Services :
          job'[s].op = "healthy" /\ job[s] # job'[s] => node[job'[s].target] # "unavailable"

SilentSpec == Init /\ [][SilentNext]_vars /\ Fairness

\* "workloads from failed node become pending/rescheduled according to policy"
\* (docs/runtime-smoke-test.md:97): a service placed on a node that failed does
\* not stay shown as running there.
FailedNodeIsLeft ==
    \A s \in Services, n \in Nodes :
        (node[n] = "unavailable" /\ placement[s] = n)
            ~> (placement[s] # n \/ ~Running(s))

=============================================================================

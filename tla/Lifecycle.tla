------------------------------ MODULE Lifecycle ------------------------------
(***************************************************************************)
(* What the controller promises about its services when nothing cuts a     *)
(* handler short: every request, report, retry and evacuation acts as one  *)
(* step on the records of its service, or not at all, however the handlers *)
(* are interleaved.  A deployment that fails is queued in the same step,   *)
(* and only a stop takes a placement away.                                 *)
(***************************************************************************)
CONSTANTS Services, Nodes, NoNode

VARIABLES
    desired,    \* status of the desired state
    status,     \* status of the observed state
    placement,
    queued      \* a retry is queued

vars == <<desired, status, placement, queued>>

Init ==
    /\ desired = [s \in Services |-> "none"]
    /\ status = [s \in Services |-> "none"]
    /\ placement = [s \in Services |-> NoNode]
    /\ queued = [s \in Services |-> FALSE]

Placed(s) == placement[s] # NoNode
Wanted(s) == desired[s] \notin {"none", "stopped"}

\* A deployment begins, requested or retried.
Begins(s) ==
    /\ status[s] # "running"
    /\ desired' = [desired EXCEPT ![s] = "deploying"]
    /\ UNCHANGED <<status, placement, queued>>

\* No node was found, or the agent failed.
Fails(s) ==
    /\ desired[s] = "deploying"
    /\ \E st \in {"placement_failed", "pending"} : status' = [status EXCEPT ![s] = st]
    /\ queued' = [queued EXCEPT ![s] = TRUE]
    /\ UNCHANGED <<desired, placement>>

Runs(s, n) ==
    /\ status' = [status EXCEPT ![s] = "running"]
    /\ placement' = [placement EXCEPT ![s] = n]
    /\ queued' = [queued EXCEPT ![s] = FALSE]

Deployed(s, n) ==
    /\ desired[s] = "deploying"
    /\ desired' = [desired EXCEPT ![s] = "running"]
    /\ Runs(s, n)

\* Recovered on another node, or evacuated.  An evacuation goes by the list of
\* placements its round has read: it may bring back a service that was stopped
\* meanwhile, or "move" one to the node it is on by now.
Moved(s, n) ==
    /\ desired[s] # "none"
    /\ Runs(s, n)
    /\ UNCHANGED desired

\* Restarted where it is placed.
Restarted(s) ==
    /\ Placed(s)
    /\ status' = [status EXCEPT ![s] = "running"]
    /\ UNCHANGED <<desired, placement, queued>>

\* Reported healthy.
Revived(s) ==
    /\ Placed(s) /\ Wanted(s)
    /\ desired' = [desired EXCEPT ![s] = "running"]
    /\ Runs(s, placement[s])

\* A recovery or an evacuation fails.
GivenUp(s) ==
    /\ desired[s] # "none"
    /\ \E st \in {"pending", "failed"} : status' = [status EXCEPT ![s] = st]
    /\ queued' = [queued EXCEPT ![s] = TRUE]
    /\ UNCHANGED <<desired, placement>>

Stopped(s) ==
    /\ desired' = [desired EXCEPT ![s] = IF @ = "none" THEN "none" ELSE "stopped"]
    /\ status' = [status EXCEPT ![s] = "stopped"]
    /\ placement' = [placement EXCEPT ![s] = NoNode]
    /\ queued' = [queued EXCEPT ![s] = FALSE]

Next ==
    \E s \in Services :
        \/ Begins(s) \/ Fails(s) \/ Restarted(s) \/ Revived(s) \/ GivenUp(s) \/ Stopped(s)
        \/ \E n \in Nodes : Deployed(s, n) \/ Moved(s, n)

Spec == Init /\ [][Next]_vars

=============================================================================

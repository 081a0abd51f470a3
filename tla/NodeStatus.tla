----------------------------- MODULE NodeStatus -----------------------------
(***************************************************************************)
(* NodeRegistry implements the nodes of Controller.  Controller has of a   *)
(* node its status alone, and lets Heartbeat, StaleSnapshot and the marks  *)
(* of a round change it; its handlers read the status of nodes and never   *)
(* write it.  So the nodes are compared with those of a Controller without *)
(* services.                                                               *)
(***************************************************************************)
EXTENDS NodeRegistry

Status == [n \in Nodes |-> IF registry[n] = NoRecord THEN "unknown" ELSE registry[n].status]

\* The round as Controller has it, where a mark is one step: its SET.
Phase ==
    CASE round.at = "idle" -> "idle"
      [] round.at \in {"mark", "unset"} -> "nodes"
      [] round.at = "evacuate" -> "marked"
      [] round.at = "retry" -> "retry"
StillToMark == round.silent \cup (IF round.at = "unset" THEN round.visits ELSE {})
Evacuating  == IF round.at = "evacuate" THEN CHOOSE n \in round.visits : TRUE ELSE NoRecord
NodesRound  == [phase |-> Phase, at |-> 0, stale |-> StillToMark, node |-> Evacuating,
                left |-> {}, job |-> NoRecord]

ControllerFaults ==
    {f \in {"crash", "store"} : IF f = "crash" THEN "controller" \in Faults ELSE "store" \in Faults}

OfNoService == [s \in {} |-> NoRecord]

Abstract ==
    INSTANCE Controller WITH
        Services <- {}, NoNode <- NoRecord, NoService <- NoRecord, Faults <- ControllerFaults,
        MaxRestartAttempts <- 0, Grace <- 0, Cooldown <- 0,
        MaxTime <- 0, MaxGeneration <- 0, MaxRestartCount <- 0,
        desired <- OfNoService, observed <- OfNoService, placement <- OfNoService,
        pending <- OfNoService, restarts <- OfNoService, generation <- OfNoService,
        cooldown <- OfNoService, recovering <- OfNoService, job <- OfNoService,
        todo <- OfNoService, hosts <- OfNoService, inPlace <- OfNoService, now <- 0,
        node <- Status, round <- NodesRound

(***************************************************************************)
(* However the handlers of heartbeats and snapshots, the reconciler and    *)
(* the faults interleave, the status of a node changes as Controller lets  *)
(* it: a node that has a key keeps one, it becomes unavailable by a mark   *)
(* of the round or by a handler that writes back an older record, and a    *)
(* round marks the nodes that were healthy when it listed them, one by one *)
(* and each before its evacuation.                                         *)
(***************************************************************************)
ImplementsController == Abstract!Spec

(***************************************************************************)
(* The invariant behind it: who is about to write a record back has read   *)
(* one, so that its node has one; and a node that is visited is alone and  *)
(* is off the list.                                                        *)
(***************************************************************************)
StatusInv ==
    /\ \A c \in calls : c.seen # NoRecord => registry[c.node] # NoRecord
    /\ round.at \in {"unset", "evacuate"} =>
            \E n \in Nodes : round.visits = {n} /\ n \notin round.silent

\* With what it rests on, the inductive invariant of the node keys.
NodesInv == ListedInv /\ StatusInv

=============================================================================

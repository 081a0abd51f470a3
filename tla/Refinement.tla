----------------------------- MODULE Refinement -----------------------------
(***************************************************************************)
(* Controller implements Lifecycle.  A handler decides what becomes of its *)
(* service when the call it has awaited returns, and writes it down key by *)
(* key.  The records are mapped to what they are after the writes that the *)
(* handler has still to make, so that the decision is the abstract step    *)
(* and every write after it a stutter.                                     *)
(***************************************************************************)
EXTENDS Controller

\* The value of key k after the plan, which sets it once or leaves it as it is.
After(plan, k, value) ==
    IF \E i \in DOMAIN plan : plan[i].key = k
    THEN plan[CHOOSE i \in DOMAIN plan : plan[i].key = k].val
    ELSE value

AbstractDesired   == [s \in Services |-> After(todo[s], "desired", desired[s])]
AbstractObserved  == [s \in Services |-> After(todo[s], "observed", observed[s])]
AbstractStatus    == [s \in Services |-> AbstractObserved[s].status]
AbstractPlacement == [s \in Services |-> After(todo[s], "placement", placement[s])]
AbstractQueued    == [s \in Services |-> After(todo[s], "pending", pending[s])]

Abstract ==
    INSTANCE Lifecycle WITH
        desired <- AbstractDesired,
        status <- AbstractStatus,
        placement <- AbstractPlacement,
        queued <- AbstractQueued

\* Without store faults and crashes: although every handler writes key by key
\* and awaits its agent in between, what happens to a service is a sequence of
\* whole deployments, moves, restarts, failures and stops.
ImplementsLifecycle == Abstract!Spec

-----------------------------------------------------------------------------
(* The invariant behind it *)

SetsOnce(plan) == \A i, j \in DOMAIN plan : plan[i].key = plan[j].key => i = j

\* A deployment, or a recovery, that has not been decided yet.
Deploying(j) == j.pc \in {"schedule", "deploy"} /\ j.op = "deploy"
Recovering(j) ==
    \/ j.pc \in {"schedule", "deploy"} /\ j.op # "deploy"
    \/ j.pc \in {"retire", "restart"}

\* The record of a service with job j and containers on the nodes of homes: it
\* is queued when it is down, its containers are where it is placed, and it is
\* shown there or nowhere.
Consistent(j, homes, wish, obs, place, queued) ==
    /\ j.pc # "undo"
    /\ Deploying(j) => wish = "deploying"
    /\ Recovering(j) => wish # "none" /\ obs.status # "none"
    /\ queued => wish # "none"
    /\ obs.status \in {"pending", "placement_failed", "failed"} => queued
    /\ place # NoNode => place \in homes /\ obs.status # "none" /\ obs.node \in {NoNode, place}
    /\ wish # "none" /\ obs.status = "none" => Deploying(j)

\* Without store faults and crashes the record that every handler is about to
\* complete is consistent.
RefinementInv ==
    \A s \in Services :
        /\ SetsOnce(todo[s])
        /\ Idle(s) => todo[s] = <<>>
        /\ Consistent(job[s], hosts[s], AbstractDesired[s], AbstractObserved[s],
                      AbstractPlacement[s], AbstractQueued[s])

=============================================================================

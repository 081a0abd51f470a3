------------------------------- MODULE Routing -------------------------------
(***************************************************************************)
(* The controller together with its ingress: where a handler of the active *)
(* service calls _sync_ingress, it synchronises the target before it       *)
(* returns, with the lock of the service still held.  Handlers of other    *)
(* services return at once from sync_service.  Redis does not fail here    *)
(* and the controller does not die; agents, nginx and Docker may fail.     *)
(***************************************************************************)
EXTENDS Controller

CONSTANTS
    ActiveService,  \* ingress_active_service_id
    NoFile,
    IngressFaults

ASSUME RoutingAssumption ==
    /\ ActiveService \in Services
    /\ NoFile \notin Nodes \cup {NoNode}
    /\ IngressFaults \subseteq {"read", "reload", "nginx"}
    /\ Faults \subseteq {"timeout"}

VARIABLES upstream, nginx, phase, event, unread

INSTANCE Ingress WITH Targets <- Nodes, NoTarget <- NoNode

ingress == <<upstream, nginx, phase, event, unread>>
rvars == <<vars, ingress>>

RInit == Init /\ IngressInit

-----------------------------------------------------------------------------

\* The handler of s is at its call of _sync_ingress.
Syncing(s) ==
    /\ s = ActiveService
    /\ job[s].pc \in {"commit", "sync"}
    /\ todo[s] = <<>>

KnownNode(s) ==
    IF placement[s] # NoNode /\ node[placement[s]] # "unknown" THEN placement[s] ELSE NoNode

\* The target is resolved; if the file does not change, the handler returns.
SyncResolves(s) ==
    /\ Syncing(s)
    /\ \E decision \in Decisions(Running(s), KnownNode(s)) : Resolves(decision)
    /\ IF phase' = "resolve" THEN Finish(s) ELSE UNCHANGED vars

SyncReloads(s) ==
    /\ Syncing(s)
    /\ ReloadSucceeds \/ ReloadFails
    /\ UNCHANGED vars

SyncReturns(s) ==
    /\ Syncing(s)
    /\ Records
    /\ Finish(s)

Sync(s) == SyncResolves(s) \/ SyncReloads(s) \/ SyncReturns(s)

RHandler(s) ==
    \/ Sync(s)
    \/ ~Syncing(s) /\ Handler(s) /\ UNCHANGED ingress

RNext ==
    \/ \E s \in Services : RHandler(s) \/ (Request(s) /\ UNCHANGED ingress)
    \/ (Reconcile \/ Tick) /\ UNCHANGED ingress
    \/ \E n \in Nodes : (Heartbeat(n) \/ StaleSnapshot(n)) /\ UNCHANGED ingress
    \/ (NginxStarts \/ NginxDies) /\ UNCHANGED vars

RSpec == RInit /\ [][RNext]_rvars

-----------------------------------------------------------------------------
(* Properties *)

Truth ==
    upstream \in Nodes =>
        /\ Running(ActiveService)
        /\ upstream = placement[ActiveService] \/ unread

(***************************************************************************)
(* Between handlers, the file names no node but the one the service is     *)
(* placed and shown as running on, however it was stopped, moved or given  *)
(* up. Not every handler synchronises, but those that do not never make a  *)
(* target wrong. The exception is a synchronisation that could not read    *)
(* the agent of the new node: it keeps a target that may be the old node's *)
(* (ingress_manager.py:149-152), and nothing tries it again. The converse  *)
(* does not hold: a healthy report shows a service as running again whose  *)
(* target was cleared.                                                     *)
(***************************************************************************)
FileIsTrue == Idle(ActiveService) => Truth

Follows == nginx \in {NoNode, upstream} \/ event = "failed"

(***************************************************************************)
(* Between handlers, nginx either runs with the target of the file, or     *)
(* does not run, or the last ingress event says that a reload failed       *)
(* (ingress_manager.py:83-95). In particular it says so whenever the       *)
(* target was cleared while nginx had one loaded, as nginx does not take a *)
(* file without a server.                                                  *)
(***************************************************************************)
DivergenceIsRecorded == Idle(ActiveService) => Follows

\* What makes the two inductive: only a handler that will synchronise moves the
\* active service or shows it as down, and a synchronisation that has resolved
\* the target is done with the store.
KeepsTarget(plan) ==
    \A i \in DOMAIN plan :
        /\ plan[i].key # "placement"
        /\ plan[i].key = "observed" => plan[i].val.status = "running"

RoutingInv ==
    LET pc == job[ActiveService].pc IN
    /\ IngressTypeOK
    /\ pc # "undo"
    /\ pc \notin {"commit", "sync"} => KeepsTarget(todo[ActiveService])
    /\ pc \notin {"commit", "sync"} \/ phase # "resolve" => Truth
    /\ phase # "resolve" => Syncing(ActiveService)
    /\ phase = "resolve" => Follows
    /\ phase = "updated" => nginx \in {NoNode, upstream}

=============================================================================

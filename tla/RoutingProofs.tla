---------------------------- MODULE RoutingProofs ----------------------------
(***************************************************************************)
(* Proofs about Routing: the ingress changes nothing the handlers of       *)
(* Controller do, the upstream file is true between handlers, and nginx    *)
(* follows it or the failure is on record.                                 *)
(***************************************************************************)
EXTENDS Routing, RecoveryProofs

-----------------------------------------------------------------------------
(* Routing implements Controller *)

LEMMA RoutingStep == [RNext]_rvars => [Next]_vars
<1> SUFFICES ASSUME [RNext]_rvars PROVE [Next]_vars
  OBVIOUS
<1>1. CASE \E s \in Services : Sync(s)
  <2>1. PICK s \in Services : Sync(s)
    BY <1>1
  <2>2. Finish(s) \/ UNCHANGED vars
    BY <2>1 DEF Sync, SyncResolves, SyncReloads, SyncReturns
  <2> QED
    BY <2>2 DEF Next, Handler
<1>2. CASE \/ \E s \in Services : Handler(s) \/ Request(s)
           \/ Reconcile \/ Tick
           \/ \E n \in Nodes : Heartbeat(n) \/ StaleSnapshot(n)
  BY <1>2 DEF Next
<1>3. CASE UNCHANGED vars
  BY <1>3
<1>4. CASE UNCHANGED rvars
  BY <1>4 DEF rvars
<1> QED
  BY <1>1, <1>2, <1>3, <1>4 DEF RNext, RHandler

\* Every handler behaves as in Controller while its target is synchronised:
\* sync_service changes neither the store nor the path of a handler, so what is
\* proved of Controller holds with the ingress.
THEOREM RoutingRefinesController == RSpec => Spec
<1>1. RInit => Init
  BY DEF RInit
<1> QED
  BY <1>1, RoutingStep, PTL DEF RSpec, Spec

-----------------------------------------------------------------------------
(* Plans that do not touch the target *)

KeepsIt(w) == w.key # "placement" /\ (w.key = "observed" => w.val.status = "running")

LEMMA KeepingPlans ==
    ASSUME NEW a, NEW b, NEW c, NEW d, NEW e, KeepsIt(a), KeepsIt(b), KeepsIt(c), KeepsIt(d), KeepsIt(e)
    PROVE  /\ KeepsTarget(<<>>) /\ KeepsTarget(<<a>>)
           /\ KeepsTarget(<<a, b, c>>) /\ KeepsTarget(<<a, b, c, d, e>>)
BY DEF KeepsTarget, KeepsIt

LEMMA PlansKeepTarget ==
    ASSUME PlacedInv, NEW s \in Services
    PROVE  /\ KeepsTarget(<<>>) /\ KeepsTarget(<<W("pending", FALSE)>>)
           /\ KeepsTarget(DeployPlan) /\ KeepsTarget(CountedPlan(s))
           /\ KeepsTarget(HealthyPlan(s)) /\ KeepsTarget(RestartedPlan(s))
<1>1. \A v : /\ KeepsIt(W("desired", v)) /\ KeepsIt(W("pending", v)) /\ KeepsIt(W("restarts", v))
             /\ KeepsIt(W("cooldown", v)) /\ KeepsIt(W("generation", v))
  BY DEF KeepsIt, W
<1>2. \A g \in Nat : KeepsIt(W("observed", [observed[s] EXCEPT !.status = "running", !.grace = g]))
  <2>1. observed[s] \in ObservedState
    BY Parts DEF StoreOK
  <2> QED
    BY <2>1 DEF KeepsIt, W, ObservedState
<1>3. 0 \in Nat /\ job[s].at + Grace \in Nat
  BY Parts, ConstantsAssumption DEF JobsOK
<1>4. KeepsTarget(HealthyPlan(s))
  BY <1>1, <1>2, <1>3, KeepingPlans DEF HealthyPlan
<1>5. KeepsTarget(RestartedPlan(s))
  BY <1>1, <1>2, <1>3, KeepingPlans DEF RestartedPlan
<1>6. KeepsTarget(<<>>) /\ KeepsTarget(<<W("pending", FALSE)>>)
  BY <1>1, KeepingPlans
<1>7. KeepsTarget(DeployPlan) /\ KeepsTarget(CountedPlan(s))
  BY <1>1, KeepingPlans DEF DeployPlan, CountedPlan
<1> QED
  BY <1>4, <1>5, <1>6, <1>7

-----------------------------------------------------------------------------
(* The active service *)

IngressKept == UNCHANGED <<upstream, nginx, phase, event, unread>>

LEMMA TargetKept ==
    ASSUME RoutingInv, IngressKept,
           LET a == ActiveService IN
           /\ job'[a] = job[a] /\ todo'[a] = todo[a]
           /\ observed'[a] = observed[a] /\ placement'[a] = placement[a]
    PROVE  RoutingInv'
BY DEF RoutingInv, IngressKept, IngressTypeOK, Truth, Follows, Running, Syncing

\* A handler that goes on to its synchronisation need keep nothing until then.
LEMMA WillSynchronise ==
    ASSUME RoutingInv, IngressKept, phase = "resolve",
           job'[ActiveService].pc \in {"commit", "sync"}
    PROVE  RoutingInv'
BY DEF RoutingInv, IngressKept, IngressTypeOK, Follows

LEMMA GoesOn ==
    ASSUME RoutingInv, IngressKept, phase = "resolve",
           LET a == ActiveService IN
           /\ job[a].pc \notin {"commit", "sync"} /\ job'[a].pc # "undo"
           /\ KeepsTarget(todo[a])'
           /\ observed'[a] = observed[a] /\ placement'[a] = placement[a]
    PROVE  RoutingInv'
BY DEF RoutingInv, IngressKept, IngressTypeOK, Truth, Follows, Running

LEMMA Installs ==
    ASSUME PlacedInv, NEW s \in Services
    PROVE  /\ \A p, o, n, t, plan : Start(s, p, o, n, t, plan) =>
                 /\ job'[s].pc = p /\ todo'[s] = plan
                 /\ \A u \in Services \ {s} : job'[u] = job[u] /\ todo'[u] = todo[u]
           /\ \A p, n, plan : Continue(s, p, n, plan) =>
                 /\ job'[s].pc = p /\ todo'[s] = plan
                 /\ \A u \in Services \ {s} : job'[u] = job[u] /\ todo'[u] = todo[u]
           /\ Leave(s) =>
                 /\ job'[s].pc = "idle" /\ todo'[s] = <<>>
                 /\ \A u \in Services \ {s} : job'[u] = job[u] /\ todo'[u] = todo[u]
<1>1. job \in [Services -> JobRecords] /\ todo \in [Services -> Seq(Writes)]
  BY DEF PlacedInv, TypeOK, JobsOK, JobRecords
<1>2. ASSUME NEW p, NEW o, NEW n, NEW t, NEW plan, Start(s, p, o, n, t, plan)
      PROVE  /\ job'[s].pc = p /\ todo'[s] = plan
             /\ \A u \in Services \ {s} : job'[u] = job[u] /\ todo'[u] = todo[u]
  BY <1>1, <1>2 DEF Start
<1>3. ASSUME NEW p, NEW n, NEW plan, Continue(s, p, n, plan)
      PROVE  /\ job'[s].pc = p /\ todo'[s] = plan
             /\ \A u \in Services \ {s} : job'[u] = job[u] /\ todo'[u] = todo[u]
  BY <1>1, <1>3 DEF Continue, JobRecords
<1>4. ASSUME Leave(s)
      PROVE  /\ job'[s].pc = "idle" /\ todo'[s] = <<>>
             /\ \A u \in Services \ {s} : job'[u] = job[u] /\ todo'[u] = todo[u]
  BY <1>1, <1>4, NoJobType DEF Leave
<1> QED
  BY <1>2, <1>3, <1>4

LEMMA DeployContinues ==
    ASSUME PlacedInv, NEW s \in Services, DeployReply(s)
    PROVE  /\ job[s].pc = "deploy"
           /\ \E p \in {"commit", "sync", "retire"} : \E plan :
                 Continue(s, p, job[s].target, plan) /\ (p = "retire" => plan = <<>>)
<1>1. /\ job[s].pc = "deploy" /\ job[s].op \in {"deploy", "reschedule", "unreachable"}
      /\ DeploySucceeds(s) \/ DeployFails(s)
  BY Parts DEF JobSafe, DeployReply, At
<1>2. CASE DeployFails(s)
  BY <1>1, <1>2 DEF DeployFails
<1>3. CASE DeploySucceeds(s)
  <2>1. CASE job[s].op = "deploy"
    BY <1>1, <1>3, <2>1 DEF DeploySucceeds
  <2>2. CASE job[s].op = "reschedule"
    BY <1>1, <1>3, <2>2 DEF DeploySucceeds
  <2>3. CASE job[s].op = "unreachable"
    BY <1>1, <1>3, <2>3 DEF DeploySucceeds
  <2> QED
    BY <1>1, <2>1, <2>2, <2>3
<1> QED
  BY <1>1, <1>2, <1>3

\* What the handlers of other services leave alone.
LEMMA OthersAlone ==
    ASSUME PlacedInv, NEW s \in Services, NEW a \in Services \ {s},
           \/ Handler(s) \/ Request(s) \/ Retry(s)
           \/ \E n \in Nodes : Unreachable(s, n)
    PROVE  /\ job'[a] = job[a] /\ todo'[a] = todo[a]
           /\ observed'[a] = observed[a] /\ placement'[a] = placement[a]
<1>1. CASE Write(s)
  <2>1. Head(todo[s]) \in Writes /\ StoreOK
    BY <1>1, Parts, EntriesOfTail DEF Write
  <2>2. observed'[a] = observed[a] /\ placement'[a] = placement[a]
    BY <1>1, <2>1, PerformEffect DEF Write
  <2>3. todo'[a] = todo[a] /\ job' = job
    BY <1>1 DEF Write, PlacedInv, TypeOK, JobsOK
  <2> QED
    BY <2>2, <2>3
<1>2. CASE \/ Schedule(s) \/ Finish(s) \/ DeployReply(s) \/ RetireReply(s)
           \/ RestartReply(s) \/ StopReply(s) \/ ManualReply(s) \/ UndoReply(s)
  <2>1. observed' = observed /\ placement' = placement
    BY <1>2, StoreSame DEF Schedule, Finish, DeployReply, RetireReply, RestartReply, StopReply,
                           ManualReply, UndoReply
  <2>2. Leave(s) \/ \E p, n, plan : Continue(s, p, n, plan)
    BY <1>2, DeployContinues
    DEF Schedule, Finish, RetireReply, RestartReply, StopReply, ManualReply, UndoReply
  <2> QED
    BY <2>1, <2>2, Installs
<1>3. CASE Request(s) \/ Retry(s) \/ \E n \in Nodes : Unreachable(s, n)
  <2>1. observed' = observed /\ placement' = placement
    BY <1>3, StoreSame DEF Request, Report, CrashReport, HealthyReport, UnhealthyReport,
                           DeployRequest, StopRequest, RestartRequest, Retry, Unreachable
  <2>2. UNCHANGED <<job, todo>> \/ \E p, o, n, t, plan : Start(s, p, o, n, t, plan)
    BY <1>3 DEF Request, Report, CrashReport, HealthyReport, UnhealthyReport, Recover,
                DeployRequest, StopRequest, RestartRequest, Retry, Unreachable
  <2> QED
    BY <2>1, <2>2, Installs
<1> QED
  BY <1>1, <1>2, <1>3 DEF Handler

LEMMA ActiveWrite ==
    ASSUME PlacedInv, RoutingInv, IngressKept, phase = "resolve", Write(ActiveService)
    PROVE  RoutingInv'
<1> DEFINE a == ActiveService
           w == Head(todo[a])
<1>1. a \in Services
  BY RoutingAssumption
<1>2. /\ todo[a] # <<>> /\ todo[a] \in Seq(Writes) /\ Perform(a, w)
      /\ w \in Writes /\ StoreOK /\ job' = job /\ todo'[a] = Tail(todo[a])
  BY <1>1, Parts, EntriesOfTail DEF Write, JobsOK
<1>3. /\ observed'[a] = IF w.key = "observed" THEN w.val ELSE observed[a]
      /\ placement'[a] = IF w.key = "placement" THEN w.val ELSE placement[a]
  BY <1>1, <1>2, PerformEffect
<1>4. CASE job[a].pc \in {"commit", "sync"}
  BY <1>2, <1>4, WillSynchronise
<1>5. CASE job[a].pc \notin {"commit", "sync"}
  <2>1. KeepsTarget(todo[a]) /\ Truth
    BY <1>5 DEF RoutingInv
  <2>2. /\ w = todo[a][1] /\ 1 \in DOMAIN todo[a]
        /\ \A i \in DOMAIN Tail(todo[a]) : i + 1 \in DOMAIN todo[a] /\ Tail(todo[a])[i] = todo[a][i + 1]
    BY <1>2
  <2>3. KeepsIt(w)
    BY <2>1, <2>2 DEF KeepsTarget, KeepsIt
  <2>4. KeepsTarget(todo[a])'
    BY <1>2, <2>1, <2>2 DEF KeepsTarget
  <2>5. placement'[a] = placement[a] /\ (Running(a) => Running(a)')
    BY <1>3, <2>3 DEF KeepsIt, Running
  <2>6. Truth'
    BY <2>1, <2>5 DEF Truth, IngressKept
  <2> QED
    BY <1>2, <1>5, <2>4, <2>6 DEF RoutingInv, IngressKept, IngressTypeOK, Follows
<1> QED
  BY <1>4, <1>5

LEMMA ActiveHandler ==
    ASSUME PlacedInv, RoutingInv, IngressKept, phase = "resolve",
           ~Syncing(ActiveService), Handler(ActiveService)
    PROVE  RoutingInv'
<1> DEFINE a == ActiveService
<1>1. a \in Services /\ KeepsTarget(<<>>) /\ KeepsTarget(RestartedPlan(a))
  BY RoutingAssumption, PlansKeepTarget
<1>2. CASE Write(a)
  BY <1>2, ActiveWrite
<1>3. ASSUME ~Write(a)
      PROVE  observed' = observed /\ placement' = placement
  BY <1>3, StoreSame DEF Handler, Schedule, Finish, DeployReply, RetireReply, RestartReply,
                         StopReply, ManualReply, UndoReply
<1>4. CASE Schedule(a)
  <2>1. job[a].pc = "schedule" /\ job'[a].pc \in {"sync", "deploy"}
        /\ (job'[a].pc = "deploy" => todo'[a] = <<>>)
    BY <1>1, <1>4, Installs DEF Schedule, At
  <2> QED
    BY <1>1, <1>2, <1>3, <2>1, WillSynchronise, GoesOn
<1>5. CASE DeployReply(a)
  <2>1. /\ job[a].pc = "deploy" /\ job'[a].pc \in {"sync", "commit", "retire"}
        /\ job'[a].pc = "retire" => todo'[a] = <<>>
    BY <1>1, <1>5, DeployContinues, Installs
  <2> QED
    BY <1>1, <1>2, <1>3, <2>1, WillSynchronise, GoesOn
<1>6. CASE RetireReply(a) \/ StopReply(a)
  <2>1. job'[a].pc \in {"commit", "sync"}
    BY <1>1, <1>6, Installs DEF RetireReply, StopReply
  <2> QED
    BY <2>1, WillSynchronise
<1>7. CASE RestartReply(a)
  <2>1. /\ job[a].pc = "restart"
        /\ job'[a].pc = "sync" \/ (job'[a].pc = "exit" /\ todo'[a] = RestartedPlan(a))
    BY <1>1, <1>7, Installs DEF RestartReply, At
  <2> QED
    BY <1>1, <1>2, <1>3, <2>1, WillSynchronise, GoesOn
<1>8. CASE ManualReply(a)
  <2>1. /\ job[a].pc = "manual"
        /\ job'[a].pc = "sync" \/ (job'[a].pc = "idle" /\ todo'[a] = <<>>)
    BY <1>1, <1>8, Installs DEF ManualReply, At
  <2> QED
    BY <1>1, <1>2, <1>3, <2>1, WillSynchronise, GoesOn
<1>9. CASE Finish(a)
  <2>1. job[a].pc = "exit" /\ job'[a].pc = "idle" /\ todo'[a] = <<>>
    BY <1>1, <1>9, Installs DEF Finish, Syncing
  <2> QED
    BY <1>1, <1>2, <1>3, <2>1, GoesOn
<1>10. ~UndoReply(a)
  BY DEF RoutingInv, UndoReply, At
<1> QED
  BY <1>2, <1>4, <1>5, <1>6, <1>7, <1>8, <1>9, <1>10 DEF Handler

\* Requests, reports and the reconciler start a handler when none is there.
LEMMA ActiveStarts ==
    ASSUME PlacedInv, RoutingInv, IngressKept, NEW s \in Services, s = ActiveService,
           \/ Request(s) \/ Retry(s)
           \/ \E n \in Nodes : Unreachable(s, n)
    PROVE  RoutingInv'
<1>1. /\ KeepsTarget(<<>>) /\ KeepsTarget(<<W("pending", FALSE)>>)
      /\ KeepsTarget(DeployPlan) /\ KeepsTarget(CountedPlan(s)) /\ KeepsTarget(HealthyPlan(s))
  BY PlansKeepTarget
<1>2. Idle(s) /\ observed' = observed /\ placement' = placement
  BY StoreSame DEF Request, Report, CrashReport, HealthyReport, UnhealthyReport,
                   DeployRequest, StopRequest, RestartRequest, Retry, Unreachable
<1>3. phase = "resolve"
  BY <1>2 DEF RoutingInv, Syncing, Idle
<1>4. CASE UNCHANGED <<job, todo>>
  BY <1>2, <1>4, TargetKept
<1>5. ASSUME NEW p, NEW o, NEW n, NEW t, NEW plan, Start(s, p, o, n, t, plan),
             p # "sync" => p \notin {"commit", "undo"} /\ KeepsTarget(plan)
      PROVE  RoutingInv'
  <2>1. job'[s].pc = p /\ todo'[s] = plan
    BY <1>5, Installs
  <2>2. KeepsTarget(plan) => KeepsTarget(todo[s])'
    BY <2>1 DEF KeepsTarget
  <2> QED
    BY <1>2, <1>3, <1>5, <2>1, <2>2, WillSynchronise, GoesOn DEF Idle
<1>6. CASE Request(s)
  <2>1. DeployRequest(s) \/ StopRequest(s) \/ RestartRequest(s) => RoutingInv'
    BY <1>1, <1>5 DEF DeployRequest, StopRequest, RestartRequest
  <2>2. Report(s) => RoutingInv'
    BY <1>1, <1>5 DEF Report, CrashReport, HealthyReport, UnhealthyReport, Recover
  <2> QED
    BY <1>6, <2>1, <2>2 DEF Request
<1>7. CASE Retry(s)
  BY <1>1, <1>4, <1>5, <1>7 DEF Retry
<1>8. CASE \E n \in Nodes : Unreachable(s, n)
  BY <1>1, <1>4, <1>5, <1>8 DEF Unreachable
<1> QED
  BY <1>6, <1>7, <1>8

-----------------------------------------------------------------------------
(* Synchronisation *)

LEMMA SyncKept ==
    ASSUME PlacedInv, RoutingInv, NEW s \in Services, Sync(s)
    PROVE  RoutingInv'
<1> DEFINE a == ActiveService
<1>1. /\ s = a /\ Syncing(a) /\ a \in Services
      /\ placement[a] \in Nodes \cup {NoNode} /\ NoNode \notin Nodes
      /\ NoFile \notin Nodes \cup {NoNode}
      /\ IngressTypeOK
  BY Parts, RoutingAssumption DEF Sync, SyncResolves, SyncReloads, SyncReturns, Syncing, RoutingInv
<1>2. ASSUME Finish(a)
      PROVE  job'[a].pc = "idle" /\ todo'[a] = <<>> /\ observed' = observed /\ placement' = placement
  BY <1>1, <1>2, Installs, StoreSame DEF Finish
<1>3. ASSUME UNCHANGED vars
      PROVE  job' = job /\ todo' = todo /\ observed' = observed /\ placement' = placement
  BY <1>3, StoreSame DEF vars
<1>4. KeepsTarget(<<>>)
  BY <1>1, PlansKeepTarget
<1>5. CASE SyncResolves(s)
  <2>1. PICK decision \in Decisions(Running(a), KnownNode(a)) : Resolves(decision)
    BY <1>1, <1>5 DEF SyncResolves
  <2>2. /\ IF phase' = "resolve" THEN Finish(a) ELSE UNCHANGED vars
        /\ observed' = observed /\ placement' = placement
    BY <1>1, <1>2, <1>3, <1>5 DEF SyncResolves
  <2>3. \/ decision = To(NoNode)
        \/ Running(a) /\ placement[a] \in Nodes /\ decision \in {To(placement[a]), Keep}
    BY <1>1, <2>1 DEF Decisions, KnownNode
  <2>4. Truth'
    <3>1. CASE decision = To(NoNode)
      BY <1>1, <2>1, <3>1 DEF Truth, Resolves, To
    <3>2. CASE Running(a) /\ decision = To(placement[a])
      BY <2>1, <2>2, <3>2 DEF Truth, Resolves, To, Running
    <3>3. CASE Running(a) /\ decision = Keep
      BY <2>1, <2>2, <3>3 DEF Truth, Resolves, Keep, Running
    <3> QED
      BY <2>3, <3>1, <3>2, <3>3
  <2>5. IngressTypeOK' /\ phase = "resolve" /\ UNCHANGED <<nginx, event>>
        /\ phase' = (IF upstream' # upstream THEN "reload" ELSE "resolve")
    <3>1. decision.target \in Nodes \cup {NoNode}
      BY <2>3 DEF To, Keep
    <3> QED
      BY <1>1, <2>1, <3>1 DEF IngressTypeOK, Resolves
  <2>6. Follows
    BY <2>5 DEF RoutingInv
  <2>7. CASE upstream' = upstream
    <3>1. Follows' /\ phase' = "resolve" /\ job'[a].pc = "idle" /\ todo'[a] = <<>>
      BY <1>2, <2>2, <2>5, <2>6, <2>7 DEF Follows
    <3> QED
      BY <1>4, <2>4, <2>5, <3>1 DEF RoutingInv
  <2>8. CASE upstream' # upstream
    <3>1. phase' = "reload" /\ job' = job /\ todo' = todo
      BY <1>3, <2>2, <2>5, <2>8
    <3>2. Syncing(a)'
      BY <1>1, <3>1 DEF Syncing
    <3> QED
      BY <2>4, <2>5, <3>1, <3>2 DEF RoutingInv, Syncing
  <2> QED
    BY <2>7, <2>8
<1>6. CASE SyncReloads(s)
  <2>1. /\ job' = job /\ todo' = todo /\ observed' = observed /\ placement' = placement
        /\ ReloadSucceeds \/ ReloadFails
    BY <1>3, <1>6 DEF SyncReloads
  <2>2. Truth'
    BY <2>1 DEF RoutingInv, Truth, Running, ReloadSucceeds, ReloadFails
  <2>3. IngressTypeOK' /\ phase' \in {"updated", "failed"} /\ (phase' = "updated" => nginx' = upstream')
    BY <1>1, <2>1 DEF IngressTypeOK, ReloadSucceeds, ReloadFails, Reloadable
  <2>4. Syncing(a)'
    BY <1>1, <2>1 DEF Syncing
  <2> QED
    BY <2>2, <2>3, <2>4 DEF RoutingInv, Syncing
<1>7. CASE SyncReturns(s)
  <2>1. /\ job'[a].pc = "idle" /\ todo'[a] = <<>> /\ observed' = observed /\ placement' = placement
        /\ Records
    BY <1>1, <1>2, <1>7 DEF SyncReturns
  <2>2. Truth'
    BY <2>1 DEF RoutingInv, Truth, Running, Records
  <2>3. IngressTypeOK' /\ phase' = "resolve"
    BY <1>1, <2>1 DEF IngressTypeOK, Records
  <2>4. Follows'
    BY <2>1 DEF RoutingInv, Follows, Records
  <2> QED
    BY <1>4, <2>1, <2>2, <2>3, <2>4 DEF RoutingInv
<1> QED
  BY <1>5, <1>6, <1>7 DEF Sync

\* nginx starts and dies whatever the controller is doing.
LEMMA NginxKept ==
    ASSUME RoutingInv, NginxStarts \/ NginxDies, UNCHANGED vars
    PROVE  RoutingInv'
<1>1. job' = job /\ todo' = todo /\ observed' = observed /\ placement' = placement
  BY StoreSame DEF vars
<1>2. /\ UNCHANGED <<upstream, phase, event, unread>>
      /\ nginx' \in {NoNode, upstream} /\ nginx' \in Nodes \cup {NoNode}
  BY DEF NginxStarts, NginxDies
<1>3. Truth => Truth'
  BY <1>1, <1>2 DEF Truth, Running
<1>4. IngressTypeOK' /\ Follows'
  BY <1>2 DEF RoutingInv, IngressTypeOK, Follows
<1>5. Syncing(ActiveService) => Syncing(ActiveService)'
  BY <1>1 DEF Syncing
<1> QED
  BY <1>1, <1>2, <1>3, <1>4, <1>5 DEF RoutingInv

-----------------------------------------------------------------------------
(* The invariant *)

LEMMA InitRouting == RInit => RoutingInv
<1> SUFFICES ASSUME RInit PROVE RoutingInv
  OBVIOUS
<1>1. Init /\ IngressInit /\ ActiveService \in Services /\ NoFile \notin Nodes
  BY RoutingAssumption DEF RInit
<1>2. job[ActiveService].pc = "idle" /\ todo[ActiveService] = <<>>
  BY <1>1, NoJobType DEF Init
<1>3. IngressTypeOK /\ Truth /\ Follows /\ phase = "resolve"
  BY <1>1 DEF IngressInit, IngressTypeOK, Truth, Follows
<1>4. KeepsTarget(<<>>)
  BY DEF KeepsTarget
<1> QED
  BY <1>2, <1>3, <1>4 DEF RoutingInv

LEMMA NextRouting == PlacedInv /\ RoutingInv /\ [RNext]_rvars => RoutingInv'
<1> SUFFICES ASSUME PlacedInv, RoutingInv, [RNext]_rvars PROVE RoutingInv'
  OBVIOUS
<1>1. ASSUME UNCHANGED ingress PROVE IngressKept
  BY <1>1 DEF ingress, IngressKept
<1>2. ASSUME NEW s \in Services, IngressKept,
             \/ Handler(s) /\ ~Syncing(s)
             \/ Request(s) \/ Retry(s)
             \/ \E n \in Nodes : Unreachable(s, n)
      PROVE  RoutingInv'
  <2>1. CASE s # ActiveService
    BY <1>2, <2>1, OthersAlone, TargetKept, RoutingAssumption
  <2>2. CASE s = ActiveService /\ Handler(s) /\ ~Syncing(s)
    <3>1. phase = "resolve"
      BY <2>2 DEF RoutingInv
    <3> QED
      BY <1>2, <2>2, <3>1, ActiveHandler
  <2>3. CASE /\ s = ActiveService
             /\ \/ Request(s) \/ Retry(s)
                \/ \E n \in Nodes : Unreachable(s, n)
    BY <1>2, <2>3, ActiveStarts
  <2> QED
    BY <1>2, <2>1, <2>2, <2>3
<1>3. ASSUME IngressKept, UNCHANGED <<store, job, todo>>
      PROVE  RoutingInv'
  BY <1>3, StoreSame, TargetKept
<1>4. CASE \E s \in Services : RHandler(s) \/ (Request(s) /\ UNCHANGED ingress)
  BY <1>1, <1>2, <1>4, SyncKept DEF RHandler
<1>5. CASE (Reconcile \/ Tick) /\ UNCHANGED ingress
  <2>1. CASE \E s \in Services : Retry(s) \/ \E n \in Nodes : Unreachable(s, n)
    BY <1>1, <1>2, <1>5, <2>1
  <2>2. CASE RoundStart \/ MarkUnavailable \/ ListPlacements \/ ListPending \/ RoundEnd \/ Tick
    BY <1>1, <1>3, <1>5, <2>2
    DEF RoundStart, MarkUnavailable, ListPlacements, ListPending, RoundEnd, Tick
  <2> QED
    BY <1>5, <2>1, <2>2 DEF Reconcile
<1>6. CASE \E n \in Nodes : (Heartbeat(n) \/ StaleSnapshot(n)) /\ UNCHANGED ingress
  BY <1>1, <1>3, <1>6 DEF Heartbeat, StaleSnapshot
<1>7. CASE (NginxStarts \/ NginxDies) /\ UNCHANGED vars
  BY <1>7, NginxKept
<1>8. CASE UNCHANGED rvars
  BY <1>1, <1>3, <1>8 DEF rvars, vars
<1> QED
  BY <1>4, <1>5, <1>6, <1>7, <1>8 DEF RNext

\* The inductive invariant of the ingress, for any number of services and nodes,
\* whatever nginx, Docker and the agents do.
THEOREM RoutingInvariant == RSpec => []RoutingInv
<1>1. RSpec => []PlacedInv
  BY RoutingRefinesController, Invariant, PTL
<1>2. RInit /\ [][RNext]_rvars /\ []PlacedInv => []RoutingInv
  BY InitRouting, NextRouting, PTL
<1> QED
  BY <1>1, <1>2, PTL DEF RSpec

\* ingress_manager.py never leaves a node in the upstream file that the active
\* service is not shown as running and placed on, unless the agent of its new
\* node could not be read.
THEOREM TheFileIsTrue == RSpec => []FileIsTrue
<1>1. RoutingInv => FileIsTrue
  BY DEF RoutingInv, FileIsTrue, Idle
<1> QED
  BY <1>1, RoutingInvariant, PTL

\* nginx runs with the target of the file between handlers, or the failed reload
\* is the last event of the ingress.
THEOREM DivergencesAreRecorded == RSpec => []DivergenceIsRecorded
<1>1. RoutingInv => DivergenceIsRecorded
  BY DEF RoutingInv, DivergenceIsRecorded, Idle, Syncing
<1> QED
  BY <1>1, RoutingInvariant, PTL

=============================================================================

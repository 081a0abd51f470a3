---------------------------- MODULE RecoveryProofs ----------------------------
(***************************************************************************)
(* Proofs about the recoveries of Controller, with every fault: the budget *)
(* of restarts in place, the recovery slot, the node of a placement, and   *)
(* what a step may never do to a placement or to a stopped service.        *)
(***************************************************************************)
EXTENDS ControllerProofs

-----------------------------------------------------------------------------
(* The entries of a plan *)

LEMMA NoEntries == Entries(<<>>) = {}
BY DEF Entries

LEMMA OneEntry == ASSUME NEW a PROVE Entries(<<a>>) = {a}
BY DEF Entries

LEMMA TwoEntries == ASSUME NEW a, NEW b PROVE Entries(<<a, b>>) = {a, b}
BY DEF Entries

LEMMA ThreeEntries == ASSUME NEW a, NEW b, NEW c PROVE Entries(<<a, b, c>>) = {a, b, c}
BY DEF Entries

LEMMA FourEntries ==
    ASSUME NEW a, NEW b, NEW c, NEW d PROVE Entries(<<a, b, c, d>>) = {a, b, c, d}
BY DEF Entries

LEMMA FiveEntries ==
    ASSUME NEW a, NEW b, NEW c, NEW d, NEW e PROVE Entries(<<a, b, c, d, e>>) = {a, b, c, d, e}
BY DEF Entries

LEMMA SixEntries ==
    ASSUME NEW a, NEW b, NEW c, NEW d, NEW e, NEW f
    PROVE  Entries(<<a, b, c, d, e, f>>) = {a, b, c, d, e, f}
BY DEF Entries

LEMMA EntriesOfTail ==
    ASSUME NEW S, NEW p \in Seq(S), p # <<>>
    PROVE  /\ Head(p) \in Entries(p)
           /\ Entries(Tail(p)) \subseteq Entries(p)
           /\ Len(p) \in Nat \ {0}
           /\ Len(Tail(p)) = Len(p) - 1
           /\ Len(p) = 1 => Tail(p) = <<>>
<1>1. /\ Head(p) = p[1] /\ Len(p) \in Nat \ {0} /\ DOMAIN p = 1..Len(p)
      /\ Len(Tail(p)) = Len(p) - 1
      /\ DOMAIN Tail(p) = 1..(Len(p) - 1)
      /\ \A i \in 1..(Len(p) - 1) : Tail(p)[i] = p[i + 1]
  OBVIOUS
<1>2. Entries(Tail(p)) \subseteq Entries(p)
  BY <1>1 DEF Entries
<1>3. Head(p) \in Entries(p)
  BY <1>1 DEF Entries
<1> QED
  BY <1>1, <1>2, <1>3

LEMMA EntriesOfConcatenation ==
    ASSUME NEW S, NEW p \in Seq(S), NEW q \in Seq(S)
    PROVE  Entries(p \o q) \subseteq Entries(p) \cup Entries(q)
<1>1. /\ DOMAIN (p \o q) = 1..(Len(p) + Len(q)) /\ DOMAIN p = 1..Len(p) /\ DOMAIN q = 1..Len(q)
      /\ Len(p) \in Nat /\ Len(q) \in Nat
  OBVIOUS
<1>2. \A i \in 1..(Len(p) + Len(q)) : (p \o q)[i] = IF i <= Len(p) THEN p[i] ELSE q[i - Len(p)]
  OBVIOUS
<1>3. \A i \in 1..(Len(p) + Len(q)) : i \in 1..Len(p) \/ i - Len(p) \in 1..Len(q)
  BY <1>1
<1> QED
  BY <1>1, <1>2, <1>3 DEF Entries

\* Writes that fit everywhere.
Plain(w) ==
    /\ w.key = "restarts" => w.val = 0
    /\ w.key = "placement" => w.val = NoNode
    /\ w.key = "desired" => w.val # "running"

LEMMA PlainFits ==
    ASSUME NEW plan, \A w \in Entries(plan) : Plain(w), NEW count, NEW homes, NEW wish
    PROVE  Fits(plan, count, homes, wish)
BY DEF Plain, Fits

LEMMA PlainWrites ==
    ASSUME NEW v
    PROVE  /\ Plain(W("observed", v)) /\ Plain(W("pending", v)) /\ Plain(W("generation", v))
           /\ Plain(W("cooldown", v)) /\ Plain(W("restarts", 0)) /\ Plain(W("placement", NoNode))
           /\ Plain(W("desired", "deploying")) /\ Plain(W("desired", "stopped"))
BY DEF Plain, W

\* The plans that neither count a restart nor place the service nor make it
\* wanted.
LEMMA PlainPlans ==
    ASSUME NEW s \in Services, NEW at, NEW count, NEW homes, NEW wish
    PROVE  /\ Fits(<<>>, count, homes, wish)
           /\ Fits(<<W("pending", FALSE)>>, count, homes, wish)
           /\ Fits(DeployPlan, count, homes, wish)
           /\ Fits(PlacementFailedPlan, count, homes, wish)
           /\ Fits(DeployFailedPlan, count, homes, wish)
           /\ Fits(StoppedPlan(s), count, homes, wish)
           /\ Fits(ManuallyRestartedPlan(s), count, homes, wish)
           /\ Fits(NodeMissingPlan(s, at), count, homes, wish)
           /\ Fits(RestartedPlan(s), count, homes, wish)
           /\ Fits(RestartFailedPlan(s), count, homes, wish)
           /\ Fits(NoCandidatePlan(s), count, homes, wish)
           /\ Fits(NoReplacementPlan(s), count, homes, wish)
           /\ Fits(RescheduleFailedPlan(s), count, homes, wish)
           /\ Fits(EvacuationFailedPlan(s), count, homes, wish)
<1>1. ASSUME NEW a, NEW b, NEW c, Plain(a), Plain(b), Plain(c)
      PROVE  /\ Fits(<<>>, count, homes, wish) /\ Fits(<<a>>, count, homes, wish)
             /\ Fits(<<a, b>>, count, homes, wish) /\ Fits(<<a, b, c>>, count, homes, wish)
  <2>1. /\ \A w \in Entries(<<>>) : Plain(w)
        /\ \A w \in Entries(<<a>>) : Plain(w)
        /\ \A w \in Entries(<<a, b>>) : Plain(w)
        /\ \A w \in Entries(<<a, b, c>>) : Plain(w)
    BY <1>1, NoEntries, OneEntry, TwoEntries, ThreeEntries
  <2> QED
    BY <2>1, PlainFits
<1>2. Fits(StoppedPlan(s), count, homes, wish)
  <2> DEFINE p == <<W("observed", Observation("stopped", NoNode, 0)), W("placement", NoNode),
                    W("pending", FALSE), W("restarts", 0)>>
             q == IF desired[s] = "none" THEN <<>> ELSE <<W("desired", "stopped")>>
  <2>1. StoppedPlan(s) = p \o q
    BY DEF StoppedPlan
  <2>2. p \in Seq(Writes) /\ q \in Seq(Writes)
    <3>1. W("observed", Observation("stopped", NoNode, 0)) \in Writes
      BY ObservedWrites
    <3>2. p \in Seq(Writes)
      BY <3>1, FixedWrites, Tuples
    <3>3. q \in Seq(Writes)
      BY FixedWrites
    <3> QED
      BY <3>2, <3>3
  <2>3. \A w \in Entries(p) : Plain(w)
    <3>1. ASSUME NEW a, NEW b, NEW c, NEW d, Plain(a), Plain(b), Plain(c), Plain(d)
          PROVE  \A w \in Entries(<<a, b, c, d>>) : Plain(w)
      BY <3>1, FourEntries
    <3> QED
      BY <3>1, PlainWrites
  <2>4. \A w \in Entries(q) : Plain(w)
    <3>1. \A w \in Entries(<<>>) : Plain(w)
      BY NoEntries
    <3>2. \A w \in Entries(<<W("desired", "stopped")>>) : Plain(w)
      BY OneEntry, PlainWrites
    <3> QED
      BY <3>1, <3>2
  <2> HIDE DEF p, q
  <2>5. Entries(p \o q) \subseteq Entries(p) \cup Entries(q)
    BY <2>2, EntriesOfConcatenation
  <2> QED
    BY <2>1, <2>3, <2>4, <2>5, PlainFits
<1>3. /\ Fits(<<>>, count, homes, wish)
      /\ Fits(<<W("pending", FALSE)>>, count, homes, wish)
      /\ Fits(DeployPlan, count, homes, wish)
      /\ Fits(ManuallyRestartedPlan(s), count, homes, wish)
  BY <1>1, PlainWrites DEF DeployPlan, ManuallyRestartedPlan
<1>4. /\ Fits(PlacementFailedPlan, count, homes, wish)
      /\ Fits(DeployFailedPlan, count, homes, wish)
      /\ Fits(NoReplacementPlan(s), count, homes, wish)
      /\ Fits(EvacuationFailedPlan(s), count, homes, wish)
  BY <1>1, PlainWrites
  DEF PlacementFailedPlan, DeployFailedPlan, NoReplacementPlan, EvacuationFailedPlan
<1>5. /\ Fits(NodeMissingPlan(s, at), count, homes, wish)
      /\ Fits(RestartedPlan(s), count, homes, wish)
      /\ Fits(RestartFailedPlan(s), count, homes, wish)
      /\ Fits(NoCandidatePlan(s), count, homes, wish)
      /\ Fits(RescheduleFailedPlan(s), count, homes, wish)
  BY <1>1, PlainWrites
  DEF NodeMissingPlan, RestartedPlan, RestartFailedPlan, NoCandidatePlan, RescheduleFailedPlan
<1> QED
  BY <1>2, <1>3, <1>4, <1>5

\* Writes of a plan that places the service on one of homes and wants it.
Suits(w, homes, wish) ==
    /\ w.key = "restarts" => w.val = 0
    /\ w.key = "placement" => w.val \in homes
    /\ w.key = "desired" => w.val = "running" /\ wish # "stopped"

LEMMA SuitedPlans ==
    ASSUME NEW a, NEW b, NEW c, NEW d, NEW e, NEW f, NEW count, NEW homes, NEW wish,
           Suits(a, homes, wish), Suits(b, homes, wish), Suits(c, homes, wish),
           Suits(d, homes, wish), Suits(e, homes, wish), Suits(f, homes, wish)
    PROVE  /\ Fits(<<a, b, c, d, e>>, count, homes, wish)
           /\ Fits(<<a, b, c, d, e, f>>, count, homes, wish)
<1>1. \A w \in Entries(<<a, b, c, d, e>>) : Suits(w, homes, wish)
  BY FiveEntries
<1>2. \A w \in Entries(<<a, b, c, d, e, f>>) : Suits(w, homes, wish)
  BY SixEntries
<1> QED
  BY <1>1, <1>2 DEF Fits, Suits

LEMMA SuitedWrites ==
    ASSUME NEW v, NEW n, NEW homes, NEW wish, n \in homes
    PROVE  /\ Suits(W("observed", v), homes, wish) /\ Suits(W("pending", v), homes, wish)
           /\ Suits(W("generation", v), homes, wish) /\ Suits(W("cooldown", v), homes, wish)
           /\ Suits(W("restarts", 0), homes, wish) /\ Suits(W("placement", n), homes, wish)
           /\ wish # "stopped" => Suits(W("desired", "running"), homes, wish)
BY DEF Suits, W

\* The plans that record a container started on n.
LEMMA PlacingPlansFit ==
    ASSUME NEW s \in Services, NEW n, NEW count, NEW homes, NEW wish, n \in homes
    PROVE  /\ wish # "stopped" => Fits(DeployedPlan(n), count, homes, wish)
           /\ Fits(RescheduledPlan(s, n), count, homes, wish)
           /\ Fits(EvacuatedPlan(s, n), count, homes, wish)
<1>1. /\ \A v : /\ Suits(W("observed", v), homes, wish) /\ Suits(W("pending", v), homes, wish)
                /\ Suits(W("generation", v), homes, wish) /\ Suits(W("cooldown", v), homes, wish)
      /\ Suits(W("restarts", 0), homes, wish) /\ Suits(W("placement", n), homes, wish)
      /\ wish # "stopped" => Suits(W("desired", "running"), homes, wish)
  BY SuitedWrites
<1>2. wish # "stopped" => Fits(DeployedPlan(n), count, homes, wish)
  BY <1>1, SuitedPlans DEF DeployedPlan
<1>3. Fits(RescheduledPlan(s, n), count, homes, wish)
  BY <1>1, SuitedPlans DEF RescheduledPlan
<1>4. Fits(EvacuatedPlan(s, n), count, homes, wish)
  BY <1>1, SuitedPlans DEF EvacuatedPlan
<1> QED
  BY <1>2, <1>3, <1>4

LEMMA ReportPlansFit ==
    ASSUME NEW s \in Services, NEW homes, NEW wish, NEW count
    PROVE  /\ Entries(CountedPlan(s)) = {W("restarts", restarts[s] + 1)}
           /\ Fits(CountedPlan(s), restarts[s], homes, wish)
           /\ wish # "stopped" => Fits(HealthyPlan(s), count, homes, wish)
<1>1. Entries(CountedPlan(s)) = {W("restarts", restarts[s] + 1)} /\ Len(CountedPlan(s)) = 1
  BY OneEntry DEF CountedPlan
<1>2. Fits(CountedPlan(s), restarts[s], homes, wish)
  BY <1>1 DEF Fits, W
<1>3. ASSUME wish # "stopped" PROVE Fits(HealthyPlan(s), count, homes, wish)
  <2>1. /\ \A v : /\ Suits(W("observed", v), homes, wish) /\ Suits(W("pending", v), homes, wish)
                  /\ Suits(W("cooldown", v), homes, wish)
        /\ Suits(W("restarts", 0), homes, wish)
        /\ Suits(W("desired", "running"), homes, wish)
    BY <1>3 DEF Suits, W
  <2> QED
    BY <2>1, SuitedPlans DEF HealthyPlan
<1> QED
  BY <1>1, <1>2, <1>3

-----------------------------------------------------------------------------
(* One service at a time *)

\* What RecoveryInv says of one service.
StateKept(s) ==
    /\ inPlace[s] <= restarts[s] /\ inPlace[s] <= MaxRestartAttempts
    /\ placement[s] # NoNode => node[placement[s]] # "unknown"

Kept(s) ==
    /\ StateKept(s)
    /\ Fits(todo[s], restarts[s], Homes(s), desired[s])
    /\ JobFits(s)

\* A node that is known once is never unknown again.
NodesStayKnown == \A n \in Nodes : node[n] # "unknown" => node'[n] # "unknown"

LEMMA Parts ==
    ASSUME PlacedInv, NEW s \in Services
    PROVE  /\ StoreOK /\ JobsOK /\ RoundOK /\ WorldOK
           /\ job[s] \in JobRecords
           /\ job[s].target \in Nodes \cup {NoNode} /\ job[s].from \in Nodes \cup {NoNode}
           /\ todo[s] \in Seq(Writes)
           /\ hosts[s] \subseteq Nodes
           /\ placement[s] \in Nodes \cup {NoNode}
           /\ restarts[s] \in Nat /\ inPlace[s] \in Nat
           /\ desired[s] \in DesiredStatus
           /\ JobSafe(s)
           /\ NoNode \notin Nodes
           /\ MaxRestartAttempts \in Nat
BY InvParts, AtService, ConstantsAssumption DEF StoreOK

LEMMA WiderHomes ==
    ASSUME NEW plan, NEW count, NEW homes, NEW wider, NEW wish, homes \subseteq wider,
           Fits(plan, count, homes, wish)
    PROVE  Fits(plan, count, wider, wish)
BY DEF Fits

LEMMA OthersKept ==
    ASSUME PlacedInv, RecoveryInv, NodesStayKnown, NEW t \in Services,
           /\ job'[t] = job[t] /\ todo'[t] = todo[t] /\ hosts'[t] = hosts[t]
           /\ recovering'[t] = recovering[t] /\ inPlace'[t] = inPlace[t]
           /\ restarts'[t] = restarts[t] /\ placement'[t] = placement[t]
           /\ desired'[t] = desired[t]
    PROVE  Kept(t)'
<1>1. Kept(t)
  BY DEF RecoveryInv, Kept, StateKept
<1>2. StateKept(t)'
  BY <1>1, Parts DEF Kept, StateKept, NodesStayKnown
<1>3. Fits(todo[t], restarts[t], Homes(t), desired[t])'
  <2>1. Homes(t) \subseteq Homes(t)'
    BY Parts DEF Homes, NodesStayKnown
  <2> QED
    BY <1>1, <2>1, WiderHomes DEF Kept
<1>4. JobFits(t)'
  <2>1. job[t].pc \in {"deploy", "retire"} => node'[job[t].target] # "unknown"
    BY <1>1, Parts DEF Kept, JobFits, JobSafe, NodesStayKnown
  <2>2. DeployPlan' = DeployPlan
    BY DEF DeployPlan, W
  <2> QED
    BY <1>1, <2>1, <2>2 DEF Kept, JobFits, Idle
<1> QED
  BY <1>2, <1>3, <1>4 DEF Kept

LEMMA OneService ==
    ASSUME PlacedInv, RecoveryInv, NodesStayKnown, NEW s \in Services, Kept(s)',
           \A t \in Services \ {s} :
               /\ job'[t] = job[t] /\ todo'[t] = todo[t] /\ hosts'[t] = hosts[t]
               /\ recovering'[t] = recovering[t] /\ inPlace'[t] = inPlace[t]
               /\ restarts'[t] = restarts[t] /\ placement'[t] = placement[t]
               /\ desired'[t] = desired[t]
    PROVE  RecoveryInv'
<1>1. \A t \in Services : Kept(t)'
  BY OthersKept
<1> QED
  BY <1>1 DEF RecoveryInv, Kept, StateKept

\* The store of the other services, and all of it when it is not written.
LEMMA StoreSame ==
    ASSUME UNCHANGED store
    PROVE  UNCHANGED <<desired, observed, placement, pending, restarts, generation, inPlace>>
BY DEF store

LEMMA Agent ==
    ASSUME PlacedInv, NEW s \in Services, NEW after, NEW ok \in BOOLEAN, AgentExecutes(s, after, ok)
    PROVE  /\ \A t \in Services \ {s} : hosts'[t] = hosts[t]
           /\ hosts'[s] \in {hosts[s], after}
           /\ ok => hosts'[s] = after
BY DEF PlacedInv, TypeOK, WorldOK, AgentExecutes

\* A job and a plan that are installed together.
LEMMA InstalledKept ==
    ASSUME PlacedInv, RecoveryInv, NEW s \in Services, NEW r \in JobRecords, NEW plan,
           job' = [job EXCEPT ![s] = r], todo' = [todo EXCEPT ![s] = plan],
           UNCHANGED <<desired, placement, restarts, node>>,
           \A t \in Services \ {s} : /\ hosts'[t] = hosts[t] /\ inPlace'[t] = inPlace[t]
                                     /\ recovering'[t] = recovering[t],
           inPlace'[s] <= restarts[s] /\ inPlace'[s] <= MaxRestartAttempts,
           Fits(plan, restarts[s], Homes(s)', desired[s]),
           r.pc = "idle" => recovering'[s] = {},
           r.pc = "restart" =>
               /\ r.target = placement[s] /\ desired[s] # "stopped"
               /\ \A w \in Entries(plan) : w.key = "restarts" /\ w.val # 0
               /\ inPlace'[s] < restarts[s] + Len(plan)
               /\ restarts[s] + Len(plan) <= MaxRestartAttempts,
           r.pc = "schedule" /\ r.op = "deploy" =>
               plan = DeployPlan \/ (plan = <<>> /\ desired[s] = "deploying"),
           r.pc \in {"deploy", "retire"} =>
               /\ plan = <<>>
               /\ r.target # r.from /\ node[r.target] # "unknown"
               /\ r.op = "deploy" => desired[s] = "deploying",
           r.pc = "retire" => r.target \in hosts'[s]
    PROVE  RecoveryInv'
<1>1. /\ job'[s] = r /\ todo'[s] = plan
      /\ \A t \in Services \ {s} : job'[t] = job[t] /\ todo'[t] = todo[t]
  BY DEF PlacedInv, TypeOK, JobsOK
<1>2. StateKept(s)'
  BY DEF RecoveryInv, StateKept
<1>3. Fits(todo[s], restarts[s], Homes(s), desired[s])'
  BY <1>1
<1>4. JobFits(s)'
  <2>1. DeployPlan' = DeployPlan
    BY DEF DeployPlan, W
  <2> QED
    BY <1>1, <2>1 DEF JobFits, Idle
<1>5. NodesStayKnown
  BY DEF NodesStayKnown
<1> QED
  BY <1>1, <1>2, <1>3, <1>4, <1>5, OneService DEF Kept

LEMMA StartsKept ==
    ASSUME PlacedInv, RecoveryInv, NEW s \in Services, NEW p \in Points, NEW o \in Operations,
           NEW n \in Nodes \cup {NoNode}, NEW t \in Nat, NEW plan, Start(s, p, o, n, t, plan),
           UNCHANGED <<store, node, hosts>>,
           \A u \in Services \ {s} : recovering'[u] = recovering[u],
           p \notin {"idle", "deploy", "retire"},
           p = "schedule" /\ o = "deploy" => plan = DeployPlan,
           p = "restart" =>
               /\ n = placement[s] /\ desired[s] # "stopped"
               /\ plan = CountedPlan(s) /\ restarts[s] + 1 <= MaxRestartAttempts,
           Fits(plan, restarts[s], Homes(s), desired[s])
    PROVE  RecoveryInv'
<1> DEFINE r == [pc |-> p, op |-> o, target |-> n, from |-> n, at |-> t]
<1>1. r \in JobRecords /\ r.pc = p /\ r.op = o /\ r.target = n
  BY DEF JobRecords
<1>2. job' = [job EXCEPT ![s] = r] /\ todo' = [todo EXCEPT ![s] = plan]
  BY DEF Start
<1>3. UNCHANGED <<desired, placement, restarts, inPlace, node, hosts>> /\ Homes(s)' = Homes(s)
  BY StoreSame DEF Homes
<1>4. inPlace[s] <= restarts[s] /\ inPlace[s] <= MaxRestartAttempts
  BY DEF RecoveryInv
<1>5. p = "restart" =>
         /\ \A w \in Entries(plan) : w.key = "restarts" /\ w.val # 0
         /\ inPlace[s] < restarts[s] + Len(plan)
         /\ restarts[s] + Len(plan) <= MaxRestartAttempts
  <2>1. Entries(CountedPlan(s)) = {W("restarts", restarts[s] + 1)} /\ Len(CountedPlan(s)) = 1
    BY ReportPlansFit DEF CountedPlan
  <2>2. restarts[s] \in Nat /\ inPlace[s] \in Nat
    BY Parts
  <2>3. \A w \in Entries(CountedPlan(s)) : w.key = "restarts" /\ w.val # 0
    BY <2>1, <2>2 DEF W
  <2>4. inPlace[s] < restarts[s] + Len(CountedPlan(s))
    BY <1>4, <2>1, <2>2
  <2> QED
    BY <2>1, <2>3, <2>4
<1> HIDE DEF r
<1> QED
  BY <1>1, <1>2, <1>3, <1>4, <1>5, InstalledKept

LEMMA ContinuesKept ==
    ASSUME PlacedInv, RecoveryInv, NEW s \in Services, NEW p \in Points,
           NEW n \in Nodes \cup {NoNode}, NEW plan, Continue(s, p, n, plan),
           UNCHANGED <<desired, placement, restarts, node, recovering>>,
           \A u \in Services \ {s} : hosts'[u] = hosts[u] /\ inPlace'[u] = inPlace[u],
           inPlace'[s] <= restarts[s] /\ inPlace'[s] <= MaxRestartAttempts,
           p \notin {"idle", "restart", "schedule"},
           p \in {"deploy", "retire"} =>
               /\ plan = <<>>
               /\ n # job[s].from /\ node[n] # "unknown"
               /\ job[s].op = "deploy" => desired[s] = "deploying",
           p = "retire" => n \in hosts'[s],
           Fits(plan, restarts[s], Homes(s)', desired[s])
    PROVE  RecoveryInv'
<1> DEFINE r == [job[s] EXCEPT !.pc = p, !.target = n]
<1>1. job[s] \in JobRecords
  BY Parts
<1>2. r \in JobRecords /\ r.pc = p /\ r.op = job[s].op /\ r.target = n /\ r.from = job[s].from
  BY <1>1 DEF JobRecords
<1>3. job' = [job EXCEPT ![s] = r] /\ todo' = [todo EXCEPT ![s] = plan]
  BY DEF Continue
<1> HIDE DEF r
<1> QED
  BY <1>2, <1>3, InstalledKept

LEMMA LeavesKept ==
    ASSUME PlacedInv, RecoveryInv, NEW s \in Services, Leave(s), UNCHANGED <<store, node>>,
           \A u \in Services \ {s} : hosts'[u] = hosts[u]
    PROVE  RecoveryInv'
<1>1. UNCHANGED <<desired, placement, restarts, inPlace>>
  BY StoreSame
<1>2. job' = [job EXCEPT ![s] = NoJob] /\ todo' = [todo EXCEPT ![s] = <<>>]
  BY DEF Leave
<1>3. recovering'[s] = {} /\ \A u \in Services \ {s} : recovering'[u] = recovering[u]
  BY DEF Leave, PlacedInv, TypeOK, JobsOK
<1>4. Fits(<<>>, restarts[s], Homes(s)', desired[s])
  BY NoEntries DEF Fits
<1>5. NoJob \in JobRecords /\ NoJob.pc = "idle"
  BY NoJobType
<1>6. inPlace[s] <= restarts[s] /\ inPlace[s] <= MaxRestartAttempts
  BY DEF RecoveryInv
<1> QED
  BY <1>1, <1>2, <1>3, <1>4, <1>5, <1>6, InstalledKept

-----------------------------------------------------------------------------
(* The steps *)

\* The first write of a plan, alone.
LEMMA PerformedWrite ==
    ASSUME StoreOK, NEW s \in Services, NEW w \in Writes, Perform(s, w)
    PROVE  /\ \A t \in Services \ {s} : /\ desired'[t] = desired[t] /\ placement'[t] = placement[t]
                                        /\ restarts'[t] = restarts[t] /\ inPlace'[t] = inPlace[t]
           /\ desired'[s] = IF w.key = "desired" THEN w.val ELSE desired[s]
           /\ placement'[s] = IF w.key = "placement" THEN w.val ELSE placement[s]
           /\ restarts'[s] = IF w.key = "restarts" THEN w.val ELSE restarts[s]
           /\ inPlace'[s] = IF w.key = "restarts" /\ w.val = 0 THEN 0 ELSE inPlace[s]
BY DEF StoreOK, Perform, Put

LEMMA PerformedState ==
    ASSUME PlacedInv, RecoveryInv, NEW s \in Services, todo[s] # <<>>, Perform(s, Head(todo[s])),
           UNCHANGED node
    PROVE  StateKept(s)'
<1> DEFINE w == Head(todo[s])
<1>1. w \in Writes /\ w \in Entries(todo[s]) /\ Len(todo[s]) \in Nat
  BY Parts, EntriesOfTail
<1>2. /\ placement'[s] = IF w.key = "placement" THEN w.val ELSE placement[s]
      /\ restarts'[s] = IF w.key = "restarts" THEN w.val ELSE restarts[s]
      /\ inPlace'[s] = IF w.key = "restarts" /\ w.val = 0 THEN 0 ELSE inPlace[s]
  BY <1>1, Parts, PerformedWrite
<1>3. /\ w.key = "restarts" => w.val = 0 \/ w.val = restarts[s] + 1
      /\ w.key = "placement" => w.val = NoNode \/ node[w.val] # "unknown"
  BY <1>1 DEF RecoveryInv, Fits, Homes
<1>4. /\ inPlace[s] <= restarts[s] /\ inPlace[s] <= MaxRestartAttempts
      /\ placement[s] # NoNode => node[placement[s]] # "unknown"
      /\ restarts[s] \in Nat /\ inPlace[s] \in Nat /\ MaxRestartAttempts \in Nat
  BY Parts DEF RecoveryInv
<1> HIDE DEF w
<1>5. inPlace'[s] <= restarts'[s] /\ inPlace'[s] <= MaxRestartAttempts
  BY <1>2, <1>3, <1>4
<1>6. placement'[s] # NoNode => node'[placement'[s]] # "unknown"
  BY <1>2, <1>3, <1>4
<1> QED
  BY <1>5, <1>6 DEF StateKept

LEMMA WriteKept ==
    ASSUME PlacedInv, RecoveryInv, NEW s \in Services, Write(s)
    PROVE  RecoveryInv'
<1> DEFINE w == Head(todo[s])
           rest == Tail(todo[s])
<1>1. /\ todo[s] # <<>> /\ Perform(s, w)
      /\ UNCHANGED <<node, recovering, job, round, hosts, now>>
  BY DEF Write
<1>2. /\ w \in Writes /\ w \in Entries(todo[s]) /\ Entries(rest) \subseteq Entries(todo[s])
      /\ Len(todo[s]) \in Nat \ {0} /\ Len(rest) = Len(todo[s]) - 1
      /\ Len(todo[s]) = 1 => rest = <<>>
  BY <1>1, Parts, EntriesOfTail
<1>3. todo'[s] = rest /\ \A t \in Services \ {s} : todo'[t] = todo[t]
  BY DEF Write, PlacedInv, TypeOK, JobsOK
<1>4. /\ \A t \in Services \ {s} : /\ desired'[t] = desired[t] /\ placement'[t] = placement[t]
                                   /\ restarts'[t] = restarts[t] /\ inPlace'[t] = inPlace[t]
      /\ desired'[s] = IF w.key = "desired" THEN w.val ELSE desired[s]
      /\ placement'[s] = IF w.key = "placement" THEN w.val ELSE placement[s]
      /\ restarts'[s] = IF w.key = "restarts" THEN w.val ELSE restarts[s]
      /\ inPlace'[s] = IF w.key = "restarts" /\ w.val = 0 THEN 0 ELSE inPlace[s]
  BY <1>1, <1>2, Parts, PerformedWrite
<1>5. Fits(todo[s], restarts[s], Homes(s), desired[s]) /\ JobFits(s)
  BY DEF RecoveryInv
<1>6. StateKept(s)'
  BY <1>1, PerformedState
<1> HIDE DEF w, rest
<1>7. Fits(todo[s], restarts[s], Homes(s), desired[s])'
  <2>1. Homes(s)' = Homes(s)
    BY <1>1 DEF Homes
  <2> SUFFICES ASSUME NEW v \in Entries(rest)
               PROVE  /\ v.key = "restarts" => v.val = 0 \/ (v.val = restarts'[s] + 1 /\ Len(rest) = 1)
                      /\ v.key = "placement" => v.val = NoNode \/ v.val \in Homes(s)
                      /\ v.key = "desired" /\ v.val = "running" =>
                            /\ desired'[s] # "stopped"
                            /\ \A u \in Entries(rest) : u.key = "desired" => u.val = "running"
    BY <1>3, <2>1 DEF Fits
  <2>2. v \in Entries(todo[s])
    BY <1>2
  <2>3. v.key = "restarts" => v.val = 0
    <3>1. Len(todo[s]) # 1
      BY <1>2, NoEntries
    <3> QED
      BY <1>5, <2>2, <3>1 DEF Fits
  <2>4. v.key = "placement" => v.val = NoNode \/ v.val \in Homes(s)
    BY <1>5, <2>2 DEF Fits
  <2>5. v.key = "desired" /\ v.val = "running" =>
           /\ desired'[s] # "stopped"
           /\ \A u \in Entries(rest) : u.key = "desired" => u.val = "running"
    BY <1>2, <1>4, <1>5, <2>2 DEF Fits
  <2> QED
    BY <2>3, <2>4, <2>5
<1>8. JobFits(s)'
  <2>1. Idle(s)' => recovering'[s] = {}
    BY <1>1, <1>5 DEF JobFits, Idle
  <2>2. ASSUME job[s].pc = "restart"
        PROVE  /\ job[s].target = placement'[s] /\ desired'[s] # "stopped"
               /\ \A v \in Entries(rest) : v.key = "restarts" /\ v.val # 0
               /\ inPlace'[s] < restarts'[s] + Len(rest)
               /\ restarts'[s] + Len(rest) <= MaxRestartAttempts
    <3>1. /\ w.key = "restarts" /\ w.val # 0
          /\ job[s].target = placement[s] /\ desired[s] # "stopped"
          /\ \A v \in Entries(todo[s]) : v.key = "restarts" /\ v.val # 0
          /\ inPlace[s] < restarts[s] + Len(todo[s])
          /\ restarts[s] + Len(todo[s]) <= MaxRestartAttempts
      BY <1>2, <1>5, <2>2 DEF JobFits
    <3>2. w.val = restarts[s] + 1 /\ Len(todo[s]) = 1
      BY <1>2, <1>5, <3>1 DEF Fits
    <3>3. restarts[s] \in Nat
      BY Parts
    <3> QED
      BY <1>2, <1>4, <3>1, <3>2, <3>3
  <2>3. ASSUME job[s].pc = "schedule", job[s].op = "deploy"
        PROVE  rest = <<>> /\ desired'[s] = "deploying"
    <3>1. todo[s] = DeployPlan
      BY <1>1, <1>5, <2>3 DEF JobFits
    <3>2. Len(todo[s]) = 1 /\ w = W("desired", "deploying")
      BY <3>1, OneEntry, <1>2 DEF DeployPlan
    <3> QED
      BY <1>2, <1>4, <3>2 DEF W
  <2>4. job[s].pc \notin {"deploy", "retire"}
    BY <1>1, <1>5 DEF JobFits
  <2> QED
    BY <1>1, <1>3, <2>1, <2>2, <2>3, <2>4 DEF JobFits
<1>9. NodesStayKnown
  BY <1>1 DEF NodesStayKnown
<1>10. /\ job' = job /\ recovering' = recovering /\ hosts' = hosts
  BY <1>1
<1> QED
  BY <1>3, <1>4, <1>6, <1>7, <1>8, <1>9, <1>10, OneService DEF Kept

LEMMA ScheduleKept ==
    ASSUME PlacedInv, RecoveryInv, NEW s \in Services, Schedule(s)
    PROVE  RecoveryInv'
<1>1. /\ At(s, "schedule") /\ UNCHANGED <<store, node, cooldown, recovering, round, hosts, now>>
  BY DEF Schedule
<1>2. UNCHANGED <<desired, placement, restarts, inPlace>>
  BY <1>1, StoreSame
<1>3. inPlace[s] <= restarts[s] /\ inPlace[s] <= MaxRestartAttempts /\ JobFits(s)
  BY DEF RecoveryInv
<1>4. job[s].op \in {"deploy", "reschedule", "unreachable"}
  BY <1>1, Parts DEF JobSafe, At
<1>5. PICK n \in Schedulable(Nodes \ {job[s].from}) :
         IF n = NoNode THEN Continue(s, "sync", n, UnscheduledPlan(s))
                       ELSE Continue(s, "deploy", n, <<>>)
  BY DEF Schedule
<1>6. n \in Nodes \cup {NoNode}
  BY DEF Schedulable
<1>7. CASE n = NoNode
  <2>1. Continue(s, "sync", n, UnscheduledPlan(s))
    BY <1>5, <1>7
  <2>2. Fits(UnscheduledPlan(s), restarts[s], Homes(s)', desired[s])
    BY <1>4, PlainPlans DEF UnscheduledPlan
  <2> QED
    BY <1>1, <1>2, <1>3, <1>6, <2>1, <2>2, PointsListed, ContinuesKept
<1>8. CASE n # NoNode
  <2>1. Continue(s, "deploy", n, <<>>)
    BY <1>5, <1>8
  <2>2. n # job[s].from /\ node[n] # "unknown"
    BY <1>8 DEF Schedulable
  <2>3. job[s].op = "deploy" => desired[s] = "deploying"
    BY <1>1, <1>3 DEF JobFits, At, DeployPlan
  <2>4. Fits(<<>>, restarts[s], Homes(s)', desired[s])
    BY PlainPlans
  <2> QED
    BY <1>1, <1>2, <1>3, <1>6, <2>1, <2>2, <2>3, <2>4, PointsListed, ContinuesKept
<1> QED
  BY <1>7, <1>8

LEMMA DeployKept ==
    ASSUME PlacedInv, RecoveryInv, NEW s \in Services, DeployReply(s)
    PROVE  RecoveryInv'
<1> DEFINE n == job[s].target
<1>1. At(s, "deploy") /\ UNCHANGED <<store, node, cooldown, recovering, round, now>>
  BY DEF DeployReply
<1>2. UNCHANGED <<desired, placement, restarts, inPlace>>
  BY <1>1, StoreSame
<1>3. /\ inPlace[s] <= restarts[s] /\ inPlace[s] <= MaxRestartAttempts
      /\ n # job[s].from /\ node[n] # "unknown"
      /\ job[s].op = "deploy" => desired[s] = "deploying"
  BY <1>1 DEF RecoveryInv, JobFits, At
<1>4. n \in Nodes /\ job[s].op \in {"deploy", "reschedule", "unreachable"}
  BY <1>1, Parts DEF JobSafe, At
<1>5. PICK ok \in BOOLEAN : /\ AgentExecutes(s, hosts[s] \cup {n}, ok)
                            /\ IF ok THEN DeploySucceeds(s) ELSE DeployFails(s)
  BY DEF DeployReply
<1>6. /\ \A u \in Services \ {s} : hosts'[u] = hosts[u]
      /\ ok => hosts'[s] = hosts[s] \cup {n}
  BY <1>5, Agent
<1> HIDE DEF n
<1>7. CASE ok
  <2>1. n \in hosts'[s] /\ n \in Homes(s)'
    BY <1>1, <1>3, <1>6, <1>7 DEF Homes
  <2>2. CASE job[s].op = "reschedule"
    <3>1. Continue(s, "retire", n, <<>>)
      BY <1>5, <1>7, <2>2 DEF DeploySucceeds, n
    <3>2. Fits(<<>>, restarts[s], Homes(s)', desired[s])
      BY PlainPlans
    <3> QED
      BY <1>1, <1>2, <1>3, <1>4, <1>6, <2>1, <2>2, <3>1, <3>2, PointsListed, ContinuesKept
  <2>3. CASE job[s].op = "deploy"
    <3>1. Continue(s, "commit", n, DeployedPlan(n))
      BY <1>5, <1>7, <2>3 DEF DeploySucceeds, n
    <3>2. Fits(DeployedPlan(n), restarts[s], Homes(s)', desired[s])
      BY <1>3, <2>1, <2>3, PlacingPlansFit
    <3> QED
      BY <1>1, <1>2, <1>3, <1>4, <1>6, <3>1, <3>2, PointsListed, ContinuesKept
  <2>4. CASE job[s].op = "unreachable"
    <3>1. Continue(s, "commit", n, EvacuatedPlan(s, n))
      BY <1>5, <1>7, <2>4 DEF DeploySucceeds, n
    <3>2. Fits(EvacuatedPlan(s, n), restarts[s], Homes(s)', desired[s])
      BY <2>1, PlacingPlansFit
    <3> QED
      BY <1>1, <1>2, <1>3, <1>4, <1>6, <3>1, <3>2, PointsListed, ContinuesKept
  <2> QED
    BY <1>4, <2>2, <2>3, <2>4
<1>8. CASE ~ok
  <2> DEFINE plan == CASE job[s].op = "deploy" -> DeployFailedPlan
                       [] job[s].op = "reschedule" -> RescheduleFailedPlan(s)
                       [] job[s].op = "unreachable" -> EvacuationFailedPlan(s)
  <2>1. Continue(s, "sync", n, plan)
    BY <1>5, <1>8 DEF DeployFails, n
  <2>2. Fits(plan, restarts[s], Homes(s)', desired[s])
    BY <1>4, PlainPlans
  <2> HIDE DEF plan
  <2> QED
    BY <1>1, <1>2, <1>3, <1>4, <1>6, <2>1, <2>2, PointsListed, ContinuesKept
<1> QED
  BY <1>7, <1>8

LEMMA RetireKept ==
    ASSUME PlacedInv, RecoveryInv, NEW s \in Services, RetireReply(s)
    PROVE  RecoveryInv'
<1> DEFINE n == job[s].target
<1>1. At(s, "retire") /\ UNCHANGED <<store, node, cooldown, recovering, round, now>>
  BY DEF RetireReply
<1>2. UNCHANGED <<desired, placement, restarts, inPlace>>
  BY <1>1, StoreSame
<1>3. /\ inPlace[s] <= restarts[s] /\ inPlace[s] <= MaxRestartAttempts
      /\ n # job[s].from /\ node[n] # "unknown" /\ n \in hosts[s]
  BY <1>1 DEF RecoveryInv, JobFits, At
<1>4. n \in Nodes
  BY <1>1, Parts DEF JobSafe, At
<1>5. PICK ok \in BOOLEAN : AgentExecutes(s, hosts[s] \ {job[s].from}, ok)
  BY DEF RetireReply
<1>6. /\ \A u \in Services \ {s} : hosts'[u] = hosts[u]
      /\ hosts'[s] \in {hosts[s], hosts[s] \ {job[s].from}}
  BY <1>5, Agent
<1>7. Continue(s, "commit", n, RescheduledPlan(s, n))
  BY DEF RetireReply
<1> HIDE DEF n
<1>8. n \in Homes(s)'
  BY <1>1, <1>3, <1>6 DEF Homes
<1>9. Fits(RescheduledPlan(s, n), restarts[s], Homes(s)', desired[s])
  BY <1>8, PlacingPlansFit
<1> QED
  BY <1>1, <1>2, <1>3, <1>4, <1>6, <1>7, <1>9, PointsListed, ContinuesKept

LEMMA RestartKept ==
    ASSUME PlacedInv, RecoveryInv, NEW s \in Services, RestartReply(s)
    PROVE  RecoveryInv'
<1> DEFINE n == job[s].target
<1>1. /\ At(s, "restart")
      /\ UNCHANGED <<desired, observed, placement, pending, restarts, generation,
                     node, cooldown, recovering, round, now>>
  BY DEF RestartReply
<1>2. inPlace[s] < restarts[s] /\ restarts[s] <= MaxRestartAttempts
  <2>1. inPlace[s] < restarts[s] + Len(todo[s]) /\ restarts[s] + Len(todo[s]) <= MaxRestartAttempts
    BY <1>1 DEF RecoveryInv, JobFits, At
  <2>2. Len(todo[s]) = 0 /\ restarts[s] \in Nat
    BY <1>1, Parts DEF At
  <2> QED
    BY <2>1, <2>2
<1>3. n \in Nodes \cup {NoNode}
  BY Parts
<1>4. PICK ok \in BOOLEAN :
         /\ AgentExecutes(s, hosts[s] \cup {n}, ok)
         /\ IF ok
            THEN /\ Continue(s, "exit", n, RestartedPlan(s))
                 /\ inPlace' = [inPlace EXCEPT ![s] = @ + 1]
            ELSE /\ Continue(s, "sync", n, RestartFailedPlan(s))
                 /\ UNCHANGED inPlace
  BY DEF RestartReply
<1>5. \A u \in Services \ {s} : hosts'[u] = hosts[u]
  BY <1>4, Agent
<1>6. /\ restarts[s] \in Nat /\ inPlace[s] \in Nat /\ MaxRestartAttempts \in Nat
      /\ inPlace \in [Services -> Nat]
  BY Parts DEF StoreOK
<1>7. /\ Fits(RestartedPlan(s), restarts[s], Homes(s)', desired[s])
      /\ Fits(RestartFailedPlan(s), restarts[s], Homes(s)', desired[s])
  BY PlainPlans
<1> HIDE DEF n
<1>8. CASE ok
  <2>1. Continue(s, "exit", n, RestartedPlan(s)) /\ inPlace' = [inPlace EXCEPT ![s] = @ + 1]
    BY <1>4, <1>8
  <2>2. /\ inPlace'[s] = inPlace[s] + 1
        /\ \A u \in Services \ {s} : inPlace'[u] = inPlace[u]
    BY <1>6, <2>1
  <2>3. inPlace'[s] <= restarts[s] /\ inPlace'[s] <= MaxRestartAttempts
    BY <1>2, <1>6, <2>2
  <2> QED
    BY <1>1, <1>3, <1>5, <1>7, <2>1, <2>2, <2>3, PointsListed, ContinuesKept
<1>9. CASE ~ok
  <2>1. Continue(s, "sync", n, RestartFailedPlan(s)) /\ UNCHANGED inPlace
    BY <1>4, <1>9
  <2>2. inPlace'[s] <= restarts[s] /\ inPlace'[s] <= MaxRestartAttempts
    BY <1>2, <1>6, <2>1
  <2> QED
    BY <1>1, <1>3, <1>5, <1>7, <2>1, <2>2, PointsListed, ContinuesKept
<1> QED
  BY <1>8, <1>9

LEMMA StopKept ==
    ASSUME PlacedInv, RecoveryInv, NEW s \in Services, StopReply(s)
    PROVE  RecoveryInv'
<1>1. /\ UNCHANGED <<store, node, cooldown, recovering, round, now>>
      /\ Continue(s, "sync", job[s].target, StoppedPlan(s))
  BY DEF StopReply
<1>2. UNCHANGED <<desired, placement, restarts, inPlace>>
  BY <1>1, StoreSame
<1>3. inPlace[s] <= restarts[s] /\ inPlace[s] <= MaxRestartAttempts
  BY DEF RecoveryInv
<1>4. \A u \in Services \ {s} : hosts'[u] = hosts[u]
  BY Agent DEF StopReply
<1>5. Fits(StoppedPlan(s), restarts[s], Homes(s)', desired[s])
  BY PlainPlans
<1>6. job[s].target \in Nodes \cup {NoNode}
  BY Parts
<1> QED
  BY <1>1, <1>2, <1>3, <1>4, <1>5, <1>6, PointsListed, ContinuesKept

LEMMA ManualKept ==
    ASSUME PlacedInv, RecoveryInv, NEW s \in Services, ManualReply(s)
    PROVE  RecoveryInv'
<1>1. UNCHANGED <<store, node, cooldown, round, now>>
  BY DEF ManualReply
<1>2. UNCHANGED <<desired, placement, restarts, inPlace>>
  BY <1>1, StoreSame
<1>3. \A u \in Services \ {s} : hosts'[u] = hosts[u]
  BY Agent DEF ManualReply
<1>4. CASE Leave(s)
  BY <1>1, <1>3, <1>4, LeavesKept
<1>5. CASE /\ Continue(s, "sync", job[s].target, ManuallyRestartedPlan(s))
           /\ UNCHANGED recovering
  <2>1. inPlace[s] <= restarts[s] /\ inPlace[s] <= MaxRestartAttempts
    BY DEF RecoveryInv
  <2>2. Fits(ManuallyRestartedPlan(s), restarts[s], Homes(s)', desired[s])
    BY PlainPlans
  <2>3. job[s].target \in Nodes \cup {NoNode}
    BY Parts
  <2> QED
    BY <1>1, <1>2, <1>3, <1>5, <2>1, <2>2, <2>3, PointsListed, ContinuesKept
<1> QED
  BY <1>4, <1>5 DEF ManualReply

LEMMA ReturnsKept ==
    ASSUME PlacedInv, RecoveryInv, NEW s \in Services, Finish(s) \/ UndoReply(s)
    PROVE  RecoveryInv'
<1>1. Leave(s) /\ UNCHANGED <<store, node>>
  BY DEF Finish, UndoReply
<1>2. \A u \in Services \ {s} : hosts'[u] = hosts[u]
  BY Agent DEF Finish, UndoReply
<1> QED
  BY <1>1, <1>2, LeavesKept

\* Redis fails in the middle of a handler: the write it was about to make may
\* have been made, and nothing else of its plan.
LEMMA StoreFailsKept ==
    ASSUME PlacedInv, RecoveryInv, NEW s \in Services, StoreFails(s)
    PROVE  RecoveryInv'
<1>1. UNCHANGED <<node, hosts, now>>
  BY DEF StoreFails
<1>2. /\ StateKept(s)'
      /\ \A t \in Services \ {s} : /\ desired'[t] = desired[t] /\ placement'[t] = placement[t]
                                   /\ restarts'[t] = restarts[t] /\ inPlace'[t] = inPlace[t]
  <2>1. CASE UNCHANGED <<store, cooldown>>
    BY <1>1, <2>1, StoreSame DEF RecoveryInv, StateKept
  <2>2. CASE todo[s] # <<>> /\ Perform(s, Head(todo[s]))
    <3>1. Head(todo[s]) \in Writes
      BY <2>2, Parts, EntriesOfTail
    <3> QED
      BY <1>1, <2>2, <3>1, Parts, PerformedState, PerformedWrite
  <2> QED
    BY <2>1, <2>2 DEF StoreFails
<1>3. PICK r \in JobRecords :
         /\ job' = [job EXCEPT ![s] = r] /\ todo' = [todo EXCEPT ![s] = <<>>]
         /\ r.pc \in {"idle", "undo"}
         /\ r.pc = "idle" => recovering'[s] = {}
         /\ \A t \in Services \ {s} : recovering'[t] = recovering[t]
  <2>1. recovering \in [Services -> SUBSET Nat]
    BY Parts DEF JobsOK
  <2>2. CASE Leave(s)
    BY <2>1, <2>2, NoJobType DEF Leave
  <2>3. CASE Continue(s, "undo", job[s].target, <<>>) /\ UNCHANGED recovering
    <3>1. job[s] \in JobRecords /\ job[s].target \in Nodes \cup {NoNode} /\ "undo" \in Points
      BY Parts, PointsListed
    <3>2. [job[s] EXCEPT !.pc = "undo", !.target = job[s].target] \in JobRecords
      BY <3>1 DEF JobRecords
    <3>3. [job[s] EXCEPT !.pc = "undo", !.target = job[s].target].pc = "undo"
      BY <3>1 DEF JobRecords
    <3> QED
      BY <2>3, <3>2, <3>3 DEF Continue
  <2> QED
    BY <2>2, <2>3 DEF StoreFails
<1>4. /\ job'[s] = r /\ todo'[s] = <<>>
      /\ \A t \in Services \ {s} : job'[t] = job[t] /\ todo'[t] = todo[t]
  BY <1>3 DEF PlacedInv, TypeOK, JobsOK
<1>5. Fits(todo[s], restarts[s], Homes(s), desired[s])'
  BY <1>4, NoEntries DEF Fits
<1>6. JobFits(s)'
  BY <1>3, <1>4 DEF JobFits, Idle
<1>7. NodesStayKnown
  BY <1>1 DEF NodesStayKnown
<1> QED
  BY <1>1, <1>2, <1>3, <1>4, <1>5, <1>6, <1>7, OneService DEF Kept

LEMMA RequestsKept ==
    ASSUME PlacedInv, RecoveryInv, NEW s \in Services,
           DeployRequest(s) \/ StopRequest(s) \/ RestartRequest(s)
    PROVE  RecoveryInv'
<1>1. UNCHANGED <<store, node, cooldown, recovering, round, hosts, now>>
  BY DEF DeployRequest, StopRequest, RestartRequest
<1>2. /\ Fits(DeployPlan, restarts[s], Homes(s), desired[s])
      /\ Fits(StoppedPlan(s), restarts[s], Homes(s), desired[s])
      /\ Fits(<<>>, restarts[s], Homes(s), desired[s])
      /\ placement[s] \in Nodes \cup {NoNode} /\ NoNode \in Nodes \cup {NoNode} /\ 0 \in Nat
  BY PlainPlans, Parts
<1>3. PICK p \in {"schedule", "stop", "sync", "manual"}, o \in {"deploy", "stop", "manual"},
           n \in {NoNode, placement[s]}, plan \in {DeployPlan, StoppedPlan(s), <<>>} :
         /\ Start(s, p, o, n, 0, plan)
         /\ p = "schedule" => plan = DeployPlan
  BY DEF DeployRequest, StopRequest, RestartRequest
<1>4. p \in Points /\ o \in Operations /\ p \notin {"idle", "deploy", "retire", "restart"}
  BY PointsListed
<1>5. Fits(plan, restarts[s], Homes(s), desired[s]) /\ n \in Nodes \cup {NoNode}
  BY <1>2
<1> QED
  BY <1>1, <1>2, <1>3, <1>4, <1>5, StartsKept

LEMMA RecoverKept ==
    ASSUME PlacedInv, RecoveryInv, NEW s \in Services, NEW t \in Nat, Recover(s, t),
           desired[s] # "stopped", UNCHANGED <<store, node, cooldown, round, hosts, now>>
    PROVE  RecoveryInv'
<1>1. \A u \in Services \ {s} : recovering'[u] = recovering[u]
  BY Parts DEF Recover, JobsOK
<1>2. Fits(CountedPlan(s), restarts[s], Homes(s), desired[s]) /\ placement[s] \in Nodes \cup {NoNode}
  BY ReportPlansFit, Parts
<1>3. CASE /\ Start(s, "restart", "restart", placement[s], t, CountedPlan(s))
           /\ restarts[s] + 1 <= MaxRestartAttempts
  BY <1>1, <1>2, <1>3, PointsListed, StartsKept
<1>4. CASE Start(s, "schedule", "reschedule", placement[s], t, CountedPlan(s))
  BY <1>1, <1>2, <1>4, PointsListed, StartsKept
<1> QED
  BY <1>3, <1>4 DEF Recover

LEMMA ReportKept ==
    ASSUME PlacedInv, RecoveryInv, NEW s \in Services, Report(s)
    PROVE  RecoveryInv'
<1>1. PICK n \in Nodes, t \in 0..now, g \in Generations(s) :
         CrashReport(s, n, t, g) \/ HealthyReport(s, n, g) \/ UnhealthyReport(s, n, t, g)
  BY DEF Report
<1>2. /\ UNCHANGED <<store, node, cooldown, round, hosts, now>>
      /\ desired[s] # "stopped" /\ t \in Nat /\ 0 \in Nat /\ n \in Nodes \cup {NoNode}
  BY <1>1, Parts DEF CrashReport, HealthyReport, UnhealthyReport, Accepted, WorldOK
<1>3. CASE Recover(s, t)
  BY <1>2, <1>3, RecoverKept
<1>4. CASE Start(s, "exit", "healthy", n, 0, HealthyPlan(s)) /\ UNCHANGED recovering
  BY <1>2, <1>4, ReportPlansFit, PointsListed, StartsKept
<1>5. CASE Start(s, "sync", "unhealthy", n, t, NodeMissingPlan(s, t)) /\ UNCHANGED recovering
  BY <1>2, <1>5, PlainPlans, PointsListed, StartsKept
<1> QED
  BY <1>1, <1>3, <1>4, <1>5 DEF CrashReport, HealthyReport, UnhealthyReport

LEMMA RoundHandlersKept ==
    ASSUME PlacedInv, RecoveryInv, NEW s \in Services,
           Retry(s) \/ \E n \in Nodes : Unreachable(s, n)
    PROVE  RecoveryInv'
<1>1. UNCHANGED <<store, node, cooldown, recovering, hosts, now>>
  BY DEF Retry, Unreachable
<1>2. UNCHANGED <<desired, placement, restarts, inPlace>>
  BY <1>1, StoreSame
<1>3. round.at \in Nat /\ 0 \in Nat /\ NoNode \in Nodes \cup {NoNode}
  BY Parts DEF RoundOK
<1>4. CASE UNCHANGED <<job, todo>>
  BY <1>1, <1>2, <1>4, OthersKept DEF RecoveryInv, Kept, StateKept, NodesStayKnown
<1>5. CASE Start(s, "exit", "retry", NoNode, 0, <<W("pending", FALSE)>>)
  BY <1>1, <1>3, <1>5, PlainPlans, PointsListed, StartsKept
<1>6. CASE Start(s, "schedule", "deploy", NoNode, 0, DeployPlan)
  BY <1>1, <1>3, <1>6, PlainPlans, PointsListed, StartsKept
<1>7. CASE \E n \in Nodes : Start(s, "schedule", "unreachable", n, round.at, <<>>)
  BY <1>1, <1>3, <1>7, PlainPlans, PointsListed, StartsKept
<1> QED
  BY <1>4, <1>5, <1>6, <1>7 DEF Retry, Unreachable

\* Steps that touch no service.
LEMMA WorldKept ==
    ASSUME PlacedInv, RecoveryInv, UNCHANGED <<store, recovering, job, todo, hosts>>, NodesStayKnown
    PROVE  RecoveryInv'
<1>1. UNCHANGED <<desired, placement, restarts, inPlace>>
  BY StoreSame
<1> QED
  BY <1>1, OthersKept DEF RecoveryInv, Kept, StateKept

LEMMA CrashKept ==
    ASSUME PlacedInv, RecoveryInv, ControllerCrash
    PROVE  RecoveryInv'
<1>1. UNCHANGED <<desired, placement, restarts, inPlace, node>>
  BY StoreSame DEF ControllerCrash
<1>2. \A s \in Services : job'[s] = NoJob /\ todo'[s] = <<>> /\ recovering'[s] = {}
  BY DEF ControllerCrash
<1>3. \A s \in Services : JobFits(s)'
  BY <1>2, NoJobType DEF JobFits
<1>4. \A s \in Services : Fits(todo[s], restarts[s], Homes(s), desired[s])'
  BY <1>2, NoEntries DEF Fits
<1> QED
  BY <1>1, <1>3, <1>4 DEF RecoveryInv

-----------------------------------------------------------------------------
(* The invariant *)

LEMMA InitRecovery == Init => RecoveryInv
<1> SUFFICES ASSUME Init, NEW s \in Services
             PROVE  /\ inPlace[s] <= restarts[s] /\ inPlace[s] <= MaxRestartAttempts
                    /\ placement[s] = NoNode
                    /\ Fits(todo[s], restarts[s], Homes(s), desired[s]) /\ JobFits(s)
  BY DEF RecoveryInv
<1>1. inPlace[s] = 0 /\ restarts[s] = 0 /\ MaxRestartAttempts \in Nat /\ placement[s] = NoNode
  BY ConstantsAssumption DEF Init
<1>2. job[s] = NoJob /\ todo[s] = <<>> /\ recovering[s] = {}
  BY DEF Init
<1>3. JobFits(s)
  BY <1>2, NoJobType DEF JobFits
<1>4. Fits(todo[s], restarts[s], Homes(s), desired[s])
  BY <1>2, NoEntries DEF Fits
<1> QED
  BY <1>1, <1>3, <1>4

LEMMA NextRecovery == PlacedInv /\ RecoveryInv /\ [Next]_vars => RecoveryInv'
<1> SUFFICES ASSUME PlacedInv, RecoveryInv, [Next]_vars PROVE RecoveryInv'
  OBVIOUS
<1>1. CASE \E s \in Services : Handler(s)
  BY <1>1, WriteKept, ScheduleKept, ReturnsKept, DeployKept, RetireKept, RestartKept,
     StopKept, ManualKept DEF Handler
<1>2. CASE \E s \in Services : Request(s)
  BY <1>2, RequestsKept, ReportKept DEF Request
<1>3. CASE \E s \in Services : StoreFails(s)
  BY <1>3, StoreFailsKept
<1>4. CASE RoundStart \/ MarkUnavailable \/ ListPlacements \/ ListPending \/ RoundEnd \/ RoundFails
  <2>1. UNCHANGED <<store, recovering, job, todo, hosts>>
    BY <1>4 DEF RoundStart, MarkUnavailable, ListPlacements, ListPending, RoundEnd, RoundFails
  <2>2. NodesStayKnown
    BY <1>4, Parts
    DEF NodesStayKnown, PlacedInv, TypeOK, WorldOK, RoundStart, MarkUnavailable, ListPlacements,
        ListPending, RoundEnd, RoundFails
  <2> QED
    BY <2>1, <2>2, WorldKept
<1>5. CASE \E s \in Services : Retry(s) \/ \E n \in Nodes : Unreachable(s, n)
  BY <1>5, RoundHandlersKept
<1>6. CASE Tick \/ \E n \in Nodes : Heartbeat(n) \/ StaleSnapshot(n)
  <2>1. UNCHANGED <<store, recovering, job, todo, hosts>>
    BY <1>6 DEF Tick, Heartbeat, StaleSnapshot
  <2>2. NodesStayKnown
    BY <1>6 DEF NodesStayKnown, PlacedInv, TypeOK, WorldOK, Tick, Heartbeat, StaleSnapshot
  <2> QED
    BY <2>1, <2>2, WorldKept
<1>7. CASE ControllerCrash
  BY <1>7, CrashKept
<1>8. CASE UNCHANGED vars
  BY <1>8, WorldKept DEF vars, NodesStayKnown
<1> QED
  BY <1>1, <1>2, <1>3, <1>4, <1>5, <1>6, <1>7, <1>8 DEF Next, Reconcile

\* The plans, the jobs and the counters of every recovery fit the state they
\* will be written to, at every await of self_healing.py and service_manager.py
\* and whatever fails.
THEOREM RecoveryInvariant == Spec => []RecoveryInv
BY InitRecovery, NextRecovery, InitInv, NextInv, PTL DEF Spec

\* handle_container_crash never restarts a container in place more often than
\* max_restart_attempts before the counter is reset, although the counter is
\* written before the agent call and either may fail.
THEOREM RestartsStayInBudget == Spec => []RestartBudget
<1>1. RecoveryInv => RestartBudget
  BY DEF RecoveryInv, RestartBudget
<1> QED
  BY <1>1, RecoveryInvariant, PTL

\* _active_recovery never keeps the slot of a service whose handler returned,
\* raised or died.
THEOREM RecoverySlotsAreReleased == Spec => []RecoverySlotReleased
<1>1. RecoveryInv => RecoverySlotReleased
  BY DEF RecoveryInv, JobFits, RecoverySlotReleased
<1> QED
  BY <1>1, RecoveryInvariant, PTL

\* No placement ever names a node that never registered.
THEOREM PlacementsNameKnownNodes == Spec => []PlacementNodeKnown
<1>1. RecoveryInv => PlacementNodeKnown
  BY DEF RecoveryInv, PlacementNodeKnown
<1> QED
  BY <1>1, RecoveryInvariant, PTL

\* The restart of a recovery is sent to the node the service is placed on when
\* it is sent, and never for a stopped service: the lock of the service keeps
\* what the handler read.
THEOREM RestartsReachTheInstance == Spec => []RestartsTheWantedInstance
<1>1. RecoveryInv => RestartsTheWantedInstance
  BY DEF RecoveryInv, JobFits, RestartsTheWantedInstance, At
<1> QED
  BY <1>1, RecoveryInvariant, PTL

-----------------------------------------------------------------------------
(* What a step never does *)

\* Only a write of the plan under way changes a placement or a desired status.
LEMMA OnlyWritesChange ==
    ASSUME PlacedInv, [Next]_vars, NEW s \in Services
    PROVE  \/ desired'[s] = desired[s] /\ placement'[s] = placement[s]
           \/ /\ todo[s] # <<>> /\ Head(todo[s]) \in Entries(todo[s]) /\ hosts' = hosts
              /\ desired'[s] = IF Head(todo[s]).key = "desired" THEN Head(todo[s]).val ELSE desired[s]
              /\ placement'[s] = IF Head(todo[s]).key = "placement" THEN Head(todo[s]).val
                                                                    ELSE placement[s]
<1>1. ASSUME NEW t \in Services, todo[t] # <<>>, Perform(t, Head(todo[t])), hosts' = hosts
      PROVE  \/ desired'[s] = desired[s] /\ placement'[s] = placement[s]
             \/ /\ todo[s] # <<>> /\ Head(todo[s]) \in Entries(todo[s]) /\ hosts' = hosts
                /\ desired'[s] = IF Head(todo[s]).key = "desired" THEN Head(todo[s]).val
                                                                  ELSE desired[s]
                /\ placement'[s] = IF Head(todo[s]).key = "placement" THEN Head(todo[s]).val
                                                                      ELSE placement[s]
  <2>1. Head(todo[t]) \in Writes /\ Head(todo[t]) \in Entries(todo[t])
    BY <1>1, Parts, EntriesOfTail
  <2> QED
    BY <1>1, <2>1, Parts, PerformedWrite
<1>2. CASE \E t \in Services : Write(t) \/ StoreFails(t)
  BY <1>1, <1>2, StoreSame DEF Write, StoreFails
<1>3. CASE ~\E t \in Services : Write(t) \/ StoreFails(t)
  <2> SUFFICES desired' = desired /\ placement' = placement
    OBVIOUS
  <2>1. CASE \E t \in Services : \/ Schedule(t) \/ Finish(t) \/ DeployReply(t) \/ RetireReply(t)
                                \/ RestartReply(t) \/ StopReply(t) \/ ManualReply(t) \/ UndoReply(t)
    BY <2>1, StoreSame
    DEF Schedule, Finish, DeployReply, RetireReply, RestartReply, StopReply, ManualReply, UndoReply
  <2>2. CASE \E t \in Services : Request(t)
    BY <2>2, StoreSame
    DEF Request, DeployRequest, StopRequest, RestartRequest, Report, CrashReport, HealthyReport,
        UnhealthyReport
  <2>3. CASE Reconcile \/ RoundFails
    BY <2>3, StoreSame
    DEF Reconcile, RoundStart, MarkUnavailable, ListPlacements, ListPending, RoundEnd, RoundFails,
        Retry, Unreachable
  <2>4. CASE Tick \/ ControllerCrash \/ \E n \in Nodes : Heartbeat(n) \/ StaleSnapshot(n)
    BY <2>4, StoreSame DEF Tick, ControllerCrash, Heartbeat, StaleSnapshot
  <2>5. CASE UNCHANGED vars
    BY <2>5, StoreSame DEF vars
  <2> QED
    BY <1>3, <2>1, <2>2, <2>3, <2>4, <2>5 DEF Next, Handler
<1> QED
  BY <1>2, <1>3

\* set_placement is reached only after the agent of the node answered that it
\* started the container, in every handler that moves or deploys a service.
THEOREM PlacementsFollowContainers == Spec => PlacedAfterDeploy
<1>1. ASSUME PlacedInv, RecoveryInv, [Next]_vars, NEW s \in Services,
             placement'[s] \notin {placement[s], NoNode}
      PROVE  placement'[s] \in hosts[s]
  BY <1>1, OnlyWritesChange DEF RecoveryInv, Fits, Homes
<1>2. PlacedInv /\ RecoveryInv /\ [Next]_vars =>
         [\A s \in Services : placement'[s] \notin {placement[s], NoNode} => placement'[s] \in hosts[s]]_vars
  BY <1>1
<1> QED
  BY <1>2, Invariant, RecoveryInvariant, PTL DEF Spec, PlacedAfterDeploy

\* A service that was stopped is made wanted again by a deployment only: the
\* writes of a report or of a recovery that was under way were planned before
\* the stop was, and are done before it takes the lock.
THEOREM StoppedStaysStopped == Spec => StoppedOnlyRedeployed
<1>1. ASSUME PlacedInv, RecoveryInv, [Next]_vars, NEW s \in Services, desired[s] = "stopped"
      PROVE  desired'[s] \in {"stopped", "deploying"}
  <2>1. /\ Fits(todo[s], restarts[s], Homes(s), desired[s])
        /\ todo[s] # <<>> => Head(todo[s]) \in Writes
    BY <1>1, Parts, EntriesOfTail DEF RecoveryInv
  <2>2. \A w \in Writes : w.key = "desired" => w.val \in {"deploying", "running", "stopped"}
    BY DEF Writes, DesiredStatus
  <2> QED
    BY <1>1, <2>1, <2>2, OnlyWritesChange DEF Fits
<1>2. PlacedInv /\ RecoveryInv /\ [Next]_vars =>
         [\A s \in Services : desired[s] = "stopped" => desired'[s] \in {"stopped", "deploying"}]_vars
  BY <1>1
<1> QED
  BY <1>2, Invariant, RecoveryInvariant, PTL DEF Spec, StoppedOnlyRedeployed

=============================================================================

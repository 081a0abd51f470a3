----------------------------- MODULE QueueProofs -----------------------------
(***************************************************************************)
(* Proofs about the retry queue of Controller, with every fault: a service *)
(* that self-healing gave up on is queued, or still placed, after every    *)
(* single write.                                                           *)
(***************************************************************************)
EXTENDS RecoveryProofs

-----------------------------------------------------------------------------
(* Plans *)

\* What makes a state recoverable.
Fine(failed, queued, placed) == failed => queued \/ placed

Meek(w) == ~ShowsFailed(w) /\ ~Unqueues(w) /\ ~ClearsPlacement(w)

\* Plans that neither show a failure nor drop what a failure needs.
LEMMA MeekPlans ==
    ASSUME NEW plan, NEW failed, NEW queued, NEW placed, Fine(failed, queued, placed),
           Len(plan) \in Nat, \A i \in 1..Len(plan) : Meek(plan[i])
    PROVE  Recoverable(plan, failed, queued, placed)
<1> SUFFICES ASSUME NEW k \in 0..Len(plan), FailedAfter(k, plan, failed)
             PROVE  QueuedAfter(k, plan, queued) \/ PlacedAfter(k, plan, placed)
  BY DEF Recoverable
<1>1. failed
  BY DEF FailedAfter, Meek
<1> QED
  BY <1>1 DEF Fine, Meek, QueuedAfter, PlacedAfter

\* Plans that queue the service before anything else and leave it queued.
LEMMA QueuingPlans ==
    ASSUME NEW plan, NEW failed, NEW queued, NEW placed, Fine(failed, queued, placed),
           Len(plan) \in Nat \ {0}, Queues(plan[1]), \A i \in 1..Len(plan) : ~Unqueues(plan[i])
    PROVE  Recoverable(plan, failed, queued, placed)
<1> SUFFICES ASSUME NEW k \in 0..Len(plan), FailedAfter(k, plan, failed)
             PROVE  QueuedAfter(k, plan, queued) \/ PlacedAfter(k, plan, placed)
  BY DEF Recoverable
<1>1. CASE k = 0
  BY <1>1 DEF FailedAfter, Fine, QueuedAfter, PlacedAfter
<1>2. CASE k # 0
  BY <1>2 DEF QueuedAfter
<1> QED
  BY <1>1, <1>2

\* Plans that place the service, after harmless writes at most, and keep it placed.
LEMMA SettlingPlans ==
    ASSUME NEW plan, NEW failed, NEW queued, NEW placed, Fine(failed, queued, placed),
           Len(plan) \in Nat, NEW m \in 1..Len(plan), SetsPlacement(plan[m]),
           \A i \in 1..(m - 1) : Meek(plan[i]),
           \A i \in 1..Len(plan) : ~ClearsPlacement(plan[i])
    PROVE  Recoverable(plan, failed, queued, placed)
<1> SUFFICES ASSUME NEW k \in 0..Len(plan), FailedAfter(k, plan, failed)
             PROVE  QueuedAfter(k, plan, queued) \/ PlacedAfter(k, plan, placed)
  BY DEF Recoverable
<1>1. CASE k < m
  <2>1. failed
    BY <1>1 DEF FailedAfter, Meek
  <2> QED
    BY <1>1, <2>1 DEF Fine, Meek, QueuedAfter, PlacedAfter
<1>2. CASE k >= m
  BY <1>2 DEF PlacedAfter
<1> QED
  BY <1>1, <1>2

\* Plans made for a service that is placed and stays so.
LEMMA StayingPlans ==
    ASSUME NEW plan, NEW failed, NEW queued, NEW placed, placed,
           Len(plan) \in Nat, \A i \in 1..Len(plan) : ~ClearsPlacement(plan[i])
    PROVE  Recoverable(plan, failed, queued, placed)
BY DEF Recoverable, PlacedAfter

\* Plans that begin by showing something else than a failure.
LEMMA RecantingPlans ==
    ASSUME NEW plan, NEW failed, NEW queued, NEW placed, Fine(failed, queued, placed),
           Len(plan) \in Nat \ {0}, plan[1].key = "observed",
           \A i \in 1..Len(plan) : ~ShowsFailed(plan[i])
    PROVE  Recoverable(plan, failed, queued, placed)
<1> SUFFICES ASSUME NEW k \in 0..Len(plan), FailedAfter(k, plan, failed)
             PROVE  QueuedAfter(k, plan, queued) \/ PlacedAfter(k, plan, placed)
  BY DEF Recoverable
<1>1. failed /\ k = 0
  BY DEF FailedAfter
<1> QED
  BY <1>1 DEF Fine, QueuedAfter, PlacedAfter

\* Plans for a service that did not fail and is not shown as failed.
LEMMA UnfailingPlans ==
    ASSUME NEW plan, NEW failed, NEW queued, NEW placed, ~failed,
           Len(plan) \in Nat, \A i \in 1..Len(plan) : ~ShowsFailed(plan[i])
    PROVE  Recoverable(plan, failed, queued, placed)
BY DEF Recoverable, FailedAfter

\* The first write of a plan leaves the state recoverable and the rest of the plan
\* what it was.
LEMMA PerformRecoverable ==
    ASSUME NEW S, NEW plan \in Seq(S), plan # <<>>,
           NEW failed, NEW queued, NEW placed, NEW failed1, NEW queued1, NEW placed1,
           Recoverable(plan, failed, queued, placed),
           failed1 => ShowsFailed(Head(plan)) \/ (failed /\ Head(plan).key # "observed"),
           Queues(Head(plan)) \/ (queued /\ ~Unqueues(Head(plan))) => queued1,
           SetsPlacement(Head(plan)) \/ (placed /\ ~ClearsPlacement(Head(plan))) => placed1
    PROVE  Recoverable(Tail(plan), failed1, queued1, placed1)
<1> DEFINE rest == Tail(plan)
<1>1. /\ Head(plan) = plan[1] /\ Len(plan) \in Nat \ {0}
      /\ Len(rest) = Len(plan) - 1
      /\ \A i \in 1..Len(rest) : rest[i] = plan[i + 1]
  OBVIOUS
<1> HIDE DEF rest
<1> SUFFICES ASSUME NEW k \in 0..Len(rest), FailedAfter(k, rest, failed1)
             PROVE  QueuedAfter(k, rest, queued1) \/ PlacedAfter(k, rest, placed1)
  BY DEF Recoverable, rest
<1>2. k + 1 \in 0..Len(plan) /\ \A i \in 1..k : rest[i] = plan[i + 1]
  BY <1>1
<1>3. FailedAfter(k + 1, plan, failed)
  <2>1. CASE \E i \in 1..k : ShowsFailed(rest[i])
    BY <1>2, <2>1 DEF FailedAfter
  <2>2. CASE failed1 /\ \A i \in 1..k : rest[i].key # "observed"
    <3>1. CASE ShowsFailed(plan[1])
      BY <1>2, <3>1 DEF FailedAfter
    <3>2. CASE failed /\ plan[1].key # "observed"
      <4>1. \A i \in 1..(k + 1) : i = 1 \/ (i - 1 \in 1..k /\ rest[i - 1] = plan[i])
        BY <1>2
      <4> QED
        BY <2>2, <3>2, <4>1 DEF FailedAfter
    <3> QED
      BY <1>1, <2>2, <3>1, <3>2
  <2> QED
    BY <2>1, <2>2 DEF FailedAfter
<1>4. QueuedAfter(k + 1, plan, queued) => QueuedAfter(k, rest, queued1)
  <2>1. CASE queued /\ \A i \in 1..(k + 1) : ~Unqueues(plan[i])
    BY <1>1, <1>2, <2>1 DEF QueuedAfter
  <2>2. ASSUME NEW i \in 1..(k + 1), Queues(plan[i]),
               \A j \in (i + 1)..(k + 1) : ~Unqueues(plan[j])
        PROVE  QueuedAfter(k, rest, queued1)
    <3>1. CASE i = 1
      BY <1>1, <1>2, <2>2, <3>1 DEF QueuedAfter
    <3>2. CASE i # 1
      <4>1. i - 1 \in 1..k /\ Queues(rest[i - 1])
        BY <1>2, <2>2, <3>2
      <4>2. \A j \in ((i - 1) + 1)..k : ~Unqueues(rest[j])
        BY <1>2, <2>2, <3>2
      <4> QED
        BY <4>1, <4>2 DEF QueuedAfter
    <3> QED
      BY <3>1, <3>2
  <2> QED
    BY <2>1, <2>2 DEF QueuedAfter
<1>5. PlacedAfter(k + 1, plan, placed) => PlacedAfter(k, rest, placed1)
  <2>1. CASE placed /\ \A i \in 1..(k + 1) : ~ClearsPlacement(plan[i])
    BY <1>1, <1>2, <2>1 DEF PlacedAfter
  <2>2. ASSUME NEW i \in 1..(k + 1), SetsPlacement(plan[i]),
               \A j \in (i + 1)..(k + 1) : ~ClearsPlacement(plan[j])
        PROVE  PlacedAfter(k, rest, placed1)
    <3>1. CASE i = 1
      BY <1>1, <1>2, <2>2, <3>1 DEF PlacedAfter
    <3>2. CASE i # 1
      <4>1. i - 1 \in 1..k /\ SetsPlacement(rest[i - 1])
        BY <1>2, <2>2, <3>2
      <4>2. \A j \in ((i - 1) + 1)..k : ~ClearsPlacement(rest[j])
        BY <1>2, <2>2, <3>2
      <4> QED
        BY <4>1, <4>2 DEF PlacedAfter
    <3> QED
      BY <3>1, <3>2
  <2> QED
    BY <2>1, <2>2 DEF PlacedAfter
<1> QED
  BY <1>2, <1>3, <1>4, <1>5 DEF Recoverable

LEMMA MeekTuples ==
    ASSUME NEW failed, NEW queued, NEW placed, Fine(failed, queued, placed),
           NEW a, NEW b, NEW c, Meek(a)
    PROVE  /\ Recoverable(<<>>, failed, queued, placed)
           /\ Recoverable(<<a>>, failed, queued, placed)
           /\ Meek(b) => Recoverable(<<a, b>>, failed, queued, placed)
           /\ Meek(b) /\ Meek(c) => Recoverable(<<a, b, c>>, failed, queued, placed)
<1>1. \A i \in 1..Len(<<>>) : Meek(<<>>[i])
  OBVIOUS
<1>2. \A i \in 1..Len(<<a>>) : Meek(<<a>>[i])
  OBVIOUS
<1>3. Meek(b) => \A i \in 1..Len(<<a, b>>) : Meek(<<a, b>>[i])
  OBVIOUS
<1>4. Meek(b) /\ Meek(c) => \A i \in 1..Len(<<a, b, c>>) : Meek(<<a, b, c>>[i])
  OBVIOUS
<1>5. Len(<<>>) \in Nat /\ Len(<<a>>) \in Nat /\ Len(<<a, b>>) \in Nat /\ Len(<<a, b, c>>) \in Nat
  OBVIOUS
<1> QED
  BY <1>1, <1>2, <1>3, <1>4, <1>5, MeekPlans

LEMMA EmptyIsRecoverable ==
    ASSUME NEW failed, NEW queued, NEW placed, Fine(failed, queued, placed)
    PROVE  Recoverable(<<>>, failed, queued, placed)
<1>1. Len(<<>>) \in Nat /\ \A i \in 1..Len(<<>>) : Meek(<<>>[i])
  OBVIOUS
<1> QED
  BY <1>1, MeekPlans

\* What every plan says of the state it starts in.
LEMMA FirstIsFine ==
    ASSUME NEW plan, NEW failed, NEW queued, NEW placed, Len(plan) \in Nat,
           Recoverable(plan, failed, queued, placed)
    PROVE  Fine(failed, queued, placed)
<1>1. 0 \in 0..Len(plan)
  OBVIOUS
<1>2. /\ failed => FailedAfter(0, plan, failed)
      /\ QueuedAfter(0, plan, queued) => queued
      /\ PlacedAfter(0, plan, placed) => placed
  BY DEF FailedAfter, QueuedAfter, PlacedAfter
<1> QED
  BY <1>1, <1>2 DEF Recoverable, Fine

LEMMA QueuingTuples ==
    ASSUME NEW failed, NEW queued, NEW placed, Fine(failed, queued, placed),
           NEW a, NEW b, NEW c, Queues(a), ~Unqueues(b), ~Unqueues(c)
    PROVE  /\ Recoverable(<<a, b>>, failed, queued, placed)
           /\ Recoverable(<<a, b, c>>, failed, queued, placed)
<1>1. ~Unqueues(a)
  BY DEF Queues, Unqueues
<1>2. /\ \A i \in 1..Len(<<a, b>>) : ~Unqueues(<<a, b>>[i])
      /\ \A i \in 1..Len(<<a, b, c>>) : ~Unqueues(<<a, b, c>>[i])
      /\ Len(<<a, b>>) \in Nat \ {0} /\ Len(<<a, b, c>>) \in Nat \ {0}
      /\ <<a, b>>[1] = a /\ <<a, b, c>>[1] = a
  BY <1>1
<1> QED
  BY <1>2, QueuingPlans

LEMMA SettlingTuples ==
    ASSUME NEW failed, NEW queued, NEW placed, Fine(failed, queued, placed),
           NEW a, NEW b, NEW c, NEW d, NEW e, NEW f,
           ~ClearsPlacement(a), ~ClearsPlacement(b), ~ClearsPlacement(c),
           ~ClearsPlacement(d), ~ClearsPlacement(e), ~ClearsPlacement(f),
           SetsPlacement(a) \/ (Meek(a) /\ SetsPlacement(b))
    PROVE  /\ Recoverable(<<a, b, c, d, e>>, failed, queued, placed)
           /\ Recoverable(<<a, b, c, d, e, f>>, failed, queued, placed)
<1> DEFINE p == <<a, b, c, d, e>>
           q == <<a, b, c, d, e, f>>
<1>1. /\ Len(p) = 5 /\ p[1] = a /\ p[2] = b /\ \A i \in 1..5 : ~ClearsPlacement(p[i])
      /\ Len(q) = 6 /\ q[1] = a /\ q[2] = b /\ \A i \in 1..6 : ~ClearsPlacement(q[i])
  OBVIOUS
<1> HIDE DEF p, q
<1>2. CASE SetsPlacement(a)
  BY <1>1, <1>2, SettlingPlans DEF p, q
<1>3. CASE Meek(a) /\ SetsPlacement(b)
  <2>1. \A i \in 1..(2 - 1) : Meek(p[i]) /\ Meek(q[i])
    BY <1>1, <1>3
  <2>2. 2 \in 1..Len(p) /\ 2 \in 1..Len(q)
    BY <1>1
  <2>3. Recoverable(p, failed, queued, placed)
    BY <1>1, <1>3, <2>1, <2>2, SettlingPlans
  <2>4. Recoverable(q, failed, queued, placed)
    BY <1>1, <1>3, <2>1, <2>2, SettlingPlans
  <2> QED
    BY <2>3, <2>4 DEF p, q
<1> QED
  BY <1>2, <1>3

\* What the writes do.
LEMMA MeekWrites ==
    ASSUME NEW v
    PROVE  /\ Meek(W("desired", v)) /\ Meek(W("restarts", v)) /\ Meek(W("generation", v))
           /\ Meek(W("cooldown", v)) /\ Meek(W("pending", TRUE)) /\ Queues(W("pending", TRUE))
           /\ ~ShowsFailed(W("pending", v)) /\ ~ClearsPlacement(W("pending", v))
           /\ ~ClearsPlacement(W("observed", v)) /\ ~Unqueues(W("observed", v))
           /\ v.status # "failed" => Meek(W("observed", v))
           /\ v # NoNode => SetsPlacement(W("placement", v)) /\ ~ClearsPlacement(W("placement", v))
BY DEF Meek, ShowsFailed, Queues, Unqueues, ClearsPlacement, SetsPlacement, W

LEMMA CopiedStatus ==
    ASSUME StoreOK, NEW s \in Services, NEW n, NEW st, NEW g
    PROVE  /\ CopyAs(s, st, n).status = st /\ Observation(st, n, g).status = st
           /\ [observed[s] EXCEPT !.status = st, !.node = n].status = st
           /\ [observed[s] EXCEPT !.status = st, !.grace = g].status = st
<1>1. observed[s] \in ObservedState
  BY DEF StoreOK
<1> QED
  BY <1>1 DEF CopyAs, Observation, ObservedState

\* The plans that are no trouble for a service that is recoverable.
LEMMA MeekPlansAreRecoverable ==
    ASSUME StoreOK, NEW s \in Services, NEW at, NEW failed, NEW queued, NEW placed,
           Fine(failed, queued, placed)
    PROVE  /\ Recoverable(<<>>, failed, queued, placed)
           /\ Recoverable(DeployPlan, failed, queued, placed)
           /\ Recoverable(CountedPlan(s), failed, queued, placed)
           /\ Recoverable(PlacementFailedPlan, failed, queued, placed)
           /\ Recoverable(DeployFailedPlan, failed, queued, placed)
           /\ Recoverable(ManuallyRestartedPlan(s), failed, queued, placed)
           /\ Recoverable(NodeMissingPlan(s, at), failed, queued, placed)
           /\ Recoverable(RestartedPlan(s), failed, queued, placed)
           /\ Recoverable(NoCandidatePlan(s), failed, queued, placed)
           /\ Recoverable(NoReplacementPlan(s), failed, queued, placed)
<1>1. /\ Meek(W("observed", Observation("placement_failed", NoNode, 0)))
      /\ Meek(W("observed", Observation("pending", NoNode, 0)))
      /\ \A n : /\ Meek(W("observed", CopyAs(s, "running", n)))
                /\ Meek(W("observed", CopyAs(s, "pending", n)))
      /\ Meek(W("observed", [observed[s] EXCEPT !.status = "pending", !.node = NoNode]))
      /\ Meek(W("observed", [observed[s] EXCEPT !.status = "running", !.grace = job[s].at + Grace]))
  <2>1. /\ Observation("placement_failed", NoNode, 0).status # "failed"
        /\ Observation("pending", NoNode, 0).status # "failed"
        /\ \A n : CopyAs(s, "running", n).status # "failed" /\ CopyAs(s, "pending", n).status # "failed"
    BY CopiedStatus
  <2>2. [observed[s] EXCEPT !.status = "pending", !.node = NoNode].status # "failed"
    BY CopiedStatus
  <2>3. [observed[s] EXCEPT !.status = "running", !.grace = job[s].at + Grace].status # "failed"
    BY CopiedStatus
  <2> QED
    BY <2>1, <2>2, <2>3, MeekWrites
<1>2. /\ Recoverable(<<>>, failed, queued, placed)
      /\ Recoverable(DeployPlan, failed, queued, placed)
      /\ Recoverable(CountedPlan(s), failed, queued, placed)
      /\ Recoverable(ManuallyRestartedPlan(s), failed, queued, placed)
  BY <1>1, MeekWrites, MeekTuples DEF DeployPlan, CountedPlan, ManuallyRestartedPlan
<1>3. /\ Recoverable(PlacementFailedPlan, failed, queued, placed)
      /\ Recoverable(DeployFailedPlan, failed, queued, placed)
      /\ Recoverable(NoReplacementPlan(s), failed, queued, placed)
  BY <1>1, MeekWrites, MeekTuples DEF PlacementFailedPlan, DeployFailedPlan, NoReplacementPlan
<1>4. /\ Recoverable(NodeMissingPlan(s, at), failed, queued, placed)
      /\ Recoverable(RestartedPlan(s), failed, queued, placed)
      /\ Recoverable(NoCandidatePlan(s), failed, queued, placed)
  BY <1>1, MeekWrites, MeekTuples DEF NodeMissingPlan, RestartedPlan, NoCandidatePlan
<1> QED
  BY <1>2, <1>3, <1>4

\* The plans that give a service up queue it first.
LEMMA FailurePlansAreRecoverable ==
    ASSUME NEW s \in Services, NEW failed, NEW queued, NEW placed, Fine(failed, queued, placed)
    PROVE  /\ Recoverable(RestartFailedPlan(s), failed, queued, placed)
           /\ Recoverable(RescheduleFailedPlan(s), failed, queued, placed)
           /\ Recoverable(EvacuationFailedPlan(s), failed, queued, placed)
<1>1. \A v : ~Unqueues(W("cooldown", v)) /\ ~Unqueues(W("observed", v))
  BY MeekWrites DEF Meek
<1> QED
  BY <1>1, MeekWrites, QueuingTuples
  DEF RestartFailedPlan, RescheduleFailedPlan, EvacuationFailedPlan

\* The plans that record a container started on n.
LEMMA PlacingPlansAreRecoverable ==
    ASSUME NEW s \in Services, NEW n, n # NoNode,
           NEW failed, NEW queued, NEW placed, Fine(failed, queued, placed)
    PROVE  /\ Recoverable(DeployedPlan(n), failed, queued, placed)
           /\ Recoverable(RescheduledPlan(s, n), failed, queued, placed)
           /\ Recoverable(EvacuatedPlan(s, n), failed, queued, placed)
<1>1. /\ \A v : /\ ~ClearsPlacement(W("desired", v)) /\ ~ClearsPlacement(W("restarts", v))
                /\ ~ClearsPlacement(W("generation", v)) /\ ~ClearsPlacement(W("cooldown", v))
                /\ ~ClearsPlacement(W("pending", v)) /\ ~ClearsPlacement(W("observed", v))
                /\ Meek(W("generation", v))
      /\ SetsPlacement(W("placement", n)) /\ ~ClearsPlacement(W("placement", n))
  BY MeekWrites DEF Meek
<1>2. Recoverable(DeployedPlan(n), failed, queued, placed)
  BY <1>1, SettlingTuples DEF DeployedPlan
<1>3. Recoverable(RescheduledPlan(s, n), failed, queued, placed)
  BY <1>1, SettlingTuples DEF RescheduledPlan
<1>4. Recoverable(EvacuatedPlan(s, n), failed, queued, placed)
  BY <1>1, SettlingTuples DEF EvacuatedPlan
<1> QED
  BY <1>2, <1>3, <1>4

LEMMA RecantingEnd ==
    ASSUME NEW p \in Seq(Writes), NEW w \in Writes, p # <<>>, p[1].key = "observed",
           \A i \in 1..Len(p) : ~ShowsFailed(p[i]), ~ShowsFailed(w),
           NEW failed, NEW queued, NEW placed, Fine(failed, queued, placed)
    PROVE  /\ Recoverable(p \o <<w>>, failed, queued, placed)
           /\ \A v \in Entries(p \o <<w>>) : ~ShowsFailed(v)
<1>1. /\ Len(p \o <<w>>) = Len(p) + 1 /\ Len(p) \in Nat \ {0}
      /\ (p \o <<w>>)[Len(p) + 1] = w
      /\ \A i \in 1..Len(p) : (p \o <<w>>)[i] = p[i]
      /\ DOMAIN (p \o <<w>>) = 1..(Len(p) + 1)
  OBVIOUS
<1> DEFINE q == p \o <<w>>
<1>2. q[1] = p[1] /\ \A i \in 1..Len(q) : ~ShowsFailed(q[i])
  <2>1. \A i \in 1..(Len(p) + 1) : i = Len(p) + 1 \/ i \in 1..Len(p)
    BY <1>1
  <2> QED
    BY <1>1, <2>1
<1>3. Len(q) \in Nat \ {0} /\ DOMAIN q = 1..Len(q)
  BY <1>1
<1> HIDE DEF q
<1>4. Recoverable(q, failed, queued, placed) /\ \A v \in Entries(q) : ~ShowsFailed(v)
  BY <1>2, <1>3, RecantingPlans DEF Entries
<1> QED
  BY <1>4 DEF q

\* A stop shows the service as stopped before it drops anything.
LEMMA StoppedPlanIsRecoverable ==
    ASSUME NEW s \in Services, NEW failed, NEW queued, NEW placed, Fine(failed, queued, placed)
    PROVE  /\ Recoverable(StoppedPlan(s), failed, queued, placed)
           /\ \A w \in Entries(StoppedPlan(s)) : ~ShowsFailed(w)
<1> DEFINE a == W("observed", Observation("stopped", NoNode, 0))
           b == W("placement", NoNode)
           c == W("pending", FALSE)
           d == W("restarts", 0)
           e == W("desired", "stopped")
<1>1. /\ a.key = "observed" /\ ~ShowsFailed(a) /\ ~ShowsFailed(b) /\ ~ShowsFailed(c)
      /\ ~ShowsFailed(d) /\ ~ShowsFailed(e)
  BY DEF ShowsFailed, W, Observation
<1>2. a \in Writes /\ b \in Writes /\ c \in Writes /\ d \in Writes /\ e \in Writes
  BY FixedWrites, ObservedWrites
<1>3. StoppedPlan(s) = <<a, b, c, d>> \o (IF desired[s] = "none" THEN <<>> ELSE <<e>>)
  BY Zenon DEF StoppedPlan
<1> HIDE DEF a, b, c, d, e
<1> DEFINE p == <<a, b, c, d>>
<1>4. /\ p \in Seq(Writes) /\ p \o <<>> = p /\ Len(p) = 4 /\ p[1] = a /\ p # <<>>
      /\ \A i \in 1..4 : ~ShowsFailed(p[i])
      /\ Entries(p) = {a, b, c, d}
  BY <1>1, <1>2, Tuples, FourEntries
<1> HIDE DEF p
<1>5. Recoverable(p, failed, queued, placed) /\ \A w \in Entries(p) : ~ShowsFailed(w)
  BY <1>1, <1>4, RecantingPlans
<1>6. /\ Recoverable(p \o <<e>>, failed, queued, placed)
      /\ \A w \in Entries(p \o <<e>>) : ~ShowsFailed(w)
  BY <1>1, <1>2, <1>4, RecantingEnd
<1>7. StoppedPlan(s) = p \/ StoppedPlan(s) = p \o <<e>>
  BY <1>3, <1>4 DEF p
<1> QED
  BY <1>5, <1>6, <1>7

\* A healthy report is about a service that is placed and stays so.
LEMMA HealthyPlanIsRecoverable ==
    ASSUME NEW s \in Services, NEW failed, NEW queued, NEW placed, placed
    PROVE  Recoverable(HealthyPlan(s), failed, queued, placed)
<1>1. ASSUME NEW a, NEW b, NEW c, NEW d, NEW e,
             ~ClearsPlacement(a), ~ClearsPlacement(b), ~ClearsPlacement(c),
             ~ClearsPlacement(d), ~ClearsPlacement(e)
      PROVE  Recoverable(<<a, b, c, d, e>>, failed, queued, placed)
  <2>1. /\ Len(<<a, b, c, d, e>>) \in Nat
        /\ \A i \in 1..Len(<<a, b, c, d, e>>) : ~ClearsPlacement(<<a, b, c, d, e>>[i])
    BY <1>1
  <2> QED
    BY <2>1, StayingPlans
<1>2. \A v : /\ ~ClearsPlacement(W("desired", v)) /\ ~ClearsPlacement(W("restarts", v))
             /\ ~ClearsPlacement(W("cooldown", v)) /\ ~ClearsPlacement(W("pending", v))
             /\ ~ClearsPlacement(W("observed", v))
  BY MeekWrites DEF Meek
<1> QED
  BY <1>1, <1>2 DEF HealthyPlan

\* The plans that show no failure.
LEMMA NoFailureShown ==
    ASSUME StoreOK, NEW s \in Services, NEW n, NEW at
    PROVE  \A plan \in {<<>>, DeployPlan, CountedPlan(s), PlacementFailedPlan, DeployFailedPlan,
                        ManuallyRestartedPlan(s), NodeMissingPlan(s, at), RestartedPlan(s),
                        HealthyPlan(s), DeployedPlan(n), <<W("pending", FALSE)>>} :
              \A w \in Entries(plan) : ~ShowsFailed(w)
<1>1. \A v : /\ ~ShowsFailed(W("desired", v)) /\ ~ShowsFailed(W("restarts", v))
             /\ ~ShowsFailed(W("generation", v)) /\ ~ShowsFailed(W("cooldown", v))
             /\ ~ShowsFailed(W("pending", v)) /\ ~ShowsFailed(W("placement", v))
             /\ v.status # "failed" => ~ShowsFailed(W("observed", v))
  BY DEF ShowsFailed, W
<1>2. /\ Observation("placement_failed", NoNode, 0).status # "failed"
      /\ Observation("pending", NoNode, 0).status # "failed"
      /\ Observation("running", n, 0).status # "failed"
      /\ \A m : CopyAs(s, "running", m).status # "failed" /\ CopyAs(s, "pending", m).status # "failed"
      /\ [observed[s] EXCEPT !.status = "running", !.grace = 0].status # "failed"
      /\ [observed[s] EXCEPT !.status = "running", !.grace = job[s].at + Grace].status # "failed"
  BY CopiedStatus
<1>3. ASSUME NEW a, NEW b, NEW c, NEW d, NEW e,
             ~ShowsFailed(a), ~ShowsFailed(b), ~ShowsFailed(c), ~ShowsFailed(d), ~ShowsFailed(e)
      PROVE  /\ \A w \in Entries(<<a>>) : ~ShowsFailed(w)
             /\ \A w \in Entries(<<a, b>>) : ~ShowsFailed(w)
             /\ \A w \in Entries(<<a, b, c>>) : ~ShowsFailed(w)
             /\ \A w \in Entries(<<a, b, c, d, e>>) : ~ShowsFailed(w)
  BY <1>3, OneEntry, TwoEntries, ThreeEntries, FiveEntries
<1>4. /\ \A w \in Entries(<<>>) : ~ShowsFailed(w)
      /\ \A w \in Entries(DeployPlan) : ~ShowsFailed(w)
      /\ \A w \in Entries(CountedPlan(s)) : ~ShowsFailed(w)
      /\ \A w \in Entries(ManuallyRestartedPlan(s)) : ~ShowsFailed(w)
      /\ \A w \in Entries(<<W("pending", FALSE)>>) : ~ShowsFailed(w)
  BY <1>1, <1>2, <1>3, NoEntries DEF DeployPlan, CountedPlan, ManuallyRestartedPlan
<1>5. /\ \A w \in Entries(PlacementFailedPlan) : ~ShowsFailed(w)
      /\ \A w \in Entries(DeployFailedPlan) : ~ShowsFailed(w)
  BY <1>1, <1>2, <1>3 DEF PlacementFailedPlan, DeployFailedPlan
<1>6. /\ \A w \in Entries(NodeMissingPlan(s, at)) : ~ShowsFailed(w)
      /\ \A w \in Entries(RestartedPlan(s)) : ~ShowsFailed(w)
  BY <1>1, <1>2, <1>3 DEF NodeMissingPlan, RestartedPlan
<1>7. /\ \A w \in Entries(HealthyPlan(s)) : ~ShowsFailed(w)
      /\ \A w \in Entries(DeployedPlan(n)) : ~ShowsFailed(w)
  BY <1>1, <1>2, <1>3 DEF HealthyPlan, DeployedPlan
<1> QED
  BY <1>4, <1>5, <1>6, <1>7

-----------------------------------------------------------------------------
(* One service at a time *)

\* What QueueInv says of one service.
Tended(s) ==
    /\ Recoverable(todo[s], observed[s].status = "failed", pending[s], placement[s] # NoNode)
    /\ GivesUp(s) => desired[s] # "none"

LEMMA TendedIsFine ==
    ASSUME PlacedInv, QueueInv, NEW s \in Services
    PROVE  /\ Tended(s)
           /\ Fine(observed[s].status = "failed", pending[s], placement[s] # NoNode)
           /\ ~GivesUp(s) => observed[s].status # "failed"
<1>1. Tended(s)
  BY DEF QueueInv, Tended
<1>2. Len(todo[s]) \in Nat
  BY Parts
<1> QED
  BY <1>1, <1>2, FirstIsFine DEF Tended, GivesUp

LEMMA OneTended ==
    ASSUME QueueInv, NEW s \in Services, Tended(s)',
           \A t \in Services \ {s} :
               /\ job'[t] = job[t] /\ todo'[t] = todo[t] /\ observed'[t] = observed[t]
               /\ pending'[t] = pending[t] /\ placement'[t] = placement[t]
               /\ desired'[t] = desired[t]
    PROVE  QueueInv'
<1>1. \A t \in Services \ {s} : Tended(t)'
  BY DEF QueueInv, Tended, GivesUp
<1> QED
  BY <1>1 DEF QueueInv, Tended

\* A job and a plan that are installed together.
LEMMA InstalledTended ==
    ASSUME PlacedInv, QueueInv, NEW s \in Services, NEW r \in JobRecords, NEW plan,
           job' = [job EXCEPT ![s] = r], todo' = [todo EXCEPT ![s] = plan],
           UNCHANGED <<desired, observed, pending, placement>>,
           Recoverable(plan, observed[s].status = "failed", pending[s], placement[s] # NoNode),
           (\E w \in Entries(plan) : ShowsFailed(w)) => desired[s] # "none",
           r.pc = "restart" \/ r.op \in {"reschedule", "unreachable"} => desired[s] # "none"
    PROVE  QueueInv'
<1>1. /\ job'[s] = r /\ todo'[s] = plan
      /\ \A t \in Services \ {s} : job'[t] = job[t] /\ todo'[t] = todo[t]
  BY DEF PlacedInv, TypeOK, JobsOK
<1>2. observed[s].status = "failed" => desired[s] # "none"
  BY TendedIsFine DEF Tended, GivesUp
<1>3. GivesUp(s)' => desired'[s] # "none"
  BY <1>1, <1>2 DEF GivesUp
<1>4. Tended(s)'
  BY <1>1, <1>3 DEF Tended
<1> QED
  BY <1>1, <1>4, OneTended

LEMMA StartsTended ==
    ASSUME PlacedInv, QueueInv, NEW s \in Services, NEW p \in Points, NEW o \in Operations,
           NEW n \in Nodes \cup {NoNode}, NEW t \in Nat, NEW plan, Start(s, p, o, n, t, plan),
           UNCHANGED store,
           Recoverable(plan, observed[s].status = "failed", pending[s], placement[s] # NoNode),
           \A w \in Entries(plan) : ~ShowsFailed(w),
           p = "restart" \/ o \in {"reschedule", "unreachable"} => desired[s] # "none"
    PROVE  QueueInv'
<1> DEFINE r == [pc |-> p, op |-> o, target |-> n, from |-> n, at |-> t]
<1>1. r \in JobRecords /\ r.pc = p /\ r.op = o
  BY DEF JobRecords
<1>2. job' = [job EXCEPT ![s] = r] /\ todo' = [todo EXCEPT ![s] = plan]
  BY DEF Start
<1>3. UNCHANGED <<desired, observed, pending, placement>>
  BY StoreSame
<1> HIDE DEF r
<1> QED
  BY <1>1, <1>2, <1>3, InstalledTended

\* A handler goes on: what it gives up it has found wanted.
LEMMA ContinuesTended ==
    ASSUME PlacedInv, QueueInv, NEW s \in Services, NEW p \in Points,
           NEW n \in Nodes \cup {NoNode}, NEW plan, Continue(s, p, n, plan), p # "restart",
           UNCHANGED <<desired, observed, pending, placement>>,
           Recoverable(plan, observed[s].status = "failed", pending[s], placement[s] # NoNode),
           (\E w \in Entries(plan) : ShowsFailed(w)) => GivesUp(s)
    PROVE  QueueInv'
<1> DEFINE r == [job[s] EXCEPT !.pc = p, !.target = n]
<1>1. job[s] \in JobRecords
  BY Parts
<1>2. r \in JobRecords /\ r.pc = p /\ r.op = job[s].op
  BY <1>1 DEF JobRecords
<1>3. job' = [job EXCEPT ![s] = r] /\ todo' = [todo EXCEPT ![s] = plan]
  BY DEF Continue
<1>4. /\ (\E w \in Entries(plan) : ShowsFailed(w)) => desired[s] # "none"
      /\ job[s].op \in {"reschedule", "unreachable"} => desired[s] # "none"
  BY TendedIsFine DEF Tended, GivesUp
<1> HIDE DEF r
<1> QED
  BY <1>2, <1>3, <1>4, InstalledTended

LEMMA LeavesTended ==
    ASSUME PlacedInv, QueueInv, NEW s \in Services, Leave(s), UNCHANGED store
    PROVE  QueueInv'
<1>1. job' = [job EXCEPT ![s] = NoJob] /\ todo' = [todo EXCEPT ![s] = <<>>]
  BY DEF Leave
<1>2. UNCHANGED <<desired, observed, pending, placement>>
  BY StoreSame
<1>3. Recoverable(<<>>, observed[s].status = "failed", pending[s], placement[s] # NoNode)
  BY Parts, TendedIsFine, MeekPlansAreRecoverable
<1>4. NoJob \in JobRecords /\ NoJob.pc = "idle" /\ NoJob.op = "none"
  BY NoJobType DEF NoJob
<1> QED
  BY <1>1, <1>2, <1>3, <1>4, NoEntries, InstalledTended

-----------------------------------------------------------------------------
(* The steps *)

LEMMA PerformedTended ==
    ASSUME PlacedInv, QueueInv, NEW s \in Services, todo[s] # <<>>, Perform(s, Head(todo[s]))
    PROVE  /\ Recoverable(Tail(todo[s]), (observed[s].status = "failed")', pending'[s],
                          (placement[s] # NoNode)')
           /\ desired[s] # "none" => desired'[s] # "none"
           /\ observed'[s].status = "failed" => desired'[s] # "none"
           /\ \A t \in Services \ {s} :
                 /\ observed'[t] = observed[t] /\ pending'[t] = pending[t]
                 /\ placement'[t] = placement[t] /\ desired'[t] = desired[t]
<1> DEFINE w == Head(todo[s])
<1>1. w \in Writes /\ w \in Entries(todo[s])
  BY Parts, EntriesOfTail
<1>2. /\ desired'[s] = IF w.key = "desired" THEN w.val ELSE desired[s]
      /\ observed'[s] = IF w.key = "observed" THEN w.val ELSE observed[s]
      /\ placement'[s] = IF w.key = "placement" THEN w.val ELSE placement[s]
      /\ w.key = "pending" => pending'[s] = w.val
      /\ w.key # "pending" => pending'[s] = pending[s]
  <2>1. StoreOK
    BY Parts
  <2>2. CASE w.key = "pending"
    <3>1. pending' = [pending EXCEPT ![s] = w.val]
      BY <2>2, Zenon DEF Perform, Put
    <3>2. pending'[s] = w.val
      BY <2>1, <3>1 DEF StoreOK
    <3> QED
      BY <1>1, <2>1, <2>2, <3>2, PerformedWrite, PerformEffect
  <2>3. CASE w.key # "pending"
    <3>1. pending' = pending
      BY <2>3, Zenon DEF Perform, Put
    <3> QED
      BY <1>1, <2>1, <2>3, <3>1, PerformedWrite, PerformEffect
  <2> QED
    BY <2>2, <2>3
<1>3. \A t \in Services \ {s} : /\ observed'[t] = observed[t] /\ pending'[t] = pending[t]
                                /\ placement'[t] = placement[t] /\ desired'[t] = desired[t]
  BY <1>1, Parts DEF StoreOK, Perform, Put
<1>4. /\ Tended(s)
      /\ observed[s].status = "failed" \/ ShowsFailed(w) => desired[s] # "none"
  BY <1>1, TendedIsFine DEF Tended, GivesUp
<1>5. w.key = "desired" => w.val # "none"
  BY <1>1 DEF Writes
<1>6. w.key = "pending" => w.val \in BOOLEAN
  BY <1>1 DEF Writes
<1>7. Recoverable(Tail(todo[s]), (observed[s].status = "failed")', pending'[s],
                  (placement[s] # NoNode)')
  <2>1. todo[s] \in Seq(Writes)
    BY Parts
  <2>2. (observed[s].status = "failed")' =>
           ShowsFailed(w) \/ (observed[s].status = "failed" /\ w.key # "observed")
    BY <1>2 DEF ShowsFailed
  <2>3. Queues(w) \/ (pending[s] /\ ~Unqueues(w)) => pending'[s]
    <3>1. CASE w.key = "pending"
      BY <1>2, <1>6, <3>1, Zenon DEF Queues, Unqueues
    <3>2. CASE w.key # "pending"
      BY <1>2, <3>2, Zenon DEF Queues, Unqueues
    <3> QED
      BY <3>1, <3>2
  <2>4. SetsPlacement(w) \/ (placement[s] # NoNode /\ ~ClearsPlacement(w)) => (placement[s] # NoNode)'
    BY <1>2 DEF SetsPlacement, ClearsPlacement
  <2> QED
    BY <1>4, <2>1, <2>2, <2>3, <2>4, PerformRecoverable DEF Tended
<1> HIDE DEF w
<1>8. desired[s] # "none" => desired'[s] # "none"
  BY <1>2, <1>5
<1>9. observed'[s].status = "failed" => desired'[s] # "none"
  BY <1>2, <1>4, <1>8 DEF ShowsFailed
<1> QED
  BY <1>3, <1>7, <1>8, <1>9

LEMMA WriteTended ==
    ASSUME PlacedInv, QueueInv, NEW s \in Services, Write(s)
    PROVE  QueueInv'
<1>1. todo[s] # <<>> /\ Perform(s, Head(todo[s])) /\ job' = job
  BY DEF Write
<1>2. todo'[s] = Tail(todo[s]) /\ \A t \in Services \ {s} : todo'[t] = todo[t]
  BY DEF Write, PlacedInv, TypeOK, JobsOK
<1>3. Entries(Tail(todo[s])) \subseteq Entries(todo[s])
  BY <1>1, Parts, EntriesOfTail
<1>4. Tended(s)
  BY TendedIsFine
<1>5. Recoverable(todo[s], observed[s].status = "failed", pending[s], placement[s] # NoNode)'
  BY <1>1, <1>2, PerformedTended
<1>6. GivesUp(s)' => desired'[s] # "none"
  BY <1>1, <1>2, <1>3, <1>4, PerformedTended DEF Tended, GivesUp
<1>7. Tended(s)'
  BY <1>5, <1>6 DEF Tended
<1> QED
  BY <1>1, <1>2, <1>7, PerformedTended, OneTended

LEMMA StoreFailsTended ==
    ASSUME PlacedInv, QueueInv, NEW s \in Services, StoreFails(s)
    PROVE  QueueInv'
<1>1. \/ todo[s] # <<>> /\ Perform(s, Head(todo[s]))
      \/ UNCHANGED <<store, cooldown>>
  BY DEF StoreFails
<1>2. /\ Fine((observed[s].status = "failed")', pending'[s], (placement[s] # NoNode)')
      /\ desired[s] # "none" => desired'[s] # "none"
      /\ observed'[s].status = "failed" => desired'[s] # "none"
      /\ \A t \in Services \ {s} :
            /\ observed'[t] = observed[t] /\ pending'[t] = pending[t]
            /\ placement'[t] = placement[t] /\ desired'[t] = desired[t]
  <2>1. CASE UNCHANGED <<store, cooldown>>
    BY <2>1, StoreSame, TendedIsFine DEF GivesUp, Tended
  <2>2. CASE todo[s] # <<>> /\ Perform(s, Head(todo[s]))
    <3>1. Len(Tail(todo[s])) \in Nat
      BY <2>2, Parts, EntriesOfTail
    <3>2. Fine((observed[s].status = "failed")', pending'[s], (placement[s] # NoNode)')
      BY <2>2, <3>1, PerformedTended, FirstIsFine
    <3> QED
      BY <2>2, <3>2, PerformedTended
  <2> QED
    BY <1>1, <2>1, <2>2
<1>3. PICK r \in JobRecords :
         /\ job' = [job EXCEPT ![s] = r] /\ todo' = [todo EXCEPT ![s] = <<>>]
         /\ r.pc \in {"idle", "undo"} /\ r.op \in {"none", job[s].op}
  <2>1. CASE Leave(s)
    BY <2>1, NoJobType DEF Leave, NoJob
  <2>2. CASE Continue(s, "undo", job[s].target, <<>>)
    <3>1. job[s] \in JobRecords /\ job[s].target \in Nodes \cup {NoNode} /\ "undo" \in Points
      BY Parts, PointsListed
    <3>2. [job[s] EXCEPT !.pc = "undo", !.target = job[s].target] \in JobRecords
      BY <3>1 DEF JobRecords
    <3>3. /\ [job[s] EXCEPT !.pc = "undo", !.target = job[s].target].pc = "undo"
          /\ [job[s] EXCEPT !.pc = "undo", !.target = job[s].target].op = job[s].op
      BY <3>1 DEF JobRecords
    <3> QED
      BY <2>2, <3>2, <3>3 DEF Continue
  <2> QED
    BY <2>1, <2>2 DEF StoreFails
<1>4. /\ job'[s] = r /\ todo'[s] = <<>>
      /\ \A t \in Services \ {s} : job'[t] = job[t] /\ todo'[t] = todo[t]
  BY <1>3 DEF PlacedInv, TypeOK, JobsOK
<1>5. Recoverable(todo[s], observed[s].status = "failed", pending[s], placement[s] # NoNode)'
  BY <1>2, <1>4, EmptyIsRecoverable
<1>6. job[s].op \in {"reschedule", "unreachable"} => desired[s] # "none"
  BY TendedIsFine DEF Tended, GivesUp
<1>7. GivesUp(s)' => desired'[s] # "none"
  BY <1>2, <1>3, <1>4, <1>6, NoEntries DEF GivesUp
<1>8. Tended(s)'
  BY <1>5, <1>7 DEF Tended
<1> QED
  BY <1>2, <1>4, <1>8, OneTended

LEMMA ScheduleTended ==
    ASSUME PlacedInv, QueueInv, NEW s \in Services, Schedule(s)
    PROVE  QueueInv'
<1>1. At(s, "schedule") /\ UNCHANGED store
  BY DEF Schedule
<1>2. job[s].op \in {"deploy", "reschedule", "unreachable"} /\ StoreOK
  BY <1>1, Parts DEF JobSafe, At
<1>3. PICK n \in Schedulable(Nodes \ {job[s].from}) :
         IF n = NoNode THEN Continue(s, "sync", n, UnscheduledPlan(s))
                       ELSE Continue(s, "deploy", n, <<>>)
  BY DEF Schedule
<1>4. n \in Nodes \cup {NoNode} /\ UNCHANGED <<desired, observed, pending, placement>>
  BY <1>1, StoreSame DEF Schedulable
<1>5. Fine(observed[s].status = "failed", pending[s], placement[s] # NoNode)
  BY TendedIsFine
<1>6. CASE n = NoNode
  <2>1. Recoverable(UnscheduledPlan(s), observed[s].status = "failed", pending[s],
                    placement[s] # NoNode)
    BY <1>2, <1>5, MeekPlansAreRecoverable DEF UnscheduledPlan
  <2>2. (\E w \in Entries(UnscheduledPlan(s)) : ShowsFailed(w)) => GivesUp(s)
    <3>1. \A w \in Entries(PlacementFailedPlan) : ~ShowsFailed(w)
      BY <1>2, NoFailureShown
    <3>2. job[s].op = "deploy" => UnscheduledPlan(s) = PlacementFailedPlan
      BY DEF UnscheduledPlan
    <3> QED
      BY <1>2, <3>1, <3>2 DEF GivesUp
  <2> QED
    BY <1>3, <1>4, <1>6, <2>1, <2>2, PointsListed, ContinuesTended
<1>7. CASE n # NoNode
  BY <1>2, <1>3, <1>4, <1>5, <1>7, EmptyIsRecoverable, NoEntries, PointsListed, ContinuesTended
<1> QED
  BY <1>6, <1>7

LEMMA DeployTended ==
    ASSUME PlacedInv, QueueInv, NEW s \in Services, DeployReply(s)
    PROVE  QueueInv'
<1> DEFINE n == job[s].target
<1>1. At(s, "deploy") /\ UNCHANGED store
  BY DEF DeployReply
<1>2. /\ job[s].op \in {"deploy", "reschedule", "unreachable"} /\ StoreOK
      /\ n \in Nodes \cup {NoNode} /\ n # NoNode
  BY <1>1, Parts DEF JobSafe, At
<1>3. UNCHANGED <<desired, observed, pending, placement>>
  BY <1>1, StoreSame
<1>4. Fine(observed[s].status = "failed", pending[s], placement[s] # NoNode)
  BY TendedIsFine
<1>5. CASE DeploySucceeds(s)
  <2>1. CASE job[s].op = "reschedule"
    <3>1. Continue(s, "retire", n, <<>>)
      BY <1>5, <2>1 DEF DeploySucceeds
    <3> QED
      BY <1>2, <1>3, <1>4, <3>1, EmptyIsRecoverable, NoEntries, PointsListed, ContinuesTended
  <2>2. CASE job[s].op = "deploy"
    <3>1. Continue(s, "commit", n, DeployedPlan(n))
      BY <1>5, <2>2 DEF DeploySucceeds
    <3>2. \A w \in Entries(DeployedPlan(n)) : ~ShowsFailed(w)
      BY <1>2, NoFailureShown
    <3> QED
      BY <1>2, <1>3, <1>4, <3>1, <3>2, PlacingPlansAreRecoverable, PointsListed, ContinuesTended
  <2>3. CASE job[s].op = "unreachable"
    <3>1. Continue(s, "commit", n, EvacuatedPlan(s, n))
      BY <1>5, <2>3 DEF DeploySucceeds
    <3>2. GivesUp(s)
      BY <2>3 DEF GivesUp
    <3> QED
      BY <1>2, <1>3, <1>4, <3>1, <3>2, PlacingPlansAreRecoverable, PointsListed, ContinuesTended
  <2> QED
    BY <1>2, <2>1, <2>2, <2>3
<1>6. CASE DeployFails(s)
  <2>1. CASE job[s].op = "deploy"
    <3>1. Continue(s, "sync", n, DeployFailedPlan)
      BY <1>6, <2>1 DEF DeployFails
    <3>2. \A w \in Entries(DeployFailedPlan) : ~ShowsFailed(w)
      BY <1>2, NoFailureShown
    <3> QED
      BY <1>2, <1>3, <1>4, <3>1, <3>2, MeekPlansAreRecoverable, PointsListed, ContinuesTended
  <2>2. CASE job[s].op = "reschedule"
    <3>1. Continue(s, "sync", n, RescheduleFailedPlan(s))
      BY <1>6, <2>2 DEF DeployFails
    <3>2. GivesUp(s)
      BY <2>2 DEF GivesUp
    <3> QED
      BY <1>2, <1>3, <1>4, <3>1, <3>2, FailurePlansAreRecoverable, PointsListed, ContinuesTended
  <2>3. CASE job[s].op = "unreachable"
    <3>1. Continue(s, "sync", n, EvacuationFailedPlan(s))
      BY <1>6, <2>3 DEF DeployFails
    <3>2. GivesUp(s)
      BY <2>3 DEF GivesUp
    <3> QED
      BY <1>2, <1>3, <1>4, <3>1, <3>2, FailurePlansAreRecoverable, PointsListed, ContinuesTended
  <2> QED
    BY <1>2, <2>1, <2>2, <2>3
<1> QED
  BY <1>5, <1>6 DEF DeployReply

\* The handlers that wait for another agent call.
LEMMA AgentRepliesTended ==
    ASSUME PlacedInv, QueueInv, NEW s \in Services,
           RetireReply(s) \/ RestartReply(s) \/ StopReply(s) \/ ManualReply(s)
    PROVE  QueueInv'
<1> DEFINE n == job[s].target
<1>1. /\ StoreOK /\ n \in Nodes \cup {NoNode}
      /\ Fine(observed[s].status = "failed", pending[s], placement[s] # NoNode)
  BY Parts, TendedIsFine
<1>2. CASE RetireReply(s)
  <2>1. Continue(s, "commit", n, RescheduledPlan(s, n)) /\ UNCHANGED store
    BY <1>2 DEF RetireReply
  <2>2. n # NoNode /\ job[s].op \in {"deploy", "reschedule", "unreachable"}
    BY <1>2, Parts DEF JobSafe, RetireReply, At
  <2>3. (\E w \in Entries(RescheduledPlan(s, n)) : ShowsFailed(w)) => GivesUp(s)
    <3>1. \A v : /\ ~ShowsFailed(W("generation", v)) /\ ~ShowsFailed(W("placement", v))
                 /\ ~ShowsFailed(W("restarts", v)) /\ ~ShowsFailed(W("pending", v))
                 /\ ~ShowsFailed(W("cooldown", v))
                 /\ v.status # "failed" => ~ShowsFailed(W("observed", v))
      BY DEF ShowsFailed, W
    <3>2. Observation("running", n, job[s].at + Grace).status # "failed"
      BY <1>1, CopiedStatus
    <3>3. ASSUME NEW a, NEW b, NEW c, NEW d, NEW e, NEW f, ~ShowsFailed(a), ~ShowsFailed(b),
                 ~ShowsFailed(c), ~ShowsFailed(d), ~ShowsFailed(e), ~ShowsFailed(f)
          PROVE  \A w \in Entries(<<a, b, c, d, e, f>>) : ~ShowsFailed(w)
      BY <3>3, SixEntries
    <3> QED
      BY <3>1, <3>2, <3>3 DEF RescheduledPlan
  <2> QED
    BY <1>1, <2>1, <2>2, <2>3, StoreSame, PlacingPlansAreRecoverable, PointsListed, ContinuesTended
<1>3. CASE RestartReply(s)
  <2>1. job[s].pc = "restart" /\ UNCHANGED <<desired, observed, pending, placement>>
    BY <1>3 DEF RestartReply, At
  <2>2. GivesUp(s)
    BY <2>1 DEF GivesUp
  <2>3. CASE Continue(s, "exit", n, RestartedPlan(s))
    BY <1>1, <2>1, <2>2, <2>3, MeekPlansAreRecoverable, PointsListed, ContinuesTended
  <2>4. CASE Continue(s, "sync", n, RestartFailedPlan(s))
    BY <1>1, <2>1, <2>2, <2>4, FailurePlansAreRecoverable, PointsListed, ContinuesTended
  <2> QED
    BY <1>3, <2>3, <2>4 DEF RestartReply
<1>4. CASE StopReply(s)
  <2>1. Continue(s, "sync", n, StoppedPlan(s)) /\ UNCHANGED store
    BY <1>4 DEF StopReply
  <2> QED
    BY <1>1, <2>1, StoreSame, StoppedPlanIsRecoverable, PointsListed, ContinuesTended
<1>5. CASE ManualReply(s)
  <2>1. UNCHANGED store
    BY <1>5 DEF ManualReply
  <2>2. CASE Leave(s)
    BY <2>1, <2>2, LeavesTended
  <2>3. CASE Continue(s, "sync", n, ManuallyRestartedPlan(s))
    <3>1. \A w \in Entries(ManuallyRestartedPlan(s)) : ~ShowsFailed(w)
      BY <1>1, NoFailureShown
    <3> QED
      BY <1>1, <2>1, <2>3, <3>1, StoreSame, MeekPlansAreRecoverable, PointsListed, ContinuesTended
  <2> QED
    BY <1>5, <2>2, <2>3 DEF ManualReply
<1> QED
  BY <1>2, <1>3, <1>4, <1>5

LEMMA RequestsTended ==
    ASSUME PlacedInv, QueueInv, NEW s \in Services,
           DeployRequest(s) \/ StopRequest(s) \/ RestartRequest(s)
    PROVE  QueueInv'
<1>1. UNCHANGED store
  BY DEF DeployRequest, StopRequest, RestartRequest
<1>2. /\ placement[s] \in Nodes \cup {NoNode} /\ NoNode \in Nodes \cup {NoNode} /\ 0 \in Nat
      /\ StoreOK /\ Fine(observed[s].status = "failed", pending[s], placement[s] # NoNode)
  BY Parts, TendedIsFine
<1>3. /\ \A w \in Entries(DeployPlan) : ~ShowsFailed(w)
      /\ \A w \in Entries(<<>>) : ~ShowsFailed(w)
  BY <1>2, NoFailureShown
<1>4. CASE DeployRequest(s)
  <2>1. Start(s, "schedule", "deploy", NoNode, 0, DeployPlan)
    BY <1>4 DEF DeployRequest
  <2> QED
    BY <1>1, <1>2, <1>3, <2>1, MeekPlansAreRecoverable, PointsListed, StartsTended
<1>5. CASE StopRequest(s)
  <2>1. CASE Start(s, "stop", "stop", placement[s], 0, <<>>)
    BY <1>1, <1>2, <1>3, <2>1, EmptyIsRecoverable, PointsListed, StartsTended
  <2>2. CASE Start(s, "sync", "stop", NoNode, 0, StoppedPlan(s))
    BY <1>1, <1>2, <2>2, StoppedPlanIsRecoverable, PointsListed, StartsTended
  <2> QED
    BY <1>5, <2>1, <2>2 DEF StopRequest
<1>6. CASE RestartRequest(s)
  <2>1. Start(s, "manual", "manual", placement[s], 0, <<>>)
    BY <1>6 DEF RestartRequest
  <2> QED
    BY <1>1, <1>2, <1>3, <2>1, EmptyIsRecoverable, PointsListed, StartsTended
<1> QED
  BY <1>4, <1>5, <1>6

\* A report is only accepted for a service that is wanted and placed.
LEMMA ReportTended ==
    ASSUME PlacedInv, QueueInv, NEW s \in Services, Report(s)
    PROVE  QueueInv'
<1>1. PICK n \in Nodes, t \in 0..now, g \in Generations(s) :
         CrashReport(s, n, t, g) \/ HealthyReport(s, n, g) \/ UnhealthyReport(s, n, t, g)
  BY DEF Report
<1>2. /\ UNCHANGED store /\ desired[s] # "none" /\ placement[s] # NoNode
      /\ t \in Nat /\ 0 \in Nat /\ n \in Nodes \cup {NoNode} /\ StoreOK
      /\ placement[s] \in Nodes \cup {NoNode}
  BY <1>1, Parts DEF CrashReport, HealthyReport, UnhealthyReport, Accepted, WorldOK
<1>3. Fine(observed[s].status = "failed", pending[s], placement[s] # NoNode)
  BY TendedIsFine
<1>4. /\ \A w \in Entries(CountedPlan(s)) : ~ShowsFailed(w)
      /\ \A w \in Entries(HealthyPlan(s)) : ~ShowsFailed(w)
      /\ \A w \in Entries(NodeMissingPlan(s, t)) : ~ShowsFailed(w)
  BY <1>2, NoFailureShown
<1>5. CASE Recover(s, t)
  <2>1. \/ Start(s, "restart", "restart", placement[s], t, CountedPlan(s))
        \/ Start(s, "schedule", "reschedule", placement[s], t, CountedPlan(s))
    BY <1>5 DEF Recover
  <2> QED
    BY <1>2, <1>3, <1>4, <2>1, MeekPlansAreRecoverable, PointsListed, StartsTended
<1>6. CASE Start(s, "exit", "healthy", n, 0, HealthyPlan(s))
  <2>1. Recoverable(HealthyPlan(s), observed[s].status = "failed", pending[s],
                    placement[s] # NoNode)
    BY <1>2, HealthyPlanIsRecoverable
  <2> QED
    BY <1>2, <1>4, <1>6, <2>1, PointsListed, StartsTended
<1>7. CASE Start(s, "sync", "unhealthy", n, t, NodeMissingPlan(s, t))
  BY <1>2, <1>3, <1>4, <1>7, MeekPlansAreRecoverable, PointsListed, StartsTended
<1> QED
  BY <1>1, <1>5, <1>6, <1>7 DEF CrashReport, HealthyReport, UnhealthyReport

\* Steps that leave the services and their handlers alone.
LEMMA WorldTended ==
    ASSUME QueueInv, UNCHANGED <<store, job, todo>>
    PROVE  QueueInv'
<1>1. UNCHANGED <<desired, observed, pending, placement>>
  BY StoreSame
<1> QED
  BY <1>1 DEF QueueInv, GivesUp

\* The retry of a service that nobody wants drops its queue entry: such a service
\* never failed.
LEMMA RoundHandlersTended ==
    ASSUME PlacedInv, QueueInv, NEW s \in Services,
           Retry(s) \/ \E n \in Nodes : Unreachable(s, n)
    PROVE  QueueInv'
<1>1. UNCHANGED store
  BY DEF Retry, Unreachable
<1>2. /\ round.at \in Nat /\ 0 \in Nat /\ NoNode \in Nodes \cup {NoNode} /\ StoreOK
      /\ Fine(observed[s].status = "failed", pending[s], placement[s] # NoNode)
  BY Parts, TendedIsFine DEF RoundOK
<1>3. /\ \A w \in Entries(DeployPlan) : ~ShowsFailed(w)
      /\ \A w \in Entries(<<>>) : ~ShowsFailed(w)
      /\ \A w \in Entries(<<W("pending", FALSE)>>) : ~ShowsFailed(w)
  BY <1>2, NoFailureShown
<1>4. CASE UNCHANGED <<job, todo>>
  BY <1>1, <1>4, WorldTended
<1>5. CASE desired[s] = "none" /\ Start(s, "exit", "retry", NoNode, 0, <<W("pending", FALSE)>>)
  <2> DEFINE plan == <<W("pending", FALSE)>>
  <2>1. observed[s].status # "failed"
    BY <1>5, TendedIsFine DEF Tended
  <2>2. Len(plan) = 1 /\ \A i \in 1..Len(plan) : plan[i] \in Entries(plan)
    BY DEF Entries
  <2> HIDE DEF plan
  <2>3. Recoverable(plan, observed[s].status = "failed", pending[s], placement[s] # NoNode)
    BY <1>3, <2>1, <2>2, UnfailingPlans DEF plan
  <2> QED
    BY <1>1, <1>2, <1>3, <1>5, <2>3, PointsListed, StartsTended DEF plan
<1>6. CASE Start(s, "schedule", "deploy", NoNode, 0, DeployPlan)
  BY <1>1, <1>2, <1>3, <1>6, MeekPlansAreRecoverable, PointsListed, StartsTended
<1>7. CASE desired[s] # "none" /\ \E n \in Nodes : Start(s, "schedule", "unreachable", n, round.at, <<>>)
  BY <1>1, <1>2, <1>3, <1>7, EmptyIsRecoverable, PointsListed, StartsTended
<1> QED
  BY <1>4, <1>5, <1>6, <1>7 DEF Retry, Unreachable

LEMMA CrashTended ==
    ASSUME PlacedInv, QueueInv, ControllerCrash
    PROVE  QueueInv'
<1>1. UNCHANGED <<desired, observed, pending, placement>>
  BY StoreSame DEF ControllerCrash
<1>2. \A s \in Services : job'[s] = NoJob /\ todo'[s] = <<>>
  BY DEF ControllerCrash
<1> SUFFICES ASSUME NEW s \in Services PROVE Tended(s)'
  BY DEF QueueInv, Tended
<1>3. Recoverable(<<>>, observed[s].status = "failed", pending[s], placement[s] # NoNode)
  BY TendedIsFine, EmptyIsRecoverable
<1>4. GivesUp(s)' => observed[s].status = "failed"
  BY <1>1, <1>2, NoEntries DEF GivesUp, NoJob
<1>5. observed[s].status = "failed" => desired[s] # "none"
  BY TendedIsFine DEF Tended, GivesUp
<1> QED
  BY <1>1, <1>2, <1>3, <1>4, <1>5 DEF Tended

-----------------------------------------------------------------------------
(* The invariant *)

LEMMA InitQueue == Init => QueueInv
<1> SUFFICES ASSUME Init, NEW s \in Services PROVE Tended(s)
  BY DEF QueueInv, Tended
<1>1. observed[s].status # "failed" /\ todo[s] = <<>> /\ job[s] = NoJob
  BY DEF Init, NoObservation, Observation
<1>2. Recoverable(<<>>, observed[s].status = "failed", pending[s], placement[s] # NoNode)
  BY <1>1, EmptyIsRecoverable DEF Fine
<1>3. ~GivesUp(s)
  BY <1>1, NoEntries DEF GivesUp, NoJob
<1> QED
  BY <1>1, <1>2, <1>3 DEF Tended

LEMMA NextQueue == PlacedInv /\ QueueInv /\ [Next]_vars => QueueInv'
<1> SUFFICES ASSUME PlacedInv, QueueInv, [Next]_vars PROVE QueueInv'
  OBVIOUS
<1>1. CASE \E s \in Services : Handler(s)
  <2>1. ASSUME NEW s \in Services, Finish(s) \/ UndoReply(s) PROVE QueueInv'
    BY <2>1, LeavesTended DEF Finish, UndoReply
  <2> QED
    BY <1>1, <2>1, WriteTended, ScheduleTended, DeployTended, AgentRepliesTended DEF Handler
<1>2. CASE \E s \in Services : Request(s)
  BY <1>2, RequestsTended, ReportTended DEF Request
<1>3. CASE \E s \in Services : StoreFails(s)
  BY <1>3, StoreFailsTended
<1>4. CASE RoundStart \/ MarkUnavailable \/ ListPlacements \/ ListPending \/ RoundEnd \/ RoundFails
  BY <1>4, WorldTended
  DEF RoundStart, MarkUnavailable, ListPlacements, ListPending, RoundEnd, RoundFails
<1>5. CASE \E s \in Services : Retry(s) \/ \E n \in Nodes : Unreachable(s, n)
  BY <1>5, RoundHandlersTended
<1>6. CASE Tick \/ \E n \in Nodes : Heartbeat(n) \/ StaleSnapshot(n)
  BY <1>6, WorldTended DEF Tick, Heartbeat, StaleSnapshot
<1>7. CASE ControllerCrash
  BY <1>7, CrashTended
<1>8. CASE UNCHANGED vars
  BY <1>8, WorldTended DEF vars
<1> QED
  BY <1>1, <1>2, <1>3, <1>4, <1>5, <1>6, <1>7, <1>8 DEF Next, Reconcile

\* Every plan of service_manager.py and self_healing.py leaves a service
\* recoverable after each of its writes, and only services that are wanted are
\* given up: whatever fails, and wherever it cuts a plan short.
THEOREM QueueInvariant == Spec => []QueueInv
BY InitQueue, NextQueue, InitInv, NextInv, PTL DEF Spec

\* A service that self-healing shows as failed has a retry queued or is placed: no
\* failed Redis call, timeout or crash between the writes of a handler leaves it
\* where neither the reconciler nor an agent would bring it back.
THEOREM FailedServicesAreRecoverable == Spec => []FailedIsRecoverable
<1>1. PlacedInv /\ QueueInv => FailedIsRecoverable
  BY TendedIsFine DEF FailedIsRecoverable, Fine
<1> QED
  BY <1>1, Invariant, QueueInvariant, PTL

\* The inductive invariant of the handlers, as the runs check it: types, plans,
\* recoveries, the queue and the round, for every value of the constants.
THEOREM ControllerInvariant == Spec => []ControllerInv
BY Invariant, RecoveryInvariant, QueueInvariant, ProgressInvariant, PTL DEF ControllerInv

=============================================================================

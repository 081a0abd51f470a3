------------------------- MODULE ControllerProofs -------------------------
(***************************************************************************)
(* Proofs about Controller, for every set of services and nodes and every  *)
(* value of the settings: type correctness, that a service shown as        *)
(* running has a placement at every step, whatever fails, and that every   *)
(* handler and every round takes finitely many steps.                      *)
(***************************************************************************)
EXTENDS Controller, TLAPS

-----------------------------------------------------------------------------
(* Types of the write plans *)

LEMMA WriteTypes ==
    ASSUME NEW k, NEW v,
           \/ k = "desired" /\ v \in DesiredStatus \ {"none"}
           \/ k = "observed" /\ v \in ObservedState
           \/ k = "placement" /\ v \in Nodes \cup {NoNode}
           \/ k = "pending" /\ v \in BOOLEAN
           \/ k \in {"restarts", "generation", "cooldown"} /\ v \in Nat
    PROVE  W(k, v) \in Writes
BY DEF W, Writes

LEMMA ObservationTypes ==
    ASSUME NEW st \in ObservedStatus, NEW n \in Nodes \cup {NoNode}, NEW g \in Nat
    PROVE  Observation(st, n, g) \in ObservedState
BY DEF Observation, ObservedState

LEMMA CopyTypes ==
    ASSUME StoreOK, NEW s \in Services, NEW st \in ObservedStatus, NEW n \in Nodes \cup {NoNode}
    PROVE  CopyAs(s, st, n) \in ObservedState
<1>1. observed[s] \in ObservedState
  BY DEF StoreOK
<1>2. [observed[s] EXCEPT !.status = st] \in ObservedState
  BY <1>1 DEF ObservedState
<1> QED BY <1>2, ObservationTypes DEF CopyAs

LEMMA Tuples ==
    ASSUME NEW S, NEW a \in S, NEW b \in S, NEW c \in S, NEW d \in S, NEW e \in S, NEW f \in S
    PROVE  /\ <<a>> \in Seq(S)
           /\ <<a, b>> \in Seq(S)
           /\ <<a, b, c>> \in Seq(S)
           /\ <<a, b, c, d>> \in Seq(S)
           /\ <<a, b, c, d, e>> \in Seq(S)
           /\ <<a, b, c, d, e, f>> \in Seq(S)
OBVIOUS

LEMMA Concatenation ==
    ASSUME NEW S, NEW p \in Seq(S), NEW q \in Seq(S)
    PROVE  p \o q \in Seq(S)
OBVIOUS

LEMMA FixedWrites ==
    /\ W("pending", TRUE) \in Writes /\ W("pending", FALSE) \in Writes
    /\ W("restarts", 0) \in Writes /\ W("cooldown", 0) \in Writes
    /\ W("placement", NoNode) \in Writes
    /\ W("desired", "deploying") \in Writes
    /\ W("desired", "running") \in Writes
    /\ W("desired", "stopped") \in Writes
<1>1. /\ "deploying" \in DesiredStatus \ {"none"}
      /\ "running" \in DesiredStatus \ {"none"}
      /\ "stopped" \in DesiredStatus \ {"none"}
  BY DEF DesiredStatus
<1> QED BY <1>1, WriteTypes

LEMMA ObservedWrites ==
    ASSUME NEW n \in Nodes \cup {NoNode}, NEW g \in Nat
    PROVE  /\ W("observed", Observation("placement_failed", n, g)) \in Writes
           /\ W("observed", Observation("pending", n, g)) \in Writes
           /\ W("observed", Observation("running", n, g)) \in Writes
           /\ W("observed", Observation("stopped", n, g)) \in Writes
<1>1. {"placement_failed", "pending", "running", "stopped"} \subseteq ObservedStatus
  BY DEF ObservedStatus
<1>2. \A st \in {"placement_failed", "pending", "running", "stopped"} :
         Observation(st, n, g) \in ObservedState
  BY <1>1, ObservationTypes
<1> QED BY <1>2, WriteTypes

LEMMA CopyWrites ==
    ASSUME StoreOK, NEW s \in Services, NEW n \in Nodes \cup {NoNode}
    PROVE  /\ W("observed", CopyAs(s, "running", n)) \in Writes
           /\ W("observed", CopyAs(s, "pending", n)) \in Writes
           /\ W("observed", CopyAs(s, "failed", n)) \in Writes
<1>1. {"pending", "running", "failed"} \subseteq ObservedStatus
  BY DEF ObservedStatus
<1>2. \A st \in {"pending", "running", "failed"} : CopyAs(s, st, n) \in ObservedState
  BY <1>1, CopyTypes
<1> QED BY <1>2, WriteTypes

\* The plans that depend on nothing but their parameters.
LEMMA FixedPlanTypes ==
    ASSUME NEW n \in Nodes \cup {NoNode}
    PROVE  /\ DeployPlan \in Seq(Writes)
           /\ PlacementFailedPlan \in Seq(Writes)
           /\ DeployFailedPlan \in Seq(Writes)
           /\ DeployedPlan(n) \in Seq(Writes)
<1>1. DeployPlan \in Seq(Writes)
  BY FixedWrites, Tuples DEF DeployPlan
<1>2. /\ W("observed", Observation("placement_failed", NoNode, 0)) \in Writes
      /\ W("observed", Observation("pending", NoNode, 0)) \in Writes
      /\ W("observed", Observation("running", n, 0)) \in Writes
  BY ObservedWrites
<1>3. W("placement", n) \in Writes
  BY WriteTypes
<1>4. PlacementFailedPlan \in Seq(Writes)
  BY <1>2, FixedWrites, Tuples DEF PlacementFailedPlan
<1>5. DeployFailedPlan \in Seq(Writes)
  BY <1>2, FixedWrites, Tuples DEF DeployFailedPlan
<1>6. DeployedPlan(n) \in Seq(Writes)
  BY <1>2, <1>3, FixedWrites, Tuples DEF DeployedPlan
<1> QED BY <1>1, <1>4, <1>5, <1>6

\* The plans of the handlers that copy what the store holds.
LEMMA StorePlanTypes ==
    ASSUME StoreOK, JobsOK, NEW s \in Services, NEW t \in Nat
    PROVE  /\ StoppedPlan(s) \in Seq(Writes)
           /\ ManuallyRestartedPlan(s) \in Seq(Writes)
           /\ CountedPlan(s) \in Seq(Writes)
           /\ HealthyPlan(s) \in Seq(Writes)
           /\ NodeMissingPlan(s, t) \in Seq(Writes)
<1>1. /\ observed[s] \in ObservedState /\ restarts[s] \in Nat
      /\ job[s].target \in Nodes \cup {NoNode}
  BY DEF StoreOK, JobsOK
<1>2. /\ W("observed", Observation("stopped", NoNode, 0)) \in Writes
      /\ W("observed", CopyAs(s, "running", job[s].target)) \in Writes
      /\ W("observed", CopyAs(s, "pending", NoNode)) \in Writes
  BY <1>1, ObservedWrites, CopyWrites
<1>3. StoppedPlan(s) \in Seq(Writes)
  <2>1. <<W("observed", Observation("stopped", NoNode, 0)), W("placement", NoNode),
          W("pending", FALSE), W("restarts", 0)>> \in Seq(Writes)
    BY <1>2, FixedWrites, Tuples
  <2>2. (IF desired[s] = "none" THEN <<>> ELSE <<W("desired", "stopped")>>) \in Seq(Writes)
    BY FixedWrites
  <2> QED BY <2>1, <2>2, Concatenation DEF StoppedPlan
<1>4. ManuallyRestartedPlan(s) \in Seq(Writes)
  BY <1>2 DEF ManuallyRestartedPlan
<1>5. CountedPlan(s) \in Seq(Writes)
  <2>1. W("restarts", restarts[s] + 1) \in Writes
    BY <1>1, WriteTypes
  <2> QED BY <2>1 DEF CountedPlan
<1>6. HealthyPlan(s) \in Seq(Writes)
  <2>1. [observed[s] EXCEPT !.status = "running", !.grace = 0] \in ObservedState
    BY <1>1 DEF ObservedState, ObservedStatus
  <2>2. W("observed", [observed[s] EXCEPT !.status = "running", !.grace = 0]) \in Writes
    BY <2>1, WriteTypes
  <2> QED BY <2>2, FixedWrites, Tuples DEF HealthyPlan
<1>7. NodeMissingPlan(s, t) \in Seq(Writes)
  <2>1. W("cooldown", t + Cooldown) \in Writes
    BY ConstantsAssumption, WriteTypes
  <2> QED BY <1>2, <2>1, FixedWrites, Tuples DEF NodeMissingPlan
<1> QED BY <1>3, <1>4, <1>5, <1>6, <1>7

\* The plans of the recoveries.
LEMMA RecoveryPlanTypes ==
    ASSUME StoreOK, JobsOK, NEW s \in Services, NEW n \in Nodes \cup {NoNode}
    PROVE  /\ RestartedPlan(s) \in Seq(Writes)
           /\ RestartFailedPlan(s) \in Seq(Writes)
           /\ NoCandidatePlan(s) \in Seq(Writes)
           /\ NoReplacementPlan(s) \in Seq(Writes)
           /\ RescheduleFailedPlan(s) \in Seq(Writes)
           /\ EvacuationFailedPlan(s) \in Seq(Writes)
           /\ RescheduledPlan(s, n) \in Seq(Writes)
           /\ EvacuatedPlan(s, n) \in Seq(Writes)
<1>1. /\ observed[s] \in ObservedState /\ generation[s] \in Nat
      /\ job[s].from \in Nodes \cup {NoNode} /\ job[s].at \in Nat
  BY DEF StoreOK, JobsOK
<1>2. /\ job[s].at + Grace \in Nat /\ job[s].at + Cooldown \in Nat /\ generation[s] + 1 \in Nat
  BY <1>1, ConstantsAssumption
<1>3. /\ W("generation", generation[s] + 1) \in Writes
      /\ W("cooldown", job[s].at + Cooldown) \in Writes
      /\ W("placement", n) \in Writes
  BY <1>2, WriteTypes
<1>4. /\ W("observed", CopyAs(s, "pending", job[s].from)) \in Writes
      /\ W("observed", CopyAs(s, "failed", job[s].from)) \in Writes
  BY <1>1, CopyWrites
<1>5. W("observed", Observation("running", n, job[s].at + Grace)) \in Writes
  BY <1>2, ObservedWrites
<1>6. RestartedPlan(s) \in Seq(Writes)
  <2>1. [observed[s] EXCEPT !.status = "running", !.grace = job[s].at + Grace] \in ObservedState
    BY <1>1, <1>2 DEF ObservedState, ObservedStatus
  <2>2. W("observed", [observed[s] EXCEPT !.status = "running", !.grace = job[s].at + Grace])
           \in Writes
    BY <2>1, WriteTypes
  <2> QED BY <1>3, <2>2, Tuples DEF RestartedPlan
<1>7. RestartFailedPlan(s) \in Seq(Writes)
  BY <1>3, <1>4, FixedWrites, Tuples DEF RestartFailedPlan
<1>8. NoCandidatePlan(s) \in Seq(Writes)
  BY <1>3, <1>4, FixedWrites, Tuples DEF NoCandidatePlan
<1>9. NoReplacementPlan(s) \in Seq(Writes)
  <2>1. [observed[s] EXCEPT !.status = "pending", !.node = NoNode] \in ObservedState
    BY <1>1 DEF ObservedState, ObservedStatus
  <2>2. W("observed", [observed[s] EXCEPT !.status = "pending", !.node = NoNode]) \in Writes
    BY <2>1, WriteTypes
  <2> QED BY <2>2, FixedWrites, Tuples DEF NoReplacementPlan
<1>10. RescheduleFailedPlan(s) \in Seq(Writes)
  BY <1>3, <1>4, FixedWrites, Tuples DEF RescheduleFailedPlan
<1>11. EvacuationFailedPlan(s) \in Seq(Writes)
  BY <1>4, FixedWrites, Tuples DEF EvacuationFailedPlan
<1>12. RescheduledPlan(s, n) \in Seq(Writes)
  BY <1>3, <1>5, FixedWrites, Tuples DEF RescheduledPlan
<1>13. EvacuatedPlan(s, n) \in Seq(Writes)
  BY <1>3, <1>5, FixedWrites, Tuples DEF EvacuatedPlan
<1> QED BY <1>6, <1>7, <1>8, <1>9, <1>10, <1>11, <1>12, <1>13

-----------------------------------------------------------------------------
(* Safety of the write plans *)

Quiet(w) == ~ShowsRunning(w) /\ ~ClearsPlacement(w)

LEMMA QuietWrites ==
    ASSUME NEW n \in Nodes \cup {NoNode}, NEW g, NEW v
    PROVE  /\ Quiet(W("desired", v)) /\ Quiet(W("pending", v)) /\ Quiet(W("restarts", v))
           /\ Quiet(W("cooldown", v)) /\ Quiet(W("generation", v))
           /\ Quiet(W("observed", Observation("placement_failed", n, g)))
           /\ Quiet(W("observed", Observation("pending", n, g)))
           /\ Quiet(W("observed", Observation("stopped", n, g)))
           /\ n # NoNode => Quiet(W("placement", n))
BY DEF Quiet, ShowsRunning, ClearsPlacement, W, Observation

LEMMA QuietCopies ==
    ASSUME StoreOK, NEW s \in Services, NEW n \in Nodes \cup {NoNode}
    PROVE  /\ Quiet(W("observed", CopyAs(s, "pending", n)))
           /\ Quiet(W("observed", CopyAs(s, "failed", n)))
           /\ Quiet(W("observed", [observed[s] EXCEPT !.status = "pending", !.node = NoNode]))
<1>1. observed[s] \in ObservedState
  BY DEF StoreOK
<1>2. /\ CopyAs(s, "pending", n).status = "pending"
      /\ CopyAs(s, "failed", n).status = "failed"
      /\ [observed[s] EXCEPT !.status = "pending", !.node = NoNode].status = "pending"
  BY <1>1 DEF CopyAs, Observation, ObservedState
<1> QED BY <1>2 DEF Quiet, ShowsRunning, ClearsPlacement, W

LEMMA QuietPlans ==
    ASSUME NEW a, NEW b, NEW c, NEW d, Quiet(a), NEW running, NEW placed
    PROVE  /\ SafePlan(<<>>, running, placed)
           /\ SafePlan(<<a>>, running, placed)
           /\ Quiet(b) => SafePlan(<<a, b>>, running, placed)
           /\ Quiet(b) /\ Quiet(c) => SafePlan(<<a, b, c>>, running, placed)
BY DEF SafePlan, Quiet

\* A running observation is safe after a placement, and anywhere in a plan that
\* clears nothing when the service is placed already.
LEMMA PlacingPlans ==
    ASSUME NEW a, NEW b, NEW c, NEW d, NEW e, NEW f, NEW running, NEW placed,
           ~ClearsPlacement(a), ~ClearsPlacement(b), ~ClearsPlacement(c),
           ~ClearsPlacement(d), ~ClearsPlacement(e), ~ClearsPlacement(f)
    PROVE  /\ /\ SetsPlacement(a) /\ Quiet(b) /\ Quiet(c)
              => SafePlan(<<a, b, c, d, e>>, running, placed)
           /\ /\ Quiet(a) /\ SetsPlacement(b) /\ Quiet(b) /\ Quiet(c) /\ Quiet(d)
              => SafePlan(<<a, b, c, d, e, f>>, running, placed)
           /\ /\ Quiet(a) /\ SetsPlacement(b) /\ Quiet(b) /\ Quiet(c) /\ Quiet(d)
              => SafePlan(<<a, b, c, d, e>>, running, placed)
           /\ placed => /\ SafePlan(<<a>>, running, placed)
                        /\ SafePlan(<<a, b, c>>, running, placed)
                        /\ SafePlan(<<a, b, c, d, e>>, running, placed)
BY DEF SafePlan, Quiet, SetsPlacement, ClearsPlacement, ShowsRunning

\* A plan that clears the placement shows the service as down before that.
LEMMA ClearingPlans ==
    ASSUME NEW a, NEW b, NEW c, NEW d, NEW running, NEW placed,
           ShowsDown(a), ~ClearsPlacement(a), ~ShowsRunning(b), Quiet(c), Quiet(d)
    PROVE  SafePlan(<<a, b, c, d>>, running, placed)
<1>1. ~ShowsRunning(a)
  BY DEF ShowsDown, ShowsRunning
<1> QED BY <1>1 DEF SafePlan, Quiet

\* The plans that neither show the service as running nor clear its placement.
LEMMA QuietPlansAreSafe ==
    ASSUME StoreOK, JobsOK, NEW s \in Services, NEW t, NEW running, NEW placed
    PROVE  /\ SafePlan(DeployPlan, running, placed)
           /\ SafePlan(<<W("pending", FALSE)>>, running, placed)
           /\ SafePlan(PlacementFailedPlan, running, placed)
           /\ SafePlan(DeployFailedPlan, running, placed)
           /\ SafePlan(CountedPlan(s), running, placed)
           /\ SafePlan(NodeMissingPlan(s, t), running, placed)
           /\ SafePlan(RestartFailedPlan(s), running, placed)
           /\ SafePlan(NoCandidatePlan(s), running, placed)
           /\ SafePlan(NoReplacementPlan(s), running, placed)
           /\ SafePlan(RescheduleFailedPlan(s), running, placed)
           /\ SafePlan(EvacuationFailedPlan(s), running, placed)
<1>1. job[s].from \in Nodes \cup {NoNode}
  BY DEF JobsOK
<1>2. /\ Quiet(W("observed", CopyAs(s, "pending", job[s].from)))
      /\ Quiet(W("observed", CopyAs(s, "failed", job[s].from)))
      /\ Quiet(W("observed", CopyAs(s, "pending", NoNode)))
      /\ Quiet(W("observed", [observed[s] EXCEPT !.status = "pending", !.node = NoNode]))
  BY <1>1, QuietCopies
<1>3. /\ SafePlan(DeployPlan, running, placed)
      /\ SafePlan(<<W("pending", FALSE)>>, running, placed)
      /\ SafePlan(CountedPlan(s), running, placed)
  BY QuietWrites, QuietPlans DEF DeployPlan, CountedPlan
<1>4. /\ SafePlan(PlacementFailedPlan, running, placed)
      /\ SafePlan(DeployFailedPlan, running, placed)
  BY QuietWrites, QuietPlans DEF PlacementFailedPlan, DeployFailedPlan
<1>5. SafePlan(NodeMissingPlan(s, t), running, placed)
  BY <1>2, QuietWrites, QuietPlans DEF NodeMissingPlan
<1>6. /\ SafePlan(RestartFailedPlan(s), running, placed)
      /\ SafePlan(NoCandidatePlan(s), running, placed)
      /\ SafePlan(RescheduleFailedPlan(s), running, placed)
  BY <1>2, QuietWrites, QuietPlans DEF RestartFailedPlan, NoCandidatePlan, RescheduleFailedPlan
<1>7. /\ SafePlan(NoReplacementPlan(s), running, placed)
      /\ SafePlan(EvacuationFailedPlan(s), running, placed)
  BY <1>2, QuietWrites, QuietPlans DEF NoReplacementPlan, EvacuationFailedPlan
<1> QED BY <1>3, <1>4, <1>5, <1>6, <1>7

\* The plans that record a container just started on n.
LEMMA PlacingPlansAreSafe ==
    ASSUME NEW s \in Services, NEW n \in Nodes \cup {NoNode}, n # NoNode,
           NEW running, NEW placed
    PROVE  /\ SafePlan(DeployedPlan(n), running, placed)
           /\ SafePlan(RescheduledPlan(s, n), running, placed)
           /\ SafePlan(EvacuatedPlan(s, n), running, placed)
<1>1. /\ Quiet(W("placement", n)) /\ SetsPlacement(W("placement", n))
      /\ \A v : /\ Quiet(W("desired", v)) /\ Quiet(W("pending", v)) /\ Quiet(W("restarts", v))
                /\ Quiet(W("cooldown", v)) /\ Quiet(W("generation", v))
  BY QuietWrites DEF SetsPlacement, W
<1>2. /\ \A v : ~ClearsPlacement(W("observed", v))
      /\ \A w : Quiet(w) => ~ClearsPlacement(w)
  BY DEF ClearsPlacement, W, Quiet
<1>3. SafePlan(DeployedPlan(n), running, placed)
  BY <1>1, <1>2, PlacingPlans DEF DeployedPlan
<1>4. SafePlan(RescheduledPlan(s, n), running, placed)
  BY <1>1, <1>2, PlacingPlans DEF RescheduledPlan
<1>5. SafePlan(EvacuatedPlan(s, n), running, placed)
  BY <1>1, <1>2, PlacingPlans DEF EvacuatedPlan
<1> QED BY <1>3, <1>4, <1>5

\* A quiet write at the end leaves a plan safe.
LEMMA QuietEnd ==
    ASSUME NEW S, NEW p \in Seq(S), NEW w \in S, Quiet(w), NEW running, NEW placed,
           SafePlan(p, running, placed)
    PROVE  SafePlan(p \o <<w>>, running, placed)
<1>1. /\ Len(p \o <<w>>) = Len(p) + 1
      /\ \A i \in 1..Len(p) : (p \o <<w>>)[i] = p[i]
      /\ (p \o <<w>>)[Len(p) + 1] = w
      /\ Len(p) \in Nat
  OBVIOUS
<1> DEFINE q == p \o <<w>>
<1> HIDE DEF q
<1>2. SafePlan(q, running, placed)
  BY <1>1 DEF SafePlan, Quiet, q
<1> QED BY <1>2 DEF q

\* The plan of a stop.
LEMMA StoppedPlanIsSafe ==
    ASSUME NEW s \in Services, NEW running, NEW placed
    PROVE  SafePlan(StoppedPlan(s), running, placed)
<1> DEFINE a == W("observed", Observation("stopped", NoNode, 0))
           b == W("placement", NoNode)
           c == W("pending", FALSE)
           d == W("restarts", 0)
           e == W("desired", "stopped")
<1>1. ShowsDown(a) /\ ~ClearsPlacement(a) /\ ~ShowsRunning(b) /\ Quiet(c) /\ Quiet(d) /\ Quiet(e)
  BY DEF ShowsDown, ClearsPlacement, ShowsRunning, Quiet, W, Observation
<1>2. a \in Writes /\ b \in Writes /\ c \in Writes /\ d \in Writes /\ e \in Writes
  BY FixedWrites, ObservedWrites
<1>3. StoppedPlan(s) = <<a, b, c, d>> \o (IF desired[s] = "none" THEN <<>> ELSE <<e>>)
  BY Zenon DEF StoppedPlan
<1> HIDE DEF a, b, c, d, e
<1>4. <<a, b, c, d>> \in Seq(Writes) /\ SafePlan(<<a, b, c, d>>, running, placed)
  BY <1>1, <1>2, Tuples, ClearingPlans
<1> DEFINE p == <<a, b, c, d>>
<1> HIDE DEF p
<1>5. p \in Seq(Writes) /\ SafePlan(p, running, placed)
  BY <1>4 DEF p
<1>6. SafePlan(p \o <<e>>, running, placed)
  BY <1>1, <1>2, <1>5, QuietEnd
<1>7. p \o <<>> = p
  BY <1>5
<1> QED BY <1>3, <1>5, <1>6, <1>7 DEF p

\* The plans that show a service as running where it already is.
LEMMA RunningPlansAreSafe ==
    ASSUME NEW s \in Services, NEW running, NEW placed, placed
    PROVE  /\ SafePlan(ManuallyRestartedPlan(s), running, placed)
           /\ SafePlan(HealthyPlan(s), running, placed)
           /\ SafePlan(RestartedPlan(s), running, placed)
<1>1. \A v : /\ ~ClearsPlacement(W("desired", v)) /\ ~ClearsPlacement(W("pending", v))
             /\ ~ClearsPlacement(W("restarts", v)) /\ ~ClearsPlacement(W("cooldown", v))
             /\ ~ClearsPlacement(W("generation", v)) /\ ~ClearsPlacement(W("observed", v))
  BY DEF ClearsPlacement, W
<1>2. SafePlan(ManuallyRestartedPlan(s), running, placed)
  BY <1>1, PlacingPlans DEF ManuallyRestartedPlan
<1>3. SafePlan(HealthyPlan(s), running, placed)
  BY <1>1, PlacingPlans DEF HealthyPlan
<1>4. SafePlan(RestartedPlan(s), running, placed)
  BY <1>1, PlacingPlans DEF RestartedPlan
<1> QED BY <1>2, <1>3, <1>4

-----------------------------------------------------------------------------
(* One write *)

LEMMA PerformTypes ==
    ASSUME StoreOK, NEW s \in Services, NEW w \in Writes, Perform(s, w)
    PROVE  StoreOK'
<1>1. /\ w.key = "desired" => w.val \in DesiredStatus
      /\ w.key = "observed" => w.val \in ObservedState
      /\ w.key = "placement" => w.val \in Nodes \cup {NoNode}
      /\ w.key = "pending" => w.val \in BOOLEAN
      /\ w.key \in {"restarts", "generation", "cooldown"} => w.val \in Nat
  BY DEF Writes
<1>2. /\ desired' \in [Services -> DesiredStatus]
      /\ observed' \in [Services -> ObservedState]
      /\ placement' \in [Services -> Nodes \cup {NoNode}]
  BY <1>1 DEF StoreOK, Perform, Put
<1>3. pending' \in [Services -> BOOLEAN]
  <2>1. pending \in [Services -> BOOLEAN]
    BY DEF StoreOK
  <2>2. CASE w.key = "pending"
    <3>1. pending' = [pending EXCEPT ![s] = w.val]
      BY <2>2, Zenon DEF Perform, Put
    <3> QED BY <1>1, <2>1, <2>2, <3>1
  <2>3. CASE w.key # "pending"
    <3>1. pending' = pending
      BY <2>3, Zenon DEF Perform, Put
    <3> QED BY <2>1, <3>1
  <2> QED BY <2>2, <2>3
<1>4. /\ restarts' \in [Services -> Nat]
      /\ generation' \in [Services -> Nat]
      /\ cooldown' \in [Services -> Nat]
  BY <1>1 DEF StoreOK, Perform, Put
<1>5. inPlace' \in [Services -> Nat]
  BY DEF StoreOK, Perform
<1> QED BY <1>2, <1>3, <1>4, <1>5 DEF StoreOK

\* What a write changes of what the invariant looks at.
LEMMA PerformEffect ==
    ASSUME StoreOK, NEW s \in Services, NEW w \in Writes, Perform(s, w)
    PROVE  /\ \A t \in Services \ {s} : observed'[t] = observed[t] /\ placement'[t] = placement[t]
           /\ observed'[s] = IF w.key = "observed" THEN w.val ELSE observed[s]
           /\ placement'[s] = IF w.key = "placement" THEN w.val ELSE placement[s]
BY DEF StoreOK, Perform, Put

\* The first write of a safe plan keeps running services placed and leaves the
\* rest of the plan safe.
LEMMA PerformSafe ==
    ASSUME StoreOK, RunningIsPlaced, NEW s \in Services,
           NEW plan \in Seq(Writes), plan # <<>>,
           SafePlan(plan, Running(s), placement[s] # NoNode),
           Perform(s, Head(plan))
    PROVE  /\ StoreOK'
           /\ RunningIsPlaced'
           /\ SafePlan(Tail(plan), Running(s)', (placement[s] # NoNode)')
           /\ \A t \in Services \ {s} : observed'[t] = observed[t] /\ placement'[t] = placement[t]
<1> DEFINE w == Head(plan)
<1>1. /\ w \in Writes /\ w = plan[1]
      /\ Len(plan) \in Nat /\ Len(plan) >= 1
      /\ Len(Tail(plan)) = Len(plan) - 1
      /\ \A i \in 1..Len(Tail(plan)) : Tail(plan)[i] = plan[i + 1]
  OBVIOUS
<1>2. /\ \A t \in Services \ {s} : observed'[t] = observed[t] /\ placement'[t] = placement[t]
      /\ observed'[s] = IF w.key = "observed" THEN w.val ELSE observed[s]
      /\ placement'[s] = IF w.key = "placement" THEN w.val ELSE placement[s]
  BY <1>1, PerformEffect
<1> HIDE DEF w
<1>3. StoreOK'
  BY <1>1, PerformTypes DEF w
<1>4. ShowsRunning(w) => placement[s] # NoNode
  BY <1>1 DEF SafePlan
<1>5. ClearsPlacement(w) => ~Running(s) /\ \A j \in 1..Len(plan) : ~ShowsRunning(plan[j])
  BY <1>1 DEF SafePlan
<1>6. /\ ~ClearsPlacement(w) /\ placement[s] # NoNode => placement'[s] # NoNode
      /\ SetsPlacement(w) => placement'[s] # NoNode
      /\ Running(s)' => Running(s) \/ ShowsRunning(w)
      /\ ShowsDown(w) => ~Running(s)'
      /\ ShowsRunning(w) => placement'[s] = placement[s]
      /\ ClearsPlacement(w) => Running(s)' = Running(s)
  BY <1>2 DEF ClearsPlacement, SetsPlacement, ShowsRunning, ShowsDown, Running
<1>7. RunningIsPlaced'
  <2>1. Running(s)' => placement'[s] # NoNode
    <3>1. Running(s) => placement[s] # NoNode
      BY DEF RunningIsPlaced
    <3> QED BY <1>4, <1>5, <1>6, <3>1
  <2>2. \A t \in Services \ {s} : Running(t)' => placement'[t] # NoNode
    BY <1>2 DEF RunningIsPlaced, Running
  <2> QED BY <2>1, <2>2 DEF RunningIsPlaced
<1>8. SafePlan(Tail(plan), Running(s)', (placement[s] # NoNode)')
  <2> DEFINE rest == Tail(plan)
  <2>1. \A i \in 1..Len(rest) : /\ rest[i] = plan[i + 1]
                                /\ i + 1 \in 1..Len(plan)
                                /\ \A j \in 1..i : j = 1 \/ (j - 1 \in 1..(i - 1) /\ plan[j] = rest[j - 1])
    BY <1>1
  <2>2. Len(rest) \in Nat /\ \A j \in 1..Len(rest) : rest[j] = plan[j + 1] /\ j + 1 \in 1..Len(plan)
    BY <1>1
  <2> HIDE DEF rest
  <2>3. ASSUME NEW i \in 1..Len(rest), ShowsRunning(rest[i])
        PROVE  placement'[s] # NoNode \/ \E j \in 1..(i - 1) : SetsPlacement(rest[j])
    <3>1. placement[s] # NoNode \/ \E j \in 1..i : SetsPlacement(plan[j])
      <4>1. i + 1 \in 1..Len(plan) /\ ShowsRunning(plan[i + 1]) /\ (i + 1) - 1 = i
        BY <2>1, <2>3
      <4> QED BY <4>1 DEF SafePlan
    <3>2. ~ClearsPlacement(w)
      BY <1>5, <2>1, <2>3
    <3>3. CASE placement[s] # NoNode
      BY <1>6, <3>2, <3>3
    <3>4. CASE \E j \in 1..i : SetsPlacement(plan[j])
      BY <1>1, <1>6, <2>1, <3>4
    <3> QED BY <3>1, <3>3, <3>4
  <2>4. ASSUME NEW i \in 1..Len(rest), ClearsPlacement(rest[i])
        PROVE  /\ ~Running(s)' \/ \E j \in 1..(i - 1) : ShowsDown(rest[j])
               /\ \A j \in 1..Len(rest) : ~ShowsRunning(rest[j])
    <3>1. /\ ~Running(s) \/ \E j \in 1..i : ShowsDown(plan[j])
          /\ \A j \in 1..Len(plan) : ~ShowsRunning(plan[j])
      <4>1. i + 1 \in 1..Len(plan) /\ ClearsPlacement(plan[i + 1]) /\ (i + 1) - 1 = i
        BY <2>1, <2>4
      <4> QED BY <4>1 DEF SafePlan
    <3>2. \A j \in 1..Len(rest) : ~ShowsRunning(rest[j])
      BY <2>2, <3>1
    <3>3. CASE ~Running(s)
      <4>1. ~ShowsRunning(w)
        BY <1>1, <3>1
      <4> QED BY <1>6, <3>2, <3>3, <4>1
    <3>4. CASE \E j \in 1..i : ShowsDown(plan[j])
      BY <1>1, <1>6, <2>1, <3>2, <3>4
    <3> QED BY <3>1, <3>3, <3>4
  <2>5. SafePlan(rest, Running(s)', (placement[s] # NoNode)')
    BY <2>3, <2>4 DEF SafePlan
  <2> QED BY <2>5 DEF rest
<1> QED BY <1>2, <1>3, <1>7, <1>8

-----------------------------------------------------------------------------
(* A handler that starts, continues or returns *)

JobRecords == [pc : Points, op : Operations, target : Nodes \cup {NoNode},
               from : Nodes \cup {NoNode}, at : Nat]

\* The part of the invariant about jobs, and the part that is only about types.
JobsFine ==
    /\ job \in [Services -> JobRecords]
    /\ todo \in [Services -> Seq(Writes)]
    /\ RunningIsPlaced
    /\ \A s \in Services : JobSafe(s)

RestOK ==
    /\ StoreOK
    /\ recovering \in [Services -> SUBSET Nat]
    /\ RoundOK
    /\ WorldOK

LEMMA InvParts ==
    /\ PlacedInv <=> JobsFine /\ RestOK
    /\ PlacedInv' <=> JobsFine' /\ RestOK'
BY DEF PlacedInv, TypeOK, JobsOK, JobsFine, RestOK, JobRecords

\* What JobSafe says of a job and a plan about to be installed for s.
SafeJob(s, r, plan) ==
    /\ SafePlan(plan, Running(s), placement[s] # NoNode)
    /\ r.pc \in {"schedule", "deploy", "retire"} =>
          r.op \in {"deploy", "reschedule", "unreachable"}
    /\ r.pc \in {"deploy", "retire", "restart", "manual"} => r.target # NoNode
    /\ r.pc \in {"restart", "manual"} =>
          /\ placement[s] # NoNode
          /\ \A i \in 1..Len(plan) : ~ClearsPlacement(plan[i])

\* A step about service s leaves the jobs of the others as they are.
LEMMA OthersSafe ==
    ASSUME JobsFine, NEW s \in Services,
           \A t \in Services \ {s} : /\ job'[t] = job[t]
                                     /\ todo'[t] = todo[t]
                                     /\ observed'[t] = observed[t]
                                     /\ placement'[t] = placement[t]
    PROVE  \A t \in Services \ {s} : JobSafe(t)'
BY DEF JobsFine, JobSafe, Running

LEMMA Installed ==
    ASSUME JobsFine, NEW s \in Services, NEW r \in JobRecords, NEW plan \in Seq(Writes),
           SafeJob(s, r, plan),
           job' = [job EXCEPT ![s] = r],
           todo' = [todo EXCEPT ![s] = plan],
           UNCHANGED <<observed, placement>>
    PROVE  JobsFine'
<1>1. /\ job' \in [Services -> JobRecords] /\ todo' \in [Services -> Seq(Writes)]
      /\ job'[s] = r /\ todo'[s] = plan
      /\ \A t \in Services \ {s} : job'[t] = job[t] /\ todo'[t] = todo[t]
  BY DEF JobsFine
<1>2. RunningIsPlaced'
  BY DEF JobsFine, RunningIsPlaced, Running
<1>3. \A t \in Services \ {s} : JobSafe(t)'
  BY <1>1, OthersSafe
<1>4. JobSafe(s)'
  BY <1>1 DEF JobSafe, SafeJob, Running
<1> QED BY <1>1, <1>2, <1>3, <1>4 DEF JobsFine

LEMMA Started ==
    ASSUME JobsFine, NEW s \in Services, NEW p \in Points, NEW o \in Operations,
           NEW n \in Nodes \cup {NoNode}, NEW t \in Nat, NEW plan \in Seq(Writes),
           Start(s, p, o, n, t, plan),
           UNCHANGED <<observed, placement>>,
           SafePlan(plan, Running(s), placement[s] # NoNode),
           p \notin {"deploy", "retire"},
           p = "schedule" => o \in {"deploy", "reschedule", "unreachable"},
           p \in {"restart", "manual"} =>
               /\ n # NoNode /\ placement[s] # NoNode
               /\ \A i \in 1..Len(plan) : ~ClearsPlacement(plan[i])
    PROVE  JobsFine'
<1> DEFINE r == [pc |-> p, op |-> o, target |-> n, from |-> n, at |-> t]
<1>1. r \in JobRecords
  BY DEF JobRecords
<1>2. SafeJob(s, r, plan)
  BY DEF SafeJob
<1>3. job' = [job EXCEPT ![s] = r] /\ todo' = [todo EXCEPT ![s] = plan]
  BY DEF Start
<1> QED BY <1>1, <1>2, <1>3, Installed

LEMMA Continued ==
    ASSUME JobsFine, NEW s \in Services, NEW p \in Points,
           NEW n \in Nodes \cup {NoNode}, NEW plan \in Seq(Writes),
           Continue(s, p, n, plan),
           UNCHANGED <<observed, placement>>,
           SafePlan(plan, Running(s), placement[s] # NoNode),
           p \notin {"schedule", "restart", "manual"},
           p \in {"deploy", "retire"} =>
               n # NoNode /\ job[s].op \in {"deploy", "reschedule", "unreachable"}
    PROVE  JobsFine'
<1> DEFINE r == [job[s] EXCEPT !.pc = p, !.target = n]
<1>1. job[s] \in JobRecords
  BY DEF JobsFine
<1>2. r \in JobRecords /\ r.pc = p /\ r.op = job[s].op /\ r.target = n
  BY <1>1 DEF JobRecords
<1>3. SafeJob(s, r, plan)
  BY <1>2 DEF SafeJob
<1>4. job' = [job EXCEPT ![s] = r] /\ todo' = [todo EXCEPT ![s] = plan]
  BY DEF Continue
<1> QED BY <1>2, <1>3, <1>4, Installed

LEMMA NoJobType == NoJob \in JobRecords /\ NoJob.pc = "idle"
BY DEF NoJob, JobRecords, Points, Operations

LEMMA Emptied ==
    ASSUME JobsFine, NEW s \in Services,
           job' = [job EXCEPT ![s] = NoJob],
           todo' = [todo EXCEPT ![s] = <<>>],
           UNCHANGED <<observed, placement>>
    PROVE  JobsFine'
<1>1. SafeJob(s, NoJob, <<>>)
  BY NoJobType DEF SafeJob, SafePlan
<1>2. <<>> \in Seq(Writes)
  OBVIOUS
<1> QED BY <1>1, <1>2, NoJobType, Installed

-----------------------------------------------------------------------------
(* The rest of the state *)

LEMMA StoreKept ==
    ASSUME StoreOK, UNCHANGED <<store, cooldown>>
    PROVE  StoreOK' /\ observed' = observed /\ placement' = placement
BY DEF StoreOK, store

LEMMA AgentTypes ==
    ASSUME WorldOK, NEW s \in Services, NEW after \in SUBSET Nodes, NEW ok \in BOOLEAN,
           AgentExecutes(s, after, ok)
    PROVE  hosts' \in [Services -> SUBSET Nodes]
BY DEF WorldOK, AgentExecutes

LEMMA RoundResults ==
    ASSUME RoundOK, NEW s \in Services
    PROVE  /\ round' = Returned(s) => RoundOK'
           /\ round' = Raised(s) => RoundOK'
<1>1. round' = Returned(s) => RoundOK'
  BY DEF RoundOK, Returned
<1>2. round' = Raised(s) => RoundOK'
  BY DEF RoundOK, Raised, NoRound
<1> QED BY <1>1, <1>2

LEMMA RestKept ==
    ASSUME RestOK, UNCHANGED <<store, cooldown, node, now>>,
           recovering' = recovering \/ recovering' \in [Services -> SUBSET Nat],
           round' = round \/ RoundOK',
           hosts' = hosts \/ hosts' \in [Services -> SUBSET Nodes]
    PROVE  RestOK'
BY StoreKept DEF RestOK, RoundOK, WorldOK

LEMMA LeaveTypes ==
    ASSUME RestOK, JobsFine, NEW s \in Services, Leave(s), UNCHANGED <<observed, placement>>
    PROVE  JobsFine' /\ recovering' \in [Services -> SUBSET Nat]
<1>1. job' = [job EXCEPT ![s] = NoJob] /\ todo' = [todo EXCEPT ![s] = <<>>]
  BY DEF Leave
<1>2. JobsFine'
  BY <1>1, Emptied
<1>3. recovering' \in [Services -> SUBSET Nat]
  BY DEF Leave, RestOK
<1> QED BY <1>2, <1>3

-----------------------------------------------------------------------------
(* The steps of a handler *)

LEMMA PointsListed ==
    /\ {"schedule", "deploy", "retire", "restart", "stop", "manual",
        "commit", "sync", "exit", "undo"} \subseteq Points
    /\ {"deploy", "reschedule", "unreachable", "restart", "stop",
        "manual", "healthy", "unhealthy", "retry"} \subseteq Operations
BY DEF Points, Operations

\* What the types give at one service.
LEMMA AtService ==
    ASSUME JobsFine, RestOK, NEW s \in Services
    PROVE  /\ StoreOK /\ JobsOK /\ RoundOK /\ WorldOK
           /\ job[s] \in JobRecords
           /\ job[s].target \in Nodes \cup {NoNode}
           /\ job[s].from \in Nodes \cup {NoNode}
           /\ job[s].at \in Nat
           /\ todo[s] \in Seq(Writes)
           /\ hosts[s] \subseteq Nodes
           /\ placement[s] \in Nodes \cup {NoNode}
           /\ JobSafe(s)
           /\ NoNode \notin Nodes
BY ConstantsAssumption DEF JobsFine, RestOK, JobRecords, StoreOK, WorldOK, JobsOK

LEMMA WriteStep ==
    ASSUME JobsFine, RestOK, NEW s \in Services, Write(s)
    PROVE  JobsFine' /\ RestOK'
<1>1. JobsFine /\ RestOK
  OBVIOUS
<1>2. /\ StoreOK /\ RunningIsPlaced /\ todo[s] \in Seq(Writes) /\ todo[s] # <<>>
      /\ SafePlan(todo[s], Running(s), placement[s] # NoNode)
      /\ Perform(s, Head(todo[s]))
  BY <1>1, AtService DEF Write, JobSafe, JobsFine
<1>3. /\ StoreOK' /\ RunningIsPlaced'
      /\ SafePlan(Tail(todo[s]), Running(s)', (placement[s] # NoNode)')
      /\ \A t \in Services \ {s} : observed'[t] = observed[t] /\ placement'[t] = placement[t]
  BY <1>2, PerformSafe
<1>4. /\ job' = job /\ todo' \in [Services -> Seq(Writes)] /\ todo'[s] = Tail(todo[s])
      /\ \A t \in Services \ {s} : todo'[t] = todo[t]
  BY <1>1, <1>2 DEF Write, JobsFine
<1>5. \A t \in Services \ {s} : JobSafe(t)'
  BY <1>1, <1>3, <1>4, OthersSafe
<1>6. JobSafe(s)'
  <2>1. CASE job[s].pc \in {"restart", "manual"}
    <3>1. /\ placement[s] # NoNode /\ job[s].target # NoNode
          /\ \A i \in 1..Len(todo[s]) : ~ClearsPlacement(todo[s][i])
      BY <1>1, <2>1, AtService DEF JobSafe
    <3>2. /\ Len(todo[s]) \in Nat /\ Len(todo[s]) >= 1 /\ Head(todo[s]) = todo[s][1]
          /\ Head(todo[s]) \in Writes
          /\ \A i \in 1..Len(Tail(todo[s])) :
                i + 1 \in 1..Len(todo[s]) /\ Tail(todo[s])[i] = todo[s][i + 1]
      BY <1>2
    <3>3. \A i \in 1..Len(Tail(todo[s])) : ~ClearsPlacement(Tail(todo[s])[i])
      BY <3>1, <3>2
    <3>4. placement'[s] # NoNode
      <4>1. ~ClearsPlacement(Head(todo[s]))
        BY <3>1, <3>2
      <4>2. placement'[s] = IF Head(todo[s]).key = "placement" THEN Head(todo[s]).val
                                                               ELSE placement[s]
        BY <1>2, <3>2, PerformEffect
      <4> QED BY <3>1, <4>1, <4>2 DEF ClearsPlacement
    <3>5. job[s].pc \notin {"schedule", "deploy", "retire"}
      BY <2>1
    <3> QED BY <1>3, <1>4, <3>1, <3>3, <3>4, <3>5 DEF JobSafe
  <2>2. CASE job[s].pc \notin {"restart", "manual"}
    BY <1>1, <1>3, <1>4, <2>2, AtService DEF JobSafe
  <2> QED BY <2>1, <2>2
<1>7. JobsFine'
  BY <1>1, <1>3, <1>4, <1>5, <1>6 DEF JobsFine
<1>8. RestOK'
  BY <1>1, <1>3 DEF Write, RestOK, RoundOK, WorldOK
<1> QED BY <1>7, <1>8

LEMMA ScheduleStep ==
    ASSUME JobsFine, RestOK, NEW s \in Services, Schedule(s)
    PROVE  JobsFine' /\ RestOK'
<1>1. JobsFine /\ RestOK
  OBVIOUS
<1>2. /\ job[s].op \in {"deploy", "reschedule", "unreachable"}
      /\ StoreOK' /\ observed' = observed /\ placement' = placement
  <2>1. UNCHANGED <<store, cooldown>>
    BY DEF Schedule
  <2> QED BY <1>1, <2>1, StoreKept, AtService DEF Schedule, At, JobSafe
<1>3. PICK n \in Schedulable(Nodes \ {job[s].from}) :
         IF n = NoNode THEN Continue(s, "sync", n, UnscheduledPlan(s))
                       ELSE Continue(s, "deploy", n, <<>>)
  BY DEF Schedule
<1>4. n \in Nodes \cup {NoNode}
  BY <1>3 DEF Schedulable
<1>5. RestOK'
  BY <1>1, RestKept DEF Schedule
<1>6. CASE n = NoNode
  <2>1. /\ UnscheduledPlan(s) \in Seq(Writes)
        /\ SafePlan(UnscheduledPlan(s), Running(s), placement[s] # NoNode)
    <3>1. UnscheduledPlan(s) \in {PlacementFailedPlan, NoCandidatePlan(s), NoReplacementPlan(s)}
      BY <1>2 DEF UnscheduledPlan
    <3>2. PlacementFailedPlan \in Seq(Writes)
      BY FixedPlanTypes
    <3>3. NoCandidatePlan(s) \in Seq(Writes) /\ NoReplacementPlan(s) \in Seq(Writes)
      BY <1>1, <1>4, AtService, RecoveryPlanTypes
    <3>4. /\ SafePlan(PlacementFailedPlan, Running(s), placement[s] # NoNode)
          /\ SafePlan(NoCandidatePlan(s), Running(s), placement[s] # NoNode)
          /\ SafePlan(NoReplacementPlan(s), Running(s), placement[s] # NoNode)
      BY <1>1, AtService, QuietPlansAreSafe
    <3> QED BY <3>1, <3>2, <3>3, <3>4
  <2>2. Continue(s, "sync", n, UnscheduledPlan(s))
    BY <1>3, <1>6
  <2>3. JobsFine'
    BY <1>1, <1>2, <1>4, <2>1, <2>2, PointsListed, Continued
  <2> QED BY <1>5, <2>3
<1>7. CASE n # NoNode
  <2>1. <<>> \in Seq(Writes) /\ SafePlan(<<>>, Running(s), placement[s] # NoNode)
    BY DEF SafePlan
  <2>2. Continue(s, "deploy", n, <<>>)
    BY <1>3, <1>7
  <2>3. JobsFine'
    BY <1>1, <1>2, <1>4, <1>7, <2>1, <2>2, PointsListed, Continued
  <2> QED BY <1>5, <2>3
<1> QED BY <1>6, <1>7

LEMMA DeployStep ==
    ASSUME JobsFine, RestOK, NEW s \in Services, DeployReply(s)
    PROVE  JobsFine' /\ RestOK'
<1> DEFINE n == job[s].target
<1>1. /\ JobsFine /\ RestOK
      /\ StoreOK /\ JobsOK /\ RoundOK /\ WorldOK /\ JobSafe(s)
      /\ n \in Nodes \cup {NoNode} /\ hosts[s] \subseteq Nodes
  BY AtService
<1>2. UNCHANGED <<store, node, cooldown, recovering, round, now>>
  BY DEF DeployReply
<1>3. observed' = observed /\ placement' = placement
  BY <1>1, <1>2, StoreKept
<1>4. job[s].op \in {"deploy", "reschedule", "unreachable"} /\ n # NoNode
  BY <1>1 DEF DeployReply, At, JobSafe
<1>5. PICK ok \in BOOLEAN : /\ AgentExecutes(s, hosts[s] \cup {n}, ok)
                            /\ IF ok THEN DeploySucceeds(s) ELSE DeployFails(s)
  BY DEF DeployReply
<1>6. hosts' \in [Services -> SUBSET Nodes]
  <2>1. hosts[s] \cup {n} \in SUBSET Nodes
    BY <1>1, <1>4
  <2> QED BY <1>1, <1>5, <2>1, AgentTypes
<1>7. RestOK'
  BY <1>1, <1>2, <1>6, RestKept
<1>8. CASE ok
  <2>1. DeploySucceeds(s)
    BY <1>5, <1>8
  <2>2. CASE job[s].op = "deploy"
    <3>1. Continue(s, "commit", n, DeployedPlan(n))
      BY <2>1, <2>2 DEF DeploySucceeds
    <3>2. /\ DeployedPlan(n) \in Seq(Writes)
          /\ SafePlan(DeployedPlan(n), Running(s), placement[s] # NoNode)
      BY <1>1, <1>4, FixedPlanTypes, PlacingPlansAreSafe
    <3> QED BY <1>1, <1>3, <1>7, <3>1, <3>2, PointsListed, Continued
  <2>3. CASE job[s].op = "reschedule"
    <3>1. Continue(s, "retire", n, <<>>)
      BY <2>1, <2>3 DEF DeploySucceeds
    <3>2. <<>> \in Seq(Writes) /\ SafePlan(<<>>, Running(s), placement[s] # NoNode)
      BY DEF SafePlan
    <3> QED BY <1>1, <1>3, <1>4, <1>7, <3>1, <3>2, PointsListed, Continued
  <2>4. CASE job[s].op = "unreachable"
    <3>1. Continue(s, "commit", n, EvacuatedPlan(s, n))
      BY <2>1, <2>4 DEF DeploySucceeds
    <3>2. /\ EvacuatedPlan(s, n) \in Seq(Writes)
          /\ SafePlan(EvacuatedPlan(s, n), Running(s), placement[s] # NoNode)
      BY <1>1, <1>4, RecoveryPlanTypes, PlacingPlansAreSafe
    <3> QED BY <1>1, <1>3, <1>7, <3>1, <3>2, PointsListed, Continued
  <2> QED BY <1>4, <2>2, <2>3, <2>4
<1>9. CASE ~ok
  <2>1. PICK plan \in {DeployFailedPlan, RescheduleFailedPlan(s), EvacuationFailedPlan(s)} :
           Continue(s, "sync", n, plan)
    <3>1. DeployFails(s)
      BY <1>5, <1>9
    <3> QED BY <1>4, <3>1 DEF DeployFails
  <2>2. plan \in Seq(Writes)
    <3>1. DeployFailedPlan \in Seq(Writes)
      BY FixedPlanTypes
    <3>2. RescheduleFailedPlan(s) \in Seq(Writes) /\ EvacuationFailedPlan(s) \in Seq(Writes)
      BY <1>1, RecoveryPlanTypes
    <3> QED BY <2>1, <3>1, <3>2
  <2>3. SafePlan(plan, Running(s), placement[s] # NoNode)
    <3>1. /\ SafePlan(DeployFailedPlan, Running(s), placement[s] # NoNode)
          /\ SafePlan(RescheduleFailedPlan(s), Running(s), placement[s] # NoNode)
          /\ SafePlan(EvacuationFailedPlan(s), Running(s), placement[s] # NoNode)
      BY <1>1, QuietPlansAreSafe
    <3> QED BY <2>1, <3>1
  <2> QED BY <1>1, <1>3, <1>7, <2>1, <2>2, <2>3, PointsListed, Continued
<1> QED BY <1>8, <1>9

LEMMA RetireStep ==
    ASSUME JobsFine, RestOK, NEW s \in Services, RetireReply(s)
    PROVE  JobsFine' /\ RestOK'
<1> DEFINE n == job[s].target
<1>1. /\ JobsFine /\ RestOK
      /\ StoreOK /\ JobsOK /\ WorldOK /\ JobSafe(s)
      /\ n \in Nodes \cup {NoNode} /\ hosts[s] \subseteq Nodes
  BY AtService
<1>2. UNCHANGED <<store, node, cooldown, recovering, round, now>>
  BY DEF RetireReply
<1>3. observed' = observed /\ placement' = placement
  BY <1>1, <1>2, StoreKept
<1>4. n # NoNode
  BY <1>1 DEF RetireReply, At, JobSafe
<1>5. hosts' \in [Services -> SUBSET Nodes]
  <2>1. PICK ok \in BOOLEAN : AgentExecutes(s, hosts[s] \ {job[s].from}, ok)
    BY DEF RetireReply
  <2>2. hosts[s] \ {job[s].from} \in SUBSET Nodes
    BY <1>1
  <2> QED BY <1>1, <2>1, <2>2, AgentTypes
<1>6. RestOK'
  BY <1>1, <1>2, <1>5, RestKept
<1>7. Continue(s, "commit", n, RescheduledPlan(s, n))
  BY DEF RetireReply
<1>8. /\ RescheduledPlan(s, n) \in Seq(Writes)
      /\ SafePlan(RescheduledPlan(s, n), Running(s), placement[s] # NoNode)
  BY <1>1, <1>4, RecoveryPlanTypes, PlacingPlansAreSafe
<1> QED BY <1>1, <1>3, <1>6, <1>7, <1>8, PointsListed, Continued

LEMMA RestartStep ==
    ASSUME JobsFine, RestOK, NEW s \in Services, RestartReply(s)
    PROVE  JobsFine' /\ RestOK'
<1> DEFINE n == job[s].target
<1>1. /\ StoreOK /\ JobsOK /\ RoundOK /\ WorldOK /\ JobSafe(s)
      /\ n \in Nodes \cup {NoNode} /\ hosts[s] \subseteq Nodes
      /\ placement[s] \in Nodes \cup {NoNode}
  BY AtService
<1>2. /\ UNCHANGED <<desired, observed, placement, pending, restarts, generation,
                     node, cooldown, recovering, round, now>>
      /\ At(s, "restart")
  BY DEF RestartReply
<1>3. PICK ok \in BOOLEAN :
         /\ AgentExecutes(s, hosts[s] \cup {n}, ok)
         /\ IF ok
            THEN /\ Continue(s, "exit", n, RestartedPlan(s))
                 /\ inPlace' = [inPlace EXCEPT ![s] = @ + 1]
            ELSE /\ Continue(s, "sync", n, RestartFailedPlan(s))
                 /\ UNCHANGED inPlace
  BY DEF RestartReply
<1>4. hosts' \in [Services -> SUBSET Nodes]
  <2>1. hosts[s] \cup {n} \in SUBSET Nodes
    BY <1>1, <1>2 DEF At, JobSafe
  <2> QED BY <1>1, <1>3, <2>1, AgentTypes
<1>5. inPlace' \in [Services -> Nat]
  <2>1. inPlace \in [Services -> Nat]
    BY <1>1 DEF StoreOK
  <2>2. inPlace' = inPlace \/ inPlace' = [inPlace EXCEPT ![s] = @ + 1]
    BY <1>3
  <2> QED BY <2>1, <2>2
<1>6. RestOK'
  BY <1>2, <1>4, <1>5 DEF RestOK, StoreOK, RoundOK, WorldOK
<1>7. CASE ok
  <2>1. Continue(s, "exit", n, RestartedPlan(s))
    BY <1>3, <1>7
  <2>2. placement[s] # NoNode
    BY <1>1, <1>2 DEF At, JobSafe
  <2>3. /\ RestartedPlan(s) \in Seq(Writes)
        /\ SafePlan(RestartedPlan(s), Running(s), placement[s] # NoNode)
    BY <1>1, <2>2, RecoveryPlanTypes, RunningPlansAreSafe
  <2> QED BY <1>1, <1>2, <1>6, <2>1, <2>3, PointsListed, Continued
<1>8. CASE ~ok
  <2>1. Continue(s, "sync", n, RestartFailedPlan(s))
    BY <1>3, <1>8
  <2>2. /\ RestartFailedPlan(s) \in Seq(Writes)
        /\ SafePlan(RestartFailedPlan(s), Running(s), placement[s] # NoNode)
    BY <1>1, RecoveryPlanTypes, QuietPlansAreSafe
  <2> QED BY <1>1, <1>2, <1>6, <2>1, <2>2, PointsListed, Continued
<1> QED BY <1>7, <1>8

LEMMA StopStep ==
    ASSUME JobsFine, RestOK, NEW s \in Services, StopReply(s)
    PROVE  JobsFine' /\ RestOK'
<1> DEFINE n == job[s].target
<1>1. /\ StoreOK /\ JobsOK /\ WorldOK
      /\ n \in Nodes \cup {NoNode} /\ hosts[s] \subseteq Nodes
  BY AtService
<1>2. UNCHANGED <<store, node, cooldown, recovering, round, now>>
  BY DEF StopReply
<1>3. observed' = observed /\ placement' = placement
  BY <1>1, <1>2, StoreKept
<1>4. hosts' \in [Services -> SUBSET Nodes]
  <2>1. PICK ok \in BOOLEAN : AgentExecutes(s, hosts[s] \ {n}, ok)
    BY DEF StopReply
  <2>2. hosts[s] \ {n} \in SUBSET Nodes
    BY <1>1
  <2> QED BY <1>1, <2>1, <2>2, AgentTypes
<1>5. RestOK'
  BY <1>2, <1>4, RestKept
<1>6. Continue(s, "sync", n, StoppedPlan(s))
  BY DEF StopReply
<1>7. /\ StoppedPlan(s) \in Seq(Writes)
      /\ SafePlan(StoppedPlan(s), Running(s), placement[s] # NoNode)
  <2>1. 0 \in Nat
    OBVIOUS
  <2> QED BY <1>1, <2>1, StorePlanTypes, StoppedPlanIsSafe
<1> QED BY <1>1, <1>3, <1>5, <1>6, <1>7, PointsListed, Continued

LEMMA ManualStep ==
    ASSUME JobsFine, RestOK, NEW s \in Services, ManualReply(s)
    PROVE  JobsFine' /\ RestOK'
<1> DEFINE n == job[s].target
<1>1. /\ StoreOK /\ JobsOK /\ WorldOK /\ JobSafe(s)
      /\ n \in Nodes \cup {NoNode} /\ hosts[s] \subseteq Nodes
  BY AtService
<1>2. UNCHANGED <<store, node, cooldown, round, now>> /\ At(s, "manual")
  BY DEF ManualReply
<1>3. observed' = observed /\ placement' = placement
  BY <1>1, <1>2, StoreKept
<1>4. PICK ok \in BOOLEAN :
         /\ AgentExecutes(s, hosts[s] \cup {n}, ok)
         /\ IF ok THEN /\ Continue(s, "sync", n, ManuallyRestartedPlan(s))
                       /\ UNCHANGED recovering
                  ELSE Leave(s)
  BY DEF ManualReply
<1>5. hosts' \in [Services -> SUBSET Nodes]
  <2>1. hosts[s] \cup {n} \in SUBSET Nodes
    BY <1>1, <1>2 DEF At, JobSafe
  <2> QED BY <1>1, <1>4, <2>1, AgentTypes
<1>6. CASE ok
  <2>1. Continue(s, "sync", n, ManuallyRestartedPlan(s)) /\ UNCHANGED recovering
    BY <1>4, <1>6
  <2>2. placement[s] # NoNode
    BY <1>1, <1>2 DEF At, JobSafe
  <2>3. /\ ManuallyRestartedPlan(s) \in Seq(Writes)
        /\ SafePlan(ManuallyRestartedPlan(s), Running(s), placement[s] # NoNode)
    <3>1. 0 \in Nat
      OBVIOUS
    <3> QED BY <1>1, <2>2, <3>1, StorePlanTypes, RunningPlansAreSafe
  <2>4. JobsFine'
    BY <1>1, <1>3, <2>1, <2>3, PointsListed, Continued
  <2> QED BY <1>2, <1>5, <2>1, <2>4, RestKept
<1>7. CASE ~ok
  <2>1. JobsFine' /\ recovering' \in [Services -> SUBSET Nat]
    BY <1>3, <1>4, <1>7, LeaveTypes
  <2> QED BY <1>2, <1>5, <2>1, RestKept
<1> QED BY <1>6, <1>7

LEMMA FinishStep ==
    ASSUME JobsFine, RestOK, NEW s \in Services, Finish(s)
    PROVE  JobsFine' /\ RestOK'
<1>1. UNCHANGED <<store, node, cooldown, hosts, now>> /\ Leave(s) /\ round' = Returned(s)
  BY DEF Finish
<1>2. observed' = observed /\ placement' = placement
  BY <1>1, AtService, StoreKept
<1>3. JobsFine' /\ recovering' \in [Services -> SUBSET Nat]
  BY <1>1, <1>2, LeaveTypes
<1>4. RoundOK'
  BY <1>1, AtService, RoundResults
<1> QED BY <1>1, <1>3, <1>4, RestKept

LEMMA UndoStep ==
    ASSUME JobsFine, RestOK, NEW s \in Services, UndoReply(s)
    PROVE  JobsFine' /\ RestOK'
<1>1. UNCHANGED <<store, node, cooldown, now>> /\ Leave(s) /\ round' = Raised(s)
  BY DEF UndoReply
<1>2. observed' = observed /\ placement' = placement
  BY <1>1, AtService, StoreKept
<1>3. JobsFine' /\ recovering' \in [Services -> SUBSET Nat]
  BY <1>1, <1>2, LeaveTypes
<1>4. RoundOK'
  BY <1>1, AtService, RoundResults
<1>5. hosts' \in [Services -> SUBSET Nodes]
  BY AtService DEF UndoReply, AgentExecutes, WorldOK
<1> QED BY <1>1, <1>3, <1>4, <1>5, RestKept

\* A store failure, with or without the effect of the write.
LEMMA StoreFailsStep ==
    ASSUME JobsFine, RestOK, NEW s \in Services, StoreFails(s)
    PROVE  JobsFine' /\ RestOK'
<1>1. /\ StoreOK /\ RoundOK /\ RunningIsPlaced /\ todo[s] \in Seq(Writes)
      /\ SafePlan(todo[s], Running(s), placement[s] # NoNode)
      /\ job[s] \in JobRecords
  BY AtService DEF JobSafe, JobsFine
<1>2. /\ StoreOK' /\ RunningIsPlaced'
      /\ \A t \in Services \ {s} : observed'[t] = observed[t] /\ placement'[t] = placement[t]
  <2>1. CASE todo[s] # <<>> /\ Perform(s, Head(todo[s]))
    BY <1>1, <2>1, PerformSafe
  <2>2. CASE UNCHANGED <<store, cooldown>>
    <3>1. StoreOK' /\ observed' = observed /\ placement' = placement
      BY <1>1, <2>2, StoreKept
    <3> QED BY <1>1, <3>1 DEF RunningIsPlaced, Running
  <2> QED BY <2>1, <2>2 DEF StoreFails
<1>3. PICK r \in JobRecords :
         /\ r.pc \in {"idle", "undo"}
         /\ job' = [job EXCEPT ![s] = r]
         /\ todo' = [todo EXCEPT ![s] = <<>>]
         /\ recovering' = recovering \/ recovering' \in [Services -> SUBSET Nat]
         /\ round' = round \/ round' = Raised(s)
  <2>1. CASE Continue(s, "undo", job[s].target, <<>>) /\ UNCHANGED <<recovering, round>>
    <3> DEFINE r == [job[s] EXCEPT !.pc = "undo", !.target = job[s].target]
    <3>1. r \in JobRecords /\ r.pc = "undo"
      BY <1>1 DEF JobRecords, Points
    <3>2. /\ job' = [job EXCEPT ![s] = r] /\ todo' = [todo EXCEPT ![s] = <<>>]
          /\ recovering' = recovering /\ round' = round
      BY <2>1 DEF Continue
    <3> QED BY <3>1, <3>2
  <2>2. CASE Leave(s) /\ round' = Raised(s)
    <3>1. recovering' \in [Services -> SUBSET Nat]
      BY <2>2 DEF Leave, RestOK
    <3> QED BY <2>2, <3>1, NoJobType DEF Leave
  <2> QED BY <2>1, <2>2 DEF StoreFails
<1>4. /\ job' \in [Services -> JobRecords] /\ todo' \in [Services -> Seq(Writes)]
      /\ job'[s] = r /\ todo'[s] = <<>>
      /\ \A t \in Services \ {s} : job'[t] = job[t] /\ todo'[t] = todo[t]
  <2>1. <<>> \in Seq(Writes)
    OBVIOUS
  <2> QED BY <1>3, <2>1 DEF JobsFine
<1>5. \A t \in Services \ {s} : JobSafe(t)'
  BY <1>2, <1>4, OthersSafe
<1>6. JobSafe(s)'
  BY <1>3, <1>4 DEF JobSafe, SafePlan
<1>7. JobsFine'
  BY <1>2, <1>4, <1>5, <1>6 DEF JobsFine
<1>8. RoundOK'
  <2>1. CASE round' = round
    BY <1>1, <2>1 DEF RoundOK
  <2>2. CASE round' = Raised(s)
    BY <1>1, <2>2, RoundResults
  <2> QED BY <1>3, <2>1, <2>2
<1>9. RestOK'
  <2>1. recovering' \in [Services -> SUBSET Nat]
    BY <1>3 DEF RestOK
  <2>2. UNCHANGED <<node, hosts, now>>
    BY DEF StoreFails
  <2> QED BY <1>2, <1>8, <2>1, <2>2 DEF RestOK, WorldOK
<1> QED BY <1>7, <1>9

-----------------------------------------------------------------------------
(* Requests and reports *)

LEMMA NoPlan ==
    ASSUME NEW running, NEW placed
    PROVE  /\ <<>> \in Seq(Writes) /\ SafePlan(<<>>, running, placed)
           /\ \A i \in 1..Len(<<>>) : ~ClearsPlacement(<<>>[i])
BY DEF SafePlan

LEMMA RequestSteps ==
    ASSUME JobsFine, RestOK, NEW s \in Services,
           DeployRequest(s) \/ StopRequest(s) \/ RestartRequest(s)
    PROVE  JobsFine' /\ RestOK'
<1>1. /\ StoreOK /\ JobsOK /\ placement[s] \in Nodes \cup {NoNode}
      /\ 0 \in Nat /\ NoNode \in Nodes \cup {NoNode}
  BY AtService
<1>2. UNCHANGED <<store, node, cooldown, recovering, round, hosts, now>>
  BY DEF DeployRequest, StopRequest, RestartRequest
<1>3. observed' = observed /\ placement' = placement /\ RestOK'
  BY <1>1, <1>2, StoreKept, RestKept
<1>4. CASE DeployRequest(s)
  <2>1. Start(s, "schedule", "deploy", NoNode, 0, DeployPlan)
    BY <1>4 DEF DeployRequest
  <2>2. DeployPlan \in Seq(Writes) /\ SafePlan(DeployPlan, Running(s), placement[s] # NoNode)
    BY <1>1, FixedPlanTypes, QuietPlansAreSafe
  <2> QED BY <1>1, <1>3, <2>1, <2>2, PointsListed, Started
<1>5. CASE StopRequest(s)
  <2>1. CASE Start(s, "stop", "stop", placement[s], 0, <<>>)
    BY <1>1, <1>3, <2>1, NoPlan, PointsListed, Started
  <2>2. CASE Start(s, "sync", "stop", NoNode, 0, StoppedPlan(s))
    <3>1. /\ StoppedPlan(s) \in Seq(Writes)
          /\ SafePlan(StoppedPlan(s), Running(s), placement[s] # NoNode)
      BY <1>1, StorePlanTypes, StoppedPlanIsSafe
    <3> QED BY <1>1, <1>3, <2>2, <3>1, PointsListed, Started
  <2> QED BY <1>5, <2>1, <2>2 DEF StopRequest
<1>6. CASE RestartRequest(s)
  <2>1. placement[s] # NoNode /\ Start(s, "manual", "manual", placement[s], 0, <<>>)
    BY <1>6 DEF RestartRequest
  <2> QED BY <1>1, <1>3, <2>1, NoPlan, PointsListed, Started
<1> QED BY <1>4, <1>5, <1>6

\* A recovery counts the restart and leaves the placement alone.
LEMMA RecoverStep ==
    ASSUME JobsFine, RestOK, NEW s \in Services, NEW t \in Nat,
           placement[s] # NoNode, Recover(s, t),
           UNCHANGED <<store, node, cooldown, round, hosts, now>>
    PROVE  JobsFine' /\ RestOK'
<1>1. /\ StoreOK /\ JobsOK /\ placement[s] \in Nodes \cup {NoNode} /\ 0 \in Nat
  BY AtService
<1>2. observed' = observed /\ placement' = placement
  BY <1>1, StoreKept
<1>3. recovering' \in [Services -> SUBSET Nat]
  <2>1. generation[s] \in Nat
    BY <1>1 DEF StoreOK
  <2> QED BY <2>1 DEF Recover, RestOK
<1>4. RestOK'
  BY <1>3, RestKept
<1>5. /\ CountedPlan(s) \in Seq(Writes)
      /\ SafePlan(CountedPlan(s), Running(s), placement[s] # NoNode)
      /\ \A i \in 1..Len(CountedPlan(s)) : ~ClearsPlacement(CountedPlan(s)[i])
  <2>1. \A i \in 1..Len(CountedPlan(s)) : ~ClearsPlacement(CountedPlan(s)[i])
    BY DEF CountedPlan, ClearsPlacement, W
  <2> QED BY <1>1, <2>1, StorePlanTypes, QuietPlansAreSafe
<1>6. CASE Start(s, "restart", "restart", placement[s], t, CountedPlan(s))
  BY <1>1, <1>2, <1>4, <1>5, <1>6, PointsListed, Started
<1>7. CASE Start(s, "schedule", "reschedule", placement[s], t, CountedPlan(s))
  BY <1>1, <1>2, <1>4, <1>5, <1>7, PointsListed, Started
<1> QED BY <1>6, <1>7 DEF Recover

LEMMA ReportStep ==
    ASSUME JobsFine, RestOK, NEW s \in Services, Report(s)
    PROVE  JobsFine' /\ RestOK'
<1>1. PICK n \in Nodes, t \in 0..now, g \in Generations(s) :
         CrashReport(s, n, t, g) \/ HealthyReport(s, n, g) \/ UnhealthyReport(s, n, t, g)
  BY DEF Report
<1>2. /\ StoreOK /\ JobsOK /\ WorldOK /\ 0 \in Nat /\ t \in Nat
      /\ placement[s] = n /\ n # NoNode /\ n \in Nodes \cup {NoNode}
  BY <1>1, AtService DEF CrashReport, HealthyReport, UnhealthyReport, Accepted, WorldOK
<1>3. CASE CrashReport(s, n, t, g)
  BY <1>2, <1>3, RecoverStep DEF CrashReport
<1>4. CASE HealthyReport(s, n, g)
  <2>1. /\ Start(s, "exit", "healthy", n, 0, HealthyPlan(s))
        /\ UNCHANGED <<store, node, cooldown, recovering, round, hosts, now>>
    BY <1>4 DEF HealthyReport
  <2>2. observed' = observed /\ placement' = placement /\ RestOK'
    BY <1>2, <2>1, StoreKept, RestKept
  <2>3. /\ HealthyPlan(s) \in Seq(Writes)
        /\ SafePlan(HealthyPlan(s), Running(s), placement[s] # NoNode)
    BY <1>2, StorePlanTypes, RunningPlansAreSafe
  <2> QED BY <1>2, <2>1, <2>2, <2>3, PointsListed, Started
<1>5. CASE UnhealthyReport(s, n, t, g)
  <2>1. CASE Recover(s, t)
    BY <1>2, <1>5, <2>1, RecoverStep DEF UnhealthyReport
  <2>2. CASE /\ Start(s, "sync", "unhealthy", n, t, NodeMissingPlan(s, t))
             /\ UNCHANGED recovering
    <3>1. UNCHANGED <<store, node, cooldown, round, hosts, now>>
      BY <1>5 DEF UnhealthyReport
    <3>2. observed' = observed /\ placement' = placement /\ RestOK'
      BY <1>2, <2>2, <3>1, StoreKept, RestKept
    <3>3. /\ NodeMissingPlan(s, t) \in Seq(Writes)
          /\ SafePlan(NodeMissingPlan(s, t), Running(s), placement[s] # NoNode)
      BY <1>2, StorePlanTypes, QuietPlansAreSafe
    <3> QED BY <1>2, <2>2, <3>2, <3>3, PointsListed, Started
  <2> QED BY <1>5, <2>1, <2>2 DEF UnhealthyReport
<1> QED BY <1>1, <1>3, <1>4, <1>5

-----------------------------------------------------------------------------
(* The reconciler and the rest of the world *)

LEMMA JobsKept ==
    ASSUME JobsFine, UNCHANGED <<job, todo, observed, placement>>
    PROVE  JobsFine'
BY DEF JobsFine, RunningIsPlaced, Running, JobSafe

LEMMA RoundSteps ==
    ASSUME JobsFine, RestOK,
           RoundStart \/ MarkUnavailable \/ ListPlacements \/ ListPending \/ RoundEnd \/ RoundFails
    PROVE  JobsFine' /\ RestOK'
<1>1. StoreOK /\ RoundOK /\ WorldOK
  BY DEF RestOK
<1>2. UNCHANGED <<store, cooldown, recovering, job, todo, hosts, now>>
  BY DEF RoundStart, MarkUnavailable, ListPlacements, ListPending, RoundEnd, RoundFails
<1>3. observed' = observed /\ placement' = placement /\ StoreOK'
  BY <1>1, <1>2, StoreKept
<1>4. JobsFine'
  BY <1>2, <1>3, JobsKept
<1>5. node' \in [Nodes -> {"unknown", "healthy", "unavailable"}]
  BY <1>1 DEF WorldOK, RoundStart, MarkUnavailable, ListPlacements, ListPending, RoundEnd,
              RoundFails
<1>6. RoundOK'
  <2>1. CASE RoundStart
    BY <1>1, <2>1 DEF RoundStart, RoundOK, WorldOK, NoRound
  <2>2. CASE MarkUnavailable
    <3>1. PICK n \in round.stale :
             round' = [round EXCEPT !.phase = "marked", !.node = n, !.stale = @ \ {n}]
      BY <2>2 DEF MarkUnavailable
    <3>2. n \in Nodes /\ round.stale \ {n} \in SUBSET Nodes
      BY <1>1 DEF RoundOK
    <3> QED BY <1>1, <3>1, <3>2 DEF RoundOK
  <2>3. CASE ListPlacements
    <3>1. {Item(s, round.node) : s \in PlacedOn(round.node)}
             \in SUBSET [service : Services, node : Nodes \cup {NoNode}]
      BY <1>1 DEF Item, PlacedOn, RoundOK
    <3> QED BY <1>1, <2>3, <3>1 DEF ListPlacements, RoundOK
  <2>4. CASE ListPending
    <3>1. {Item(s, NoNode) : s \in Queued}
             \in SUBSET [service : Services, node : Nodes \cup {NoNode}]
      BY DEF Item, Queued
    <3> QED BY <1>1, <2>4, <3>1 DEF ListPending, RoundOK
  <2>5. CASE RoundEnd \/ RoundFails
    BY <2>5 DEF RoundEnd, RoundFails, RoundOK, NoRound
  <2> QED BY <2>1, <2>2, <2>3, <2>4, <2>5
<1>7. RestOK'
  BY <1>1, <1>2, <1>3, <1>5, <1>6 DEF RestOK, WorldOK
<1> QED BY <1>4, <1>7

\* The reconciler asks for the lock of a service and starts its handler.
LEMMA RoundHandlerSteps ==
    ASSUME JobsFine, RestOK, NEW s \in Services,
           Retry(s) \/ \E n \in Nodes : Unreachable(s, n)
    PROVE  JobsFine' /\ RestOK'
<1>1. /\ StoreOK /\ JobsOK /\ RoundOK /\ 0 \in Nat /\ NoNode \in Nodes \cup {NoNode}
      /\ round.at \in Nat
  BY AtService DEF RoundOK
<1>2. UNCHANGED <<store, node, cooldown, recovering, hosts, now>>
  BY DEF Retry, Unreachable
<1>3. observed' = observed /\ placement' = placement
  BY <1>1, <1>2, StoreKept
<1>4. PICK rest \in SUBSET round.left, o \in Services \cup {NoService} :
         round' = [round EXCEPT !.left = rest, !.job = o]
  <2>1. round = [round EXCEPT !.job = round.job] /\ round.job \in Services \cup {NoService}
    BY <1>1 DEF RoundOK
  <2>2. PICK i : \/ round' = [round EXCEPT !.left = @ \ {i}]
                 \/ round' = [round EXCEPT !.left = @ \ {i}, !.job = s]
    BY DEF Retry, Unreachable
  <2>3. round.left \ {i} \in SUBSET round.left
    OBVIOUS
  <2>4. CASE round' = [round EXCEPT !.left = @ \ {i}]
    <3>1. round' = [round EXCEPT !.left = round.left \ {i}, !.job = round.job]
      BY <1>1, <2>4 DEF RoundOK
    <3> QED BY <2>1, <2>3, <3>1
  <2>5. CASE round' = [round EXCEPT !.left = @ \ {i}, !.job = s]
    BY <2>3, <2>5
  <2> QED BY <2>2, <2>4, <2>5
<1>5. RoundOK'
  BY <1>1, <1>4 DEF RoundOK
<1>6. RestOK'
  BY <1>2, <1>5, RestKept
<1>7. CASE Retry(s)
  <2>1. CASE Start(s, "exit", "retry", NoNode, 0, <<W("pending", FALSE)>>)
    <3>1. <<W("pending", FALSE)>> \in Seq(Writes)
      BY FixedWrites, Tuples
    <3>2. SafePlan(<<W("pending", FALSE)>>, Running(s), placement[s] # NoNode)
      BY <1>1, QuietPlansAreSafe
    <3> QED BY <1>1, <1>3, <1>6, <2>1, <3>1, <3>2, PointsListed, Started
  <2>2. CASE UNCHANGED <<job, todo>>
    BY <1>3, <1>6, <2>2, JobsKept
  <2>3. CASE Start(s, "schedule", "deploy", NoNode, 0, DeployPlan)
    <3>1. DeployPlan \in Seq(Writes) /\ SafePlan(DeployPlan, Running(s), placement[s] # NoNode)
      BY <1>1, FixedPlanTypes, QuietPlansAreSafe
    <3> QED BY <1>1, <1>3, <1>6, <2>3, <3>1, PointsListed, Started
  <2> QED BY <1>7, <2>1, <2>2, <2>3 DEF Retry
<1>8. CASE \E n \in Nodes : Unreachable(s, n)
  <2>1. PICK n \in Nodes : Unreachable(s, n)
    BY <1>8
  <2>2. CASE Start(s, "schedule", "unreachable", n, round.at, <<>>)
    <3>1. <<>> \in Seq(Writes) /\ SafePlan(<<>>, Running(s), placement[s] # NoNode)
      BY DEF SafePlan
    <3>2. n \in Nodes \cup {NoNode}
      OBVIOUS
    <3> QED BY <1>1, <1>3, <1>6, <2>2, <3>1, <3>2, PointsListed, Started
  <2>3. CASE UNCHANGED <<job, todo>>
    BY <1>3, <1>6, <2>3, JobsKept
  <2> QED BY <2>1, <2>2, <2>3 DEF Unreachable
<1> QED BY <1>7, <1>8

LEMMA WorldSteps ==
    ASSUME JobsFine, RestOK, Tick \/ \E n \in Nodes : Heartbeat(n) \/ StaleSnapshot(n)
    PROVE  JobsFine' /\ RestOK'
<1>1. UNCHANGED <<store, cooldown, recovering, job, todo, round, hosts>>
  BY DEF Tick, Heartbeat, StaleSnapshot
<1>2. StoreOK' /\ JobsFine'
  BY <1>1, StoreKept, JobsKept DEF RestOK
<1>3. WorldOK'
  BY ConstantsAssumption DEF RestOK, WorldOK, Tick, Heartbeat, StaleSnapshot
<1> QED BY <1>1, <1>2, <1>3 DEF RestOK, RoundOK

\* The process dies between any two steps of any handlers.
LEMMA CrashStep ==
    ASSUME JobsFine, RestOK, ControllerCrash
    PROVE  JobsFine' /\ RestOK'
<1>1. UNCHANGED <<store, node, hosts, now>>
  BY DEF ControllerCrash
<1>2. observed' = observed /\ placement' = placement
  BY <1>1 DEF store
<1>3. /\ job' \in [Services -> JobRecords] /\ todo' \in [Services -> Seq(Writes)]
      /\ \A s \in Services : job'[s] = NoJob /\ todo'[s] = <<>>
  <2>1. <<>> \in Seq(Writes)
    OBVIOUS
  <2> QED BY <2>1, NoJobType DEF ControllerCrash
<1>4. \A s \in Services : JobSafe(s)'
  BY <1>3, NoJobType DEF JobSafe, SafePlan
<1>5. JobsFine'
  BY <1>2, <1>3, <1>4 DEF JobsFine, RunningIsPlaced, Running
<1>6. StoreOK'
  BY <1>1 DEF ControllerCrash, StoreOK, RestOK, store
<1>7. RoundOK'
  BY DEF ControllerCrash, RoundOK, NoRound
<1>8. recovering' \in [Services -> SUBSET Nat]
  BY DEF ControllerCrash
<1> QED BY <1>1, <1>5, <1>6, <1>7, <1>8 DEF RestOK, WorldOK

-----------------------------------------------------------------------------
(* The invariant *)

LEMMA InitInv == Init => PlacedInv
<1> SUFFICES ASSUME Init PROVE JobsFine /\ RestOK
  BY InvParts
<1>1. NoObservation \in ObservedState /\ NoObservation.status = "none"
  BY DEF NoObservation, Observation, ObservedState, ObservedStatus
<1>2. StoreOK
  BY <1>1 DEF Init, StoreOK, DesiredStatus
<1>3. RoundOK /\ WorldOK /\ recovering \in [Services -> SUBSET Nat]
  BY DEF Init, RoundOK, WorldOK, NoRound
<1>4. job \in [Services -> JobRecords] /\ todo \in [Services -> Seq(Writes)]
  <2>1. <<>> \in Seq(Writes)
    OBVIOUS
  <2> QED BY <2>1, NoJobType DEF Init
<1>5. RunningIsPlaced /\ \A s \in Services : JobSafe(s)
  BY <1>1, NoJobType DEF Init, RunningIsPlaced, Running, JobSafe, SafePlan
<1> QED BY <1>2, <1>3, <1>4, <1>5 DEF JobsFine, RestOK

LEMMA NextInv == PlacedInv /\ [Next]_vars => PlacedInv'
<1> SUFFICES ASSUME JobsFine, RestOK, [Next]_vars PROVE JobsFine' /\ RestOK'
  BY InvParts
<1>1. CASE \E s \in Services : Handler(s)
  BY <1>1, WriteStep, ScheduleStep, FinishStep, DeployStep, RetireStep, RestartStep,
     StopStep, ManualStep, UndoStep DEF Handler
<1>2. CASE \E s \in Services : Request(s)
  BY <1>2, RequestSteps, ReportStep DEF Request
<1>3. CASE \E s \in Services : StoreFails(s)
  BY <1>3, StoreFailsStep
<1>4. CASE Reconcile \/ RoundFails
  BY <1>4, RoundSteps, RoundHandlerSteps DEF Reconcile
<1>5. CASE Tick \/ \E n \in Nodes : Heartbeat(n) \/ StaleSnapshot(n)
  BY <1>5, WorldSteps
<1>6. CASE ControllerCrash
  BY <1>6, CrashStep
<1>7. CASE UNCHANGED vars
  <2>1. /\ UNCHANGED <<store, cooldown, node, recovering, job, todo, round, hosts, now>>
        /\ observed' = observed /\ placement' = placement
    BY <1>7 DEF vars, store
  <2> QED BY <2>1, JobsKept, RestKept
<1> QED BY <1>1, <1>2, <1>3, <1>4, <1>5, <1>6, <1>7 DEF Next

\* The inductive invariant: types, running services placed, and every write plan
\* under way safe, for any number of services and nodes, whatever write fails
\* and whenever the process dies.
THEOREM Invariant == Spec => []PlacedInv
BY InitInv, NextInv, PTL DEF Spec

\* Every key of the store, every job, every write still to be made and the
\* reconciliation round hold values of their types in every reachable state of
\* the handlers of service_manager.py, self_healing.py and reconciler.py.
THEOREM TypeCorrect == Spec => []TypeOK
<1>1. PlacedInv => TypeOK
  BY DEF PlacedInv
<1> QED BY <1>1, Invariant, PTL

\* A service shown as running has a placement: the order of the writes in
\* deploy_service, stop_service and the recoveries keeps this at every await,
\* with store failures, agent timeouts and controller crashes.
THEOREM RunningServicesArePlaced == Spec => []RunningIsPlaced
<1>1. PlacedInv => RunningIsPlaced
  BY DEF PlacedInv
<1> QED BY <1>1, Invariant, PTL

-----------------------------------------------------------------------------
(* Progress: no handler and no round goes on for ever. *)

LEMMA PlanLengths ==
    ASSUME NEW s \in Services
    PROVE  /\ Len(DeployPlan) = 1
           /\ Len(PlacementFailedPlan) = 2 /\ Len(DeployFailedPlan) = 2
           /\ Len(ManuallyRestartedPlan(s)) = 1
           /\ Len(CountedPlan(s)) = 1 /\ Len(HealthyPlan(s)) = 5
           /\ Len(RestartedPlan(s)) = 3 /\ Len(RestartFailedPlan(s)) = 3
           /\ Len(NoCandidatePlan(s)) = 3 /\ Len(NoReplacementPlan(s)) = 2
           /\ Len(RescheduleFailedPlan(s)) = 3 /\ Len(EvacuationFailedPlan(s)) = 2
           /\ \A at \in Nat : Len(NodeMissingPlan(s, at)) = 3
BY DEF DeployPlan, PlacementFailedPlan, DeployFailedPlan, ManuallyRestartedPlan,
       CountedPlan, HealthyPlan, NodeMissingPlan, RestartedPlan, RestartFailedPlan,
       NoCandidatePlan, NoReplacementPlan, RescheduleFailedPlan, EvacuationFailedPlan

\* The plans of a deployment that failed or found no node.
LEMMA FailureLengths ==
    ASSUME NEW s \in Services,
           NEW plan \in {PlacementFailedPlan, NoCandidatePlan(s), NoReplacementPlan(s),
                         DeployFailedPlan, RescheduleFailedPlan(s), EvacuationFailedPlan(s)}
    PROVE  Len(plan) \in Nat /\ Len(plan) <= 3
<1>1. plan \in {PlacementFailedPlan, NoReplacementPlan(s), DeployFailedPlan,
                EvacuationFailedPlan(s)} => Len(plan) = 2
  BY PlanLengths
<1>2. plan \in {NoCandidatePlan(s), RescheduleFailedPlan(s)} => Len(plan) = 3
  BY PlanLengths
<1>3. CASE Len(plan) = 2
  BY <1>3
<1>4. CASE Len(plan) = 3
  BY <1>4
<1> QED BY <1>1, <1>2, <1>3, <1>4

LEMMA PlacingLengths ==
    ASSUME NEW n \in Nodes
    PROVE  /\ Len(DeployedPlan(n)) = 5
           /\ \A s \in Services : Len(EvacuatedPlan(s, n)) = 5 /\ Len(RescheduledPlan(s, n)) = 6
BY DEF DeployedPlan, RescheduledPlan, EvacuatedPlan

LEMMA StoppedPlanLength ==
    ASSUME NEW s \in Services
    PROVE  Len(StoppedPlan(s)) \in Nat /\ Len(StoppedPlan(s)) <= 5
<1> DEFINE a == W("observed", Observation("stopped", NoNode, 0))
           b == W("placement", NoNode)
           c == W("pending", FALSE)
           d == W("restarts", 0)
           e == W("desired", "stopped")
<1>1. /\ <<a, b, c, d>> \in Seq({a, b, c, d, e}) /\ Len(<<a, b, c, d>>) = 4
      /\ <<e>> \in Seq({a, b, c, d, e}) /\ Len(<<e>>) = 1
  OBVIOUS
<1>2. <<>> \in Seq({a, b, c, d, e}) /\ Len(<<>>) = 0
  OBVIOUS
<1>3. StoppedPlan(s) = <<a, b, c, d>> \o (IF desired[s] = "none" THEN <<>> ELSE <<e>>)
  BY Zenon DEF StoppedPlan
<1> HIDE DEF a, b, c, d, e
<1> QED BY <1>1, <1>2, <1>3

\* What the lemmas below need of the jobs.
JobAt(s) ==
    /\ job \in [Services -> JobRecords]
    /\ todo \in [Services -> Seq(Writes)]
    /\ s \in Services

LEMMA StepsAreNumbers ==
    /\ \A p \in Points : StepsFrom(p) \in Nat /\ (p # "idle" => StepsFrom(p) >= 1)
    /\ \A plan \in Seq(Writes) : Len(plan) \in Nat
BY DEF Points, StepsFrom

LEMMA InstalledShrinks ==
    ASSUME NEW s, JobAt(s), NEW r \in JobRecords, NEW plan \in Seq(Writes),
           job' = [job EXCEPT ![s] = r],
           todo' = [todo EXCEPT ![s] = plan],
           StepsFrom(r.pc) + Len(plan) < (IF Idle(s) THEN LongestHandler + 1 ELSE StepsLeft(s))
    PROVE  \A t \in Services : HandlerShrinks(t)
<1>1. /\ job'[s] = r /\ todo'[s] = plan
      /\ \A t \in Services \ {s} : job'[t] = job[t] /\ todo'[t] = todo[t]
  BY DEF JobAt
<1>2. StepsLeft(s)' = StepsFrom(r.pc) + Len(plan)
  BY <1>1 DEF StepsLeft, StepsFrom
<1>3. HandlerShrinks(s)
  BY <1>2 DEF HandlerShrinks
<1>4. \A t \in Services \ {s} : HandlerShrinks(t)
  BY <1>1 DEF HandlerShrinks
<1> QED BY <1>3, <1>4

LEMMA StartShrinks ==
    ASSUME JobsFine, NEW s \in Services, NEW p \in Points, NEW o \in Operations,
           NEW n \in Nodes \cup {NoNode}, NEW t \in Nat, NEW plan \in Seq(Writes),
           Start(s, p, o, n, t, plan), Idle(s),
           StepsFrom(p) + Len(plan) <= LongestHandler
    PROVE  \A u \in Services : HandlerShrinks(u)
<1> DEFINE r == [pc |-> p, op |-> o, target |-> n, from |-> n, at |-> t]
<1>1. r \in JobRecords /\ r.pc = p /\ JobAt(s)
  BY DEF JobRecords, JobAt, JobsFine
<1>2. job' = [job EXCEPT ![s] = r] /\ todo' = [todo EXCEPT ![s] = plan]
  BY DEF Start
<1>3. StepsFrom(p) + Len(plan) < LongestHandler + 1
  BY StepsAreNumbers DEF LongestHandler
<1> HIDE DEF r
<1> QED BY <1>1, <1>2, <1>3, InstalledShrinks

LEMMA ContinueShrinks ==
    ASSUME JobsFine, NEW s \in Services, NEW p \in Points, NEW n \in Nodes \cup {NoNode},
           NEW plan \in Seq(Writes), Continue(s, p, n, plan), ~Idle(s),
           StepsFrom(p) + Len(plan) < StepsLeft(s)
    PROVE  \A u \in Services : HandlerShrinks(u)
<1> DEFINE r == [job[s] EXCEPT !.pc = p, !.target = n]
<1>1. job[s] \in JobRecords /\ JobAt(s)
  BY DEF JobsFine, JobAt
<1>2. r \in JobRecords /\ r.pc = p
  BY <1>1 DEF JobRecords
<1>3. job' = [job EXCEPT ![s] = r] /\ todo' = [todo EXCEPT ![s] = plan]
  BY DEF Continue
<1> HIDE DEF r
<1> QED BY <1>1, <1>2, <1>3, InstalledShrinks

LEMMA LeaveShrinks ==
    ASSUME JobsFine, NEW s \in Services,
           job' = [job EXCEPT ![s] = NoJob], todo' = [todo EXCEPT ![s] = <<>>]
    PROVE  \A u \in Services : HandlerShrinks(u)
<1>1. JobAt(s) /\ job[s].pc \in Points /\ todo[s] \in Seq(Writes) /\ <<>> \in Seq(Writes)
  BY DEF JobsFine, JobAt, JobRecords
<1>2. StepsFrom(NoJob.pc) + Len(<<>>) = 0
  BY DEF NoJob, StepsFrom
<1>3. ~Idle(s) => StepsLeft(s) > 0
  BY <1>1, StepsAreNumbers DEF Idle, StepsLeft
<1>4. 0 < (IF Idle(s) THEN LongestHandler + 1 ELSE StepsLeft(s))
  BY <1>3 DEF LongestHandler
<1>5. StepsFrom(NoJob.pc) + Len(<<>>) < (IF Idle(s) THEN LongestHandler + 1 ELSE StepsLeft(s))
  BY <1>2, <1>4
<1> QED BY <1>1, <1>5, NoJobType, InstalledShrinks

\* What is left at the points where a handler waits for a call.
LEMMA AtPoint ==
    ASSUME NEW s \in Services, NEW p \in Points \ {"idle"}, At(s, p)
    PROVE  ~Idle(s) /\ StepsLeft(s) = StepsFrom(p)
<1>1. StepsFrom(p) \in Nat /\ job[s].pc = p /\ Len(todo[s]) = 0
  BY StepsAreNumbers DEF At
<1> QED BY <1>1 DEF Idle, StepsLeft

\* The values of StepsFrom.
LEMMA PointSteps ==
    /\ StepsFrom("commit") = 1 /\ StepsFrom("sync") = 1 /\ StepsFrom("exit") = 1
    /\ StepsFrom("undo") = 1 /\ StepsFrom("manual") = 3 /\ StepsFrom("restart") = 5
    /\ StepsFrom("stop") = 7 /\ StepsFrom("retire") = 8 /\ StepsFrom("deploy") = 9
    /\ StepsFrom("schedule") = 10
BY DEF StepsFrom


LEMMA WriteShrinks ==
    ASSUME JobsFine, NEW s \in Services, Write(s), ~Idle(s)
    PROVE  \A t \in Services : HandlerShrinks(t)
<1>1. /\ todo[s] \in Seq(Writes) /\ todo[s] # <<>> /\ job[s].pc \in Points
      /\ job \in [Services -> JobRecords] /\ todo \in [Services -> Seq(Writes)]
  BY DEF JobsFine, JobRecords, Write
<1>2. /\ job' = job /\ todo'[s] = Tail(todo[s])
      /\ \A t \in Services \ {s} : todo'[t] = todo[t]
  BY <1>1 DEF Write
<1>3. Len(Tail(todo[s])) = Len(todo[s]) - 1 /\ Len(todo[s]) \in Nat
  BY <1>1
<1>4. StepsLeft(s)' < StepsLeft(s)
  <2>1. StepsLeft(s)' = StepsFrom(job[s].pc) + Len(Tail(todo[s]))
    BY <1>2 DEF StepsLeft, StepsFrom
  <2> QED BY <1>1, <1>3, <2>1, StepsAreNumbers DEF StepsLeft
<1> QED BY <1>2, <1>4 DEF HandlerShrinks

LEMMA ScheduleShrinks ==
    ASSUME JobsFine, RestOK, NEW s \in Services, Schedule(s)
    PROVE  \A t \in Services : HandlerShrinks(t)
<1>1. JobsFine /\ RestOK
  OBVIOUS
<1>2. /\ job[s].op \in {"deploy", "reschedule", "unreachable"}
      /\ ~Idle(s) /\ StepsLeft(s) = 10
  BY <1>1, AtService, AtPoint, PointSteps, PointsListed DEF Schedule, JobSafe, At
<1>3. PICK n \in Schedulable(Nodes \ {job[s].from}) :
         IF n = NoNode THEN Continue(s, "sync", n, UnscheduledPlan(s))
                       ELSE Continue(s, "deploy", n, <<>>)
  BY DEF Schedule
<1>4. n \in Nodes \cup {NoNode}
  BY <1>3 DEF Schedulable
<1>5. CASE n = NoNode
  <2>1. UnscheduledPlan(s) \in {PlacementFailedPlan, NoCandidatePlan(s), NoReplacementPlan(s)}
    BY <1>2 DEF UnscheduledPlan
  <2>2. /\ PlacementFailedPlan \in Seq(Writes)
        /\ NoCandidatePlan(s) \in Seq(Writes) /\ NoReplacementPlan(s) \in Seq(Writes)
    BY <1>1, <1>4, AtService, FixedPlanTypes, RecoveryPlanTypes
  <2>3. UnscheduledPlan(s) \in Seq(Writes) /\ Len(UnscheduledPlan(s)) \in Nat /\ Len(UnscheduledPlan(s)) <= 3
    BY <2>1, <2>2, FailureLengths
  <2>4. StepsFrom("sync") + Len(UnscheduledPlan(s)) < StepsLeft(s)
    BY <1>2, <2>3, PointSteps
  <2>5. Continue(s, "sync", n, UnscheduledPlan(s))
    BY <1>3, <1>5
  <2> QED BY <1>1, <1>2, <1>4, <2>3, <2>4, <2>5, PointsListed, ContinueShrinks
<1>6. CASE n # NoNode
  <2>1. <<>> \in Seq(Writes) /\ StepsFrom("deploy") + Len(<<>>) < StepsLeft(s)
    BY <1>2, PointSteps
  <2> QED BY <1>1, <1>2, <1>3, <1>4, <1>6, <2>1, PointsListed, ContinueShrinks
<1> QED BY <1>5, <1>6

LEMMA DeployShrinks ==
    ASSUME JobsFine, RestOK, NEW s \in Services, DeployReply(s)
    PROVE  \A t \in Services : HandlerShrinks(t)
<1> DEFINE n == job[s].target
<1>1. JobsFine /\ RestOK /\ StoreOK
  BY AtService
<1>2. /\ job[s].op \in {"deploy", "reschedule", "unreachable"} /\ n \in Nodes
      /\ ~Idle(s) /\ StepsLeft(s) = 9
  BY <1>1, AtService, AtPoint, PointSteps, PointsListed DEF DeployReply, JobSafe, At
<1>3. DeploySucceeds(s) \/ DeployFails(s)
  BY DEF DeployReply
<1>4. /\ DeployedPlan(n) \in Seq(Writes) /\ EvacuatedPlan(s, n) \in Seq(Writes)
      /\ DeployFailedPlan \in Seq(Writes)
      /\ RescheduleFailedPlan(s) \in Seq(Writes) /\ EvacuationFailedPlan(s) \in Seq(Writes)
  BY <1>1, <1>2, AtService, FixedPlanTypes, StorePlanTypes, RecoveryPlanTypes
<1>5. CASE DeploySucceeds(s)
  <2>1. CASE job[s].op = "deploy"
    <3>1. Continue(s, "commit", n, DeployedPlan(n))
      BY <1>5, <2>1 DEF DeploySucceeds
    <3>2. StepsFrom("commit") + Len(DeployedPlan(n)) < StepsLeft(s)
      <4>1. StepsFrom("commit") = 1 /\ Len(DeployedPlan(n)) = 5
        BY <1>2, PlacingLengths, PointSteps
      <4> QED BY <1>2, <4>1
    <3> QED BY <1>1, <1>2, <1>4, <3>1, <3>2, PointsListed, ContinueShrinks
  <2>2. CASE job[s].op = "reschedule"
    <3>1. Continue(s, "retire", n, <<>>)
      BY <1>5, <2>2 DEF DeploySucceeds
    <3>2. <<>> \in Seq(Writes) /\ StepsFrom("retire") + Len(<<>>) < StepsLeft(s)
      BY <1>2, PointSteps
    <3> QED BY <1>1, <1>2, <3>1, <3>2, PointsListed, ContinueShrinks
  <2>3. CASE job[s].op = "unreachable"
    <3>1. Continue(s, "commit", n, EvacuatedPlan(s, n))
      BY <1>5, <2>3 DEF DeploySucceeds
    <3>2. StepsFrom("commit") + Len(EvacuatedPlan(s, n)) < StepsLeft(s)
      <4>1. StepsFrom("commit") = 1 /\ Len(EvacuatedPlan(s, n)) = 5
        BY <1>2, PlacingLengths, PointSteps
      <4> QED BY <1>2, <4>1
    <3> QED BY <1>1, <1>2, <1>4, <3>1, <3>2, PointsListed, ContinueShrinks
  <2> QED BY <1>2, <2>1, <2>2, <2>3
<1>6. CASE DeployFails(s)
  <2>1. PICK plan \in {DeployFailedPlan, RescheduleFailedPlan(s), EvacuationFailedPlan(s)} :
           Continue(s, "sync", n, plan)
    BY <1>2, <1>6 DEF DeployFails
  <2>2. plan \in Seq(Writes) /\ Len(plan) \in Nat /\ Len(plan) <= 3
    BY <1>4, <2>1, FailureLengths
  <2>3. StepsFrom("sync") + Len(plan) < StepsLeft(s)
    BY <1>2, <2>2, PointSteps
  <2> QED BY <1>1, <1>2, <2>1, <2>2, <2>3, PointsListed, ContinueShrinks
<1> QED BY <1>3, <1>5, <1>6

\* The replies to the other calls.
LEMMA RepliesShrink ==
    ASSUME JobsFine, RestOK, NEW s \in Services,
           RetireReply(s) \/ RestartReply(s) \/ StopReply(s) \/ ManualReply(s)
    PROVE  \A t \in Services : HandlerShrinks(t)
<1> DEFINE n == job[s].target
<1>1. JobsFine /\ RestOK /\ StoreOK /\ JobsOK /\ n \in Nodes \cup {NoNode} /\ 0 \in Nat
  BY AtService
<1>2. CASE RetireReply(s)
  <2>1. ~Idle(s) /\ StepsLeft(s) = 8 /\ n \in Nodes
    BY <1>1, <1>2, AtService, AtPoint, PointSteps, PointsListed DEF RetireReply, JobSafe, At
  <2>2. RescheduledPlan(s, n) \in Seq(Writes)
    BY <1>1, <2>1, AtService, RecoveryPlanTypes
  <2>3. StepsFrom("commit") + Len(RescheduledPlan(s, n)) < StepsLeft(s)
    <3>1. StepsFrom("commit") = 1 /\ Len(RescheduledPlan(s, n)) = 6
      BY <2>1, PlacingLengths, PointSteps
    <3> QED BY <2>1, <3>1
  <2> QED BY <1>1, <1>2, <2>1, <2>2, <2>3, PointsListed, ContinueShrinks DEF RetireReply
<1>3. CASE RestartReply(s)
  <2>1. ~Idle(s) /\ StepsLeft(s) = 5
    BY <1>1, <1>3, AtPoint, PointSteps, PointsListed DEF RestartReply
  <2>2. RestartedPlan(s) \in Seq(Writes) /\ RestartFailedPlan(s) \in Seq(Writes)
    BY <1>1, AtService, RecoveryPlanTypes
  <2>3. /\ StepsFrom("exit") + Len(RestartedPlan(s)) < StepsLeft(s)
        /\ StepsFrom("sync") + Len(RestartFailedPlan(s)) < StepsLeft(s)
    <3>1. /\ StepsFrom("exit") = 1 /\ StepsFrom("sync") = 1
          /\ Len(RestartedPlan(s)) = 3 /\ Len(RestartFailedPlan(s)) = 3
      BY PlanLengths, PointSteps
    <3> QED BY <2>1, <3>1
  <2>4. Continue(s, "exit", n, RestartedPlan(s)) \/ Continue(s, "sync", n, RestartFailedPlan(s))
    BY <1>3 DEF RestartReply
  <2> QED BY <1>1, <2>1, <2>2, <2>3, <2>4, PointsListed, ContinueShrinks
<1>4. CASE StopReply(s)
  <2>1. ~Idle(s) /\ StepsLeft(s) = 7
    BY <1>1, <1>4, AtPoint, PointSteps, PointsListed DEF StopReply
  <2>2. StoppedPlan(s) \in Seq(Writes)
    BY <1>1, StorePlanTypes
  <2>3. StepsFrom("sync") + Len(StoppedPlan(s)) < StepsLeft(s)
    <3>1. StepsFrom("sync") = 1 /\ Len(StoppedPlan(s)) \in Nat /\ Len(StoppedPlan(s)) <= 5
      BY StoppedPlanLength, PointSteps
    <3> QED BY <2>1, <3>1
  <2> QED BY <1>1, <1>4, <2>1, <2>2, <2>3, PointsListed, ContinueShrinks DEF StopReply
<1>5. CASE ManualReply(s)
  <2>1. ~Idle(s) /\ StepsLeft(s) = 3
    BY <1>1, <1>5, AtPoint, PointSteps, PointsListed DEF ManualReply
  <2>2. ManuallyRestartedPlan(s) \in Seq(Writes)
    BY <1>1, StorePlanTypes
  <2>3. StepsFrom("sync") + Len(ManuallyRestartedPlan(s)) < StepsLeft(s)
    <3>1. StepsFrom("sync") = 1 /\ Len(ManuallyRestartedPlan(s)) = 1
      BY PlanLengths, PointSteps
    <3> QED BY <2>1, <3>1
  <2>4. Continue(s, "sync", n, ManuallyRestartedPlan(s)) \/ Leave(s)
    BY <1>5 DEF ManualReply
  <2> QED BY <1>1, <2>1, <2>2, <2>3, <2>4, PointsListed, ContinueShrinks, LeaveShrinks DEF Leave
<1> QED BY <1>2, <1>3, <1>4, <1>5

LEMMA StoreFailsShrinks ==
    ASSUME JobsFine, RestOK, NEW s \in Services, StoreFails(s)
    PROVE  \A t \in Services : HandlerShrinks(t)
<1>1. JobsFine /\ job[s].target \in Nodes \cup {NoNode} /\ todo[s] \in Seq(Writes)
  BY AtService
<1>2. CASE todo[s] # <<>> /\ Guarded(s)
  <2>1. Continue(s, "undo", job[s].target, <<>>)
    BY <1>2 DEF StoreFails
  <2>2. ~Idle(s) /\ <<>> \in Seq(Writes) /\ StepsFrom("undo") + Len(<<>>) < StepsLeft(s)
    BY <1>1, <1>2, PointSteps DEF Guarded, Idle, StepsLeft
  <2> QED BY <1>1, <2>1, <2>2, PointsListed, ContinueShrinks
<1>3. CASE ~(todo[s] # <<>> /\ Guarded(s))
  BY <1>1, <1>3, LeaveShrinks DEF StoreFails, Leave
<1> QED BY <1>2, <1>3

LEMMA RequestsShrink ==
    ASSUME JobsFine, RestOK, NEW s \in Services,
           DeployRequest(s) \/ StopRequest(s) \/ RestartRequest(s)
    PROVE  \A t \in Services : HandlerShrinks(t)
<1>1. /\ StoreOK /\ JobsOK /\ placement[s] \in Nodes \cup {NoNode}
      /\ 0 \in Nat /\ NoNode \in Nodes \cup {NoNode} /\ <<>> \in Seq(Writes) /\ JobsFine
  BY AtService
<1>2. Idle(s)
  BY DEF DeployRequest, StopRequest, RestartRequest
<1>3. CASE DeployRequest(s)
  <2>1. DeployPlan \in Seq(Writes) /\ StepsFrom("schedule") + Len(DeployPlan) <= LongestHandler
    <3>1. Len(DeployPlan) = 1
      BY DEF DeployPlan
    <3> QED BY <3>1, FixedPlanTypes, PointSteps DEF LongestHandler
  <2> QED BY <1>1, <1>2, <1>3, <2>1, PointsListed, StartShrinks DEF DeployRequest
<1>4. CASE StopRequest(s)
  <2>1. StepsFrom("stop") + Len(<<>>) <= LongestHandler
    BY PointSteps DEF LongestHandler
  <2>2. StoppedPlan(s) \in Seq(Writes)
    BY <1>1, StorePlanTypes
  <2>3. StepsFrom("sync") + Len(StoppedPlan(s)) <= LongestHandler
    <3>1. StepsFrom("sync") = 1 /\ Len(StoppedPlan(s)) \in Nat /\ Len(StoppedPlan(s)) <= 5
      BY StoppedPlanLength, PointSteps
    <3> QED BY <3>1 DEF LongestHandler
  <2>4. CASE Start(s, "stop", "stop", placement[s], 0, <<>>)
    BY <1>1, <1>2, <2>1, <2>4, PointsListed, StartShrinks
  <2>5. CASE Start(s, "sync", "stop", NoNode, 0, StoppedPlan(s))
    BY <1>1, <1>2, <2>2, <2>3, <2>5, PointsListed, StartShrinks
  <2> QED BY <1>4, <2>4, <2>5 DEF StopRequest
<1>5. CASE RestartRequest(s)
  <2>1. StepsFrom("manual") + Len(<<>>) <= LongestHandler
    BY PointSteps DEF LongestHandler
  <2>2. Start(s, "manual", "manual", placement[s], 0, <<>>)
    BY <1>5 DEF RestartRequest
  <2> QED BY <1>1, <1>2, <2>1, <2>2, PointsListed, StartShrinks
<1> QED BY <1>3, <1>4, <1>5

LEMMA RecoverShrinks ==
    ASSUME JobsFine, RestOK, NEW s \in Services, NEW t \in Nat, Idle(s), Recover(s, t)
    PROVE  \A u \in Services : HandlerShrinks(u)
<1>1. StoreOK /\ JobsOK /\ placement[s] \in Nodes \cup {NoNode} /\ 0 \in Nat /\ JobsFine
  BY AtService
<1>2. CountedPlan(s) \in Seq(Writes)
  BY <1>1, StorePlanTypes
<1>3. /\ StepsFrom("restart") + Len(CountedPlan(s)) <= LongestHandler
      /\ StepsFrom("schedule") + Len(CountedPlan(s)) <= LongestHandler
  <2>1. StepsFrom("restart") = 5 /\ StepsFrom("schedule") = 10 /\ Len(CountedPlan(s)) = 1
    BY PlanLengths, PointSteps
  <2> QED BY <2>1 DEF LongestHandler
<1>4. \/ Start(s, "restart", "restart", placement[s], t, CountedPlan(s))
      \/ Start(s, "schedule", "reschedule", placement[s], t, CountedPlan(s))
  BY DEF Recover
<1> QED BY <1>1, <1>2, <1>3, <1>4, PointsListed, StartShrinks

LEMMA ReportShrinks ==
    ASSUME JobsFine, RestOK, NEW s \in Services, Report(s)
    PROVE  \A u \in Services : HandlerShrinks(u)
<1>1. PICK n \in Nodes, t \in 0..now, g \in Generations(s) :
         CrashReport(s, n, t, g) \/ HealthyReport(s, n, g) \/ UnhealthyReport(s, n, t, g)
  BY DEF Report
<1>2. /\ StoreOK /\ JobsOK /\ 0 \in Nat /\ t \in Nat /\ JobsFine /\ RestOK
      /\ n \in Nodes \cup {NoNode} /\ Idle(s)
  BY <1>1, AtService DEF CrashReport, HealthyReport, UnhealthyReport, WorldOK
<1>3. CASE HealthyReport(s, n, g)
  <2>1. HealthyPlan(s) \in Seq(Writes)
    BY <1>2, StorePlanTypes
  <2>2. StepsFrom("exit") + Len(HealthyPlan(s)) <= LongestHandler
    <3>1. StepsFrom("exit") = 1 /\ Len(HealthyPlan(s)) = 5
      BY PlanLengths, PointSteps
    <3> QED BY <3>1 DEF LongestHandler
  <2>3. Start(s, "exit", "healthy", n, 0, HealthyPlan(s))
    BY <1>3 DEF HealthyReport
  <2> QED BY <1>2, <2>1, <2>2, <2>3, PointsListed, StartShrinks
<1>4. CASE Recover(s, t)
  BY <1>2, <1>4, RecoverShrinks
<1>5. CASE Start(s, "sync", "unhealthy", n, t, NodeMissingPlan(s, t))
  <2>1. NodeMissingPlan(s, t) \in Seq(Writes)
    BY <1>2, StorePlanTypes
  <2>2. StepsFrom("sync") + Len(NodeMissingPlan(s, t)) <= LongestHandler
    <3>1. StepsFrom("sync") = 1 /\ Len(NodeMissingPlan(s, t)) = 3
      BY <1>2, PlanLengths, PointSteps
    <3> QED BY <3>1 DEF LongestHandler
  <2> QED BY <1>2, <1>5, <2>1, <2>2, PointsListed, StartShrinks
<1> QED BY <1>1, <1>3, <1>4, <1>5 DEF CrashReport, UnhealthyReport

LEMMA RoundHandlersShrink ==
    ASSUME JobsFine, RestOK, NEW s \in Services,
           Retry(s) \/ \E n \in Nodes : Unreachable(s, n)
    PROVE  \A t \in Services : HandlerShrinks(t)
<1>1. /\ 0 \in Nat /\ NoNode \in Nodes \cup {NoNode} /\ round.at \in Nat /\ Idle(s)
      /\ <<>> \in Seq(Writes) /\ JobsFine
  <2>1. RoundOK /\ JobsFine /\ <<>> \in Seq(Writes)
    BY AtService
  <2>2. Idle(s)
    BY DEF Retry, Unreachable
  <2> QED BY <2>1, <2>2 DEF RoundOK
<1>2. CASE UNCHANGED <<job, todo>>
  BY <1>2 DEF HandlerShrinks
<1>3. CASE Start(s, "exit", "retry", NoNode, 0, <<W("pending", FALSE)>>)
  <2>1. <<W("pending", FALSE)>> \in Seq(Writes)
    BY FixedWrites, Tuples
  <2>2. StepsFrom("exit") + Len(<<W("pending", FALSE)>>) <= LongestHandler
    BY PointSteps DEF LongestHandler
  <2> QED BY <1>1, <1>3, <2>1, <2>2, PointsListed, StartShrinks
<1>4. CASE Start(s, "schedule", "deploy", NoNode, 0, DeployPlan)
  <2>1. DeployPlan \in Seq(Writes) /\ StepsFrom("schedule") + Len(DeployPlan) <= LongestHandler
    <3>1. Len(DeployPlan) = 1
      BY DEF DeployPlan
    <3> QED BY <3>1, FixedPlanTypes, PointSteps DEF LongestHandler
  <2> QED BY <1>1, <1>4, <2>1, PointsListed, StartShrinks
<1>5. ASSUME NEW n \in Nodes, Start(s, "schedule", "unreachable", n, round.at, <<>>)
      PROVE  \A t \in Services : HandlerShrinks(t)
  <2>1. StepsFrom("schedule") + Len(<<>>) <= LongestHandler /\ n \in Nodes \cup {NoNode}
    BY PointSteps DEF LongestHandler
  <2> QED BY <1>1, <1>5, <2>1, PointsListed, StartShrinks
<1> QED BY <1>2, <1>3, <1>4, <1>5 DEF Retry, Unreachable

-----------------------------------------------------------------------------
(* What the steps of a handler mean for the round that awaits it. *)

Others(s) == \A t \in Services \ {s} : job'[t] = job[t] /\ todo'[t] = todo[t]

\* The handler of s takes the lock, goes on, or returns.
Begins(s) == Idle(s) /\ job'[s].pc # "idle" /\ round' = round

Advances(s) ==
    /\ ~Idle(s)
    /\ job'[s].op = job[s].op
    /\ job'[s].pc = job[s].pc \/ job'[s].pc \notin {"idle", "manual", "stop", "restart"}
    /\ round' = round

Returns(s) ==
    /\ ~Idle(s)
    /\ job'[s].pc = "idle" /\ todo'[s] = <<>>
    /\ \/ round' \in {Returned(s), Raised(s)}
       \/ job[s].pc = "manual" /\ round' = round

Outcome(s) == Others(s) /\ (Begins(s) \/ Advances(s) \/ Returns(s))

LEMMA StartOutcome ==
    ASSUME JobsFine, NEW s \in Services, NEW p \in Points \ {"idle"}, NEW o, NEW n, NEW t, NEW plan,
           Idle(s), Start(s, p, o, n, t, plan), round' = round
    PROVE  Outcome(s)
BY DEF JobsFine, Start, Outcome, Others, Begins

LEMMA ContinueOutcome ==
    ASSUME JobsFine, NEW s \in Services, NEW p \in Points \ {"idle", "manual", "stop", "restart"},
           NEW n, NEW plan, ~Idle(s), Continue(s, p, n, plan), round' = round
    PROVE  Outcome(s)
BY DEF JobsFine, JobRecords, Continue, Outcome, Others, Advances

LEMMA LeaveOutcome ==
    ASSUME JobsFine, NEW s \in Services, ~Idle(s), Leave(s),
           round' \in {Returned(s), Raised(s)} \/ (job[s].pc = "manual" /\ round' = round)
    PROVE  Outcome(s)
BY DEF JobsFine, JobRecords, Leave, NoJob, Outcome, Others, Returns

LEMMA HandlerOutcome ==
    ASSUME JobsFine, RestOK, NEW s \in Services, Handler(s) \/ StoreFails(s),
           Idle(s) => todo[s] = <<>>
    PROVE  Outcome(s)
<1>1. JobsFine /\ job[s] \in JobRecords /\ JobSafe(s)
  BY AtService
<1>2. CASE Write(s)
  BY <1>1, <1>2 DEF Write, JobsFine, Outcome, Others, Advances
<1>3. CASE Schedule(s)
  <2>1. PICK n : \/ Continue(s, "sync", n, UnscheduledPlan(s))
                 \/ Continue(s, "deploy", n, <<>>)
    BY <1>3 DEF Schedule
  <2> QED BY <1>1, <1>3, <2>1, PointsListed, ContinueOutcome DEF Schedule, At, Idle
<1>4. CASE DeployReply(s)
  <2>1. job[s].op \in {"deploy", "reschedule", "unreachable"} /\ ~Idle(s)
    BY <1>1, <1>4 DEF DeployReply, At, JobSafe, Idle
  <2>2. PICK p, plan : p \in {"commit", "retire", "sync"} /\ Continue(s, p, job[s].target, plan)
    <3>1. CASE DeploySucceeds(s)
      <4>1. \/ Continue(s, "commit", job[s].target, DeployedPlan(job[s].target))
            \/ Continue(s, "retire", job[s].target, <<>>)
            \/ Continue(s, "commit", job[s].target, EvacuatedPlan(s, job[s].target))
        BY <2>1, <3>1 DEF DeploySucceeds
      <4> QED BY <4>1
    <3>2. CASE DeployFails(s)
      <4>1. \E plan : Continue(s, "sync", job[s].target, plan)
        BY <3>2, Zenon DEF DeployFails
      <4> QED BY <4>1
    <3> QED BY <1>4, <3>1, <3>2 DEF DeployReply
  <2>3. round' = round
    BY <1>4 DEF DeployReply
  <2> QED BY <1>1, <2>1, <2>2, <2>3, PointsListed, ContinueOutcome
<1>5. CASE RetireReply(s) \/ RestartReply(s) \/ StopReply(s)
  <2>1. PICK p, plan : p \in {"commit", "sync", "exit"} /\ Continue(s, p, job[s].target, plan)
    BY <1>5 DEF RetireReply, RestartReply, StopReply
  <2>2. ~Idle(s) /\ round' = round
    BY <1>5 DEF RetireReply, RestartReply, StopReply, At, Idle
  <2> QED BY <1>1, <2>1, <2>2, PointsListed, ContinueOutcome
<1>6. CASE ManualReply(s)
  <2>1. ~Idle(s) /\ round' = round /\ job[s].pc = "manual"
    BY <1>6 DEF ManualReply, At, Idle
  <2>2. Continue(s, "sync", job[s].target, ManuallyRestartedPlan(s)) \/ Leave(s)
    BY <1>6 DEF ManualReply
  <2> QED BY <1>1, <2>1, <2>2, PointsListed, ContinueOutcome, LeaveOutcome
<1>7. CASE Finish(s) \/ UndoReply(s)
  BY <1>1, <1>7, LeaveOutcome DEF Finish, UndoReply, At, Idle
<1>8. CASE StoreFails(s)
  <2>1. ~Idle(s)
    BY <1>8 DEF StoreFails, Idle
  <2>2. \/ Continue(s, "undo", job[s].target, <<>>) /\ round' = round
        \/ Leave(s) /\ round' = Raised(s)
    BY <1>8 DEF StoreFails
  <2> QED BY <1>1, <2>1, <2>2, PointsListed, ContinueOutcome, LeaveOutcome
<1> QED BY <1>2, <1>3, <1>4, <1>5, <1>6, <1>7, <1>8 DEF Handler

LEMMA RequestOutcome ==
    ASSUME JobsFine, NEW s \in Services, Request(s)
    PROVE  Outcome(s)
<1>1. Idle(s) /\ round' = round
  BY DEF Request, DeployRequest, StopRequest, RestartRequest, Report, CrashReport,
         HealthyReport, UnhealthyReport
<1>2. \E p, o, n, t, plan : /\ p \in {"schedule", "stop", "sync", "manual", "restart", "exit"}
                             /\ Start(s, p, o, n, t, plan)
  BY DEF Request, DeployRequest, StopRequest, RestartRequest, Report, CrashReport,
         HealthyReport, UnhealthyReport, Recover
<1> QED BY <1>1, <1>2, PointsListed, StartOutcome

\* The handler that the round awaits goes on, or tells the round that it returns.
LEMMA OutcomeAwaited ==
    ASSUME ProgressInv, RoundOK, JobsFine, NEW s \in Services, Outcome(s)
    PROVE  ProgressInv' /\ (round' # round => RoundShrinks)
<1>1. /\ round.job \in Services \cup {NoService} /\ NoService \notin Services
      /\ job \in [Services -> JobRecords] /\ job[s] \in JobRecords
  BY ConstantsAssumption DEF RoundOK, JobsFine
<1>2. \A t \in Services : Idle(t)' => todo'[t] = <<>>
  BY DEF ProgressInv, Idle, Outcome, Others, Begins, Advances, Returns, Write
<1>3. CASE Begins(s)
  <2>1. round.job # s
    BY <1>3, <1>1 DEF Begins, Idle, ProgressInv, RoundAwaits
  <2> QED BY <1>1, <1>2, <1>3, <2>1 DEF Begins, Outcome, Others, ProgressInv, RoundAwaits
<1>4. CASE Advances(s)
  BY <1>1, <1>2, <1>4 DEF Advances, Outcome, Others, ProgressInv, RoundAwaits, Idle
<1>5. CASE Returns(s)
  <2>1. CASE round.job # s
    <3>1. round' = round
      BY <1>5, <2>1 DEF Returns, Returned, Raised
    <3> QED BY <1>1, <1>2, <2>1, <3>1 DEF Outcome, Others, ProgressInv, RoundAwaits
  <2>2. CASE round.job = s
    <3>1. round' = NoRound \/ round' = [round EXCEPT !.job = NoService]
      BY <1>5, <2>2, <1>1 DEF Returns, Returned, Raised, ProgressInv, RoundAwaits
    <3>2. round'.job = NoService
      BY <3>1 DEF NoRound, RoundOK
    <3>3. RoundShrinks
      BY <1>1, <2>2, <3>1 DEF NoRound, RoundOK, RoundShrinks
    <3> QED BY <1>2, <3>2, <3>3 DEF ProgressInv, RoundAwaits
  <2> QED BY <2>1, <2>2
<1> QED BY <1>3, <1>4, <1>5 DEF Outcome

\* The reconciler's own steps.
LEMMA RoundAlone ==
    ASSUME ProgressInv, RoundOK, UNCHANGED <<job, todo>>,
           RoundStart \/ MarkUnavailable \/ ListPlacements \/ ListPending \/ RoundEnd \/ RoundFails
    PROVE  ProgressInv' /\ RoundShrinks
<1>1. \A t \in Services : Idle(t)' => todo'[t] = <<>>
  BY DEF ProgressInv, Idle
<1>2. round.job = NoService \/ round.phase \in {"nodes", "retry"}
  BY DEF ProgressInv, RoundAwaits
<1>3. CASE RoundStart
  <2>1. round.phase = "idle" /\ round'.job = NoService
    BY <1>3 DEF RoundStart, NoRound
  <2> QED BY <1>1, <2>1 DEF ProgressInv, RoundAwaits, RoundShrinks
<1>4. CASE MarkUnavailable
  <2>1. PICK n \in round.stale : round' = [round EXCEPT !.phase = "marked", !.node = n, !.stale = @ \ {n}]
    BY <1>4 DEF MarkUnavailable
  <2>2. /\ round'.phase = "marked" /\ round'.job = round.job
        /\ round'.stale \subseteq round.stale /\ round'.stale # round.stale
    BY <2>1 DEF RoundOK
  <2>3. round.phase = "nodes" /\ round.job = NoService
    BY <1>4 DEF MarkUnavailable
  <2> QED BY <1>1, <2>2, <2>3 DEF ProgressInv, RoundAwaits, RoundShrinks
<1>5. CASE ListPlacements
  <2>1. /\ round'.phase = "nodes" /\ round'.job = round.job /\ round'.stale = round.stale
        /\ round.phase = "marked"
    BY <1>5 DEF ListPlacements, RoundOK
  <2> QED BY <1>1, <1>2, <2>1 DEF ProgressInv, RoundAwaits, RoundShrinks
<1>6. CASE ListPending
  <2>1. /\ round'.phase = "retry" /\ round'.job = round.job
        /\ round.phase = "nodes" /\ round.job = NoService
    BY <1>6 DEF ListPending, RoundOK
  <2> QED BY <1>1, <2>1 DEF ProgressInv, RoundAwaits, RoundShrinks
<1>7. CASE RoundEnd \/ RoundFails
  <2>1. round'.phase = "idle" /\ round'.job = NoService
    BY <1>7 DEF RoundEnd, RoundFails, NoRound
  <2> QED BY <1>1, <2>1 DEF ProgressInv, RoundAwaits, RoundShrinks
<1> QED BY <1>3, <1>4, <1>5, <1>6, <1>7

LEMMA RoundHandlersAwaited ==
    ASSUME ProgressInv, RoundOK, JobsFine, NEW s \in Services,
           Retry(s) \/ \E n \in Nodes : Unreachable(s, n)
    PROVE  ProgressInv' /\ RoundShrinks
<1>1. job \in [Services -> JobRecords] /\ todo \in [Services -> Seq(Writes)]
  BY DEF JobsFine
<1>2. Idle(s) /\ round.job = NoService
  BY DEF Retry, Unreachable
<1>3. PICK i \in round.left :
         \/ round' = [round EXCEPT !.left = @ \ {i}] /\ UNCHANGED <<job, todo>>
         \/ /\ round' = [round EXCEPT !.left = @ \ {i}, !.job = s]
            /\ \/ /\ round.phase = "nodes"
                  /\ \E n \in Nodes : Start(s, "schedule", "unreachable", n, round.at, <<>>)
               \/ /\ round.phase = "retry"
                  /\ \/ Start(s, "exit", "retry", NoNode, 0, <<W("pending", FALSE)>>)
                     \/ Start(s, "schedule", "deploy", NoNode, 0, DeployPlan)
  <2>1. CASE Retry(s)
    BY <2>1 DEF Retry
  <2>2. CASE \E n \in Nodes : Unreachable(s, n)
    BY <2>2 DEF Unreachable
  <2> QED BY <2>1, <2>2
<1>4. /\ round'.left \subseteq round.left /\ round'.left # round.left
      /\ round'.stale = round.stale /\ round'.phase = round.phase
  <2>1. \/ round' = [round EXCEPT !.left = @ \ {i}]
        \/ round' = [round EXCEPT !.left = @ \ {i}, !.job = s]
    BY <1>3
  <2>2. i \in round.left /\ round.left \ {i} \subseteq round.left /\ round.left \ {i} # round.left
    BY <1>3
  <2>3. round'.left = round.left \ {i} /\ round'.stale = round.stale /\ round'.phase = round.phase
    BY <2>1 DEF RoundOK
  <2> QED BY <2>2, <2>3
<1>5. RoundShrinks
  BY <1>4 DEF RoundShrinks
<1>6. CASE round' = [round EXCEPT !.left = @ \ {i}] /\ UNCHANGED <<job, todo>>
  <2>1. round'.job = NoService
    BY <1>2, <1>6 DEF RoundOK
  <2> QED BY <1>5, <1>6, <2>1 DEF ProgressInv, RoundAwaits, Idle
<1>7. CASE /\ round' = [round EXCEPT !.left = @ \ {i}, !.job = s]
           /\ \/ /\ round.phase = "nodes"
                 /\ \E n \in Nodes : Start(s, "schedule", "unreachable", n, round.at, <<>>)
              \/ /\ round.phase = "retry"
                 /\ \/ Start(s, "exit", "retry", NoNode, 0, <<W("pending", FALSE)>>)
                    \/ Start(s, "schedule", "deploy", NoNode, 0, DeployPlan)
  <2>1. round'.job = s
    BY <1>7 DEF RoundOK
  <2>2. /\ job'[s].pc \in {"schedule", "exit"} /\ Others(s)
        /\ \/ round.phase = "nodes" /\ job'[s].op = "unreachable"
           \/ round.phase = "retry" /\ job'[s].op \in {"deploy", "retry"}
    <3>1. ASSUME NEW n, NEW p, NEW o, NEW at, NEW plan, Start(s, p, o, n, at, plan)
          PROVE  job'[s].pc = p /\ job'[s].op = o /\ Others(s)
      BY <1>1, <3>1 DEF Start, Others
    <3>2. CASE /\ round.phase = "nodes"
               /\ \E n \in Nodes : Start(s, "schedule", "unreachable", n, round.at, <<>>)
      BY <3>1, <3>2
    <3>3. CASE /\ round.phase = "retry"
               /\ \/ Start(s, "exit", "retry", NoNode, 0, <<W("pending", FALSE)>>)
                  \/ Start(s, "schedule", "deploy", NoNode, 0, DeployPlan)
      BY <3>1, <3>3
    <3> QED BY <1>7, <3>2, <3>3
  <2>3. \A t \in Services : Idle(t)' => todo'[t] = <<>>
    BY <2>2 DEF ProgressInv, Idle, Others
  <2>4. RoundAwaits'
    BY <1>4, <2>1, <2>2 DEF RoundAwaits
  <2> QED BY <1>5, <2>3, <2>4 DEF ProgressInv
<1> QED BY <1>3, <1>6, <1>7

-----------------------------------------------------------------------------

LEMMA InitProgress == Init => ProgressInv
BY DEF Init, NoRound, ProgressInv, RoundAwaits

\* Every step keeps ProgressInv and is one of those that StepsRunOut allows.
LEMMA NextProgress ==
    PlacedInv /\ ProgressInv /\ [Next]_vars =>
        /\ ProgressInv'
        /\ \A s \in Services : HandlerShrinks(s)
        /\ round' # round => RoundShrinks
<1> SUFFICES ASSUME JobsFine, RestOK, ProgressInv, [Next]_vars
             PROVE  /\ ProgressInv'
                    /\ \A s \in Services : HandlerShrinks(s)
                    /\ round' # round => RoundShrinks
  BY InvParts
<1>1. RoundOK
  BY DEF RestOK
<1>2. CASE \E s \in Services : Handler(s) \/ StoreFails(s)
  <2>1. PICK s \in Services : Handler(s) \/ StoreFails(s)
    BY <1>2
  <2>2. Idle(s) => todo[s] = <<>>
    BY DEF ProgressInv
  <2>3. Outcome(s)
    BY <2>1, <2>2, HandlerOutcome
  <2>4. \A t \in Services : HandlerShrinks(t)
    <3>1. CASE Write(s)
      BY <2>2, <3>1, WriteShrinks DEF Write
    <3>2. CASE Finish(s) \/ UndoReply(s)
      BY <3>2, LeaveShrinks DEF Finish, UndoReply, Leave
    <3> QED
      BY <2>1, <3>1, <3>2, ScheduleShrinks, DeployShrinks, RepliesShrink, StoreFailsShrinks
      DEF Handler
  <2> QED BY <1>1, <2>3, <2>4, OutcomeAwaited
<1>3. CASE \E s \in Services : Request(s)
  <2>1. PICK s \in Services : Request(s)
    BY <1>3
  <2>2. \A t \in Services : HandlerShrinks(t)
    BY <2>1, RequestsShrink, ReportShrinks DEF Request
  <2> QED BY <1>1, <2>1, <2>2, RequestOutcome, OutcomeAwaited
<1>4. CASE RoundStart \/ MarkUnavailable \/ ListPlacements \/ ListPending \/ RoundEnd \/ RoundFails
  <2>1. UNCHANGED <<job, todo>>
    BY <1>4 DEF RoundStart, MarkUnavailable, ListPlacements, ListPending, RoundEnd, RoundFails
  <2> QED BY <1>1, <1>4, <2>1, RoundAlone DEF HandlerShrinks
<1>5. CASE \E s \in Services : Retry(s) \/ \E n \in Nodes : Unreachable(s, n)
  BY <1>1, <1>5, RoundHandlersShrink, RoundHandlersAwaited
<1>6. CASE (Tick \/ \E n \in Nodes : Heartbeat(n) \/ StaleSnapshot(n)) \/ UNCHANGED vars
  <2>1. UNCHANGED <<job, todo, round>>
    BY <1>6 DEF Tick, Heartbeat, StaleSnapshot, vars
  <2> QED BY <2>1 DEF HandlerShrinks, ProgressInv, RoundAwaits, Idle
<1>7. CASE ControllerCrash
  <2>1. /\ \A s \in Services : job'[s] = NoJob /\ todo'[s] = <<>>
        /\ round'.phase = "idle" /\ round'.job = NoService
    BY <1>7 DEF ControllerCrash, NoRound
  <2>2. ASSUME NEW s \in Services PROVE HandlerShrinks(s)
    <3>1. StepsLeft(s)' = 0
      BY <2>1 DEF StepsLeft, StepsFrom, NoJob
    <3>2. job[s].pc \in Points /\ todo[s] \in Seq(Writes)
      BY DEF JobsFine, JobRecords
    <3>3. ~Idle(s) => StepsLeft(s) > 0
      BY <3>2, StepsAreNumbers DEF Idle, StepsLeft
    <3> QED BY <3>1, <3>3 DEF HandlerShrinks, LongestHandler
  <2> QED BY <2>1, <2>2 DEF ProgressInv, RoundAwaits, RoundShrinks
<1> QED
  BY <1>2, <1>3, <1>4, <1>5, <1>6, <1>7 DEF Next, Reconcile

(***************************************************************************)
(* The round awaits none but a handler of its own that is under way, and a *)
(* free lock leaves no writes behind, whatever fails.                      *)
(***************************************************************************)
THEOREM ProgressInvariant == Spec => []ProgressInv
BY InitProgress, NextProgress, InitInv, NextInv, PTL DEF Spec

\* What the reconciler awaits is running: no handler returns, raises or dies
\* without the round knowing.
THEOREM RoundsAwaitHandlers == Spec => []RoundAwaits
<1>1. ProgressInv => RoundAwaits
  BY DEF ProgressInv
<1> QED BY <1>1, ProgressInvariant, PTL

(***************************************************************************)
(* No handler of service_manager.py and self_healing.py makes more than    *)
(* LongestHandler writes and calls under its lock, and no round goes on    *)
(* for ever, for any services, nodes and settings and with every fault.    *)
(* With the fairness of FairSpec this is why locks are released and rounds *)
(* end.                                                                    *)
(***************************************************************************)
THEOREM HandlersAndRoundsEnd == Spec => StepsRunOut
BY NextProgress, Invariant, ProgressInvariant, PTL DEF Spec, StepsRunOut

=============================================================================

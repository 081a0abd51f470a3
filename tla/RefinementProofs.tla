-------------------------- MODULE RefinementProofs --------------------------
(***************************************************************************)
(* Proofs that Controller implements Lifecycle, and that between handlers  *)
(* the records of a service agree with each other and with its containers, *)
(* when Redis does not fail and the controller does not die.               *)
(***************************************************************************)
EXTENDS Refinement, RecoveryProofs

-----------------------------------------------------------------------------
(* What a plan leaves behind *)

LEMMA AfterHit ==
    ASSUME NEW plan, SetsOnce(plan), NEW i \in DOMAIN plan, NEW value
    PROVE  After(plan, plan[i].key, value) = plan[i].val
<1> DEFINE j == CHOOSE j \in DOMAIN plan : plan[j].key = plan[i].key
<1>1. j \in DOMAIN plan /\ plan[j].key = plan[i].key
  OBVIOUS
<1>2. j = i
  BY <1>1 DEF SetsOnce
<1> QED
  BY <1>2 DEF After

LEMMA AfterMiss ==
    ASSUME NEW plan, NEW k, \A i \in DOMAIN plan : plan[i].key # k, NEW value
    PROVE  After(plan, k, value) = value
BY DEF After

\* A plan is carried out one write at a time.
LEMMA AfterFirst ==
    ASSUME NEW plan \in Seq(Writes), plan # <<>>, SetsOnce(plan), NEW k, NEW value
    PROVE  /\ SetsOnce(Tail(plan))
           /\ After(Tail(plan), k, IF Head(plan).key = k THEN Head(plan).val ELSE value)
                 = After(plan, k, value)
<1> DEFINE rest == Tail(plan)
<1>1. /\ Head(plan) = plan[1] /\ 1 \in DOMAIN plan
      /\ \A i \in DOMAIN rest : i + 1 \in DOMAIN plan /\ rest[i] = plan[i + 1] /\ i \in Nat \ {0}
      /\ \A i \in DOMAIN plan : i # 1 => i - 1 \in DOMAIN rest /\ plan[i] = rest[i - 1]
  OBVIOUS
<1> HIDE DEF rest
<1>2. SetsOnce(rest)
  <2> SUFFICES ASSUME NEW i \in DOMAIN rest, NEW j \in DOMAIN rest, rest[i].key = rest[j].key
               PROVE  i = j
    BY DEF SetsOnce
  <2>1. i + 1 = j + 1
    BY <1>1 DEF SetsOnce
  <2> QED
    BY <1>1, <2>1
<1>3. CASE plan[1].key = k
  <2>1. \A i \in DOMAIN rest : rest[i].key # k
    <3> SUFFICES ASSUME NEW i \in DOMAIN rest, rest[i].key = k PROVE FALSE
      OBVIOUS
    <3>1. i + 1 = 1 /\ i \in Nat \ {0}
      BY <1>1, <1>3 DEF SetsOnce
    <3> QED
      BY <3>1
  <2>2. After(plan, k, value) = plan[1].val
    BY <1>1, <1>3, AfterHit
  <2>3. After(rest, k, plan[1].val) = plan[1].val
    BY <2>1, AfterMiss
  <2> QED
    BY <1>1, <1>2, <1>3, <2>2, <2>3 DEF rest
<1>4. CASE plan[1].key # k
  <2>1. CASE \E i \in DOMAIN plan : plan[i].key = k
    <3>1. PICK i \in DOMAIN plan : plan[i].key = k
      BY <2>1
    <3>2. i - 1 \in DOMAIN rest /\ rest[i - 1].key = k /\ rest[i - 1] = plan[i]
      BY <1>1, <1>4, <3>1
    <3>3. After(plan, k, value) = plan[i].val /\ After(rest, k, value) = plan[i].val
      BY <1>2, <3>1, <3>2, AfterHit
    <3> QED
      BY <1>1, <1>2, <1>4, <3>3 DEF rest
  <2>2. CASE \A i \in DOMAIN plan : plan[i].key # k
    <3>1. \A i \in DOMAIN rest : rest[i].key # k
      BY <1>1, <2>2
    <3>2. After(plan, k, value) = value /\ After(rest, k, value) = value
      BY <2>2, <3>1, AfterMiss
    <3> QED
      BY <1>1, <1>2, <1>4, <3>2 DEF rest
  <2> QED
    BY <2>1, <2>2
<1> QED
  BY <1>3, <1>4

\* Which value a plan leaves to a key, by the length of the plan.
LEMMA OneKey ==
    ASSUME NEW a, NEW k, NEW value
    PROVE  /\ SetsOnce(<<a>>)
           /\ After(<<a>>, k, value)
                 = IF a.key = k THEN a.val ELSE value
<1>1. SetsOnce(<<a>>)
  BY DEF SetsOnce
<1> QED
  BY <1>1 DEF After

LEMMA TwoKeys ==
    ASSUME NEW a, NEW b,
           a.key # b.key, NEW k, NEW value
    PROVE  /\ SetsOnce(<<a, b>>)
           /\ After(<<a, b>>, k, value)
                 = IF a.key = k THEN a.val ELSE IF b.key = k THEN b.val ELSE value
<1>1. SetsOnce(<<a, b>>)
  BY DEF SetsOnce
<1> QED
  BY <1>1 DEF After

LEMMA ThreeKeys ==
    ASSUME NEW a, NEW b, NEW c,
           a.key # b.key, a.key # c.key,
           b.key # c.key, NEW k, NEW value
    PROVE  /\ SetsOnce(<<a, b, c>>)
           /\ After(<<a, b, c>>, k, value)
                 = IF a.key = k THEN a.val ELSE IF b.key = k THEN b.val
                   ELSE IF c.key = k THEN c.val ELSE value
<1>1. SetsOnce(<<a, b, c>>)
  BY DEF SetsOnce
<1> QED
  BY <1>1 DEF After

LEMMA FourKeys ==
    ASSUME NEW a, NEW b, NEW c, NEW d,
           a.key # b.key, a.key # c.key, a.key # d.key,
           b.key # c.key, b.key # d.key,
           c.key # d.key, NEW k, NEW value
    PROVE  /\ SetsOnce(<<a, b, c, d>>)
           /\ After(<<a, b, c, d>>, k, value)
                 = IF a.key = k THEN a.val ELSE IF b.key = k THEN b.val
                   ELSE IF c.key = k THEN c.val ELSE IF d.key = k THEN d.val
                   ELSE value
<1>1. SetsOnce(<<a, b, c, d>>)
  BY DEF SetsOnce
<1> QED
  BY <1>1 DEF After

LEMMA FiveKeys ==
    ASSUME NEW a, NEW b, NEW c, NEW d, NEW e,
           a.key # b.key, a.key # c.key, a.key # d.key, a.key # e.key,
           b.key # c.key, b.key # d.key, b.key # e.key,
           c.key # d.key, c.key # e.key,
           d.key # e.key, NEW k, NEW value
    PROVE  /\ SetsOnce(<<a, b, c, d, e>>)
           /\ After(<<a, b, c, d, e>>, k, value)
                 = IF a.key = k THEN a.val ELSE IF b.key = k THEN b.val
                   ELSE IF c.key = k THEN c.val ELSE IF d.key = k THEN d.val
                   ELSE IF e.key = k THEN e.val ELSE value
<1>1. SetsOnce(<<a, b, c, d, e>>)
  BY DEF SetsOnce
<1> QED
  BY <1>1 DEF After

LEMMA SixKeys ==
    ASSUME NEW a, NEW b, NEW c, NEW d, NEW e, NEW f,
           a.key # b.key, a.key # c.key, a.key # d.key, a.key # e.key, a.key # f.key,
           b.key # c.key, b.key # d.key, b.key # e.key, b.key # f.key,
           c.key # d.key, c.key # e.key, c.key # f.key,
           d.key # e.key, d.key # f.key,
           e.key # f.key, NEW k, NEW value
    PROVE  /\ SetsOnce(<<a, b, c, d, e, f>>)
           /\ After(<<a, b, c, d, e, f>>, k, value)
                 = IF a.key = k THEN a.val ELSE IF b.key = k THEN b.val
                   ELSE IF c.key = k THEN c.val ELSE IF d.key = k THEN d.val
                   ELSE IF e.key = k THEN e.val ELSE IF f.key = k THEN f.val
                   ELSE value
<1>1. SetsOnce(<<a, b, c, d, e, f>>)
  BY DEF SetsOnce
<1> QED
  BY <1>1 DEF After

\* What the record of s will be after the plan.
Leaves(plan, s, wish, obs, place, queued) ==
    /\ SetsOnce(plan)
    /\ After(plan, "desired", desired[s]) = wish
    /\ After(plan, "observed", observed[s]) = obs
    /\ After(plan, "placement", placement[s]) = place
    /\ After(plan, "pending", pending[s]) = queued

LEMMA Written == \A k, v : W(k, v).key = k /\ W(k, v).val = v
BY DEF W

\* The plans by the keys they set.
LEMMA NoShape ==
    ASSUME NEW s \in Services
    PROVE  Leaves(<<>>, s, desired[s], observed[s], placement[s], pending[s])
BY DEF Leaves, SetsOnce, After

LEMMA OneShapes ==
    ASSUME NEW s \in Services, NEW u
    PROVE  /\ Leaves(<<W("desired", u)>>,
                     s, u, observed[s], placement[s], pending[s])
           /\ Leaves(<<W("restarts", u)>>,
                     s, desired[s], observed[s], placement[s], pending[s])
           /\ Leaves(<<W("pending", u)>>,
                     s, desired[s], observed[s], placement[s], u)
           /\ Leaves(<<W("observed", u)>>,
                     s, desired[s], u, placement[s], pending[s])
<1>1. ASSUME NEW a,
             a.key = "desired"
      PROVE  Leaves(<<a>>, s, a.val, observed[s], placement[s], pending[s])
  BY <1>1, OneKey DEF Leaves
<1>2. ASSUME NEW a,
             a.key = "restarts"
      PROVE  Leaves(<<a>>, s, desired[s], observed[s], placement[s], pending[s])
  BY <1>2, OneKey DEF Leaves
<1>3. ASSUME NEW a,
             a.key = "pending"
      PROVE  Leaves(<<a>>, s, desired[s], observed[s], placement[s], a.val)
  BY <1>3, OneKey DEF Leaves
<1>4. ASSUME NEW a,
             a.key = "observed"
      PROVE  Leaves(<<a>>, s, desired[s], a.val, placement[s], pending[s])
  BY <1>4, OneKey DEF Leaves
<1> QED
  BY <1>1, <1>2, <1>3, <1>4, Written

LEMMA TwoShapes ==
    ASSUME NEW s \in Services, NEW u, NEW v
    PROVE  /\ Leaves(<<W("observed", u), W("pending", v)>>,
                     s, desired[s], u, placement[s], v)
           /\ Leaves(<<W("pending", u), W("observed", v)>>,
                     s, desired[s], v, placement[s], u)
<1>1. ASSUME NEW a, NEW b,
             a.key = "observed", b.key = "pending"
      PROVE  Leaves(<<a, b>>, s, desired[s], a.val, placement[s], b.val)
  <2>1. a.key # b.key
    BY <1>1
  <2>2. \A k, value : /\ SetsOnce(<<a, b>>)
                       /\ After(<<a, b>>, k, value)
                             = IF a.key = k THEN a.val ELSE IF b.key = k THEN b.val ELSE value
    BY <2>1, TwoKeys
  <2> QED
    BY <1>1, <2>2 DEF Leaves
<1>2. ASSUME NEW a, NEW b,
             a.key = "pending", b.key = "observed"
      PROVE  Leaves(<<a, b>>, s, desired[s], b.val, placement[s], a.val)
  <2>1. a.key # b.key
    BY <1>2
  <2>2. \A k, value : /\ SetsOnce(<<a, b>>)
                       /\ After(<<a, b>>, k, value)
                             = IF a.key = k THEN a.val ELSE IF b.key = k THEN b.val ELSE value
    BY <2>1, TwoKeys
  <2> QED
    BY <1>2, <2>2 DEF Leaves
<1> QED
  BY <1>1, <1>2, Written

LEMMA ThreeShapes ==
    ASSUME NEW s \in Services, NEW u, NEW v, NEW w
    PROVE  /\ Leaves(<<W("pending", u), W("observed", v), W("cooldown", w)>>,
                     s, desired[s], v, placement[s], u)
           /\ Leaves(<<W("generation", u), W("observed", v), W("cooldown", w)>>,
                     s, desired[s], v, placement[s], pending[s])
<1>1. ASSUME NEW a, NEW b, NEW c,
             a.key = "pending", b.key = "observed", c.key = "cooldown"
      PROVE  Leaves(<<a, b, c>>, s, desired[s], b.val, placement[s], a.val)
  <2>1. /\ a.key # b.key /\ a.key # c.key
        /\ b.key # c.key
    BY <1>1
  <2>2. \A k, value : /\ SetsOnce(<<a, b, c>>)
                       /\ After(<<a, b, c>>, k, value)
                             = IF a.key = k THEN a.val ELSE IF b.key = k THEN b.val
                               ELSE IF c.key = k THEN c.val ELSE value
    BY <2>1, ThreeKeys
  <2> QED
    BY <1>1, <2>2 DEF Leaves
<1>2. ASSUME NEW a, NEW b, NEW c,
             a.key = "generation", b.key = "observed", c.key = "cooldown"
      PROVE  Leaves(<<a, b, c>>, s, desired[s], b.val, placement[s], pending[s])
  <2>1. /\ a.key # b.key /\ a.key # c.key
        /\ b.key # c.key
    BY <1>2
  <2>2. \A k, value : /\ SetsOnce(<<a, b, c>>)
                       /\ After(<<a, b, c>>, k, value)
                             = IF a.key = k THEN a.val ELSE IF b.key = k THEN b.val
                               ELSE IF c.key = k THEN c.val ELSE value
    BY <2>1, ThreeKeys
  <2> QED
    BY <1>2, <2>2 DEF Leaves
<1> QED
  BY <1>1, <1>2, Written

LEMMA FourShape ==
    ASSUME NEW s \in Services, NEW u, NEW v, NEW w, NEW x
    PROVE  Leaves(<<W("observed", u), W("placement", v), W("pending", w),
                    W("restarts", x)>>,
                  s, desired[s], u, v, w)
<1>1. ASSUME NEW a, NEW b, NEW c, NEW d,
             a.key = "observed", b.key = "placement", c.key = "pending",
             d.key = "restarts"
      PROVE  Leaves(<<a, b, c, d>>, s, desired[s], a.val, b.val, c.val)
  <2>1. /\ a.key # b.key /\ a.key # c.key /\ a.key # d.key
        /\ b.key # c.key /\ b.key # d.key
        /\ c.key # d.key
    BY <1>1
  <2>2. \A k, value : /\ SetsOnce(<<a, b, c, d>>)
                       /\ After(<<a, b, c, d>>, k, value)
                             = IF a.key = k THEN a.val ELSE IF b.key = k THEN b.val
                               ELSE IF c.key = k THEN c.val ELSE IF d.key = k THEN d.val
                               ELSE value
    BY <2>1, FourKeys
  <2> QED
    BY <1>1, <2>2 DEF Leaves
<1> QED
  BY <1>1, Written

LEMMA FiveShapes ==
    ASSUME NEW s \in Services, NEW u, NEW v, NEW w, NEW x, NEW y
    PROVE  /\ Leaves(<<W("observed", u), W("placement", v), W("pending", w),
                       W("restarts", x), W("desired", y)>>,
                     s, y, u, v, w)
           /\ Leaves(<<W("placement", u), W("pending", v), W("desired", w),
                       W("observed", x), W("restarts", y)>>,
                     s, w, x, u, v)
           /\ Leaves(<<W("pending", u), W("restarts", v), W("cooldown", w),
                       W("observed", x), W("desired", y)>>,
                     s, y, x, placement[s], u)
           /\ Leaves(<<W("generation", u), W("placement", v), W("pending", w),
                       W("restarts", x), W("observed", y)>>,
                     s, desired[s], y, v, w)
<1>1. ASSUME NEW a, NEW b, NEW c, NEW d, NEW e,
             a.key = "observed", b.key = "placement", c.key = "pending",
             d.key = "restarts", e.key = "desired"
      PROVE  Leaves(<<a, b, c, d, e>>, s, e.val, a.val, b.val, c.val)
  <2>1. /\ a.key # b.key /\ a.key # c.key /\ a.key # d.key /\ a.key # e.key
        /\ b.key # c.key /\ b.key # d.key /\ b.key # e.key
        /\ c.key # d.key /\ c.key # e.key
        /\ d.key # e.key
    BY <1>1
  <2>2. \A k, value : /\ SetsOnce(<<a, b, c, d, e>>)
                       /\ After(<<a, b, c, d, e>>, k, value)
                             = IF a.key = k THEN a.val ELSE IF b.key = k THEN b.val
                               ELSE IF c.key = k THEN c.val ELSE IF d.key = k THEN d.val
                               ELSE IF e.key = k THEN e.val ELSE value
    BY <2>1, FiveKeys
  <2> QED
    BY <1>1, <2>2 DEF Leaves
<1>2. ASSUME NEW a, NEW b, NEW c, NEW d, NEW e,
             a.key = "placement", b.key = "pending", c.key = "desired",
             d.key = "observed", e.key = "restarts"
      PROVE  Leaves(<<a, b, c, d, e>>, s, c.val, d.val, a.val, b.val)
  <2>1. /\ a.key # b.key /\ a.key # c.key /\ a.key # d.key /\ a.key # e.key
        /\ b.key # c.key /\ b.key # d.key /\ b.key # e.key
        /\ c.key # d.key /\ c.key # e.key
        /\ d.key # e.key
    BY <1>2
  <2>2. \A k, value : /\ SetsOnce(<<a, b, c, d, e>>)
                       /\ After(<<a, b, c, d, e>>, k, value)
                             = IF a.key = k THEN a.val ELSE IF b.key = k THEN b.val
                               ELSE IF c.key = k THEN c.val ELSE IF d.key = k THEN d.val
                               ELSE IF e.key = k THEN e.val ELSE value
    BY <2>1, FiveKeys
  <2> QED
    BY <1>2, <2>2 DEF Leaves
<1>3. ASSUME NEW a, NEW b, NEW c, NEW d, NEW e,
             a.key = "pending", b.key = "restarts", c.key = "cooldown",
             d.key = "observed", e.key = "desired"
      PROVE  Leaves(<<a, b, c, d, e>>, s, e.val, d.val, placement[s], a.val)
  <2>1. /\ a.key # b.key /\ a.key # c.key /\ a.key # d.key /\ a.key # e.key
        /\ b.key # c.key /\ b.key # d.key /\ b.key # e.key
        /\ c.key # d.key /\ c.key # e.key
        /\ d.key # e.key
    BY <1>3
  <2>2. \A k, value : /\ SetsOnce(<<a, b, c, d, e>>)
                       /\ After(<<a, b, c, d, e>>, k, value)
                             = IF a.key = k THEN a.val ELSE IF b.key = k THEN b.val
                               ELSE IF c.key = k THEN c.val ELSE IF d.key = k THEN d.val
                               ELSE IF e.key = k THEN e.val ELSE value
    BY <2>1, FiveKeys
  <2> QED
    BY <1>3, <2>2 DEF Leaves
<1>4. ASSUME NEW a, NEW b, NEW c, NEW d, NEW e,
             a.key = "generation", b.key = "placement", c.key = "pending",
             d.key = "restarts", e.key = "observed"
      PROVE  Leaves(<<a, b, c, d, e>>, s, desired[s], e.val, b.val, c.val)
  <2>1. /\ a.key # b.key /\ a.key # c.key /\ a.key # d.key /\ a.key # e.key
        /\ b.key # c.key /\ b.key # d.key /\ b.key # e.key
        /\ c.key # d.key /\ c.key # e.key
        /\ d.key # e.key
    BY <1>4
  <2>2. \A k, value : /\ SetsOnce(<<a, b, c, d, e>>)
                       /\ After(<<a, b, c, d, e>>, k, value)
                             = IF a.key = k THEN a.val ELSE IF b.key = k THEN b.val
                               ELSE IF c.key = k THEN c.val ELSE IF d.key = k THEN d.val
                               ELSE IF e.key = k THEN e.val ELSE value
    BY <2>1, FiveKeys
  <2> QED
    BY <1>4, <2>2 DEF Leaves
<1> QED
  BY <1>1, <1>2, <1>3, <1>4, Written

LEMMA SixShape ==
    ASSUME NEW s \in Services, NEW u, NEW v, NEW w, NEW x, NEW y, NEW z
    PROVE  Leaves(<<W("generation", u), W("placement", v), W("restarts", w),
                    W("pending", x), W("observed", y), W("cooldown", z)>>,
                  s, desired[s], y, v, x)
<1>1. ASSUME NEW a, NEW b, NEW c, NEW d, NEW e, NEW f,
             a.key = "generation", b.key = "placement", c.key = "restarts",
             d.key = "pending", e.key = "observed", f.key = "cooldown"
      PROVE  Leaves(<<a, b, c, d, e, f>>, s, desired[s], e.val, b.val, d.val)
  <2>1. /\ a.key # b.key /\ a.key # c.key /\ a.key # d.key /\ a.key # e.key /\ a.key # f.key
        /\ b.key # c.key /\ b.key # d.key /\ b.key # e.key /\ b.key # f.key
        /\ c.key # d.key /\ c.key # e.key /\ c.key # f.key
        /\ d.key # e.key /\ d.key # f.key
        /\ e.key # f.key
    BY <1>1
  <2>2. \A k, value : /\ SetsOnce(<<a, b, c, d, e, f>>)
                       /\ After(<<a, b, c, d, e, f>>, k, value)
                             = IF a.key = k THEN a.val ELSE IF b.key = k THEN b.val
                               ELSE IF c.key = k THEN c.val ELSE IF d.key = k THEN d.val
                               ELSE IF e.key = k THEN e.val ELSE IF f.key = k THEN f.val
                               ELSE value
    BY <2>1, SixKeys
  <2> QED
    BY <1>1, <2>2 DEF Leaves
<1> QED
  BY <1>1, Written

LEMMA FifthAppended ==
    ASSUME NEW a, NEW b, NEW c, NEW d, NEW e
    PROVE  <<a, b, c, d>> \o <<e>> = <<a, b, c, d, e>>
<1> DEFINE S == {a, b, c, d, e}
           p == <<a, b, c, d>>
           l == <<e>>
<1>1. p \in Seq(S) /\ l \in Seq(S) /\ Len(p) = 4 /\ Len(l) = 1
  OBVIOUS
<1>2. p \o l \in Seq(S) /\ Len(p \o l) = 5
      /\ \A i \in 1..5 : (p \o l)[i] = IF i <= 4 THEN p[i] ELSE l[i - 4]
  BY <1>1
<1>3. (p \o l)[1] = a /\ (p \o l)[2] = b /\ (p \o l)[3] = c /\ (p \o l)[4] = d /\ (p \o l)[5] = e
  BY <1>2
<1> HIDE DEF p, l
<1>4. \A q \in Seq(S) : Len(q) = 5 /\ q[1] = a /\ q[2] = b /\ q[3] = c /\ q[4] = d /\ q[5] = e
                       => q = <<a, b, c, d, e>>
  OBVIOUS
<1> QED
  BY <1>2, <1>3, <1>4 DEF p, l

\* What becomes of a service in each handler.
LEMMA Outcomes ==
    ASSUME NEW s \in Services, NEW n, NEW t
    PROVE  /\ Leaves(<<>>, s, desired[s], observed[s], placement[s], pending[s])
           /\ Leaves(DeployPlan, s, "deploying", observed[s], placement[s], pending[s])
           /\ Leaves(CountedPlan(s), s, desired[s], observed[s], placement[s], pending[s])
           /\ Leaves(<<W("pending", FALSE)>>, s, desired[s], observed[s], placement[s], FALSE)
           /\ Leaves(PlacementFailedPlan, s, desired[s], Observation("placement_failed", NoNode, 0),
                     placement[s], TRUE)
           /\ Leaves(DeployFailedPlan, s, desired[s], Observation("pending", NoNode, 0),
                     placement[s], TRUE)
           /\ Leaves(DeployedPlan(n), s, "running", Observation("running", n, 0), n, FALSE)
           /\ Leaves(StoppedPlan(s), s, IF desired[s] = "none" THEN "none" ELSE "stopped",
                     Observation("stopped", NoNode, 0), NoNode, FALSE)
           /\ Leaves(ManuallyRestartedPlan(s), s, desired[s], CopyAs(s, "running", job[s].target),
                     placement[s], pending[s])
           /\ Leaves(HealthyPlan(s), s, "running",
                     [observed[s] EXCEPT !.status = "running", !.grace = 0], placement[s], FALSE)
           /\ Leaves(NodeMissingPlan(s, t), s, desired[s], CopyAs(s, "pending", NoNode),
                     placement[s], TRUE)
           /\ Leaves(RestartedPlan(s), s, desired[s],
                     [observed[s] EXCEPT !.status = "running", !.grace = job[s].at + Grace],
                     placement[s], pending[s])
           /\ Leaves(RestartFailedPlan(s), s, desired[s], CopyAs(s, "failed", job[s].from),
                     placement[s], TRUE)
           /\ Leaves(NoCandidatePlan(s), s, desired[s], CopyAs(s, "pending", job[s].from),
                     placement[s], TRUE)
           /\ Leaves(NoReplacementPlan(s), s, desired[s],
                     [observed[s] EXCEPT !.status = "pending", !.node = NoNode], placement[s], TRUE)
           /\ Leaves(RescheduleFailedPlan(s), s, desired[s], CopyAs(s, "failed", job[s].from),
                     placement[s], TRUE)
           /\ Leaves(EvacuationFailedPlan(s), s, desired[s], CopyAs(s, "failed", job[s].from),
                     placement[s], TRUE)
           /\ Leaves(RescheduledPlan(s, n), s, desired[s],
                     Observation("running", n, job[s].at + Grace), n, FALSE)
           /\ Leaves(EvacuatedPlan(s, n), s, desired[s],
                     Observation("running", n, job[s].at + Grace), n, FALSE)
<1>1. Leaves(StoppedPlan(s), s, IF desired[s] = "none" THEN "none" ELSE "stopped",
             Observation("stopped", NoNode, 0), NoNode, FALSE)
  <2>1. CASE desired[s] = "none"
    <3>1. StoppedPlan(s) = <<W("observed", Observation("stopped", NoNode, 0)),
                             W("placement", NoNode), W("pending", FALSE), W("restarts", 0)>>
      BY <2>1 DEF StoppedPlan
    <3> QED
      BY <2>1, <3>1, FourShape
  <2>2. CASE desired[s] # "none"
    <3>1. StoppedPlan(s) = <<W("observed", Observation("stopped", NoNode, 0)),
                             W("placement", NoNode), W("pending", FALSE), W("restarts", 0),
                             W("desired", "stopped")>>
      BY <2>2, FifthAppended DEF StoppedPlan
    <3> QED
      BY <2>2, <3>1, FiveShapes
  <2> QED
    BY <2>1, <2>2
<1>2. /\ Leaves(<<>>, s, desired[s], observed[s], placement[s], pending[s])
      /\ Leaves(DeployPlan, s, "deploying", observed[s], placement[s], pending[s])
      /\ Leaves(CountedPlan(s), s, desired[s], observed[s], placement[s], pending[s])
      /\ Leaves(<<W("pending", FALSE)>>, s, desired[s], observed[s], placement[s], FALSE)
      /\ Leaves(ManuallyRestartedPlan(s), s, desired[s], CopyAs(s, "running", job[s].target),
                placement[s], pending[s])
  BY NoShape, OneShapes DEF DeployPlan, CountedPlan, ManuallyRestartedPlan
<1>3. /\ Leaves(PlacementFailedPlan, s, desired[s], Observation("placement_failed", NoNode, 0),
                placement[s], TRUE)
      /\ Leaves(DeployFailedPlan, s, desired[s], Observation("pending", NoNode, 0),
                placement[s], TRUE)
      /\ Leaves(NoReplacementPlan(s), s, desired[s],
                [observed[s] EXCEPT !.status = "pending", !.node = NoNode], placement[s], TRUE)
      /\ Leaves(EvacuationFailedPlan(s), s, desired[s], CopyAs(s, "failed", job[s].from),
                placement[s], TRUE)
  BY TwoShapes DEF PlacementFailedPlan, DeployFailedPlan, NoReplacementPlan, EvacuationFailedPlan
<1>4. /\ Leaves(NodeMissingPlan(s, t), s, desired[s], CopyAs(s, "pending", NoNode),
                placement[s], TRUE)
      /\ Leaves(RestartedPlan(s), s, desired[s],
                [observed[s] EXCEPT !.status = "running", !.grace = job[s].at + Grace],
                placement[s], pending[s])
      /\ Leaves(RestartFailedPlan(s), s, desired[s], CopyAs(s, "failed", job[s].from),
                placement[s], TRUE)
      /\ Leaves(NoCandidatePlan(s), s, desired[s], CopyAs(s, "pending", job[s].from),
                placement[s], TRUE)
      /\ Leaves(RescheduleFailedPlan(s), s, desired[s], CopyAs(s, "failed", job[s].from),
                placement[s], TRUE)
  BY ThreeShapes
  DEF NodeMissingPlan, RestartedPlan, RestartFailedPlan, NoCandidatePlan, RescheduleFailedPlan
<1>5. /\ Leaves(DeployedPlan(n), s, "running", Observation("running", n, 0), n, FALSE)
      /\ Leaves(HealthyPlan(s), s, "running",
                [observed[s] EXCEPT !.status = "running", !.grace = 0], placement[s], FALSE)
  BY FiveShapes, SixShape DEF DeployedPlan, HealthyPlan
<1>6. /\ Leaves(RescheduledPlan(s, n), s, desired[s],
                Observation("running", n, job[s].at + Grace), n, FALSE)
      /\ Leaves(EvacuatedPlan(s, n), s, desired[s],
                Observation("running", n, job[s].at + Grace), n, FALSE)
  BY FiveShapes, SixShape DEF RescheduledPlan, EvacuatedPlan
<1> QED
  BY <1>1, <1>2, <1>3, <1>4, <1>5, <1>6

-----------------------------------------------------------------------------
(* One decision at a time *)

Agrees(s) ==
    /\ SetsOnce(todo[s])
    /\ Idle(s) => todo[s] = <<>>
    /\ Consistent(job[s], hosts[s], AbstractDesired[s], AbstractObserved[s],
                  AbstractPlacement[s], AbstractQueued[s])

\* What the record of s is now, when its handler has no write left to make.
Now(s) == Consistent(job[s], hosts[s], desired[s], observed[s], placement[s], pending[s])

LEMMA Settled ==
    ASSUME RefinementInv, NEW s \in Services, todo[s] = <<>>
    PROVE  /\ Now(s)
           /\ AbstractDesired[s] = desired[s]
           /\ AbstractObserved[s] = observed[s]
           /\ AbstractStatus[s] = observed[s].status
           /\ AbstractPlacement[s] = placement[s]
           /\ AbstractQueued[s] = pending[s]
<1>1. \A k, value : After(<<>>, k, value) = value
  BY AfterMiss
<1>2. /\ AbstractDesired[s] = desired[s]
      /\ AbstractObserved[s] = observed[s]
      /\ AbstractPlacement[s] = placement[s]
      /\ AbstractQueued[s] = pending[s]
  BY <1>1 DEF AbstractDesired, AbstractObserved, AbstractPlacement, AbstractQueued
<1> QED
  BY <1>2 DEF RefinementInv, Now, AbstractStatus

\* The record that the handler of s is about to complete.
Becomes(s, wish, st, place, queued) ==
    /\ AbstractDesired' = [AbstractDesired EXCEPT ![s] = wish]
    /\ AbstractStatus' = [AbstractStatus EXCEPT ![s] = st]
    /\ AbstractPlacement' = [AbstractPlacement EXCEPT ![s] = place]
    /\ AbstractQueued' = [AbstractQueued EXCEPT ![s] = queued]

LEMMA OthersAgree ==
    ASSUME RefinementInv, NEW t \in Services,
           job'[t] = job[t], todo'[t] = todo[t], hosts'[t] = hosts[t],
           desired'[t] = desired[t], observed'[t] = observed[t],
           placement'[t] = placement[t], pending'[t] = pending[t]
    PROVE  /\ Agrees(t)'
           /\ AbstractDesired'[t] = AbstractDesired[t]
           /\ AbstractObserved'[t] = AbstractObserved[t]
           /\ AbstractPlacement'[t] = AbstractPlacement[t]
           /\ AbstractQueued'[t] = AbstractQueued[t]
<1>1. /\ AbstractDesired'[t] = AbstractDesired[t]
      /\ AbstractObserved'[t] = AbstractObserved[t]
      /\ AbstractPlacement'[t] = AbstractPlacement[t]
      /\ AbstractQueued'[t] = AbstractQueued[t]
  BY DEF AbstractDesired, AbstractObserved, AbstractPlacement, AbstractQueued
<1>2. Agrees(t)
  BY DEF RefinementInv, Agrees
<1> QED
  BY <1>1, <1>2 DEF Agrees, Idle

LEMMA Changed ==
    ASSUME NEW s \in Services, NEW wish, NEW obs, NEW place, NEW queued,
           AbstractDesired'[s] = wish, AbstractObserved'[s] = obs,
           AbstractPlacement'[s] = place, AbstractQueued'[s] = queued,
           \A t \in Services \ {s} :
               /\ AbstractDesired'[t] = AbstractDesired[t]
               /\ AbstractObserved'[t] = AbstractObserved[t]
               /\ AbstractPlacement'[t] = AbstractPlacement[t]
               /\ AbstractQueued'[t] = AbstractQueued[t]
    PROVE  Becomes(s, wish, obs.status, place, queued)
<1>1. AbstractDesired' = [AbstractDesired EXCEPT ![s] = wish]
  <2>1. AbstractDesired = [t \in Services |-> AbstractDesired[t]]
        /\ AbstractDesired' = [t \in Services |-> AbstractDesired'[t]]
    BY DEF AbstractDesired
  <2> QED
    BY <2>1
<1>2. AbstractStatus' = [AbstractStatus EXCEPT ![s] = obs.status]
  <2>1. AbstractStatus = [t \in Services |-> AbstractObserved[t].status]
        /\ AbstractStatus' = [t \in Services |-> AbstractObserved'[t].status]
    BY DEF AbstractStatus
  <2> QED
    BY <2>1
<1>3. AbstractPlacement' = [AbstractPlacement EXCEPT ![s] = place]
  <2>1. AbstractPlacement = [t \in Services |-> AbstractPlacement[t]]
        /\ AbstractPlacement' = [t \in Services |-> AbstractPlacement'[t]]
    BY DEF AbstractPlacement
  <2> QED
    BY <2>1
<1>4. AbstractQueued' = [AbstractQueued EXCEPT ![s] = queued]
  <2>1. AbstractQueued = [t \in Services |-> AbstractQueued[t]]
        /\ AbstractQueued' = [t \in Services |-> AbstractQueued'[t]]
    BY DEF AbstractQueued
  <2> QED
    BY <2>1
<1> QED
  BY <1>1, <1>2, <1>3, <1>4 DEF Becomes

RecordsKept == UNCHANGED <<desired, observed, placement, pending>>

\* A handler that had nothing left to write goes on to job r with a plan.
LEMMA Decided ==
    ASSUME PlacedInv, RefinementInv, NEW s \in Services, todo[s] = <<>>,
           NEW r, NEW plan, NEW wish, NEW obs, NEW place, NEW queued,
           job' = [job EXCEPT ![s] = r], todo' = [todo EXCEPT ![s] = plan],
           RecordsKept, \A t \in Services \ {s} : hosts'[t] = hosts[t],
           Leaves(plan, s, wish, obs, place, queued),
           r.pc = "idle" => plan = <<>>,
           Consistent(r, hosts'[s], wish, obs, place, queued)
    PROVE  RefinementInv' /\ Becomes(s, wish, obs.status, place, queued)
<1>1. /\ job'[s] = r /\ todo'[s] = plan
      /\ \A t \in Services \ {s} : job'[t] = job[t] /\ todo'[t] = todo[t]
  BY DEF PlacedInv, TypeOK, JobsOK
<1>2. /\ desired' = desired /\ observed' = observed /\ placement' = placement
      /\ pending' = pending
  BY DEF RecordsKept
<1>3. \A t \in Services \ {s} :
          /\ Agrees(t)'
          /\ AbstractDesired'[t] = AbstractDesired[t]
          /\ AbstractObserved'[t] = AbstractObserved[t]
          /\ AbstractPlacement'[t] = AbstractPlacement[t]
          /\ AbstractQueued'[t] = AbstractQueued[t]
  BY <1>1, <1>2, OthersAgree
<1>4. /\ AbstractDesired'[s] = wish /\ AbstractObserved'[s] = obs
      /\ AbstractPlacement'[s] = place /\ AbstractQueued'[s] = queued
  BY <1>1, <1>2
  DEF Leaves, AbstractDesired, AbstractObserved, AbstractPlacement, AbstractQueued
<1>5. Agrees(s)'
  BY <1>1, <1>4 DEF Agrees, Idle, Leaves
<1>6. RefinementInv'
  BY <1>3, <1>5 DEF RefinementInv, Agrees
<1> QED
  BY <1>3, <1>4, <1>6, Changed

\* One write of the plan changes nothing of what the plan will have done.
LEMMA WriteStutters ==
    ASSUME PlacedInv, RefinementInv, NEW s \in Services, Write(s)
    PROVE  RefinementInv' /\ Becomes(s, AbstractDesired[s], AbstractObserved[s].status,
                                     AbstractPlacement[s], AbstractQueued[s])
<1> DEFINE w == Head(todo[s])
<1>1. /\ todo[s] # <<>> /\ Perform(s, w) /\ todo' = [todo EXCEPT ![s] = Tail(@)]
      /\ job' = job /\ hosts' = hosts
  BY DEF Write
<1>2. /\ StoreOK /\ todo[s] \in Seq(Writes) /\ todo \in [Services -> Seq(Writes)] /\ Agrees(s)
  BY Parts DEF RefinementInv, Agrees, JobsOK
<1>3. /\ desired'[s] = IF w.key = "desired" THEN w.val ELSE desired[s]
      /\ observed'[s] = IF w.key = "observed" THEN w.val ELSE observed[s]
      /\ placement'[s] = IF w.key = "placement" THEN w.val ELSE placement[s]
      /\ pending'[s] = IF w.key = "pending" THEN w.val ELSE pending[s]
      /\ \A t \in Services \ {s} : /\ desired'[t] = desired[t] /\ observed'[t] = observed[t]
                                   /\ placement'[t] = placement[t] /\ pending'[t] = pending[t]
  BY <1>1, <1>2 DEF Perform, Put, StoreOK
<1>4. todo'[s] = Tail(todo[s]) /\ \A t \in Services \ {s} : todo'[t] = todo[t]
  BY <1>1, <1>2
<1>5. /\ SetsOnce(Tail(todo[s]))
      /\ \A k, value : After(Tail(todo[s]), k, IF w.key = k THEN w.val ELSE value)
                          = After(todo[s], k, value)
  BY <1>1, <1>2, AfterFirst DEF Agrees
<1> HIDE DEF w
<1>6. /\ AbstractDesired'[s] = AbstractDesired[s]
      /\ AbstractObserved'[s] = AbstractObserved[s]
      /\ AbstractPlacement'[s] = AbstractPlacement[s]
      /\ AbstractQueued'[s] = AbstractQueued[s]
  BY <1>3, <1>4, <1>5
  DEF AbstractDesired, AbstractObserved, AbstractPlacement, AbstractQueued
<1>7. \A t \in Services \ {s} :
          /\ Agrees(t)'
          /\ AbstractDesired'[t] = AbstractDesired[t]
          /\ AbstractObserved'[t] = AbstractObserved[t]
          /\ AbstractPlacement'[t] = AbstractPlacement[t]
          /\ AbstractQueued'[t] = AbstractQueued[t]
  BY <1>1, <1>3, <1>4, OthersAgree
<1>8. Agrees(s)'
  BY <1>1, <1>2, <1>4, <1>5, <1>6 DEF Agrees, Idle
<1>9. RefinementInv'
  BY <1>7, <1>8 DEF RefinementInv, Agrees
<1> QED
  BY <1>6, <1>7, <1>9, Changed

\* What a decision may do to a record: one disjunct for each step of Lifecycle,
\* after the one that changes nothing.
Changes(d, o, p, q, wish, st, place, queued) ==
    \/ wish = d /\ st = o /\ place = p /\ queued = q
    \/ o # "running" /\ wish = "deploying" /\ st = o /\ place = p /\ queued = q
    \/ d = "deploying" /\ wish = d /\ place = p /\ queued = TRUE
       /\ st \in {"placement_failed", "pending"}
    \/ d = "deploying" /\ wish = "running" /\ st = "running" /\ place \in Nodes /\ queued = FALSE
    \/ d # "none" /\ wish = d /\ st = "running" /\ place \in Nodes /\ queued = FALSE
    \/ p # NoNode /\ wish = d /\ st = "running" /\ place = p /\ queued = q
    \/ p # NoNode /\ d \notin {"none", "stopped"} /\ wish = "running" /\ st = "running"
       /\ place = p /\ queued = FALSE
    \/ d # "none" /\ wish = d /\ place = p /\ queued = TRUE /\ st \in {"pending", "failed"}
    \/ wish = (IF d = "none" THEN "none" ELSE "stopped") /\ st = "stopped"
       /\ place = NoNode /\ queued = FALSE

LEMMA AbstractSteps ==
    ASSUME NEW s \in Services, NEW wish, NEW st, NEW place, NEW queued,
           Becomes(s, wish, st, place, queued),
           Changes(AbstractDesired[s], AbstractStatus[s], AbstractPlacement[s],
                   AbstractQueued[s], wish, st, place, queued)
    PROVE  Abstract!Next \/ UNCHANGED Abstract!vars
<1> DEFINE d == AbstractDesired[s]
           o == AbstractStatus[s]
           p == AbstractPlacement[s]
           q == AbstractQueued[s]
<1>1. /\ [AbstractDesired EXCEPT ![s] = d] = AbstractDesired
      /\ [AbstractStatus EXCEPT ![s] = o] = AbstractStatus
      /\ [AbstractPlacement EXCEPT ![s] = p] = AbstractPlacement
      /\ [AbstractQueued EXCEPT ![s] = q] = AbstractQueued
  BY DEF AbstractDesired, AbstractStatus, AbstractPlacement, AbstractQueued
<1>2. /\ AbstractDesired' = [AbstractDesired EXCEPT ![s] = wish]
      /\ AbstractStatus' = [AbstractStatus EXCEPT ![s] = st]
      /\ AbstractPlacement' = [AbstractPlacement EXCEPT ![s] = place]
      /\ AbstractQueued' = [AbstractQueued EXCEPT ![s] = queued]
  BY DEF Becomes
<1>3. wish = d /\ st = o /\ place = p /\ queued = q => UNCHANGED Abstract!vars
  BY <1>1, <1>2 DEF Abstract!vars
<1>4. o # "running" /\ wish = "deploying" /\ st = o /\ place = p /\ queued = q => Abstract!Next
  <2>1. o # "running" /\ wish = "deploying" /\ st = o /\ place = p /\ queued = q
        => Abstract!Begins(s)
    BY <1>1, <1>2 DEF Abstract!Begins
  <2> QED
    BY <2>1 DEF Abstract!Next
<1>5. d = "deploying" /\ wish = d /\ place = p /\ queued = TRUE
      /\ st \in {"placement_failed", "pending"} => Abstract!Next
  <2>1. d = "deploying" /\ wish = d /\ place = p /\ queued = TRUE
        /\ st \in {"placement_failed", "pending"} => Abstract!Fails(s)
    BY <1>1, <1>2 DEF Abstract!Fails
  <2> QED
    BY <2>1 DEF Abstract!Next
<1>6. d = "deploying" /\ wish = "running" /\ st = "running" /\ place \in Nodes
      /\ queued = FALSE => Abstract!Next
  <2>1. d = "deploying" /\ wish = "running" /\ st = "running" /\ place \in Nodes
        /\ queued = FALSE => Abstract!Deployed(s, place)
    BY <1>2 DEF Abstract!Deployed, Abstract!Runs
  <2> QED
    BY <2>1 DEF Abstract!Next
<1>7. d # "none" /\ wish = d /\ st = "running" /\ place \in Nodes /\ queued = FALSE
      => Abstract!Next
  <2>1. d # "none" /\ wish = d /\ st = "running" /\ place \in Nodes /\ queued = FALSE
        => Abstract!Moved(s, place)
    BY <1>1, <1>2 DEF Abstract!Moved, Abstract!Runs
  <2> QED
    BY <2>1 DEF Abstract!Next
<1>8. p # NoNode /\ wish = d /\ st = "running" /\ place = p /\ queued = q => Abstract!Next
  <2>1. p # NoNode /\ wish = d /\ st = "running" /\ place = p /\ queued = q
        => Abstract!Restarted(s)
    BY <1>1, <1>2 DEF Abstract!Restarted, Abstract!Placed
  <2> QED
    BY <2>1 DEF Abstract!Next
<1>9. p # NoNode /\ d \notin {"none", "stopped"} /\ wish = "running" /\ st = "running"
      /\ place = p /\ queued = FALSE => Abstract!Next
  <2>1. p # NoNode /\ d \notin {"none", "stopped"} /\ wish = "running" /\ st = "running"
        /\ place = p /\ queued = FALSE => Abstract!Revived(s)
    BY <1>2 DEF Abstract!Revived, Abstract!Placed, Abstract!Wanted, Abstract!Runs
  <2> QED
    BY <2>1 DEF Abstract!Next
<1>10. d # "none" /\ wish = d /\ place = p /\ queued = TRUE /\ st \in {"pending", "failed"}
       => Abstract!Next
  <2>1. d # "none" /\ wish = d /\ place = p /\ queued = TRUE /\ st \in {"pending", "failed"}
        => Abstract!GivenUp(s)
    BY <1>1, <1>2 DEF Abstract!GivenUp
  <2> QED
    BY <2>1 DEF Abstract!Next
<1>11. wish = (IF d = "none" THEN "none" ELSE "stopped") /\ st = "stopped"
       /\ place = NoNode /\ queued = FALSE => Abstract!Next
  <2>1. wish = (IF d = "none" THEN "none" ELSE "stopped") /\ st = "stopped"
        /\ place = NoNode /\ queued = FALSE => Abstract!Stopped(s)
    BY <1>2 DEF Abstract!Stopped
  <2> QED
    BY <2>1 DEF Abstract!Next
<1> QED
  BY <1>3, <1>4, <1>5, <1>6, <1>7, <1>8, <1>9, <1>10, <1>11 DEF Changes

Refined == RefinementInv' /\ (Abstract!Next \/ UNCHANGED Abstract!vars)

MayTurn(s, wish, st, place, queued) ==
    Changes(desired[s], observed[s].status, placement[s], pending[s], wish, st, place, queued)

LEMMA Decision ==
    ASSUME PlacedInv, RefinementInv, NEW s \in Services, todo[s] = <<>>,
           NEW r, NEW plan, NEW wish, NEW obs, NEW place, NEW queued,
           job' = [job EXCEPT ![s] = r], todo' = [todo EXCEPT ![s] = plan],
           RecordsKept, \A t \in Services \ {s} : hosts'[t] = hosts[t],
           Leaves(plan, s, wish, obs, place, queued),
           r.pc = "idle" => plan = <<>>,
           Consistent(r, hosts'[s], wish, obs, place, queued),
           MayTurn(s, wish, obs.status, place, queued)
    PROVE  Refined
<1>1. RefinementInv' /\ Becomes(s, wish, obs.status, place, queued)
  BY Decided
<1>2. /\ AbstractDesired[s] = desired[s] /\ AbstractStatus[s] = observed[s].status
      /\ AbstractPlacement[s] = placement[s] /\ AbstractQueued[s] = pending[s]
  BY Settled
<1> DEFINE st == obs.status
<1>3. /\ Becomes(s, wish, st, place, queued)
      /\ MayTurn(s, wish, st, place, queued)
  BY <1>1
<1> HIDE DEF st
<1>4. Abstract!Next \/ UNCHANGED Abstract!vars
  BY <1>2, <1>3, AbstractSteps DEF MayTurn
<1> QED
  BY <1>1, <1>4 DEF Refined

LEMMA StartDecides ==
    ASSUME PlacedInv, RefinementInv, NEW s \in Services, Idle(s),
           NEW p, NEW o, NEW n, NEW t, NEW plan, Start(s, p, o, n, t, plan), p # "idle",
           NEW wish, NEW obs, NEW place, NEW queued,
           RecordsKept, UNCHANGED hosts,
           Leaves(plan, s, wish, obs, place, queued),
           \A r : r.pc = p /\ r.op = o => Consistent(r, hosts[s], wish, obs, place, queued),
           MayTurn(s, wish, obs.status, place, queued)
    PROVE  Refined
<1> DEFINE r == [pc |-> p, op |-> o, target |-> n, from |-> n, at |-> t]
<1>1. job' = [job EXCEPT ![s] = r] /\ todo' = [todo EXCEPT ![s] = plan]
  BY DEF Start
<1>2. todo[s] = <<>>
  BY DEF RefinementInv
<1>3. r.pc = p /\ r.op = o
  OBVIOUS
<1> HIDE DEF r
<1>4. Consistent(r, hosts'[s], wish, obs, place, queued)
  BY <1>3
<1> QED
  BY <1>1, <1>2, <1>3, <1>4, Decision

LEMMA ContinueDecides ==
    ASSUME PlacedInv, RefinementInv, NEW s \in Services, todo[s] = <<>>,
           NEW p, NEW n, NEW plan, Continue(s, p, n, plan), p # "idle",
           NEW wish, NEW obs, NEW place, NEW queued,
           RecordsKept, \A t \in Services \ {s} : hosts'[t] = hosts[t],
           Leaves(plan, s, wish, obs, place, queued),
           \A r : r.pc = p /\ r.op = job[s].op
                     => Consistent(r, hosts'[s], wish, obs, place, queued),
           MayTurn(s, wish, obs.status, place, queued)
    PROVE  Refined
<1> DEFINE r == [job[s] EXCEPT !.pc = p, !.target = n]
<1>1. job' = [job EXCEPT ![s] = r] /\ todo' = [todo EXCEPT ![s] = plan]
  BY Parts DEF Continue, JobsOK
<1>2. r.pc = p /\ r.op = job[s].op
  BY Parts DEF JobRecords
<1> HIDE DEF r
<1>3. Consistent(r, hosts'[s], wish, obs, place, queued)
  BY <1>2
<1> QED
  BY <1>1, <1>2, <1>3, Decision

LEMMA LeaveDecides ==
    ASSUME PlacedInv, RefinementInv, NEW s \in Services, todo[s] = <<>>, Leave(s),
           RecordsKept, \A t \in Services \ {s} : hosts'[t] = hosts[t],
           hosts[s] \subseteq hosts'[s], ~Deploying(job[s])
    PROVE  Refined
<1>1. job' = [job EXCEPT ![s] = NoJob] /\ todo' = [todo EXCEPT ![s] = <<>>]
  BY DEF Leave
<1>2. Leaves(<<>>, s, desired[s], observed[s], placement[s], pending[s])
  BY NoShape
<1>3. Consistent(NoJob, hosts'[s], desired[s], observed[s], placement[s], pending[s])
  BY Settled DEF Now, Consistent, Deploying, Recovering, NoJob
<1>4. MayTurn(s, desired[s], observed[s].status, placement[s], pending[s])
  BY DEF MayTurn, Changes
<1> QED
  BY <1>1, <1>2, <1>3, <1>4, Decision

\* A step that is none of a handler.
LEMMA NothingDecided ==
    ASSUME RefinementInv, RecordsKept, UNCHANGED <<job, todo, hosts>>
    PROVE  Refined
<1>1. /\ desired' = desired /\ observed' = observed /\ placement' = placement
      /\ pending' = pending
  BY DEF RecordsKept
<1>2. \A t \in Services : Agrees(t)'
  BY <1>1, OthersAgree
<1>3. UNCHANGED Abstract!vars
  BY <1>1 DEF Abstract!vars, AbstractDesired, AbstractObserved, AbstractStatus,
              AbstractPlacement, AbstractQueued
<1> QED
  BY <1>2, <1>3 DEF Refined, RefinementInv, Agrees

LEMMA Statuses ==
    ASSUME PlacedInv, NEW s \in Services
    PROVE  /\ \A st, n, g : LET o == Observation(st, n, g) IN o.status = st /\ o.node = n
           /\ \A st, n : observed[s].status # "none" =>
                 /\ CopyAs(s, st, n).status = st
                 /\ CopyAs(s, st, n).node = observed[s].node
           /\ \A st, g : LET o == [observed[s] EXCEPT !.status = st, !.grace = g] IN
                 o.status = st /\ o.node = observed[s].node
           /\ LET o == [observed[s] EXCEPT !.status = "pending", !.node = NoNode] IN
                 o.status = "pending" /\ o.node = NoNode
<1>1. observed[s] \in ObservedState
  BY Parts DEF StoreOK
<1> QED
  BY <1>1 DEF Observation, CopyAs, ObservedState

LEMMA Kept4 == UNCHANGED store => RecordsKept
BY DEF store, RecordsKept

-----------------------------------------------------------------------------
(* The requests and reports *)

LEMMA RequestsRefine ==
    ASSUME PlacedInv, RefinementInv, NEW s \in Services,
           DeployRequest(s) \/ StopRequest(s) \/ RestartRequest(s)
    PROVE  Refined
<1>1. /\ UNCHANGED hosts /\ RecordsKept /\ Idle(s) /\ todo[s] = <<>> /\ Now(s)
  BY Settled, Kept4 DEF DeployRequest, StopRequest, RestartRequest, RefinementInv
<1>2. CASE DeployRequest(s)
  <2>1. observed[s].status # "running" /\ Start(s, "schedule", "deploy", NoNode, 0, DeployPlan)
    BY <1>2 DEF DeployRequest
  <2>2. Leaves(DeployPlan, s, "deploying", observed[s], placement[s], pending[s])
    BY Outcomes
  <2>3. \A r : r.pc = "schedule" /\ r.op = "deploy" =>
           Consistent(r, hosts[s], "deploying", observed[s], placement[s], pending[s])
    BY <1>1 DEF Now, Consistent, Deploying, Recovering
  <2>4. MayTurn(s, "deploying", observed[s].status, placement[s], pending[s])
    BY <2>1 DEF MayTurn, Changes
  <2> QED
    BY <1>1, <2>1, <2>2, <2>3, <2>4, StartDecides
<1>3. ASSUME NEW p \in {"stop", "manual"}, NEW n, Start(s, p, p, n, 0, <<>>)
      PROVE  Refined
  <2>1. Leaves(<<>>, s, desired[s], observed[s], placement[s], pending[s])
    BY NoShape
  <2>2. \A r : r.pc = p /\ r.op = p =>
           Consistent(r, hosts[s], desired[s], observed[s], placement[s], pending[s])
    BY <1>1 DEF Now, Consistent, Deploying, Recovering, Idle
  <2>3. MayTurn(s, desired[s], observed[s].status, placement[s], pending[s])
    BY DEF MayTurn, Changes
  <2> QED
    BY <1>1, <1>3, <2>1, <2>2, <2>3, StartDecides
<1>4. CASE Start(s, "sync", "stop", NoNode, 0, StoppedPlan(s))
  <2> DEFINE d == IF desired[s] = "none" THEN "none" ELSE "stopped"
             o == Observation("stopped", NoNode, 0)
             queued == FALSE
  <2>1. Leaves(StoppedPlan(s), s, d, o, NoNode, queued)
    BY Outcomes
  <2>2. o.status = "stopped"
    BY Statuses
  <2>3. \A r : r.pc = "sync" /\ r.op = "stop" => Consistent(r, hosts[s], d, o, NoNode, queued)
    BY <2>2 DEF Consistent, Deploying, Recovering
  <2>4. MayTurn(s, d, o.status, NoNode, queued)
    BY <2>2 DEF MayTurn, Changes
  <2> HIDE DEF queued
  <2> QED
    BY <1>1, <1>4, <2>1, <2>3, <2>4, StartDecides
<1> QED
  BY <1>2, <1>3, <1>4 DEF StopRequest, RestartRequest

LEMMA RecoverRefines ==
    ASSUME PlacedInv, RefinementInv, NEW s \in Services, NEW t, Idle(s), Recover(s, t),
           desired[s] # "none", observed[s].status # "none", RecordsKept, UNCHANGED hosts
    PROVE  Refined
<1>1. todo[s] = <<>> /\ Now(s)
  BY Settled DEF RefinementInv
<1>2. Leaves(CountedPlan(s), s, desired[s], observed[s], placement[s], pending[s])
  BY Outcomes
<1>3. MayTurn(s, desired[s], observed[s].status, placement[s], pending[s])
  BY DEF MayTurn, Changes
<1>4. \A r : r.op \in {"restart", "reschedule"} /\ r.pc \in {"restart", "schedule"} =>
         Consistent(r, hosts[s], desired[s], observed[s], placement[s], pending[s])
  BY <1>1 DEF Now, Consistent, Deploying, Recovering
<1>5. CASE Start(s, "restart", "restart", placement[s], t, CountedPlan(s))
  BY <1>2, <1>3, <1>4, <1>5, StartDecides
<1>6. CASE Start(s, "schedule", "reschedule", placement[s], t, CountedPlan(s))
  BY <1>2, <1>3, <1>4, <1>6, StartDecides
<1> QED
  BY <1>5, <1>6 DEF Recover

LEMMA ReportRefines ==
    ASSUME PlacedInv, RefinementInv, NEW s \in Services, Report(s)
    PROVE  Refined
<1>1. PICK n \in Nodes, t \in 0..now, g \in Generations(s) :
         CrashReport(s, n, t, g) \/ HealthyReport(s, n, g) \/ UnhealthyReport(s, n, t, g)
  BY DEF Report
<1>2. /\ UNCHANGED hosts /\ RecordsKept /\ Idle(s) /\ todo[s] = <<>> /\ Now(s)
      /\ observed[s].status # "none" /\ desired[s] \notin {"none", "stopped"}
      /\ placement[s] = n /\ n # NoNode
  BY <1>1, Settled, Kept4, ConstantsAssumption
  DEF CrashReport, HealthyReport, UnhealthyReport, Accepted, RefinementInv
<1>3. CASE HealthyReport(s, n, g)
  <2> DEFINE o == [observed[s] EXCEPT !.status = "running", !.grace = 0]
             queued == FALSE
  <2>1. Start(s, "exit", "healthy", n, 0, HealthyPlan(s))
    BY <1>3 DEF HealthyReport
  <2>2. Leaves(HealthyPlan(s), s, "running", o, placement[s], queued)
    BY Outcomes
  <2>3. o.status = "running" /\ o.node = observed[s].node
    BY Statuses
  <2> HIDE DEF o
  <2>4. \A r : r.pc = "exit" /\ r.op = "healthy" =>
           Consistent(r, hosts[s], "running", o, placement[s], queued)
    BY <1>2, <2>3 DEF Now, Consistent, Deploying, Recovering
  <2>5. MayTurn(s, "running", o.status, placement[s], queued)
    BY <1>2, <2>3 DEF MayTurn, Changes
  <2> HIDE DEF queued
  <2> QED
    BY <1>2, <2>1, <2>2, <2>4, <2>5, StartDecides
<1>4. CASE Start(s, "sync", "unhealthy", n, t, NodeMissingPlan(s, t))
  <2> DEFINE o == CopyAs(s, "pending", NoNode)
             queued == TRUE
  <2>1. Leaves(NodeMissingPlan(s, t), s, desired[s], o, placement[s], queued)
    BY Outcomes
  <2>2. o.status = "pending" /\ o.node = observed[s].node
    BY <1>2, Statuses
  <2> HIDE DEF o
  <2>3. \A r : r.pc = "sync" /\ r.op = "unhealthy" =>
           Consistent(r, hosts[s], desired[s], o, placement[s], queued)
    BY <1>2, <2>2 DEF Now, Consistent, Deploying, Recovering
  <2>4. MayTurn(s, desired[s], o.status, placement[s], queued)
    BY <1>2, <2>2 DEF MayTurn, Changes
  <2> HIDE DEF queued
  <2> QED
    BY <1>2, <1>4, <2>1, <2>3, <2>4, StartDecides
<1>5. CASE Recover(s, t)
  BY <1>2, <1>5, RecoverRefines
<1> QED
  BY <1>1, <1>3, <1>4, <1>5 DEF CrashReport, UnhealthyReport

LEMMA RoundHandlersRefine ==
    ASSUME PlacedInv, RefinementInv, NEW s \in Services,
           Retry(s) \/ \E n \in Nodes : Unreachable(s, n)
    PROVE  Refined
<1>1. /\ UNCHANGED hosts /\ RecordsKept /\ Idle(s) /\ todo[s] = <<>> /\ Now(s)
  BY Settled, Kept4 DEF Retry, Unreachable, RefinementInv
<1>2. CASE UNCHANGED <<job, todo>>
  BY <1>1, <1>2, NothingDecided
<1>3. CASE desired[s] = "none" /\ Start(s, "exit", "retry", NoNode, 0, <<W("pending", FALSE)>>)
  <2> DEFINE queued == FALSE
             plan == <<W("pending", FALSE)>>
  <2>0. Start(s, "exit", "retry", NoNode, 0, plan)
    BY <1>3
  <2>1. Leaves(plan, s, desired[s], observed[s], placement[s], queued)
    BY Outcomes
  <2>2. pending[s] = FALSE
    BY <1>1, <1>3, Parts DEF Now, Consistent, StoreOK
  <2>3. \A r : r.pc = "exit" /\ r.op = "retry" =>
           Consistent(r, hosts[s], desired[s], observed[s], placement[s], queued)
    BY <1>1, <1>3, <2>2 DEF Now, Consistent, Deploying, Recovering
  <2>4. MayTurn(s, desired[s], observed[s].status, placement[s], queued)
    BY <2>2 DEF MayTurn, Changes
  <2> HIDE DEF queued, plan
  <2> QED
    BY <1>1, <2>0, <2>1, <2>3, <2>4, StartDecides
<1>4. CASE observed[s].status # "running" /\ Start(s, "schedule", "deploy", NoNode, 0, DeployPlan)
  <2>1. Leaves(DeployPlan, s, "deploying", observed[s], placement[s], pending[s])
    BY Outcomes
  <2>2. \A r : r.pc = "schedule" /\ r.op = "deploy" =>
           Consistent(r, hosts[s], "deploying", observed[s], placement[s], pending[s])
    BY <1>1 DEF Now, Consistent, Deploying, Recovering
  <2>3. MayTurn(s, "deploying", observed[s].status, placement[s], pending[s])
    BY <1>4 DEF MayTurn, Changes
  <2> QED
    BY <1>1, <1>4, <2>1, <2>2, <2>3, StartDecides
<1>5. CASE desired[s] # "none"
           /\ \E n \in Nodes : Start(s, "schedule", "unreachable", n, round.at, <<>>)
  <2>1. PICK n \in Nodes : Start(s, "schedule", "unreachable", n, round.at, <<>>)
    BY <1>5
  <2>2. Leaves(<<>>, s, desired[s], observed[s], placement[s], pending[s])
    BY NoShape
  <2>3. \A r : r.pc = "schedule" /\ r.op = "unreachable" =>
           Consistent(r, hosts[s], desired[s], observed[s], placement[s], pending[s])
    BY <1>1, <1>5 DEF Now, Consistent, Deploying, Recovering, Idle
  <2>4. MayTurn(s, desired[s], observed[s].status, placement[s], pending[s])
    BY DEF MayTurn, Changes
  <2> QED
    BY <1>1, <2>1, <2>2, <2>3, <2>4, StartDecides
<1> QED
  BY <1>2, <1>3, <1>4, <1>5 DEF Retry, Unreachable

-----------------------------------------------------------------------------
(* The handlers *)

\* A handler decides that the service stays down, and queues it.
LEMMA FailureRefines ==
    ASSUME PlacedInv, RefinementInv, NEW s \in Services, todo[s] = <<>>,
           NEW n, NEW plan, Continue(s, "sync", n, plan), NEW obs, NEW queued, queued = TRUE,
           RecordsKept, \A t \in Services \ {s} : hosts'[t] = hosts[t],
           hosts[s] \subseteq hosts'[s],
           Leaves(plan, s, desired[s], obs, placement[s], queued),
           obs.node \in {NoNode, observed[s].node},
           \/ desired[s] = "deploying" /\ obs.status \in {"placement_failed", "pending"}
           \/ desired[s] # "none" /\ obs.status \in {"pending", "failed"}
    PROVE  Refined
<1>1. Now(s)
  BY Settled
<1>2. \A r : r.pc = "sync" /\ r.op = job[s].op =>
         Consistent(r, hosts'[s], desired[s], obs, placement[s], queued)
  BY <1>1 DEF Now, Consistent, Deploying, Recovering
<1>3. MayTurn(s, desired[s], obs.status, placement[s], queued)
  BY DEF MayTurn, Changes
<1> QED
  BY <1>2, <1>3, ContinueDecides

\* A handler decides that the service runs on node n from now on.
LEMMA PlacementRefines ==
    ASSUME PlacedInv, RefinementInv, NEW s \in Services, todo[s] = <<>>,
           NEW n \in Nodes, NEW plan, Continue(s, "commit", n, plan),
           NEW wish, NEW obs, NEW queued, queued = FALSE,
           RecordsKept, \A t \in Services \ {s} : hosts'[t] = hosts[t], n \in hosts'[s],
           Leaves(plan, s, wish, obs, n, queued), obs.status = "running", obs.node = n,
           \/ desired[s] = "deploying" /\ wish = "running"
           \/ desired[s] # "none" /\ wish = desired[s]
    PROVE  Refined
<1>1. \A r : r.pc = "commit" /\ r.op = job[s].op =>
         Consistent(r, hosts'[s], wish, obs, n, queued)
  BY DEF Consistent, Deploying, Recovering
<1>2. MayTurn(s, wish, obs.status, n, queued)
  BY DEF MayTurn, Changes
<1> QED
  BY <1>1, <1>2, ContinueDecides

\* A handler goes on with what it was about to do.
LEMMA WaitRefines ==
    ASSUME PlacedInv, RefinementInv, NEW s \in Services, todo[s] = <<>>,
           NEW p \in {"deploy", "retire"}, NEW n, Continue(s, p, n, <<>>),
           RecordsKept, UNCHANGED hosts \/ hosts[s] \subseteq hosts'[s],
           \A t \in Services \ {s} : hosts'[t] = hosts[t],
           job[s].pc \in {"schedule", "deploy"}, p = "retire" => job[s].op # "deploy"
    PROVE  Refined
<1>1. Now(s)
  BY Settled
<1>2. Leaves(<<>>, s, desired[s], observed[s], placement[s], pending[s])
  BY NoShape
<1>3. \A r : r.pc = p /\ r.op = job[s].op =>
         Consistent(r, hosts'[s], desired[s], observed[s], placement[s], pending[s])
  BY <1>1 DEF Now, Consistent, Deploying, Recovering
<1>4. MayTurn(s, desired[s], observed[s].status, placement[s], pending[s])
  BY DEF MayTurn, Changes
<1>5. p # "idle"
  OBVIOUS
<1> QED
  BY <1>2, <1>3, <1>4, <1>5, ContinueDecides

\* What is known of a handler that schedules or deploys.
LEMMA UnderWay ==
    ASSUME PlacedInv, RecoveryInv, RefinementInv, NEW s \in Services, todo[s] = <<>>
    PROVE  /\ job[s].pc \in {"schedule", "deploy", "retire"} =>
                 /\ job[s].op \in {"deploy", "reschedule", "unreachable"}
                 /\ job[s].pc # "retire" /\ job[s].op = "deploy" => desired[s] = "deploying"
                 /\ job[s].op # "deploy" => desired[s] # "none" /\ observed[s].status # "none"
           /\ job[s].pc = "restart" => desired[s] # "none" /\ observed[s].status # "none"
           /\ job[s].pc \in {"deploy", "retire", "restart", "manual"} => job[s].target \in Nodes
           /\ job[s].pc \in {"restart", "manual"} => placement[s] # NoNode
<1>1. Now(s) /\ JobSafe(s)
  BY Settled DEF PlacedInv
<1>2. job[s].target \in Nodes \cup {NoNode}
  BY Parts
<1> QED
  BY <1>1, <1>2 DEF Now, Consistent, Deploying, Recovering, JobSafe

LEMMA ScheduleRefines ==
    ASSUME PlacedInv, RecoveryInv, RefinementInv, NEW s \in Services, Schedule(s)
    PROVE  Refined
<1>1. /\ job[s].pc = "schedule" /\ todo[s] = <<>> /\ hosts' = hosts /\ RecordsKept
  BY Kept4 DEF Schedule, At
<1>2. /\ job[s].op \in {"deploy", "reschedule", "unreachable"}
      /\ job[s].op = "deploy" => desired[s] = "deploying"
      /\ job[s].op # "deploy" => desired[s] # "none" /\ observed[s].status # "none"
  BY <1>1, UnderWay
<1>3. CASE \E n : Continue(s, "deploy", n, <<>>)
  BY <1>1, <1>3, WaitRefines
<1>4. CASE Continue(s, "sync", NoNode, UnscheduledPlan(s))
  <2> DEFINE queued == TRUE
  <2>1. CASE job[s].op = "deploy"
    <3> DEFINE o == Observation("placement_failed", NoNode, 0)
    <3>1. o.status = "placement_failed" /\ o.node = NoNode
      BY Statuses
    <3>2. Leaves(PlacementFailedPlan, s, desired[s], o, placement[s], queued)
      BY Outcomes
    <3>3. UnscheduledPlan(s) = PlacementFailedPlan
      BY <2>1 DEF UnscheduledPlan
    <3>4. queued = TRUE
      OBVIOUS
    <3> HIDE DEF o, queued
    <3> QED
      BY <1>1, <1>2, <1>4, <2>1, <3>1, <3>2, <3>3, <3>4, FailureRefines
  <2>2. CASE job[s].op = "reschedule"
    <3> DEFINE o == CopyAs(s, "pending", job[s].from)
    <3>1. o.status = "pending" /\ o.node = observed[s].node
      BY <1>2, <2>2, Statuses
    <3>2. Leaves(NoCandidatePlan(s), s, desired[s], o, placement[s], queued)
      BY Outcomes
    <3>3. UnscheduledPlan(s) = NoCandidatePlan(s)
      BY <2>2 DEF UnscheduledPlan
    <3>4. queued = TRUE
      OBVIOUS
    <3> HIDE DEF o, queued
    <3> QED
      BY <1>1, <1>2, <1>4, <2>2, <3>1, <3>2, <3>3, <3>4, FailureRefines
  <2>3. CASE job[s].op = "unreachable"
    <3> DEFINE o == [observed[s] EXCEPT !.status = "pending", !.node = NoNode]
    <3>1. o.status = "pending" /\ o.node = NoNode
      BY Statuses
    <3>2. Leaves(NoReplacementPlan(s), s, desired[s], o, placement[s], queued)
      BY Outcomes
    <3>3. UnscheduledPlan(s) = NoReplacementPlan(s)
      BY <2>3 DEF UnscheduledPlan
    <3>4. queued = TRUE
      OBVIOUS
    <3> HIDE DEF o, queued
    <3> QED
      BY <1>1, <1>2, <1>4, <2>3, <3>1, <3>2, <3>3, <3>4, FailureRefines
  <2> QED
    BY <1>2, <2>1, <2>2, <2>3
<1> QED
  BY <1>3, <1>4 DEF Schedule

LEMMA DeployRefines ==
    ASSUME PlacedInv, RecoveryInv, RefinementInv, NEW s \in Services, DeployReply(s)
    PROVE  Refined
<1> DEFINE n == job[s].target
<1>1. /\ job[s].pc = "deploy" /\ todo[s] = <<>> /\ RecordsKept
  BY Kept4 DEF DeployReply, At
<1>2. /\ job[s].op \in {"deploy", "reschedule", "unreachable"} /\ n \in Nodes
      /\ job[s].op = "deploy" => desired[s] = "deploying"
      /\ job[s].op # "deploy" => desired[s] # "none" /\ observed[s].status # "none"
  BY <1>1, UnderWay
<1>3. PICK ok \in BOOLEAN : /\ AgentExecutes(s, hosts[s] \cup {n}, ok)
                            /\ IF ok THEN DeploySucceeds(s) ELSE DeployFails(s)
  BY DEF DeployReply
<1>4. /\ \A t \in Services \ {s} : hosts'[t] = hosts[t]
      /\ hosts[s] \subseteq hosts'[s]
      /\ ok => n \in hosts'[s]
  BY <1>3, Agent
<1>5. CASE ok
  <2> DEFINE queued == FALSE
  <2>1. CASE job[s].op = "deploy"
    <3> DEFINE o == Observation("running", n, 0)
    <3>1. o.status = "running" /\ o.node = n
      BY Statuses
    <3>2. Leaves(DeployedPlan(n), s, "running", o, n, queued)
      BY Outcomes
    <3>3. Continue(s, "commit", n, DeployedPlan(n))
      BY <1>3, <1>5, <2>1 DEF DeploySucceeds
    <3>4. queued = FALSE
      OBVIOUS
    <3> HIDE DEF o, queued, n
    <3> QED
      BY <1>1, <1>2, <1>4, <1>5, <2>1, <3>1, <3>2, <3>3, <3>4, PlacementRefines
  <2>2. CASE job[s].op = "reschedule"
    <3>1. Continue(s, "retire", n, <<>>)
      BY <1>3, <1>5, <2>2 DEF DeploySucceeds
    <3> QED
      BY <1>1, <1>4, <2>2, <3>1, WaitRefines
  <2>3. CASE job[s].op = "unreachable"
    <3> DEFINE o == Observation("running", n, job[s].at + Grace)
    <3>1. o.status = "running" /\ o.node = n
      BY Statuses
    <3>2. Leaves(EvacuatedPlan(s, n), s, desired[s], o, n, queued)
      BY Outcomes
    <3>3. Continue(s, "commit", n, EvacuatedPlan(s, n))
      BY <1>3, <1>5, <2>3 DEF DeploySucceeds
    <3>4. queued = FALSE
      OBVIOUS
    <3> HIDE DEF o, queued, n
    <3> QED
      BY <1>1, <1>2, <1>4, <1>5, <2>3, <3>1, <3>2, <3>3, <3>4, PlacementRefines
  <2> QED
    BY <1>2, <2>1, <2>2, <2>3
<1>6. CASE ~ok
  <2> DEFINE queued == TRUE
  <2>1. CASE job[s].op = "deploy"
    <3> DEFINE o == Observation("pending", NoNode, 0)
    <3>1. o.status = "pending" /\ o.node = NoNode
      BY Statuses
    <3>2. Leaves(DeployFailedPlan, s, desired[s], o, placement[s], queued)
      BY Outcomes
    <3>3. Continue(s, "sync", n, DeployFailedPlan)
      BY <1>3, <1>6, <2>1 DEF DeployFails
    <3>4. queued = TRUE
      OBVIOUS
    <3> HIDE DEF o, queued, n
    <3> QED
      BY <1>1, <1>2, <1>4, <2>1, <3>1, <3>2, <3>3, <3>4, FailureRefines
  <2>2. CASE job[s].op # "deploy"
    <3> DEFINE o == CopyAs(s, "failed", job[s].from)
    <3>1. o.status = "failed" /\ o.node = observed[s].node
      BY <1>2, <2>2, Statuses
    <3>2. /\ Leaves(RescheduleFailedPlan(s), s, desired[s], o, placement[s], queued)
          /\ Leaves(EvacuationFailedPlan(s), s, desired[s], o, placement[s], queued)
      BY Outcomes
    <3>3. \/ Continue(s, "sync", n, RescheduleFailedPlan(s))
          \/ Continue(s, "sync", n, EvacuationFailedPlan(s))
      BY <1>2, <1>3, <1>6, <2>2 DEF DeployFails
    <3>4. queued = TRUE
      OBVIOUS
    <3> HIDE DEF o, queued, n
    <3> QED
      BY <1>1, <1>2, <1>4, <2>2, <3>1, <3>2, <3>3, <3>4, FailureRefines
  <2> QED
    BY <2>1, <2>2
<1> QED
  BY <1>5, <1>6

LEMMA RetireRefines ==
    ASSUME PlacedInv, RecoveryInv, RefinementInv, NEW s \in Services, RetireReply(s)
    PROVE  Refined
<1> DEFINE n == job[s].target
           o == Observation("running", n, job[s].at + Grace)
           queued == FALSE
<1>1. /\ job[s].pc = "retire" /\ todo[s] = <<>> /\ RecordsKept
      /\ Continue(s, "commit", n, RescheduledPlan(s, n))
  BY Kept4 DEF RetireReply, At
<1>2. n \in Nodes /\ n \in hosts[s] /\ n # job[s].from
  BY <1>1, UnderWay DEF RecoveryInv, JobFits
<1>3. \A t \in Services \ {s} : hosts'[t] = hosts[t]
  BY Agent DEF RetireReply
<1>4. n \in hosts'[s]
  BY <1>2, Agent DEF RetireReply
<1>5. desired[s] # "none"
  <2>1. Now(s)
    BY <1>1, Settled
  <2> QED
    BY <1>1, <2>1 DEF Now, Consistent, Recovering
<1>6. o.status = "running" /\ o.node = n
  BY Statuses
<1>7. Leaves(RescheduledPlan(s, n), s, desired[s], o, n, queued)
  BY Outcomes
<1>8. queued = FALSE
  OBVIOUS
<1> HIDE DEF n, o, queued
<1> QED
  BY <1>1, <1>2, <1>3, <1>4, <1>5, <1>6, <1>7, <1>8, PlacementRefines

\* A restart that succeeded, in a recovery or by hand.
LEMMA RestartedRefines ==
    ASSUME PlacedInv, RefinementInv, NEW s \in Services, todo[s] = <<>>,
           NEW p \in {"exit", "sync"}, NEW n, NEW plan, Continue(s, p, n, plan), NEW obs,
           RecordsKept, \A t \in Services \ {s} : hosts'[t] = hosts[t],
           hosts[s] \subseteq hosts'[s], ~Deploying(job[s]),
           Leaves(plan, s, desired[s], obs, placement[s], pending[s]),
           obs.node = observed[s].node, obs.status = "running", placement[s] # NoNode
    PROVE  Refined
<1>1. Now(s)
  BY Settled
<1>2. \A r : r.pc = p /\ r.op = job[s].op =>
         Consistent(r, hosts'[s], desired[s], obs, placement[s], pending[s])
  BY <1>1 DEF Now, Consistent, Deploying, Recovering
<1>3. MayTurn(s, desired[s], obs.status, placement[s], pending[s])
  BY DEF MayTurn, Changes
<1>4. p # "idle"
  OBVIOUS
<1> QED
  BY <1>2, <1>3, <1>4, ContinueDecides

LEMMA RestartRefines ==
    ASSUME PlacedInv, RecoveryInv, RefinementInv, NEW s \in Services, RestartReply(s)
    PROVE  Refined
<1> DEFINE n == job[s].target
<1>1. /\ job[s].pc = "restart" /\ todo[s] = <<>> /\ RecordsKept
  BY DEF RestartReply, At, RecordsKept
<1>2. /\ desired[s] # "none" /\ observed[s].status # "none" /\ placement[s] # NoNode
      /\ ~Deploying(job[s])
  BY <1>1, UnderWay DEF Deploying
<1>3. PICK ok \in BOOLEAN :
         /\ AgentExecutes(s, hosts[s] \cup {n}, ok)
         /\ IF ok THEN Continue(s, "exit", n, RestartedPlan(s))
                  ELSE Continue(s, "sync", n, RestartFailedPlan(s))
  BY DEF RestartReply
<1>4. /\ \A t \in Services \ {s} : hosts'[t] = hosts[t]
      /\ hosts[s] \subseteq hosts'[s]
  BY <1>3, Agent
<1>5. CASE ok
  <2> DEFINE o == [observed[s] EXCEPT !.status = "running", !.grace = job[s].at + Grace]
  <2>1. o.status = "running" /\ o.node = observed[s].node
    BY Statuses
  <2>2. Leaves(RestartedPlan(s), s, desired[s], o, placement[s], pending[s])
    BY Outcomes
  <2> HIDE DEF o
  <2> QED
    BY <1>1, <1>2, <1>3, <1>4, <1>5, <2>1, <2>2, RestartedRefines
<1>6. CASE ~ok
  <2> DEFINE o == CopyAs(s, "failed", job[s].from)
             queued == TRUE
  <2>1. o.status = "failed" /\ o.node = observed[s].node
    BY <1>2, Statuses
  <2>2. Leaves(RestartFailedPlan(s), s, desired[s], o, placement[s], queued)
    BY Outcomes
  <2>3. queued = TRUE
    OBVIOUS
  <2> HIDE DEF o, queued
  <2> QED
    BY <1>1, <1>2, <1>3, <1>4, <1>6, <2>1, <2>2, <2>3, FailureRefines
<1> QED
  BY <1>5, <1>6

LEMMA StopRefines ==
    ASSUME PlacedInv, RefinementInv, NEW s \in Services, StopReply(s)
    PROVE  Refined
<1> DEFINE d == IF desired[s] = "none" THEN "none" ELSE "stopped"
           o == Observation("stopped", NoNode, 0)
           queued == FALSE
<1>1. /\ todo[s] = <<>> /\ RecordsKept
      /\ Continue(s, "sync", job[s].target, StoppedPlan(s))
  BY Kept4 DEF StopReply, At
<1>2. \A t \in Services \ {s} : hosts'[t] = hosts[t]
  BY Agent DEF StopReply
<1>3. Leaves(StoppedPlan(s), s, d, o, NoNode, queued)
  BY Outcomes
<1>4. o.status = "stopped"
  BY Statuses
<1>5. \A r : r.pc = "sync" /\ r.op = job[s].op => Consistent(r, hosts'[s], d, o, NoNode, queued)
  BY <1>4 DEF Consistent, Deploying, Recovering
<1>6. MayTurn(s, d, o.status, NoNode, queued)
  BY <1>4 DEF MayTurn, Changes
<1> HIDE DEF d, o, queued
<1> QED
  BY <1>1, <1>2, <1>3, <1>5, <1>6, ContinueDecides

LEMMA ManualRefines ==
    ASSUME PlacedInv, RecoveryInv, RefinementInv, NEW s \in Services, ManualReply(s)
    PROVE  Refined
<1> DEFINE n == job[s].target
<1>1. /\ job[s].pc = "manual" /\ todo[s] = <<>> /\ RecordsKept /\ ~Deploying(job[s])
  BY Kept4 DEF ManualReply, At, Deploying
<1>2. placement[s] # NoNode /\ Now(s)
  BY <1>1, UnderWay, Settled
<1>3. PICK ok \in BOOLEAN :
         /\ AgentExecutes(s, hosts[s] \cup {n}, ok)
         /\ IF ok THEN Continue(s, "sync", n, ManuallyRestartedPlan(s)) ELSE Leave(s)
  BY DEF ManualReply
<1>4. /\ \A t \in Services \ {s} : hosts'[t] = hosts[t]
      /\ hosts[s] \subseteq hosts'[s]
  BY <1>3, Agent
<1>5. CASE ok
  <2> DEFINE o == CopyAs(s, "running", n)
  <2>1. o.status = "running" /\ o.node = observed[s].node
    BY <1>2, Statuses DEF Now, Consistent
  <2>2. Leaves(ManuallyRestartedPlan(s), s, desired[s], o, placement[s], pending[s])
    BY Outcomes
  <2> HIDE DEF o
  <2> QED
    BY <1>1, <1>2, <1>3, <1>4, <1>5, <2>1, <2>2, RestartedRefines
<1>6. CASE ~ok
  BY <1>1, <1>3, <1>4, <1>6, LeaveDecides
<1> QED
  BY <1>5, <1>6

LEMMA FinishRefines ==
    ASSUME PlacedInv, RefinementInv, NEW s \in Services, Finish(s)
    PROVE  Refined
<1>1. todo[s] = <<>> /\ Leave(s) /\ RecordsKept /\ hosts' = hosts /\ ~Deploying(job[s])
  BY Kept4 DEF Finish, Deploying
<1> QED
  BY <1>1, LeaveDecides

LEMMA WriteRefines ==
    ASSUME PlacedInv, RefinementInv, NEW s \in Services, Write(s)
    PROVE  Refined
<1>1. RefinementInv' /\ Becomes(s, AbstractDesired[s], AbstractStatus[s],
                                AbstractPlacement[s], AbstractQueued[s])
  BY WriteStutters DEF AbstractStatus
<1>2. Changes(AbstractDesired[s], AbstractStatus[s], AbstractPlacement[s], AbstractQueued[s],
              AbstractDesired[s], AbstractStatus[s], AbstractPlacement[s], AbstractQueued[s])
  BY DEF Changes
<1> QED
  BY <1>1, <1>2, AbstractSteps DEF Refined

LEMMA NoUndo ==
    ASSUME RefinementInv, NEW s \in Services
    PROVE  ~UndoReply(s)
BY DEF RefinementInv, Consistent, UndoReply, At

-----------------------------------------------------------------------------
(* The whole *)

LEMMA InitRefines == Init => RefinementInv /\ Abstract!Init
<1> SUFFICES ASSUME Init PROVE RefinementInv /\ Abstract!Init
  OBVIOUS
<1>1. \A k, value : After(<<>>, k, value) = value
  BY AfterMiss
<1>2. /\ AbstractDesired = [s \in Services |-> "none"]
      /\ AbstractObserved = [s \in Services |-> NoObservation]
      /\ AbstractPlacement = [s \in Services |-> NoNode]
      /\ AbstractQueued = [s \in Services |-> FALSE]
  BY <1>1 DEF Init, AbstractDesired, AbstractObserved, AbstractPlacement, AbstractQueued
<1>3. NoObservation.status = "none"
  BY DEF NoObservation, Observation
<1>4. AbstractStatus = [s \in Services |-> "none"]
  BY <1>2, <1>3 DEF AbstractStatus
<1>5. Abstract!Init
  BY <1>2, <1>4 DEF Abstract!Init
<1>6. ASSUME NEW s \in Services
      PROVE  /\ SetsOnce(todo[s]) /\ todo[s] = <<>>
             /\ Consistent(job[s], hosts[s], AbstractDesired[s], AbstractObserved[s],
                           AbstractPlacement[s], AbstractQueued[s])
  BY <1>2, <1>3 DEF Init, NoJob, SetsOnce, Consistent, Deploying, Recovering
<1> QED
  BY <1>5, <1>6 DEF RefinementInv

LEMMA NextRefines ==
    ASSUME Faults \subseteq {"timeout"}
    PROVE  PlacedInv /\ RecoveryInv /\ RefinementInv /\ [Next]_vars => Refined
<1> SUFFICES ASSUME PlacedInv, RecoveryInv, RefinementInv, [Next]_vars PROVE Refined
  OBVIOUS
<1>1. CASE \E s \in Services : Handler(s)
  BY <1>1, WriteRefines, ScheduleRefines, FinishRefines, DeployRefines, RetireRefines,
     RestartRefines, StopRefines, ManualRefines, NoUndo DEF Handler
<1>2. CASE \E s \in Services : Request(s)
  BY <1>2, RequestsRefine, ReportRefines DEF Request
<1>3. CASE \E s \in Services : Retry(s) \/ \E n \in Nodes : Unreachable(s, n)
  BY <1>3, RoundHandlersRefine
<1>4. CASE RoundStart \/ MarkUnavailable \/ ListPlacements \/ ListPending \/ RoundEnd
  <2>1. UNCHANGED <<store, job, todo, hosts>>
    BY <1>4 DEF RoundStart, MarkUnavailable, ListPlacements, ListPending, RoundEnd
  <2> QED
    BY <2>1, Kept4, NothingDecided
<1>5. CASE Tick \/ \E n \in Nodes : Heartbeat(n) \/ StaleSnapshot(n)
  <2>1. UNCHANGED <<store, job, todo, hosts>>
    BY <1>5 DEF Tick, Heartbeat, StaleSnapshot
  <2> QED
    BY <2>1, Kept4, NothingDecided
<1>6. CASE UNCHANGED vars
  BY <1>6, Kept4, NothingDecided DEF vars
<1>7. ~RoundFails /\ ~ControllerCrash /\ \A s \in Services : ~StoreFails(s)
  BY DEF RoundFails, ControllerCrash, StoreFails
<1> QED
  BY <1>1, <1>2, <1>3, <1>4, <1>5, <1>6, <1>7 DEF Next, Reconcile

\* Without store faults and crashes, at every step of every handler: the record
\* of a service, with the writes its handler has still to make, agrees with
\* itself, with the containers of the service and with the queue.
THEOREM RefinementInvariant ==
    ASSUME Faults \subseteq {"timeout"}
    PROVE  Spec => []RefinementInv
<1>1. Init => PlacedInv /\ RecoveryInv /\ RefinementInv
  BY InitInv, InitRecovery, InitRefines
<1>2. PlacedInv /\ RecoveryInv /\ RefinementInv /\ [Next]_vars
      => (PlacedInv /\ RecoveryInv /\ RefinementInv)'
  BY NextInv, NextRecovery, NextRefines DEF Refined
<1> QED
  BY <1>1, <1>2, PTL DEF Spec

\* The handlers of the controller, which write key by key and await the agents
\* in between, implement the lifecycle of a service in which every deployment,
\* recovery, evacuation, report and stop is one step.
THEOREM ControllerImplementsLifecycle ==
    ASSUME Faults \subseteq {"timeout"}
    PROVE  Spec => ImplementsLifecycle
<1>1. Init => Abstract!Init
  BY InitRefines
<1>2. PlacedInv /\ RecoveryInv /\ RefinementInv /\ [Next]_vars => [Abstract!Next]_(Abstract!vars)
  BY NextRefines DEF Refined
<1> QED
  BY <1>1, <1>2, Invariant, RecoveryInvariant, RefinementInvariant, PTL
  DEF Spec, ImplementsLifecycle, Abstract!Spec

LEMMA BetweenHandlers ==
    ASSUME RefinementInv, NEW s \in Services, Idle(s)
    PROVE  Now(s)
BY Settled DEF RefinementInv

\* A service that is shown as down has its retry queued as soon as the handler
\* that took it down has returned.
THEOREM DownServicesAreQueued ==
    ASSUME Faults \subseteq {"timeout"}
    PROVE  Spec => []DownIsQueued
<1>1. RefinementInv => DownIsQueued
  BY BetweenHandlers DEF DownIsQueued, Now, Consistent
<1> QED
  BY <1>1, RefinementInvariant, PTL

\* A service that is shown as running has a container where it is placed.
THEOREM RunningServicesAreServed ==
    ASSUME Faults \subseteq {"timeout"}
    PROVE  Spec => []RunningIsServed
<1>1. PlacedInv /\ RefinementInv => RunningIsServed
  BY BetweenHandlers DEF PlacedInv, RunningIsPlaced, RunningIsServed, Now, Consistent
<1> QED
  BY <1>1, Invariant, RefinementInvariant, PTL

\* The node that clients are shown for a running service is the one it is
\* placed on, or none.
THEOREM ShownNodesAreTrue ==
    ASSUME Faults \subseteq {"timeout"}
    PROVE  Spec => []ObservedNodeIsPlacement
<1>1. PlacedInv /\ RefinementInv => ObservedNodeIsPlacement
  BY BetweenHandlers DEF PlacedInv, RunningIsPlaced, ObservedNodeIsPlacement, Now, Consistent
<1> QED
  BY <1>1, Invariant, RefinementInvariant, PTL

=============================================================================

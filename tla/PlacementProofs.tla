--------------------------- MODULE PlacementProofs ---------------------------
(***************************************************************************)
(* What the scheduler and the port probe return, and the invariants of     *)
(* Placement, for every value of the constants.                            *)
(***************************************************************************)
EXTENDS Placement, FiniteSetTheorems, TLAPS

-----------------------------------------------------------------------------
(* The scheduler *)

Schedulables(nodes) == \A n \in DOMAIN nodes : n \in Nodes /\ nodes[n] \in NodeState

LEMMA EligibleTypes ==
    ASSUME NEW min, NEW nodes, Schedulables(nodes), NEW n \in Eligible(min, nodes)
    PROVE  /\ n \in Nodes
           /\ Rank[n] \in Nat
           /\ Load(nodes[n]) \in Nat
           /\ nodes[n].snapshot.memory \in Nat
BY SchedulerAssumption DEF Schedulables, Eligible, SatisfiesMinimum, NodeState, Snapshot, Load

\* The order of the candidates has no cycles and leaves no two of them equal.
LEMMA BeforeIsOrder ==
    ASSUME NEW min, NEW nodes, Schedulables(nodes),
           NEW l \in Eligible(min, nodes), NEW m \in Eligible(min, nodes), NEW n \in Eligible(min, nodes)
    PROVE  /\ ~Before(nodes, n, n)
           /\ Before(nodes, l, m) /\ Before(nodes, m, n) => Before(nodes, l, n)
           /\ m # n => Before(nodes, m, n) \/ Before(nodes, n, m)
<1>1. /\ l \in Nodes /\ Rank[l] \in Nat /\ Load(nodes[l]) \in Nat /\ nodes[l].snapshot.memory \in Nat
      /\ m \in Nodes /\ Rank[m] \in Nat /\ Load(nodes[m]) \in Nat /\ nodes[m].snapshot.memory \in Nat
      /\ n \in Nodes /\ Rank[n] \in Nat /\ Load(nodes[n]) \in Nat /\ nodes[n].snapshot.memory \in Nat
  BY EligibleTypes
<1>2. m # n => Rank[m] # Rank[n]
  BY <1>1, SchedulerAssumption
<1> QED
  BY <1>1, <1>2 DEF Before

\* A set of candidates that is not empty has a least one: the sets of those
\* before each of them are ordered by inclusion, which is well-founded.
LEMMA LeastExists ==
    ASSUME NEW min, NEW nodes, Schedulables(nodes), Eligible(min, nodes) # {}
    PROVE  \E n \in Eligible(min, nodes) : \A m \in Eligible(min, nodes) : ~Before(nodes, m, n)
<1> DEFINE E == Eligible(min, nodes)
           Below(n) == {m \in E : Before(nodes, m, n)}
           T == {Below(n) : n \in E}
<1>1. IsFiniteSet(E)
  <2>1. E \subseteq Nodes
    BY DEF Eligible, Schedulables
  <2> QED
    BY <2>1, FS_Subset, SchedulerAssumption
<1>2. T \subseteq FiniteSubsetsOf(E)
  <2>1. \A n \in E : IsFiniteSet(Below(n))
    BY <1>1, FS_Subset
  <2> QED
    BY <2>1 DEF FiniteSubsetsOf
<1>3. PICK B \in T : \A C \in T : <<C, B>> \notin StrictSubsetOrdering(E)
  <2>1. T # {}
    OBVIOUS
  <2>2. IsWellFoundedOn(StrictSubsetOrdering(E), FiniteSubsetsOf(E))
    BY FS_StrictSubsetOrderingWellFounded
  <2> HIDE DEF T
  <2> QED
    BY <1>2, <2>1, <2>2, WFMin
<1>4. PICK n \in E : B = Below(n)
  BY <1>3
<1>5. ASSUME NEW m \in E, Before(nodes, m, n)
      PROVE  FALSE
  <2>1. Below(m) \in T /\ Below(m) \subseteq E /\ Below(n) \subseteq E
    OBVIOUS
  <2>2. Below(m) \subseteq Below(n)
    BY <1>5, BeforeIsOrder
  <2>3. m \in Below(n) /\ m \notin Below(m)
    BY <1>5, BeforeIsOrder
  <2> QED
    BY <1>3, <1>4, <2>1, <2>2, <2>3 DEF StrictSubsetOrdering
<1> QED
  BY <1>4, <1>5

\* choose_node_least_load returns a healthy node with the resources that are
\* asked for, before which no other comes; it returns none only if there is none.
THEOREM LeastLoadIsChosen ==
    ASSUME NEW min, NEW nodes, Schedulables(nodes)
    PROVE  LET n == ChooseNodeLeastLoad(min, nodes) IN
           /\ n = NoNode <=> Eligible(min, nodes) = {}
           /\ n # NoNode => /\ n \in DOMAIN nodes
                            /\ nodes[n].status = "healthy"
                            /\ SatisfiesMinimum(min, nodes[n])
                            /\ \A m \in Eligible(min, nodes) \ {n} : Before(nodes, n, m)
<1>1. CASE Eligible(min, nodes) = {}
  BY <1>1 DEF ChooseNodeLeastLoad
<1>2. CASE Eligible(min, nodes) # {}
  <2> DEFINE n == Least(Eligible(min, nodes), nodes)
  <2>1. n \in Eligible(min, nodes) /\ \A m \in Eligible(min, nodes) : ~Before(nodes, m, n)
    BY <1>2, LeastExists DEF Least
  <2>2. n \in DOMAIN nodes /\ nodes[n].status = "healthy" /\ SatisfiesMinimum(min, nodes[n])
    BY <2>1 DEF Eligible
  <2>3. n # NoNode
    BY <2>2, SchedulerAssumption DEF Schedulables
  <2>4. \A m \in Eligible(min, nodes) \ {n} : Before(nodes, n, m)
    BY <2>1, BeforeIsOrder
  <2>5. ChooseNodeLeastLoad(min, nodes) = n
    BY <1>2 DEF ChooseNodeLeastLoad
  <2> HIDE DEF n
  <2> QED
    BY <1>2, <2>2, <2>3, <2>4, <2>5
<1> QED
  BY <1>1, <1>2

-----------------------------------------------------------------------------
(* The port probe *)

\* A set of naturals that is not empty has a least element.
LEMMA LeastNatural ==
    ASSUME NEW S \in SUBSET Nat, S # {}
    PROVE  \E i \in S : \A j \in S : i <= j
<1> DEFINE T == {0..(i - 1) : i \in S}
<1>1. T \subseteq FiniteSubsetsOf(Nat)
  <2>1. \A i \in S : IsFiniteSet(0..(i - 1)) /\ 0..(i - 1) \subseteq Nat
    BY FS_Interval
  <2> QED
    BY <2>1 DEF FiniteSubsetsOf
<1>2. PICK B \in T : \A C \in T : <<C, B>> \notin StrictSubsetOrdering(Nat)
  <2>1. T # {}
    OBVIOUS
  <2>2. IsWellFoundedOn(StrictSubsetOrdering(Nat), FiniteSubsetsOf(Nat))
    BY FS_StrictSubsetOrderingWellFounded
  <2> HIDE DEF T
  <2> QED
    BY <1>1, <2>1, <2>2, WFMin
<1>3. PICK i \in S : B = 0..(i - 1)
  BY <1>2
<1>4. ASSUME NEW j \in S, j < i
      PROVE  FALSE
  <2>1. 0..(j - 1) \in T /\ 0..(j - 1) \in SUBSET Nat /\ 0..(i - 1) \in SUBSET Nat
    OBVIOUS
  <2>2. 0..(j - 1) \subseteq 0..(i - 1)
    BY <1>4
  <2>3. j \in 0..(i - 1) /\ j \notin 0..(j - 1)
    BY <1>4
  <2> QED
    BY <1>2, <1>3, <2>1, <2>2, <2>3 DEF StrictSubsetOrdering
<1>5. \A j \in S : i <= j
  <2> SUFFICES ASSUME NEW j \in S, ~(i <= j) PROVE FALSE
    OBVIOUS
  <2>1. i \in Nat /\ j \in Nat
    OBVIOUS
  <2>2. j < i
    BY ONLY <2>1, ~(i <= j)
  <2> QED
    BY <1>4, <2>2
<1> QED
  BY <1>5

LEMMA Modulo ==
    ASSUME NEW n \in Nat \ {0}, NEW x \in Nat
    PROVE  /\ x % n \in 0..(n - 1)
           /\ x < n => x % n = x
           /\ x < n => (x + n) % n = x
OBVIOUS

LEMMA ProbeTypes ==
    ASSUME NEW hash \in Nat, NEW base \in Nat, NEW max \in Nat, NEW i \in 0..(Span(base, max) - 1)
    PROVE  Probe(hash, base, max, i) \in PortRange(base, max)
<1>1. max >= base /\ Span(base, max) = (max - base) + 1
  BY DEF Span
<1> DEFINE n == Span(base, max)
           h == hash % n
<1>2. n \in Nat \ {0}
  BY <1>1
<1> HIDE DEF n
<1>3. h \in 0..(n - 1)
  BY <1>2, Modulo
<1> HIDE DEF h
<1>4. h + i \in Nat
  BY <1>2, <1>3 DEF n
<1>5. (h + i) % n \in 0..(n - 1)
  BY <1>2, <1>4, Modulo
<1>6. Probe(hash, base, max, i) = base + ((h + i) % n)
  BY DEF Probe, h, n
<1> QED
  BY <1>1, <1>5, <1>6 DEF PortRange, n

\* The probe visits every port of the range.
LEMMA ProbeReaches ==
    ASSUME NEW hash \in Nat, NEW base \in Nat, NEW max \in Nat, NEW p \in PortRange(base, max)
    PROVE  \E i \in 0..(Span(base, max) - 1) : Probe(hash, base, max, i) = p
<1>1. max >= base /\ Span(base, max) = (max - base) + 1
  BY DEF Span, PortRange
<1> DEFINE n == Span(base, max)
           h == hash % n
           d == p - base
           i == IF d >= h THEN d - h ELSE (d - h) + n
<1>2. n \in Nat \ {0} /\ d \in 0..(n - 1)
  BY <1>1 DEF PortRange
<1>3. Probe(hash, base, max, i) = base + ((h + i) % n)
  BY DEF Probe
<1> HIDE DEF n, d
<1>4. h \in 0..(n - 1)
  BY <1>2, Modulo
<1> HIDE DEF h
<1>5. i \in 0..(n - 1) /\ (h + i = d \/ h + i = d + n)
  BY <1>2, <1>4
<1> HIDE DEF i
<1>6. d % n = d /\ (d + n) % n = d
  <2>1. d \in Nat /\ d < n
    BY <1>2
  <2> QED
    BY <1>2, <2>1, Modulo
<1>7. base + d = p
  BY DEF d, PortRange
<1>8. Probe(hash, base, max, i) = p
  BY <1>3, <1>5, <1>6, <1>7
<1> QED
  BY <1>5, <1>8 DEF n

\* _ensure_published_port returns a port of the range that no other service has
\* on record, the first on its way, and none only if there is none.
THEOREM FreePortIsFound ==
    ASSUME NEW hash \in Nat, NEW base \in Nat, NEW max \in Nat, NEW used
    PROVE  LET p == NextPort(hash, used, base, max) IN
           /\ p = NoPort <=> PortRange(base, max) \subseteq used
           /\ p # NoPort => p \in PortRange(base, max) \ used
<1> DEFINE F == FreeOffsets(hash, used, base, max)
<1>1. F \in SUBSET Nat
  BY DEF FreeOffsets
<1>2. CASE F = {}
  <2>1. \A p \in PortRange(base, max) : p \in used
    BY <1>2, ProbeReaches DEF FreeOffsets
  <2> QED
    BY <1>2, <2>1 DEF NextPort
<1>3. CASE F # {}
  <2> DEFINE i == FirstOffset(F)
             p == Probe(hash, base, max, i)
  <2>1. i \in F
    BY <1>1, <1>3, LeastNatural DEF FirstOffset
  <2>2. i \in 0..(Span(base, max) - 1) /\ p \notin used
    BY <2>1 DEF FreeOffsets
  <2>3. p \in PortRange(base, max)
    BY <2>2, ProbeTypes
  <2>4. p # NoPort
    BY <2>3, PortsAssumption DEF PortRange
  <2>5. NextPort(hash, used, base, max) = p
    BY <1>3 DEF NextPort
  <2> HIDE DEF p
  <2> QED
    BY <2>2, <2>3, <2>4, <2>5
<1> QED
  BY <1>2, <1>3

-----------------------------------------------------------------------------
(* The invariant *)

LEMMA InitiallyOK == Init => PlacementInv
<1> SUFFICES ASSUME Init PROVE PlacementInv
  OBVIOUS
<1>1. TypeOK
  <2>1. port \in [Services -> PortOrNone]
    BY PlacementAssumption DEF Init, PortOrNone
  <2>2. NoCall \in Call
    BY DEF NoCall, Call, PortOrNone
  <2> QED
    BY <2>1, <2>2 DEF Init, TypeOK
<1> QED
  BY <1>1 DEF Init, PlacementInv, CallsOK, ContainersOK, PlacedOK, Quiet, Named, Up, Saving, NoCall

LEMMA RequestOK ==
    ASSUME PlacementInv, NEW s \in Services, Request(s)
    PROVE  PlacementInv'
BY DEF Request, PlacementInv, TypeOK, CallsOK, ContainersOK, PlacedOK, Quiet, Named, Up, Saving

\* What is sent is sent to a node.
LEMMA ChosenIsNode ==
    ASSUME NEW s \in Services, NEW S \in SUBSET Nodes, NEW nodes \in [S -> States],
           ChooseNodeLeastLoad(MinimumOf[s], nodes) # NoNode
    PROVE  ChooseNodeLeastLoad(MinimumOf[s], nodes) \in Nodes
<1>1. Schedulables(nodes)
  BY PlacementAssumption DEF Schedulables
<1> QED
  BY <1>1, LeastLoadIsChosen

LEMMA SendToOK ==
    ASSUME PlacementInv, NEW s \in Services, NEW n \in Nodes, SendTo(s, n),
           wanted[s] = "queued" \/ wanted[s] = "up", wanted' = [wanted EXCEPT ![s] = "queued"], Quiet(s),
           UNCHANGED <<port, home, record, container, happened>>
    PROVE  PlacementInv'
<1>1. TypeOK'
  BY DEF SendTo, PlacementInv, TypeOK, Call, PortOrNone
<1>2. CallsOK' /\ ContainersOK' /\ PlacedOK'
  BY DEF SendTo, PlacementInv, TypeOK, CallsOK, ContainersOK, PlacedOK, Quiet, Named, Up, Saving
<1> QED
  BY <1>1, <1>2 DEF PlacementInv

LEMMA SchedulesOK ==
    ASSUME PlacementInv, NEW s \in Services, Schedules(s)
    PROVE  PlacementInv'
<1>1. PICK nodes \in [Nodes -> States] :
          /\ ChooseNodeLeastLoad(MinimumOf[s], nodes) # NoNode
          /\ SendTo(s, ChooseNodeLeastLoad(MinimumOf[s], nodes))
  BY DEF Schedules
<1>2. ChooseNodeLeastLoad(MinimumOf[s], nodes) \in Nodes
  BY <1>1, ChosenIsNode
<1>3. wanted' = [wanted EXCEPT ![s] = "queued"]
  BY DEF Schedules, PlacementInv, TypeOK
<1> QED
  BY <1>1, <1>2, <1>3, SendToOK DEF Schedules

LEMMA EvacuatesOK ==
    ASSUME PlacementInv, NEW s \in Services, Evacuates(s)
    PROVE  PlacementInv'
<1>1. PICK nodes \in [Nodes \ {home[s]} -> States] :
          LET n == ChooseNodeLeastLoad(MinimumOf[s], nodes)
          IN  IF n = NoNode THEN UNCHANGED call ELSE SendTo(s, n)
  BY DEF Evacuates
<1>2. CASE ChooseNodeLeastLoad(MinimumOf[s], nodes) = NoNode
  BY <1>1, <1>2
  DEF Evacuates, PlacementInv, TypeOK, CallsOK, ContainersOK, PlacedOK, Quiet, Named, Up, Saving
<1>3. CASE ChooseNodeLeastLoad(MinimumOf[s], nodes) # NoNode
  <2>1. ChooseNodeLeastLoad(MinimumOf[s], nodes) \in Nodes
    BY <1>3, ChosenIsNode
  <2> QED
    BY <1>1, <1>3, <2>1, SendToOK DEF Evacuates
<1> QED
  BY <1>2, <1>3

\* A command that is refused leaves its service queued.
LEMMA RefusedOK ==
    ASSUME PlacementInv, NEW s \in Services, Refused(s), call[s].at # "save",
           UNCHANGED <<port, record, container, happened>>
    PROVE  PlacementInv'
<1>1. TypeOK'
  BY DEF Refused, Ends, NoCall, PlacementInv, TypeOK, Call, PortOrNone
<1>2. CallsOK' /\ ContainersOK' /\ PlacedOK'
  BY DEF Refused, Ends, NoCall, PlacementInv, TypeOK, CallsOK, ContainersOK, PlacedOK, Quiet, Named, Up, Saving
<1> QED
  BY <1>1, <1>2 DEF Refused, PlacementInv

LEMMA CallMoves ==
    ASSUME PlacementInv, NEW s \in Services, NEW a \in {"run", "save"}, NEW p \in PortOrNone,
           call' = [call EXCEPT ![s].at = a, ![s].port = p]
    PROVE  /\ call' \in [Services -> Call]
           /\ call'[s].at = a /\ call'[s].port = p /\ call'[s].node = call[s].node
           /\ \A t \in Services \ {s} : call'[t] = call[t]
<1>1. call \in [Services -> Call]
  BY DEF PlacementInv, TypeOK
<1>2. PICK c \in Call : c.at = a /\ c.port = p /\ c.node = call[s].node /\ call' = [call EXCEPT ![s] = c]
  <2> DEFINE c == [at |-> a, node |-> call[s].node, port |-> p]
  <2>1. c \in Call
    BY <1>1 DEF Call
  <2>2. call' = [call EXCEPT ![s] = c]
    <3>1. call' = [call EXCEPT ![s] = [[call[s] EXCEPT !.at = a] EXCEPT !.port = p]]
      BY <1>1
    <3>2. ASSUME NEW r \in Call
          PROVE  [[r EXCEPT !.at = a] EXCEPT !.port = p] = [at |-> a, node |-> r.node, port |-> p]
      <4> DEFINE d == [[r EXCEPT !.at = a] EXCEPT !.port = p]
                 e == [at |-> a, node |-> r.node, port |-> p]
      <4>1. d \in Call /\ d.at = a /\ d.node = r.node /\ d.port = p
        BY DEF Call
      <4>2. e \in Call /\ e.at = a /\ e.node = r.node /\ e.port = p
        BY DEF Call
      <4> HIDE DEF d, e
      <4>3. d = e
        BY <4>1, <4>2 DEF Call
      <4> QED
        BY <4>3 DEF d, e
    <3> QED
      BY <1>1, <3>1, <3>2
  <2> QED
    BY <2>1, <2>2
<1> QED
  BY <1>1, <1>2

LEMMA ChoosesOK ==
    ASSUME PlacementInv, NEW s \in Services, Chooses(s)
    PROVE  PlacementInv'
<1> DEFINE n == call[s].node
           p == PortFor(n, s)
<1>1. n \in Nodes /\ call[s].at = "choose"
  BY DEF Chooses, PlacementInv, CallsOK, Quiet
<1>2. p \in Explicit[s] \cup PortRange(PortBase[n], PortMax[n]) \cup {NoPort}
  BY <1>1, PlacementAssumption, FreePortIsFound DEF PortFor, PlacementInv
<1>3. CASE p = NoPort
  BY <1>1, <1>3, RefusedOK DEF Chooses
<1>4. CASE p # NoPort
  <2>1. p \in Nat
    BY <1>1, <1>2, <1>4, PlacementAssumption DEF PortRange
  <2>2. call' = [call EXCEPT ![s].at = "run", ![s].port = p] /\ UNCHANGED <<wanted, home>>
    BY <1>4 DEF Chooses
  <2> HIDE DEF p
  <2>3. /\ call' \in [Services -> Call]
        /\ call'[s].at = "run" /\ call'[s].port = p /\ call'[s].node = call[s].node
        /\ \A t \in Services \ {s} : call'[t] = call[t]
    BY <2>1, <2>2, CallMoves DEF PortOrNone
  <2>4. UNCHANGED <<port, record, container, happened>>
    BY DEF Chooses
  <2>5. TypeOK'
    BY <2>2, <2>3, <2>4 DEF PlacementInv, TypeOK
  <2>6. CallsOK'
    BY <1>1, <1>2, <1>4, <2>3, <2>4 DEF PlacementInv, CallsOK, Quiet
  <2>7. ContainersOK'
    BY <1>1, <2>3, <2>4 DEF PlacementInv, ContainersOK, Named, Up, Saving
  <2>8. PlacedOK'
    BY <1>1, <2>2, <2>3, <2>4 DEF PlacementInv, PlacedOK, Quiet, Named
  <2> QED
    BY <2>4, <2>5, <2>6, <2>7, <2>8 DEF PlacementInv
<1> QED
  BY <1>3, <1>4

\* A command whose service is up where it ran.
LEMMA DeployedTypes ==
    ASSUME PlacementInv, NEW s \in Services, Deployed(s), ~Quiet(s)
    PROVE  /\ wanted' \in [Services -> {"off", "queued", "up"}]
           /\ home' \in [Services -> Nodes \cup {NoNode}]
           /\ call' \in [Services -> Call]
BY DEF Deployed, Ends, NoCall, PlacementInv, TypeOK, CallsOK, Call, PortOrNone

LEMMA RunsOK ==
    ASSUME PlacementInv, NEW s \in Services, Runs(s)
    PROVE  PlacementInv'
<1> DEFINE n == call[s].node
           p == call[s].port
           range == Explicit[s] \cup PortRange(PortBase[n], PortMax[n])
           toSave(q) == call' = [call EXCEPT ![s].at = "save", ![s].port = q]
<1>1. n \in Nodes /\ call[s].at = "run" /\ p \in range /\ call[s] \in Call
  BY DEF Runs, PlacementInv, CallsOK, Quiet, TypeOK
<1>2. p \in Nat
  BY <1>1, PlacementAssumption DEF PortRange
<1>3. CASE AlreadyRunning(n, s)
  <2>1. Deployed(s) /\ UNCHANGED <<container, happened, port, record>>
    BY <1>3 DEF Runs
  <2>2. TypeOK'
    BY <1>1, <2>1, DeployedTypes DEF PlacementInv, TypeOK, Quiet
  <2>3. Named(n, s)
    BY <1>3 DEF AlreadyRunning, Named
  <2>4. CallsOK' /\ ContainersOK' /\ PlacedOK'
    BY <1>1, <2>1, <2>3
    DEF Deployed, Ends, NoCall, PlacementInv, TypeOK, CallsOK, ContainersOK, PlacedOK, Quiet, Named, Up, Saving
  <2> QED
    BY <2>1, <2>2, <2>4 DEF PlacementInv
<1>4. CASE ~AlreadyRunning(n, s) /\ Up(n, s)
  <2>1. toSave(KeptPort(n, s)) /\ UNCHANGED <<wanted, home, container, happened, port, record>>
    BY <1>4 DEF Runs
  <2>2. KeptPort(n, s) = container[n][s].port /\ container[n][s] # NoContainer
    BY <1>4 DEF KeptPort, Up
  <2>3. container[n][s].port \in Nat
    BY <1>1, <2>2 DEF PlacementInv, TypeOK, Container
  <2>4. /\ call' \in [Services -> Call]
        /\ call'[s].at = "save" /\ call'[s].port = container[n][s].port /\ call'[s].node = call[s].node
        /\ \A t \in Services \ {s} : call'[t] = call[t]
    BY <2>1, <2>2, <2>3, CallMoves DEF PortOrNone
  <2>5. TypeOK'
    BY <2>1, <2>4 DEF PlacementInv, TypeOK
  <2>6. CallsOK'
    BY <1>1, <2>1, <2>2, <2>4 DEF PlacementInv, CallsOK, Quiet
  <2>7. ContainersOK'
    BY <1>1, <2>1, <2>4 DEF PlacementInv, ContainersOK, Named, Up, Saving
  <2>8. PlacedOK'
    BY <1>1, <2>1, <2>4 DEF PlacementInv, PlacedOK, Quiet, Named
  <2> QED
    BY <2>1, <2>5, <2>6, <2>7, <2>8 DEF PlacementInv
<1>5. ASSUME NEW up \in BOOLEAN, StartsContainer(n, s, p, up), ~Up(n, s)
      PROVE  /\ container' \in [Nodes -> [Services -> Container \cup {NoContainer}]]
             /\ container'[n][s] # NoContainer
             /\ container'[n][s].port = p /\ ~container'[n][s].named /\ (container'[n][s].up <=> up)
             /\ \A m \in Nodes, t \in Services : m # n \/ t # s => container'[m][t] = container[m][t]
             /\ \A m \in Nodes, t \in Services : container'[m][t] # NoContainer =>
                   container'[m][t].port \in Explicit[t] \cup PortRange(PortBase[m], PortMax[m])
  <2> DEFINE c == [up |-> up, port |-> p, named |-> FALSE]
  <2>1. c \in Container /\ c # NoContainer
    <3>1. c \in Container
      BY <1>2, <1>5 DEF Container
    <3> HIDE DEF c
    <3> QED
      BY <3>1, PlacementAssumption
  <2>2. container \in [Nodes -> [Services -> Container \cup {NoContainer}]]
    BY DEF PlacementInv, TypeOK
  <2>3. container' = [container EXCEPT ![n][s] = c]
    BY <1>5 DEF StartsContainer
  <2>4. c.port = p
    OBVIOUS
  <2>7. ~c.named /\ (c.up <=> up)
    OBVIOUS
  <2> HIDE DEF c
  <2>5. /\ container' \in [Nodes -> [Services -> Container \cup {NoContainer}]]
        /\ container'[n][s] = c
        /\ \A m \in Nodes, t \in Services : m # n \/ t # s => container'[m][t] = container[m][t]
    BY <1>1, <2>1, <2>2, <2>3
  <2>6. \A m \in Nodes, t \in Services : container'[m][t] # NoContainer =>
                   container'[m][t].port \in Explicit[t] \cup PortRange(PortBase[m], PortMax[m])
    BY <1>1, <2>4, <2>5 DEF PlacementInv, TypeOK
  <2> QED
    BY <2>1, <2>4, <2>5, <2>6, <2>7
<1>6. CASE ~AlreadyRunning(n, s) /\ ~Up(n, s) /\ Taken(n, s, p)
  <2>1. /\ StartsContainer(n, s, p, FALSE) /\ Refused(s)
        /\ UNCHANGED <<happened, port, record>>
    BY <1>6 DEF Runs
  <2>2. call' \in [Services -> Call]
    BY <2>1 DEF Refused, Ends, NoCall, Call, PortOrNone, PlacementInv, TypeOK
  <2>3. TypeOK'
    BY <1>5, <1>6, <2>1, <2>2 DEF PlacementInv, TypeOK, Refused
  <2>4. wanted[s] # "up"
    BY <1>1 DEF PlacementInv, PlacedOK, Quiet
  <2>5. /\ container'[n][s] # NoContainer /\ ~container'[n][s].up /\ ~container'[n][s].named
        /\ \A m \in Nodes, t \in Services : m # n \/ t # s => container'[m][t] = container[m][t]
    BY <1>5, <1>6, <2>1
  <2>6. call'[s].at = "none" /\ \A t \in Services \ {s} : call'[t] = call[t]
    BY <2>1 DEF Refused, Ends, NoCall, PlacementInv, TypeOK
  <2>7. CallsOK'
    BY <1>1, <2>1, <2>5, <2>6 DEF PlacementInv, CallsOK, Quiet
  <2>8. ContainersOK'
    BY <1>1, <2>1, <2>5, <2>6 DEF PlacementInv, ContainersOK, Named, Up, Saving
  <2>9. PlacedOK'
    BY <1>1, <2>1, <2>4, <2>5, <2>6 DEF Refused, PlacementInv, PlacedOK, Quiet, Named
  <2> QED
    BY <2>1, <2>3, <2>7, <2>8, <2>9 DEF PlacementInv
<1>7. CASE ~AlreadyRunning(n, s) /\ ~Up(n, s) /\ ~Taken(n, s, p)
  <2>1. UNCHANGED <<wanted, home, port, record>>
    BY <1>7 DEF Runs
  <2>2. \/ StartsContainer(n, s, p, TRUE) /\ toSave(p) /\ UNCHANGED happened
        \/ /\ StartsContainer(n, s, p, FALSE) /\ toSave(NoPort)
           /\ happened' # {} /\ happened' \subseteq Faults
    BY <1>7 DEF Runs, PlacementInv, TypeOK
  <2>3. /\ call' \in [Services -> Call]
        /\ call'[s].at = "save" /\ call'[s].node = call[s].node
        /\ \/ call'[s].port = p /\ UNCHANGED happened
           \/ call'[s].port = NoPort /\ happened' # {}
        /\ \A t \in Services \ {s} : call'[t] = call[t]
    <3>1. CASE toSave(p) /\ UNCHANGED happened
      BY <1>2, <3>1, CallMoves DEF PortOrNone
    <3>2. CASE toSave(NoPort) /\ happened' # {}
      BY <3>2, CallMoves DEF PortOrNone
    <3> QED
      BY <2>2, <3>1, <3>2
  <2>4. TypeOK'
    BY <1>5, <1>7, <2>1, <2>2, <2>3 DEF PlacementInv, TypeOK
  <2>5. wanted[s] # "up"
    BY <1>1 DEF PlacementInv, PlacedOK, Quiet
  <2>6. /\ container'[n][s] # NoContainer /\ container'[n][s].port = p /\ ~container'[n][s].named
        /\ \A m \in Nodes, t \in Services : m # n \/ t # s => container'[m][t] = container[m][t]
    BY <1>5, <1>7, <2>2
  <2>7. happened' = {} => happened = {}
    BY <2>2
  <2>8. CallsOK'
    BY <1>1, <2>3, <2>6, <2>7 DEF PlacementInv, CallsOK, Quiet
  <2>9. ContainersOK'
    BY <1>1, <2>1, <2>3, <2>6, <2>7 DEF PlacementInv, ContainersOK, Named, Up, Saving
  <2>10. PlacedOK'
    BY <1>1, <2>1, <2>3, <2>5, <2>6, <2>7 DEF PlacementInv, PlacedOK, Quiet, Named
  <2> QED
    BY <2>1, <2>4, <2>8, <2>9, <2>10 DEF PlacementInv
<1> QED
  BY <1>3, <1>4, <1>6, <1>7

LEMMA SavesOK ==
    ASSUME PlacementInv, NEW s \in Services, Saves(s)
    PROVE  PlacementInv'
<1> DEFINE n == call[s].node
           c == [container[n][s] EXCEPT !.named = TRUE]
           r == [port |-> call[s].port, running |-> TRUE]
<1>1. n \in Nodes /\ call[s].at = "save" /\ call[s].port \in PortOrNone
  BY DEF Saves, PlacementInv, CallsOK, Quiet, TypeOK, Call
<1>2. container[n][s] \in Container /\ container[n][s] # NoContainer
  BY <1>1 DEF PlacementInv, CallsOK, TypeOK
<1>3. /\ c \in Container /\ c # NoContainer
      /\ c.port = container[n][s].port /\ c.up = container[n][s].up /\ c.named
  BY <1>2, PlacementAssumption DEF Container
<1>4. r \in Record /\ r # NoRecord /\ r.port = call[s].port
  <2>1. r \in Record /\ r.port = call[s].port
    BY <1>1 DEF Record
  <2> HIDE DEF r
  <2> QED
    BY <2>1, PlacementAssumption
<1>5. container' = [container EXCEPT ![n][s] = c]
  BY DEF Saves
<1>6. record' = [record EXCEPT ![n][s] = r] /\ Deployed(s) /\ UNCHANGED <<port, happened>>
  BY DEF Saves
<1> HIDE DEF c, r
<1>7. TypeOK'
  <2>1. /\ container' \in [Nodes -> [Services -> Container \cup {NoContainer}]]
        /\ record' \in [Nodes -> [Services -> Record \cup {NoRecord}]]
    BY <1>3, <1>4, <1>5, <1>6 DEF PlacementInv, TypeOK
  <2>2. \A m \in Nodes, t \in Services : container'[m][t] # NoContainer =>
                   container'[m][t].port \in Explicit[t] \cup PortRange(PortBase[m], PortMax[m])
    BY <1>1, <1>2, <1>3, <1>5 DEF PlacementInv, TypeOK
  <2> QED
    BY <1>1, <1>6, <2>1, <2>2, DeployedTypes DEF PlacementInv, TypeOK, Quiet
<1>8. CallsOK' /\ ContainersOK' /\ PlacedOK'
  <2>1. /\ call[s].port \in {NoPort, container[n][s].port}
        /\ happened = {} => call[s].port = container[n][s].port
    BY <1>1 DEF PlacementInv, CallsOK
  <2>2. /\ \A m \in Nodes, t \in Services :
              container'[m][t] = IF m = n /\ t = s THEN c ELSE container[m][t]
        /\ \A m \in Nodes, t \in Services :
              record'[m][t] = IF m = n /\ t = s THEN r ELSE record[m][t]
    BY <1>1, <1>5, <1>6 DEF PlacementInv, TypeOK
  <2>3. CallsOK'
    <3>1. call'[s].at = "none" /\ \A t \in Services \ {s} : call'[t] = call[t]
      BY <1>6 DEF Deployed, Ends, NoCall, PlacementInv, TypeOK
    <3> QED
      BY <1>6, <2>2, <3>1 DEF PlacementInv, CallsOK, Quiet
  <2>4. ContainersOK'
    BY <1>1, <1>3, <1>4, <1>6, <2>1, <2>2
    DEF Deployed, Ends, NoCall, PlacementInv, TypeOK, ContainersOK, Named, Up, Saving
  <2>5. PlacedOK'
    BY <1>1, <1>3, <1>4, <1>6, <2>2
    DEF Deployed, Ends, NoCall, PlacementInv, TypeOK, PlacedOK, Quiet, Named
  <2> QED
    BY <2>3, <2>4, <2>5
<1> QED
  BY <1>6, <1>7, <1>8 DEF PlacementInv

\* A container changes only in whether it is up, a record only in whether it
\* says running, and none comes or goes.
SameButUp(c, d) == /\ d = NoContainer <=> c = NoContainer
                   /\ c # NoContainer => d.port = c.port /\ d.named = c.named
SameButRunning(q, r) == /\ r = NoRecord <=> q = NoRecord
                        /\ q # NoRecord => r.port = q.port

LEMMA SetUp ==
    ASSUME NEW c \in Container, NEW b \in BOOLEAN
    PROVE  /\ [c EXCEPT !.up = b] \in Container
           /\ SameButUp(c, [c EXCEPT !.up = b])
           /\ [c EXCEPT !.up = b].up = b
<1>1. [c EXCEPT !.up = b] \in Container /\ c \in Container
  BY DEF Container
<1> QED
  BY <1>1, PlacementAssumption DEF SameButUp, Container

LEMMA SetRunning ==
    ASSUME NEW r \in Record, NEW b \in BOOLEAN
    PROVE  [r EXCEPT !.running = b] \in Record /\ SameButRunning(r, [r EXCEPT !.running = b])
<1>1. [r EXCEPT !.running = b] \in Record /\ r \in Record
  BY DEF Record
<1> QED
  BY <1>1, PlacementAssumption DEF SameButRunning, Record

\* What starts and stops containers, and what notes it, keeps the invariant: a
\* container that starts is named.
LEMMA UpsAndDownsOK ==
    ASSUME PlacementInv,
           \A n \in Nodes, s \in Services :
              /\ SameButUp(container[n][s], container'[n][s])
              /\ SameButRunning(record[n][s], record'[n][s])
              /\ Up(n, s)' => Up(n, s) \/ Named(n, s),
           container' \in [Nodes -> [Services -> Container \cup {NoContainer}]],
           record' \in [Nodes -> [Services -> Record \cup {NoRecord}]],
           wanted' \in [Services -> {"off", "queued", "up"}],
           home' \in [Services -> Nodes \cup {NoNode}],
           \A s \in Services : wanted'[s] = "up" => wanted[s] = "up" /\ home'[s] = home[s],
           UNCHANGED <<port, call, happened>>
    PROVE  PlacementInv'
<1>1. TypeOK'
  BY DEF PlacementInv, TypeOK, SameButUp
<1>2. CallsOK'
  BY DEF PlacementInv, CallsOK, Quiet, TypeOK, SameButUp
<1>3. ContainersOK'
  <2> SUFFICES ASSUME NEW n \in Nodes, NEW s \in Services
               PROVE  /\ Named(n, s)' /\ record'[n][s] # NoRecord =>
                           record'[n][s].port \in {NoPort, container'[n][s].port}
                      /\ happened = {} =>
                           /\ Named(n, s)' => record'[n][s] # NoRecord
                                              /\ record'[n][s].port = container'[n][s].port
                           /\ Up(n, s)' /\ ~Saving(n, s)' => Named(n, s)'
    BY DEF ContainersOK
  <2>1. Named(n, s)' <=> Named(n, s)
    BY DEF Named, SameButUp
  <2>2. Named(n, s) => container'[n][s].port = container[n][s].port
    BY DEF Named, SameButUp
  <2>3. /\ record'[n][s] = NoRecord <=> record[n][s] = NoRecord
        /\ record[n][s] # NoRecord => record'[n][s].port = record[n][s].port
    BY DEF SameButRunning
  <2>4. Saving(n, s)' <=> Saving(n, s)
    BY DEF Saving
  <2> QED
    BY <2>1, <2>2, <2>3, <2>4 DEF PlacementInv, ContainersOK
<1>4. PlacedOK'
  <2> SUFFICES ASSUME NEW s \in Services, wanted'[s] = "up"
               PROVE  /\ Quiet(s)' /\ home'[s] \in Nodes
                      /\ record'[home'[s]][s] # NoRecord \/ happened = {} => Named(home[s], s)'
    BY DEF PlacedOK
  <2>1. /\ home'[s] = home[s] /\ home[s] \in Nodes /\ Quiet(s)
        /\ record[home[s]][s] # NoRecord \/ happened = {} => Named(home[s], s)
    BY DEF PlacementInv, PlacedOK
  <2>2. Named(home[s], s)' <=> Named(home[s], s)
    BY <2>1 DEF Named, SameButUp
  <2>3. record'[home[s]][s] = NoRecord <=> record[home[s]][s] = NoRecord
    BY <2>1 DEF SameButRunning
  <2> QED
    BY <2>1, <2>2, <2>3 DEF Quiet
<1> QED
  BY <1>1, <1>2, <1>3, <1>4 DEF PlacementInv

LEMMA StopsOK ==
    ASSUME PlacementInv, NEW s \in Services, Stops(s)
    PROVE  PlacementInv'
<1> DEFINE n == home[s]
           c == [container[n][s] EXCEPT !.up = FALSE]
           r == [record[n][s] EXCEPT !.running = FALSE]
<1>1. /\ wanted' = [wanted EXCEPT ![s] = "off"] /\ home' = [home EXCEPT ![s] = NoNode]
      /\ UNCHANGED <<port, call, happened>>
  BY DEF Stops
<1>2. TypeOK
  BY DEF PlacementInv
<1>3. /\ wanted' \in [Services -> {"off", "queued", "up"}]
      /\ home' \in [Services -> Nodes \cup {NoNode}]
      /\ \A t \in Services : wanted'[t] = "up" => wanted[t] = "up" /\ home'[t] = home[t]
  BY <1>1, <1>2 DEF TypeOK
<1>4. CASE n # NoNode /\ record[n][s] # NoRecord
  <2>1. n \in Nodes /\ record[n][s] \in Record
    BY <1>2, <1>4 DEF TypeOK
  <2>2. r \in Record /\ SameButRunning(record[n][s], r) /\ record' = [record EXCEPT ![n][s] = r]
    BY <1>4, <2>1, SetRunning DEF Stops
  <2>3. PICK d \in Container \cup {NoContainer} :
           /\ container' = [container EXCEPT ![n][s] = d]
           /\ SameButUp(container[n][s], d) /\ (d # NoContainer => ~d.up)
    <3>1. CASE container[n][s] = NoContainer
      <4>1. container' = [container EXCEPT ![n][s] = NoContainer]
        BY <1>4, <3>1 DEF Stops
      <4> QED
        BY <3>1, <4>1 DEF SameButUp
    <3>2. CASE container[n][s] # NoContainer
      <4>1. container[n][s] \in Container
        BY <1>2, <2>1, <3>2 DEF TypeOK
      <4>2. container' = [container EXCEPT ![n][s] = c]
        BY <1>4, <3>2 DEF Stops
      <4> QED
        BY <4>1, <4>2, SetUp
    <3> QED
      BY <3>1, <3>2
  <2> HIDE DEF r
  <2>4. /\ container' \in [Nodes -> [Services -> Container \cup {NoContainer}]]
        /\ record' \in [Nodes -> [Services -> Record \cup {NoRecord}]]
    BY <1>2, <2>1, <2>2, <2>3 DEF TypeOK
  <2>5. \A m \in Nodes, t \in Services :
           /\ SameButUp(container[m][t], container'[m][t])
           /\ SameButRunning(record[m][t], record'[m][t])
           /\ Up(m, t)' => Up(m, t) \/ Named(m, t)
    BY <1>2, <2>1, <2>2, <2>3 DEF TypeOK, SameButUp, SameButRunning, Up
  <2> QED
    BY <1>1, <1>3, <2>4, <2>5, UpsAndDownsOK
<1>5. CASE ~(n # NoNode /\ record[n][s] # NoRecord)
  <2>1. UNCHANGED <<record, container>>
    BY <1>5 DEF Stops
  <2> QED
    BY <1>1, <1>2, <1>3, <2>1, UpsAndDownsOK DEF SameButUp, SameButRunning, Up, TypeOK
<1> QED
  BY <1>4, <1>5

LEMMA RestartsOK ==
    ASSUME PlacementInv, NEW s \in Services, Restarts(s)
    PROVE  PlacementInv'
<1> DEFINE n == home[s]
           c == [container[n][s] EXCEPT !.up = TRUE]
           r == [record[n][s] EXCEPT !.running = TRUE]
           kept == record[n][s] # NoRecord /\ container[n][s] # NoContainer /\ ~Taken(n, s, container[n][s].port)
<1>1. TypeOK /\ n \in Nodes /\ (record[n][s] # NoRecord => Named(n, s))
  BY DEF Restarts, PlacementInv, PlacedOK
<1>2. UNCHANGED <<port, home, call, happened>>
  BY DEF Restarts
<1>3. CASE kept
  <2>1. /\ container' = [container EXCEPT ![n][s] = c] /\ record' = [record EXCEPT ![n][s] = r]
        /\ UNCHANGED wanted
    BY <1>3 DEF Restarts
  <2>2. container[n][s] \in Container /\ record[n][s] \in Record /\ Named(n, s)
    BY <1>1, <1>3 DEF TypeOK
  <2>3. c \in Container /\ SameButUp(container[n][s], c)
    BY <2>2, SetUp
  <2>4. r \in Record /\ SameButRunning(record[n][s], r)
    BY <2>2, SetRunning
  <2> HIDE DEF c, r, kept
  <2>5. /\ container' \in [Nodes -> [Services -> Container \cup {NoContainer}]]
        /\ record' \in [Nodes -> [Services -> Record \cup {NoRecord}]]
    BY <1>1, <2>1, <2>3, <2>4 DEF TypeOK
  <2>6. \A m \in Nodes, t \in Services :
           /\ SameButUp(container[m][t], container'[m][t])
           /\ SameButRunning(record[m][t], record'[m][t])
           /\ Up(m, t)' => Up(m, t) \/ Named(m, t)
    BY <1>1, <2>1, <2>2, <2>3, <2>4 DEF TypeOK, SameButUp, SameButRunning, Up
  <2> QED
    BY <1>1, <1>2, <2>1, <2>5, <2>6, UpsAndDownsOK DEF TypeOK
<1>4. CASE ~kept
  <2>1. wanted' = [wanted EXCEPT ![s] = "queued"] /\ UNCHANGED <<container, record>>
    BY <1>4 DEF Restarts
  <2> QED
    BY <1>1, <1>2, <2>1, UpsAndDownsOK DEF SameButUp, SameButRunning, Up, TypeOK
<1> QED
  BY <1>3, <1>4

LEMMA ExitsOK ==
    ASSUME PlacementInv, NEW n \in Nodes, NEW s \in Services, Exits(n, s)
    PROVE  PlacementInv'
<1> DEFINE c == [container[n][s] EXCEPT !.up = FALSE]
<1>1. /\ container' = [container EXCEPT ![n][s] = c]
      /\ UNCHANGED <<wanted, port, home, call, record, happened>>
  BY DEF Exits
<1>2. container[n][s] \in Container /\ TypeOK
  BY DEF Exits, Up, PlacementInv, TypeOK
<1>3. c \in Container /\ SameButUp(container[n][s], c) /\ ~c.up
  BY <1>2, SetUp
<1> HIDE DEF c
<1>4. container' \in [Nodes -> [Services -> Container \cup {NoContainer}]]
  BY <1>1, <1>2, <1>3 DEF TypeOK
<1>5. \A m \in Nodes, t \in Services :
         /\ SameButUp(container[m][t], container'[m][t])
         /\ SameButRunning(record[m][t], record'[m][t])
         /\ Up(m, t)' => Up(m, t) \/ Named(m, t)
  BY <1>1, <1>2, <1>3 DEF TypeOK, SameButUp, SameButRunning, Up
<1> QED
  BY <1>1, <1>2, <1>4, <1>5, UpsAndDownsOK DEF TypeOK

LEMMA UnhealthyOK ==
    ASSUME PlacementInv, NEW n \in Nodes, NEW s \in Services, Unhealthy(n, s)
    PROVE  PlacementInv'
<1> DEFINE r == [record[n][s] EXCEPT !.running = FALSE]
<1>1. /\ record' = [record EXCEPT ![n][s] = r]
      /\ UNCHANGED <<wanted, port, home, call, container, happened>>
  BY DEF Unhealthy
<1>2. record[n][s] \in Record /\ TypeOK
  BY DEF Unhealthy, PlacementInv, TypeOK
<1>3. r \in Record /\ SameButRunning(record[n][s], r)
  BY <1>2, SetRunning
<1> HIDE DEF r
<1>4. record' \in [Nodes -> [Services -> Record \cup {NoRecord}]]
  BY <1>1, <1>2, <1>3 DEF TypeOK
<1>5. \A m \in Nodes, t \in Services :
         /\ SameButUp(container[m][t], container'[m][t])
         /\ SameButRunning(record[m][t], record'[m][t])
         /\ Up(m, t)' => Up(m, t) \/ Named(m, t)
  BY <1>1, <1>2, <1>3 DEF TypeOK, SameButUp, SameButRunning, Up
<1> QED
  BY <1>1, <1>2, <1>4, <1>5, UpsAndDownsOK DEF TypeOK

\* With the records go the claims about them.
LEMMA AgentRestartsOK ==
    ASSUME PlacementInv, NEW n \in Nodes, AgentRestarts(n)
    PROVE  PlacementInv'
<1>1. /\ record' = [record EXCEPT ![n] = [s \in Services |-> NoRecord]]
      /\ call' = [s \in Services |-> IF call[s].node = n THEN NoCall ELSE call[s]]
      /\ happened' # {} /\ happened' \subseteq Faults
      /\ UNCHANGED <<wanted, port, home, container>>
  BY DEF AgentRestarts, PlacementInv, TypeOK
<1>2. TypeOK
  BY DEF PlacementInv
<1>3. TypeOK'
  <2>1. NoCall \in Call
    BY DEF NoCall, Call, PortOrNone
  <2>2. record' \in [Nodes -> [Services -> Record \cup {NoRecord}]]
    BY <1>1, <1>2 DEF TypeOK
  <2> QED
    BY <1>1, <1>2, <2>1, <2>2 DEF TypeOK
<1>4. \A m \in Nodes, t \in Services : record'[m][t] = IF m = n THEN NoRecord ELSE record[m][t]
  BY <1>1, <1>2 DEF TypeOK
<1>5. CallsOK'
  BY <1>1 DEF PlacementInv, CallsOK, Quiet, NoCall
<1>6. ContainersOK'
  BY <1>1, <1>4 DEF PlacementInv, ContainersOK, Named
<1>7. PlacedOK'
  BY <1>1, <1>4 DEF PlacementInv, PlacedOK, Quiet, Named, NoCall
<1> QED
  BY <1>1, <1>3, <1>5, <1>6, <1>7 DEF PlacementInv

LEMMA NextOK == PlacementInv /\ [Next]_vars => PlacementInv'
<1> SUFFICES ASSUME PlacementInv, [Next]_vars PROVE PlacementInv'
  OBVIOUS
<1>1. ASSUME NEW s \in Services, Request(s) PROVE PlacementInv'
  BY <1>1, RequestOK
<1>2. ASSUME NEW s \in Services, Schedules(s) PROVE PlacementInv'
  BY <1>2, SchedulesOK
<1>3. ASSUME NEW s \in Services, Chooses(s) PROVE PlacementInv'
  BY <1>3, ChoosesOK
<1>4. ASSUME NEW s \in Services, Runs(s) PROVE PlacementInv'
  BY <1>4, RunsOK
<1>5. ASSUME NEW s \in Services, Saves(s) PROVE PlacementInv'
  BY <1>5, SavesOK
<1>6. ASSUME NEW s \in Services, Evacuates(s) PROVE PlacementInv'
  BY <1>6, EvacuatesOK
<1>7. ASSUME NEW s \in Services, Stops(s) PROVE PlacementInv'
  BY <1>7, StopsOK
<1>8. ASSUME NEW s \in Services, Restarts(s) PROVE PlacementInv'
  BY <1>8, RestartsOK
<1>9. ASSUME NEW n \in Nodes, AgentRestarts(n) PROVE PlacementInv'
  BY <1>9, AgentRestartsOK
<1>10. ASSUME NEW n \in Nodes, NEW s \in Services, Exits(n, s) \/ Unhealthy(n, s) PROVE PlacementInv'
  BY <1>10, ExitsOK, UnhealthyOK
<1>11. CASE UNCHANGED vars
  BY <1>11 DEF vars, PlacementInv, TypeOK, CallsOK, ContainersOK, PlacedOK, Quiet, Named, Up, Saving
<1> QED
  BY <1>1, <1>2, <1>3, <1>4, <1>5, <1>6, <1>7, <1>8, <1>9, <1>10, <1>11 DEF Next

(***************************************************************************)
(* PlacementInv holds of every number of services, nodes and ports,        *)
(* whatever exits, and whenever an agent restarts.                         *)
(***************************************************************************)
THEOREM PlacementInvariant == Spec => []PlacementInv
<1> QED
  BY InitiallyOK, NextOK, PTL DEF Spec

\* The records have their types, and a container is published in the range of
\* its node or on a port that its service may ask for.
THEOREM PlacementTypeCorrect == Spec => []TypeOK
<1>1. PlacementInv => TypeOK
  BY DEF PlacementInv
<1> QED
  BY <1>1, PlacementInvariant, PTL

\* The ingress routes to a port on which the container is published.
THEOREM RoutesToPublishedPort == Spec => []RoutedPortIsPublished
<1>1. PlacementInv => RoutedPortIsPublished
  BY DEF PlacementInv, ContainersOK, PlacedOK, RoutedPortIsPublished
<1> QED
  BY <1>1, PlacementInvariant, PTL

\* Without a fault the agent knows every port that a container holds.
THEOREM AgentKnowsHeldPorts == Spec => []HeldPortIsRecorded
<1>1. PlacementInv => HeldPortIsRecorded
  BY DEF PlacementInv, ContainersOK, HeldPortIsRecorded
<1> QED
  BY <1>1, PlacementInvariant, PTL

=============================================================================

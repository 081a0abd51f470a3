----------------------------- MODULE AgentProofs -----------------------------
(***************************************************************************)
(* The safety properties of Agent, for every value of the constants and    *)
(* all faults: records and containers agree as long as commands do not     *)
(* overlap and the agent does not die.                                     *)
(***************************************************************************)
EXTENDS Agent, FiniteSetTheorems, TLAPS

-----------------------------------------------------------------------------
(* Counting the deployments that may still take a container id *)

LEMMA Replaced ==
    ASSUME NEW S, IsFiniteSet(S), NEW c \in S, NEW d, NEW T, T \subseteq (S \ {c}) \cup {d}
    PROVE  /\ IsFiniteSet(T)
           /\ Cardinality(T) \in Nat /\ Cardinality(S) \in Nat
           /\ Cardinality(T) <= Cardinality(S)
<1> DEFINE R == S \ {c}
<1>1. IsFiniteSet(R) /\ Cardinality(R) = Cardinality(S) - 1
  BY FS_RemoveElement
<1>2. /\ IsFiniteSet(R \cup {d})
      /\ Cardinality(R \cup {d}) = Cardinality(R) \/ Cardinality(R \cup {d}) = Cardinality(R) + 1
  BY <1>1, FS_AddElement
<1>3. IsFiniteSet(T) /\ Cardinality(T) <= Cardinality(R \cup {d})
  BY <1>2, FS_Subset
<1>4. /\ Cardinality(R) \in Nat /\ Cardinality(S) \in Nat /\ Cardinality(T) \in Nat
      /\ Cardinality(R \cup {d}) \in Nat
  BY <1>1, <1>2, <1>3, FS_CardinalityType
<1> QED
  BY <1>1, <1>2, <1>3, <1>4

LEMMA Removed ==
    ASSUME NEW S, IsFiniteSet(S), NEW c \in S, NEW T, T \subseteq S \ {c}
    PROVE  /\ Cardinality(T) \in Nat /\ Cardinality(S) \in Nat
           /\ Cardinality(T) + 1 <= Cardinality(S)
<1>1. IsFiniteSet(S \ {c}) /\ Cardinality(S \ {c}) = Cardinality(S) - 1
  BY FS_RemoveElement
<1>2. IsFiniteSet(T) /\ Cardinality(T) <= Cardinality(S \ {c})
  BY <1>1, FS_Subset
<1>3. Cardinality(S) \in Nat /\ Cardinality(T) \in Nat /\ Cardinality(S \ {c}) \in Nat
  BY <1>1, <1>2, FS_CardinalityType
<1> QED
  BY <1>1, <1>2, <1>3

LEMMA StartingFinite ==
    ASSUME AgentInv, NEW s \in Services
    PROVE  IsFiniteSet(Starting(s)) /\ Cardinality(Starting(s)) \in Nat /\ lastId[s] \in Nat
<1>1. Starting(s) \subseteq commands
  BY DEF Starting, Under
<1>2. IsFiniteSet(Starting(s))
  BY <1>1, FS_Subset DEF AgentInv, Bounded
<1>3. lastId[s] \in Nat
  BY AgentAssumption DEF AgentInv, TypeOK, Id
<1> QED
  BY <1>2, <1>3, FS_CardinalityType

\* A command that goes on or ends does not add to them.
LEMMA StillBounded ==
    ASSUME AgentInv, NEW c \in commands, NEW d,
           commands' \subseteq (commands \ {c}) \cup {d},
           d.service = c.service, d.op = c.op, c.at = "save" => d.at = "save",
           UNCHANGED lastId
    PROVE  Bounded'
<1>1. IsFiniteSet(commands')
  BY Replaced DEF AgentInv, Bounded
<1>2. ASSUME NEW s \in Services
      PROVE  lastId'[s] + Cardinality(Starting(s)') <= MaxId
  <2>1. CASE c \in Starting(s)
    <3>1. Starting(s)' \subseteq (Starting(s) \ {c}) \cup {d}
      BY DEF Starting, Under
    <3>2. Cardinality(Starting(s)') \in Nat /\ Cardinality(Starting(s)') <= Cardinality(Starting(s))
      BY <2>1, <3>1, StartingFinite, Replaced
    <3> QED
      BY <3>2, StartingFinite, AgentAssumption DEF AgentInv, Bounded
  <2>2. CASE c \notin Starting(s)
    <3>1. Starting(s)' \subseteq Starting(s)
      BY <2>2 DEF Starting, Under
    <3>2. Cardinality(Starting(s)') \in Nat /\ Cardinality(Starting(s)') <= Cardinality(Starting(s))
      BY <3>1, StartingFinite, FS_Subset, FS_CardinalityType
    <3> QED
      BY <3>2, StartingFinite, AgentAssumption DEF AgentInv, Bounded
  <2> QED
    BY <2>1, <2>2
<1> QED
  BY <1>1, <1>2 DEF Bounded

\* One that takes a container id is not counted any more.
LEMMA TakesId ==
    ASSUME AgentInv, NEW c \in commands, c.op = "deploy", c.at = "run", NEW d,
           commands' \subseteq (commands \ {c}) \cup {d}, d.at = "save",
           lastId' = [lastId EXCEPT ![c.service] = @ + 1]
    PROVE  Bounded' /\ lastId' \in [Services -> Id] /\ lastId'[c.service] \in Id
<1>0. c.service \in Services
  BY DEF AgentInv, TypeOK, Command
<1>1. IsFiniteSet(commands')
  BY Replaced DEF AgentInv, Bounded
<1>2. ASSUME NEW s \in Services
      PROVE  lastId'[s] + Cardinality(Starting(s)') <= MaxId /\ lastId'[s] \in Id
  <2>1. CASE s = c.service
    <3>1. Starting(s)' \subseteq Starting(s) \ {c} /\ c \in Starting(s)
      BY <2>1 DEF Starting, Under
    <3>2. Cardinality(Starting(s)') \in Nat /\ Cardinality(Starting(s)') + 1 <= Cardinality(Starting(s))
      BY <3>1, StartingFinite, Removed
    <3>3. lastId'[s] = lastId[s] + 1
      BY <2>1 DEF AgentInv, TypeOK
    <3> QED
      BY <3>2, <3>3, StartingFinite, AgentAssumption DEF AgentInv, Bounded, Id
  <2>2. CASE s # c.service
    <3>1. Starting(s)' \subseteq Starting(s)
      BY <2>2 DEF Starting, Under, AgentInv
    <3>2. Cardinality(Starting(s)') \in Nat /\ Cardinality(Starting(s)') <= Cardinality(Starting(s))
      BY <3>1, StartingFinite, FS_Subset, FS_CardinalityType
    <3>3. lastId'[s] = lastId[s]
      BY <2>2 DEF AgentInv, TypeOK
    <3> QED
      BY <3>2, <3>3, StartingFinite, AgentAssumption DEF AgentInv, Bounded, Id
  <2> QED
    BY <2>1, <2>2
<1>3. lastId' \in [Services -> Id]
  BY <1>2 DEF AgentInv, TypeOK
<1> QED
  BY <1>0, <1>1, <1>2, <1>3 DEF Bounded

-----------------------------------------------------------------------------
(* The commands *)

LEMMA CommandTypes ==
    ASSUME AgentInv, NEW c \in commands
    PROVE  /\ c \in Command
           /\ c.service \in Services
           /\ record[c.service] \in Records
           /\ container[c.service] \in Container
BY DEF AgentInv, TypeOK, Command

LEMMA InitiallyOK == Init => AgentInv
<1> SUFFICES ASSUME Init PROVE AgentInv
  OBVIOUS
<1>1. TypeOK
  <2>1. NoContainer \in Container
    BY AgentAssumption DEF NoContainer, Container, Id, Address
  <2>2. Resting \in Health
    BY DEF Resting, Health
  <2> QED
    BY <2>1, <2>2, AgentAssumption DEF Init, TypeOK, Records, Id
<1>2. Bounded
  <2>1. \A s \in Services : Starting(s) = {}
    BY DEF Init, Starting, Under
  <2> QED
    BY <2>1, FS_EmptySet, AgentAssumption DEF Init, Bounded
<1>3. SeenOK /\ LoopOK /\ OneAtATime /\ SavesTrue /\ UpIsWatched
  BY DEF Init, SeenOK, LoopOK, OneAtATime, SavesTrue, UpIsWatched, Resting, Up, NoContainer
<1> QED
  BY <1>1, <1>2, <1>3 DEF AgentInv

LEMMA SendOK ==
    ASSUME AgentInv, NEW s \in Services, NEW op \in {"deploy", "stop", "restart"}, Send(s, op)
    PROVE  AgentInv'
<1>1. PICK slot \in (1..MaxCommands) \ {c.slot : c \in Under(s)} :
         commands' = commands \cup
            {[service |-> s, slot |-> slot, op |-> op, at |-> "read",
              seen |-> NoRecord, awaited |-> TRUE]}
  BY DEF Send
<1> DEFINE new == [service |-> s, slot |-> slot, op |-> op, at |-> "read",
                   seen |-> NoRecord, awaited |-> TRUE]
<1>2. /\ new \in Command
      /\ new.service = s /\ new.op = op /\ new.at = "read" /\ new.awaited = TRUE
  BY DEF Command, Records
<1>3. commands' = commands \cup {new}
  BY <1>1
<1> HIDE DEF new
<1>4. TypeOK'
  BY <1>2, <1>3 DEF Send, AgentInv, TypeOK
<1>5. Bounded'
  <2>1. IsFiniteSet(commands')
    BY <1>3, FS_AddElement DEF AgentInv, Bounded
  <2>2. ASSUME NEW t \in Services
        PROVE  lastId'[t] + Cardinality(Starting(t)') <= MaxId
    <3>1. CASE t = s /\ op = "deploy"
      <4>1. Starting(t)' = Starting(t) \cup {new}
        BY <1>2, <1>3, <3>1 DEF Starting, Under
      <4>2. Cardinality(Starting(t)') \in Nat /\ Cardinality(Starting(t)') <= Cardinality(Starting(t)) + 1
        <5>1. /\ IsFiniteSet(Starting(t) \cup {new})
              /\ \/ Cardinality(Starting(t) \cup {new}) = Cardinality(Starting(t))
                 \/ Cardinality(Starting(t) \cup {new}) = Cardinality(Starting(t)) + 1
          BY StartingFinite, FS_AddElement
        <5>2. Cardinality(Starting(t)) \in Nat
          BY StartingFinite
        <5> HIDE DEF Starting
        <5> QED
          BY <4>1, <5>1, <5>2
      <4> DEFINE D == {c \in Under(s) : c.op = "deploy"}
      <4>3. lastId[s] + Cardinality(D) < MaxId
        BY <3>1 DEF Send
      <4>4. IsFiniteSet(D)
        <5>1. D \subseteq commands
          BY DEF Under
        <5> QED
          BY <5>1, FS_Subset DEF AgentInv, Bounded
      <4>5. Starting(t) \subseteq D
        BY <3>1 DEF Starting
      <4>6. Cardinality(Starting(t)) <= Cardinality(D) /\ Cardinality(D) \in Nat
        BY <4>4, <4>5, FS_Subset, FS_CardinalityType
      <4>7. lastId' = lastId
        BY DEF Send
      <4> HIDE DEF D
      <4> QED
        BY <3>1, <4>2, <4>3, <4>6, <4>7, StartingFinite, AgentAssumption
    <3>2. CASE ~(t = s /\ op = "deploy")
      <4>1. Starting(t)' = Starting(t)
        BY <1>2, <1>3, <3>2 DEF Starting, Under
      <4> QED
        BY <4>1 DEF Send, AgentInv, Bounded
    <3> QED
      BY <3>1, <3>2
  <2> QED
    BY <2>1, <2>2 DEF Bounded
<1>6. SeenOK' /\ LoopOK' /\ SavesTrue' /\ UpIsWatched'
  BY <1>2, <1>3 DEF Send, AgentInv, SeenOK, LoopOK, SavesTrue, UpIsWatched, Serial, Up, Watched, Under, Starts
<1>7. OneAtATime'
  <2>1. Serial => Under(s) = {}
    BY DEF Send, AgentInv, OneAtATime, Under
  <2> QED
    BY <1>2, <1>3, <2>1 DEF Send, AgentInv, OneAtATime, Serial, Under
<1> QED
  BY <1>4, <1>5, <1>6, <1>7 DEF AgentInv

\* A command that ends or goes on before it writes anything.
LEMMA EndsOK ==
    ASSUME AgentInv, NEW c \in commands, Ends(c), c.at # "save",
           UNCHANGED <<record, container, lastId, health, happened>>
    PROVE  AgentInv'
<1>1. Bounded'
  BY StillBounded DEF Ends
<1>2. TypeOK' /\ SeenOK' /\ LoopOK' /\ OneAtATime' /\ SavesTrue' /\ UpIsWatched'
  BY DEF Ends, AgentInv, TypeOK, SeenOK, LoopOK, OneAtATime, SavesTrue, UpIsWatched,
         Serial, Up, Watched, Under, Starts
<1> QED
  BY <1>1, <1>2 DEF AgentInv

LEMMA ReadsOK ==
    ASSUME AgentInv, NEW c \in commands, Reads(c)
    PROVE  AgentInv'
<1>1. CASE c.op # "deploy" /\ record[c.service] = NoRecord
  BY <1>1, EndsOK DEF Reads
<1>2. CASE ~(c.op # "deploy" /\ record[c.service] = NoRecord)
  <2> DEFINE d == [c EXCEPT !.seen = record[c.service],
                            !.at = IF c.op = "deploy" THEN "inspect" ELSE "run"]
  <2>1. /\ d \in Command
        /\ d.service = c.service /\ d.op = c.op /\ d.awaited = c.awaited
        /\ d.seen = record[c.service]
        /\ d.at = (IF c.op = "deploy" THEN "inspect" ELSE "run")
    BY CommandTypes DEF Command
  <2>2. commands' = (commands \ {c}) \cup {d} /\ c.at = "read"
    BY <1>2 DEF Reads, Forwards
  <2>3. UNCHANGED <<record, container, lastId, health, happened>>
    BY DEF Reads
  <2>4. d.at # "save" /\ (d.op # "deploy" => d.seen \in WorkloadRecord)
    BY <1>2, <2>1, CommandTypes DEF Records
  <2> HIDE DEF d
  <2>5. Bounded'
    BY <2>1, <2>2, <2>3, StillBounded
  <2>6. TypeOK' /\ SeenOK' /\ LoopOK'
    BY <2>1, <2>2, <2>3, <2>4 DEF AgentInv, TypeOK, SeenOK, LoopOK
  <2>7. OneAtATime' /\ SavesTrue' /\ UpIsWatched'
    BY <2>1, <2>2, <2>3, <2>4
    DEF AgentInv, OneAtATime, SavesTrue, UpIsWatched, Serial, Up, Watched, Under, Starts
  <2> QED
    BY <2>5, <2>6, <2>7 DEF AgentInv
<1> QED
  BY <1>1, <1>2

LEMMA DeployInspectsOK ==
    ASSUME AgentInv, NEW c \in commands, DeployInspects(c)
    PROVE  AgentInv'
<1>1. CASE AlreadyRunning(c)
  BY <1>1, EndsOK DEF DeployInspects
<1>2. CASE ~AlreadyRunning(c)
  <2> DEFINE d == [c EXCEPT !.at = "run"]
  <2>1. /\ d \in Command
        /\ d.service = c.service /\ d.op = c.op /\ d.awaited = c.awaited /\ d.at = "run"
    BY CommandTypes DEF Command
  <2>2. commands' = (commands \ {c}) \cup {d} /\ c.at = "inspect" /\ c.op = "deploy"
    BY <1>2 DEF DeployInspects, Forwards
  <2>3. UNCHANGED <<record, container, lastId, health, happened>>
    BY DEF DeployInspects
  <2> HIDE DEF d
  <2>4. Bounded'
    BY <2>1, <2>2, <2>3, StillBounded
  <2>5. TypeOK' /\ SeenOK' /\ LoopOK'
    BY <2>1, <2>2, <2>3 DEF AgentInv, TypeOK, SeenOK, LoopOK
  <2>6. OneAtATime' /\ SavesTrue' /\ UpIsWatched'
    BY <2>1, <2>2, <2>3
    DEF AgentInv, OneAtATime, SavesTrue, UpIsWatched, Serial, Up, Watched, Under, Starts
  <2> QED
    BY <2>4, <2>5, <2>6 DEF AgentInv
<1> QED
  BY <1>1, <1>2

\* One that is about to write a record, and has left the container as it says.
LEMMA ForwardsToSave ==
    ASSUME AgentInv, NEW c \in commands, c.at = "run", NEW d \in Command, Forwards(c, d),
           d.service = c.service, d.op = c.op, d.awaited = c.awaited, d.at = "save",
           d.seen \in WorkloadRecord, d.op # "stop" => d.seen.status = "running",
           d.op = "stop" => ~Up(c.service)',
           NEW k \in Container, container' = [container EXCEPT ![c.service] = k],
           Bounded', lastId' \in [Services -> Id],
           NEW F \in SUBSET (Faults \ {"timeout", "agent"}), happened' = happened \cup F,
           UNCHANGED <<record, health>>
    PROVE  AgentInv'
<1>1. commands' = (commands \ {c}) \cup {d}
  BY DEF Forwards
<1>2. c.service \in Services /\ (Serial' <=> Serial)
  BY CommandTypes DEF Serial
<1>3. TypeOK' /\ SeenOK' /\ LoopOK'
  BY <1>1, <1>2 DEF AgentInv, TypeOK, SeenOK, LoopOK
<1>4. OneAtATime'
  BY <1>1, <1>2 DEF AgentInv, OneAtATime
<1>5. \A s \in Services : s # c.service => (Up(s)' <=> Up(s)) /\ (Watched(s)' <=> Watched(s))
  BY DEF Up, Watched, AgentInv, TypeOK
<1>6. SavesTrue'
  BY <1>1, <1>2, <1>5, CommandTypes DEF AgentInv, SavesTrue, OneAtATime, Up
<1>7. UpIsWatched'
  <2> SUFFICES ASSUME Serial, NEW s \in Services, Up(s)'
               PROVE  Watched(s)' \/ \E e \in Under(s)' : Starts(e)
    BY <1>2 DEF UpIsWatched, Starts
  <2>1. CASE s = c.service
    BY <1>1, <2>1 DEF Under, Starts
  <2>2. CASE s # c.service
    BY <1>1, <1>5, <2>2 DEF AgentInv, UpIsWatched, Under, Starts
  <2> QED
    BY <2>1, <2>2
<1> QED
  BY <1>3, <1>4, <1>6, <1>7 DEF AgentInv

LEMMA DeployRunsOK ==
    ASSUME AgentInv, NEW c \in commands, DeployRuns(c)
    PROVE  AgentInv'
<1> DEFINE s == c.service
           d == [c EXCEPT !.at = "save",
                    !.seen = [status  |-> "running",
                              id      |-> container'[s].id,
                              address |-> container'[s].address]]
<1>1. /\ c.op = "deploy" /\ c.at = "run" /\ s \in Services
      /\ container \in [Services -> Container]
      /\ Forwards(c, d) /\ UNCHANGED <<record, health>>
  BY CommandTypes DEF DeployRuns, AgentInv, TypeOK
<1>2. /\ d.service = c.service /\ d.op = c.op /\ d.awaited = c.awaited /\ d.at = "save"
      /\ d.seen = [status  |-> "running", id |-> container'[s].id, address |-> container'[s].address]
      /\ container'[s] \in Container => d \in Command /\ d.seen \in WorkloadRecord
  BY CommandTypes DEF Command, Container, WorkloadRecord, Records
<1>3. /\ commands' = (commands \ {c}) \cup {d}
      /\ happened' = happened \cup {f \in {"early"} : container'[s].address = NoAddress}
  BY <1>1 DEF DeployRuns, Forwards
<1> DEFINE F == {f \in {"early"} : container'[s].address = NoAddress}
<1>4. CASE Up(s)
  <2>1. container' = container /\ lastId' = lastId
    BY <1>4 DEF DeployRuns
  <2>2. /\ container' = [container EXCEPT ![s] = container[s]]
        /\ container[s] \in Container
    BY <1>1, <2>1
  <2>3. Bounded' /\ lastId' \in [Services -> Id]
    <3> HIDE DEF d
    <3> QED
      BY <1>1, <1>2, <1>3, <2>1, StillBounded DEF AgentInv, TypeOK
  <2>4. F \in SUBSET (Faults \ {"timeout", "agent"})
    BY <1>4, <2>1 DEF Up
  <2>5. d \in Command /\ d.seen \in WorkloadRecord /\ d.seen.status = "running"
    BY <1>2, <2>1, <2>2
  <2> HIDE DEF d, F
  <2>6. happened' = happened \cup F
    BY <1>3 DEF F
  <2> QED
    BY <1>1, <1>2, <2>2, <2>3, <2>4, <2>5, <2>6, ForwardsToSave
<1>5. CASE ~Up(s)
  <2>1. PICK a \in Free \cup {b \in {NoAddress} : "early" \in Faults} :
          /\ lastId' = [lastId EXCEPT ![s] = @ + 1]
          /\ container' = [container EXCEPT ![s] = [id |-> lastId'[s], address |-> a]]
    BY <1>5 DEF DeployRuns
  <2>2. Bounded' /\ lastId' \in [Services -> Id] /\ lastId'[s] \in Id
    <3> HIDE DEF d
    <3> QED
      BY <1>1, <1>2, <1>3, <2>1, TakesId
  <2> DEFINE k == [id |-> lastId'[s], address |-> a]
  <2>3. k \in Container
    BY <2>1, <2>2 DEF Container, Address, Free
  <2>4. container' = [container EXCEPT ![s] = k] /\ container'[s] = k
    BY <1>1, <2>1
  <2>5. F \in SUBSET (Faults \ {"timeout", "agent"})
    <3>1. container'[s].address = a
      BY <2>4
    <3>2. a = NoAddress => "early" \in Faults
      BY NoneAssumption DEF Free
    <3> QED
      BY <3>1, <3>2
  <2>6. d \in Command /\ d.seen \in WorkloadRecord /\ d.seen.status = "running"
    BY <1>2, <2>3, <2>4
  <2> HIDE DEF d, F, k
  <2>7. happened' = happened \cup F
    BY <1>3 DEF F
  <2> QED
    BY <1>1, <1>2, <2>2, <2>3, <2>4, <2>5, <2>6, <2>7, ForwardsToSave
<1> QED
  BY <1>4, <1>5

LEMMA StopRunsOK ==
    ASSUME AgentInv, NEW c \in commands, StopRuns(c)
    PROVE  AgentInv'
<1> DEFINE s == c.service
           d == [c EXCEPT !.at = "save", !.seen.status = "stopped"]
           k == [container[s] EXCEPT !.address = NoAddress]
<1>1. c.op = "stop" /\ c.at = "run" /\ s \in Services /\ c.seen \in WorkloadRecord
  BY CommandTypes DEF StopRuns, AgentInv, SeenOK
<1>2. /\ d \in Command
      /\ d.service = c.service /\ d.op = c.op /\ d.awaited = c.awaited /\ d.at = "save"
      /\ d.seen \in WorkloadRecord
  BY <1>1, CommandTypes DEF Command, WorkloadRecord, Records
<1>3. k \in Container /\ container' = [container EXCEPT ![s] = k] /\ ~Up(s)'
  BY <1>1, CommandTypes DEF StopRuns, Container, Address, AgentInv, TypeOK, Up
<1>4. Forwards(c, d) /\ UNCHANGED <<record, lastId, health, happened>>
  BY DEF StopRuns
<1> HIDE DEF d, k
<1>5. Bounded' /\ lastId' \in [Services -> Id]
  BY <1>2, <1>4, StillBounded DEF AgentInv, TypeOK, Forwards
<1>6. happened' = happened \cup {}
  BY <1>4
<1> QED
  BY <1>1, <1>2, <1>3, <1>4, <1>5, <1>6, ForwardsToSave

LEMMA RestartRunsOK ==
    ASSUME AgentInv, NEW c \in commands, RestartRuns(c)
    PROVE  AgentInv'
<1>1. CASE container[c.service].id = 0
  <2>1. c.at # "save" /\ Ends(c) /\ UNCHANGED <<record, container, lastId, health, happened>>
    BY <1>1 DEF RestartRuns
  <2> QED
    BY <2>1, EndsOK
<1>2. CASE container[c.service].id # 0
  <2> DEFINE s == c.service
             d == [c EXCEPT !.at = "save", !.seen.status = "running"]
  <2>1. c.op = "restart" /\ c.at = "run" /\ s \in Services /\ c.seen \in WorkloadRecord
    BY CommandTypes DEF RestartRuns, AgentInv, SeenOK
  <2>2. /\ d \in Command
        /\ d.service = c.service /\ d.op = c.op /\ d.awaited = c.awaited /\ d.at = "save"
        /\ d.seen \in WorkloadRecord /\ d.seen.status = "running"
    BY <2>1, CommandTypes DEF Command, WorkloadRecord, Records
  <2>3. PICK a \in Free \cup ({container[s].address} \ {NoAddress}) :
           container' = [container EXCEPT ![s].address = a]
    BY <1>2 DEF RestartRuns
  <2> DEFINE k == [container[s] EXCEPT !.address = a]
  <2>4. k \in Container /\ container' = [container EXCEPT ![s] = k]
    BY <2>1, <2>3, CommandTypes DEF Container, Address, Free
  <2>5. Forwards(c, d) /\ UNCHANGED <<record, lastId, health, happened>>
    BY <1>2 DEF RestartRuns
  <2> HIDE DEF d, k
  <2>6. Bounded' /\ lastId' \in [Services -> Id]
    BY <2>2, <2>5, StillBounded DEF AgentInv, TypeOK, Forwards
  <2>7. happened' = happened \cup {}
    BY <2>5
  <2> QED
    BY <2>1, <2>2, <2>4, <2>5, <2>6, <2>7, ForwardsToSave
<1> QED
  BY <1>1, <1>2

LEMMA SavesOK ==
    ASSUME AgentInv, NEW c \in commands, Saves(c)
    PROVE  AgentInv'
<1>1. /\ c.at = "save" /\ c.service \in Services /\ c.seen \in WorkloadRecord
      /\ record' = [record EXCEPT ![c.service] = c.seen]
      /\ commands' = commands \ {c}
      /\ UNCHANGED <<container, lastId, health, happened>>
  BY CommandTypes DEF Saves, Ends, AgentInv, SeenOK
<1>2. Bounded'
  BY <1>1, StillBounded
<1>3. TypeOK' /\ SeenOK' /\ LoopOK' /\ OneAtATime' /\ SavesTrue'
  BY <1>1 DEF AgentInv, TypeOK, Records, SeenOK, LoopOK, OneAtATime, SavesTrue, Serial, Up
<1>4. UpIsWatched'
  <2> SUFFICES ASSUME Serial, NEW s \in Services, Up(s)
               PROVE  Watched(s)' \/ \E e \in Under(s)' : Starts(e)
    BY <1>1 DEF UpIsWatched, Serial, Up, Starts
  <2>1. CASE s = c.service
    <3>1. record'[s] = c.seen
      BY <1>1, <2>1 DEF AgentInv, TypeOK
    <3>2. c.seen.status = "running"
      BY <1>1, <2>1 DEF AgentInv, SavesTrue
    <3> QED
      BY <1>1, <3>1, <3>2, NoneAssumption DEF Watched
  <2>2. CASE s # c.service
    <3>1. record'[s] = record[s]
      BY <1>1, <2>2 DEF AgentInv, TypeOK
    <3>2. Watched(s) \/ \E e \in Under(s) : Starts(e)
      BY DEF AgentInv, UpIsWatched
    <3> QED
      BY <1>1, <2>2, <3>1, <3>2 DEF Watched, Under
  <2> QED
    BY <2>1, <2>2
<1> QED
  BY <1>2, <1>3, <1>4 DEF AgentInv

-----------------------------------------------------------------------------
(* The health loop *)

\* A step of the loop that leaves the records alone.
LEMMA LoopMoves ==
    ASSUME AgentInv, health' \in Health, LoopOK', UNCHANGED <<record, container, lastId, commands, happened>>
    PROVE  AgentInv'
<1>1. TypeOK'
  BY DEF AgentInv, TypeOK
<1>2. Bounded' /\ SeenOK' /\ OneAtATime' /\ SavesTrue' /\ UpIsWatched'
  BY DEF AgentInv, Bounded, Starting, SeenOK, OneAtATime, SavesTrue, UpIsWatched,
         Serial, Up, Watched, Under, Starts
<1> QED
  BY <1>1, <1>2 DEF AgentInv

\* One that writes a record writes one that is watched.
LEMMA LoopWrites ==
    ASSUME AgentInv, NEW s \in Services, NEW r \in WorkloadRecord, r.status # "stopped",
           record' = [record EXCEPT ![s] = r],
           health' \in Health, LoopOK', UNCHANGED <<container, lastId, commands, happened>>
    PROVE  AgentInv'
<1>1. TypeOK'
  BY DEF AgentInv, TypeOK, Records
<1>2. \A t \in Services : Watched(t) => Watched(t)'
  BY NoneAssumption DEF Watched, AgentInv, TypeOK
<1>3. Bounded' /\ SeenOK' /\ OneAtATime' /\ SavesTrue'
  BY DEF AgentInv, Bounded, Starting, SeenOK, OneAtATime, SavesTrue, Serial, Up, Under
<1>4. UpIsWatched'
  BY <1>2 DEF AgentInv, UpIsWatched, Serial, Up, Under, Starts
<1> QED
  BY <1>1, <1>3, <1>4 DEF AgentInv

LEMMA HealthListsOK == ASSUME AgentInv, HealthLists PROVE AgentInv'
<1>1. \A s \in {t \in Services : record[t] # NoRecord} : record[s] \in WorkloadRecord
  BY DEF AgentInv, TypeOK, Records
<1> DEFINE L == {[service |-> s, seen |-> record[s]] : s \in {t \in Services : record[t] # NoRecord}}
<1>2. L \in SUBSET Visit
  BY <1>1 DEF Visit
<1>3. health' = [Resting EXCEPT !.at = "visit", !.todo = L]
  BY DEF HealthLists
<1> HIDE DEF L
<1>4. health' \in Health /\ health'.at = "visit"
  BY <1>2, <1>3 DEF Resting, Health
<1> QED
  BY <1>4, LoopMoves DEF HealthLists, LoopOK

LEMMA HealthVisitsOK == ASSUME AgentInv, NEW v \in health.todo, HealthVisits(v) PROVE AgentInv'
<1>1. /\ health \in Health /\ v \in Visit /\ v.service \in Services /\ v.seen \in WorkloadRecord
      /\ container[v.service] \in Container
  BY DEF AgentInv, TypeOK, Health, Visit
<1> DEFINE w == IF v.seen.address = NoAddress THEN Inspected(v) ELSE v
           p == IF v.seen.status = "stopped" THEN "visit"
                ELSE IF v.seen.address # NoAddress THEN "check"
                ELSE IF Up(v.service) THEN "address"
                ELSE "visit"
<1>2. w \in Visit /\ w.seen.status = v.seen.status
  BY <1>1 DEF Inspected, Visit, WorkloadRecord, Container
<1>3. p \in {"visit", "check", "address"} /\ (p # "visit" => v.seen.status # "stopped")
  OBVIOUS
<1>4. health' = [health EXCEPT !.todo = @ \ {v}, !.now = {w}, !.at = p]
  BY DEF HealthVisits
<1> HIDE DEF w, p
<1>5. health' \in Health /\ health'.at = p /\ health'.now = {w}
  BY <1>1, <1>2, <1>3, <1>4 DEF Health
<1>6. LoopOK'
  BY <1>2, <1>3, <1>5 DEF LoopOK
<1> QED
  BY <1>5, <1>6, LoopMoves DEF HealthVisits

LEMMA HealthFindsAddressOK ==
    ASSUME AgentInv, NEW v \in health.now, HealthFindsAddress(v) PROVE AgentInv'
<1>1. health \in Health /\ v \in Visit /\ v.service \in Services /\ v.seen \in WorkloadRecord
  BY DEF AgentInv, TypeOK, Health, Visit
<1>2. v.seen.status # "stopped"
  BY DEF HealthFindsAddress, At, AgentInv, LoopOK
<1>3. health' \in Health /\ LoopOK'
  BY <1>1 DEF HealthFindsAddress, At, Health, AgentInv, LoopOK
<1> QED
  BY <1>1, <1>2, <1>3, LoopWrites DEF HealthFindsAddress

LEMMA HealthChecksOK ==
    ASSUME AgentInv, NEW v \in health.now, HealthChecks(v) PROVE AgentInv'
<1>1. health \in Health
  BY DEF AgentInv, TypeOK
<1>2. PICK ok \in BOOLEAN : health' = [health EXCEPT !.at = "save", !.healthy = ok]
  BY DEF HealthChecks
<1>3. health' \in Health
  BY <1>1, <1>2 DEF Health
<1>4. LoopOK'
  BY <1>1, <1>2 DEF HealthChecks, At, Health, AgentInv, LoopOK
<1> QED
  BY <1>3, <1>4, LoopMoves DEF HealthChecks

LEMMA HealthSavesOK ==
    ASSUME AgentInv, NEW v \in health.now, HealthSaves(v) PROVE AgentInv'
<1>1. health \in Health /\ v \in Visit /\ v.service \in Services /\ v.seen \in WorkloadRecord
  BY DEF AgentInv, TypeOK, Health, Visit
<1> DEFINE p == IF health.healthy THEN "running" ELSE "unhealthy"
           r == [v.seen EXCEPT !.status = p]
           m == [service |-> v.service, healthy |-> health.healthy]
<1>2. p \in {"running", "unhealthy"}
  OBVIOUS
<1>3. record' = [record EXCEPT ![v.service] = r]
  BY DEF HealthSaves
<1>4. m \in Report
  BY <1>1 DEF Report, Health
<1>5. health' = [health EXCEPT !.at = "visit", !.reports = @ \cup {m}]
  BY DEF HealthSaves
<1> HIDE DEF p, m
<1>6. r \in WorkloadRecord /\ r.status # "stopped"
  BY <1>1, <1>2 DEF WorkloadRecord
<1>7. health' \in Health /\ health'.at = "visit"
  BY <1>1, <1>4, <1>5 DEF Health
<1> HIDE DEF r
<1> QED
  BY <1>1, <1>3, <1>6, <1>7, LoopWrites DEF HealthSaves, LoopOK

LEMMA DeadIsHealth ==
    ASSUME NEW h, h = [Resting EXCEPT !.at = "dead"]
    PROVE  h \in Health /\ h.at = "dead"
<1>1. Resting \in Health
  BY DEF Resting, Health
<1> QED
  BY <1>1 DEF Health

LEMMA HealthRests ==
    ASSUME AgentInv, HealthReports \/ HealthDies PROVE AgentInv'
<1>1. health' = [Resting EXCEPT !.at = "dead"] \/ health' = Resting
  BY DEF HealthReports, HealthDies
<1>2. health' \in Health /\ health'.at \in {"idle", "dead"}
  <2>1. CASE health' = Resting
    BY <2>1 DEF Resting, Health
  <2>2. CASE health' = [Resting EXCEPT !.at = "dead"]
    BY <2>2, DeadIsHealth
  <2> QED
    BY <1>1, <2>1, <2>2
<1>3. LoopOK'
  BY <1>2 DEF LoopOK
<1> QED
  BY <1>2, <1>3, LoopMoves DEF HealthReports, HealthDies

-----------------------------------------------------------------------------
(* Faults *)

\* A container goes down, or its service gets one that is down.
LEMMA GoesDown ==
    ASSUME AgentInv, NEW s \in Services, NEW k \in Container, k.address = NoAddress,
           container' = [container EXCEPT ![s] = k],
           Bounded', lastId' \in [Services -> Id], commands' \subseteq commands,
           \A c \in commands \ commands' : c.service = s,
           UNCHANGED <<record, health, happened>>
    PROVE  AgentInv'
<1>1. ~Up(s)' /\ \A t \in Services : t # s => (Up(t)' <=> Up(t))
  BY DEF Up, AgentInv, TypeOK
<1>2. TypeOK' /\ SeenOK' /\ LoopOK' /\ OneAtATime'
  BY DEF AgentInv, TypeOK, SeenOK, LoopOK, OneAtATime, Serial
<1>3. SavesTrue'
  BY <1>1 DEF AgentInv, TypeOK, Command, SavesTrue, Serial
<1>4. UpIsWatched'
  <2> SUFFICES ASSUME Serial, NEW t \in Services, Up(t)'
               PROVE  Watched(t)' \/ \E c \in Under(t)' : Starts(c)
    BY DEF UpIsWatched, Serial, Starts
  <2>1. t # s /\ Up(t)
    BY <1>1
  <2> QED
    BY <2>1 DEF AgentInv, UpIsWatched, Watched, Under
<1> QED
  BY <1>2, <1>3, <1>4 DEF AgentInv

LEMMA ExitsOK == ASSUME AgentInv, NEW s \in Services, Exits(s) PROVE AgentInv'
<1> DEFINE k == [container[s] EXCEPT !.address = NoAddress]
<1>1. k \in Container /\ k.address = NoAddress /\ container' = [container EXCEPT ![s] = k]
  BY DEF Exits, AgentInv, TypeOK, Container, Address
<1> HIDE DEF k
<1>2. UNCHANGED <<record, lastId, commands, health, happened>>
  BY DEF Exits
<1>3. Bounded' /\ lastId' \in [Services -> Id]
  BY <1>2 DEF AgentInv, TypeOK, Bounded, Starting, Under
<1> QED
  BY <1>1, <1>2, <1>3, GoesDown

LEMMA DockerFailsOK == ASSUME AgentInv, NEW c \in commands, DockerFails(c) PROVE AgentInv'
<1> DEFINE s == c.service
<1>1. /\ s \in Services /\ c.at # "save" /\ commands' = commands \ {c}
      /\ UNCHANGED <<record, health, happened>>
  BY CommandTypes DEF DockerFails, Ends
<1>2. CASE UNCHANGED <<container, lastId>>
  BY <1>1, <1>2, EndsOK DEF Ends
<1>3. CASE container' = [container EXCEPT ![s] = NoContainer] /\ UNCHANGED lastId
  <2>1. NoContainer \in Container /\ NoContainer.address = NoAddress
    BY AgentAssumption DEF NoContainer, Container, Id, Address
  <2>2. Bounded' /\ lastId' \in [Services -> Id]
    BY <1>1, <1>3, StillBounded DEF AgentInv, TypeOK
  <2> QED
    BY <1>1, <1>3, <2>1, <2>2, GoesDown
<1>4. CASE /\ c.op = "deploy" /\ c.at = "run"
           /\ lastId' = [lastId EXCEPT ![s] = @ + 1]
           /\ container' = [container EXCEPT ![s] = [NoContainer EXCEPT !.id = lastId'[s]]]
  <2> DEFINE d == [c EXCEPT !.at = "save"]
             k == [NoContainer EXCEPT !.id = lastId'[s]]
  <2>1. d.at = "save"
    BY CommandTypes DEF Command
  <2>2. Bounded' /\ lastId' \in [Services -> Id] /\ lastId'[s] \in Id
    <3> HIDE DEF d
    <3> QED
      BY <1>1, <1>4, <2>1, TakesId
  <2>3. k \in Container /\ k.address = NoAddress
    BY <2>2 DEF NoContainer, Container, Address
  <2> HIDE DEF k
  <2>4. container' = [container EXCEPT ![s] = k]
    BY <1>4 DEF k
  <2> QED
    BY <1>1, <2>2, <2>3, <2>4, GoesDown
<1> QED
  BY <1>2, <1>3, <1>4 DEF DockerFails

LEMMA TimesOutOK == ASSUME AgentInv, NEW c \in commands, TimesOut(c) PROVE AgentInv'
<1> DEFINE d == [c EXCEPT !.awaited = FALSE]
<1>1. /\ d \in Command
      /\ d.service = c.service /\ d.op = c.op /\ d.at = c.at /\ d.seen = c.seen
  BY CommandTypes DEF Command
<1>2. /\ commands' = (commands \ {c}) \cup {d}
      /\ happened' = happened \cup {"timeout"} /\ "timeout" \in Faults
      /\ UNCHANGED <<record, container, lastId, health>>
  BY DEF TimesOut, Forwards
<1> HIDE DEF d
<1>3. Bounded'
  BY <1>1, <1>2, StillBounded
<1>4. TypeOK' /\ SeenOK' /\ LoopOK'
  BY <1>1, <1>2 DEF AgentInv, TypeOK, SeenOK, LoopOK
<1>5. ~Serial'
  BY <1>2 DEF Serial
<1>6. OneAtATime' /\ SavesTrue' /\ UpIsWatched'
  BY <1>5 DEF OneAtATime, SavesTrue, UpIsWatched
<1> QED
  BY <1>3, <1>4, <1>6 DEF AgentInv

LEMMA AgentRestartsOK == ASSUME AgentInv, AgentRestarts PROVE AgentInv'
<1>1. TypeOK'
  BY DEF AgentRestarts, AgentInv, TypeOK, Records, Resting, Health
<1>2. Bounded'
  <2>1. \A s \in Services : Starting(s)' = {} /\ lastId'[s] \in 0..MaxId
    BY DEF AgentRestarts, Starting, Under, AgentInv, TypeOK, Id
  <2>2. commands' = {}
    BY DEF AgentRestarts
  <2>3. \A s \in Services : lastId'[s] + Cardinality(Starting(s)') <= MaxId
    <3>1. \A n \in 0..MaxId : n + 0 <= MaxId
      BY AgentAssumption
    <3> HIDE DEF Starting
    <3> QED
      BY <2>1, <3>1, FS_EmptySet
  <2> QED
    BY <2>2, <2>3, FS_EmptySet DEF Bounded
<1>3. SeenOK' /\ LoopOK'
  BY DEF AgentRestarts, SeenOK, LoopOK, Resting
<1>4. ~Serial'
  BY DEF AgentRestarts, Serial
<1>5. OneAtATime' /\ SavesTrue' /\ UpIsWatched'
  BY <1>4 DEF OneAtATime, SavesTrue, UpIsWatched
<1> QED
  BY <1>1, <1>2, <1>3, <1>5 DEF AgentInv

-----------------------------------------------------------------------------
(* The theorems *)

LEMMA StepOK == AgentInv /\ [Next]_vars => AgentInv'
<1> SUFFICES ASSUME AgentInv, [Next]_vars PROVE AgentInv'
  OBVIOUS
<1>1. ASSUME NEW s \in Services, NEW op \in {"deploy", "stop", "restart"}, Send(s, op)
      PROVE  AgentInv'
  BY <1>1, SendOK
<1>2. ASSUME NEW c \in commands, CommandStep(c) \/ DockerFails(c) \/ TimesOut(c)
      PROVE  AgentInv'
  BY <1>2, ReadsOK, DeployInspectsOK, DeployRunsOK, StopRunsOK, RestartRunsOK, SavesOK,
     DockerFailsOK, TimesOutOK DEF CommandStep
<1>3. CASE HealthStep
  BY <1>3, HealthListsOK, HealthVisitsOK, HealthFindsAddressOK, HealthChecksOK, HealthSavesOK,
     HealthRests DEF HealthStep
<1>4. CASE (\E s \in Services : Exits(s)) \/ HealthDies \/ AgentRestarts
  BY <1>4, ExitsOK, HealthRests, AgentRestartsOK
<1>5. CASE UNCHANGED vars
  <2>1. TypeOK'
    BY <1>5 DEF vars, AgentInv, TypeOK
  <2> QED
    BY <1>5, <2>1 DEF vars, AgentInv, Bounded, Starting, SeenOK, LoopOK, OneAtATime, SavesTrue,
       UpIsWatched, Serial, Up, Watched, Under, Starts
<1> QED
  BY <1>1, <1>2, <1>3, <1>4, <1>5 DEF Next

\* Whatever fails: records and commands are well formed, the containers that may
\* be started keep within the bound, and, as long as commands do not overlap and
\* the agent does not die, what is about to be written agrees with the container.
THEOREM AgentInvariant == Spec => []AgentInv
<1>1. AgentInv /\ [Next]_vars => AgentInv'
  BY StepOK
<1> QED
  BY InitiallyOK, <1>1, PTL DEF Spec

\* Every handler leaves records, containers, commands and the loop well formed.
THEOREM AgentTypeCorrect == Spec => []TypeOK
<1>1. AgentInv => TypeOK
  BY DEF AgentInv
<1> QED
  BY <1>1, AgentInvariant, PTL

\* A container that runs is looked after, although the health loop writes back
\* records it read before (workload_manager.py:126, 166).
THEOREM RunningContainersAreWatched == Spec => []RunningIsWatched
<1>1. AgentInv => RunningIsWatched
  BY DEF AgentInv, SavesTrue, UpIsWatched, RunningIsWatched, Watched
<1> QED
  BY <1>1, AgentInvariant, PTL

\* When a stop is answered the container is down (workload_manager.py:80-85,
\* 96-101), although nothing looks at Docker when there is no record.
THEOREM StoppedContainersAreDown == Spec => StoppedIsDown
<1> DEFINE A == \A c \in commands :
                  Serial /\ c.op = "stop" /\ c.awaited /\ Ends(c) /\ (Saves(c) \/ Reads(c))
                     => ~Up(c.service)
<1>1. AgentInv => A
  <2> SUFFICES ASSUME AgentInv, NEW c \in commands, Serial, c.op = "stop", Ends(c), Saves(c) \/ Reads(c)
               PROVE  ~Up(c.service)
    OBVIOUS
  <2>1. CASE Saves(c)
    BY <2>1 DEF Saves, AgentInv, SavesTrue
  <2>2. CASE Reads(c)
    <3>1. c.at = "read" /\ c.service \in Services /\ \A e \in Under(c.service) : e = c
      BY <2>2, CommandTypes DEF Reads, AgentInv, OneAtATime, Under
    <3>2. CASE record[c.service] = NoRecord
      BY <3>1, <3>2 DEF AgentInv, UpIsWatched, Watched, Starts
    <3>3. CASE record[c.service] # NoRecord
      <4> DEFINE d == [c EXCEPT !.seen = record[c.service],
                                !.at = IF c.op = "deploy" THEN "inspect" ELSE "run"]
      <4>1. d.service = c.service /\ d.at # "read"
        BY CommandTypes DEF Command
      <4>2. d \in commands'
        BY <2>2, <3>3 DEF Reads, Forwards
      <4> HIDE DEF d
      <4>3. d \in commands \ {c}
        BY <4>2 DEF Ends
      <4> QED
        BY <3>1, <4>1, <4>3 DEF Under
    <3> QED
      BY <3>2, <3>3
  <2> QED
    BY <2>1, <2>2
<1> HIDE DEF A
<1>2. AgentInv => [A]_vars
  BY <1>1
<1>3. Spec => [][A]_vars
  BY <1>2, AgentInvariant, PTL
<1> QED
  BY <1>3 DEF StoppedIsDown, A

=============================================================================

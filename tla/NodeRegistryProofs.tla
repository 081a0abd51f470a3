------------------------- MODULE NodeRegistryProofs -------------------------
(***************************************************************************)
(* Theorems about NodeRegistry, for every set of nodes and loads, every    *)
(* value of the settings, and all faults.                                  *)
(***************************************************************************)
EXTENDS NodeStatus, TLAPS

(* Growing older keeps an age an age, and a record a record.               *)
LEMMA OlderAge == \A a \in Age : Older(a) \in Age
  BY RegistryAssumption DEF Older, Age

LEMMA OlderRecordType ==
    \A r \in Record : /\ OlderRecord(r) \in Record
                      /\ r # NoRecord => OlderRecord(r) # NoRecord
  BY OlderAge, RegistryAssumption DEF OlderRecord, Record, NodeState

LEMMA OlderCallType ==
    \A c \in Call : /\ OlderCall(c) \in Call
                    /\ OlderCall(c).node = c.node
                    /\ OlderCall(c).kind = c.kind
                    /\ OlderCall(c).at = c.at
                    /\ c.seen # NoRecord => OlderCall(c).seen # NoRecord
  <1> SUFFICES ASSUME NEW c \in Call
               PROVE  /\ OlderCall(c) \in Call
                      /\ OlderCall(c).node = c.node
                      /\ OlderCall(c).kind = c.kind
                      /\ OlderCall(c).at = c.at
                      /\ c.seen # NoRecord => OlderCall(c).seen # NoRecord
    OBVIOUS
  <1>1. Older(c.age) \in Age /\ OlderRecord(c.seen) \in Record
    BY OlderAge, OlderRecordType DEF Call
  <1>2. c.seen # NoRecord => OlderRecord(c.seen) # NoRecord
    BY OlderRecordType DEF Call
  <1>. QED
    BY <1>1, <1>2 DEF OlderCall, Call

-----------------------------------------------------------------------------
(* A call stays in its set when it ends, and its handler may only go on    *)
(* with a point that is safe for the records as they are then.             *)

NotedHasRecord(c) == c.at = "note" => registry[c.node] # NoRecord
UpdateHasRecord(c) == c.kind = "snapshot" /\ c.at = "write" => c.seen # NoRecord

(* Records are written and never removed: what was noted stays so.         *)
LEMMA RecordsStay ==
    ASSUME ListedInv,
           \A n \in Nodes : registry[n] # NoRecord => registry'[n] # NoRecord,
           members' = members, lastWritten' = lastWritten, round' = round,
           calls' \subseteq Call,
           \A c \in calls' \ calls : NotedHasRecord(c)' /\ UpdateHasRecord(c)
    PROVE  UpdatesHaveRecords' /\ SkippedIsListed'
  <1>1. \A c \in calls' : /\ c.at = "note" => registry'[c.node] # NoRecord
                          /\ c.kind = "snapshot" /\ c.at = "write" => c.seen # NoRecord
    <2> SUFFICES ASSUME NEW c \in calls'
                 PROVE  /\ c.at = "note" => registry'[c.node] # NoRecord
                        /\ c.kind = "snapshot" /\ c.at = "write" => c.seen # NoRecord
      OBVIOUS
    <2>1. c.node \in Nodes
      BY DEF Call
    <2>2. CASE c \in calls
      BY <2>1, <2>2 DEF ListedInv, UpdatesHaveRecords
    <2>3. CASE c \notin calls
      BY <2>3 DEF NotedHasRecord, UpdateHasRecord
    <2>. QED
      BY <2>2, <2>3
  <1>2. \A n \in members : registry'[n] # NoRecord
    BY DEF ListedInv, UpdatesHaveRecords, TypeOK
  <1>. QED
    BY <1>1, <1>2 DEF ListedInv, UpdatesHaveRecords, SkippedIsListed

(* The telemetry loops only add calls that are on their way.               *)
LEMMA PostSafe ==
    ASSUME ListedInv, NEW n \in Nodes, NEW kind \in {"heartbeat", "snapshot"},
           NEW load \in Loads \cup {NoLoad}, Post(n, kind, load)
    PROVE  /\ calls' \subseteq Call
           /\ \A c \in calls' \ calls : c.at = "sent"
  <1>1. 0 \in Age /\ NoRecord \in Record
    BY RegistryAssumption DEF Age, Record
  <1>. QED
    BY <1>1 DEF Post, Call, ListedInv, TypeOK

LEMMA BeatSafe ==
    ASSUME ListedInv, NEW n \in Nodes, Beat(n)
    PROVE  ListedInv'
  <1>1. calls' \subseteq Call /\ \A c \in calls' \ calls : c.at = "sent"
    BY PostSafe DEF Beat
  <1>2. UpdatesHaveRecords' /\ SkippedIsListed'
    BY <1>1, RecordsStay DEF Beat, NotedHasRecord, UpdateHasRecord, caches
  <1>3. TypeOK'
    BY <1>1 DEF Beat, ListedInv, TypeOK, caches
  <1>. QED
    BY <1>2, <1>3 DEF ListedInv

LEMMA SampleSafe ==
    ASSUME ListedInv, NEW n \in Nodes, NEW l \in Loads, Sample(n, l)
    PROVE  ListedInv'
  <1>1. calls' \subseteq Call /\ \A c \in calls' \ calls : c.at = "sent"
    <2>1. CASE Changed(sent[n], l)
      BY <2>1, PostSafe DEF Sample
    <2>2. CASE ~Changed(sent[n], l)
      BY <2>2 DEF Sample, ListedInv, TypeOK
    <2>. QED
      BY <2>1, <2>2
  <1>2. UpdatesHaveRecords' /\ SkippedIsListed'
    BY <1>1, RecordsStay DEF Sample, NotedHasRecord, UpdateHasRecord, caches
  <1>3. TypeOK'
    <2>1. sent' \in [Nodes -> Loads \cup {NoLoad}]
      BY DEF Sample, ListedInv, TypeOK
    <2>2. SnapshotInterval \in 0..SnapshotInterval
      BY RegistryAssumption
    <2>3. sampleIn' \in [Nodes -> 0..SnapshotInterval]
      BY <2>2 DEF Sample, ListedInv, TypeOK
    <2>. QED
      BY <1>1, <2>1, <2>3 DEF Sample, ListedInv, TypeOK, caches
  <1>. QED
    BY <1>2, <1>3 DEF ListedInv

-----------------------------------------------------------------------------
(* The handlers.                                                           *)

LEMMA ReadsSafe ==
    ASSUME ListedInv, NEW c \in calls, Reads(c),
           c.kind = "snapshot" => registry[c.node] # NoRecord
    PROVE  /\ calls' \subseteq Call
           /\ \A d \in calls' \ calls : d.at = "write" /\ UpdateHasRecord(d)
  <1>1. c \in Call /\ c.node \in Nodes /\ registry[c.node] \in Record
    BY DEF ListedInv, TypeOK, Call
  <1> DEFINE d == [c EXCEPT !.at = "write", !.seen = registry[c.node]]
  <1>2. d \in Call /\ d.at = "write" /\ d.kind = c.kind /\ d.seen = registry[c.node]
    BY <1>1 DEF Call
  <1>3. calls' = (calls \ {c}) \cup {d}
    BY DEF Reads, Forwards
  <1>. QED
    BY <1>2, <1>3 DEF UpdateHasRecord, ListedInv, TypeOK

LEMMA HeartbeatReadsSafe ==
    ASSUME ListedInv, NEW c \in calls, HeartbeatReads(c)
    PROVE  ListedInv'
  <1>1. calls' \subseteq Call /\ \A d \in calls' \ calls : d.at = "write" /\ UpdateHasRecord(d)
    <2>1. CASE Coalesced(c)
      BY <2>1 DEF HeartbeatReads, Ends, ListedInv, TypeOK
    <2>2. CASE ~Coalesced(c)
      BY <2>2, ReadsSafe DEF HeartbeatReads
    <2>. QED
      BY <2>1, <2>2
  <1>2. UpdatesHaveRecords' /\ SkippedIsListed'
    BY <1>1, RecordsStay DEF HeartbeatReads, NotedHasRecord, caches
  <1>3. TypeOK'
    BY <1>1 DEF HeartbeatReads, ListedInv, TypeOK, caches, agentVars
  <1>. QED
    BY <1>2, <1>3 DEF ListedInv

LEMMA SnapshotReadsSafe ==
    ASSUME ListedInv, NEW c \in calls, SnapshotReads(c)
    PROVE  ListedInv'
  <1>1. calls' \subseteq Call /\ \A d \in calls' \ calls : d.at = "write" /\ UpdateHasRecord(d)
    <2>1. CASE Changed(lastSnapshot[c.node], c.load) /\ registry[c.node] # NoRecord
      BY <2>1, ReadsSafe DEF SnapshotReads
    <2>2. CASE ~(Changed(lastSnapshot[c.node], c.load) /\ registry[c.node] # NoRecord)
      BY <2>2 DEF SnapshotReads, Ends, ListedInv, TypeOK
    <2>. QED
      BY <2>1, <2>2
  <1>2. UpdatesHaveRecords' /\ SkippedIsListed'
    BY <1>1, RecordsStay DEF SnapshotReads, NotedHasRecord, caches
  <1>3. TypeOK'
    BY <1>1 DEF SnapshotReads, ListedInv, TypeOK, caches, agentVars
  <1>. QED
    BY <1>2, <1>3 DEF ListedInv

LEMMA HeartbeatWritesSafe ==
    ASSUME ListedInv, NEW c \in calls, HeartbeatWrites(c)
    PROVE  ListedInv'
  <1> DEFINE r == [status |-> "healthy", beat |-> c.age,
                   snapshot |-> IF c.seen = NoRecord THEN NoLoad ELSE c.seen.snapshot]
             d == [c EXCEPT !.at = "note", !.seen = NoRecord]
  <1>1. c \in Call /\ c.node \in Nodes /\ c.age \in Age /\ c.seen \in Record /\ c.kind = "heartbeat"
    BY DEF HeartbeatWrites, ListedInv, TypeOK, Call
  <1>2. r \in NodeState /\ r # NoRecord /\ r \in Record
    BY <1>1, RegistryAssumption DEF Record, NodeState
  <1>3. d \in Call /\ d.node = c.node /\ d.kind = "heartbeat"
    BY <1>1 DEF Call, Record
  <1>4. registry' = [registry EXCEPT ![c.node] = r] /\ calls' = (calls \ {c}) \cup {d}
    BY DEF HeartbeatWrites, Forwards
  <1>5. calls' \subseteq Call /\ registry' \in [Nodes -> Record]
    BY <1>1, <1>2, <1>3, <1>4 DEF ListedInv, TypeOK
  <1>6. \A n \in Nodes : registry[n] # NoRecord => registry'[n] # NoRecord
    BY <1>2, <1>4 DEF ListedInv, TypeOK
  <1>7. registry'[c.node] # NoRecord
    BY <1>1, <1>2, <1>4 DEF ListedInv, TypeOK
  <1>8. \A e \in calls' \ calls : NotedHasRecord(e)' /\ UpdateHasRecord(e)
    BY <1>3, <1>4, <1>7 DEF NotedHasRecord, UpdateHasRecord
  <1>9. UpdatesHaveRecords' /\ SkippedIsListed'
    BY <1>5, <1>6, <1>8, RecordsStay DEF HeartbeatWrites, caches
  <1>10. TypeOK'
    BY <1>5 DEF HeartbeatWrites, ListedInv, TypeOK, caches, agentVars
  <1>. QED
    BY <1>9, <1>10 DEF ListedInv

LEMMA SnapshotWritesSafe ==
    ASSUME ListedInv, NEW c \in calls, SnapshotWrites(c)
    PROVE  ListedInv'
  <1> DEFINE r == [c.seen EXCEPT !.snapshot = c.load]
  <1>1. c \in Call /\ c.node \in Nodes /\ c.load \in Loads \cup {NoLoad}
    BY DEF ListedInv, TypeOK, Call
  <1>2. c.seen \in NodeState
    BY <1>1 DEF SnapshotWrites, ListedInv, UpdatesHaveRecords, Call, Record
  <1>3. r \in NodeState /\ r # NoRecord /\ r \in Record
    BY <1>1, <1>2, RegistryAssumption DEF Record, NodeState
  <1>4. registry' = [registry EXCEPT ![c.node] = r] /\ calls' = calls \ {c}
    BY DEF SnapshotWrites, Ends
  <1>5. calls' \subseteq Call /\ registry' \in [Nodes -> Record]
    BY <1>1, <1>3, <1>4 DEF ListedInv, TypeOK
  <1>6. \A n \in Nodes : registry[n] # NoRecord => registry'[n] # NoRecord
    BY <1>3, <1>4 DEF ListedInv, TypeOK
  <1>7. UpdatesHaveRecords' /\ SkippedIsListed'
    BY <1>4, <1>5, <1>6, RecordsStay DEF SnapshotWrites
  <1>8. TypeOK'
    BY <1>1, <1>5 DEF SnapshotWrites, ListedInv, TypeOK, agentVars
  <1>. QED
    BY <1>7, <1>8 DEF ListedInv

(* The heartbeat is noted only after its key was written.                  *)
LEMMA HeartbeatNotedSafe ==
    ASSUME ListedInv, NEW c \in calls, HeartbeatNoted(c)
    PROVE  ListedInv'
  <1>1. c \in Call /\ c.node \in Nodes /\ c.age \in Age /\ registry[c.node] # NoRecord
    BY DEF HeartbeatNoted, ListedInv, TypeOK, UpdatesHaveRecords, Call
  <1>2. UpdatesHaveRecords'
    BY <1>1 DEF HeartbeatNoted, Ends, ListedInv, UpdatesHaveRecords
  <1>3. SkippedIsListed'
    BY <1>1 DEF HeartbeatNoted, ListedInv, TypeOK, SkippedIsListed
  <1>4. TypeOK'
    BY <1>1 DEF HeartbeatNoted, Ends, ListedInv, TypeOK, agentVars
  <1>. QED
    BY <1>2, <1>3, <1>4 DEF ListedInv

-----------------------------------------------------------------------------
(* The round.                                                              *)

LEMMA ListNodesSafe ==
    ASSUME ListedInv, ListNodes
    PROVE  ListedInv'
  <1> DEFINE found == {n \in members : Silent(n)}
  <1>1. found \subseteq members /\ found \subseteq Nodes
    BY DEF ListedInv, TypeOK
  <1>2. round' = [round EXCEPT !.at = "mark", !.silent = found]
    BY DEF ListNodes
  <1>3. round' \in Round /\ round'.silent = found /\ round'.at = "mark"
    BY <1>1, <1>2 DEF Round, ListedInv, TypeOK
  <1>4. TypeOK'
    BY <1>3 DEF ListNodes, ListedInv, TypeOK, caches, agentVars
  <1>5. UpdatesHaveRecords' /\ SkippedIsListed'
    BY <1>1, <1>3 DEF ListNodes, ListedInv, UpdatesHaveRecords, SkippedIsListed, caches
  <1>. QED
    BY <1>4, <1>5 DEF ListedInv

(* A node that was listed still has its record when it is read.            *)
LEMMA MarkReadsSafe ==
    ASSUME ListedInv, NEW n \in Nodes, MarkReads(n)
    PROVE  ListedInv'
  <1>1. n \in members /\ registry[n] # NoRecord /\ registry[n] \in Record
    BY DEF MarkReads, ListedInv, UpdatesHaveRecords, TypeOK
  <1>2. /\ round' \in Round
        /\ round'.silent = round.silent \ {n}
        /\ round'.at = "unset"
        /\ round'.seen = registry[n]
    BY <1>1 DEF MarkReads, Round, ListedInv, TypeOK
  <1>3. TypeOK'
    BY <1>2 DEF MarkReads, ListedInv, TypeOK, caches, agentVars
  <1>4. UpdatesHaveRecords' /\ SkippedIsListed'
    BY <1>1, <1>2 DEF MarkReads, ListedInv, UpdatesHaveRecords, SkippedIsListed, caches
  <1>. QED
    BY <1>3, <1>4 DEF ListedInv

LEMMA MarkWritesSafe ==
    ASSUME ListedInv, NEW n \in Nodes, MarkWrites(n)
    PROVE  ListedInv'
  <1> DEFINE r == [round.seen EXCEPT !.status = "unavailable"]
  <1>1. round.seen \in NodeState
    BY DEF MarkWrites, ListedInv, UpdatesHaveRecords, TypeOK, Round, Record
  <1>2. r \in NodeState /\ r # NoRecord /\ r \in Record
    BY <1>1, RegistryAssumption DEF Record, NodeState
  <1>3. registry' = [registry EXCEPT ![n] = r]
    BY DEF MarkWrites
  <1>4. registry' \in [Nodes -> Record] /\ \A m \in Nodes : registry[m] # NoRecord => registry'[m] # NoRecord
    BY <1>2, <1>3 DEF ListedInv, TypeOK
  <1>5. round' \in Round /\ round'.silent = round.silent /\ round'.at = "evacuate"
    BY DEF MarkWrites, Round, Record, ListedInv, TypeOK
  <1>6. TypeOK'
    BY <1>4, <1>5 DEF MarkWrites, ListedInv, TypeOK, caches, agentVars
  <1>7. UpdatesHaveRecords'
    BY <1>4, <1>5 DEF MarkWrites, ListedInv, TypeOK, UpdatesHaveRecords, Call
  <1>8. SkippedIsListed'
    BY <1>4 DEF MarkWrites, ListedInv, SkippedIsListed, caches
  <1>. QED
    BY <1>6, <1>7, <1>8 DEF ListedInv

LEMMA NoRoundType == NoRound \in Round /\ NoRound.silent = {} /\ NoRound.at = "idle"
  BY DEF NoRound, Round, Record

(* The round goes on to another node, ends, or is given up.                *)
LEMMA RoundLeft ==
    ASSUME ListedInv, round' \in Round, round'.silent \subseteq members, round'.at # "unset",
           UNCHANGED <<registry, members, caches, calls, agentVars>>
    PROVE  ListedInv'
  <1>1. TypeOK'
    BY DEF ListedInv, TypeOK, caches, agentVars
  <1>2. UpdatesHaveRecords' /\ SkippedIsListed'
    BY DEF ListedInv, UpdatesHaveRecords, SkippedIsListed, caches
  <1>. QED
    BY <1>1, <1>2 DEF ListedInv

LEMMA RoundGoesOnSafe ==
    ASSUME ListedInv, Evacuated \/ ListPending \/ RoundEnd
    PROVE  ListedInv'
  <1>1. /\ round' \in Round
        /\ round'.silent \subseteq members
        /\ round'.at # "unset"
    <2>1. CASE RoundEnd
      BY <2>1, NoRoundType DEF RoundEnd
    <2>2. CASE Evacuated \/ ListPending
      BY <2>2 DEF Evacuated, ListPending, ListedInv, TypeOK, UpdatesHaveRecords, Round
    <2>. QED
      BY <2>1, <2>2
  <1>. QED
    BY <1>1, RoundLeft DEF Evacuated, ListPending, RoundEnd

LEMMA RoundFailsSafe ==
    ASSUME ListedInv, RoundFails
    PROVE  ListedInv'
  BY NoRoundType, RoundLeft DEF RoundFails

-----------------------------------------------------------------------------
(* Time and the faults.                                                    *)

LEMMA TickSafe ==
    ASSUME ListedInv, Tick
    PROVE  ListedInv'
  <1>1. /\ registry' \in [Nodes -> Record]
        /\ \A n \in Nodes : registry[n] # NoRecord => registry'[n] # NoRecord
    BY OlderRecordType DEF Tick, ListedInv, TypeOK
  <1>2. /\ lastWritten' \in [Nodes -> Age \cup {Never}]
        /\ \A n \in Nodes : lastWritten'[n] # Never => lastWritten[n] # Never
    <2>1. Older(Never) = Never
      BY RegistryAssumption DEF Older
    <2>. QED
      BY <2>1, OlderAge DEF Tick, ListedInv, TypeOK
  <1>3. calls' = {OlderCall(c) : c \in calls} /\ calls \subseteq Call
    BY DEF Tick, ListedInv, TypeOK
  <1>4. calls' \subseteq Call
    BY <1>3, OlderCallType
  <1>5. \A d \in calls' : /\ d.at = "note" => registry'[d.node] # NoRecord
                          /\ d.kind = "snapshot" /\ d.at = "write" => d.seen # NoRecord
    <2> SUFFICES ASSUME NEW c \in calls
                 PROVE  /\ OlderCall(c).at = "note" => registry'[OlderCall(c).node] # NoRecord
                        /\ OlderCall(c).kind = "snapshot" /\ OlderCall(c).at = "write"
                              => OlderCall(c).seen # NoRecord
      BY <1>3
    <2>1. c \in Call /\ c.node \in Nodes
      BY <1>3 DEF Call
    <2>2. /\ c.at = "note" => registry[c.node] # NoRecord
          /\ c.kind = "snapshot" /\ c.at = "write" => c.seen # NoRecord
      BY DEF ListedInv, UpdatesHaveRecords
    <2>. QED
      BY <1>1, <2>1, <2>2, OlderCallType
  <1>6. sampleIn' \in [Nodes -> 0..SnapshotInterval]
    <2>1. \A n \in Nodes : sampleIn[n] \in 0..SnapshotInterval /\ (up[n] => sampleIn[n] > 0)
      BY DEF Tick, ListedInv, TypeOK
    <2>2. \A n \in Nodes : (IF up[n] THEN sampleIn[n] - 1 ELSE sampleIn[n]) \in 0..SnapshotInterval
      BY <2>1, RegistryAssumption
    <2>. QED
      BY <2>2 DEF Tick
  <1>7. steady' \in [Nodes -> Age]
    <2>1. 0 \in Age
      BY RegistryAssumption DEF Age
    <2>. QED
      BY <2>1, OlderAge DEF Tick, ListedInv, TypeOK
  <1>8. beatDue' \in [Nodes -> BOOLEAN]
    BY DEF Tick
  <1>9. TypeOK'
    BY <1>1, <1>2, <1>4, <1>6, <1>7, <1>8 DEF Tick, ListedInv, TypeOK
  <1>10. UpdatesHaveRecords'
    BY <1>1, <1>5 DEF Tick, ListedInv, TypeOK, UpdatesHaveRecords
  <1>11. SkippedIsListed'
    BY <1>1, <1>2 DEF Tick, ListedInv, SkippedIsListed
  <1>. QED
    BY <1>9, <1>10, <1>11 DEF ListedInv

LEMMA AgentFaultsSafe ==
    ASSUME ListedInv, NEW n \in Nodes, Partition(n) \/ AgentStops(n) \/ AgentStarts(n)
    PROVE  ListedInv'
  <1>1. 0 \in Age /\ 0 \in 0..SnapshotInterval
    BY RegistryAssumption DEF Age
  <1>2. UNCHANGED <<registry, members, caches, calls, round>>
    BY DEF Partition, AgentStops, AgentStarts
  <1>3. UpdatesHaveRecords' /\ SkippedIsListed'
    BY <1>2 DEF ListedInv, UpdatesHaveRecords, SkippedIsListed, caches
  <1>4. TypeOK'
    <2>1. CASE Partition(n)
      BY <1>1, <2>1 DEF Partition, ListedInv, TypeOK, caches
    <2>2. CASE AgentStops(n)
      BY <1>1, <2>2 DEF AgentStops, ListedInv, TypeOK, caches
    <2>3. CASE AgentStarts(n)
      BY <1>1, <2>3 DEF AgentStarts, ListedInv, TypeOK, caches
    <2>. QED
      BY <2>1, <2>2, <2>3
  <1>. QED
    BY <1>3, <1>4 DEF ListedInv

LEMMA ControllerFailsSafe ==
    ASSUME ListedInv, ControllerFails
    PROVE  ListedInv'
  <1>. 0 \in Age
    BY RegistryAssumption DEF Age
  <1>1. TypeOK'
    BY NoRoundType DEF ControllerFails, ListedInv, TypeOK
  <1>2. UpdatesHaveRecords'
    BY NoRoundType DEF ControllerFails, ListedInv, UpdatesHaveRecords
  <1>3. SkippedIsListed'
    BY DEF ControllerFails, SkippedIsListed
  <1>. QED
    BY <1>1, <1>2, <1>3 DEF ListedInv

(* A SET whose SADD failed leaves a record that is not listed, and no note.*)
LEMMA StoreFailsSafe ==
    ASSUME ListedInv, NEW c \in calls, StoreFails(c)
    PROVE  ListedInv'
  <1>. 0 \in Age
    BY RegistryAssumption DEF Age
  <1>1. TypeOK'
    BY DEF StoreFails, Ends, ListedInv, TypeOK, caches
  <1>2. UpdatesHaveRecords' /\ SkippedIsListed'
    BY DEF StoreFails, Ends, ListedInv, UpdatesHaveRecords, SkippedIsListed, caches
  <1>. QED
    BY <1>1, <1>2 DEF ListedInv

-----------------------------------------------------------------------------
LEMMA InitListed == Init => ListedInv
  <1> SUFFICES ASSUME Init PROVE ListedInv
    OBVIOUS
  <1>1. 0 \in Age /\ 0 \in 0..SnapshotInterval
    BY RegistryAssumption DEF Age
  <1>2. TypeOK
    BY <1>1, NoRoundType DEF Init, TypeOK, Record
  <1>3. UpdatesHaveRecords /\ SkippedIsListed
    BY NoRoundType DEF Init, UpdatesHaveRecords, SkippedIsListed
  <1>. QED
    BY <1>2, <1>3 DEF ListedInv

LEMMA NextListed == ListedInv /\ [Next]_vars => ListedInv'
  <1> SUFFICES ASSUME ListedInv, [Next]_vars PROVE ListedInv'
    OBVIOUS
  <1>1. ASSUME NEW n \in Nodes, Beat(n) PROVE ListedInv'
    BY <1>1, BeatSafe
  <1>2. ASSUME NEW n \in Nodes, Partition(n) \/ AgentStops(n) \/ AgentStarts(n) PROVE ListedInv'
    BY <1>2, AgentFaultsSafe
  <1>3. ASSUME NEW n \in Nodes, NEW l \in Loads, Sample(n, l) PROVE ListedInv'
    BY <1>3, SampleSafe
  <1>4. ASSUME NEW c \in calls, Handle(c) PROVE ListedInv'
    BY <1>4, HeartbeatReadsSafe, HeartbeatWritesSafe, HeartbeatNotedSafe,
       SnapshotReadsSafe, SnapshotWritesSafe DEF Handle
  <1>5. ASSUME NEW c \in calls, StoreFails(c) PROVE ListedInv'
    BY <1>5, StoreFailsSafe
  <1>6. CASE RoundStep
    BY <1>6, ListNodesSafe, RoundGoesOnSafe, MarkReadsSafe, MarkWritesSafe DEF RoundStep
  <1>7. CASE Tick
    BY <1>7, TickSafe
  <1>8. CASE ControllerFails
    BY <1>8, ControllerFailsSafe
  <1>9. CASE RoundFails
    BY <1>9, RoundFailsSafe
  <1>10. CASE UNCHANGED vars
    <2>1. TypeOK'
      BY <1>10 DEF vars, agentVars, caches, ListedInv, TypeOK
    <2>2. UpdatesHaveRecords' /\ SkippedIsListed'
      BY <1>10 DEF vars, agentVars, caches, ListedInv, UpdatesHaveRecords, SkippedIsListed
    <2>. QED
      BY <2>1, <2>2 DEF ListedInv
  <1>. QED
    BY <1>1, <1>2, <1>3, <1>4, <1>5, <1>6, <1>7, <1>8, <1>9, <1>10 DEF Next

(***************************************************************************)
(* The inductive invariant of the node keys holds in every reachable state.*)
(***************************************************************************)
THEOREM RegistryInvariant == Spec => []ListedInv
  <1>. QED
    BY InitListed, NextListed, PTL DEF Spec

(***************************************************************************)
(* Every variable keeps its type, whatever fails.                          *)
(***************************************************************************)
THEOREM RegistryTypeCorrect == Spec => []TypeOK
  <1>1. ListedInv => TypeOK
    BY DEF ListedInv
  <1>. QED
    BY <1>1, RegistryInvariant, PTL

(***************************************************************************)
(* The write cache of upsert_node_heartbeat never hides a node that is not *)
(* registered and listed, whatever Redis call fails and whenever the       *)
(* controller or an agent dies.                                            *)
(***************************************************************************)
THEOREM SkippedNodesAreListed == Spec => []SkippedIsListed
  <1>1. ListedInv => SkippedIsListed
    BY DEF ListedInv
  <1>. QED
    BY <1>1, RegistryInvariant, PTL

-----------------------------------------------------------------------------
(***************************************************************************)
(* SteadyInv: in a timely configuration, how old the record of a healthy   *)
(* node can be.                                                            *)
(***************************************************************************)

LEMMA LagFacts ==
    /\ Gap \in Nat /\ Gap > 0 /\ Gap >= WriteThreshold
    /\ Lag = Gap + 2 * MaxDelay
    /\ MaxDelay \in Nat /\ WriteThreshold \in Nat
    /\ MaxDelay + 1 \in Age /\ MaxDelay < MaxAge /\ MaxAge \in Nat
  BY RegistryAssumption DEF Gap, Lag, Age

LEMMA HealthyBeat ==
    ASSUME TypeOK, NEW n \in Nodes, Healthy(n)
    PROVE  registry[n] \in NodeState /\ registry[n].beat \in Nat
  BY DEF TypeOK, Healthy, Record, NodeState, Age

LEMMA NodeTypes ==
    ASSUME TypeOK, NEW n \in Nodes
    PROVE  /\ steady[n] \in Nat /\ steady[n] <= MaxAge
           /\ SampleAge(n) \in Nat /\ SampleAge(n) <= SnapshotInterval
           /\ SampleAge(n) = SnapshotInterval - sampleIn[n]
           /\ lastWritten[n] # Never => lastWritten[n] \in Nat
  BY RegistryAssumption DEF TypeOK, Age, SampleAge

LEMMA CallTypes ==
    ASSUME TypeOK, NEW c \in calls
    PROVE  c \in Call /\ c.node \in Nodes /\ c.age \in Age /\ c.age \in Nat
  BY DEF TypeOK, Call, Age

(* No heartbeat is under way for longer than MaxDelay.                     *)
LEMMA NoOldPending ==
    ASSUME TypeOK, CallsAreYoung, NEW n \in Nodes
    PROVE  ~Pending(n, MaxDelay + 1)
  BY LagFacts, CallTypes DEF CallsAreYoung, YoungCall, Pending

(* So the record of a node that has been steady for longer is of a         *)
(* heartbeat that can have been followed by skipped ones only.             *)
LEMMA FreshIsYoung ==
    ASSUME TypeOK, CallsAreYoung, NEW n \in Nodes, Healthy(n), Fresh(n),
           steady[n] > MaxDelay + 1
    PROVE  registry[n].beat <= Lag
  <1>1. Clean(n, MaxDelay + 1)
    BY LagFacts DEF Clean
  <1>2. ~(registry[n].beat - (MaxDelay + 1) >= MaxDelay + Gap)
    BY <1>1, LagFacts, NoOldPending DEF Fresh
  <1>. QED
    BY <1>2, LagFacts, HealthyBeat

(* A sample that is older than Lag overwrites nothing any more.            *)
LEMMA OverwrittenIsYoung ==
    ASSUME TypeOK, CallsAreYoung, NEW n \in Nodes, Overwritten(n), steady[n] > Lag
    PROVE  SampleAge(n) <= Lag
  <1> SUFFICES ASSUME SampleAge(n) > Lag PROVE FALSE
    BY LagFacts, NodeTypes
  <1> DEFINE since == (IF SampleAge(n) < steady[n] THEN SampleAge(n) ELSE steady[n]) - MaxDelay
  <1>1. Clean(n, MaxDelay + 1)
    BY LagFacts, NodeTypes DEF Clean
  <1>2. since - (MaxDelay + 1) >= Gap
    BY LagFacts, NodeTypes
  <1>. HIDE DEF since
  <1>3. \A a \in Age : Clean(n, a) /\ since - a >= Gap => Pending(n, a)
    BY DEF Overwritten, since
  <1>. QED
    BY <1>1, <1>2, <1>3, LagFacts, NoOldPending

(* A step that leaves a node on a short memory: right after a fault, or    *)
(* with a sample that is no older than a handler may be.                   *)
LEMMA OverwrittenAnew ==
    ASSUME TypeOK', NEW n \in Nodes,
           SampleAge(n)' <= MaxDelay \/ steady'[n] <= MaxDelay,
           steady'[n] - SampleAge(n)' > Lag => registry'[n].beat <= Lag + SampleAge(n)'
    PROVE  Overwritten(n)'
  <1> DEFINE since == (IF SampleAge(n)' < steady'[n] THEN SampleAge(n)' ELSE steady'[n]) - MaxDelay
  <1>1. /\ steady'[n] \in Nat
        /\ SampleAge(n)' \in Nat
        /\ lastWritten'[n] # Never => lastWritten'[n] \in Nat
    BY RegistryAssumption DEF TypeOK, Age, SampleAge
  <1>2. since \in Int /\ since <= 0
    BY <1>1, LagFacts
  <1>. HIDE DEF since
  <1>3. lastWritten'[n] # Never => lastWritten'[n] >= since
    BY <1>1, <1>2
  <1>4. \A c \in Noting(n)' : c.age >= since
    BY <1>2 DEF TypeOK, Noting, Call, Age
  <1>5. \A a \in Age : ~(since - a >= Gap)
    BY <1>2, LagFacts DEF Age
  <1>6. Overwritten(n)' =
           (/\ lastWritten'[n] # Never => lastWritten'[n] >= since
            /\ \A c \in Noting(n)' : c.age >= since
            /\ \A a \in Age : Clean(n, a)' /\ since - a >= Gap => Pending(n, a)'
            /\ steady'[n] - SampleAge(n)' > Lag => registry'[n].beat <= Lag + SampleAge(n)')
    BY DEF Overwritten, since
  <1>. QED
    BY <1>3, <1>4, <1>5, <1>6

LEMMA AfterFault ==
    ASSUME TypeOK', NEW n \in Nodes, steady'[n] = 0
    PROVE  Overwritten(n)'
  <1>1. SampleAge(n)' \in Nat
    BY RegistryAssumption DEF TypeOK, SampleAge
  <1>. QED
    BY <1>1, LagFacts, OverwrittenAnew

-----------------------------------------------------------------------------
(* Steps that leave the record of a node alone.                            *)

Counts(n) == Fresh(n) \/ Overwritten(n)

LEMMA CountsStay ==
    ASSUME NEW n \in Nodes, Counts(n),
           registry'[n] = registry[n], lastWritten'[n] = lastWritten[n],
           steady'[n] = steady[n], sampleIn'[n] = sampleIn[n],
           Noting(n)' \subseteq Noting(n),
           \A a \in Age : Clean(n, a)' /\ (Clean(n, a) => Pending(n, a)) => Pending(n, a)'
    PROVE  Counts(n)'
  <1>1. SampleAge(n)' = SampleAge(n)
    BY DEF SampleAge
  <1>2. CASE Fresh(n)
    <2>1. Fresh(n)'
      BY <1>2 DEF Fresh
    <2>. QED
      BY <2>1 DEF Counts
  <1>3. CASE Overwritten(n)
    <2>1. Overwritten(n)'
      BY <1>1, <1>3 DEF Overwritten
    <2>. QED
      BY <2>1 DEF Counts
  <1>. QED
    BY <1>2, <1>3 DEF Counts

(* The step is one of a call of another node.                              *)
LEMMA OthersStay ==
    ASSUME NEW c \in calls, NEW n \in Nodes, n # c.node, Counts(n),
           registry'[n] = registry[n], lastWritten'[n] = lastWritten[n],
           steady'[n] = steady[n], sampleIn' = sampleIn, beatDue' = beatDue,
           calls \ {c} \subseteq calls',
           \A d \in calls' \ calls : d.node = c.node
    PROVE  Counts(n)'
  <1>1. \A d : d.node = n => (d \in calls' <=> d \in calls)
    OBVIOUS
  <1>2. Noting(n)' \subseteq Noting(n)
    BY <1>1 DEF Noting
  <1>3. \A a \in Age : (Pending(n, a)' <=> Pending(n, a)) /\ (Clean(n, a)' <=> Clean(n, a))
    BY <1>1 DEF Pending, Clean
  <1>. QED
    BY <1>2, <1>3, CountsStay

(* The calls that stay are as young, and have seen records as fresh, as    *)
(* before.                                                                 *)
LEMMA CallsStayRecent ==
    ASSUME TypeOK, TypeOK', CallsAreYoung, SeenIsRecent, sampleIn' = sampleIn,
           \A n \in Nodes : steady'[n] <= steady[n],
           \A c \in calls' \ calls : YoungCall(c)' /\ RecentSeen(c)'
    PROVE  CallsAreYoung' /\ SeenIsRecent'
  <1> SUFFICES ASSUME NEW c \in calls' PROVE YoungCall(c)' /\ RecentSeen(c)'
    BY DEF CallsAreYoung, SeenIsRecent
  <1>1. CASE c \in calls
    <2>1. YoungCall(c) /\ RecentSeen(c)
      BY <1>1 DEF CallsAreYoung, SeenIsRecent
    <2>2. c.node \in Nodes /\ c.age \in Nat
      BY <1>1, CallTypes
    <2>3. SampleAge(c.node)' = SampleAge(c.node)
      BY DEF SampleAge
    <2>4. steady[c.node] \in Nat /\ steady'[c.node] \in Nat /\ steady'[c.node] <= steady[c.node]
      BY <2>2 DEF TypeOK, Age
    <2>5. YoungCall(c)'
      BY <2>1, <2>2, <2>3, <2>4 DEF YoungCall
    <2>6. RecentSeen(c)'
      <3>1. steady'[c.node] - c.age > Lag => steady[c.node] - c.age > Lag
        BY <2>2, <2>4, LagFacts
      <3>. QED
        BY <2>1, <3>1 DEF RecentSeen
    <2>. QED
      BY <2>5, <2>6
  <1>. QED
    BY <1>1

-----------------------------------------------------------------------------
(* A step that changes neither a record nor the calls.                     *)
LEMMA IdleSteady ==
    ASSUME SteadyInv, UNCHANGED <<registry, caches, calls, agentVars>>
    PROVE  SteadyInv'
  <1>. UNCHANGED <<registry, lastWritten, calls, up, net, beatDue, sampleIn, steady>>
    BY DEF caches, agentVars
  <1>1. CallsAreYoung' /\ SeenIsRecent'
    BY DEF SteadyInv, CallsAreYoung, YoungCall, SeenIsRecent, RecentSeen, SampleAge
  <1>2. SteadyIsGood'
    BY DEF SteadyInv, SteadyIsGood, Good
  <1>3. BeatsCount'
    <2> SUFFICES ASSUME NEW n \in Nodes, Healthy(n)' PROVE Counts(n)'
      BY DEF BeatsCount, Counts
    <2>1. Counts(n)
      BY DEF SteadyInv, BeatsCount, Healthy, Counts
    <2>2. Noting(n)' = Noting(n)
      BY DEF Noting
    <2>3. \A a \in Age : (Clean(n, a)' <=> Clean(n, a)) /\ (Pending(n, a)' <=> Pending(n, a))
      BY DEF Clean, Pending
    <2>. QED
      BY <2>1, <2>2, <2>3, CountsStay
  <1>. QED
    BY <1>1, <1>2, <1>3 DEF SteadyInv

LEMMA BeatSteady ==
    ASSUME TypeOK, TypeOK', SteadyInv, NEW n \in Nodes, Beat(n)
    PROVE  SteadyInv'
  <1> DEFINE new == [node |-> n, kind |-> "heartbeat", age |-> 0, load |-> NoLoad,
                     at |-> "sent", seen |-> NoRecord]
  <1>1. UNCHANGED <<registry, lastWritten, up, net, sampleIn, steady>>
    BY DEF Beat, caches
  <1>2. calls \subseteq calls' /\ calls' \subseteq calls \cup {new} /\ (net[n] => new \in calls')
    BY DEF Beat, Post
  <1>3. beatDue' = [beatDue EXCEPT ![n] = FALSE] /\ beatDue[n]
    BY DEF Beat
  <1>4. CallsAreYoung' /\ SeenIsRecent'
    <2>1. YoungCall(new)' /\ RecentSeen(new)'
      BY LagFacts DEF YoungCall, RecentSeen
    <2>2. \A m \in Nodes : steady'[m] <= steady[m]
      BY <1>1 DEF TypeOK, Age
    <2>. HIDE DEF new
    <2>. QED
      BY <1>1, <1>2, <2>1, <2>2, CallsStayRecent DEF SteadyInv
  <1>5. SteadyIsGood'
    BY <1>1 DEF SteadyInv, SteadyIsGood, Good
  <1>6. BeatsCount'
    <2> SUFFICES ASSUME NEW m \in Nodes, Healthy(m)' PROVE Counts(m)'
      BY DEF BeatsCount, Counts
    <2>1. Counts(m)
      BY <1>1 DEF SteadyInv, BeatsCount, Healthy, Counts
    <2>2. Noting(m)' \subseteq Noting(m)
      BY <1>2 DEF Noting
    <2>3. \A a \in Age : Pending(m, a) => Pending(m, a)'
      BY <1>2 DEF Pending
    <2>4. \A a \in Age : Clean(m, a)' => Clean(m, a) \/ Pending(m, a)'
      <3> SUFFICES ASSUME NEW a \in Age, Clean(m, a)', ~Clean(m, a) PROVE Pending(m, a)'
        OBVIOUS
      <3>1. m = n /\ a = 0
        BY <1>1, <1>3 DEF Clean, TypeOK
      <3>2. net[n]
        BY <1>1, <3>1 DEF Clean, SteadyInv, SteadyIsGood, Good, TypeOK, Age
      <3>. QED
        BY <1>2, <3>1, <3>2 DEF Pending
    <2>. QED
      BY <1>1, <2>1, <2>2, <2>3, <2>4, CountsStay
  <1>. QED
    BY <1>4, <1>5, <1>6 DEF SteadyInv

(* A sample is taken only when the last one overwrites nothing any more.   *)
LEMMA SampleSteady ==
    ASSUME Timely, TypeOK, TypeOK', SteadyInv, NEW n \in Nodes, NEW l \in Loads, Sample(n, l)
    PROVE  SteadyInv'
  <1> DEFINE new == [node |-> n, kind |-> "snapshot", age |-> 0, load |-> l,
                     at |-> "sent", seen |-> NoRecord]
  <1>1. UNCHANGED <<registry, lastWritten, up, net, beatDue, steady>>
    BY DEF Sample, caches
  <1>2. calls \subseteq calls' /\ calls' \subseteq calls \cup {new}
    BY DEF Sample, Post
  <1>3. sampleIn' = [sampleIn EXCEPT ![n] = SnapshotInterval] /\ sampleIn[n] = 0
    BY DEF Sample
  <1>4. /\ SampleAge(n) = SnapshotInterval /\ SampleAge(n)' = 0
        /\ \A m \in Nodes : m # n => SampleAge(m)' = SampleAge(m) /\ sampleIn'[m] = sampleIn[m]
    BY <1>3, RegistryAssumption DEF SampleAge, TypeOK
  <1>5. SnapshotInterval > Lag /\ SnapshotInterval \in Nat
    BY RegistryAssumption DEF Timely
  <1>6. CallsAreYoung' /\ SeenIsRecent'
    <2> SUFFICES ASSUME NEW c \in calls' PROVE YoungCall(c)' /\ RecentSeen(c)'
      BY DEF CallsAreYoung, SeenIsRecent
    <2>1. CASE c = new
      BY <1>4, <2>1, LagFacts DEF YoungCall, RecentSeen
    <2>2. CASE c \in calls
      <3>1. YoungCall(c) /\ RecentSeen(c) /\ c.node \in Nodes /\ c.age \in Nat
        BY <2>2, CallTypes DEF SteadyInv, CallsAreYoung, SeenIsRecent
      <3>2. RecentSeen(c)'
        BY <1>1, <3>1 DEF RecentSeen
      <3>3. YoungCall(c)'
        BY <1>1, <1>4, <1>5, <3>1, LagFacts DEF YoungCall
      <3>. QED
        BY <3>2, <3>3
    <2>. QED
      BY <1>2, <2>1, <2>2
  <1>7. SteadyIsGood'
    BY <1>1 DEF SteadyInv, SteadyIsGood, Good
  <1>8. BeatsCount'
    <2> SUFFICES ASSUME NEW m \in Nodes, Healthy(m)' PROVE Counts(m)'
      BY DEF BeatsCount, Counts
    <2>1. Counts(m) /\ Healthy(m)
      BY <1>1 DEF SteadyInv, BeatsCount, Healthy, Counts
    <2>2. Noting(m)' \subseteq Noting(m)
      BY <1>2 DEF Noting
    <2>3. \A a \in Age : (Pending(m, a) => Pending(m, a)') /\ (Clean(m, a)' <=> Clean(m, a))
      BY <1>1, <1>2 DEF Pending, Clean
    <2>4. CASE m # n
      BY <1>1, <1>4, <2>1, <2>2, <2>3, <2>4, CountsStay
    <2>5. CASE m = n /\ Fresh(m)
      BY <1>1, <2>2, <2>3, <2>5 DEF Fresh, Counts
    <2>6. CASE m = n /\ Overwritten(m)
      <3>1. ~(steady[n] > Lag)
        BY <1>4, <1>5, <2>6, OverwrittenIsYoung, LagFacts DEF SteadyInv
      <3>2. ~(steady'[n] - SampleAge(n)' > Lag)
        BY <1>1, <1>4, <3>1, NodeTypes, LagFacts
      <3>. QED
        BY <1>4, <2>6, <3>2, OverwrittenAnew, LagFacts DEF Counts
    <2>. QED
      BY <2>1, <2>4, <2>5, <2>6 DEF Counts
  <1>. QED
    BY <1>6, <1>7, <1>8 DEF SteadyInv

-----------------------------------------------------------------------------
(* The handlers.                                                           *)

LEMMA HeartbeatReadsSteady ==
    ASSUME TypeOK, TypeOK', SteadyInv, NEW c \in calls, HeartbeatReads(c)
    PROVE  SteadyInv'
  <1> DEFINE point == [c EXCEPT !.at = "write", !.seen = registry[c.node]]
  <1>1. UNCHANGED <<registry, lastWritten, up, net, beatDue, sampleIn, steady>>
    BY DEF HeartbeatReads, caches, agentVars
  <1>2. c.kind = "heartbeat" /\ c.at = "sent" /\ c \in Call /\ c.node \in Nodes /\ c.age \in Nat
    BY CallTypes DEF HeartbeatReads
  <1>3. point.kind = "heartbeat" /\ point.at = "write" /\ point.node = c.node /\ point.age = c.age
    BY <1>2 DEF Call
  <1>4. \/ calls' = calls \ {c} /\ Coalesced(c)
        \/ calls' = (calls \ {c}) \cup {point}
    BY DEF HeartbeatReads, Reads, Forwards, Ends
  <1>. HIDE DEF point
  <1>5. CallsAreYoung' /\ SeenIsRecent'
    <2>1. c.age <= MaxDelay
      BY DEF SteadyInv, CallsAreYoung, YoungCall
    <2>2. \A d \in calls' \ calls : YoungCall(d)' /\ RecentSeen(d)'
      BY <1>3, <1>4, <2>1 DEF YoungCall, RecentSeen
    <2>3. \A m \in Nodes : steady'[m] <= steady[m]
      BY <1>1 DEF TypeOK, Age
    <2>. QED
      BY <1>1, <2>2, <2>3, CallsStayRecent DEF SteadyInv
  <1>6. SteadyIsGood'
    BY <1>1 DEF SteadyInv, SteadyIsGood, Good
  <1>7. BeatsCount'
    <2> SUFFICES ASSUME NEW n \in Nodes, Healthy(n)' PROVE Counts(n)'
      BY DEF BeatsCount, Counts
    <2>1. Counts(n) /\ Healthy(n)
      BY <1>1 DEF SteadyInv, BeatsCount, Healthy, Counts
    <2>2. CASE n # c.node
      BY <1>1, <1>3, <1>4, <2>1, <2>2, OthersStay
    <2>3. CASE n = c.node
      <3>1. Noting(n)' \subseteq Noting(n)
        BY <1>3, <1>4 DEF Noting
      <3>2. \A a \in Age : Clean(n, a)' <=> Clean(n, a)
        BY <1>1 DEF Clean
      <3>3. CASE calls' = (calls \ {c}) \cup {point}
        <4>1. \A a \in Age : Pending(n, a) => Pending(n, a)'
          BY <1>3, <2>3, <3>3 DEF Pending
        <4>. QED
          BY <1>1, <2>1, <3>1, <3>2, <4>1, CountsStay
      <3>4. CASE calls' = calls \ {c} /\ Coalesced(c)
        <4>1. \A a \in Age : a # c.age /\ Pending(n, a) => Pending(n, a)'
          BY <3>4 DEF Pending
        <4>2. lastWritten[n] # Never /\ lastWritten[n] \in Nat /\ lastWritten[n] - c.age < Gap
          BY <2>3, <3>4, NodeTypes, LagFacts, <1>2 DEF Coalesced
        <4>3. CASE Fresh(n)
          <5>1. registry[n].beat - lastWritten[n] <= MaxDelay
            BY <4>2, <4>3 DEF Fresh
          <5>2. ~(registry[n].beat - c.age >= MaxDelay + Gap)
            BY <1>2, <2>1, <4>2, <5>1, HealthyBeat, LagFacts
          <5>3. Fresh(n)'
            BY <1>1, <3>1, <3>2, <4>1, <4>3, <5>2 DEF Fresh
          <5>. QED
            BY <5>3 DEF Counts
        <4>4. CASE Overwritten(n)
          <5> DEFINE since == (IF SampleAge(n) < steady[n] THEN SampleAge(n) ELSE steady[n]) - MaxDelay
          <5>1. since \in Int
            BY NodeTypes, LagFacts
          <5>2. SampleAge(n)' = SampleAge(n)
            BY <1>1 DEF SampleAge
          <5>3. lastWritten[n] >= since
            BY <4>2, <4>4 DEF Overwritten
          <5>4. ~(since - c.age >= Gap)
            <6>. HIDE DEF since
            <6>. QED
              BY <1>2, <4>2, <5>1, <5>3, LagFacts
          <5>5. Overwritten(n)'
            BY <1>1, <3>1, <3>2, <4>1, <4>4, <5>2, <5>4 DEF Overwritten
          <5>. QED
            BY <5>5 DEF Counts
        <4>. QED
          BY <2>1, <4>3, <4>4 DEF Counts
      <3>. QED
        BY <1>4, <3>3, <3>4
    <2>. QED
      BY <2>2, <2>3
  <1>. QED
    BY <1>5, <1>6, <1>7 DEF SteadyInv

LEMMA HeartbeatWritesSteady ==
    ASSUME TypeOK, TypeOK', SteadyInv, NEW c \in calls, HeartbeatWrites(c)
    PROVE  SteadyInv'
  <1>1. UNCHANGED <<lastWritten, up, net, beatDue, sampleIn, steady>>
    BY DEF HeartbeatWrites, caches, agentVars
  <1>2. c.kind = "heartbeat" /\ c.at = "write" /\ c \in Call /\ c.node \in Nodes /\ c.age \in Nat
    BY CallTypes DEF HeartbeatWrites
  <1>3. c.age <= MaxDelay
    BY DEF SteadyInv, CallsAreYoung, YoungCall
  <1>4. registry'[c.node].beat = c.age /\ \A n \in Nodes : n # c.node => registry'[n] = registry[n]
    BY <1>2 DEF HeartbeatWrites, TypeOK
  <1>5. /\ calls \ {c} \subseteq calls'
        /\ \A d \in calls' \ calls : /\ d.node = c.node /\ d.age = c.age
                                     /\ d.kind = "heartbeat" /\ d.at = "note"
    BY <1>2 DEF HeartbeatWrites, Forwards, Call
  <1>6. CallsAreYoung' /\ SeenIsRecent'
    <2>1. \A d \in calls' \ calls : YoungCall(d)' /\ RecentSeen(d)'
      BY <1>3, <1>5 DEF YoungCall, RecentSeen
    <2>2. \A m \in Nodes : steady'[m] <= steady[m]
      BY <1>1 DEF TypeOK, Age
    <2>. QED
      BY <1>1, <2>1, <2>2, CallsStayRecent DEF SteadyInv
  <1>7. SteadyIsGood'
    BY <1>1 DEF SteadyInv, SteadyIsGood, Good
  <1>8. BeatsCount'
    <2> SUFFICES ASSUME NEW n \in Nodes, Healthy(n)' PROVE Counts(n)'
      BY DEF BeatsCount, Counts
    <2>1. CASE n # c.node
      <3>1. Counts(n)
        BY <1>4, <2>1 DEF SteadyInv, BeatsCount, Healthy, Counts
      <3>. QED
        BY <1>1, <1>4, <1>5, <2>1, <3>1, OthersStay
    <2>2. CASE n = c.node
      <3>1. registry'[n].beat = c.age
        BY <1>4, <2>2
      <3>2. lastWritten'[n] # Never => c.age - lastWritten'[n] <= MaxDelay
        BY <1>1, <1>2, <1>3, NodeTypes, LagFacts
      <3>3. \A d \in Noting(n)' : c.age - d.age <= MaxDelay
        BY <1>2, <1>3, LagFacts DEF Noting, TypeOK, Call, Age
      <3>4. \A a \in Age : ~(c.age - a >= MaxDelay + Gap)
        BY <1>2, <1>3, LagFacts DEF Age
      <3>5. Fresh(n)'
        BY <3>1, <3>2, <3>3, <3>4 DEF Fresh
      <3>. QED
        BY <3>5 DEF Counts
    <2>. QED
      BY <2>1, <2>2
  <1>. QED
    BY <1>6, <1>7, <1>8 DEF SteadyInv

LEMMA HeartbeatNotedSteady ==
    ASSUME TypeOK, TypeOK', SteadyInv, NEW c \in calls, HeartbeatNoted(c)
    PROVE  SteadyInv'
  <1>1. UNCHANGED <<registry, up, net, beatDue, sampleIn, steady>>
    BY DEF HeartbeatNoted, agentVars
  <1>2. c.kind = "heartbeat" /\ c.at = "note" /\ c.node \in Nodes /\ c.age \in Nat
    BY CallTypes DEF HeartbeatNoted
  <1>3. lastWritten'[c.node] = c.age /\ \A n \in Nodes : n # c.node => lastWritten'[n] = lastWritten[n]
    BY <1>2 DEF HeartbeatNoted, TypeOK
  <1>4. calls' = calls \ {c}
    BY DEF HeartbeatNoted, Ends
  <1>5. CallsAreYoung' /\ SeenIsRecent'
    <2>1. \A m \in Nodes : steady'[m] <= steady[m]
      BY <1>1 DEF TypeOK, Age
    <2>. QED
      BY <1>1, <1>4, <2>1, CallsStayRecent DEF SteadyInv
  <1>6. SteadyIsGood'
    BY <1>1 DEF SteadyInv, SteadyIsGood, Good
  <1>7. BeatsCount'
    <2> SUFFICES ASSUME NEW n \in Nodes, Healthy(n)' PROVE Counts(n)'
      BY DEF BeatsCount, Counts
    <2>1. Counts(n)
      BY <1>1 DEF SteadyInv, BeatsCount, Healthy, Counts
    <2>2. CASE n # c.node
      BY <1>1, <1>3, <1>4, <2>1, <2>2, OthersStay
    <2>3. CASE n = c.node
      <3>1. Noting(n)' \subseteq Noting(n) /\ c \in Noting(n)
        BY <1>2, <1>4, <2>3 DEF Noting
      <3>2. \A a \in Age : (Clean(n, a)' <=> Clean(n, a)) /\ (Pending(n, a)' <=> Pending(n, a))
        BY <1>1, <1>2, <1>4 DEF Clean, Pending
      <3>3. CASE Fresh(n)
        <4>1. registry'[n].beat - lastWritten'[n] <= MaxDelay
          BY <1>1, <1>3, <2>3, <3>1, <3>3 DEF Fresh
        <4>2. Fresh(n)'
          BY <1>1, <3>1, <3>2, <3>3, <4>1 DEF Fresh
        <4>. QED
          BY <4>2 DEF Counts
      <3>4. CASE Overwritten(n)
        <4>1. SampleAge(n)' = SampleAge(n)
          BY <1>1 DEF SampleAge
        <4>2. Overwritten(n)'
          BY <1>1, <1>3, <2>3, <3>1, <3>2, <3>4, <4>1 DEF Overwritten
        <4>. QED
          BY <4>2 DEF Counts
      <3>. QED
        BY <2>1, <3>3, <3>4 DEF Counts
    <2>. QED
      BY <2>2, <2>3
  <1>. QED
    BY <1>5, <1>6, <1>7 DEF SteadyInv

(* A snapshot handler that reads a record when its node has been steady    *)
(* since well before the sample finds a record that is not old.            *)
LEMMA SnapshotReadsSteady ==
    ASSUME TypeOK, TypeOK', SteadyInv, NEW c \in calls, SnapshotReads(c)
    PROVE  SteadyInv'
  <1> DEFINE point == [c EXCEPT !.at = "write", !.seen = registry[c.node]]
  <1>1. UNCHANGED <<registry, lastWritten, up, net, beatDue, sampleIn, steady>>
    BY DEF SnapshotReads, caches, agentVars
  <1>2. c.kind = "snapshot" /\ c \in Call /\ c.node \in Nodes /\ c.age \in Nat
    BY CallTypes DEF SnapshotReads
  <1>3. \/ calls' = calls \ {c}
        \/ calls' = (calls \ {c}) \cup {point} /\ registry[c.node] # NoRecord
    BY DEF SnapshotReads, Reads, Forwards, Ends
  <1>4. /\ calls \ {c} \subseteq calls'
        /\ \A d \in calls' \ calls : /\ d.node = c.node /\ d.age = c.age /\ d.kind = "snapshot"
                                     /\ d.at = "write" /\ d.seen = registry[c.node]
                                     /\ registry[c.node] # NoRecord
    BY <1>2, <1>3 DEF Call
  <1>. HIDE DEF point
  <1>5. YoungCall(c)
    BY DEF SteadyInv, CallsAreYoung
  <1>6. ASSUME Healthy(c.node), steady[c.node] - c.age > Lag
        PROVE  registry[c.node].beat <= Lag + c.age
    <2>1. steady[c.node] > Lag /\ c.age < steady[c.node] /\ c.age = SampleAge(c.node)
      BY <1>2, <1>5, <1>6, NodeTypes, LagFacts DEF YoungCall
    <2>2. CASE Fresh(c.node)
      <3>1. registry[c.node].beat <= Lag
        BY <1>2, <1>6, <2>1, <2>2, FreshIsYoung, NodeTypes, LagFacts DEF SteadyInv
      <3>. QED
        BY <1>2, <1>6, <3>1, HealthyBeat, LagFacts
    <2>3. CASE Overwritten(c.node)
      BY <1>6, <2>1, <2>3 DEF Overwritten
    <2>. QED
      BY <1>2, <1>6, <2>2, <2>3 DEF SteadyInv, BeatsCount
  <1>7. CallsAreYoung' /\ SeenIsRecent'
    <2>1. SampleAge(c.node)' = SampleAge(c.node)
      BY <1>1 DEF SampleAge
    <2>2. \A d \in calls' \ calls : YoungCall(d)'
      BY <1>1, <1>2, <1>4, <1>5, <2>1 DEF YoungCall
    <2>3. \A d \in calls' \ calls : RecentSeen(d)'
      BY <1>1, <1>4, <1>6 DEF RecentSeen, Healthy
    <2>4. \A m \in Nodes : steady'[m] <= steady[m]
      BY <1>1 DEF TypeOK, Age
    <2>. QED
      BY <1>1, <2>2, <2>3, <2>4, CallsStayRecent DEF SteadyInv
  <1>8. SteadyIsGood'
    BY <1>1 DEF SteadyInv, SteadyIsGood, Good
  <1>9. BeatsCount'
    <2> SUFFICES ASSUME NEW n \in Nodes, Healthy(n)' PROVE Counts(n)'
      BY DEF BeatsCount, Counts
    <2>1. Counts(n)
      BY <1>1 DEF SteadyInv, BeatsCount, Healthy, Counts
    <2>2. Noting(n)' \subseteq Noting(n)
      BY <1>4 DEF Noting
    <2>3. \A a \in Age : (Clean(n, a)' <=> Clean(n, a)) /\ (Pending(n, a) => Pending(n, a)')
      BY <1>1, <1>2, <1>4 DEF Clean, Pending
    <2>. QED
      BY <1>1, <2>1, <2>2, <2>3, CountsStay
  <1>. QED
    BY <1>7, <1>8, <1>9 DEF SteadyInv

(* What it writes back is the record that was fresh when the sample was    *)
(* taken, and no older than the sample is by now.                          *)
LEMMA SnapshotWritesSteady ==
    ASSUME TypeOK, TypeOK', UpdatesHaveRecords, SteadyInv, NEW c \in calls, SnapshotWrites(c)
    PROVE  SteadyInv'
  <1>1. UNCHANGED <<lastWritten, up, net, beatDue, sampleIn, steady>>
    BY DEF SnapshotWrites, agentVars
  <1>2. c.kind = "snapshot" /\ c.at = "write" /\ c \in Call /\ c.node \in Nodes /\ c.age \in Nat
    BY CallTypes DEF SnapshotWrites
  <1>3. c.seen \in NodeState
    BY <1>2 DEF UpdatesHaveRecords, Call, Record
  <1>4. /\ registry'[c.node].beat = c.seen.beat /\ registry'[c.node].status = c.seen.status
        /\ \A n \in Nodes : n # c.node => registry'[n] = registry[n]
    BY <1>2, <1>3 DEF SnapshotWrites, TypeOK, NodeState
  <1>5. calls' = calls \ {c}
    BY DEF SnapshotWrites, Ends
  <1>6. CallsAreYoung' /\ SeenIsRecent'
    <2>1. \A m \in Nodes : steady'[m] <= steady[m]
      BY <1>1 DEF TypeOK, Age
    <2>. QED
      BY <1>1, <1>5, <2>1, CallsStayRecent DEF SteadyInv
  <1>7. SteadyIsGood'
    BY <1>1 DEF SteadyInv, SteadyIsGood, Good
  <1>8. BeatsCount'
    <2> SUFFICES ASSUME NEW n \in Nodes, Healthy(n)' PROVE Counts(n)'
      BY DEF BeatsCount, Counts
    <2>1. CASE n # c.node
      <3>1. Counts(n)
        BY <1>4, <2>1 DEF SteadyInv, BeatsCount, Healthy, Counts
      <3>. QED
        BY <1>1, <1>4, <1>5, <2>1, <3>1, OthersStay
    <2>2. CASE n = c.node
      <3>1. c.seen.status = "healthy"
        BY <1>4, <2>2 DEF Healthy
      <3>2. YoungCall(c) /\ RecentSeen(c)
        BY DEF SteadyInv, CallsAreYoung, SeenIsRecent
      <3>3. SampleAge(n)' = SampleAge(n)
        BY <1>1 DEF SampleAge
      <3>4. c.age < steady[n] => c.age = SampleAge(n)
        BY <1>2, <2>2, <3>2 DEF YoungCall
      <3>5. SampleAge(n) <= MaxDelay \/ steady[n] <= MaxDelay
        BY <1>2, <3>2, <3>4, NodeTypes, LagFacts DEF YoungCall
      <3>6. steady[n] - SampleAge(n) > Lag => registry'[n].beat <= Lag + SampleAge(n)
        <4> SUFFICES ASSUME steady[n] - SampleAge(n) > Lag
                     PROVE  c.seen.beat <= Lag + SampleAge(n)
          BY <1>4, <2>2
        <4>1. c.age < steady[n]
          BY <1>2, <3>2, NodeTypes, LagFacts DEF YoungCall
        <4>. QED
          BY <1>2, <2>2, <3>1, <3>2, <3>4, <4>1 DEF RecentSeen
      <3>. QED
        BY <1>1, <3>3, <3>5, <3>6, OverwrittenAnew DEF Counts
    <2>. QED
      BY <2>1, <2>2
  <1>. QED
    BY <1>6, <1>7, <1>8 DEF SteadyInv

LEMMA MarkWritesSteady ==
    ASSUME TypeOK, TypeOK', UpdatesHaveRecords, SteadyInv, NEW n \in Nodes, MarkWrites(n)
    PROVE  SteadyInv'
  <1>1. UNCHANGED <<lastWritten, calls, up, net, beatDue, sampleIn, steady>>
    BY DEF MarkWrites, caches, agentVars
  <1>2. round.seen \in NodeState
    BY DEF MarkWrites, UpdatesHaveRecords, TypeOK, Round, Record
  <1>3. /\ registry'[n].status = "unavailable"
        /\ \A m \in Nodes : m # n => registry'[m] = registry[m]
    BY <1>2 DEF MarkWrites, TypeOK, NodeState
  <1>4. CallsAreYoung' /\ SeenIsRecent' /\ SteadyIsGood'
    BY <1>1 DEF SteadyInv, CallsAreYoung, YoungCall, SeenIsRecent, RecentSeen, SampleAge,
                SteadyIsGood, Good
  <1>5. BeatsCount'
    <2> SUFFICES ASSUME NEW m \in Nodes, Healthy(m)' PROVE Counts(m)'
      BY DEF BeatsCount, Counts
    <2>1. registry'[m] = registry[m]
      BY <1>3 DEF Healthy
    <2>2. Counts(m)
      BY <2>1 DEF SteadyInv, BeatsCount, Healthy, Counts
    <2>3. Noting(m)' = Noting(m)
      BY <1>1 DEF Noting
    <2>4. \A a \in Age : (Clean(m, a)' <=> Clean(m, a)) /\ (Pending(m, a)' <=> Pending(m, a))
      BY <1>1 DEF Clean, Pending
    <2>. QED
      BY <1>1, <2>1, <2>2, <2>3, <2>4, CountsStay
  <1>. QED
    BY <1>4, <1>5 DEF SteadyInv

(* A fault starts the count of its node anew.                              *)
LEMMA FaultSteady ==
    ASSUME TypeOK, TypeOK', SteadyInv, UNCHANGED <<registry, lastWritten, sampleIn>>,
           calls' \subseteq calls,
           \A n \in Nodes : \/ steady'[n] = 0
                            \/ /\ steady'[n] = steady[n] /\ Good(n)' = Good(n)
                               /\ beatDue'[n] = beatDue[n]
                               /\ \A c \in calls \ calls' : c.node # n
    PROVE  SteadyInv'
  <1>1. CallsAreYoung' /\ SeenIsRecent'
    <2>1. \A n \in Nodes : steady'[n] <= steady[n]
      BY DEF TypeOK, Age
    <2>. QED
      BY <2>1, CallsStayRecent DEF SteadyInv
  <1>2. SteadyIsGood'
    BY DEF SteadyInv, SteadyIsGood
  <1>3. BeatsCount'
    <2> SUFFICES ASSUME NEW n \in Nodes, Healthy(n)' PROVE Counts(n)'
      BY DEF BeatsCount, Counts
    <2>1. CASE steady'[n] = 0
      BY <2>1, AfterFault DEF Counts
    <2>2. CASE /\ steady'[n] = steady[n] /\ beatDue'[n] = beatDue[n]
               /\ \A c \in calls \ calls' : c.node # n
      <3>1. Counts(n)
        BY DEF SteadyInv, BeatsCount, Healthy, Counts
      <3>2. Noting(n)' \subseteq Noting(n)
        BY DEF Noting
      <3>3. \A a \in Age : (Clean(n, a)' <=> Clean(n, a)) /\ (Pending(n, a) => Pending(n, a)')
        BY <2>2 DEF Clean, Pending
      <3>. QED
        BY <2>2, <3>1, <3>2, <3>3, CountsStay
    <2>. QED
      BY <2>1, <2>2
  <1>. QED
    BY <1>1, <1>2, <1>3 DEF SteadyInv

LEMMA FaultsSteady ==
    ASSUME TypeOK, TypeOK', SteadyInv,
           \/ \E n \in Nodes : Partition(n) \/ AgentStops(n)
           \/ \E c \in calls : StoreFails(c)
           \/ ControllerFails
    PROVE  SteadyInv'
  <1>1. ASSUME NEW n \in Nodes, Partition(n) \/ AgentStops(n) PROVE SteadyInv'
    <2>1. UNCHANGED <<registry, lastWritten, sampleIn>> /\ calls' = calls
      BY <1>1 DEF Partition, AgentStops, caches
    <2>2. steady' = [steady EXCEPT ![n] = 0]
      BY <1>1 DEF Partition, AgentStops
    <2>3. \A m \in Nodes : m # n => up'[m] = up[m] /\ net'[m] = net[m] /\ beatDue'[m] = beatDue[m]
      BY <1>1 DEF Partition, AgentStops, TypeOK
    <2>4. \A m \in Nodes : m # n => Good(m)' = Good(m)
      BY <2>3 DEF Good
    <2>. QED
      BY <2>1, <2>2, <2>3, <2>4, FaultSteady DEF TypeOK
  <1>2. ASSUME NEW c \in calls, StoreFails(c) PROVE SteadyInv'
    <2>1. /\ UNCHANGED <<registry, lastWritten, sampleIn, up, net, beatDue>>
          /\ calls' = calls \ {c} /\ steady' = [steady EXCEPT ![c.node] = 0]
      BY <1>2 DEF StoreFails, Ends, caches
    <2>2. \A m \in Nodes : Good(m)' = Good(m)
      BY <2>1 DEF Good
    <2>. QED
      BY <2>1, <2>2, FaultSteady DEF TypeOK
  <1>3. CASE ControllerFails
    <2>1. UNCHANGED <<registry, up, net, sampleIn>> /\ calls' = {}
      BY <1>3 DEF ControllerFails
    <2>2. \A n \in Nodes : steady'[n] = 0
      BY <1>3 DEF ControllerFails
    <2>3. CallsAreYoung' /\ SeenIsRecent' /\ SteadyIsGood'
      BY <2>1, <2>2 DEF CallsAreYoung, SeenIsRecent, SteadyIsGood
    <2>4. BeatsCount'
      BY <2>2, AfterFault DEF BeatsCount
    <2>. QED
      BY <2>3, <2>4 DEF SteadyInv
  <1>. QED
    BY <1>1, <1>2, <1>3

(* An agent that starts is not steady yet.                                 *)
LEMMA AgentStartsSteady ==
    ASSUME TypeOK, TypeOK', SteadyInv, NEW n \in Nodes, AgentStarts(n)
    PROVE  SteadyInv'
  <1>1. UNCHANGED <<registry, lastWritten, calls, net, beatDue, steady>>
    BY DEF AgentStarts, caches
  <1>2. /\ \A m \in Nodes : m # n => up'[m] = up[m] /\ sampleIn'[m] = sampleIn[m]
        /\ ~up[n]
    BY DEF AgentStarts, TypeOK
  <1>3. steady[n] = 0
    BY <1>2, NodeTypes DEF SteadyInv, SteadyIsGood, Good
  <1>4. \A m \in Nodes : m # n => SampleAge(m)' = SampleAge(m)
    BY <1>2 DEF SampleAge
  <1>5. CallsAreYoung' /\ SeenIsRecent'
    <2> SUFFICES ASSUME NEW c \in calls PROVE YoungCall(c)' /\ RecentSeen(c)'
      BY <1>1 DEF CallsAreYoung, SeenIsRecent
    <2>1. YoungCall(c) /\ RecentSeen(c) /\ c.node \in Nodes /\ c.age \in Nat
      BY CallTypes DEF SteadyInv, CallsAreYoung, SeenIsRecent
    <2>2. RecentSeen(c)'
      BY <1>1, <2>1 DEF RecentSeen
    <2>3. c.node = n => ~(c.age < steady[c.node])
      BY <1>3, <2>1
    <2>4. YoungCall(c)'
      BY <1>1, <1>4, <2>1, <2>3 DEF YoungCall
    <2>. QED
      BY <2>2, <2>4
  <1>6. SteadyIsGood'
    <2>1. \A m \in Nodes : m # n => Good(m)' = Good(m)
      BY <1>1, <1>2 DEF Good
    <2>. QED
      BY <1>1, <1>3, <2>1 DEF SteadyInv, SteadyIsGood
  <1>7. BeatsCount'
    <2> SUFFICES ASSUME NEW m \in Nodes, Healthy(m)' PROVE Counts(m)'
      BY DEF BeatsCount, Counts
    <2>1. CASE m = n
      BY <1>1, <1>3, <2>1, AfterFault DEF Counts
    <2>2. CASE m # n
      <3>1. Counts(m)
        BY <1>1 DEF SteadyInv, BeatsCount, Healthy, Counts
      <3>2. Noting(m)' \subseteq Noting(m)
        BY <1>1 DEF Noting
      <3>3. \A a \in Age : (Clean(m, a)' <=> Clean(m, a)) /\ (Pending(m, a)' <=> Pending(m, a))
        BY <1>1 DEF Clean, Pending
      <3>. QED
        BY <1>1, <1>2, <2>2, <3>1, <3>2, <3>3, CountsStay
    <2>. QED
      BY <2>1, <2>2
  <1>. QED
    BY <1>5, <1>6, <1>7 DEF SteadyInv

-----------------------------------------------------------------------------
(* Time: the records, the notes, the calls and the samples all age alike.  *)

LEMMA OlderFacts ==
    ASSUME NEW a \in Nat
    PROVE  /\ Older(a) \in Nat /\ Older(a) <= a + 1
           /\ a <= MaxAge => a <= Older(a) /\ Older(a) <= MaxAge
           /\ a < MaxAge => Older(a) = a + 1
  BY LagFacts DEF Older

(* What a tick does to a node.                                             *)
LEMMA TickNode ==
    ASSUME TypeOK, SteadyInv, Tick, NEW n \in Nodes, steady'[n] > 0
    PROVE  /\ Good(n) /\ ~beatDue[n]
           /\ steady'[n] = Older(steady[n])
           /\ SampleAge(n)' = SampleAge(n) + 1
           /\ lastWritten'[n] = Older(lastWritten[n])
           /\ registry'[n] = OlderRecord(registry[n])
  <1>1. Good(n) /\ steady'[n] = Older(steady[n])
    BY DEF Tick
  <1>2. ~beatDue[n] /\ sampleIn'[n] = sampleIn[n] - 1 /\ sampleIn[n] \in Int
    BY <1>1, RegistryAssumption DEF Tick, Good, TypeOK
  <1>3. SampleAge(n)' = SampleAge(n) + 1
    BY <1>2, RegistryAssumption DEF SampleAge
  <1>. QED
    BY <1>1, <1>2, <1>3 DEF Tick

LEMMA OlderHealthy ==
    ASSUME TypeOK, TypeOK', Tick, NEW n \in Nodes, Healthy(n)'
    PROVE  /\ Healthy(n)
           /\ registry[n].beat \in Nat /\ registry[n].beat <= MaxAge
           /\ registry'[n].beat = Older(registry[n].beat)
  <1>1. registry'[n] = OlderRecord(registry[n]) /\ registry'[n] # NoRecord
    BY DEF Tick, Healthy
  <1>2. registry[n] # NoRecord /\ registry'[n] = [registry[n] EXCEPT !.beat = Older(@)]
    BY <1>1 DEF OlderRecord
  <1>3. registry[n] \in NodeState
    BY <1>2 DEF TypeOK, Record
  <1>4. registry'[n].status = registry[n].status /\ registry'[n].beat = Older(registry[n].beat)
    BY <1>2, <1>3 DEF NodeState
  <1>. QED
    BY <1>2, <1>3, <1>4, LagFacts DEF Healthy, NodeState, Age

LEMMA OlderCallFacts ==
    ASSUME TypeOK, TypeOK', CallsAreYoung, Tick, NEW d \in calls'
    PROVE  \E c \in calls : /\ d = OlderCall(c) /\ c \in Call /\ c.node \in Nodes
                            /\ c.age \in Nat /\ c.age < MaxDelay
                            /\ d.node = c.node /\ d.kind = c.kind /\ d.at = c.at
                            /\ d.age = c.age + 1 /\ d.seen = OlderRecord(c.seen)
  <1>1. PICK c \in calls : d = OlderCall(c)
    BY DEF Tick
  <1>2. c.age < MaxDelay /\ c \in Call /\ c.node \in Nodes /\ c.age \in Nat
    BY CallTypes DEF Tick
  <1>3. Older(c.age) = c.age + 1
    BY <1>2, OlderFacts, LagFacts
  <1>4. d.age = Older(c.age) /\ d.seen = OlderRecord(c.seen)
    BY <1>1, <1>2 DEF OlderCall, Call
  <1>. QED
    BY <1>1, <1>2, <1>3, <1>4, OlderCallType

LEMMA TickPending ==
    ASSUME TypeOK, CallsAreYoung, Tick, NEW n \in Nodes, NEW a \in Nat, Pending(n, a)
    PROVE  Pending(n, a + 1)'
  <1>1. PICK c \in calls : /\ c.node = n /\ c.kind = "heartbeat" /\ c.age = a
                           /\ c.at \in {"sent", "write"}
    BY DEF Pending
  <1>2. OlderCall(c) \in calls' /\ c.age < MaxDelay /\ c \in Call
    BY CallTypes DEF Tick
  <1>3. Older(c.age) = c.age + 1
    BY <1>1, <1>2, OlderFacts, LagFacts
  <1>4. OlderCall(c).age = a + 1
    BY <1>1, <1>2, <1>3 DEF OlderCall, Call
  <1>5. OlderCall(c).node = n /\ OlderCall(c).kind = "heartbeat" /\ OlderCall(c).at \in {"sent", "write"}
    BY <1>1, <1>2, OlderCallType
  <1>. QED
    BY <1>2, <1>4, <1>5 DEF Pending

(* The clean heartbeats were clean a tick ago, when they were younger.     *)
LEMMA TickClean ==
    ASSUME TypeOK, TypeOK', SteadyInv, Tick, NEW n \in Nodes, NEW a \in Age, Clean(n, a)'
    PROVE  a - 1 \in Age /\ Clean(n, a - 1)
  <1>1. a # 0
    BY DEF Clean, Tick
  <1>2. a \in Nat /\ steady'[n] \in Nat /\ a < steady'[n] /\ steady'[n] > 0
    BY <1>1 DEF Clean, Age, TypeOK
  <1>3. ~beatDue[n] /\ steady'[n] <= steady[n] + 1
    BY <1>2, TickNode, NodeTypes, OlderFacts
  <1>4. a - 1 < steady[n]
    BY <1>2, <1>3, NodeTypes
  <1>5. a - 1 \in Age
    BY <1>1, <1>2, LagFacts DEF Age
  <1>. QED
    BY <1>3, <1>4, <1>5 DEF Clean

LEMMA TickFresh ==
    ASSUME TypeOK, TypeOK', SteadyInv, Tick, NEW n \in Nodes, Healthy(n)', steady'[n] > 0, Fresh(n)
    PROVE  Fresh(n)'
  <1>1. /\ registry[n].beat \in Nat /\ registry[n].beat <= MaxAge
        /\ registry'[n].beat = Older(registry[n].beat)
    BY OlderHealthy
  <1>2. /\ registry'[n].beat \in Nat /\ registry'[n].beat <= MaxAge
        /\ registry'[n].beat <= registry[n].beat + 1
    BY <1>1, OlderFacts
  <1>3. ASSUME lastWritten'[n] # Never PROVE registry'[n].beat - lastWritten'[n] <= MaxDelay
    <2>1. lastWritten[n] # Never /\ lastWritten[n] \in Nat /\ lastWritten'[n] = Older(lastWritten[n])
      BY <1>3, TickNode, NodeTypes, RegistryAssumption DEF Older
    <2>2. registry[n].beat - lastWritten[n] <= MaxDelay
      BY <2>1 DEF Fresh
    <2>3. lastWritten'[n] \in Nat /\ (lastWritten'[n] = lastWritten[n] + 1 \/ lastWritten'[n] >= MaxAge)
      BY <2>1, LagFacts DEF Older
    <2>. QED
      BY <1>1, <1>2, <2>1, <2>2, <2>3, LagFacts
  <1>4. ASSUME NEW d \in Noting(n)' PROVE registry'[n].beat - d.age <= MaxDelay
    <2>1. PICK c \in calls : /\ c.node = d.node /\ c.at = d.at /\ c.age \in Nat /\ d.age = c.age + 1
      BY <1>4, OlderCallFacts DEF Noting, SteadyInv
    <2>2. registry[n].beat - c.age <= MaxDelay
      BY <1>4, <2>1 DEF Fresh, Noting
    <2>. QED
      BY <1>1, <1>2, <2>1, <2>2, LagFacts
  <1>5. ASSUME NEW a \in Age, Clean(n, a)', registry'[n].beat - a >= MaxDelay + Gap
        PROVE  Pending(n, a)'
    <2>1. a - 1 \in Age /\ Clean(n, a - 1)
      BY <1>5, TickClean
    <2>2. registry[n].beat - (a - 1) >= MaxDelay + Gap
      BY <1>1, <1>2, <1>5, LagFacts DEF Age
    <2>3. Pending(n, a - 1)
      BY <2>1, <2>2 DEF Fresh
    <2>4. a - 1 \in Nat /\ (a - 1) + 1 = a
      BY <2>1 DEF Age
    <2>. QED
      BY <2>3, <2>4, TickPending DEF SteadyInv
  <1>. QED
    BY <1>3, <1>4, <1>5 DEF Fresh

LEMMA TickOverwritten ==
    ASSUME TypeOK, TypeOK', SteadyInv, Tick, NEW n \in Nodes, Healthy(n)', steady'[n] > 0,
           Overwritten(n)
    PROVE  Overwritten(n)'
  <1> DEFINE since == (IF SampleAge(n) < steady[n] THEN SampleAge(n) ELSE steady[n]) - MaxDelay
             next  == (IF SampleAge(n)' < steady'[n] THEN SampleAge(n)' ELSE steady'[n]) - MaxDelay
  <1>1. /\ registry[n].beat \in Nat /\ registry[n].beat <= MaxAge
        /\ registry'[n].beat = Older(registry[n].beat)
    BY OlderHealthy
  <1>2. registry'[n].beat \in Nat /\ registry'[n].beat <= registry[n].beat + 1
    BY <1>1, OlderFacts
  <1>3. /\ SampleAge(n) \in Nat /\ SampleAge(n)' = SampleAge(n) + 1
        /\ steady[n] \in Nat /\ steady'[n] \in Nat
        /\ steady'[n] <= steady[n] + 1 /\ steady'[n] <= MaxAge
    BY TickNode, NodeTypes, OlderFacts
  <1>4. since \in Int /\ next \in Int /\ next <= since + 1 /\ next <= MaxAge
    BY <1>3, LagFacts
  <1>5. /\ lastWritten[n] # Never => lastWritten[n] >= since
        /\ \A c \in Noting(n) : c.age >= since
        /\ \A a \in Age : Clean(n, a) /\ since - a >= Gap => Pending(n, a)
        /\ steady[n] - SampleAge(n) > Lag => registry[n].beat <= Lag + SampleAge(n)
    BY DEF Overwritten
  <1>6. Overwritten(n)' =
           (/\ lastWritten'[n] # Never => lastWritten'[n] >= next
            /\ \A c \in Noting(n)' : c.age >= next
            /\ \A a \in Age : Clean(n, a)' /\ next - a >= Gap => Pending(n, a)'
            /\ steady'[n] - SampleAge(n)' > Lag => registry'[n].beat <= Lag + SampleAge(n)')
    BY DEF Overwritten
  <1>. HIDE DEF since, next
  <1>7. ASSUME lastWritten'[n] # Never PROVE lastWritten'[n] >= next
    <2>1. lastWritten[n] # Never /\ lastWritten[n] \in Nat /\ lastWritten'[n] = Older(lastWritten[n])
      BY <1>7, TickNode, NodeTypes, RegistryAssumption DEF Older
    <2>2. lastWritten'[n] \in Nat /\ (lastWritten'[n] = lastWritten[n] + 1 \/ lastWritten'[n] >= MaxAge)
      BY <2>1, LagFacts DEF Older
    <2>. QED
      BY <1>4, <1>5, <2>1, <2>2, LagFacts
  <1>8. ASSUME NEW d \in Noting(n)' PROVE d.age >= next
    <2>1. PICK c \in calls : /\ c.node = d.node /\ c.at = d.at /\ c.age \in Nat /\ d.age = c.age + 1
      BY <1>8, OlderCallFacts DEF Noting, SteadyInv
    <2>2. c.age >= since
      BY <1>5, <1>8, <2>1 DEF Noting
    <2>. QED
      BY <1>4, <2>1, <2>2
  <1>9. ASSUME NEW a \in Age, Clean(n, a)', next - a >= Gap PROVE Pending(n, a)'
    <2>1. a - 1 \in Age /\ Clean(n, a - 1)
      BY <1>9, TickClean
    <2>2. since - (a - 1) >= Gap
      BY <1>4, <1>9, LagFacts DEF Age
    <2>3. Pending(n, a - 1)
      BY <1>5, <2>1, <2>2
    <2>4. a - 1 \in Nat /\ (a - 1) + 1 = a
      BY <2>1 DEF Age
    <2>. QED
      BY <2>3, <2>4, TickPending DEF SteadyInv
  <1>10. steady'[n] - SampleAge(n)' > Lag => registry'[n].beat <= Lag + SampleAge(n)'
    BY <1>1, <1>2, <1>3, <1>5, LagFacts
  <1>. QED
    BY <1>6, <1>7, <1>8, <1>9, <1>10

LEMMA TickSteady ==
    ASSUME TypeOK, TypeOK', UpdatesHaveRecords, SteadyInv, Tick
    PROVE  SteadyInv'
  <1>1. \A n \in Nodes : steady'[n] \in Nat
    BY DEF TypeOK, Age
  <1>2. CallsAreYoung' /\ SeenIsRecent'
    <2> SUFFICES ASSUME NEW d \in calls' PROVE YoungCall(d)' /\ RecentSeen(d)'
      BY DEF CallsAreYoung, SeenIsRecent
    <2>1. PICK c \in calls : /\ d = OlderCall(c) /\ c \in Call /\ c.node \in Nodes
                             /\ c.age \in Nat /\ c.age < MaxDelay
                             /\ d.node = c.node /\ d.kind = c.kind /\ d.at = c.at
                             /\ d.age = c.age + 1 /\ d.seen = OlderRecord(c.seen)
      BY OlderCallFacts DEF SteadyInv
    <2>2. YoungCall(c) /\ RecentSeen(c)
      BY DEF SteadyInv, CallsAreYoung, SeenIsRecent
    <2>3. ASSUME d.age < steady'[d.node]
          PROVE  /\ SampleAge(d.node)' = SampleAge(c.node) + 1
                 /\ steady'[d.node] <= steady[c.node] + 1
                 /\ c.age < steady[c.node]
                 /\ steady[c.node] \in Nat
      BY <1>1, <2>1, <2>3, TickNode, NodeTypes, OlderFacts
    <2>4. YoungCall(d)'
      BY <2>1, <2>2, <2>3, LagFacts DEF YoungCall
    <2>5. ASSUME d.kind = "snapshot", d.at = "write", d.seen.status = "healthy",
                 steady'[d.node] - d.age > Lag
          PROVE  d.seen.beat <= Lag + d.age
      <3>1. c.seen # NoRecord /\ c.seen \in NodeState
        BY <2>1, <2>5 DEF UpdatesHaveRecords, Call, Record
      <3>2. d.seen.status = c.seen.status /\ d.seen.beat = Older(c.seen.beat)
        BY <2>1, <3>1 DEF OlderRecord, NodeState
      <3>3. c.seen.beat \in Nat /\ d.seen.beat \in Nat /\ d.seen.beat <= c.seen.beat + 1
        BY <3>1, <3>2, OlderFacts DEF NodeState, Age
      <3>4. steady[c.node] - c.age > Lag
        BY <1>1, <2>1, <2>3, <2>5, LagFacts
      <3>. QED
        BY <2>1, <2>2, <2>5, <3>2, <3>3, <3>4, LagFacts DEF RecentSeen
    <2>. QED
      BY <2>4, <2>5 DEF RecentSeen
  <1>3. SteadyIsGood'
    <2> SUFFICES ASSUME NEW n \in Nodes, steady'[n] > 0 PROVE Good(n)'
      BY DEF SteadyIsGood
    <2>1. Good(n)
      BY TickNode
    <2>. QED
      BY <2>1 DEF Tick, Good
  <1>4. BeatsCount'
    <2> SUFFICES ASSUME NEW n \in Nodes, Healthy(n)' PROVE Counts(n)'
      BY DEF BeatsCount, Counts
    <2>1. CASE steady'[n] = 0
      BY <2>1, AfterFault DEF Counts
    <2>2. CASE steady'[n] > 0
      <3>1. Fresh(n) \/ Overwritten(n)
        BY OlderHealthy DEF SteadyInv, BeatsCount
      <3>. QED
        BY <2>2, <3>1, TickFresh, TickOverwritten DEF Counts
    <2>. QED
      BY <1>1, <2>1, <2>2
  <1>. QED
    BY <1>2, <1>3, <1>4 DEF SteadyInv

LEMMA InitSteady == Init => SteadyInv
  <1> SUFFICES ASSUME Init PROVE SteadyInv
    OBVIOUS
  <1>1. CallsAreYoung /\ SeenIsRecent /\ SteadyIsGood
    BY DEF Init, CallsAreYoung, SeenIsRecent, SteadyIsGood, Good
  <1>2. BeatsCount
    BY DEF Init, BeatsCount, Healthy
  <1>. QED
    BY <1>1, <1>2 DEF SteadyInv

LEMMA NextSteady ==
    ASSUME Timely
    PROVE  ListedInv /\ SteadyInv /\ [Next]_vars => SteadyInv'
  <1> SUFFICES ASSUME ListedInv, SteadyInv, [Next]_vars PROVE SteadyInv'
    OBVIOUS
  <1>. TypeOK /\ UpdatesHaveRecords /\ TypeOK'
    BY NextListed DEF ListedInv
  <1>1. ASSUME NEW n \in Nodes, Beat(n) PROVE SteadyInv'
    BY <1>1, BeatSteady
  <1>2. ASSUME NEW n \in Nodes, Partition(n) \/ AgentStops(n) \/ AgentStarts(n) PROVE SteadyInv'
    BY <1>2, FaultsSteady, AgentStartsSteady
  <1>3. ASSUME NEW n \in Nodes, NEW l \in Loads, Sample(n, l) PROVE SteadyInv'
    BY <1>3, SampleSteady
  <1>4. ASSUME NEW c \in calls, Handle(c) PROVE SteadyInv'
    BY <1>4, HeartbeatReadsSteady, HeartbeatWritesSteady, HeartbeatNotedSteady,
       SnapshotReadsSteady, SnapshotWritesSteady DEF Handle
  <1>5. ASSUME NEW c \in calls, StoreFails(c) PROVE SteadyInv'
    BY <1>5, FaultsSteady
  <1>6. CASE RoundStep
    <2>1. ASSUME NEW n \in Nodes, MarkWrites(n) PROVE SteadyInv'
      BY <2>1, MarkWritesSteady
    <2>2. CASE ListNodes \/ Evacuated \/ ListPending \/ RoundEnd \/ \E n \in Nodes : MarkReads(n)
      <3>1. UNCHANGED <<registry, caches, calls, agentVars>>
        BY <2>2 DEF ListNodes, Evacuated, ListPending, RoundEnd, MarkReads
      <3>. QED
        BY <3>1, IdleSteady
    <2>. QED
      BY <1>6, <2>1, <2>2 DEF RoundStep
  <1>7. CASE Tick
    BY <1>7, TickSteady
  <1>8. CASE ControllerFails
    BY <1>8, FaultsSteady
  <1>9. CASE RoundFails \/ UNCHANGED vars
    <2>1. UNCHANGED <<registry, caches, calls, agentVars>>
      BY <1>9 DEF RoundFails, vars
    <2>. QED
      BY <2>1, IdleSteady
  <1>. QED
    BY <1>1, <1>2, <1>3, <1>4, <1>5, <1>6, <1>7, <1>8, <1>9 DEF Next

(***************************************************************************)
(* In a timely configuration the record of a healthy node always lags      *)
(* behind its agent's heartbeats by a bounded time: see SteadyInv.         *)
(***************************************************************************)
THEOREM SteadyInvariant ==
    ASSUME Timely
    PROVE  Spec => []SteadyInv
  <1>. QED
    BY InitSteady, NextSteady, RegistryInvariant, PTL DEF Spec

(* A node that has been steady for twice the lag is not silent.            *)
LEMMA SteadyNodeIsHeard ==
    ASSUME Timely, TypeOK, SteadyInv, NEW n \in Nodes, Silent(n)
    PROVE  steady[n] <= Settled
  <1>1. Healthy(n) /\ registry[n].beat > Timeout /\ registry[n].beat \in Nat
    BY HealthyBeat DEF Silent, Healthy
  <1>2. registry[n].beat > 2 * Lag /\ Settled = 2 * Lag /\ Lag \in Nat /\ Lag > MaxDelay
    BY <1>1, LagFacts, RegistryAssumption DEF Timely, Settled
  <1> SUFFICES ASSUME steady[n] > 2 * Lag PROVE FALSE
    BY <1>2, NodeTypes
  <1>3. steady[n] \in Nat /\ steady[n] > Lag /\ steady[n] > MaxDelay + 1
    BY <1>2, NodeTypes, LagFacts
  <1>4. CASE Fresh(n)
    BY <1>1, <1>2, <1>3, <1>4, FreshIsYoung DEF SteadyInv
  <1>5. CASE Overwritten(n)
    <2>1. SampleAge(n) <= Lag /\ SampleAge(n) \in Nat
      BY <1>3, <1>5, OverwrittenIsYoung, NodeTypes DEF SteadyInv
    <2>2. registry[n].beat <= Lag + SampleAge(n)
      BY <1>2, <1>3, <1>5, <2>1 DEF Overwritten
    <2>. QED
      BY <1>1, <1>2, <2>1, <2>2
  <1>. QED
    BY <1>1, <1>4, <1>5 DEF SteadyInv, BeatsCount

(* Rounds begin with ListNodes.                                            *)
LEMMA RoundBegins ==
    ASSUME [Next]_vars, round.at = "idle", round'.at = "mark"
    PROVE  ListNodes
  <1>1. \/ round' = round \/ round' = NoRound
        \/ round.at # "idle" \/ ListNodes
    BY DEF Next, Beat, Partition, AgentStops, AgentStarts, Sample, Handle, HeartbeatReads,
           HeartbeatWrites, HeartbeatNoted, SnapshotReads, SnapshotWrites, StoreFails, RoundStep,
           Evacuated, ListPending, RoundEnd, MarkReads, MarkWrites, Tick, ControllerFails,
           RoundFails, vars
  <1>. QED
    BY <1>1 DEF NoRound

(***************************************************************************)
(* The reconciler takes no node for silent whose agent has been up and     *)
(* connected for 2 * Lag ticks without a failed store call, whatever the   *)
(* write cache skips and the snapshot handlers overwrite: if the timeout   *)
(* and the snapshot interval are long enough for the delays there are.     *)
(***************************************************************************)
THEOREM SteadyNodesAreNotSilent ==
    ASSUME Timely
    PROVE  Spec => SteadyIsNotSilent
  <1>1. ListedInv /\ SteadyInv /\ [Next]_vars =>
            [round.at = "idle" /\ round'.at = "mark" =>
                \A n \in round'.silent : steady[n] <= Settled]_vars
    <2> SUFFICES ASSUME ListedInv, SteadyInv, [Next]_vars, round.at = "idle", round'.at = "mark",
                        NEW n \in round'.silent
                 PROVE  steady[n] <= Settled
      OBVIOUS
    <2>1. ListNodes
      BY RoundBegins
    <2>2. n \in members /\ Silent(n)
      BY <2>1 DEF ListNodes, ListedInv, TypeOK, Round
    <2>. QED
      BY <2>2, SteadyNodeIsHeard DEF ListedInv, TypeOK
  <1>. QED
    BY <1>1, RegistryInvariant, SteadyInvariant, PTL DEF Spec, SteadyIsNotSilent

-----------------------------------------------------------------------------
(***************************************************************************)
(* NodeStatus: the nodes of Controller.  The initial states map to initial *)
(* states; each action of the registry either leaves Status and NodesRound *)
(* alone or changes them as one action of Controller does.                 *)
(***************************************************************************)

(* What a step is to the nodes of Controller.                              *)
Refined == StatusInv' /\ [Abstract!Next]_(Abstract!vars)

RecordsStayed == \A n \in Nodes : registry[n] # NoRecord => registry'[n] # NoRecord

LEMMA AbstractAssumption == Abstract!ConstantsAssumption
  BY RegistryAssumption DEF Abstract!ConstantsAssumption, ControllerFaults

LEMMA CallsHaveRecords ==
    ASSUME ListedInv, StatusInv, RecordsStayed,
           \A c \in calls' \ calls : c.seen # NoRecord => registry'[c.node] # NoRecord
    PROVE  \A c \in calls' : c.seen # NoRecord => registry'[c.node] # NoRecord
  <1>1. \A c \in calls : c.node \in Nodes /\ (c.seen # NoRecord => registry[c.node] # NoRecord)
    BY DEF ListedInv, TypeOK, Call, StatusInv
  <1>. QED
    BY <1>1 DEF RecordsStayed

LEMMA NodesAlone ==
    ASSUME Status' = Status, NodesRound' = NodesRound
    PROVE  UNCHANGED Abstract!vars
  BY DEF Abstract!vars, Abstract!store, OfNoService

(* The rounds of Controller that NodesRound may be, and their changes.     *)
RoundOf(phase, stale, n) ==
    [phase |-> phase, at |-> 0, stale |-> stale, node |-> n, left |-> {}, job |-> NoRecord]

(* A record with an EXCEPT is known by the set of records it belongs to.   *)
Rounds(phase, stale, n) ==
    [phase : {phase}, at : {0}, stale : {stale}, node : {n}, left : {{}}, job : {NoRecord}]

LEMMA RoundIs ==
    ASSUME NEW p, NEW S, NEW n
    PROVE  RoundOf(p, S, n) \in Rounds(p, S, n) /\ \A r \in Rounds(p, S, n) : r = RoundOf(p, S, n)
  BY DEF RoundOf, Rounds

LEMMA AbstractNoRound == Abstract!NoRound = RoundOf("idle", {}, NoRecord)
  BY DEF Abstract!NoRound, RoundOf

LEMMA RoundFields ==
    ASSUME NEW p, NEW S, NEW n, NEW r, r = RoundOf(p, S, n)
    PROVE  r.phase = p /\ r.stale = S /\ r.node = n /\ r.left = {} /\ r.job = NoRecord
  BY DEF RoundOf

LEMMA RoundListed ==
    ASSUME NEW S, NEW r, r = RoundOf("idle", {}, NoRecord)
    PROVE  [r EXCEPT !.phase = "nodes", !.at = 0, !.stale = S] = RoundOf("nodes", S, NoRecord)
  <1>1. r \in Rounds("idle", {}, NoRecord)
    BY RoundIs
  <1>2. [r EXCEPT !.phase = "nodes", !.at = 0, !.stale = S] \in Rounds("nodes", S, NoRecord)
    BY <1>1 DEF Rounds
  <1>. QED
    BY <1>2, RoundIs

LEMMA RoundMarked ==
    ASSUME NEW S, NEW n, NEW r, r = RoundOf("nodes", S, NoRecord)
    PROVE  [r EXCEPT !.phase = "marked", !.node = n, !.stale = @ \ {n}] = RoundOf("marked", S \ {n}, n)
  <1>1. r \in Rounds("nodes", S, NoRecord)
    BY RoundIs
  <1>2. [r EXCEPT !.phase = "marked", !.node = n, !.stale = @ \ {n}] \in Rounds("marked", S \ {n}, n)
    BY <1>1 DEF Rounds
  <1>. QED
    BY <1>2, RoundIs

LEMMA RoundEvacuated ==
    ASSUME NEW S, NEW n, NEW r, r = RoundOf("marked", S, n)
    PROVE  [r EXCEPT !.phase = "nodes", !.node = NoRecord, !.left = {}] = RoundOf("nodes", S, NoRecord)
  <1>1. r \in Rounds("marked", S, n)
    BY RoundIs
  <1>2. [r EXCEPT !.phase = "nodes", !.node = NoRecord, !.left = {}] \in Rounds("nodes", S, NoRecord)
    BY <1>1 DEF Rounds
  <1>. QED
    BY <1>2, RoundIs

LEMMA RoundRetries ==
    ASSUME NEW S, NEW r, r = RoundOf("nodes", S, NoRecord)
    PROVE  [r EXCEPT !.phase = "retry", !.at = 0, !.left = {}] = RoundOf("retry", S, NoRecord)
  <1>1. r \in Rounds("nodes", S, NoRecord)
    BY RoundIs
  <1>2. [r EXCEPT !.phase = "retry", !.at = 0, !.left = {}] \in Rounds("retry", S, NoRecord)
    BY <1>1 DEF Rounds
  <1>. QED
    BY <1>2, RoundIs

(* A step of a handler or of a fault that changes no status.               *)
LEMMA QuietRefines ==
    ASSUME ListedInv, StatusInv, RecordsStayed, Status' = Status, round' = round,
           \A c \in calls' \ calls : c.seen # NoRecord => registry'[c.node] # NoRecord
    PROVE  Refined
  <1>1. StatusInv'
    BY CallsHaveRecords DEF StatusInv
  <1>2. NodesRound' = NodesRound
    BY DEF NodesRound, Phase, StillToMark, Evacuating
  <1>. QED
    BY <1>1, <1>2, NodesAlone DEF Refined

(* A SET of a whole record.                                                *)
LEMMA RecordWritten ==
    ASSUME TypeOK, NEW n \in Nodes, NEW r \in NodeState, registry' = [registry EXCEPT ![n] = r]
    PROVE  Status' = [Status EXCEPT ![n] = r.status] /\ RecordsStayed
  <1>1. r # NoRecord
    BY RegistryAssumption
  <1>2. registry'[n] = r /\ \A m \in Nodes : m # n => registry'[m] = registry[m]
    BY DEF TypeOK
  <1>3. RecordsStayed
    BY <1>1, <1>2 DEF RecordsStayed
  <1>4. Status'[n] = r.status /\ \A m \in Nodes : m # n => Status'[m] = Status[m]
    BY <1>1, <1>2 DEF Status
  <1>5. DOMAIN Status' = Nodes /\ DOMAIN Status = Nodes
    BY DEF Status
  <1>6. Status' = [m \in Nodes |-> Status'[m]]
    BY DEF Status
  <1>. QED
    BY <1>3, <1>4, <1>5, <1>6

LEMMA StatusType ==
    ASSUME TypeOK
    PROVE  /\ Status \in [Nodes -> {"unknown", "healthy", "unavailable"}]
           /\ \A n \in Nodes : Status[n] = "unknown" <=> registry[n] = NoRecord
  BY DEF Status, TypeOK, Record, NodeState

(* A handler that writes a status back is a heartbeat or a stale snapshot. *)
LEMMA WrittenBackRefines ==
    ASSUME TypeOK, NEW n \in Nodes, NEW x \in {"healthy", "unavailable"},
           Status' = [Status EXCEPT ![n] = x], NodesRound' = NodesRound,
           x = "healthy" \/ Status[n] # "unknown"
    PROVE  [Abstract!Next]_(Abstract!vars)
  <1>1. CASE Status[n] = x
    BY <1>1, StatusType, NodesAlone
  <1>2. CASE Status[n] # "healthy" /\ x = "healthy"
    <2>1. Abstract!Heartbeat(n)
      BY <1>2 DEF Abstract!Heartbeat, Abstract!store, OfNoService
    <2>. QED
      BY <2>1 DEF Abstract!Next
  <1>3. CASE Status[n] = "healthy" /\ x = "unavailable"
    <2>1. Abstract!StaleSnapshot(n)
      BY <1>3 DEF Abstract!StaleSnapshot, Abstract!store, OfNoService
    <2>. QED
      BY <2>1 DEF Abstract!Next
  <1>. QED
    BY <1>1, <1>2, <1>3, StatusType

-----------------------------------------------------------------------------
LEMMA AgentsRefine ==
    ASSUME ListedInv, StatusInv, NEW n \in Nodes,
           \/ Beat(n) \/ Partition(n) \/ AgentStops(n) \/ AgentStarts(n)
           \/ \E l \in Loads : Sample(n, l)
    PROVE  Refined
  <1>1. UNCHANGED <<registry, round>> /\ \A c \in calls' \ calls : c.seen = NoRecord
    BY DEF Beat, Partition, AgentStops, AgentStarts, Sample, Post
  <1>2. Status' = Status /\ RecordsStayed
    BY <1>1 DEF Status, RecordsStayed
  <1>. QED
    BY <1>1, <1>2, QuietRefines

LEMMA ReadersRefine ==
    ASSUME ListedInv, StatusInv, NEW c \in calls,
           HeartbeatReads(c) \/ SnapshotReads(c) \/ HeartbeatNoted(c) \/ StoreFails(c)
    PROVE  Refined
  <1>1. UNCHANGED <<registry, round>>
    BY DEF HeartbeatReads, SnapshotReads, HeartbeatNoted, StoreFails
  <1>2. \A d \in calls' \ calls : d.node = c.node /\ d.seen = registry[c.node]
    <2>1. calls' = calls \ {c} \/ Reads(c)
      BY DEF HeartbeatReads, SnapshotReads, HeartbeatNoted, StoreFails, Ends
    <2> DEFINE d == [c EXCEPT !.at = "write", !.seen = registry[c.node]]
    <2>2. d.node = c.node /\ d.seen = registry[c.node]
      BY DEF ListedInv, TypeOK, Call
    <2>3. Reads(c) => calls' = (calls \ {c}) \cup {d}
      BY DEF Reads, Forwards
    <2>. HIDE DEF d
    <2>. QED
      BY <2>1, <2>2, <2>3
  <1>3. Status' = Status /\ RecordsStayed
    BY <1>1 DEF Status, RecordsStayed
  <1>. QED
    BY <1>1, <1>2, <1>3, QuietRefines

LEMMA HeartbeatWritesRefines ==
    ASSUME ListedInv, StatusInv, NEW c \in calls, HeartbeatWrites(c)
    PROVE  Refined
  <1> DEFINE r == [status |-> "healthy", beat |-> c.age,
                   snapshot |-> IF c.seen = NoRecord THEN NoLoad ELSE c.seen.snapshot]
  <1>1. c \in Call /\ c.node \in Nodes /\ c.age \in Age /\ c.seen \in Record
    BY DEF ListedInv, TypeOK, Call
  <1>2. r \in NodeState /\ r.status = "healthy"
    BY <1>1 DEF Record, NodeState
  <1>3. registry' = [registry EXCEPT ![c.node] = r] /\ round' = round
    BY DEF HeartbeatWrites
  <1>4. \A d \in calls' \ calls : d.seen = NoRecord
    BY <1>1 DEF HeartbeatWrites, Forwards, Call
  <1>. HIDE DEF r
  <1>5. Status' = [Status EXCEPT ![c.node] = "healthy"] /\ RecordsStayed
    BY <1>1, <1>2, <1>3, RecordWritten DEF ListedInv
  <1>6. StatusInv'
    BY <1>3, <1>4, <1>5, CallsHaveRecords DEF StatusInv
  <1>7. NodesRound' = NodesRound
    BY <1>3 DEF NodesRound, Phase, StillToMark, Evacuating
  <1>. QED
    BY <1>1, <1>5, <1>6, <1>7, WrittenBackRefines DEF Refined, ListedInv

(* A snapshot handler has read a record, so that its node is registered.   *)
LEMMA SnapshotWritesRefines ==
    ASSUME ListedInv, StatusInv, NEW c \in calls, SnapshotWrites(c)
    PROVE  Refined
  <1> DEFINE r == [c.seen EXCEPT !.snapshot = c.load]
  <1>1. c \in Call /\ c.node \in Nodes /\ c.load \in Loads \cup {NoLoad}
    BY DEF ListedInv, TypeOK, Call
  <1>2. c.seen \in NodeState /\ c.seen # NoRecord
    BY <1>1 DEF SnapshotWrites, ListedInv, UpdatesHaveRecords, Call, Record
  <1>3. r \in NodeState /\ r.status = c.seen.status /\ r.status \in {"healthy", "unavailable"}
    BY <1>1, <1>2 DEF NodeState
  <1>4. registry' = [registry EXCEPT ![c.node] = r] /\ round' = round /\ calls' \subseteq calls
    BY DEF SnapshotWrites, Ends
  <1>. HIDE DEF r
  <1>5. Status' = [Status EXCEPT ![c.node] = r.status] /\ RecordsStayed
    BY <1>1, <1>3, <1>4, RecordWritten DEF ListedInv
  <1>6. StatusInv'
    BY <1>4, <1>5, CallsHaveRecords DEF StatusInv
  <1>7. NodesRound' = NodesRound
    BY <1>4 DEF NodesRound, Phase, StillToMark, Evacuating
  <1>8. Status[c.node] # "unknown"
    BY <1>1, <1>2, StatusType DEF StatusInv, ListedInv
  <1>. QED
    BY <1>1, <1>3, <1>5, <1>6, <1>7, <1>8, WrittenBackRefines DEF Refined, ListedInv

LEMMA TickRefines ==
    ASSUME ListedInv, StatusInv, Tick
    PROVE  Refined
  <1>1. \A n \in Nodes : /\ registry'[n] = OlderRecord(registry[n])
                         /\ registry[n] \in Record
    BY DEF Tick, ListedInv, TypeOK
  <1>2. \A r \in NodeState : r # NoRecord /\ OlderRecord(r).status = r.status /\ OlderRecord(r) # NoRecord
    BY OlderRecordType, RegistryAssumption DEF OlderRecord, NodeState, Record
  <1>3. OlderRecord(NoRecord) = NoRecord
    BY DEF OlderRecord
  <1>4. \A n \in Nodes : (registry'[n] = NoRecord <=> registry[n] = NoRecord)
                         /\ (registry[n] # NoRecord => registry'[n].status = registry[n].status)
    BY <1>1, <1>2, <1>3 DEF Record
  <1>5. Status' = Status /\ RecordsStayed
    BY <1>4 DEF Status, RecordsStayed
  <1>6. \A d \in calls' : d.seen # NoRecord => registry'[d.node] # NoRecord
    <2> SUFFICES ASSUME NEW c \in calls, OlderCall(c).seen # NoRecord
                 PROVE  registry'[OlderCall(c).node] # NoRecord
      BY DEF Tick
    <2>1. c \in Call /\ c.node \in Nodes
      BY DEF ListedInv, TypeOK, Call
    <2>2. OlderCall(c).seen = OlderRecord(c.seen) /\ OlderCall(c).node = c.node
      BY <2>1 DEF OlderCall, Call
    <2>3. c.seen # NoRecord
      BY <1>3, <2>2
    <2>. QED
      BY <1>4, <2>1, <2>2, <2>3 DEF StatusInv
  <1>. QED
    BY <1>5, <1>6, QuietRefines DEF Tick

-----------------------------------------------------------------------------
(* The round, step by step.  Every step but the GET of a mark is one.      *)

(* The calls are left alone by the round.                                  *)
LEMMA RoundKeepsCalls ==
    ASSUME ListedInv, StatusInv, RecordsStayed, calls' \subseteq calls,
           round'.at \in {"unset", "evacuate"} =>
               \E n \in Nodes : round'.visits = {n} /\ n \notin round'.silent
    PROVE  StatusInv'
  BY CallsHaveRecords DEF StatusInv

LEMMA ListNodesRefines ==
    ASSUME ListedInv, StatusInv, ListNodes
    PROVE  Refined
  <1> DEFINE found == {n \in members : Silent(n)}
  <1>1. found \subseteq Nodes /\ \A n \in found : Status[n] = "healthy"
    BY DEF ListedInv, TypeOK, Silent, Status
  <1>2. round.at = "idle" /\ round' = [round EXCEPT !.at = "mark", !.silent = found]
    BY DEF ListNodes
  <1>3. round'.at = "mark" /\ round'.silent = found
    BY <1>2 DEF ListedInv, TypeOK, Round
  <1>4. Status' = Status /\ RecordsStayed /\ calls' = calls
    BY DEF ListNodes, Status, RecordsStayed
  <1>. HIDE DEF found
  <1>5. StatusInv'
    BY <1>3, <1>4, RoundKeepsCalls
  <1>6. NodesRound.phase = "idle"
    BY <1>2 DEF NodesRound, Phase
  <1>7. NodesRound' = RoundOf("nodes", found, NoRecord)
    BY <1>3 DEF RoundOf, NodesRound, Phase, StillToMark, Evacuating
  <1>8. NodesRound' = [Abstract!NoRound EXCEPT !.phase = "nodes", !.at = 0, !.stale = found]
    BY <1>7, AbstractNoRound, RoundListed
  <1>9. found \in SUBSET {n \in Nodes : Status[n] = "healthy"}
    BY <1>1
  <1>10. Abstract!RoundStart
    BY <1>4, <1>6, <1>8, <1>9 DEF Abstract!RoundStart, Abstract!store, OfNoService
  <1>. QED
    BY <1>5, <1>10 DEF Refined, Abstract!Next, Abstract!Reconcile

LEMMA MarkReadsRefines ==
    ASSUME ListedInv, StatusInv, NEW n \in Nodes, MarkReads(n)
    PROVE  Refined
  <1>1. round.at = "mark" /\ n \in round.silent
    BY DEF MarkReads
  <1>2. round'.at = "unset" /\ round'.silent = round.silent \ {n} /\ round'.visits = {n}
    BY DEF MarkReads, ListedInv, TypeOK, Round
  <1>3. Status' = Status /\ RecordsStayed /\ calls' = calls
    BY DEF MarkReads, Status, RecordsStayed
  <1>4. StatusInv'
    BY <1>2, <1>3, RoundKeepsCalls
  <1>5. NodesRound' = NodesRound
    BY <1>1, <1>2 DEF NodesRound, Phase, StillToMark, Evacuating
  <1>. QED
    BY <1>3, <1>4, <1>5, NodesAlone DEF Refined

LEMMA MarkWritesRefines ==
    ASSUME ListedInv, StatusInv, NEW n \in Nodes, MarkWrites(n)
    PROVE  Refined
  <1> DEFINE r == [round.seen EXCEPT !.status = "unavailable"]
  <1>1. round.seen \in NodeState
    BY DEF MarkWrites, ListedInv, UpdatesHaveRecords, TypeOK, Round, Record
  <1>2. r \in NodeState /\ r.status = "unavailable"
    BY <1>1 DEF NodeState
  <1>3. registry' = [registry EXCEPT ![n] = r] /\ calls' = calls
    BY DEF MarkWrites
  <1>. HIDE DEF r
  <1>4. Status' = [Status EXCEPT ![n] = "unavailable"] /\ RecordsStayed
    BY <1>2, <1>3, RecordWritten DEF ListedInv
  <1>5. round.at = "unset" /\ round.visits = {n} /\ n \notin round.silent
    BY DEF MarkWrites, StatusInv
  <1>6. round'.at = "evacuate" /\ round'.silent = round.silent /\ round'.visits = {n}
    BY <1>5 DEF MarkWrites, ListedInv, TypeOK, Round
  <1>7. StatusInv'
    BY <1>3, <1>4, <1>5, <1>6, RoundKeepsCalls
  <1>8. NodesRound = RoundOf("nodes", round.silent \cup {n}, NoRecord)
    BY <1>5 DEF RoundOf, NodesRound, Phase, StillToMark, Evacuating
  <1>9. (CHOOSE m \in {n} : TRUE) = n
    OBVIOUS
  <1>10. NodesRound' = RoundOf("marked", round.silent, n)
    BY <1>6, <1>9 DEF RoundOf, NodesRound, Phase, StillToMark, Evacuating
  <1>11. (round.silent \cup {n}) \ {n} = round.silent
    BY <1>5
  <1>12. [NodesRound EXCEPT !.phase = "marked", !.node = n, !.stale = @ \ {n}]
            = RoundOf("marked", (round.silent \cup {n}) \ {n}, n)
    BY <1>8, RoundMarked
  <1>13. /\ n \in NodesRound.stale /\ NodesRound.phase = "nodes"
         /\ NodesRound.left = {} /\ NodesRound.job = NoRecord
    BY <1>8, RoundFields
  <1>14. NodesRound' = [NodesRound EXCEPT !.phase = "marked", !.node = n, !.stale = @ \ {n}]
    BY <1>10, <1>11, <1>12
  <1>15. Abstract!MarkUnavailable
    BY <1>4, <1>13, <1>14 DEF Abstract!MarkUnavailable, Abstract!store, OfNoService
  <1>. QED
    BY <1>7, <1>15 DEF Refined, Abstract!Next, Abstract!Reconcile

LEMMA RoundGoesOnRefines ==
    ASSUME ListedInv, StatusInv, Evacuated \/ ListPending \/ RoundEnd
    PROVE  Refined
  <1>1. Status' = Status /\ RecordsStayed /\ calls' = calls
    BY DEF Evacuated, ListPending, RoundEnd, Status, RecordsStayed
  <1>2. round'.at \notin {"unset", "evacuate"}
    BY NoRoundType DEF Evacuated, ListPending, RoundEnd, ListedInv, TypeOK, Round
  <1>3. StatusInv'
    BY <1>1, <1>2, RoundKeepsCalls
  <1>4. CASE Evacuated
    <2>1. round.at = "evacuate" /\ round'.at = "mark" /\ round'.silent = round.silent
      BY <1>4 DEF Evacuated, ListedInv, TypeOK, Round
    <2>2. NodesRound = RoundOf("marked", round.silent, Evacuating)
      BY <2>1 DEF RoundOf, NodesRound, Phase, StillToMark
    <2>3. NodesRound' = RoundOf("nodes", round.silent, NoRecord)
      BY <2>1 DEF RoundOf, NodesRound, Phase, StillToMark, Evacuating
    <2>4. NodesRound' = [NodesRound EXCEPT !.phase = "nodes", !.node = NoRecord, !.left = {}]
      BY <2>2, <2>3, RoundEvacuated
    <2>5. {[service |-> s, node |-> NodesRound.node] : s \in Abstract!PlacedOn(NodesRound.node)} = {}
      BY DEF Abstract!PlacedOn
    <2>6. NodesRound.phase = "marked"
      BY <2>2, RoundFields
    <2>7. Abstract!ListPlacements
      BY <1>1, <2>4, <2>5, <2>6 DEF Abstract!ListPlacements, Abstract!Item, Abstract!store, OfNoService
    <2>. QED
      BY <1>3, <2>7 DEF Refined, Abstract!Next, Abstract!Reconcile
  <1>5. CASE ListPending
    <2>1. round.at = "mark" /\ round.silent = {} /\ round'.at = "retry" /\ round'.silent = {}
      BY <1>5 DEF ListPending, ListedInv, TypeOK, Round
    <2>2. NodesRound = RoundOf("nodes", {}, NoRecord)
      BY <2>1 DEF RoundOf, NodesRound, Phase, StillToMark, Evacuating
    <2>3. NodesRound' = RoundOf("retry", {}, NoRecord)
      BY <2>1 DEF RoundOf, NodesRound, Phase, StillToMark, Evacuating
    <2>4. /\ NodesRound.phase = "nodes" /\ NodesRound.stale = {}
          /\ NodesRound.left = {} /\ NodesRound.job = NoRecord
      BY <2>2, RoundFields
    <2>5. {[service |-> s, node |-> NoRecord] : s \in Abstract!Queued} = {}
      BY DEF Abstract!Queued
    <2>6. NodesRound' = [NodesRound EXCEPT !.phase = "retry", !.at = 0, !.left = {}]
      BY <2>2, <2>3, RoundRetries
    <2>7. Abstract!ListPending
      BY <1>1, <2>4, <2>5, <2>6 DEF Abstract!ListPending, Abstract!Item, Abstract!store, OfNoService
    <2>. QED
      BY <1>3, <2>7 DEF Refined, Abstract!Next, Abstract!Reconcile
  <1>6. CASE RoundEnd
    <2>1. NodesRound.phase = "retry" /\ NodesRound.left = {} /\ NodesRound.job = NoRecord
      BY <1>6 DEF RoundEnd, NodesRound, Phase
    <2>2. NodesRound' = Abstract!NoRound
      BY <1>6 DEF RoundEnd, NoRound, Abstract!NoRound, NodesRound, Phase, StillToMark, Evacuating
    <2>3. Abstract!RoundEnd
      BY <1>1, <2>1, <2>2 DEF Abstract!RoundEnd, Abstract!store, OfNoService
    <2>. QED
      BY <1>3, <2>3 DEF Refined, Abstract!Next, Abstract!Reconcile
  <1>. QED
    BY <1>4, <1>5, <1>6

(* A round that is dropped, alone or with its controller.                  *)
LEMMA RoundDropped ==
    ASSUME ListedInv, StatusInv, RoundFails \/ ControllerFails
    PROVE  Refined
  <1>1. Status' = Status /\ RecordsStayed /\ calls' \subseteq calls /\ round' = NoRound
    BY DEF RoundFails, ControllerFails, Status, RecordsStayed
  <1>2. StatusInv'
    BY <1>1, NoRoundType, RoundKeepsCalls
  <1>3. NodesRound' = Abstract!NoRound
    BY <1>1 DEF NoRound, Abstract!NoRound, NodesRound, Phase, StillToMark, Evacuating
  <1>4. CASE RoundFails
    <2>1. "store" \in ControllerFaults
      BY <1>4 DEF RoundFails, ControllerFaults
    <2>2. NodesRound.phase # "idle" /\ NodesRound.job = NoRecord
      BY <1>4 DEF RoundFails, NodesRound, Phase, ListedInv, TypeOK, Round
    <2>3. Abstract!RoundFails
      BY <1>1, <1>3, <2>1, <2>2 DEF Abstract!RoundFails, Abstract!store, OfNoService
    <2>. QED
      BY <1>2, <2>3 DEF Refined, Abstract!Next
  <1>5. CASE ControllerFails
    <2>1. "crash" \in ControllerFaults
      BY <1>5 DEF ControllerFails, ControllerFaults
    <2>2. Abstract!ControllerCrash
      BY <1>1, <1>3, <2>1 DEF Abstract!ControllerCrash, Abstract!store, OfNoService
    <2>. QED
      BY <1>2, <2>2 DEF Refined, Abstract!Next
  <1>. QED
    BY <1>4, <1>5
-----------------------------------------------------------------------------
LEMMA InitRefines == Init => StatusInv /\ Abstract!Init
  <1> SUFFICES ASSUME Init PROVE StatusInv /\ Abstract!Init
    OBVIOUS
  <1>1. StatusInv
    BY DEF Init, StatusInv, NoRound
  <1>2. Status = [n \in Nodes |-> "unknown"]
    BY DEF Init, Status
  <1>3. NodesRound = Abstract!NoRound
    BY DEF Init, NoRound, Abstract!NoRound, NodesRound, Phase, StillToMark, Evacuating
  <1>4. \A v : [s \in {} |-> v] = OfNoService
    BY DEF OfNoService
  <1>5. Abstract!Init
    BY <1>2, <1>3, <1>4 DEF Abstract!Init
  <1>. QED
    BY <1>1, <1>5

LEMMA NextRefines == ListedInv /\ StatusInv /\ [Next]_vars => Refined
  <1> SUFFICES ASSUME ListedInv, StatusInv, [Next]_vars PROVE Refined
    OBVIOUS
  <1>1. CASE \E n \in Nodes : Beat(n) \/ Partition(n) \/ AgentStops(n) \/ AgentStarts(n)
    BY <1>1, AgentsRefine
  <1>2. CASE \E n \in Nodes, l \in Loads : Sample(n, l)
    BY <1>2, AgentsRefine
  <1>3. CASE \E c \in calls : Handle(c) \/ StoreFails(c)
    BY <1>3, ReadersRefine, HeartbeatWritesRefines, SnapshotWritesRefines DEF Handle
  <1>4. CASE RoundStep
    BY <1>4, ListNodesRefines, MarkReadsRefines, MarkWritesRefines, RoundGoesOnRefines DEF RoundStep
  <1>5. CASE Tick
    BY <1>5, TickRefines
  <1>6. CASE RoundFails \/ ControllerFails
    BY <1>6, RoundDropped
  <1>7. CASE UNCHANGED vars
    <2>1. UNCHANGED <<registry, calls, round>>
      BY <1>7 DEF vars
    <2>2. Status' = Status /\ RecordsStayed
      BY <2>1 DEF Status, RecordsStayed
    <2>. QED
      BY <2>1, <2>2, QuietRefines
  <1>. QED
    BY <1>1, <1>2, <1>3, <1>4, <1>5, <1>6, <1>7 DEF Next

(***************************************************************************)
(* The inductive invariant of the node keys, for any nodes, loads and      *)
(* settings and with every fault: whoever writes a key back has read one,  *)
(* and a round visits one node at a time, which is off its list.           *)
(***************************************************************************)
THEOREM NodesInvariant == Spec => []NodesInv
  <1>1. Init => NodesInv
    BY InitRefines, InitListed DEF NodesInv
  <1>2. ListedInv' /\ NodesInv /\ [Next]_vars => NodesInv'
    BY NextRefines DEF NodesInv, Refined
  <1>. QED
    BY <1>1, <1>2, RegistryInvariant, PTL DEF Spec

(***************************************************************************)
(* NodeRegistry implements the nodes of Controller: whatever the theorems  *)
(* about Controller need of its nodes holds of the node keys as agents,    *)
(* caches and late handlers write them, with every fault.                  *)
(***************************************************************************)
THEOREM RegistryImplementsController == Spec => ImplementsController
  <1>1. Init => Abstract!Init
    BY InitRefines
  <1>2. NodesInv /\ [Next]_vars => [Abstract!Next]_(Abstract!vars)
    BY NextRefines DEF NodesInv, Refined
  <1>. QED
    BY <1>1, <1>2, NodesInvariant, PTL DEF Spec, ImplementsController, Abstract!Spec
=============================================================================

--------------------------- MODULE PlatformProofs ----------------------------
(* Theorems about the parts of the platform that share no state with each    *)
(* other: tool calls, deliveries to the chat channels, the cost of model      *)
(* calls, the processes and their lanes, checkpoints, the partitions of the   *)
(* audit log, the document sandbox, the knowledge library, the compaction of  *)
(* a thread, the listings and what a run recalls.  Each theorem is about one  *)
(* of them, for every value of its constants; the last ones are about all of  *)
(* them side by side, which is what TLC checks with MCPlatform.               *)
EXTENDS Platform, FiniteSetTheorems, WellFoundedInduction, TLAPS

-----------------------------------------------------------------------------
(* ToolCalls: a gated call acts only after its own card was approved.        *)

\* What the policy says of a tool depends on the level and version of the run.
LEMMA DecideSame ==
    ASSUME run'.level = run.level, run'.current = run.current
    PROVE  \A t : Decide(t)' <=> Decide(t)
  BY DEF Decide, RequiresApproval, RungOf

\* A step that changes one call, which keeps its tool, and not the policy.
LEMMA CallMoves ==
    ASSUME CallInv, NEW i \in Positions, NEW c \in CallRecords, calls' = [calls EXCEPT ![i] = c],
           c.tool = calls[i].tool,
           run' \in [status: {"running", "failed"}, level: Levels, current: BOOLEAN,
                     tools: ToolSets \cup {{}}, steps: 0..MaxSteps],
           run'.level = run.level, run'.current = run.current,
           recorded \subseteq recorded', recorded' \subseteq Tools,
           refusals' \in 0..1, refusals' = 0 => refusals = 0,
           c.at = "paused" => Decide(c.tool) /\ FirstGatedCall(i),
           c.at = "asked" => c.shown,
           c.at = "unused" <=> c.tool = NoTool,
           c.at \in {"unused", "new", "paused", "asked", "check", "find"} =>
              c.tries = 0 /\ ~c.acted,
           c.at = "act" => c.tries < Allowed(c.tool),
           c.acted \/ c.at \in {"check", "find", "act", "succeeded", "failed"} =>
              (Decide(c.tool) => c.shown /\ c.decision = "approved"),
           refusals' = 0 => (c.acted /\ c.at = "ended" => c.row \/ c.tool \in recorded')
    PROVE  CallInv'
  <1>0. /\ ToolTypeOK /\ WaitsFirst /\ TriesFit /\ PastTheGate /\ ActsAreOnRecord
        /\ calls \in [Positions -> CallRecords]
    BY DEF CallInv, ToolTypeOK
  <1>1. /\ calls' \in [Positions -> CallRecords] /\ calls'[i] = c
        /\ \A j \in Positions : j # i => calls'[j] = calls[j]
        /\ \A j \in Positions : calls'[j].tool = calls[j].tool
    BY <1>0
  <1>2. \A t : Decide(t)' <=> Decide(t)
    BY DecideSame
  <1>3. \A j \in Positions : FirstGatedCall(j)' <=> FirstGatedCall(j)
    BY <1>1, <1>2 DEF FirstGatedCall
  <1>4. run'.status \in {"running", "failed"}
    OBVIOUS
  <1>5. ToolTypeOK'
    BY <1>1 DEF ToolTypeOK
  <1>6. NewIsEmpty'
    BY <1>4 DEF NewIsEmpty
  <1>7. WaitsFirst'
    BY <1>0, <1>1, <1>2, <1>3, <1>4 DEF WaitsFirst
  <1>8. TriesFit'
    <2>1. \A t : Allowed(t)' = Allowed(t)
      BY DEF Allowed
    <2> QED BY <1>0, <1>1, <2>1 DEF TriesFit
  <1>9. PastTheGate'
    BY <1>0, <1>1, <1>2 DEF PastTheGate, Cleared
  <1>10. ActsAreOnRecord'
    BY <1>0, <1>1 DEF ActsAreOnRecord
  <1> QED BY <1>5, <1>6, <1>7, <1>8, <1>9, <1>10 DEF CallInv

\* A step of the run that leaves the calls alone.
LEMMA RunMoves ==
    ASSUME CallInv, UNCHANGED <<calls, recorded, refusals>>,
           run' \in [status: {"running", "completed", "failed"}, level: Levels, current: BOOLEAN,
                     tools: ToolSets \cup {{}}, steps: 0..MaxSteps],
           \/ run'.level = run.level /\ run'.current = run.current
           \/ \A i \in Positions : calls[i] = Unused
    PROVE  CallInv'
  <1>0. /\ ToolTypeOK /\ WaitsFirst /\ TriesFit /\ PastTheGate /\ ActsAreOnRecord
        /\ run'.status \in {"running", "completed", "failed"}
    BY DEF CallInv, ToolTypeOK
  <1>1. ToolTypeOK' /\ NewIsEmpty' /\ ActsAreOnRecord' /\ TriesFit'
    BY <1>0 DEF ToolTypeOK, NewIsEmpty, ActsAreOnRecord, TriesFit, Allowed
  <1>2. WaitsFirst' /\ PastTheGate'
    <2>1. CASE run'.level = run.level /\ run'.current = run.current
      <3>1. \A t : Decide(t)' <=> Decide(t)
        BY <2>1, DecideSame
      <3>2. \A j \in Positions : FirstGatedCall(j)' <=> FirstGatedCall(j)
        BY <3>1 DEF FirstGatedCall
      <3> QED BY <1>0, <3>1, <3>2 DEF WaitsFirst, PastTheGate, Cleared
    <2>2. CASE \A i \in Positions : calls[i] = Unused
      BY <1>0, <2>2 DEF WaitsFirst, PastTheGate, Unused
    <2> QED BY <2>1, <2>2
  <1> QED BY <1>1, <1>2 DEF CallInv

\* A call whose place alone changes keeps the rest.
LEMMA PlaceMoves ==
    ASSUME CallInv, NEW i \in Positions, NEW at \in {"check", "find", "act", "paused", "ended"},
           Moves(i, at), calls[i].at # "unused"
    PROVE  \E c \in CallRecords :
              /\ calls' = [calls EXCEPT ![i] = c]
              /\ c.at = at /\ c.tool = calls[i].tool /\ c.shown = calls[i].shown
              /\ c.decision = calls[i].decision /\ c.tries = calls[i].tries
              /\ c.acted = calls[i].acted /\ c.row = calls[i].row
              /\ c.tool \in Tools
  <1> DEFINE c == [calls[i] EXCEPT !.at = at]
  <1>1. calls \in [Positions -> CallRecords] /\ calls[i] \in CallRecords
    BY DEF CallInv, ToolTypeOK
  <1>2. /\ c \in CallRecords /\ c.at = at /\ c.tool = calls[i].tool /\ c.shown = calls[i].shown
        /\ c.decision = calls[i].decision /\ c.tries = calls[i].tries
        /\ c.acted = calls[i].acted /\ c.row = calls[i].row
    BY <1>1 DEF CallRecords
  <1>3. calls' = [calls EXCEPT ![i] = c]
    BY DEF Moves
  <1>4. calls[i].tool \in Tools
    BY <1>1 DEF CallInv, TriesFit, CallRecords
  <1> HIDE DEF c
  <1> QED BY <1>2, <1>3, <1>4

\* One step of one call.
LEMMA ProgressStep == ASSUME CallInv, NEW i \in Positions, Progress(i) PROVE CallInv'
  <1> USE ToolAssumption
  <1> DEFINE Going == [status: {"running", "failed"}, level: Levels, current: BOOLEAN,
                      tools: ToolSets \cup {{}}, steps: 0..MaxSteps]
  <1>0. /\ ToolTypeOK /\ WaitsFirst /\ TriesFit /\ PastTheGate /\ ActsAreOnRecord
        /\ calls \in [Positions -> CallRecords] /\ calls[i] \in CallRecords
        /\ run.status = "running" /\ run \in Going
        /\ recorded \subseteq Tools /\ refusals \in 0..1
    BY DEF CallInv, ToolTypeOK, Progress
  <1>g. NoTool \notin Tools
    OBVIOUS
  \* A call that does not act goes to another place.
  <1>1. ASSUME NEW at \in {"check", "find", "act", "paused", "ended"}, Moves(i, at),
               calls[i].at # "unused", run' \in Going, run'.level = run.level,
               run'.current = run.current, refusals' \in 0..1, refusals' = 0 => refusals = 0,
               recorded' = recorded,
               at = "paused" => Decide(calls[i].tool) /\ FirstGatedCall(i),
               at # "ended" => calls[i].tries = 0 /\ ~calls[i].acted,
               at \in {"check", "find", "act"} => Cleared(i),
               at = "ended" /\ refusals' = 0 /\ calls[i].acted =>
                  calls[i].row \/ calls[i].tool \in recorded,
               at = "ended" /\ calls[i].acted => Cleared(i)
        PROVE  CallInv'
    <2>1. PICK c \in CallRecords :
              /\ calls' = [calls EXCEPT ![i] = c]
              /\ c.at = at /\ c.tool = calls[i].tool /\ c.shown = calls[i].shown
              /\ c.decision = calls[i].decision /\ c.tries = calls[i].tries
              /\ c.acted = calls[i].acted /\ c.row = calls[i].row
              /\ c.tool \in Tools
      BY <1>1, PlaceMoves
    <2>2. c.at = "act" => c.tries < Allowed(c.tool)
      BY <1>1, <2>1 DEF Allowed
    <2>3. c.tool # NoTool /\ c.at # "unused"
      BY <1>g, <1>1, <2>1
    <2>4. c.acted \/ c.at \in {"check", "find", "act", "succeeded", "failed"} =>
              (Decide(c.tool) => c.shown /\ c.decision = "approved")
      BY <1>1, <2>1 DEF Cleared
    <2>5. c.at = "paused" => Decide(c.tool) /\ FirstGatedCall(i)
      BY <1>1, <2>1
    <2>6. c.at # "ended" => c.tries = 0 /\ ~c.acted
      BY <1>1, <2>1
    <2>7. refusals' = 0 => (c.acted /\ c.at = "ended" => c.row \/ c.tool \in recorded')
      BY <1>1, <2>1
    <2>8. c.at # "asked"
      BY <2>1
    <2>9. recorded \subseteq recorded' /\ recorded' \subseteq Tools
      BY <1>0, <1>1
    <2> HIDE DEF Going
    <2> QED BY <1>1, <2>1, <2>2, <2>3, <2>4, <2>5, <2>6, <2>7, <2>8, <2>9, CallMoves DEF Going
  <1>2. CASE Gate(i)
    <2>1. calls[i].at = "new" /\ UNCHANGED <<run, recorded, refusals>>
          /\ calls[i].tries = 0 /\ ~calls[i].acted
      BY <1>0, <1>2 DEF Gate, TriesFit
    <2>2. CASE ~Decide(calls[i].tool) /\ Moves(i, "check")
      BY <1>0, <1>1, <2>1, <2>2 DEF Cleared
    <2>3. CASE Decide(calls[i].tool) /\ FirstGatedCall(i) /\ Moves(i, "paused")
      BY <1>0, <1>1, <2>1, <2>3
    <2>4. CASE Moves(i, "ended")
      BY <1>0, <1>1, <2>1, <2>4
    <2> QED BY <1>2, <2>2, <2>3, <2>4 DEF Gate, Ends
  <1>3. CASE PreviewFails(i)
    <2>1. Moves(i, "ended") /\ calls[i].at = "new" /\ UNCHANGED <<run, recorded, refusals>>
          /\ ~calls[i].acted
      BY <1>0, <1>3 DEF PreviewFails, Ends, TriesFit
    <2> QED BY <1>0, <1>1, <2>1
  <1>4. CASE Answered(i)
    <2>1. calls[i].at = "asked" /\ UNCHANGED <<run, recorded, refusals>>
          /\ calls[i].tries = 0 /\ ~calls[i].acted /\ calls[i].shown
      BY <1>0, <1>4 DEF Answered, TriesFit, WaitsFirst
    <2>2. CASE calls[i].decision = "approved" /\ Moves(i, "check")
      BY <1>0, <1>1, <2>1, <2>2 DEF Cleared
    <2>3. CASE Moves(i, "ended")
      BY <1>0, <1>1, <2>1, <2>3
    <2> QED BY <1>4, <2>2, <2>3 DEF Answered, Ends
  <1>5. CASE CheckCall(i)
    <2>1. calls[i].at = "check" /\ UNCHANGED <<recorded, refusals>>
          /\ calls[i].tries = 0 /\ ~calls[i].acted /\ Cleared(i)
      BY <1>0, <1>5 DEF CheckCall, TriesFit, PastTheGate
    <2>2. CASE Moves(i, "ended") /\ UNCHANGED run
      BY <1>0, <1>1, <2>1, <2>2
    <2>3. CASE Moves(i, "ended") /\ run' = [run EXCEPT !.status = "failed"]
      <3>1. run' \in Going /\ run'.level = run.level /\ run'.current = run.current
        BY <1>0, <2>3
      <3> HIDE DEF Going
      <3> QED BY <1>0, <1>1, <2>1, <2>3, <3>1
    <2>4. CASE Moves(i, "find") /\ UNCHANGED run
      BY <1>0, <1>1, <2>1, <2>4
    <2> QED BY <1>5, <2>2, <2>3, <2>4 DEF CheckCall, Ends
  <1>6. CASE Find(i)
    <2>1. calls[i].at = "find" /\ UNCHANGED <<run, recorded, refusals>>
          /\ calls[i].tries = 0 /\ ~calls[i].acted /\ Cleared(i)
      BY <1>0, <1>6 DEF Find, TriesFit, PastTheGate
    <2>2. CASE Moves(i, "ended")
      BY <1>0, <1>1, <2>1, <2>2
    <2>3. CASE Moves(i, "act")
      BY <1>0, <1>1, <2>1, <2>3
    <2> QED BY <1>6, <2>2, <2>3 DEF Find, Ends
  <1>7. CASE RecordLost(i)
    <2>1. calls[i].at \in {"failed", "succeeded"} /\ UNCHANGED <<run, recorded>> /\ refusals' = 1
          /\ Moves(i, "ended") /\ Cleared(i)
      BY <1>0, <1>7 DEF RecordLost, Ends, PastTheGate
    <2> QED BY <1>0, <1>1, <2>1
  \* A call that acts, or that is recorded.
  <1>8. ASSUME NEW c \in CallRecords, calls' = [calls EXCEPT ![i] = c], c.tool = calls[i].tool,
               c.shown = calls[i].shown, c.decision = calls[i].decision,
               c.at \in {"act", "succeeded", "failed", "ended"}, Cleared(i),
               calls[i].at # "unused", UNCHANGED <<run, refusals>>,
               recorded \subseteq recorded', recorded' \subseteq Tools,
               c.at = "act" => c.tries < Allowed(c.tool), c.at = "ended" => c.row
        PROVE  CallInv'
    <2>1. c.tool # NoTool /\ c.at \notin {"unused", "paused", "asked"}
      BY <1>0, <1>8 DEF TriesFit
    <2>2. c.at \notin {"unused", "new", "paused", "asked", "check", "find"}
      BY <1>8
    <2>3. c.acted \/ c.at \in {"check", "find", "act", "succeeded", "failed"} =>
              (Decide(c.tool) => c.shown /\ c.decision = "approved")
      BY <1>8 DEF Cleared
    <2>4. run' \in Going /\ run'.level = run.level /\ run'.current = run.current /\ refusals' \in 0..1
      BY <1>0, <1>8
    <2> QED BY <1>8, <2>1, <2>2, <2>3, <2>4, CallMoves
  <1>9. CASE Handler(i)
    <2>1. PICK outcome \in {"ok", "unavailable", "refused", "crashed"}, effect \in BOOLEAN :
              calls' = [calls EXCEPT
                  ![i].tries = calls[i].tries + 1,
                  ![i].acted = @ \/ (effect /\ Effect[calls[i].tool] # "none"),
                  ![i].at = IF outcome = "ok" THEN "succeeded"
                            ELSE IF outcome = "unavailable"
                                    /\ calls[i].tries + 1 < Allowed(calls[i].tool)
                                 THEN "act" ELSE "failed"]
      BY <1>9 DEF Handler
    <2>2. PICK next \in {"succeeded", "act", "failed"}, did \in BOOLEAN :
              /\ calls' = [calls EXCEPT ![i] =
                    [calls[i] EXCEPT !.tries = calls[i].tries + 1, !.acted = did, !.at = next]]
              /\ next = "act" => calls[i].tries + 1 < Allowed(calls[i].tool)
      <3> DEFINE did == calls[i].acted \/ (effect /\ Effect[calls[i].tool] # "none")
                 next == IF outcome = "ok" THEN "succeeded"
                         ELSE IF outcome = "unavailable"
                                 /\ calls[i].tries + 1 < Allowed(calls[i].tool)
                              THEN "act" ELSE "failed"
      <3>1. next \in {"succeeded", "act", "failed"}
            /\ (next = "act" => calls[i].tries + 1 < Allowed(calls[i].tool))
        OBVIOUS
      <3>2. did \in BOOLEAN
        BY <1>0 DEF CallRecords
      <3>3. calls' = [calls EXCEPT ![i] =
                [calls[i] EXCEPT !.tries = calls[i].tries + 1, !.acted = did, !.at = next]]
        BY <2>1
      <3> HIDE DEF did, next
      <3> QED BY <3>1, <3>2, <3>3
    <2> DEFINE c == [calls[i] EXCEPT !.tries = calls[i].tries + 1, !.acted = did, !.at = next]
    <2>3. calls[i].at = "act" /\ Cleared(i) /\ calls[i].tries < Allowed(calls[i].tool)
          /\ UNCHANGED <<run, recorded, refusals>>
      BY <1>0, <1>9 DEF Handler, TriesFit, PastTheGate
    <2>4. calls[i].tries + 1 \in 0..(MaxRetries + 1)
      BY <1>0, <2>3 DEF Allowed, CallRecords
    <2>5. /\ c \in CallRecords /\ c.tool = calls[i].tool /\ c.shown = calls[i].shown
          /\ c.decision = calls[i].decision /\ c.at = next /\ c.tries = calls[i].tries + 1
      BY <1>0, <2>4 DEF CallRecords
    <2>6. calls' = [calls EXCEPT ![i] = c]
      BY <2>2
    <2> HIDE DEF c
    <2> QED BY <1>0, <1>8, <2>2, <2>3, <2>5, <2>6
  <1>10. ASSUME calls[i].at \in {"failed", "succeeded"}, UNCHANGED <<run, refusals>>,
                calls' = [calls EXCEPT ![i].at = "ended", ![i].row = TRUE],
                recorded \subseteq recorded', recorded' \subseteq Tools
         PROVE  CallInv'
    <2> DEFINE c == [calls[i] EXCEPT !.at = "ended", !.row = TRUE]
    <2>1. /\ c \in CallRecords /\ c.tool = calls[i].tool /\ c.shown = calls[i].shown
          /\ c.decision = calls[i].decision /\ c.at = "ended" /\ c.row
      BY <1>0 DEF CallRecords
    <2>2. calls' = [calls EXCEPT ![i] = c]
      BY <1>10
    <2>3. Cleared(i)
      BY <1>0, <1>10 DEF PastTheGate
    <2> HIDE DEF c
    <2> QED BY <1>8, <1>10, <2>1, <2>2, <2>3
  <1>11. CASE RecordFailed(i)
    BY <1>0, <1>10, <1>11 DEF RecordFailed
  <1>12. CASE RecordSucceeded(i)
    <2>1. calls[i].at = "succeeded" /\ UNCHANGED <<run, refusals>> /\ Cleared(i)
          /\ calls[i].tool \in Tools
      BY <1>0, <1>12 DEF RecordSucceeded, PastTheGate, TriesFit, CallRecords
    <2>2. CASE calls[i].tool \in recorded /\ Moves(i, "ended") /\ UNCHANGED recorded
      BY <1>0, <1>1, <2>1, <2>2
    <2>3. CASE /\ calls' = [calls EXCEPT ![i].at = "ended", ![i].row = TRUE]
               /\ recorded' \in {recorded, recorded \cup {calls[i].tool}}
      BY <1>0, <1>10, <2>1, <2>3
    <2> QED BY <1>12, <2>2, <2>3 DEF RecordSucceeded, Ends
  <1> QED BY <1>2, <1>3, <1>4, <1>5, <1>6, <1>7, <1>9, <1>11, <1>12 DEF Progress

\* At most one call of a step waits: a second one is not the first gated.
LEMMA OneWaits == ASSUME CallInv PROVE IsFiniteSet(Paused) /\ Cardinality(Paused) <= 1
  <1> USE ToolAssumption
  <1>1. \A i, j \in Paused : i = j
    <2> SUFFICES ASSUME NEW i \in Paused, NEW j \in Paused, i < j PROVE FALSE
      BY DEF Paused, Positions
    <2>1. /\ i \in Positions /\ j \in Positions /\ Decide(calls[i].tool) /\ FirstGatedCall(j)
          /\ calls[i].tool # NoTool
      BY DEF Paused, CallInv, WaitsFirst, TriesFit
    <2> QED BY <2>1 DEF FirstGatedCall
  <1>2. CASE Paused = {}
    BY <1>2, FS_EmptySet
  <1>3. CASE Paused # {}
    <2>1. PICK i : i \in Paused
      BY <1>3
    <2>2. \A j : j \in Paused <=> j = i
      BY <1>1, <2>1
    <2>3. Paused = {i}
      BY <2>2, Zenon
    <2> QED BY <2>3, FS_Singleton
  <1> QED BY <1>2, <1>3

LEMMA CallStep == CallInv /\ [ToolNext]_toolVars => CallInv'
  <1> USE ToolAssumption
  <1> DEFINE Phases == [status: {"running", "completed", "failed"}, level: Levels,
                        current: BOOLEAN, tools: ToolSets \cup {{}}, steps: 0..MaxSteps]
  <1> SUFFICES ASSUME CallInv, [ToolNext]_toolVars PROVE CallInv'
    OBVIOUS
  <1>0. /\ ToolTypeOK /\ NewIsEmpty /\ WaitsFirst /\ TriesFit /\ PastTheGate /\ ActsAreOnRecord
        /\ calls \in [Positions -> CallRecords]
        /\ run \in [status: {"new", "running", "parked", "completed", "failed"}, level: Levels,
                    current: BOOLEAN, tools: ToolSets \cup {{}}, steps: 0..MaxSteps]
        /\ recorded \subseteq Tools /\ refusals \in 0..1
    BY DEF CallInv, ToolTypeOK
  <1>1. ASSUME NEW level \in Levels, NEW current \in BOOLEAN, NEW tools \in ToolSets,
               BeginRun(level, current, tools)
        PROVE  CallInv'
    <2>1. run' \in Phases
      BY <1>0, <1>1 DEF BeginRun
    <2>2. \A i \in Positions : calls[i] = Unused
      BY <1>0, <1>1 DEF BeginRun, NewIsEmpty
    <2> QED BY <1>1, <2>1, <2>2, RunMoves DEF BeginRun
  <1>2. ASSUME NEW n \in Positions, NEW tools \in [1..n -> Tools], Think(tools) PROVE CallInv'
    <2>1. /\ run' = [run EXCEPT !.steps = run.steps + 1]
          /\ run.status = "running" /\ run.steps < MaxSteps
          /\ calls' = [i \in Positions |-> IF i \in DOMAIN tools
                         THEN [Unused EXCEPT !.tool = tools[i], !.at = "new"] ELSE Unused]
          /\ UNCHANGED <<recorded, refusals>>
      BY <1>2 DEF Think
    <2>2. /\ run' \in [status: {"new", "running", "parked", "completed", "failed"}, level: Levels,
                    current: BOOLEAN, tools: ToolSets \cup {{}}, steps: 0..MaxSteps]
          /\ run'.status = "running"
      <3> DEFINE s == run.steps + 1
      <3>1. s \in 0..MaxSteps
        <4>1. run.steps \in 0..MaxSteps
          BY <1>0
        <4>2. run.steps < MaxSteps
          BY <2>1
        <4> QED BY <4>1, <4>2
      <3>2. run' = [run EXCEPT !.steps = s]
        BY <2>1
      <3> HIDE DEF s
      <3> QED BY <1>0, <2>1, <3>1, <3>2
    <2>3. Unused \in CallRecords
      BY DEF Unused, CallRecords
    <2>4. ASSUME NEW t \in Tools PROVE [Unused EXCEPT !.tool = t, !.at = "new"] \in CallRecords
      BY <2>3 DEF CallRecords
    <2>5. ASSUME NEW i \in Positions
          PROVE  /\ calls'[i] \in CallRecords
                 /\ \/ calls'[i].at = "unused" /\ calls'[i].tool = NoTool
                    \/ calls'[i].at = "new" /\ calls'[i].tool \in Tools
                 /\ calls'[i].tries = 0 /\ ~calls'[i].acted
      <3>1. CASE i \in DOMAIN tools
        <4>1. calls'[i] = [Unused EXCEPT !.tool = tools[i], !.at = "new"] /\ tools[i] \in Tools
          BY <2>1, <3>1
        <4> QED BY <2>4, <4>1 DEF Unused
      <3>2. CASE i \notin DOMAIN tools
        <4>1. calls'[i] = Unused
          BY <2>1, <3>2
        <4> QED BY <2>3, <4>1 DEF Unused
      <3> QED BY <3>1, <3>2
    <2>6. calls' \in [Positions -> CallRecords]
      BY <2>1, <2>5
    <2>7. ToolTypeOK' /\ NewIsEmpty' /\ ActsAreOnRecord'
      BY <1>0, <2>1, <2>2, <2>5, <2>6 DEF ToolTypeOK, NewIsEmpty, ActsAreOnRecord
    <2>8. WaitsFirst' /\ PastTheGate'
      BY <2>5 DEF WaitsFirst, PastTheGate
    <2>9. TriesFit'
      BY <2>5 DEF TriesFit
    <2> QED BY <2>7, <2>8, <2>9 DEF CallInv
  <1>3. CASE Conclude \/ CutOff
    <2>1. run' \in Phases /\ run'.level = run.level /\ run'.current = run.current
      BY <1>0, <1>3 DEF Conclude, CutOff
    <2>2. UNCHANGED <<calls, recorded, refusals>>
      BY <1>3 DEF Conclude, CutOff
    <2> HIDE DEF Phases
    <2> QED BY <2>1, <2>2, RunMoves DEF Phases
  <1>4. CASE Park
    <2>1. IsFiniteSet(Paused) /\ Cardinality(Paused) <= 1
      BY OneWaits
    <2>2. Cardinality(Paused) \in Nat
      BY <2>1, FS_CardinalityType
    <2>3. /\ run' = [run EXCEPT !.status = "parked"] /\ UNCHANGED <<recorded, refusals>>
          /\ calls' = [i \in Positions |-> IF i \in Paused THEN [calls[i] EXCEPT !.shown = TRUE]
                                                            ELSE calls[i]]
      BY <1>4, <2>1, <2>2 DEF Park
    <2>4. /\ run' \in [status: {"new", "running", "parked", "completed", "failed"}, level: Levels,
                    current: BOOLEAN, tools: ToolSets \cup {{}}, steps: 0..MaxSteps]
          /\ run'.status = "parked" /\ run'.level = run.level /\ run'.current = run.current
      BY <1>0, <2>3
    <2>5. ASSUME NEW i \in Positions
          PROVE  /\ calls'[i] \in CallRecords /\ calls'[i].at = calls[i].at
                 /\ calls'[i].tool = calls[i].tool /\ calls'[i].decision = calls[i].decision
                 /\ calls'[i].tries = calls[i].tries /\ calls'[i].acted = calls[i].acted
                 /\ calls'[i].row = calls[i].row /\ (calls[i].shown => calls'[i].shown)
                 /\ calls[i].at = "paused" => calls'[i].shown
      <3>1. calls[i] \in CallRecords
        BY <1>0
      <3>2. CASE i \in Paused
        <4>1. calls'[i] = [calls[i] EXCEPT !.shown = TRUE]
          BY <2>3, <3>2
        <4> QED BY <3>1, <4>1 DEF CallRecords
      <3>3. CASE i \notin Paused
        <4>1. calls'[i] = calls[i] /\ calls[i].at # "paused"
          BY <2>3, <3>3 DEF Paused
        <4> QED BY <3>1, <4>1
      <3> QED BY <3>2, <3>3
    <2>6. \A t : Decide(t)' <=> Decide(t)
      BY <2>4, DecideSame
    <2>7. \A j \in Positions : FirstGatedCall(j)' <=> FirstGatedCall(j)
      BY <2>5, <2>6 DEF FirstGatedCall
    <2>8. calls' \in [Positions -> CallRecords]
      BY <2>3, <2>5
    <2>9. ToolTypeOK' /\ NewIsEmpty'
      BY <1>0, <2>3, <2>4, <2>8 DEF ToolTypeOK, NewIsEmpty
    <2>10. WaitsFirst'
      BY <1>0, <2>5, <2>6, <2>7 DEF WaitsFirst
    <2>11. TriesFit'
      BY <1>0, <2>5 DEF TriesFit, Allowed
    <2>12. PastTheGate'
      BY <1>0, <2>5, <2>6 DEF PastTheGate, Cleared
    <2>13. ActsAreOnRecord'
      BY <1>0, <2>3, <2>5 DEF ActsAreOnRecord
    <2> QED BY <2>9, <2>10, <2>11, <2>12, <2>13 DEF CallInv
  <1>5. ASSUME NEW i \in Positions, NEW d \in {"approved", "rejected"}, ResumeCall(i, d)
        PROVE  CallInv'
    <2> DEFINE c == [calls[i] EXCEPT !.at = "asked", !.decision = d]
               Going == [status: {"running", "failed"}, level: Levels, current: BOOLEAN,
                         tools: ToolSets \cup {{}}, steps: 0..MaxSteps]
    <2>1. /\ calls[i].at = "paused" /\ run.status = "parked" /\ UNCHANGED <<recorded, refusals>>
          /\ run' = [run EXCEPT !.status = "running"] /\ calls[i] \in CallRecords
      BY <1>0, <1>5 DEF ResumeCall, Paused
    <2>2. /\ c \in CallRecords /\ c.at = "asked" /\ c.tool = calls[i].tool
          /\ c.shown = calls[i].shown /\ c.tries = calls[i].tries /\ c.acted = calls[i].acted
      BY <2>1 DEF CallRecords
    <2>3. calls' = [calls EXCEPT ![i] = c]
      BY <1>5 DEF ResumeCall
    <2>4. run' \in Going /\ run'.level = run.level /\ run'.current = run.current
      BY <1>0, <2>1
    <2>5. calls[i].shown /\ calls[i].tries = 0 /\ ~calls[i].acted /\ calls[i].tool # NoTool
      BY <1>0, <2>1 DEF WaitsFirst, TriesFit
    <2>6. recorded \subseteq recorded' /\ recorded' \subseteq Tools /\ refusals' \in 0..1
          /\ (refusals' = 0 => refusals = 0)
      BY <1>0, <2>1
    <2> HIDE DEF c
    <2> QED BY <2>2, <2>3, <2>4, <2>5, <2>6, CallMoves
  <1>6. CASE UNCHANGED toolVars
    BY <1>0, <1>6 DEF toolVars, CallInv, ToolTypeOK, NewIsEmpty, WaitsFirst, TriesFit, PastTheGate,
       ActsAreOnRecord, Cleared, Decide, RequiresApproval, RungOf, FirstGatedCall, Allowed
  <1> QED BY <1>1, <1>2, <1>3, <1>4, <1>5, <1>6, ProgressStep DEF ToolNext

\* Whatever the calls of a step do at once, each stands where it may.
THEOREM CallsInOrder == ToolSpec => []CallInv
  <1>1. ToolInit => CallInv
    <2> SUFFICES ASSUME ToolInit PROVE CallInv
      OBVIOUS
    <2>1. Unused \in CallRecords /\ \A i \in Positions : calls[i] = Unused
      BY ToolAssumption DEF ToolInit, Unused, CallRecords
    <2>2. ToolTypeOK
      BY <2>1, ToolAssumption DEF ToolInit, ToolTypeOK
    <2>3. \A i \in Positions : /\ calls[i].at = "unused" /\ calls[i].tool = NoTool
                               /\ calls[i].tries = 0 /\ calls[i].acted = FALSE
      BY <2>1 DEF Unused
    <2>4. NewIsEmpty /\ WaitsFirst /\ TriesFit /\ PastTheGate /\ ActsAreOnRecord
      BY <2>1, <2>3 DEF NewIsEmpty, WaitsFirst, TriesFit, PastTheGate, ActsAreOnRecord
    <2> QED BY <2>2, <2>4 DEF CallInv
  <1> QED BY <1>1, CallStep, PTL DEF ToolSpec

\* A call that has to wait acts only after its own card was shown and approved,
\* and no step waits on two (awrap_tool_call, _first_gated_call, the executor).
THEOREM GatedWereShown == ToolSpec => []GatedActsWereShown
  <1>1. CallInv => GatedActsWereShown
    BY OneWaits DEF CallInv, PastTheGate, Cleared, GatedActsWereShown
  <1> QED BY <1>1, CallsInOrder, PTL

\* A call that had an effect and is over is on record (ToolExecutor.execute).
THEOREM ActsRecorded == ToolSpec => []ActsAreOnRecord
  <1>1. CallInv => ActsAreOnRecord
    BY DEF CallInv
  <1> QED BY <1>1, CallsInOrder, PTL

-----------------------------------------------------------------------------
(* ChannelDelivery: one outcome for a delivery, and no copy for a stranger.   *)

\* What every step may assume, with the types a prover needs.
LEMMA DeliveryFacts ==
    ASSUME DeliveryInv
    PROVE  /\ HeldAlone /\ AttemptLeft /\ Witnessed /\ CopiesCounted /\ OneOutcome
           /\ members \subseteq People /\ active \in BOOLEAN /\ links \subseteq People \X Chats
           /\ nonces \in [Tokens -> Nonces] /\ deliveries \in [Keys -> DeliveryRows]
           /\ claims \in [Lanes -> Claims] /\ audits \in [Keys -> Nat]
           /\ copies \in [Keys -> Nat] /\ losses \in [Keys -> Nat] /\ strays = {}
           /\ moves \in 0..MaxMoves /\ MaxMoves \in Nat
           /\ MaxAttempts \in Nat /\ MaxAttempts > 0
  BY DeliveryAssumption DEF DeliveryInv, DeliveryTypeOK, OneOutcome, SentToRecipient

\* A lane that holds a row, or takes one, and keeps it.
LEMMA ClaimMoves ==
    ASSUME DeliveryInv, NEW l \in Lanes, NEW k \in Keys,
           claims' \in [Lanes -> Claims], \A m \in Lanes : m # l => claims'[m] = claims[m],
           claims'[l].at # "idle", claims'[l].key = k, deliveries[k].status = "pending",
           claims[l].at = "idle" => ~Locked(k), claims[l].at # "idle" => claims[l].key = k,
           claims'[l].at \in {"address", "send"} \/ May(deliveries[k].to) => claims'[l].wasMember,
           \A x \in Chats : <<deliveries[k].to, x>> \in links => x \in claims'[l].seen,
           claims'[l].at = "send" => claims'[l].chat \in claims'[l].seen,
           copies' \in [Keys -> Nat], \A j \in Keys : j # k => copies'[j] = copies[j],
           copies'[k] <= deliveries[k].attempts + losses[k] + 1,
           \/ copies'[k] <= deliveries[k].attempts + losses[k]
           \/ claims'[l].at = "settle" /\ claims'[l].outcome \in {"sent", "error"},
           claims'[l].at = "settle" /\ claims'[l].outcome = "sent" => copies'[k] > 0,
           UNCHANGED <<members, active, links, nonces, deliveries, audits, losses, strays, moves>>
    PROVE  DeliveryInv'
  <1>0. /\ HeldAlone /\ AttemptLeft /\ Witnessed /\ CopiesCounted /\ OneOutcome
        /\ deliveries \in [Keys -> DeliveryRows] /\ claims \in [Lanes -> Claims]
        /\ copies \in [Keys -> Nat] /\ losses \in [Keys -> Nat] /\ strays = {}
    BY DeliveryFacts
  <1>3. \A m \in Lanes : m # l /\ claims[m].at # "idle" => claims[m].key # k
    BY <1>0 DEF HeldAlone, Locked
  <1>4. DeliveryTypeOK'
    BY DEF DeliveryInv, DeliveryTypeOK
  <1>5. HeldAlone'
    BY <1>0, <1>3 DEF HeldAlone
  <1>6. AttemptLeft'
    BY <1>0 DEF AttemptLeft
  <1>7. Witnessed'
    BY <1>0 DEF Witnessed, May
  <1>8. CopiesCounted'
    <2>1. ASSUME NEW m \in Lanes, claims'[m].at # "idle"
          PROVE  /\ copies'[claims'[m].key] <= deliveries[claims'[m].key].attempts
                        + losses[claims'[m].key]
                        + (IF claims'[m].at = "settle" /\ claims'[m].outcome \in {"sent", "error"}
                           THEN 1 ELSE 0)
                 /\ claims'[m].at = "settle" /\ claims'[m].outcome = "sent" =>
                       copies'[claims'[m].key] > 0
      <3>0. deliveries[k].attempts \in Nat /\ losses[k] \in Nat /\ copies'[k] \in Nat
        BY <1>0 DEF DeliveryRows
      <3>1. CASE m = l
        BY <3>0, <3>1
      <3>2. CASE m # l
        <4>1. /\ claims'[m] = claims[m] /\ claims[m].key # k /\ claims[m].key \in Keys
              /\ copies'[claims[m].key] = copies[claims[m].key]
          BY <1>0, <1>3, <2>1, <3>2 DEF HeldAlone
        <4> QED BY <1>0, <2>1, <4>1 DEF CopiesCounted
      <3> QED BY <3>1, <3>2
    <2> QED BY <2>1 DEF CopiesCounted
  <1>9. Locked(k)' /\ \A j \in Keys : j # k => (Locked(j)' <=> Locked(j))
    BY DEF Locked
  <1>10. ASSUME NEW j \in Keys
         PROVE  /\ audits'[j] = IF deliveries'[j].status \in Settled \cup {"pruned"} THEN 1 ELSE 0
                /\ deliveries'[j].status = "sent" => copies'[j] > 0
                /\ deliveries'[j].status # "pruned" /\ ~Locked(j)' =>
                      copies'[j] <= deliveries'[j].attempts + losses'[j]
    <2>1. CASE j = k
      <3>1. audits[k] = 0 /\ deliveries[k].status \notin Settled \cup {"pruned"}
        BY <1>0 DEF OneOutcome, Settled
      <3>2. audits' = audits /\ deliveries' = deliveries /\ deliveries[k].status # "sent"
        OBVIOUS
      <3> QED BY <1>9, <2>1, <3>1, <3>2
    <2>2. CASE j # k
      BY <1>0, <1>9, <2>2 DEF OneOutcome
    <2> QED BY <2>1, <2>2
  <1>11. OneOutcome'
    BY <1>0, <1>10 DEF OneOutcome, SentToRecipient, Settled
  <1> QED BY <1>4, <1>5, <1>6, <1>7, <1>8, <1>11 DEF DeliveryInv

\* A lane that lets its row go: the row is written, or the claim is lost.
LEMMA ClaimEnds ==
    ASSUME DeliveryInv, NEW l \in Lanes, claims[l].at # "idle", NEW k \in Keys, claims[l].key = k,
           claims' = [claims EXCEPT ![l] = NotSending],
           deliveries' \in [Keys -> DeliveryRows], audits' \in [Keys -> Nat],
           losses' \in [Keys -> Nat],
           \A j \in Keys : j # k => /\ deliveries'[j] = deliveries[j]
                                    /\ audits'[j] = audits[j] /\ losses'[j] = losses[j],
           deliveries'[k].status \in Settled \cup {"pending"},
           deliveries'[k].status = "pending" => deliveries'[k].attempts < MaxAttempts,
           deliveries'[k].status = "sent" => copies[k] > 0,
           audits'[k] = IF deliveries'[k].status \in Settled THEN 1 ELSE 0,
           copies[k] <= deliveries'[k].attempts + losses'[k],
           UNCHANGED <<members, active, links, nonces, copies, strays, moves>>
    PROVE  DeliveryInv'
  <1>0. /\ HeldAlone /\ AttemptLeft /\ Witnessed /\ CopiesCounted /\ OneOutcome
        /\ deliveries \in [Keys -> DeliveryRows] /\ claims \in [Lanes -> Claims]
        /\ copies \in [Keys -> Nat] /\ losses \in [Keys -> Nat] /\ audits \in [Keys -> Nat]
        /\ strays = {}
    BY DeliveryFacts
  <1>1. NotSending \in Claims /\ NotSending.at = "idle"
    BY DEF NotSending, Claims
  <1>2. /\ claims' \in [Lanes -> Claims] /\ claims'[l].at = "idle"
        /\ \A m \in Lanes : m # l => claims'[m] = claims[m]
    BY <1>0, <1>1
  <1>6. \A m \in Lanes : m # l /\ claims[m].at # "idle" => claims[m].key # k
    BY <1>0 DEF HeldAlone
  <1>7. DeliveryTypeOK'
    BY <1>2 DEF DeliveryInv, DeliveryTypeOK
  <1>8. HeldAlone'
    BY <1>0, <1>2, <1>6 DEF HeldAlone
  <1>9. AttemptLeft'
    BY <1>0 DEF AttemptLeft, Settled
  <1>10. Witnessed'
    BY <1>0, <1>2, <1>6 DEF Witnessed, May, HeldAlone
  <1>11. CopiesCounted'
    BY <1>0, <1>2, <1>6 DEF CopiesCounted, HeldAlone
  <1>12. \A j \in Keys : j # k => (Locked(j)' <=> Locked(j))
    BY <1>2 DEF Locked
  <1>13. ASSUME NEW j \in Keys
         PROVE  /\ audits'[j] = IF deliveries'[j].status \in Settled \cup {"pruned"} THEN 1 ELSE 0
                /\ deliveries'[j].status = "sent" => copies'[j] > 0
                /\ deliveries'[j].status # "pruned" /\ ~Locked(j)' =>
                      copies'[j] <= deliveries'[j].attempts + losses'[j]
    <2>1. CASE j = k
      BY <2>1 DEF Settled
    <2>2. CASE j # k
      BY <1>0, <1>12, <2>2 DEF OneOutcome, Settled
    <2> QED BY <2>1, <2>2
  <1>14. OneOutcome'
    BY <1>0, <1>13 DEF OneOutcome, SentToRecipient, Settled
  <1> QED BY <1>7, <1>8, <1>9, <1>10, <1>11, <1>14 DEF DeliveryInv

\* A row nobody holds is written: the first time, by a sweep, or for good.
LEMMA FreeRowMoves ==
    ASSUME DeliveryInv, NEW k \in Keys, ~Locked(k),
           deliveries' \in [Keys -> DeliveryRows], audits' \in [Keys -> Nat],
           \A j \in Keys : j # k => deliveries'[j] = deliveries[j] /\ audits'[j] = audits[j],
           deliveries'[k].status \in {"none", "pending"} => deliveries'[k].attempts < MaxAttempts,
           deliveries'[k].status = "sent" => copies[k] > 0,
           deliveries'[k].status # "pruned" => copies[k] <= deliveries'[k].attempts + losses[k],
           audits'[k] = IF deliveries'[k].status \in Settled \cup {"pruned"} THEN 1 ELSE 0,
           claims' \in [Lanes -> Claims],
           \A l \in Lanes : /\ claims'[l].at = claims[l].at /\ claims'[l].key = claims[l].key
                            /\ claims'[l].outcome = claims[l].outcome,
           Witnessed', nonces' \in [Tokens -> Nonces], links' \subseteq People \X Chats,
           UNCHANGED <<members, active, copies, losses, strays, moves>>
    PROVE  DeliveryInv'
  <1>0. /\ HeldAlone /\ AttemptLeft /\ CopiesCounted /\ OneOutcome
        /\ deliveries \in [Keys -> DeliveryRows] /\ claims \in [Lanes -> Claims]
        /\ copies \in [Keys -> Nat] /\ losses \in [Keys -> Nat] /\ audits \in [Keys -> Nat]
        /\ strays = {}
    BY DeliveryFacts
  <1>3. \A l \in Lanes : claims[l].at # "idle" => claims[l].key # k
    BY DEF Locked
  <1>4. DeliveryTypeOK'
    BY DEF DeliveryInv, DeliveryTypeOK
  <1>5. HeldAlone'
    BY <1>0, <1>3 DEF HeldAlone
  <1>6. AttemptLeft'
    BY <1>0 DEF AttemptLeft
  <1>7. CopiesCounted'
    BY <1>0, <1>3 DEF CopiesCounted, HeldAlone
  <1>8. \A j \in Keys : Locked(j)' <=> Locked(j)
    BY DEF Locked
  <1>9. ASSUME NEW j \in Keys
        PROVE  /\ audits'[j] = IF deliveries'[j].status \in Settled \cup {"pruned"} THEN 1 ELSE 0
               /\ deliveries'[j].status = "sent" => copies'[j] > 0
               /\ deliveries'[j].status # "pruned" /\ ~Locked(j)' =>
                     copies'[j] <= deliveries'[j].attempts + losses'[j]
    <2>1. CASE j = k
      BY <2>1
    <2>2. CASE j # k
      BY <1>0, <1>8, <2>2 DEF OneOutcome
    <2> QED BY <2>1, <2>2
  <1>10. OneOutcome'
    BY <1>0, <1>9 DEF OneOutcome, SentToRecipient
  <1> QED BY <1>4, <1>5, <1>6, <1>7, <1>10 DEF DeliveryInv

\* No row changes, and the claims keep their rows.
LEMMA RowsStay ==
    ASSUME DeliveryInv, claims' \in [Lanes -> Claims],
           \A l \in Lanes : /\ claims'[l].at = claims[l].at /\ claims'[l].key = claims[l].key
                            /\ claims'[l].outcome = claims[l].outcome,
           Witnessed', nonces' \in [Tokens -> Nonces], links' \subseteq People \X Chats,
           members' \subseteq People, active' \in BOOLEAN, moves' \in 0..MaxMoves,
           UNCHANGED <<deliveries, audits, copies, losses, strays>>
    PROVE  DeliveryInv'
  <1>0. HeldAlone /\ AttemptLeft /\ CopiesCounted /\ OneOutcome
    BY DeliveryFacts
  <1>1. DeliveryTypeOK'
    BY DEF DeliveryInv, DeliveryTypeOK
  <1>2. HeldAlone' /\ AttemptLeft' /\ CopiesCounted'
    BY <1>0 DEF HeldAlone, AttemptLeft, CopiesCounted
  <1>3. \A j \in Keys : Locked(j)' <=> Locked(j)
    BY DEF Locked
  <1>4. OneOutcome'
    BY <1>0, <1>3 DEF OneOutcome, SentToRecipient
  <1> QED BY <1>1, <1>2, <1>4 DEF DeliveryInv

\* What the open claims witness of a change.
LEMMA WitnessHolds ==
    ASSUME DeliveryInv, Witness, deliveries' \in [Keys -> DeliveryRows],
           \A k \in Keys : deliveries[k].status = "pending" => deliveries'[k] = deliveries[k]
    PROVE  /\ claims' \in [Lanes -> Claims] /\ Witnessed'
           /\ \A l \in Lanes : /\ claims'[l].at = claims[l].at /\ claims'[l].key = claims[l].key
                               /\ claims'[l].outcome = claims[l].outcome
  <1>0. /\ HeldAlone /\ Witnessed /\ claims \in [Lanes -> Claims]
        /\ deliveries \in [Keys -> DeliveryRows]
    BY DeliveryFacts
  <1> DEFINE Recipient(l) == deliveries[claims[l].key].to
             Sees(l) == [claims[l] EXCEPT
                    !.wasMember = claims[l].wasMember \/ (active' /\ Recipient(l) \in members'),
                    !.seen = claims[l].seen \cup {c \in Chats : <<Recipient(l), c>> \in links'}]
  <1>1. claims' = [l \in Lanes |-> IF claims[l].at = "idle" THEN claims[l] ELSE Sees(l)]
    BY DEF Witness
  <1>2. ASSUME NEW l \in Lanes
        PROVE  /\ claims'[l] \in Claims /\ claims'[l].at = claims[l].at
               /\ claims'[l].key = claims[l].key /\ claims'[l].outcome = claims[l].outcome
               /\ claims'[l].chat = claims[l].chat
               /\ claims[l].at # "idle" =>
                     /\ claims[l].wasMember => claims'[l].wasMember
                     /\ active' /\ Recipient(l) \in members' => claims'[l].wasMember
                     /\ claims[l].seen \subseteq claims'[l].seen
                     /\ \A c \in Chats : <<Recipient(l), c>> \in links' => c \in claims'[l].seen
    <2>1. CASE claims[l].at = "idle"
      BY <1>0, <1>1, <2>1
    <2>2. CASE claims[l].at # "idle"
      <3>1. PICK was \in BOOLEAN :
                was = (claims[l].wasMember \/ (active' /\ Recipient(l) \in members'))
        OBVIOUS
      <3>2. PICK seen \in SUBSET Chats :
                seen = claims[l].seen \cup {c \in Chats : <<Recipient(l), c>> \in links'}
        BY <1>0 DEF Claims
      <3>3. claims'[l] = [claims[l] EXCEPT !.wasMember = was, !.seen = seen]
        BY <1>1, <2>2, <3>1, <3>2
      <3>4. /\ claims'[l] \in Claims /\ claims'[l].at = claims[l].at
            /\ claims'[l].key = claims[l].key /\ claims'[l].outcome = claims[l].outcome
            /\ claims'[l].chat = claims[l].chat /\ claims'[l].wasMember = was
            /\ claims'[l].seen = seen
        BY <1>0, <3>3 DEF Claims
      <3> QED BY <3>1, <3>2, <3>4
    <2> QED BY <2>1, <2>2
  <1>3. claims' \in [Lanes -> Claims]
    BY <1>1, <1>2
  <1>4. \A l \in Lanes :
            claims[l].at # "idle" => deliveries'[claims[l].key] = deliveries[claims[l].key]
    BY <1>0 DEF HeldAlone
  <1>5. Witnessed'
    BY <1>0, <1>2, <1>4 DEF Witnessed, May
  <1> QED BY <1>2, <1>3, <1>5

LEMMA DeliveryStep == DeliveryInv /\ [DeliveryNext]_deliveryVars => DeliveryInv'
  <1> SUFFICES ASSUME DeliveryInv, [DeliveryNext]_deliveryVars PROVE DeliveryInv'
    OBVIOUS
  <1>0. /\ HeldAlone /\ AttemptLeft /\ Witnessed /\ CopiesCounted /\ OneOutcome
        /\ members \subseteq People /\ active \in BOOLEAN /\ links \subseteq People \X Chats
        /\ nonces \in [Tokens -> Nonces] /\ deliveries \in [Keys -> DeliveryRows]
        /\ claims \in [Lanes -> Claims] /\ audits \in [Keys -> Nat]
        /\ copies \in [Keys -> Nat] /\ losses \in [Keys -> Nat] /\ strays = {}
        /\ moves \in 0..MaxMoves /\ MaxMoves \in Nat
        /\ MaxAttempts \in Nat /\ MaxAttempts > 0
    BY DeliveryFacts
  <1>w. ASSUME UNCHANGED <<claims, deliveries, links, members, active>> PROVE Witnessed'
    BY <1>0, <1>w DEF Witnessed, May
  <1>1. ASSUME NEW p \in People, NEW t \in Tokens, Connect(p, t) PROVE DeliveryInv'
    <2> DEFINE nonce == [user |-> p, state |-> "open"]
    <2>1. /\ nonces' = [nonces EXCEPT ![t] = nonce]
          /\ UNCHANGED <<members, active, links, deliveries, claims, audits, copies, losses, strays,
                         moves>>
      BY <1>1 DEF Connect
    <2>2. nonce \in Nonces
      BY DEF Nonces
    <2> HIDE DEF nonce
    <2>3. nonces' \in [Tokens -> Nonces]
      BY <1>0, <2>1, <2>2
    <2>4. Witnessed'
      BY <1>w, <2>1
    <2> QED BY <1>0, <2>1, <2>3, <2>4, RowsStay
  <1>2. ASSUME NEW t \in Tokens, TokenExpires(t) PROVE DeliveryInv'
    <2> DEFINE nonce == [user |-> None, state |-> "expired"]
    <2>1. /\ nonces' = [nonces EXCEPT ![t] = nonce]
          /\ UNCHANGED <<members, active, links, deliveries, claims, audits, copies, losses, strays,
                         moves>>
      BY <1>2 DEF TokenExpires
    <2>2. nonce \in Nonces
      BY DEF Nonces
    <2> HIDE DEF nonce
    <2>3. nonces' \in [Tokens -> Nonces]
      BY <1>0, <2>1, <2>2
    <2>4. Witnessed'
      BY <1>w, <2>1
    <2> QED BY <1>0, <2>1, <2>3, <2>4, RowsStay
  <1>3. ASSUME NEW p \in People, Unlink(p) PROVE DeliveryInv'
    <2>1. /\ links' \subseteq links /\ Witness
          /\ UNCHANGED <<members, active, nonces, deliveries, audits, copies, losses, strays, moves>>
      BY <1>3 DEF Unlink
    <2>2. /\ claims' \in [Lanes -> Claims] /\ Witnessed'
          /\ \A l \in Lanes : /\ claims'[l].at = claims[l].at /\ claims'[l].key = claims[l].key
                              /\ claims'[l].outcome = claims[l].outcome
      BY <1>0, <2>1, WitnessHolds
    <2> QED BY <1>0, <2>1, <2>2, RowsStay
  <1>4. ASSUME NEW p \in People, ChangeMember(p) PROVE DeliveryInv'
    <2>1. /\ members' \subseteq People /\ Witness /\ moves' \in 0..MaxMoves
          /\ UNCHANGED <<active, links, nonces, deliveries, audits, copies, losses, strays>>
      BY <1>0, <1>4 DEF ChangeMember
    <2>2. /\ claims' \in [Lanes -> Claims] /\ Witnessed'
          /\ \A l \in Lanes : /\ claims'[l].at = claims[l].at /\ claims'[l].key = claims[l].key
                              /\ claims'[l].outcome = claims[l].outcome
      BY <1>0, <2>1, WitnessHolds
    <2> QED BY <1>0, <2>1, <2>2, RowsStay
  <1>5. CASE ChangeTenant
    <2>1. /\ active' \in BOOLEAN /\ Witness /\ moves' \in 0..MaxMoves
          /\ UNCHANGED <<members, links, nonces, deliveries, audits, copies, losses, strays>>
      BY <1>0, <1>5 DEF ChangeTenant
    <2>2. /\ claims' \in [Lanes -> Claims] /\ Witnessed'
          /\ \A l \in Lanes : /\ claims'[l].at = claims[l].at /\ claims'[l].key = claims[l].key
                              /\ claims'[l].outcome = claims[l].outcome
      BY <1>0, <2>1, WitnessHolds
    <2> QED BY <1>0, <2>1, <2>2, RowsStay
  <1>6. ASSUME NEW k \in Keys, NEW p \in People, Deliver(k, p)
        PROVE  \E row \in DeliveryRows :
                  /\ deliveries' = [deliveries EXCEPT ![k] = row]
                  /\ \/ row = deliveries[k]
                     \/ /\ deliveries[k].status = "none" /\ row.status \in {"pending", "inbox"}
                        /\ row.attempts = deliveries[k].attempts
    <2>1. CASE deliveries' = deliveries
      <3>1. deliveries' = [deliveries EXCEPT ![k] = deliveries[k]]
        BY <1>0, <2>1
      <3> QED BY <1>0, <3>1
    <2>2. CASE deliveries' # deliveries
      <3>1. PICK status \in {"pending", "inbox"} :
                /\ deliveries[k].status = "none"
                /\ deliveries' = [deliveries EXCEPT ![k].to = p, ![k].status = status]
        BY <1>6, <2>2 DEF Deliver
      <3> DEFINE row == [deliveries[k] EXCEPT !.to = p, !.status = status]
      <3>2. deliveries' = [deliveries EXCEPT ![k] = row]
        BY <3>1
      <3>3. row \in DeliveryRows /\ row.status = status /\ row.attempts = deliveries[k].attempts
        BY <1>0 DEF DeliveryRows
      <3> HIDE DEF row
      <3> QED BY <3>1, <3>2, <3>3
    <2> QED BY <2>1, <2>2
  <1>7. ASSUME NEW k \in Keys, NEW p \in People, Deliver(k, p),
               claims' \in [Lanes -> Claims],
               \A l \in Lanes : /\ claims'[l].at = claims[l].at /\ claims'[l].key = claims[l].key
                                /\ claims'[l].outcome = claims[l].outcome,
               Witnessed', nonces' \in [Tokens -> Nonces], links' \subseteq People \X Chats,
               UNCHANGED <<members, active, audits, copies, losses, strays, moves>>
        PROVE  DeliveryInv'
    <2>1. PICK row \in DeliveryRows :
             /\ deliveries' = [deliveries EXCEPT ![k] = row]
             /\ \/ row = deliveries[k]
                \/ /\ deliveries[k].status = "none" /\ row.status \in {"pending", "inbox"}
                   /\ row.attempts = deliveries[k].attempts
      BY <1>6, <1>7
    <2>2. CASE row = deliveries[k]
      <3>1. deliveries' = deliveries
        BY <1>0, <2>1, <2>2
      <3> QED BY <1>0, <1>7, <3>1, RowsStay
    <2>3. CASE /\ deliveries[k].status = "none" /\ row.status \in {"pending", "inbox"}
               /\ row.attempts = deliveries[k].attempts
      <3>1. ~Locked(k)
        BY <1>0, <2>3 DEF HeldAlone, Locked
      <3>2. /\ audits[k] = 0 /\ copies[k] <= row.attempts + losses[k]
            /\ row.attempts < MaxAttempts
        BY <1>0, <2>3, <3>1 DEF OneOutcome, Settled, AttemptLeft
      <3>4. row.status \notin Settled \cup {"pruned"}
        BY <2>3 DEF Settled
      <3>5. /\ deliveries' \in [Keys -> DeliveryRows] /\ audits' \in [Keys -> Nat]
            /\ \A j \in Keys : j # k => deliveries'[j] = deliveries[j] /\ audits'[j] = audits[j]
            /\ deliveries'[k] = row /\ audits'[k] = 0
        BY <1>0, <1>7, <2>1, <3>2
      <3>6. row.status # "sent" /\ row.status # "pruned"
        BY <2>3
      <3> QED BY <1>7, <3>1, <3>2, <3>4, <3>5, <3>6, FreeRowMoves
    <2> QED BY <2>1, <2>2, <2>3
  <1>8. ASSUME NEW n \in Notes, NEW p \in People, Notify(n, p) PROVE DeliveryInv'
    <2>1. /\ n \in Keys /\ Deliver(n, p)
          /\ UNCHANGED <<members, active, links, nonces, claims, audits, copies, losses, strays,
                         moves>>
      BY <1>8 DEF Notify, Keys
    <2>2. PICK row \in DeliveryRows :
             /\ deliveries' = [deliveries EXCEPT ![n] = row]
             /\ \/ row = deliveries[n] \/ deliveries[n].status = "none"
      BY <1>6, <2>1
    <2>3. \A l \in Lanes : claims[l].at # "idle" =>
             /\ claims'[l] = claims[l] /\ deliveries'[claims[l].key] = deliveries[claims[l].key]
      BY <1>0, <2>1, <2>2 DEF HeldAlone
    <2>4. Witnessed'
      BY <1>0, <2>1, <2>3 DEF Witnessed, May
    <2> QED BY <1>0, <1>7, <2>1, <2>4
  <1>9. ASSUME NEW t \in Tokens, NEW c \in Chats, Redeem(t, c) PROVE DeliveryInv'
    <2>1. /\ t \in Keys /\ nonces[t].user \in People /\ Deliver(t, nonces[t].user)
          /\ Link(nonces[t].user, c) /\ Witness
          /\ nonces' = [nonces EXCEPT ![t].state = "used"]
          /\ UNCHANGED <<members, active, audits, copies, losses, strays, moves>>
      BY <1>0, <1>9 DEF Redeem, Keys
    <2>2. nonces' \in [Tokens -> Nonces]
      BY <1>0, <2>1 DEF Nonces
    <2>3. links' \subseteq People \X Chats
      BY <1>0, <2>1 DEF Link
    <2>4. PICK row \in DeliveryRows :
             /\ deliveries' = [deliveries EXCEPT ![t] = row]
             /\ \/ row = deliveries[t] \/ deliveries[t].status = "none"
      BY <1>6, <2>1
    <2>5. /\ deliveries' \in [Keys -> DeliveryRows]
          /\ \A k \in Keys : deliveries[k].status = "pending" => deliveries'[k] = deliveries[k]
      BY <1>0, <2>1, <2>4
    <2>6. /\ claims' \in [Lanes -> Claims] /\ Witnessed'
          /\ \A l \in Lanes : /\ claims'[l].at = claims[l].at /\ claims'[l].key = claims[l].key
                              /\ claims'[l].outcome = claims[l].outcome
      BY <2>1, <2>5, WitnessHolds
    <2> QED BY <1>7, <2>1, <2>2, <2>3, <2>6
  <1>10. ASSUME NEW l \in Lanes, NEW k \in Keys, Claim(l, k) PROVE DeliveryInv'
    <2> DEFINE p == deliveries[k].to
    <2>1. PICK was \in BOOLEAN : was = May(p)
      BY <1>0 DEF May
    <2>2. PICK seen \in SUBSET Chats : seen = {c \in Chats : <<p, c>> \in links}
      OBVIOUS
    <2> DEFINE c == [at |-> "member", key |-> k, chat |-> None, outcome |-> None,
                     wasMember |-> was, seen |-> seen]
    <2>0. Opened(k) = c
      <3>1. Opened(k) = [NotSending EXCEPT !.at = "member", !.key = k, !.wasMember = was,
                                           !.seen = seen]
        BY <2>1, <2>2 DEF Opened
      <3> QED BY <3>1 DEF NotSending
    <2>3. /\ claims[l].at = "idle" /\ deliveries[k].status = "pending" /\ ~Locked(k)
          /\ claims' = [claims EXCEPT ![l] = c]
          /\ UNCHANGED <<members, active, links, nonces, deliveries, audits, copies, losses, strays,
                         moves>>
      BY <1>10, <2>0 DEF Claim
    <2>4. /\ c \in Claims /\ c.at = "member" /\ c.key = k /\ c.wasMember = was /\ c.seen = seen
      BY DEF Claims
    <2> HIDE DEF c
    <2>5. /\ claims' \in [Lanes -> Claims] /\ claims'[l] = c
          /\ \A m \in Lanes : m # l => claims'[m] = claims[m]
      BY <1>0, <2>3, <2>4
    <2>6. /\ copies[k] <= deliveries[k].attempts + losses[k] /\ copies' = copies
          /\ deliveries[k].attempts \in Nat /\ losses[k] \in Nat /\ copies[k] \in Nat
      BY <1>0, <2>3 DEF OneOutcome, DeliveryRows
    <2>7. copies'[k] <= deliveries[k].attempts + losses[k] + 1
      BY <2>6
    <2>8. /\ c.at \in {"address", "send"} \/ May(deliveries[k].to) => c.wasMember
          /\ \A x \in Chats : <<deliveries[k].to, x>> \in links => x \in c.seen
      BY <2>1, <2>2, <2>4
    <2> QED BY <1>0, <2>3, <2>4, <2>5, <2>6, <2>7, <2>8, ClaimMoves
  <1>11. ASSUME NEW l \in Lanes, claims[l].at \notin {"idle", "settle"},
                claims' \in [Lanes -> Claims], \A m \in Lanes : m # l => claims'[m] = claims[m],
                claims'[l].at # "idle", claims'[l].key = claims[l].key,
                claims'[l].wasMember = claims[l].wasMember, claims'[l].seen = claims[l].seen,
                claims'[l].at \in {"address", "send"} => claims[l].wasMember,
                claims'[l].at = "send" => claims'[l].chat \in claims[l].seen,
                copies' \in [Keys -> Nat],
                \A j \in Keys : j # claims[l].key => copies'[j] = copies[j],
                \/ copies'[claims[l].key] = copies[claims[l].key]
                   /\ (claims'[l].at = "settle" => claims'[l].outcome # "sent")
                \/ /\ copies'[claims[l].key] = copies[claims[l].key] + 1
                   /\ claims'[l].at = "settle" /\ claims'[l].outcome \in {"sent", "error"},
                UNCHANGED <<members, active, links, nonces, deliveries, audits, losses, strays,
                            moves>>
         PROVE  DeliveryInv'
    <2> DEFINE k == claims[l].key
    <2>1. k \in Keys /\ deliveries[k].status = "pending"
      BY <1>0, <1>11 DEF HeldAlone
    <2>2. /\ copies[k] <= deliveries[k].attempts + losses[k]
          /\ deliveries[k].attempts \in Nat /\ losses[k] \in Nat /\ copies[k] \in Nat
      BY <1>0, <1>11, <2>1 DEF CopiesCounted, DeliveryRows
    <2>3. /\ May(deliveries[k].to) => claims[l].wasMember
          /\ \A x \in Chats : <<deliveries[k].to, x>> \in links => x \in claims[l].seen
      BY <1>0, <1>11 DEF Witnessed
    <2>4. /\ copies'[k] <= deliveries[k].attempts + losses[k] + 1
          /\ \/ copies'[k] <= deliveries[k].attempts + losses[k]
             \/ claims'[l].at = "settle" /\ claims'[l].outcome \in {"sent", "error"}
          /\ claims'[l].at = "settle" /\ claims'[l].outcome = "sent" => copies'[k] > 0
      BY <1>11, <2>2
    <2> HIDE DEF k
    <2>5. claims[l].key = k /\ claims[l].at # "idle"
      BY <1>11 DEF k
    <2>6. \A j \in Keys : j # k => copies'[j] = copies[j]
      BY <1>11, <2>5
    <2> QED BY <1>11, <2>1, <2>3, <2>4, <2>5, <2>6, ClaimMoves
  <1>12. ASSUME NEW l \in Lanes, CheckMember(l) \/ ReadAddress(l) PROVE DeliveryInv'
    <2> DEFINE k == claims[l].key
               p == deliveries[k].to
    <2>1. /\ claims[l].at \in {"member", "address"} /\ claims[l] \in Claims
          /\ copies' = copies /\ copies' \in [Keys -> Nat]
          /\ UNCHANGED <<members, active, links, nonces, deliveries, audits, losses, strays, moves>>
      BY <1>0, <1>12 DEF CheckMember, ReadAddress
    <2>2. CASE May(p) /\ claims' = [claims EXCEPT ![l].at = "address"]
      <3>1. claims[l].wasMember
        BY <1>0, <2>1, <2>2 DEF Witnessed
      <3>2. /\ claims' \in [Lanes -> Claims] /\ \A m \in Lanes : m # l => claims'[m] = claims[m]
            /\ claims'[l].at = "address" /\ claims'[l].key = claims[l].key
            /\ claims'[l].wasMember = claims[l].wasMember /\ claims'[l].seen = claims[l].seen
        BY <1>0, <2>2 DEF Claims
      <3> QED BY <1>11, <2>1, <3>1, <3>2
    <2>3. ASSUME NEW outcome \in {"not_member", "unlinked"},
                 claims' = [claims EXCEPT ![l].at = "settle", ![l].outcome = outcome]
          PROVE  DeliveryInv'
      <3>1. /\ claims' \in [Lanes -> Claims] /\ \A m \in Lanes : m # l => claims'[m] = claims[m]
            /\ claims'[l].at = "settle" /\ claims'[l].key = claims[l].key
            /\ claims'[l].wasMember = claims[l].wasMember /\ claims'[l].seen = claims[l].seen
            /\ claims'[l].outcome = outcome
        BY <1>0, <2>3 DEF Claims, Outcomes
      <3> QED BY <1>11, <2>1, <3>1
    <2>4. ASSUME NEW c \in Chats, <<p, c>> \in links, claims[l].at = "address",
                 claims' = [claims EXCEPT ![l].at = "send", ![l].chat = c]
          PROVE  DeliveryInv'
      <3>1. claims[l].wasMember /\ c \in claims[l].seen
        BY <1>0, <2>1, <2>4 DEF Witnessed
      <3>2. /\ claims' \in [Lanes -> Claims] /\ \A m \in Lanes : m # l => claims'[m] = claims[m]
            /\ claims'[l].at = "send" /\ claims'[l].key = claims[l].key
            /\ claims'[l].wasMember = claims[l].wasMember /\ claims'[l].seen = claims[l].seen
            /\ claims'[l].chat = c
        BY <1>0, <2>4 DEF Claims
      <3> QED BY <1>11, <2>1, <3>1, <3>2
    <2> QED BY <1>12, <2>2, <2>3, <2>4 DEF CheckMember, ReadAddress
  <1>13. ASSUME NEW l \in Lanes, Send(l) PROVE DeliveryInv'
    <2> DEFINE k == claims[l].key
    <2>1. PICK outcome \in {"sent", "unreachable", "error"}, arrived \in BOOLEAN :
             /\ outcome = "sent" => arrived
             /\ outcome = "unreachable" => ~arrived
             /\ claims' = [claims EXCEPT ![l].at = "settle", ![l].outcome = outcome]
             /\ copies' = [copies EXCEPT ![k] = IF arrived THEN @ + 1 ELSE @]
             /\ strays' = IF arrived /\ ~(claims[l].wasMember /\ claims[l].chat \in claims[l].seen)
                          THEN strays \cup {k} ELSE strays
      BY <1>13 DEF Send
    <2>2. /\ claims[l].at = "send" /\ k \in Keys /\ claims[l] \in Claims
          /\ UNCHANGED <<members, active, links, nonces, deliveries, audits, losses, moves>>
      BY <1>0, <1>13 DEF Send, HeldAlone
    <2>3. UNCHANGED strays
      BY <1>0, <2>1, <2>2 DEF Witnessed
    <2>4. /\ claims' \in [Lanes -> Claims] /\ \A m \in Lanes : m # l => claims'[m] = claims[m]
          /\ claims'[l].at = "settle" /\ claims'[l].key = claims[l].key
          /\ claims'[l].wasMember = claims[l].wasMember /\ claims'[l].seen = claims[l].seen
          /\ claims'[l].outcome = outcome
      BY <1>0, <2>1 DEF Claims, Outcomes
    <2>5. /\ copies' \in [Keys -> Nat] /\ \A j \in Keys : j # k => copies'[j] = copies[j]
          /\ copies'[k] = IF arrived THEN copies[k] + 1 ELSE copies[k]
      BY <1>0, <2>1, <2>2
    <2>6. \/ copies'[k] = copies[k] /\ outcome # "sent"
          \/ copies'[k] = copies[k] + 1 /\ outcome \in {"sent", "error"}
      BY <2>1, <2>5
    <2> QED BY <1>11, <2>2, <2>3, <2>4, <2>5, <2>6
  <1>14. ASSUME NEW l \in Lanes, Settle(l) PROVE DeliveryInv'
    <2> DEFINE k == claims[l].key
               made == deliveries[k].attempts + 1
    <2>1. /\ claims[l].at = "settle" /\ claims' = [claims EXCEPT ![l] = NotSending]
          /\ UNCHANGED <<members, active, links, nonces, copies, losses, strays, moves>>
      BY <1>14 DEF Settle
    <2>2. k \in Keys /\ deliveries[k].status = "pending" /\ claims[l].at # "idle"
      BY <1>0, <2>1 DEF HeldAlone
    <2>3. /\ deliveries[k].attempts \in Nat /\ deliveries[k].attempts < MaxAttempts
          /\ copies[k] \in Nat /\ losses[k] \in Nat /\ audits[k] = 0
      BY <1>0, <2>2 DEF AttemptLeft, DeliveryRows, OneOutcome, Settled
    <2>4. /\ claims[l].outcome \in {"sent", "error"} => copies[k] <= made + losses[k]
          /\ claims[l].outcome \notin {"sent", "error"} =>
                copies[k] <= deliveries[k].attempts + losses[k]
          /\ claims[l].outcome = "sent" => copies[k] > 0
      BY <1>0, <2>1, <2>2, <2>3 DEF CopiesCounted
    <2>5. PICK status \in Settled \cup {"pending"}, attempts \in 0..MaxAttempts :
             /\ Write(k, status, attempts)
             /\ status = "pending" => attempts < MaxAttempts
             /\ status = "sent" => copies[k] > 0
             /\ copies[k] <= attempts + losses[k]
      <3>0. made \in 0..MaxAttempts /\ deliveries[k].attempts \in 0..MaxAttempts
        BY <1>0, <2>3
      <3>1. CASE claims[l].outcome = "sent"
        <4>1. Write(k, "sent", made)
          BY <1>14, <3>1 DEF Settle
        <4> QED BY <2>4, <3>0, <3>1, <4>1 DEF Settled
      <3>2. CASE claims[l].outcome = "unreachable"
        <4>1. Write(k, "failed", made) /\ copies[k] <= made + losses[k]
          BY <1>14, <2>3, <2>4, <3>2 DEF Settle
        <4> QED BY <3>0, <4>1 DEF Settled
      <3>3. CASE claims[l].outcome = "error" /\ made >= MaxAttempts
        <4>1. Write(k, "failed", made)
          BY <1>14, <3>3 DEF Settle
        <4> QED BY <2>4, <3>0, <3>3, <4>1 DEF Settled
      <3>4. CASE claims[l].outcome = "error" /\ ~(made >= MaxAttempts)
        <4>1. Write(k, "pending", made) /\ made < MaxAttempts
          BY <1>0, <1>14, <2>3, <3>4 DEF Settle
        <4> QED BY <2>4, <3>0, <3>4, <4>1 DEF Settled
      <3>5. CASE claims[l].outcome \notin {"sent", "unreachable", "error"}
        <4>1. Write(k, "cancelled", deliveries[k].attempts)
          BY <1>14, <3>5 DEF Settle
        <4> QED BY <2>4, <3>0, <3>5, <4>1 DEF Settled
      <3> QED BY <3>1, <3>2, <3>3, <3>4, <3>5
    <2> DEFINE row == [deliveries[k] EXCEPT !.status = status, !.attempts = attempts]
               a == IF status \in Settled THEN 1 ELSE 0
    <2>6. deliveries' = [deliveries EXCEPT ![k] = row]
      BY <2>2, <2>5 DEF Write
    <2>7. /\ row \in DeliveryRows /\ row.to = deliveries[k].to /\ row.status = status
          /\ row.attempts = attempts
      BY <1>0, <2>2 DEF DeliveryRows
    <2>8. audits' = [audits EXCEPT ![k] = a] /\ a \in Nat
      <3>1. CASE status \in Settled
        <4>1. audits' = [audits EXCEPT ![k] = audits[k] + 1]
          BY <2>5, <3>1 DEF Write
        <4> QED BY <2>3, <3>1, <4>1
      <3>2. CASE status \notin Settled
        <4>1. audits' = audits
          BY <2>5, <3>2 DEF Write
        <4> QED BY <1>0, <2>3, <3>2, <4>1
      <3> QED BY <3>1, <3>2
    <2> HIDE DEF row
    <2>9. /\ deliveries' \in [Keys -> DeliveryRows] /\ audits' \in [Keys -> Nat]
          /\ losses' \in [Keys -> Nat] /\ losses' = losses
          /\ \A j \in Keys : j # k => deliveries'[j] = deliveries[j] /\ audits'[j] = audits[j]
          /\ deliveries'[k] = row /\ audits'[k] = a
      BY <1>0, <2>1, <2>2, <2>6, <2>7, <2>8
    <2> HIDE DEF k
    <2>10. claims[l].key = k
      BY DEF k
    <2> QED BY <2>1, <2>2, <2>5, <2>7, <2>9, <2>10, ClaimEnds
  <1>15. ASSUME NEW l \in Lanes, Lose(l) PROVE DeliveryInv'
    <2> DEFINE k == claims[l].key
               row == deliveries[k]
               n == losses[k] + 1
    <2>1. /\ claims[l].at # "idle" /\ claims' = [claims EXCEPT ![l] = NotSending]
          /\ losses' = [losses EXCEPT ![k] = n]
          /\ UNCHANGED <<members, active, links, nonces, deliveries, audits, copies, strays, moves>>
      BY <1>15 DEF Lose
    <2>2. k \in Keys /\ deliveries[k].status = "pending"
      BY <1>0, <2>1 DEF HeldAlone
    <2>3. /\ row \in DeliveryRows /\ row.attempts \in Nat /\ row.attempts < MaxAttempts
          /\ copies[k] \in Nat /\ losses[k] \in Nat /\ audits[k] = 0
      BY <1>0, <2>2 DEF AttemptLeft, DeliveryRows, OneOutcome, Settled
    <2>4. copies[k] <= row.attempts + n /\ n \in Nat
      BY <1>0, <2>1, <2>2, <2>3 DEF CopiesCounted
    <2> HIDE DEF n
    <2>5. /\ losses' \in [Keys -> Nat] /\ losses'[k] = n
          /\ \A j \in Keys : j # k => losses'[j] = losses[j]
      BY <1>0, <2>1, <2>2, <2>4
    <2>6. /\ row.status \in Settled \cup {"pending"} /\ row.status # "sent"
          /\ row.status \notin Settled
      BY <2>2 DEF Settled
    <2> HIDE DEF k
    <2>7. claims[l].key = k
      BY DEF k
    <2> QED BY <1>0, <2>1, <2>2, <2>3, <2>4, <2>5, <2>6, <2>7, ClaimEnds
  <1>16. ASSUME NEW k \in Keys, Expire(k) PROVE DeliveryInv'
    <2> DEFINE row == [deliveries[k] EXCEPT !.status = "failed"]
    <2>1. /\ deliveries[k].status = "pending" /\ ~Locked(k)
          /\ deliveries' = [deliveries EXCEPT ![k].status = "failed",
                                              ![k].attempts = deliveries[k].attempts]
          /\ audits' = [audits EXCEPT ![k] = audits[k] + 1]
          /\ UNCHANGED <<members, active, links, nonces, claims, copies, losses, strays, moves>>
      BY <1>16 DEF Expire, Write, Settled
    <2>2. deliveries' = [deliveries EXCEPT ![k] = row]
      BY <1>0, <2>1 DEF DeliveryRows
    <2>3. row \in DeliveryRows /\ row.status = "failed" /\ row.attempts = deliveries[k].attempts
      BY <1>0 DEF DeliveryRows, Settled
    <2>4. audits[k] = 0 /\ copies[k] <= deliveries[k].attempts + losses[k]
      BY <1>0, <2>1 DEF OneOutcome, Settled
    <2> HIDE DEF row
    <2>5. /\ deliveries' \in [Keys -> DeliveryRows] /\ audits' \in [Keys -> Nat]
          /\ \A j \in Keys : j # k => deliveries'[j] = deliveries[j] /\ audits'[j] = audits[j]
          /\ deliveries'[k] = row /\ audits'[k] = 1
      <3>1. audits' = [audits EXCEPT ![k] = 1]
        BY <2>1, <2>4
      <3>2. /\ deliveries' \in [Keys -> DeliveryRows] /\ deliveries'[k] = row
            /\ \A j \in Keys : j # k => deliveries'[j] = deliveries[j]
        BY <1>0, <2>2, <2>3
      <3> QED BY <1>0, <3>1, <3>2
    <2>6. Witnessed'
      <3>1. \A l \in Lanes :
                claims[l].at # "idle" => deliveries'[claims[l].key] = deliveries[claims[l].key]
        BY <1>0, <2>1, <2>2 DEF HeldAlone, Locked
      <3>2. claims' = claims /\ links' = links /\ members' = members /\ active' = active
        BY <2>1
      <3> QED BY <1>0, <3>1, <3>2 DEF Witnessed, May
    <2>7. /\ row.status \in Settled /\ row.status # "pruned"
          /\ row.status \notin {"none", "pending", "sent"}
          /\ copies[k] <= row.attempts + losses[k]
      BY <2>3, <2>4 DEF Settled
    <2> QED BY <1>0, <2>1, <2>2, <2>3, <2>5, <2>6, <2>7, FreeRowMoves
  <1>17. ASSUME NEW k \in Keys, Prune(k) PROVE DeliveryInv'
    <2> DEFINE row == [to |-> None, status |-> "pruned", attempts |-> 0]
    <2>1. /\ deliveries[k].status \in Settled /\ deliveries' = [deliveries EXCEPT ![k] = row]
          /\ UNCHANGED <<members, active, links, nonces, claims, audits, copies, losses, strays,
                         moves>>
      BY <1>17 DEF Prune
    <2>2. ~Locked(k)
      BY <1>0, <2>1 DEF HeldAlone, Locked, Settled
    <2>3. row \in DeliveryRows /\ row.status = "pruned"
      BY <1>0 DEF DeliveryRows
    <2> HIDE DEF row
    <2>4. /\ deliveries' \in [Keys -> DeliveryRows] /\ audits' \in [Keys -> Nat]
          /\ \A j \in Keys : j # k => deliveries'[j] = deliveries[j] /\ audits'[j] = audits[j]
          /\ deliveries'[k] = row /\ audits'[k] = 1
      BY <1>0, <2>1, <2>3 DEF OneOutcome
    <2>5. Witnessed'
      <3>1. \A l \in Lanes :
                claims[l].at # "idle" => deliveries'[claims[l].key] = deliveries[claims[l].key]
        BY <1>0, <2>1, <2>2 DEF HeldAlone, Locked
      <3> QED BY <1>0, <2>1, <3>1 DEF Witnessed, May
    <2> QED BY <1>0, <2>1, <2>2, <2>3, <2>4, <2>5, FreeRowMoves
  <1>18. CASE UNCHANGED deliveryVars
    <2>1. Witnessed'
      BY <1>w, <1>18 DEF deliveryVars
    <2> QED BY <1>0, <1>18, <2>1, RowsStay DEF deliveryVars
  <1> QED BY <1>1, <1>2, <1>3, <1>4, <1>5, <1>8, <1>9, <1>10, <1>12, <1>13, <1>14, <1>15, <1>16,
             <1>17, <1>18 DEF DeliveryNext, Proceed

\* A row that is claimed is held by one lane, whatever happens to its recipient.
THEOREM DeliveriesInOrder == DeliverySpec => []DeliveryInv
  <1>1. DeliveryInit => DeliveryInv
    <2> SUFFICES ASSUME DeliveryInit PROVE DeliveryInv
      OBVIOUS
    <2>1. /\ NotSending \in Claims /\ NotSending.at = "idle"
          /\ [user |-> None, state |-> "unissued"] \in Nonces
          /\ [to |-> None, status |-> "none", attempts |-> 0] \in DeliveryRows
      BY DeliveryAssumption DEF NotSending, Claims, Nonces, DeliveryRows
    <2>2. /\ claims \in [Lanes -> Claims] /\ \A l \in Lanes : claims[l].at = "idle"
          /\ deliveries \in [Keys -> DeliveryRows]
          /\ \A k \in Keys : deliveries[k].status = "none" /\ deliveries[k].attempts = 0
          /\ nonces \in [Tokens -> Nonces]
      BY <2>1 DEF DeliveryInit
    <2>3. /\ audits \in [Keys -> Nat] /\ copies \in [Keys -> Nat] /\ losses \in [Keys -> Nat]
          /\ \A k \in Keys : audits[k] = 0 /\ copies[k] = 0 /\ losses[k] = 0
      BY DEF DeliveryInit
    <2>4. DeliveryTypeOK
      BY <2>2, <2>3, DeliveryAssumption DEF DeliveryInit, DeliveryTypeOK
    <2>5. HeldAlone /\ Witnessed /\ CopiesCounted
      BY <2>2 DEF HeldAlone, Witnessed, CopiesCounted
    <2>6. AttemptLeft
      BY <2>2, DeliveryAssumption DEF AttemptLeft
    <2>7. OneOutcome
      BY <2>2, <2>3 DEF DeliveryInit, OneOutcome, SentToRecipient, Settled
    <2> QED BY <2>4, <2>5, <2>6, <2>7 DEF DeliveryInv
  <1> QED BY <1>1, DeliveryStep, PTL DEF DeliverySpec

\* A delivery has one outcome and one audit row, what is called sent arrived, a
\* second copy is accounted for, and no copy goes to anybody else (`run_once`,
\* `_settle`, `claim_next`, `zalo_id_for`).
THEOREM DeliveredOnce == DeliverySpec => []OneOutcome
  <1>1. DeliveryInv => OneOutcome
    BY DEF DeliveryInv
  <1> QED BY <1>1, DeliveriesInOrder, PTL

-----------------------------------------------------------------------------
(* ModelCalls: what a run is charged stays near its ceiling.                  *)

\* Every caller calls for one run.
LEMMA CallerOfOneRun ==
    /\ \A c \in Callers : RunOf(c) \in Runs /\ c \in CallersOf(RunOf(c))
    /\ \A r \in Runs : CallersOf(r) \subseteq Callers
    /\ \A r \in Runs : \A c \in CallersOf(r) : RunOf(c) = r
  <1>1. \A r \in Runs : CallersOf(r) \subseteq Callers
    BY DEF CallersOf, Callers, Loops
  <1>2. ASSUME NEW c \in Callers PROVE RunOf(c) \in Runs /\ c \in CallersOf(RunOf(c))
    <2>1. \E r \in Runs : c \in CallersOf(r)
      BY DEF CallersOf, Callers, Loops
    <2> QED BY <2>1 DEF RunOf
  <1>3. ASSUME NEW r \in Runs, NEW c \in CallersOf(r) PROVE RunOf(c) = r
    <2>1. RunOf(c) \in Runs /\ c \in CallersOf(RunOf(c))
      BY <1>1, <1>2
    <2>2. c \in CallersOf(RunOf(c)) \cap CallersOf(r)
      BY <2>1
    <2> QED BY <2>1, <2>2, CostAssumption
  <1> QED BY <1>1, <1>2, <1>3

\* The most that can be in the air: the loop's answer and all of the tools'.
FullAir(r) == {<<LoopOf[r], 1>>} \cup (ToolsOf[r] \X (1..Attempts))

LEMMA FullAirCounted ==
    ASSUME NEW r \in Runs
    PROVE  /\ IsFiniteSet(FullAir(r)) /\ Cardinality(ToolsOf[r]) \in Nat
           /\ Cardinality(FullAir(r)) = 1 + Attempts * Cardinality(ToolsOf[r])
  <1> DEFINE product == ToolsOf[r] \X (1..Attempts)
  <1>1. IsFiniteSet(ToolsOf[r]) /\ LoopOf[r] \notin ToolsOf[r]
    BY CostAssumption DEF Loops
  <1>2. Cardinality(ToolsOf[r]) \in Nat
    BY <1>1, FS_CardinalityType
  <1>3. IsFiniteSet(1..Attempts) /\ Cardinality(1..Attempts) = 3
    <2>1. 1 \in Int /\ 3 \in Int /\ ~(1 > 3) /\ 3 - 1 + 1 = 3
      OBVIOUS
    <2>2. IsFiniteSet(1..3) /\ Cardinality(1..3) = IF 1 > 3 THEN 0 ELSE 3 - 1 + 1
      BY <2>1, FS_Interval, ZenonT(30)
    <2> QED BY <2>1, <2>2 DEF Attempts
  <1>4. IsFiniteSet(product) /\ Cardinality(product) = Cardinality(ToolsOf[r]) * 3
    BY <1>1, <1>3, FS_Product
  <1>5. <<LoopOf[r], 1>> \notin product
    BY <1>1
  <1>6. /\ IsFiniteSet(product \cup {<<LoopOf[r], 1>>})
        /\ Cardinality(product \cup {<<LoopOf[r], 1>>}) = Cardinality(product) + 1
    BY <1>4, <1>5, FS_AddElement
  <1>7. FullAir(r) = product \cup {<<LoopOf[r], 1>>}
    BY DEF FullAir
  <1>8. Cardinality(FullAir(r)) = 1 + 3 * Cardinality(ToolsOf[r])
    BY <1>2, <1>4, <1>6, <1>7
  <1> QED BY <1>2, <1>6, <1>7, <1>8 DEF Attempts

\* Nothing else is ever in the air.
LEMMA AirIsFull ==
    ASSUME NEW r \in Runs
    PROVE  InTheAir(r) \subseteq FullAir(r) /\ InTheAir(r)' \subseteq FullAir(r)
  <1>1. ToolsOf[r] \cap Loops = {} /\ LoopOf[r] \in Loops
    BY CostAssumption DEF Loops
  <1> QED BY <1>1 DEF InTheAir, FullAir, CallersOf

LEMMA OneMoreFits ==
    ASSUME NEW m \in Nat, NEW n \in Nat, NEW k \in Nat, m + 1 <= n
    PROVE  k * m \in Nat /\ k * n \in Nat /\ k * m + k <= k * n
  <1>1. PICK d \in Nat : n = m + 1 + d
    <2> DEFINE d == n - (m + 1)
    <2>1. d \in Nat /\ n = m + 1 + d
      OBVIOUS
    <2> QED BY <2>1
  <1>2. k * n = k * m + k + k * d /\ k * d \in Nat /\ k * m \in Nat
    BY <1>1
  <1> QED BY <1>2

LEMMA SameAmount == \A m, n \in Nat : m = n => m <= n
  OBVIOUS

LEMMA FewerCostLess ==
    ASSUME NEW m \in Nat, NEW n \in Nat, NEW k \in Nat, m <= n
    PROVE  k * m \in Nat /\ k * n \in Nat /\ k * m <= k * n
  <1>1. PICK d \in Nat : n = m + d
    <2> DEFINE d == n - m
    <2>1. d \in Nat /\ n = m + d
      OBVIOUS
    <2> QED BY <2>1
  <1>2. k * n = k * m + k * d /\ k * d \in Nat /\ k * m \in Nat
    BY <1>1
  <1> QED BY <1>2

\* A step keeps a run's bound when it charges an answer that was in the air,
\* or finds the run still below its ceiling.
LEMMA BoundKept ==
    ASSUME Charging, Charging', AirIsBounded, NEW r \in Runs,
           \/ here'[r] <= here[r] /\ InTheAir(r)' \subseteq InTheAir(r)
           \/ here'[r] < Ceiling
           \/ \E s \in InTheAir(r) :
                  /\ InTheAir(r)' \subseteq InTheAir(r) \ {s}
                  /\ \E cost \in 1..MaxCost : here'[r] = here[r] + cost
    PROVE  here'[r] + MaxCost * Cardinality(InTheAir(r)') < Overshot(r)
  <1>1. /\ here[r] \in Nat /\ here'[r] \in Nat /\ MaxCost \in Nat /\ Ceiling \in Nat
    BY CostAssumption DEF Charging
  <1>2. /\ IsFiniteSet(InTheAir(r)) /\ Cardinality(InTheAir(r)) \in Nat
        /\ IsFiniteSet(InTheAir(r)') /\ Cardinality(InTheAir(r)') \in Nat
        /\ Cardinality(InTheAir(r)') <= Cardinality(FullAir(r)) /\ Cardinality(FullAir(r)) \in Nat
    BY FullAirCounted, AirIsFull, FS_Subset, FS_CardinalityType
  <1>3. Overshot(r) = Ceiling + MaxCost * Cardinality(FullAir(r))
    BY FullAirCounted DEF Overshot
  <1>4. here[r] + MaxCost * Cardinality(InTheAir(r)) < Overshot(r)
    BY DEF AirIsBounded
  <1> DEFINE was == Cardinality(InTheAir(r))
             now == Cardinality(InTheAir(r)')
             all == Cardinality(FullAir(r))
  <1>5. Overshot(r) \in Nat
    <2>1. all \in Nat
      BY <1>2
    <2> HIDE DEF all
    <2>2. MaxCost * all \in Nat
      BY <1>1, <2>1
    <2> QED BY <1>1, <1>3, <2>2 DEF all
  <1>6. CASE here'[r] <= here[r] /\ InTheAir(r)' \subseteq InTheAir(r)
    <2>1. now <= was /\ now \in Nat /\ was \in Nat
      BY <1>2, <1>6, FS_Subset
    <2> HIDE DEF now, was
    <2>2. MaxCost * now \in Nat /\ MaxCost * was \in Nat /\ MaxCost * now <= MaxCost * was
      BY <1>1, <2>1, FewerCostLess
    <2>3. here[r] + MaxCost * was < Overshot(r)
      BY <1>4 DEF was
    <2>4. here'[r] + MaxCost * now < Overshot(r)
      BY <1>1, <1>5, <1>6, <2>2, <2>3
    <2> QED BY <2>4 DEF now
  <1>7. CASE here'[r] < Ceiling
    <2>1. now <= all /\ now \in Nat /\ all \in Nat
      BY <1>2
    <2>2. Overshot(r) = Ceiling + MaxCost * all
      BY <1>3
    <2> HIDE DEF now, all
    <2>3. MaxCost * now \in Nat /\ MaxCost * all \in Nat /\ MaxCost * now <= MaxCost * all
      BY <1>1, <2>1, FewerCostLess
    <2>4. here'[r] + MaxCost * now < Overshot(r)
      BY <1>1, <1>7, <2>2, <2>3
    <2> QED BY <2>4 DEF now
  <1>8. ASSUME NEW s \in InTheAir(r), InTheAir(r)' \subseteq InTheAir(r) \ {s},
               NEW cost \in 1..MaxCost, here'[r] = here[r] + cost
        PROVE  here'[r] + MaxCost * Cardinality(InTheAir(r)') < Overshot(r)
    <2>1. Cardinality(InTheAir(r) \ {s}) = was - 1 /\ IsFiniteSet(InTheAir(r) \ {s})
      BY <1>2, FS_RemoveElement
    <2>2. now <= was - 1 /\ now \in Nat /\ was \in Nat
      BY <1>2, <1>8, <2>1, FS_Subset
    <2>3. cost \in Nat /\ cost <= MaxCost
      BY <1>1
    <2> HIDE DEF now, was
    <2>4. now + 1 <= was
      BY <2>2
    <2>5. MaxCost * now \in Nat /\ MaxCost * was \in Nat
          /\ MaxCost * now + MaxCost <= MaxCost * was
      BY <1>1, <2>2, <2>4, OneMoreFits
    <2>6. here[r] + MaxCost * was < Overshot(r)
      BY <1>4 DEF was
    <2>7. here'[r] + MaxCost * now < Overshot(r)
      BY <1>1, <1>5, <1>8, <2>3, <2>5, <2>6
    <2> QED BY <2>7 DEF now
  <1> QED BY <1>6, <1>7, <1>8

\* A call that goes on, or ends, has nothing new in the air.
LEMMA AirShrinks ==
    ASSUME Charging, Charging', NEW r \in Runs,
           \A d \in CallersOf(r) :
               \/ callers'[d] = callers[d] \/ callers'[d].at = "idle"
               \/ /\ callers[d].at # "idle"
                  /\ \/ callers'[d].attempt > callers[d].attempt
                     \/ /\ callers'[d].attempt = callers[d].attempt
                        /\ callers[d].at = "recording" => callers'[d].at = "recording"
    PROVE  InTheAir(r)' \subseteq InTheAir(r)
  <1> SUFFICES ASSUME NEW s \in InTheAir(r)' PROVE s \in InTheAir(r)
    OBVIOUS
  <1> DEFINE d == s[1]  n == s[2]
  <1>1. /\ d \in CallersOf(r) /\ n \in 1..Attempts /\ s \in CallersOf(r) \X (1..Attempts)
        /\ callers'[d].at # "idle"
        /\ IF d \in Loops THEN n = 1
           ELSE n > callers'[d].attempt \/ (n = callers'[d].attempt /\ callers'[d].at # "recording")
    BY DEF InTheAir
  <1>2. callers[d].attempt \in 0..Attempts /\ callers'[d].attempt \in 0..Attempts
    BY <1>1, CallerOfOneRun DEF Charging
  <1>3. /\ callers[d].at # "idle"
        /\ IF d \in Loops THEN n = 1
           ELSE n > callers[d].attempt \/ (n = callers[d].attempt /\ callers[d].at # "recording")
    <2>1. CASE callers'[d] = callers[d]
      BY <1>1, <2>1
    <2>2. CASE callers'[d] # callers[d]
      <3>1. /\ callers[d].at # "idle"
            /\ \/ callers'[d].attempt > callers[d].attempt
               \/ /\ callers'[d].attempt = callers[d].attempt
                  /\ callers[d].at = "recording" => callers'[d].at = "recording"
        BY <1>1, <2>2
      <3> HIDE DEF d, n
      <3>2. n > callers'[d].attempt => n > callers[d].attempt
        BY <1>1, <1>2, <3>1 DEF Attempts
      <3>3. n = callers'[d].attempt /\ callers'[d].attempt > callers[d].attempt
                => n > callers[d].attempt
        OBVIOUS
      <3> QED BY <1>1, <3>1, <3>2, <3>3
    <2> QED BY <2>1, <2>2
  <1> QED BY <1>1, <1>3 DEF InTheAir

\* A step of one caller, and what it charges.
LEMMA CallerSteps ==
    ASSUME CostInv, Charging', NEW c \in Callers, runs[RunOf(c)] = "running", UNCHANGED runs,
           \A d \in Callers : d # c => callers'[d] = callers[d],
           callers'[c].at # "idle" => callers'[c].attempt \in 1..Attempts,
           \A r \in Runs : r # RunOf(c) => ledger'[r] = ledger[r] /\ here'[r] = here[r],
           here'[RunOf(c)] <= ledger'[RunOf(c)],
           \/ here' = here /\ InTheAir(RunOf(c))' \subseteq InTheAir(RunOf(c))
           \/ here'[RunOf(c)] < Ceiling
           \/ \E s \in InTheAir(RunOf(c)) :
                  /\ InTheAir(RunOf(c))' \subseteq InTheAir(RunOf(c)) \ {s}
                  /\ \E cost \in 1..MaxCost : here'[RunOf(c)] = here[RunOf(c)] + cost
    PROVE  CostInv'
  <1>1. Charging /\ CallsAreOfRunning /\ LedgerIsWhole /\ AirIsBounded
    BY DEF CostInv
  <1>2. CallsAreOfRunning'
    BY <1>1 DEF CallsAreOfRunning
  <1>3. LedgerIsWhole'
    BY <1>1 DEF LedgerIsWhole
  <1>4. ASSUME NEW r \in Runs
        PROVE  here'[r] + MaxCost * Cardinality(InTheAir(r)') < Overshot(r)
    <2>1. CASE r = RunOf(c)
      <3>1. here' = here => here'[r] <= here[r]
        BY <1>1, SameAmount DEF Charging
      <3> QED BY <1>1, <2>1, <3>1, BoundKept
    <2>2. CASE r # RunOf(c)
      <3>1. \A d \in CallersOf(r) : d # c /\ d \in Callers
        BY <2>2, CallerOfOneRun
      <3>2. InTheAir(r)' \subseteq InTheAir(r)
        BY <1>1, <3>1, AirShrinks
      <3>3. here'[r] <= here[r]
        BY <1>1, <2>2, SameAmount DEF Charging
      <3> QED BY <1>1, <3>2, <3>3, BoundKept
    <2> QED BY <2>1, <2>2
  <1>5. AirIsBounded'
    BY <1>4 DEF AirIsBounded
  <1> QED BY <1>2, <1>3, <1>5 DEF CostInv

\* A step of one run, which leaves its calls or drops them.
LEMMA RunSteps ==
    ASSUME CostInv, Charging', NEW r \in Runs,
           \A q \in Runs : q # r => runs'[q] = runs[q] /\ ledger'[q] = ledger[q]
                                    /\ here'[q] = here[q],
           here'[r] <= here[r], runs'[r] # "ended" => here'[r] <= ledger'[r],
           \A c \in CallersOf(r) :
               callers'[c].at = "idle" \/ (callers'[c] = callers[c] /\ runs[r] # "running"),
           \A c \in Callers \ CallersOf(r) : callers'[c] = callers[c]
    PROVE  CostInv'
  <1>1. Charging /\ CallsAreOfRunning /\ LedgerIsWhole /\ AirIsBounded
    BY DEF CostInv
  <1>2. CallsAreOfRunning'
    <2> SUFFICES ASSUME NEW c \in Callers, callers'[c].at # "idle"
                 PROVE  runs'[RunOf(c)] = "running" /\ callers'[c].attempt \in 1..Attempts
      BY DEF CallsAreOfRunning
    <2>1. CASE c \in CallersOf(r)
      <3>1. RunOf(c) = r
        BY <2>1, CallerOfOneRun
      <3>2. callers'[c] = callers[c] /\ runs[r] # "running"
        BY <2>1
      <3> QED BY <1>1, <3>1, <3>2 DEF CallsAreOfRunning
    <2>2. CASE c \notin CallersOf(r)
      <3>1. RunOf(c) # r /\ RunOf(c) \in Runs
        BY <2>2, CallerOfOneRun
      <3> QED BY <1>1, <2>2, <3>1 DEF CallsAreOfRunning
    <2> QED BY <2>1, <2>2
  <1>3. LedgerIsWhole'
    BY <1>1 DEF LedgerIsWhole
  <1>4. ASSUME NEW q \in Runs
        PROVE  here'[q] + MaxCost * Cardinality(InTheAir(q)') < Overshot(q)
    <2>1. \A c \in CallersOf(q) : callers'[c] = callers[c] \/ callers'[c].at = "idle"
      BY CallerOfOneRun
    <2>2. InTheAir(q)' \subseteq InTheAir(q)
      BY <1>1, <2>1, AirShrinks
    <2>3. here'[q] <= here[q]
      BY <1>1, SameAmount DEF Charging
    <2> QED BY <1>1, <2>2, <2>3, BoundKept
  <1>5. AirIsBounded'
    BY <1>4 DEF AirIsBounded
  <1> QED BY <1>2, <1>3, <1>5 DEF CostInv

\* One caller's entry changes, and nothing of the totals.
LEMMA CallerGoesOn ==
    ASSUME CostInv, NEW c \in Callers, NEW e \in [at: {"idle", "next", "calling", "recording"},
                                                  attempt: 0..Attempts, cost: 0..MaxCost],
           callers' = [callers EXCEPT ![c] = e], UNCHANGED <<runs, ledger, here>>,
           callers[c].at # "idle",
           \/ e.at = "idle"
           \/ e.attempt > callers[c].attempt
           \/ e.attempt = callers[c].attempt /\ (callers[c].at = "recording" => e.at = "recording")
    PROVE  CostInv'
  <1>1. Charging /\ CallsAreOfRunning /\ LedgerIsWhole
    BY DEF CostInv
  <1>2. callers'[c] = e /\ \A d \in Callers : d # c => callers'[d] = callers[d]
    BY <1>1 DEF Charging
  <1>3. Charging'
    BY <1>1 DEF Charging
  <1>4. /\ runs[RunOf(c)] = "running" /\ RunOf(c) \in Runs
        /\ callers[c].attempt \in 1..Attempts /\ here[RunOf(c)] <= ledger[RunOf(c)]
    BY <1>1, CallerOfOneRun DEF CallsAreOfRunning, LedgerIsWhole
  <1>5. e.at # "idle" => e.attempt \in 1..Attempts
    <2>1. e.attempt \in 0..Attempts
      OBVIOUS
    <2> QED BY <1>4, <2>1 DEF Attempts
  <1>6. InTheAir(RunOf(c))' \subseteq InTheAir(RunOf(c))
    <2>1. \A d \in CallersOf(RunOf(c)) : d \in Callers
      BY <1>4, CallerOfOneRun
    <2> QED BY <1>1, <1>2, <1>3, <1>4, <2>1, AirShrinks
  <1> QED BY <1>2, <1>3, <1>4, <1>5, <1>6, CallerSteps

\* The next attempt is a later one.
LEMMA ContinueGoesOn ==
    ASSUME CostInv, NEW c \in Callers, callers[c].at # "idle", Continue(c),
           UNCHANGED <<runs, ledger, here>>
    PROVE  CostInv'
  <1> DEFINE e == IF callers[c].attempt = Attempts THEN NotCalling
                  ELSE [at |-> "next", attempt |-> callers[c].attempt + 1, cost |-> 0]
  <1>1. Charging /\ CallsAreOfRunning /\ MaxCost \in Nat
    BY CostAssumption DEF CostInv
  <1>2. callers[c].attempt \in 1..Attempts
    BY <1>1 DEF CallsAreOfRunning
  <1>3. callers' = [callers EXCEPT ![c] = e]
    BY <1>1 DEF Continue, Charging
  <1>4. /\ e \in [at: {"idle", "next", "calling", "recording"}, attempt: 0..Attempts,
                  cost: 0..MaxCost]
        /\ e.at = "idle" \/ e.attempt > callers[c].attempt
    <2>1. 0 \in 0..MaxCost /\ 0 \in 0..Attempts
      BY <1>1 DEF Attempts
    <2>2. CASE callers[c].attempt = Attempts
      BY <2>1, <2>2 DEF NotCalling
    <2>3. CASE callers[c].attempt # Attempts
      <3>1. /\ callers[c].attempt + 1 \in 0..Attempts
            /\ callers[c].attempt + 1 > callers[c].attempt
        BY <1>2, <2>3 DEF Attempts
      <3> QED BY <2>1, <2>3, <3>1
    <2> QED BY <2>2, <2>3
  <1> HIDE DEF e
  <1> QED BY <1>3, <1>4, CallerGoesOn

\* The caller has its output and makes no more attempts.
LEMMA CallEnds ==
    ASSUME CostInv, NEW c \in Callers, callers[c].at # "idle",
           callers' = [callers EXCEPT ![c] = NotCalling], UNCHANGED <<runs, ledger, here>>
    PROVE  CostInv'
  <1>1. /\ NotCalling \in [at: {"idle", "next", "calling", "recording"}, attempt: 0..Attempts,
                           cost: 0..MaxCost]
        /\ NotCalling.at = "idle"
    BY CostAssumption DEF NotCalling, Attempts
  <1> QED BY <1>1, CallerGoesOn

\* An answer that was in the air is charged to the run and to its ledger.
LEMMA AnswerCharged ==
    ASSUME CostInv, NEW c \in Callers, NEW cost \in 1..MaxCost, callers[c].at = "calling",
           Charge(RunOf(c), cost), UNCHANGED runs,
           NEW e \in [at: {"idle", "recording"}, attempt: 0..Attempts, cost: 0..MaxCost],
           callers' = [callers EXCEPT ![c] = e],
           IF c \in Loops THEN e.at = "idle"
           ELSE e.at = "recording" /\ e.attempt = callers[c].attempt
    PROVE  CostInv'
  <1> DEFINE r == RunOf(c)
             n == IF c \in Loops THEN 1 ELSE callers[c].attempt
             s == <<c, n>>
  <1>1. Charging /\ CallsAreOfRunning /\ LedgerIsWhole /\ MaxCost \in Nat
    BY CostAssumption DEF CostInv
  <1>2. /\ r \in Runs /\ c \in CallersOf(r) /\ runs[r] = "running" /\ here[r] <= ledger[r]
        /\ callers[c].attempt \in 1..Attempts
    BY <1>1, CallerOfOneRun DEF CallsAreOfRunning, LedgerIsWhole
  <1>3. /\ callers'[c] = e /\ \A d \in Callers : d # c => callers'[d] = callers[d]
    BY <1>1 DEF Charging
  <1>4. /\ ledger'[r] = ledger[r] + cost /\ here'[r] = here[r] + cost
        /\ \A q \in Runs : q # r => ledger'[q] = ledger[q] /\ here'[q] = here[q]
    BY <1>1, <1>2 DEF Charge, Charging
  <1>5. Charging'
    <2>1. ledger[r] + cost \in Nat /\ here[r] + cost \in Nat
      <3>1. ledger[r] \in Nat /\ here[r] \in Nat
        BY <1>1, <1>2 DEF Charging
      <3>2. cost \in Nat
        BY <1>1
      <3> QED BY <3>1, <3>2
    <2>2. ledger' \in [Runs -> Nat] /\ here' \in [Runs -> Nat]
      BY <1>1, <1>2, <2>1 DEF Charge, Charging
    <2>3. callers' \in [Callers -> [at: {"idle", "next", "calling", "recording"},
                                    attempt: 0..Attempts, cost: 0..MaxCost]]
      BY <1>1 DEF Charging
    <2> QED BY <1>1, <2>2, <2>3 DEF Charging
  <1>6. n \in 1..Attempts
    BY <1>2 DEF Attempts
  <1>7. s \in InTheAir(r)
    BY <1>2, <1>6 DEF InTheAir
  <1>8. InTheAir(r)' \subseteq InTheAir(r)
    <2>1. \A d \in CallersOf(r) : d \in Callers
      BY <1>2, CallerOfOneRun
    <2> QED BY <1>1, <1>2, <1>3, <1>5, <2>1, AirShrinks
  <1>9. s \notin InTheAir(r)'
    <2>1. CASE c \in Loops
      <3>1. callers'[c].at = "idle" /\ s[1] = c
        BY <1>3, <2>1
      <3> QED BY <3>1 DEF InTheAir
    <2>2. CASE c \notin Loops
      <3>1. callers'[c].at = "recording" /\ callers'[c].attempt = n
        BY <1>3, <2>2
      <3>2. ~(n > n)
        BY <1>6
      <3> QED BY <2>2, <3>1, <3>2 DEF InTheAir
    <2> QED BY <2>1, <2>2
  <1>10. e.at # "idle" => e.attempt \in 1..Attempts
    BY <1>2
  <1>11. /\ InTheAir(r)' \subseteq InTheAir(r) \ {s}
    BY <1>8, <1>9
  <1>12. here'[r] <= ledger'[r]
    <2>1. here[r] \in Nat /\ ledger[r] \in Nat
      BY <1>1, <1>2 DEF Charging
    <2>2. cost \in Nat
      BY <1>1
    <2> QED BY <1>2, <1>4, <2>1, <2>2
  <1> HIDE DEF n, s
  <1> QED BY <1>2, <1>3, <1>4, <1>5, <1>7, <1>10, <1>11, <1>12, CallerSteps

LEMMA CostStep == CostInv /\ [CostNext]_costVars => CostInv'
  <1> SUFFICES ASSUME CostInv, [CostNext]_costVars PROVE CostInv'
    OBVIOUS
  <1>0. /\ Charging /\ CallsAreOfRunning /\ LedgerIsWhole /\ AirIsBounded
        /\ MaxCost \in Nat /\ Ceiling \in Nat
    BY CostAssumption DEF CostInv
  <1>1. ASSUME NEW r \in Runs,
               \/ RequireRuns(r) \/ RequireSpend(r) \/ StartRun(r) \/ ResumeRun(r) \/ Cancelled(r)
               \/ \E known \in Amounts : ResumeElsewhere(r, known)
               \/ \E ph \in {"unbilled", "unbilled paused"} : Returns(r, ph)
               \/ \E taken \in BOOLEAN : Settles(r, taken)
        PROVE  CostInv'
    <2>1. \A c \in CallersOf(r) : c \in Callers
      BY CallerOfOneRun
    <2> DEFINE same == \A q \in Runs : here'[q] = here[q] /\ here'[q] <= here[q]
    <2>0. UNCHANGED here => same
      BY <1>0, SameAmount DEF Charging
    <2>6. runs[r] # "ended" => here[r] <= ledger[r]
      BY <1>0 DEF LedgerIsWhole
    <2>2. CASE RequireRuns(r) \/ RequireSpend(r) \/ StartRun(r) \/ ResumeRun(r)
      <3>1. PICK ph \in {"counted", "allowed", "refused", "running"} : To(r, ph)
        BY <2>2 DEF RequireRuns, RequireSpend, StartRun, ResumeRun
      <3>2. /\ runs[r] \in {"new", "counted", "allowed", "paused"}
            /\ UNCHANGED <<ledger, callers, here>>
        BY <2>2 DEF RequireRuns, RequireSpend, StartRun, ResumeRun, callVars
      <3>3. /\ Charging' /\ \A q \in Runs : q # r => runs'[q] = runs[q]
        BY <1>0, <3>1, <3>2 DEF To, Charging
      <3> QED BY <2>0, <2>1, <2>6, <3>2, <3>3, RunSteps
    <2>3. CASE \E ph \in {"unbilled", "unbilled paused"} : Returns(r, ph)
      <3>1. PICK ph \in {"unbilled", "unbilled paused"} : Returns(r, ph)
        BY <2>3
      <3>2. /\ runs[r] = "running" /\ UNCHANGED <<ledger, callers, here>>
            /\ \A c \in CallersOf(r) : callers'[c].at = "idle"
        BY <3>1 DEF Returns, callVars
      <3>3. /\ Charging' /\ \A q \in Runs : q # r => runs'[q] = runs[q]
        BY <1>0, <3>1, <3>2 DEF Returns, To, Charging
      <3> QED BY <2>0, <2>6, <3>2, <3>3, RunSteps
    <2>4. CASE Cancelled(r)
      <3>1. /\ runs[r] = "running" /\ UNCHANGED <<ledger, here>>
            /\ callers' = [c \in Callers |-> IF c \in CallersOf(r) THEN NotCalling ELSE callers[c]]
        BY <2>4 DEF Cancelled
      <3>2. /\ \A c \in CallersOf(r) : callers'[c].at = "idle"
            /\ \A c \in Callers \ CallersOf(r) : callers'[c] = callers[c]
        BY <2>1, <3>1 DEF NotCalling
      <3>3. NotCalling \in [at: {"idle", "next", "calling", "recording"}, attempt: 0..Attempts,
                            cost: 0..MaxCost]
        BY <1>0 DEF NotCalling, Attempts
      <3>4. callers' \in [Callers -> [at: {"idle", "next", "calling", "recording"},
                                      attempt: 0..Attempts, cost: 0..MaxCost]]
        BY <1>0, <3>1, <3>3 DEF Charging
      <3>5. Charging' /\ \A q \in Runs : q # r => runs'[q] = runs[q]
        BY <1>0, <2>4, <3>1, <3>4 DEF Cancelled, To, Charging
      <3> QED BY <2>0, <2>6, <3>1, <3>2, <3>5, RunSteps
    <2>5. CASE \E taken \in BOOLEAN : Settles(r, taken)
      <3>1. /\ runs[r] \in {"unbilled", "unbilled paused"} /\ UNCHANGED <<callers, here>>
            /\ To(r, IF runs[r] = "unbilled" THEN "ended" ELSE "paused")
            /\ ledger' = IF runs[r] = "unbilled" THEN [ledger EXCEPT ![r] = 0] ELSE ledger
        BY <2>5 DEF Settles, callVars
      <3>2. /\ Charging'
            /\ \A q \in Runs : q # r => runs'[q] = runs[q] /\ ledger'[q] = ledger[q]
        <4>1. ledger' \in [Runs -> Nat] /\ \A q \in Runs : q # r => ledger'[q] = ledger[q]
          BY <1>0, <3>1 DEF Charging
        <4>2. /\ runs' \in [Runs -> {"new", "counted", "allowed", "running", "unbilled", "paused",
                                     "unbilled paused", "refused", "ended"}]
              /\ \A q \in Runs : q # r => runs'[q] = runs[q]
          BY <1>0, <3>1 DEF To, Charging
        <4> QED BY <1>0, <3>1, <4>1, <4>2 DEF Charging
      <3>3. runs'[r] # "ended" => ledger'[r] = ledger[r]
        BY <1>0, <3>1 DEF To, Charging
      <3> QED BY <2>0, <2>1, <2>6, <3>1, <3>2, <3>3, RunSteps
    <2>7. ASSUME NEW known \in Amounts, ResumeElsewhere(r, known)
          PROVE  CostInv'
      <3>1. /\ runs[r] = "paused" /\ To(r, "running") /\ UNCHANGED callers
            /\ ledger' = [ledger EXCEPT ![r] = known] /\ here' = [here EXCEPT ![r] = 0]
        BY <2>7 DEF ResumeElsewhere
      <3>2. /\ known \in Nat /\ 0 <= known /\ here[r] \in Nat /\ 0 <= here[r]
        <4>1. here[r] \in Nat
          BY <1>0 DEF Charging
        <4>2. MaxAnswers * MaxCost \in Nat
          BY CostAssumption
        <4>3. known \in Nat
          BY <4>2 DEF Amounts
        <4> QED BY <4>1, <4>3
      <3>3. /\ ledger' \in [Runs -> Nat] /\ here' \in [Runs -> Nat]
            /\ ledger'[r] = known /\ here'[r] = 0
            /\ \A q \in Runs : q # r => ledger'[q] = ledger[q] /\ here'[q] = here[q]
        BY <1>0, <3>1, <3>2 DEF Charging
      <3>4. Charging' /\ \A q \in Runs : q # r => runs'[q] = runs[q]
        BY <1>0, <3>1, <3>3 DEF To, Charging
      <3> QED BY <2>1, <3>1, <3>2, <3>3, <3>4, RunSteps
    <2> QED BY <1>1, <2>2, <2>3, <2>4, <2>5, <2>7
  <1>2. ASSUME NEW c \in Callers,
               \/ Generate(c) \/ Calling(c) \/ CircuitOpen(c) \/ CallFails(c)
               \/ \E cost \in 1..MaxCost :
                      Unparseable(c, cost) \/ LoopAnswers(c, cost) \/ GatewayAnswers(c, cost)
               \/ \E valid \in BOOLEAN : RecordSpend(c, valid) \/ SpendLost(c, valid)
        PROVE  CostInv'
    <2>0. callers[c] \in [at: {"idle", "next", "calling", "recording"}, attempt: 0..Attempts,
                          cost: 0..MaxCost]
      BY <1>0 DEF Charging
    <2>1. CASE Generate(c)
      <3> DEFINE e == [callers[c] EXCEPT !.at = "next", !.attempt = 1]
      <3>1. /\ runs[RunOf(c)] = "running" /\ ledger[RunOf(c)] < Ceiling
            /\ UNCHANGED <<runs, ledger, here>>
        BY <2>1 DEF Generate, CheckLedger, Totals
      <3>2. /\ e.at = "next" /\ e.attempt = 1 /\ 1 \in 1..Attempts
            /\ e \in [at: {"idle", "next", "calling", "recording"}, attempt: 0..Attempts,
                      cost: 0..MaxCost]
        <4>1. 1 \in 1..Attempts /\ 1 \in 0..Attempts
          BY DEF Attempts
        <4> QED BY <2>0, <4>1
      <3>3. callers' = [callers EXCEPT ![c] = e]
        BY <1>0, <2>1 DEF Generate, Charging
      <3> HIDE DEF e
      <3>4. /\ callers'[c] = e /\ \A d \in Callers : d # c => callers'[d] = callers[d]
        BY <1>0, <3>3 DEF Charging
      <3>5. Charging'
        BY <1>0, <3>1, <3>2, <3>3 DEF Charging
      <3>6. /\ RunOf(c) \in Runs /\ here[RunOf(c)] <= ledger[RunOf(c)]
            /\ here[RunOf(c)] < Ceiling
        <4>1. RunOf(c) \in Runs /\ here[RunOf(c)] <= ledger[RunOf(c)]
          BY <1>0, <3>1, CallerOfOneRun DEF LedgerIsWhole
        <4>2. here[RunOf(c)] \in Nat /\ ledger[RunOf(c)] \in Nat
          BY <1>0, <4>1 DEF Charging
        <4> QED BY <1>0, <3>1, <4>1, <4>2
      <3> QED BY <3>1, <3>2, <3>4, <3>5, <3>6, CallerSteps
    <2>2. CASE Calling(c)
      <3> DEFINE e == [callers[c] EXCEPT !.at = "calling"]
      <3>1. callers[c].at = "next" /\ UNCHANGED <<runs, ledger, here>>
        BY <2>2 DEF Calling, Totals
      <3>2. /\ e.attempt = callers[c].attempt
            /\ e \in [at: {"idle", "next", "calling", "recording"}, attempt: 0..Attempts,
                      cost: 0..MaxCost]
        BY <2>0
      <3>3. callers' = [callers EXCEPT ![c] = e]
        BY <1>0, <2>2 DEF Calling, Charging
      <3> HIDE DEF e
      <3> QED BY <3>1, <3>2, <3>3, CallerGoesOn
    <2>3. CASE CircuitOpen(c) \/ CallFails(c) \/ \E cost \in 1..MaxCost : Unparseable(c, cost)
      <3>1. callers[c].at # "idle" /\ Continue(c) /\ UNCHANGED <<runs, ledger, here>>
        BY <2>3 DEF CircuitOpen, CallFails, Unparseable, Totals
      <3> QED BY <3>1, ContinueGoesOn
    <2>4. ASSUME NEW cost \in 1..MaxCost, LoopAnswers(c, cost) PROVE CostInv'
      <3>1. /\ callers[c].at = "calling" /\ c \in Loops /\ Charge(RunOf(c), cost) /\ UNCHANGED runs
            /\ callers' = [callers EXCEPT ![c] = NotCalling]
        BY <2>4 DEF LoopAnswers
      <3>2. /\ NotCalling \in [at: {"idle", "recording"}, attempt: 0..Attempts, cost: 0..MaxCost]
            /\ NotCalling.at = "idle"
        BY <1>0 DEF NotCalling, Attempts
      <3> QED BY <3>1, <3>2, AnswerCharged
    <2>5. ASSUME NEW cost \in 1..MaxCost, GatewayAnswers(c, cost) PROVE CostInv'
      <3> DEFINE e == [callers[c] EXCEPT !.at = "recording", !.cost = cost]
      <3>1. /\ callers[c].at = "calling" /\ c \notin Loops /\ Charge(RunOf(c), cost)
            /\ UNCHANGED runs
        BY <2>5 DEF GatewayAnswers
      <3>2. callers' = [callers EXCEPT ![c] = e]
        BY <1>0, <2>5 DEF GatewayAnswers, Charging
      <3>3. cost \in 0..MaxCost
        BY <1>0
      <3>4. /\ e \in [at: {"idle", "recording"}, attempt: 0..Attempts, cost: 0..MaxCost]
            /\ e.at = "recording" /\ e.attempt = callers[c].attempt
        BY <2>0, <3>3
      <3> HIDE DEF e
      <3> QED BY <3>1, <3>2, <3>4, AnswerCharged
    <2>6. CASE \E valid \in BOOLEAN : RecordSpend(c, valid) \/ SpendLost(c, valid)
      <3>1. /\ callers[c].at # "idle" /\ UNCHANGED <<runs, ledger, here>>
            /\ callers' = [callers EXCEPT ![c] = NotCalling] \/ Continue(c)
        BY <2>6 DEF RecordSpend, SpendLost, Validate
      <3> QED BY <3>1, CallEnds, ContinueGoesOn
    <2> QED BY <1>2, <2>1, <2>2, <2>3, <2>4, <2>5, <2>6
  <1>3. CASE (\E p \in Providers : Cools(p)) \/ UNCHANGED costVars
    <2>1. UNCHANGED <<runs, ledger, callers, here>>
      BY <1>3 DEF Cools, Totals, costVars
    <2> QED BY <1>0, <2>1 DEF CostInv, Charging, CallsAreOfRunning, LedgerIsWhole, AirIsBounded,
            InTheAir
  <1> QED BY <1>1, <1>2, <1>3 DEF CostNext

\* CostInv holds of every behaviour of ModelCalls: only a running run has calls,
\* its ledger is whole until it ends, and what it was charged, with what the
\* calls in the air may add, is within the bound of its ceiling.
THEOREM CostsInOrder == CostSpec => []CostInv
  <1>1. CostInit => CostInv
    <2> SUFFICES ASSUME CostInit PROVE CostInv
      OBVIOUS
    <2>1. MaxCost \in Nat /\ MaxCost > 0 /\ Ceiling \in Nat
      BY CostAssumption
    <2>2. NotCalling \in [at: {"idle", "next", "calling", "recording"}, attempt: 0..Attempts,
                          cost: 0..MaxCost]
      BY <2>1 DEF NotCalling, Attempts
    <2>3. Charging
      BY <2>2 DEF CostInit, Charging
    <2>4. \A c \in Callers : callers[c].at = "idle"
      BY DEF CostInit, NotCalling
    <2>5. ASSUME NEW r \in Runs
          PROVE  here[r] + MaxCost * Cardinality(InTheAir(r)) < Overshot(r)
      <3> DEFINE tools == Cardinality(ToolsOf[r])
      <3>1. InTheAir(r) = {}
        BY <2>4, CallerOfOneRun DEF InTheAir
      <3>2. Cardinality(InTheAir(r)) = 0 /\ here[r] = 0
        BY <3>1, FS_EmptySet DEF CostInit
      <3>3. tools \in Nat
        BY FullAirCounted
      <3> HIDE DEF tools
      <3>4. MaxCost * tools \in Nat
        BY <2>1, <3>3
      <3>5. MaxCost * (1 + 3 * tools) = MaxCost + 3 * (MaxCost * tools)
        BY <2>1, <3>3
      <3>6. 0 + MaxCost * 0 < Ceiling + MaxCost * (1 + 3 * tools)
        BY <2>1, <3>4, <3>5
      <3> QED BY <3>2, <3>6 DEF Attempts, tools, Overshot
    <2> QED BY <2>3, <2>4, <2>5 DEF CostInit, CostInv, CallsAreOfRunning, LedgerIsWhole,
            AirIsBounded
  <1> QED BY <1>1, CostStep, PTL DEF CostSpec

-----------------------------------------------------------------------------
(* ModelCalls: the day's total.                                               *)

Units(f, S) == {x \in S \X Amounts : x[2] < f[x[1]]}

\* The units of finitely many amounts can be counted.
LEMMA UnitsCounted ==
    ASSUME NEW f, NEW S, IsFiniteSet(S)
    PROVE  IsFiniteSet(Units(f, S)) /\ Total(f, S) \in Nat /\ Total(f, S) = Cardinality(Units(f, S))
  <1>1. IsFiniteSet(Amounts)
    <2>1. 0 \in Int /\ MaxAnswers * MaxCost \in Int
      BY CostAssumption
    <2> QED BY <2>1, FS_Interval DEF Amounts
  <1>2. IsFiniteSet(S \X Amounts)
    BY <1>1, FS_Product
  <1>3. Units(f, S) \subseteq S \X Amounts
    BY DEF Units
  <1> QED BY <1>2, <1>3, FS_Subset, FS_CardinalityType DEF Total, Units

\* A total is the totals of two parts.
LEMMA TotalOfParts ==
    ASSUME NEW f, NEW S, NEW T, IsFiniteSet(S), T \subseteq S
    PROVE  /\ Total(f, T) \in Nat /\ Total(f, S \ T) \in Nat
           /\ Total(f, S) = Total(f, T) + Total(f, S \ T)
  <1>1. IsFiniteSet(T) /\ IsFiniteSet(S \ T)
    BY FS_Subset
  <1>2. Units(f, S) = Units(f, T) \cup Units(f, S \ T)
    BY DEF Units
  <1>3. Units(f, T) \cap Units(f, S \ T) = {}
    BY DEF Units
  <1>4. Cardinality(Units(f, T) \cap Units(f, S \ T)) = 0
    BY <1>3, FS_EmptySet
  <1>5. /\ Total(f, S) = Cardinality(Units(f, T) \cup Units(f, S \ T))
        /\ Total(f, T) = Cardinality(Units(f, T)) /\ Total(f, S \ T) = Cardinality(Units(f, S \ T))
        /\ IsFiniteSet(Units(f, T)) /\ IsFiniteSet(Units(f, S \ T))
        /\ Total(f, T) \in Nat /\ Total(f, S \ T) \in Nat
    BY <1>1, <1>2, UnitsCounted
  <1>6. Cardinality(Units(f, T) \cup Units(f, S \ T)) =
            Cardinality(Units(f, T)) + Cardinality(Units(f, S \ T))
                - Cardinality(Units(f, T) \cap Units(f, S \ T))
    BY <1>5, FS_Union
  <1> QED BY <1>4, <1>5, <1>6

\* A total depends on the amounts alone.
LEMMA TotalOfSame ==
    ASSUME NEW f, NEW g, NEW S, \A x \in S : f[x] = g[x]
    PROVE  Total(f, S) = Total(g, S)
  <1>1. {x \in S \X Amounts : x[2] < f[x[1]]} = {x \in S \X Amounts : x[2] < g[x[1]]}
    OBVIOUS
  <1> QED BY <1>1 DEF Total

LEMMA TotalOfNone ==
    ASSUME NEW f, NEW S, \A x \in S : f[x] = 0
    PROVE  Total(f, S) = 0
  <1>1. \A n \in Amounts : ~(n < 0)
    BY CostAssumption DEF Amounts
  <1>2. {x \in S \X Amounts : x[2] < f[x[1]]} = {}
    BY <1>1
  <1> QED BY <1>2, FS_EmptySet DEF Total

LEMMA TotalOfOne ==
    ASSUME NEW f, NEW x, f[x] \in Amounts
    PROVE  Total(f, {x}) = f[x] /\ f[x] \in Nat
  <1> DEFINE n == f[x]
             most == MaxAnswers * MaxCost
  <1>1. n \in Nat /\ most \in Nat /\ n <= most /\ Amounts = 0..most
    BY CostAssumption DEF Amounts
  <1> HIDE DEF most
  <1>2. 0 \in Int /\ n - 1 \in Int
    BY <1>1
  <1>3. /\ IsFiniteSet(0..(n - 1))
        /\ Cardinality(0..(n - 1)) = IF 0 > n - 1 THEN 0 ELSE (n - 1) - 0 + 1
    BY <1>2, FS_Interval, ZenonT(30)
  <1>4. Cardinality(0..(n - 1)) = n
    BY <1>1, <1>3
  <1>5. IsFiniteSet({x}) /\ Cardinality({x}) = 1
    BY FS_Singleton
  <1>6. Cardinality({x} \X (0..(n - 1))) = Cardinality({x}) * Cardinality(0..(n - 1))
    BY <1>3, <1>5, FS_Product
  <1>7. ASSUME NEW k PROVE (k \in Amounts /\ k < n) <=> k \in 0..(n - 1)
    BY <1>1
  <1>8. {u \in {x} \X Amounts : u[2] < f[u[1]]} = {x} \X (0..(n - 1))
    <2> HIDE DEF n
    <2>1. \A u \in {x} \X Amounts : u[2] < f[u[1]] <=> u[2] < n
      BY DEF n
    <2>2. \A k : k \in 0..(n - 1) <=> k \in Amounts /\ k < n
      BY <1>7
    <2> QED BY <2>1, <2>2
  <1>9. Total(f, {x}) = 1 * n
    BY <1>4, <1>5, <1>6, <1>8 DEF Total
  <1> QED BY <1>1, <1>9

\* When one amount changes, the total changes by as much.
LEMMA TotalChanges ==
    ASSUME NEW f, NEW g, NEW S, NEW x \in S, IsFiniteSet(S), f[x] \in Amounts, g[x] \in Amounts,
           \A y \in S : y # x => g[y] = f[y]
    PROVE  \E rest \in Nat : Total(f, S) = rest + f[x] /\ Total(g, S) = rest + g[x]
  <1>1. {x} \subseteq S
    OBVIOUS
  <1>0. Total(f, S \ {x}) \in Nat
    BY <1>1, TotalOfParts
  <1>2. Total(f, S) = Total(f, {x}) + Total(f, S \ {x})
    BY <1>1, TotalOfParts
  <1>3. Total(g, S) = Total(g, {x}) + Total(g, S \ {x})
    BY <1>1, TotalOfParts
  <1>4. Total(f, S \ {x}) = Total(g, S \ {x})
    BY TotalOfSame
  <1>5. Total(f, {x}) = f[x] /\ Total(g, {x}) = g[x] /\ f[x] \in Nat /\ g[x] \in Nat
    BY TotalOfOne
  <1>6. Total(f, S) = Total(f, S \ {x}) + f[x]
    BY <1>0, <1>2, <1>5
  <1>7. Total(g, S) = Total(f, S \ {x}) + g[x]
    BY <1>0, <1>3, <1>4, <1>5
  <1> QED BY <1>0, <1>6, <1>7

\* The callers are finitely many.
LEMMA CallersFinite == IsFiniteSet(Runs) /\ IsFiniteSet(Callers)
  <1>1. IsFiniteSet(Runs)
    BY CostAssumption
  <1>2. IsFiniteSet({LoopOf[r] : r \in Runs})
    <2> DEFINE T == {LoopOf[r] : r \in Runs}
               f == [r \in Runs |-> LoopOf[r]]
    <2>1. f \in Surjection(Runs, T)
      BY DEF Surjection
    <2> QED BY <1>1, <2>1, FS_Surjection
  <1>3. IsFiniteSet(UNION {ToolsOf[r] : r \in Runs})
    <2> DEFINE T == {ToolsOf[r] : r \in Runs}
               f == [r \in Runs |-> ToolsOf[r]]
    <2>1. f \in Surjection(Runs, T)
      BY DEF Surjection
    <2>2. IsFiniteSet(T)
      BY <1>1, <2>1, FS_Surjection
    <2>3. \A t \in T : IsFiniteSet(t)
      BY CostAssumption
    <2> QED BY <2>2, <2>3, FS_UNION
  <1> QED BY <1>1, <1>2, <1>3, FS_Union DEF Callers, Loops
\* One answer costs no more than all of them.
LEMMA CostsFit ==
    /\ MaxCost \in Nat /\ MaxAnswers * MaxCost \in Nat /\ Amounts = 0..(MaxAnswers * MaxCost)
    /\ 0..MaxCost \subseteq Amounts
  <1>1. MaxCost \in Nat /\ MaxAnswers \in Nat /\ 1 <= MaxAnswers
    BY CostAssumption
  <1>2. /\ MaxCost * 1 \in Nat /\ MaxCost * MaxAnswers \in Nat
        /\ MaxCost * 1 <= MaxCost * MaxAnswers
    BY <1>1, FewerCostLess
  <1>3. MaxCost * 1 = MaxCost /\ MaxCost * MaxAnswers = MaxAnswers * MaxCost
    BY <1>1
  <1> QED BY <1>1, <1>2, <1>3 DEF Amounts

Recorded(c) == callers[c].at = "recording"

\* A step of one caller changes what that caller owes and nothing else.
LEMMA OneCallerOwes ==
    ASSUME Charging, Charging', NEW c \in Callers,
           \A d \in Callers : d # c => callers'[d] = callers[d]
    PROVE  /\ callers[c].cost \in Nat /\ callers'[c].cost \in Nat
           /\ \E rest \in Nat :
                  /\ Unrecorded(Callers) = rest + (IF Recorded(c) THEN callers[c].cost ELSE 0)
                  /\ Unrecorded(Callers)' = rest + (IF Recorded(c)' THEN callers'[c].cost ELSE 0)
  <1> DEFINE f == Owed
             g == Owed'
  <1>1. /\ callers[c].cost \in 0..MaxCost /\ callers'[c].cost \in 0..MaxCost
    BY DEF Charging
  <1>2. /\ f[c] = (IF Recorded(c) THEN callers[c].cost ELSE 0)
        /\ g[c] = (IF Recorded(c)' THEN callers'[c].cost ELSE 0)
        /\ \A d \in Callers : d # c => g[d] = f[d]
    BY DEF Owed, Recorded
  <1>3. 0 \in 0..MaxCost
    BY CostsFit
  <1>4. f[c] \in Amounts /\ g[c] \in Amounts
    BY <1>1, <1>2, <1>3, CostsFit
  <1>5. Unrecorded(Callers) = Total(f, Callers) /\ Unrecorded(Callers)' = Total(g, Callers)
    BY DEF Unrecorded
  <1> HIDE DEF f, g
  <1>6. PICK rest \in Nat : Total(f, Callers) = rest + f[c] /\ Total(g, Callers) = rest + g[c]
    BY <1>2, <1>4, CallersFinite, TotalChanges
  <1>7. callers[c].cost \in Nat /\ callers'[c].cost \in Nat
    BY <1>1, CostsFit
  <1> QED BY <1>2, <1>5, <1>6, <1>7

\* The totals of the day, and the equation between them.
Balanced ==
    /\ billed \in Amounts /\ guard \in Nat /\ missed \in Nat /\ meter \in [Runs -> Amounts]
    /\ SpendIsAccounted

LEMMA TotalsAreNaturals ==
    ASSUME Charging, Balanced
    PROVE  /\ billed \in Nat /\ billed <= MaxAnswers * MaxCost /\ MaxAnswers * MaxCost \in Nat
           /\ Total(meter, Runs) \in Nat /\ Unrecorded(Callers) \in Nat
           /\ guard <= billed /\ missed <= billed /\ Total(meter, Runs) <= billed
           /\ \A r \in Runs : meter[r] \in Nat /\ meter[r] <= billed
  <1>1. Total(meter, Runs) \in Nat /\ Unrecorded(Callers) \in Nat
    BY CallersFinite, UnitsCounted DEF Unrecorded
  <1>2. /\ billed \in Nat /\ billed <= MaxAnswers * MaxCost /\ MaxAnswers * MaxCost \in Nat
        /\ guard \in Nat /\ missed \in Nat
    BY CostsFit DEF Balanced
  <1>3. billed = guard + missed + Total(meter, Runs) + Unrecorded(Callers)
    BY DEF Balanced, SpendIsAccounted
  <1>4. guard <= billed /\ missed <= billed /\ Total(meter, Runs) <= billed
    BY <1>1, <1>2, <1>3
  <1>5. ASSUME NEW r \in Runs PROVE meter[r] \in Nat /\ meter[r] <= billed
    <2>1. meter[r] \in Amounts
      BY DEF Balanced
    <2>2. PICK rest \in Nat : Total(meter, Runs) = rest + meter[r]
      BY <2>1, CallersFinite, TotalChanges
    <2>3. meter[r] \in Nat
      BY <2>1, CostsFit
    <2> QED BY <1>1, <1>2, <1>4, <2>2, <2>3
  <1> QED BY <1>1, <1>2, <1>4, <1>5

\* A step that charges nothing and after which the caller c owes as much.
LEMMA BalanceUntouched ==
    ASSUME Balanced, Charging, Charging', NEW c \in Callers,
           \A d \in Callers : d # c => callers'[d] = callers[d],
           ~Recorded(c), ~Recorded(c)', UNCHANGED <<billed, guard, missed, meter>>
    PROVE  Balanced'
  <1>1. PICK rest \in Nat : Unrecorded(Callers) = rest + 0 /\ Unrecorded(Callers)' = rest + 0
    BY OneCallerOwes
  <1>2. Unrecorded(Callers)' = Unrecorded(Callers)
    BY <1>1
  <1>3. Total(meter, Runs)' = Total(meter, Runs)
    BY DEF Total
  <1> QED BY <1>2, <1>3 DEF Balanced, SpendIsAccounted

\* A step of no caller: only the meters of the runs and the day's total change.
LEMMA OwedUntouched ==
    ASSUME UNCHANGED callers PROVE Unrecorded(Callers)' = Unrecorded(Callers)
  <1>1. Owed' = Owed
    BY DEF Owed
  <1> QED BY <1>1 DEF Unrecorded, Total

\* The meter of a run is emptied, into the day's total or into nothing.
LEMMA BalanceBilled ==
    ASSUME Balanced, Charging, NEW r \in Runs, NEW taken \in BOOLEAN, Bill(r, taken),
           UNCHANGED <<callers, billed>>
    PROVE  Balanced'
  <1> DEFINE now == [meter EXCEPT ![r] = 0]
  <1>1. /\ meter \in [Runs -> Amounts] /\ meter' = now
    BY DEF Balanced, Bill
  <1>2. 0 \in Amounts /\ meter[r] \in Amounts /\ meter[r] \in Nat
    BY <1>1, CostsFit
  <1>3. now \in [Runs -> Amounts] /\ now[r] = 0 /\ \A q \in Runs : q # r => now[q] = meter[q]
    BY <1>1, <1>2
  <1> HIDE DEF now
  <1>4. PICK rest \in Nat : Total(meter, Runs) = rest + meter[r] /\ Total(now, Runs) = rest + 0
    BY <1>2, <1>3, CallersFinite, TotalChanges
  <1>5. Total(meter, Runs)' = rest
    BY <1>1, <1>4
  <1>6. /\ billed = guard + missed + (rest + meter[r]) + Unrecorded(Callers)
        /\ guard \in Nat /\ missed \in Nat /\ Unrecorded(Callers) \in Nat
    BY <1>4, TotalsAreNaturals DEF Balanced, SpendIsAccounted
  <1>7. Unrecorded(Callers)' = Unrecorded(Callers)
    BY OwedUntouched
  <1>8. /\ guard' \in Nat /\ missed' \in Nat
        /\ billed' = guard' + missed' + rest + Unrecorded(Callers)
    <2>1. CASE taken
      <3>1. guard' = guard + meter[r] /\ missed' = missed /\ billed' = billed
        BY <2>1 DEF Bill
      <3> QED BY <1>2, <1>6, <3>1
    <2>2. CASE ~taken
      <3>1. guard' = guard /\ missed' = missed + meter[r] /\ billed' = billed
        BY <2>2 DEF Bill
      <3> QED BY <1>2, <1>6, <3>1
    <2> QED BY <2>1, <2>2
  <1> QED BY <1>1, <1>3, <1>5, <1>7, <1>8 DEF Balanced, SpendIsAccounted

\* The calls of a run are dropped, and what they owed is missed.
LEMMA BalanceCancelled ==
    ASSUME Balanced, Charging, NEW r \in Runs, Cancelled(r)
    PROVE  Balanced'
  <1> DEFINE f == Owed
             g == Owed'
             some == CallersOf(r)
             rest == Callers \ CallersOf(r)
  <1>1. some \subseteq Callers
    BY CallerOfOneRun
  <1>2. /\ callers' = [c \in Callers |-> IF c \in some THEN NotCalling ELSE callers[c]]
        /\ missed' = missed + Total(f, some) /\ UNCHANGED <<meter, guard, billed>>
    BY DEF Cancelled, Unrecorded
  <1>3. /\ \A c \in some : g[c] = 0
        /\ \A c \in rest : g[c] = f[c]
    BY <1>1, <1>2 DEF Owed, NotCalling
  <1>4. Unrecorded(Callers) = Total(f, Callers) /\ Unrecorded(Callers)' = Total(g, Callers)
    BY DEF Unrecorded
  <1> HIDE DEF f, g, some
  <1>5. Total(f, some) \in Nat /\ Total(f, Callers \ some) \in Nat
    BY <1>1, CallersFinite, TotalOfParts
  <1>6. Total(f, Callers) = Total(f, some) + Total(f, Callers \ some)
    BY <1>1, CallersFinite, TotalOfParts
  <1>7. Total(g, Callers) = Total(g, some) + Total(g, Callers \ some)
    BY <1>1, CallersFinite, TotalOfParts
  <1>8. Total(g, some) = 0
    BY <1>3, TotalOfNone
  <1>9. Total(g, Callers \ some) = Total(f, Callers \ some)
    <2>1. \A c \in Callers \ some : g[c] = f[c]
      BY <1>3 DEF some
    <2> QED BY <2>1, TotalOfSame
  <1>10. Total(meter, Runs)' = Total(meter, Runs) /\ Total(meter, Runs) \in Nat
    BY <1>2, TotalsAreNaturals DEF Total
  <1>11. /\ billed = guard + missed + Total(meter, Runs) + Total(f, Callers)
         /\ guard \in Nat /\ missed \in Nat
    BY <1>4 DEF Balanced, SpendIsAccounted
  <1>12. /\ missed' \in Nat
         /\ billed' = guard' + missed' + Total(meter, Runs) + Total(g, Callers)
    BY <1>2, <1>5, <1>6, <1>7, <1>8, <1>9, <1>10, <1>11
  <1> QED BY <1>2, <1>4, <1>10, <1>12 DEF Balanced, SpendIsAccounted

\* An answer arrives: the caller owes it, the meter of the loop's run has seen
\* it, or it is missed.
LEMMA BalanceAnswered ==
    ASSUME Balanced, Charging, Charging', NEW c \in Callers, NEW cost \in 1..MaxCost,
           billed + cost <= MaxAnswers * MaxCost, billed' = billed + cost,
           \A d \in Callers : d # c => callers'[d] = callers[d], UNCHANGED guard,
           ~Recorded(c),
           \/ Recorded(c)' /\ callers'[c].cost = cost /\ UNCHANGED <<missed, meter>>
           \/ ~Recorded(c)' /\ missed' = missed + cost /\ UNCHANGED meter
           \/ /\ ~Recorded(c)' /\ UNCHANGED missed
              /\ meter' = [meter EXCEPT ![RunOf(c)] = @ + cost]
    PROVE  Balanced'
  <1>1. /\ billed \in Nat /\ MaxAnswers * MaxCost \in Nat /\ Total(meter, Runs) \in Nat
        /\ guard \in Nat /\ missed \in Nat /\ cost \in Nat
        /\ \A r \in Runs : meter[r] \in Nat /\ meter[r] <= billed
    BY TotalsAreNaturals, CostsFit DEF Balanced
  <1>2. billed' \in Amounts
    BY <1>1, CostsFit
  <1>3. PICK rest \in Nat :
            /\ Unrecorded(Callers) = rest
            /\ Unrecorded(Callers)' = rest + (IF Recorded(c)' THEN callers'[c].cost ELSE 0)
    <2>1. PICK rest \in Nat :
              /\ Unrecorded(Callers) = rest + 0
              /\ Unrecorded(Callers)' = rest + (IF Recorded(c)' THEN callers'[c].cost ELSE 0)
      BY OneCallerOwes
    <2>2. rest + 0 = rest
      OBVIOUS
    <2> QED BY <2>1, <2>2
  <1>4. billed = guard + missed + Total(meter, Runs) + rest
    BY <1>3 DEF Balanced, SpendIsAccounted
  <1>5. CASE UNCHANGED meter
    <2>1. Total(meter, Runs)' = Total(meter, Runs)
      BY <1>5 DEF Total
    <2>2. meter' \in [Runs -> Amounts]
      BY <1>5 DEF Balanced
    <2>3. CASE Recorded(c)' /\ callers'[c].cost = cost /\ UNCHANGED missed
      <3>1. Unrecorded(Callers)' = rest + cost
        BY <1>3, <2>3
      <3>2. billed' = guard' + missed' + Total(meter, Runs) + (rest + cost)
        BY <1>1, <1>4, <2>3
      <3> QED BY <1>1, <1>2, <2>1, <2>2, <2>3, <3>1, <3>2 DEF Balanced, SpendIsAccounted
    <2>4. CASE ~Recorded(c)' /\ missed' = missed + cost
      <3>1. Unrecorded(Callers)' = rest
        BY <1>3, <2>4
      <3>2. billed' = guard' + missed' + Total(meter, Runs) + rest /\ missed' \in Nat
        BY <1>1, <1>4, <2>4
      <3> QED BY <1>1, <1>2, <2>1, <2>2, <2>4, <3>1, <3>2 DEF Balanced, SpendIsAccounted
    <2>5. CASE ~Recorded(c)' /\ UNCHANGED missed /\ meter' = [meter EXCEPT ![RunOf(c)] = @ + cost]
      <3>1. RunOf(c) \in Runs
        BY CallerOfOneRun
      <3>2. meter'[RunOf(c)] = meter[RunOf(c)] + cost /\ meter[RunOf(c)] \in Nat
        BY <1>1, <2>5, <3>1 DEF Balanced
      <3> QED BY <1>1, <1>5, <3>2
    <2> QED BY <1>5, <2>3, <2>4, <2>5
  <1>6. CASE meter' = [meter EXCEPT ![RunOf(c)] = @ + cost] /\ ~Recorded(c)' /\ UNCHANGED missed
    <2> DEFINE r == RunOf(c)
               now == [meter EXCEPT ![r] = @ + cost]
    <2>1. r \in Runs /\ meter \in [Runs -> Amounts]
      BY CallerOfOneRun DEF Balanced
    <2>2. meter[r] + cost \in Amounts /\ meter[r] \in Amounts /\ meter[r] \in Nat
      <3>1. meter[r] \in Nat /\ meter[r] <= billed
        BY <1>1, <2>1
      <3>2. meter[r] + cost \in 0..(MaxAnswers * MaxCost)
        BY <1>1, <3>1
      <3> QED BY <2>1, <3>1, <3>2, CostsFit
    <2>3. /\ now \in [Runs -> Amounts] /\ now[r] = meter[r] + cost
          /\ \A q \in Runs : q # r => now[q] = meter[q]
      BY <2>1, <2>2
    <2>4. meter' = now
      BY <1>6
    <2> HIDE DEF now, r
    <2>5. PICK left \in Nat :
              /\ Total(meter, Runs) = left + meter[r]
              /\ Total(now, Runs) = left + now[r]
      BY <2>1, <2>2, <2>3, CallersFinite, TotalChanges
    <2>6. Total(meter, Runs)' = left + (meter[r] + cost)
      BY <2>3, <2>4, <2>5
    <2>7. Unrecorded(Callers)' = rest
      BY <1>3, <1>6
    <2>8. billed' = guard' + missed' + (left + (meter[r] + cost)) + rest
      BY <1>1, <1>4, <1>6, <2>2, <2>5
    <2> QED BY <1>1, <1>2, <1>6, <2>3, <2>4, <2>6, <2>7, <2>8 DEF Balanced, SpendIsAccounted
  <1> QED BY <1>5, <1>6

\* An answer that was owed is recorded, or its record is lost.
LEMMA BalanceRecorded ==
    ASSUME Balanced, Charging, Charging', NEW c \in Callers, Recorded(c), ~Recorded(c)',
           \A d \in Callers : d # c => callers'[d] = callers[d], UNCHANGED <<billed, meter>>,
           \/ guard' = guard + callers[c].cost /\ UNCHANGED missed
           \/ missed' = missed + callers[c].cost /\ UNCHANGED guard
    PROVE  Balanced'
  <1>1. Total(meter, Runs)' = Total(meter, Runs) /\ Total(meter, Runs) \in Nat
    BY TotalsAreNaturals DEF Total
  <1>2. callers[c].cost \in Nat /\ guard \in Nat /\ missed \in Nat
    BY OneCallerOwes DEF Balanced
  <1>3. PICK rest \in Nat :
            /\ Unrecorded(Callers) = rest + callers[c].cost
            /\ Unrecorded(Callers)' = rest + 0
    BY OneCallerOwes
  <1>4. billed = guard + missed + Total(meter, Runs) + (rest + callers[c].cost)
    BY <1>3 DEF Balanced, SpendIsAccounted
  <1>5. PICK cost \in Nat : cost = callers[c].cost
    BY <1>2
  <1>6. billed' = guard' + missed' + Total(meter, Runs) + rest /\ guard' \in Nat /\ missed' \in Nat
    <2>1. CASE guard' = guard + cost /\ UNCHANGED missed
      BY <1>1, <1>2, <1>4, <1>5, <2>1
    <2>2. CASE missed' = missed + cost /\ UNCHANGED guard
      BY <1>1, <1>2, <1>4, <1>5, <2>2
    <2> QED BY <1>5, <2>1, <2>2
  <1>7. Unrecorded(Callers)' = rest
    BY <1>3
  <1> QED BY <1>1, <1>6, <1>7 DEF Balanced, SpendIsAccounted

\* A caller that goes on, or has ended its call, has nothing to record.
LEMMA ContinuesUnrecorded ==
    ASSUME Charging, NEW c \in Callers,
           Continue(c) \/ callers' = [callers EXCEPT ![c] = NotCalling]
    PROVE  ~Recorded(c)' /\ \A d \in Callers : d # c => callers'[d] = callers[d]
  <1>1. PICK e : callers' = [callers EXCEPT ![c] = e] /\ e.at # "recording"
    <2>1. CASE callers' = [callers EXCEPT ![c] = NotCalling]
      <3>1. NotCalling.at # "recording"
        BY DEF NotCalling
      <3> QED BY <2>1, <3>1
    <2>2. CASE Continue(c)
      <3> DEFINE e == IF callers[c].attempt = Attempts THEN NotCalling
                      ELSE [at |-> "next", attempt |-> callers[c].attempt + 1, cost |-> 0]
      <3>1. callers' = [callers EXCEPT ![c] = e]
        BY <2>2 DEF Continue, Charging
      <3>2. e.at # "recording"
        BY DEF NotCalling
      <3> QED BY <3>1, <3>2
    <2> QED BY <2>1, <2>2
  <1>2. callers'[c] = e /\ \A d \in Callers : d # c => callers'[d] = callers[d]
    BY <1>1 DEF Charging
  <1> QED BY <1>1, <1>2 DEF Recorded

LEMMA BalanceStep == Charging /\ Charging' /\ Balanced /\ [CostNext]_costVars => Balanced'
  <1> SUFFICES ASSUME Charging, Charging', Balanced, [CostNext]_costVars PROVE Balanced'
    OBVIOUS
  <1>1. ASSUME UNCHANGED <<callers, billed, guard, missed, meter>> PROVE Balanced'
    <2>1. Unrecorded(Callers)' = Unrecorded(Callers)
      BY <1>1, OwedUntouched
    <2>2. Total(meter, Runs)' = Total(meter, Runs)
      BY <1>1 DEF Total
    <2> QED BY <1>1, <2>1, <2>2 DEF Balanced, SpendIsAccounted
  <1>2. ASSUME NEW r \in Runs,
               \/ RequireRuns(r) \/ RequireSpend(r) \/ StartRun(r) \/ ResumeRun(r) \/ Cancelled(r)
               \/ \E known \in Amounts : ResumeElsewhere(r, known)
               \/ \E ph \in {"unbilled", "unbilled paused"} : Returns(r, ph)
               \/ \E taken \in BOOLEAN : Settles(r, taken)
        PROVE  Balanced'
    <2>1. CASE \/ RequireRuns(r) \/ RequireSpend(r) \/ StartRun(r) \/ ResumeRun(r)
               \/ \E known \in Amounts : ResumeElsewhere(r, known)
               \/ \E ph \in {"unbilled", "unbilled paused"} : Returns(r, ph)
      BY <1>1, <2>1 DEF RequireRuns, RequireSpend, StartRun, ResumeRun, ResumeElsewhere, Returns,
         callVars
    <2>2. CASE Cancelled(r)
      BY <2>2, BalanceCancelled
    <2>3. CASE \E taken \in BOOLEAN : Settles(r, taken)
      <3>1. PICK taken \in BOOLEAN : Settles(r, taken)
        BY <2>3
      <3>2. Bill(r, taken) /\ UNCHANGED <<callers, billed>>
        BY <3>1 DEF Settles, callVars
      <3> QED BY <3>2, BalanceBilled
    <2> QED BY <1>2, <2>1, <2>2, <2>3
  <1>3. ASSUME NEW c \in Callers,
               \/ Generate(c) \/ Calling(c) \/ CircuitOpen(c) \/ CallFails(c)
               \/ \E cost \in 1..MaxCost :
                      Unparseable(c, cost) \/ LoopAnswers(c, cost) \/ GatewayAnswers(c, cost)
               \/ \E valid \in BOOLEAN : RecordSpend(c, valid) \/ SpendLost(c, valid)
        PROVE  Balanced'
    <2>1. CASE Generate(c)
      <3>1. /\ callers' = [callers EXCEPT ![c].at = "next", ![c].attempt = 1]
            /\ callers[c] = NotCalling /\ UNCHANGED <<billed, guard, missed, meter>>
        BY <2>1 DEF Generate, Totals
      <3>2. ~Recorded(c) /\ ~Recorded(c)' /\ \A d \in Callers : d # c => callers'[d] = callers[d]
        <4> DEFINE e == [callers[c] EXCEPT !.at = "next", !.attempt = 1]
        <4>1. callers' = [callers EXCEPT ![c] = e] /\ e.at # "recording"
          BY <3>1 DEF Charging
        <4>2. callers[c].at # "recording"
          BY <3>1 DEF NotCalling
        <4> HIDE DEF e
        <4>3. callers'[c] = e /\ \A d \in Callers : d # c => callers'[d] = callers[d]
          BY <4>1 DEF Charging
        <4> QED BY <4>1, <4>2, <4>3 DEF Recorded
      <3> QED BY <3>1, <3>2, BalanceUntouched
    <2>2. CASE Calling(c)
      <3>1. /\ callers' = [callers EXCEPT ![c].at = "calling"]
            /\ callers[c].at = "next" /\ UNCHANGED <<billed, guard, missed, meter>>
        BY <2>2 DEF Calling, Totals
      <3>2. ~Recorded(c) /\ ~Recorded(c)' /\ \A d \in Callers : d # c => callers'[d] = callers[d]
        BY <3>1 DEF Recorded, Charging
      <3> QED BY <3>1, <3>2, BalanceUntouched
    <2>3. CASE CircuitOpen(c) \/ CallFails(c)
      <3>1. /\ callers[c].at # "recording" /\ Continue(c)
            /\ UNCHANGED <<billed, guard, missed, meter>>
        BY <2>3 DEF CircuitOpen, CallFails, Totals
      <3>2. ~Recorded(c)' /\ \A d \in Callers : d # c => callers'[d] = callers[d]
        BY <3>1, ContinuesUnrecorded
      <3> QED BY <3>1, <3>2, BalanceUntouched DEF Recorded
    <2>4. ASSUME NEW cost \in 1..MaxCost, Unparseable(c, cost) PROVE Balanced'
      <3>1. /\ ~Recorded(c) /\ Continue(c) /\ billed + cost <= MaxAnswers * MaxCost
            /\ billed' = billed + cost /\ missed' = missed + cost /\ UNCHANGED <<guard, meter>>
        BY <2>4 DEF Unparseable, Recorded
      <3>2. ~Recorded(c)' /\ \A d \in Callers : d # c => callers'[d] = callers[d]
        BY <3>1, ContinuesUnrecorded
      <3> QED BY <3>1, <3>2, BalanceAnswered
    <2>5. ASSUME NEW cost \in 1..MaxCost, LoopAnswers(c, cost) PROVE Balanced'
      <3>1. /\ ~Recorded(c) /\ callers' = [callers EXCEPT ![c] = NotCalling]
            /\ billed + cost <= MaxAnswers * MaxCost /\ billed' = billed + cost
            /\ meter' = [meter EXCEPT ![RunOf(c)] = @ + cost] /\ UNCHANGED <<guard, missed>>
        BY <2>5 DEF LoopAnswers, Recorded
      <3>2. ~Recorded(c)' /\ \A d \in Callers : d # c => callers'[d] = callers[d]
        BY <3>1, ContinuesUnrecorded
      <3> QED BY <3>1, <3>2, BalanceAnswered
    <2>6. ASSUME NEW cost \in 1..MaxCost, GatewayAnswers(c, cost) PROVE Balanced'
      <3>1. /\ ~Recorded(c)
            /\ callers' = [callers EXCEPT ![c].at = "recording", ![c].cost = cost]
            /\ billed + cost <= MaxAnswers * MaxCost /\ billed' = billed + cost
            /\ UNCHANGED <<guard, missed, meter>>
        BY <2>6 DEF GatewayAnswers, Recorded
      <3>2. /\ Recorded(c)' /\ callers'[c].cost = cost
            /\ \A d \in Callers : d # c => callers'[d] = callers[d]
        BY <3>1 DEF Recorded, Charging
      <3> QED BY <3>1, <3>2, BalanceAnswered
    <2>7. CASE \E valid \in BOOLEAN : RecordSpend(c, valid) \/ SpendLost(c, valid)
      <3>1. /\ Recorded(c) /\ UNCHANGED <<billed, meter>>
            /\ Continue(c) \/ callers' = [callers EXCEPT ![c] = NotCalling]
            /\ \/ guard' = guard + callers[c].cost /\ UNCHANGED missed
               \/ missed' = missed + callers[c].cost /\ UNCHANGED guard
        BY <2>7 DEF RecordSpend, SpendLost, Validate, Recorded
      <3>2. ~Recorded(c)' /\ \A d \in Callers : d # c => callers'[d] = callers[d]
        BY <3>1, ContinuesUnrecorded
      <3> QED BY <3>1, <3>2, BalanceRecorded
    <2> QED BY <1>3, <2>1, <2>2, <2>3, <2>4, <2>5, <2>6, <2>7
  <1>4. CASE (\E p \in Providers : Cools(p)) \/ UNCHANGED costVars
    BY <1>1, <1>4 DEF Cools, Totals, costVars
  <1> QED BY <1>2, <1>3, <1>4 DEF CostNext

BreakerState == [state: {"closed", "open", "half_open"}, fails: 0..(Threshold - 1), cooled: BOOLEAN]
Breakers == breaker \in [Providers -> BreakerState]

\* A breaker counts fewer failures than its threshold.
LEMMA BreakersStep == Breakers /\ Charging /\ [CostNext]_costVars => Breakers'
  <1> SUFFICES ASSUME Breakers, Charging, [CostNext]_costVars PROVE Breakers'
    OBVIOUS
  <1>0. /\ \A n : Route(n) \in Providers
        /\ Trip \in BreakerState
        /\ [state |-> "closed", fails |-> 0, cooled |-> FALSE] \in BreakerState
    <2>1. 0 \in 0..(Threshold - 1)
      BY CostAssumption
    <2> QED BY <2>1 DEF Route, Providers, Trip, BreakerState
  <1>1. ASSUME NEW p \in Providers, RecordFailure(p) PROVE Breakers'
    <2> DEFINE b == breaker[p]
    <2>1. b \in BreakerState
      BY DEF Breakers
    <2>2. CASE b.state = "half_open" \/ b.fails + 1 >= Threshold
      <3>1. breaker' = [breaker EXCEPT ![p] = Trip]
        BY <1>1, <2>2 DEF RecordFailure
      <3> QED BY <1>0, <3>1 DEF Breakers
    <2>3. CASE ~(b.state = "half_open" \/ b.fails + 1 >= Threshold)
      <3> DEFINE e == [b EXCEPT !.fails = @ + 1]
      <3>1. breaker' = [breaker EXCEPT ![p] = e]
        BY <1>1, <2>3 DEF RecordFailure
      <3>2. PICK n \in Nat : n = b.fails /\ Threshold \in Nat /\ n \in 0..(Threshold - 1)
        BY <2>1, CostAssumption DEF BreakerState
      <3>3. n + 1 \in 0..(Threshold - 1)
        BY <2>3, <3>2
      <3>4. e \in BreakerState
        BY <2>1, <3>2, <3>3 DEF BreakerState
      <3> HIDE DEF e
      <3> QED BY <3>1, <3>4 DEF Breakers
    <2> QED BY <2>2, <2>3
  <1>2. ASSUME NEW p \in Providers, RecordSuccess(p) PROVE Breakers'
    BY <1>0, <1>2 DEF RecordSuccess, Breakers
  <1>3. ASSUME NEW p \in Providers, PassesBreaker(p) PROVE Breakers'
    <2>1. CASE breaker[p].state = "open"
      <3> DEFINE e == [breaker[p] EXCEPT !.state = "half_open", !.cooled = FALSE]
      <3>1. breaker' = [breaker EXCEPT ![p] = e]
        BY <1>3, <2>1 DEF PassesBreaker, Breakers
      <3>2. e \in BreakerState
        BY DEF Breakers, BreakerState
      <3> HIDE DEF e
      <3> QED BY <3>1, <3>2 DEF Breakers
    <2> QED BY <1>3, <2>1 DEF PassesBreaker, Breakers
  <1>4. ASSUME NEW p \in Providers, Cools(p) PROVE Breakers'
    <2> DEFINE e == [breaker[p] EXCEPT !.cooled = TRUE]
    <2>1. breaker' = [breaker EXCEPT ![p] = e]
      BY <1>4 DEF Cools, Breakers
    <2>2. e \in BreakerState
      BY DEF Breakers, BreakerState
    <2> HIDE DEF e
    <2> QED BY <2>1, <2>2 DEF Breakers
  <1>5. CASE UNCHANGED breaker
    BY <1>5 DEF Breakers
  <1>6. ASSUME NEW r \in Runs,
               \/ RequireRuns(r) \/ RequireSpend(r) \/ StartRun(r) \/ ResumeRun(r) \/ Cancelled(r)
               \/ \E known \in Amounts : ResumeElsewhere(r, known)
               \/ \E ph \in {"unbilled", "unbilled paused"} : Returns(r, ph)
               \/ \E taken \in BOOLEAN : Settles(r, taken)
        PROVE  UNCHANGED breaker
    BY <1>6 DEF RequireRuns, RequireSpend, StartRun, ResumeRun, ResumeElsewhere, Cancelled,
       Returns, Settles, callVars
  <1>7. ASSUME NEW c \in Callers,
               \/ Generate(c) \/ Calling(c) \/ CircuitOpen(c) \/ CallFails(c)
               \/ \E cost \in 1..MaxCost :
                      Unparseable(c, cost) \/ LoopAnswers(c, cost) \/ GatewayAnswers(c, cost)
               \/ \E valid \in BOOLEAN : RecordSpend(c, valid) \/ SpendLost(c, valid)
        PROVE  \/ UNCHANGED breaker
               \/ \E p \in Providers : RecordFailure(p) \/ RecordSuccess(p) \/ PassesBreaker(p)
    <2>1. CASE Generate(c) \/ CircuitOpen(c) \/ \E cost \in 1..MaxCost : LoopAnswers(c, cost)
      BY <2>1 DEF Generate, CircuitOpen, LoopAnswers
    <2>2. CASE Calling(c)
      BY <1>0, <2>2 DEF Calling
    <2>3. CASE CallFails(c)
      BY <1>0, <2>3 DEF CallFails
    <2>4. CASE \E cost \in 1..MaxCost : Unparseable(c, cost) \/ GatewayAnswers(c, cost)
      BY <1>0, <2>4 DEF Unparseable, GatewayAnswers
    <2>5. CASE \E valid \in BOOLEAN : RecordSpend(c, valid) \/ SpendLost(c, valid)
      BY <2>5 DEF RecordSpend, SpendLost
    <2> QED BY <1>7, <2>1, <2>2, <2>3, <2>4, <2>5
  <1>8. CASE UNCHANGED costVars
    BY <1>5, <1>8 DEF costVars
  <1> QED BY <1>1, <1>2, <1>3, <1>4, <1>5, <1>6, <1>7, <1>8 DEF CostNext

LEMMA NaturalsAdd ==
    \A m, n, d \in Nat : m <= n => m + d <= n + d /\ m <= n + d
  OBVIOUS

\* What a run was charged, and the number of its stays.
Charged == spent \in [Runs -> Nat] /\ stays \in [Runs -> Nat \ {0}]

\* What a step does to a run's charges: nothing, an answer, a settling of its
\* entry, or a stay in another process.
ChargesSame == UNCHANGED <<ledger, spent, here, stays>>

AnswerArrived ==
    \E c \in Callers, cost \in 1..MaxCost :
        billed' = billed + cost /\ (Charge(RunOf(c), cost) \/ ChargesSame)

EntrySettled ==
    \E r \in Runs : ledger' = [ledger EXCEPT ![r] = 0] /\ UNCHANGED <<spent, here, stays, billed>>

CameElsewhere ==
    \E r \in Runs, known \in Amounts :
        /\ known <= spent[r] /\ ledger' = [ledger EXCEPT ![r] = known]
        /\ here' = [here EXCEPT ![r] = 0]
        /\ stays' = [stays EXCEPT ![r] = @ + 1]
        /\ UNCHANGED <<spent, billed>>

LEMMA ChargeMoves ==
    ASSUME [CostNext]_costVars
    PROVE  (ChargesSame /\ UNCHANGED billed) \/ AnswerArrived \/ EntrySettled \/ CameElsewhere
  <1>1. ASSUME NEW r \in Runs,
               \/ RequireRuns(r) \/ RequireSpend(r) \/ StartRun(r) \/ ResumeRun(r) \/ Cancelled(r)
               \/ \E ph \in {"unbilled", "unbilled paused"} : Returns(r, ph)
        PROVE  ChargesSame /\ UNCHANGED billed
    BY <1>1 DEF ChargesSame, RequireRuns, RequireSpend, StartRun, ResumeRun, Cancelled, Returns, callVars
  <1>2. ASSUME NEW r \in Runs, NEW known \in Amounts, ResumeElsewhere(r, known)
        PROVE  CameElsewhere
    BY <1>2 DEF ResumeElsewhere, CameElsewhere
  <1>3. ASSUME NEW r \in Runs, NEW taken \in BOOLEAN, Settles(r, taken)
        PROVE  EntrySettled \/ (ChargesSame /\ UNCHANGED billed)
    BY <1>3 DEF Settles, callVars, EntrySettled, ChargesSame
  <1>4. ASSUME NEW c \in Callers,
               \/ Generate(c) \/ Calling(c) \/ CircuitOpen(c) \/ CallFails(c)
               \/ \E valid \in BOOLEAN : RecordSpend(c, valid) \/ SpendLost(c, valid)
        PROVE  ChargesSame /\ UNCHANGED billed
    BY <1>4 DEF ChargesSame, Generate, Calling, CircuitOpen, CallFails, RecordSpend, SpendLost,
       Totals
  <1>5. ASSUME NEW c \in Callers, NEW cost \in 1..MaxCost,
               Unparseable(c, cost) \/ LoopAnswers(c, cost) \/ GatewayAnswers(c, cost)
        PROVE  AnswerArrived
    BY <1>5 DEF Unparseable, LoopAnswers, GatewayAnswers, AnswerArrived, ChargesSame
  <1>6. CASE (\E p \in Providers : Cools(p)) \/ UNCHANGED costVars
    BY <1>6 DEF Cools, Totals, costVars, ChargesSame
  <1>7. CASE \E r \in Runs :
                 \/ RequireRuns(r) \/ RequireSpend(r) \/ StartRun(r) \/ ResumeRun(r) \/ Cancelled(r)
                 \/ \E known \in Amounts : ResumeElsewhere(r, known)
                 \/ \E ph \in {"unbilled", "unbilled paused"} : Returns(r, ph)
                 \/ \E taken \in BOOLEAN : Settles(r, taken)
    BY <1>1, <1>2, <1>3, <1>7
  <1>8. CASE \E c \in Callers :
                 \/ Generate(c) \/ Calling(c) \/ CircuitOpen(c) \/ CallFails(c)
                 \/ \E cost \in 1..MaxCost :
                        Unparseable(c, cost) \/ LoopAnswers(c, cost) \/ GatewayAnswers(c, cost)
                 \/ \E valid \in BOOLEAN : RecordSpend(c, valid) \/ SpendLost(c, valid)
    BY <1>4, <1>5, <1>8
  <1> QED BY <1>6, <1>7, <1>8 DEF CostNext

\* A run's ledger has no more than the run was charged, and the run no more than
\* arrived.
LEMMA ChargesStep ==
    ASSUME Charging, Charging', Charged, billed \in Nat, ChargesArrived, [CostNext]_costVars
    PROVE  ChargesArrived' /\ Charged'
  <1>0. ASSUME NEW r \in Runs
        PROVE  /\ ledger[r] \in Nat /\ spent[r] \in Nat /\ here[r] \in Nat
               /\ stays[r] \in Nat \ {0}
               /\ ledger[r] <= spent[r] /\ here[r] <= spent[r] /\ spent[r] <= billed
    BY DEF Charging, Charged, ChargesArrived
  <1>1. CASE ChargesSame /\ UNCHANGED billed
    BY <1>1 DEF ChargesSame, ChargesArrived, Charged
  <1>2. ASSUME NEW c \in Callers, NEW cost \in 1..MaxCost, billed' = billed + cost,
               Charge(RunOf(c), cost) \/ ChargesSame
        PROVE  ChargesArrived' /\ Charged'
    <2>1. cost \in Nat /\ RunOf(c) \in Runs
      BY CostsFit, CallerOfOneRun
    <2>2. ASSUME NEW r \in Runs
          PROVE  /\ ledger'[r] <= spent'[r] /\ here'[r] <= spent'[r] /\ spent'[r] <= billed'
                 /\ spent'[r] \in Nat
      <3>2. CASE ledger'[r] = ledger[r] /\ spent'[r] = spent[r] /\ here'[r] = here[r]
        BY <1>0, <1>2, <2>1, <3>2, NaturalsAdd
      <3>3. CASE /\ ledger'[r] = ledger[r] + cost /\ spent'[r] = spent[r] + cost
                 /\ here'[r] = here[r] + cost
        <4>1. /\ ledger[r] + cost <= spent[r] + cost /\ here[r] + cost <= spent[r] + cost
              /\ spent[r] + cost <= billed + cost /\ spent[r] + cost \in Nat
          BY <1>0, <2>1, NaturalsAdd
        <4> QED BY <1>2, <3>3, <4>1
      <3>4. \/ ledger'[r] = ledger[r] /\ spent'[r] = spent[r] /\ here'[r] = here[r]
            \/ /\ ledger'[r] = ledger[r] + cost /\ spent'[r] = spent[r] + cost
               /\ here'[r] = here[r] + cost
        <4>1. CASE ChargesSame
          BY <4>1 DEF ChargesSame
        <4>2. CASE Charge(RunOf(c), cost) /\ r = RunOf(c)
          BY <4>2 DEF Charge, Charging, Charged
        <4>3. CASE Charge(RunOf(c), cost) /\ r # RunOf(c)
          BY <4>3 DEF Charge, Charging, Charged
        <4> QED BY <1>2, <4>1, <4>2, <4>3
      <3> QED BY <3>2, <3>3, <3>4
    <2>3. stays' = stays /\ DOMAIN spent' = Runs /\ spent' = [r \in Runs |-> spent'[r]]
      BY <1>2 DEF Charge, Charged, ChargesSame
    <2>4. spent' \in [Runs -> Nat]
      BY <2>2, <2>3
    <2> QED BY <2>2, <2>3, <2>4 DEF ChargesArrived, Charged
  <1>3. ASSUME NEW r \in Runs, ledger' = [ledger EXCEPT ![r] = 0],
               UNCHANGED <<spent, here, stays, billed>>
        PROVE  ChargesArrived' /\ Charged'
    <2>2. ASSUME NEW q \in Runs PROVE ledger'[q] <= spent[q]
      <3>1. ledger'[q] = ledger[q] \/ ledger'[q] = 0
        BY <1>3 DEF Charging
      <3> QED BY <1>0, <3>1
    <2> QED BY <1>0, <1>3, <2>2 DEF ChargesArrived, Charged
  <1>4. ASSUME NEW r \in Runs, NEW known \in Amounts, known <= spent[r],
               ledger' = [ledger EXCEPT ![r] = known], here' = [here EXCEPT ![r] = 0],
               stays' = [stays EXCEPT ![r] = @ + 1], UNCHANGED <<spent, billed>>
        PROVE  ChargesArrived' /\ Charged'
    <2>1. ASSUME NEW q \in Runs PROVE ledger'[q] <= spent[q] /\ here'[q] <= spent[q]
      <3>1. CASE q # r
        BY <1>0, <1>4, <3>1 DEF Charging
      <3>2. CASE q = r
        <4>1. ledger'[q] = known /\ here'[q] = 0
          BY <1>4, <3>2 DEF Charging
        <4> QED BY <1>0, <1>4, <3>2, <4>1
      <3> QED BY <3>1, <3>2
    <2>2. stays[r] + 1 \in Nat \ {0}
      BY <1>0
    <2>3. stays' \in [Runs -> Nat \ {0}]
      BY <1>4, <2>2 DEF Charged
    <2> QED BY <1>0, <1>4, <2>1, <2>3 DEF ChargesArrived, Charged
  <1> QED BY <1>1, <1>2, <1>3, <1>4, ChargeMoves DEF AnswerArrived, EntrySettled, CameElsewhere

\* A run is charged within the bound in the process it is in.
LEMMA StayIsBounded ==
    ASSUME CostInv, NEW r \in Runs
    PROVE  here[r] < Overshot(r) /\ here[r] \in Nat /\ Overshot(r) \in Nat
  <1> DEFINE air == Cardinality(InTheAir(r))
             tools == Cardinality(ToolsOf[r])
             ahead == MaxCost * air
  <1>1. air \in Nat /\ tools \in Nat /\ MaxCost \in Nat /\ Ceiling \in Nat /\ here[r] \in Nat
    <2>1. IsFiniteSet(InTheAir(r))
      BY AirIsFull, FullAirCounted, FS_Subset
    <2> QED BY <2>1, FS_CardinalityType, FullAirCounted, CostAssumption DEF CostInv, Charging
  <1>2. here[r] + ahead < Overshot(r)
    BY DEF CostInv, AirIsBounded
  <1>3. Overshot(r) = Ceiling + MaxCost * (1 + 3 * tools)
    BY DEF Overshot, Attempts
  <1> HIDE DEF air, tools
  <1>4. ahead \in Nat /\ MaxCost * (1 + 3 * tools) \in Nat
    BY <1>1
  <1> HIDE DEF ahead
  <1>5. Overshot(r) \in Nat
    BY <1>1, <1>3, <1>4
  <1> QED BY <1>1, <1>2, <1>4, <1>5

LEMMA EarlierStays ==
    ASSUME NEW s \in Nat, NEW k \in Nat, NEW h \in Nat, NEW n \in Nat,
           h < n, s + n <= k * n + h
    PROVE  s < k * n
  <1>1. k * n \in Nat
    OBVIOUS
  <1>2. PICK m \in Nat : m = k * n
    BY <1>1
  <1> QED BY <1>2

LEMMA OneStayMore ==
    ASSUME NEW s \in Nat, NEW k \in Nat, NEW h \in Nat, NEW n \in Nat,
           h < n, s + n <= k * n + h
    PROVE  s + n <= (k + 1) * n + 0
  <1>1. k * n \in Nat /\ (k + 1) * n = k * n + n
    OBVIOUS
  <1>2. PICK m \in Nat : m = k * n
    BY <1>1
  <1> QED BY <1>1, <1>2

LEMMA OneChargeMore ==
    ASSUME NEW s \in Nat, NEW k \in Nat, NEW h \in Nat, NEW n \in Nat, NEW cost \in Nat,
           s + n <= k * n + h
    PROVE  s + cost + n <= k * n + (h + cost)
  <1>1. k * n \in Nat
    OBVIOUS
  <1>2. PICK m \in Nat : m = k * n
    BY <1>1
  <1> QED BY <1>2

\* A stay begins with what the run was charged in the earlier ones, each within
\* its bound.
LEMMA StaysStep ==
    ASSUME CostInv, Charged, StaysAreBounded, [CostNext]_costVars
    PROVE  StaysAreBounded'
  <1>0. ASSUME NEW r \in Runs
        PROVE  /\ spent[r] \in Nat /\ here[r] \in Nat /\ stays[r] \in Nat /\ Overshot(r) \in Nat
               /\ here[r] < Overshot(r)
               /\ spent[r] + Overshot(r) <= stays[r] * Overshot(r) + here[r]
    BY StayIsBounded DEF Charged, StaysAreBounded
  <1>1. CASE UNCHANGED <<spent, here, stays>>
    BY <1>1 DEF StaysAreBounded
  <1>2. ASSUME NEW c \in Callers, NEW cost \in 1..MaxCost, Charge(RunOf(c), cost)
        PROVE  StaysAreBounded'
    <2>1. cost \in Nat /\ stays' = stays
      BY <1>2, CostsFit DEF Charge
    <2>2. ASSUME NEW r \in Runs
          PROVE  spent'[r] + Overshot(r) <= stays[r] * Overshot(r) + here'[r]
      <3>1. \/ spent'[r] = spent[r] /\ here'[r] = here[r]
            \/ spent'[r] = spent[r] + cost /\ here'[r] = here[r] + cost
        BY <1>2 DEF Charge, CostInv, Charging, Charged
      <3> QED BY <1>0, <2>1, <3>1, OneChargeMore
    <2> QED BY <2>1, <2>2 DEF StaysAreBounded
  <1>3. ASSUME NEW r \in Runs, here' = [here EXCEPT ![r] = 0],
               stays' = [stays EXCEPT ![r] = @ + 1], UNCHANGED spent
        PROVE  StaysAreBounded'
    <2>1. ASSUME NEW q \in Runs
          PROVE  spent[q] + Overshot(q) <= stays'[q] * Overshot(q) + here'[q]
      <3>1. CASE q # r
        BY <1>0, <1>3, <3>1 DEF CostInv, Charging, Charged
      <3>2. CASE q = r
        <4>1. here'[q] = 0 /\ stays'[q] = stays[q] + 1
          BY <1>3, <3>2 DEF CostInv, Charging, Charged
        <4>2. spent[q] + Overshot(q) <= (stays[q] + 1) * Overshot(q) + 0
          BY <1>0, OneStayMore
        <4> QED BY <4>1, <4>2
      <3> QED BY <3>1, <3>2
    <2> QED BY <1>3, <2>1 DEF StaysAreBounded
  <1> QED BY <1>1, <1>2, <1>3, ChargeMoves
          DEF AnswerArrived, EntrySettled, CameElsewhere, ChargesSame

\* Faults are counted up to their bound.
LEMMA FaultsStep ==
    ASSUME faults \in 0..MaxFaults, [CostNext]_costVars PROVE faults' \in 0..MaxFaults
  <1>1. Strikes => faults' \in 0..MaxFaults
    BY CostAssumption DEF Strikes
  <1>2. CASE UNCHANGED faults
    BY <1>2
  <1>3. ASSUME NEW r \in Runs,
               \/ RequireRuns(r) \/ RequireSpend(r) \/ StartRun(r) \/ ResumeRun(r) \/ Cancelled(r)
               \/ \E known \in Amounts : ResumeElsewhere(r, known)
               \/ \E ph \in {"unbilled", "unbilled paused"} : Returns(r, ph)
               \/ \E taken \in BOOLEAN : Settles(r, taken)
        PROVE  Strikes \/ UNCHANGED faults
    <2>1. CASE \/ RequireRuns(r) \/ RequireSpend(r) \/ StartRun(r) \/ ResumeRun(r) \/ Cancelled(r)
               \/ \E known \in Amounts : ResumeElsewhere(r, known)
               \/ \E ph \in {"unbilled", "unbilled paused"} : Returns(r, ph)
      BY <2>1 DEF RequireRuns, RequireSpend, StartRun, ResumeRun, ResumeElsewhere, Cancelled,
         Returns
    <2>2. CASE \E taken \in BOOLEAN : Settles(r, taken)
      BY <2>2 DEF Settles, Bill
    <2> QED BY <1>3, <2>1, <2>2
  <1>4. ASSUME NEW c \in Callers,
               \/ Generate(c) \/ Calling(c) \/ CircuitOpen(c) \/ CallFails(c)
               \/ \E cost \in 1..MaxCost :
                      Unparseable(c, cost) \/ LoopAnswers(c, cost) \/ GatewayAnswers(c, cost)
               \/ \E valid \in BOOLEAN : RecordSpend(c, valid) \/ SpendLost(c, valid)
        PROVE  Strikes \/ UNCHANGED faults
    BY <1>4 DEF Generate, Calling, CircuitOpen, CallFails, Unparseable, LoopAnswers,
       GatewayAnswers, RecordSpend, SpendLost
  <1>5. CASE (\E p \in Providers : Cools(p)) \/ UNCHANGED costVars
    BY <1>2, <1>5 DEF Cools, costVars
  <1> QED BY <1>1, <1>2, <1>3, <1>4, <1>5 DEF CostNext

\* The parts of AccountInv that a step is followed through.
AccountsKept ==
    /\ Balanced /\ Breakers /\ ChargesArrived /\ Charged /\ StaysAreBounded
    /\ faults \in 0..MaxFaults

LEMMA AccountParts == Charging => (AccountInv <=> AccountsKept)
  <1> SUFFICES ASSUME Charging PROVE AccountInv <=> AccountsKept
    OBVIOUS
  <1>1. AccountInv => AccountsKept
    <2>1. Amounts \subseteq Nat
      BY CostsFit
    <2>2. ASSUME AccountInv PROVE Charged
      <3>1. spent \in [Runs -> Amounts] /\ stays \in [Runs -> Nat \ {0}]
        BY <2>2 DEF AccountInv, CostTypeOK
      <3> QED BY <2>1, <3>1 DEF Charged
    <2> QED BY <2>1, <2>2 DEF AccountInv, AccountsKept, CostTypeOK, Balanced, Breakers, BreakerState
  <1>2. ASSUME AccountsKept PROVE AccountInv
    <2>0. Balanced /\ Breakers /\ ChargesArrived /\ Charged /\ StaysAreBounded
          /\ faults \in 0..MaxFaults
      BY <1>2 DEF AccountsKept
    <2>1. /\ billed \in Nat /\ billed <= MaxAnswers * MaxCost /\ MaxAnswers * MaxCost \in Nat
          /\ guard \in Nat /\ missed \in Nat /\ guard <= billed /\ missed <= billed
      BY <2>0, TotalsAreNaturals DEF Balanced
    <2>2. guard \in Amounts /\ missed \in Amounts
      BY <2>1, CostsFit
    <2>3. ASSUME NEW r \in Runs
          PROVE  ledger[r] \in Amounts /\ here[r] \in Amounts /\ spent[r] \in Amounts
      <3>1. /\ ledger[r] \in Nat /\ spent[r] \in Nat /\ here[r] \in Nat
            /\ ledger[r] <= spent[r] /\ here[r] <= spent[r] /\ spent[r] <= billed
        BY <2>0 DEF Charging, Charged, ChargesArrived
      <3> QED BY <2>1, <3>1, CostsFit
    <2>4. /\ ledger \in [Runs -> Amounts] /\ here \in [Runs -> Amounts]
          /\ spent \in [Runs -> Amounts] /\ stays \in [Runs -> Nat \ {0}]
      BY <2>0, <2>3 DEF Charging, Charged
    <2> QED BY <2>0, <2>2, <2>4 DEF AccountInv, CostTypeOK, Charging, Balanced, Breakers,
            BreakerState
  <1> QED BY <1>1, <1>2

\* AccountInv holds of every behaviour of ModelCalls: its variables have their
\* types, the day's total is accounted for, no ledger has more than arrived, and
\* what a run was charged before it came to its process is within the bound of
\* each stay.
THEOREM AccountsInOrder == CostSpec => []AccountInv
  <1>1. CostInit => AccountInv
    <2> SUFFICES ASSUME CostInit PROVE AccountInv
      OBVIOUS
    <2>0. 0 \in Amounts /\ 0 \in 0..MaxCost /\ 0 \in 0..MaxFaults /\ 0 \in 0..(Threshold - 1)
      BY CostsFit, CostAssumption
    <2>1. Charging
      <3>1. NotCalling \in [at: {"idle", "next", "calling", "recording"}, attempt: 0..Attempts,
                            cost: 0..MaxCost]
        BY <2>0 DEF NotCalling, Attempts
      <3> QED BY <3>1 DEF CostInit, Charging
    <2>2. Total(meter, Runs) = 0
      <3>1. \A r \in Runs : meter[r] = 0
        BY DEF CostInit
      <3> QED BY <3>1, TotalOfNone
    <2>3. Unrecorded(Callers) = 0
      <3>1. \A c \in Callers : Owed[c] = 0
        BY DEF CostInit, Owed, NotCalling
      <3> QED BY <3>1, TotalOfNone DEF Unrecorded
    <2>4. Balanced
      BY <2>0, <2>2, <2>3 DEF CostInit, Balanced, SpendIsAccounted
    <2>5. Breakers
      BY <2>0 DEF CostInit, Breakers, BreakerState
    <2>6. ChargesArrived /\ Charged
      BY DEF CostInit, ChargesArrived, Charged
    <2>7. ASSUME NEW r \in Runs
          PROVE  spent[r] + Overshot(r) <= stays[r] * Overshot(r) + here[r]
      <3>1. spent[r] = 0 /\ stays[r] = 1 /\ here[r] = 0
        BY DEF CostInit
      <3>2. /\ Cardinality(ToolsOf[r]) \in Nat /\ Ceiling \in Nat /\ MaxCost \in Nat
            /\ 1 + 3 * Cardinality(ToolsOf[r]) \in Nat
        BY FullAirCounted, CostAssumption
      <3>3. MaxCost * (1 + 3 * Cardinality(ToolsOf[r])) \in Nat
        BY <3>2
      <3>4. Overshot(r) \in Nat
        BY <3>2, <3>3 DEF Overshot, Attempts
      <3> QED BY <3>1, <3>4
    <2>8. StaysAreBounded
      BY <2>7 DEF StaysAreBounded
    <2>9. AccountsKept
      BY <2>0, <2>4, <2>5, <2>6, <2>8 DEF CostInit, AccountsKept
    <2> QED BY <2>1, <2>9, AccountParts
  <1>2. CostInv /\ CostInv' /\ AccountInv /\ [CostNext]_costVars => AccountInv'
    <2> SUFFICES ASSUME CostInv, CostInv', AccountInv, [CostNext]_costVars PROVE AccountInv'
      OBVIOUS
    <2>1. Charging /\ Charging'
      BY DEF CostInv
    <2>2. /\ Balanced /\ Breakers /\ ChargesArrived /\ Charged /\ StaysAreBounded
          /\ faults \in 0..MaxFaults /\ billed \in Nat
      BY <2>1, AccountParts, TotalsAreNaturals DEF AccountsKept
    <2>3. /\ Balanced' /\ Breakers' /\ ChargesArrived' /\ Charged' /\ StaysAreBounded'
          /\ faults' \in 0..MaxFaults
      BY <2>1, <2>2, BalanceStep, BreakersStep, ChargesStep, StaysStep, FaultsStep
    <2>4. (Charging => (AccountInv <=> AccountsKept))'
      BY AccountParts, PTL
    <2>5. AccountsKept'
      BY <2>3 DEF AccountsKept
    <2> QED BY <2>1, <2>4, <2>5
  <1> QED BY <1>1, <1>2, CostsInOrder, PTL DEF CostSpec

\* No run is charged more, in the process it is in, than its ceiling and the
\* answers that were in the air when it reached it, nor more in all than that
\* for each process it came to, however its calls, pauses and retries interleave
\* (RunBudgetLedger.check and .record with an await between them).
THEOREM CeilingKept == CostSpec => []CeilingHolds
  <1>1. CostInv /\ AccountInv => CeilingHolds
    <2> SUFFICES ASSUME CostInv, AccountInv, NEW r \in Runs
                 PROVE  here[r] < Overshot(r) /\ spent[r] < stays[r] * Overshot(r)
      BY DEF CeilingHolds
    <2>1. here[r] < Overshot(r)
      BY StayIsBounded
    <2>2. /\ spent[r] \in Nat /\ stays[r] \in Nat /\ here[r] \in Nat /\ Overshot(r) \in Nat
          /\ spent[r] + Overshot(r) <= stays[r] * Overshot(r) + here[r]
      <3>1. Amounts \subseteq Nat
        BY CostsFit
      <3>2. spent[r] \in Amounts /\ stays[r] \in Nat
        BY DEF AccountInv, CostTypeOK
      <3> QED BY <3>1, <3>2, StayIsBounded DEF AccountInv, StaysAreBounded
    <2>3. spent[r] < stays[r] * Overshot(r)
      BY <2>1, <2>2, EarlierStays
    <2> QED BY <2>1, <2>3
  <1> QED BY <1>1, CostsInOrder, AccountsInOrder, PTL

\* Every answer that arrived is in the day's total once, or lost with its record,
\* or carried by an open call or an open invocation, however many runs and tools
\* there are (`SqlSpendGuardRecorder.record`, `LangchainUsageMeter._record`).
THEOREM SpendAccounted == CostSpec => []SpendIsAccounted
  <1>1. AccountInv => SpendIsAccounted
    BY DEF AccountInv
  <1> QED BY <1>1, AccountsInOrder, PTL

-----------------------------------------------------------------------------
(* Processes: what is said is heard once.                                     *)

\* No environment registers a lane that a complete one does not, but for the poll.
LEMMA LanesKnown ==
    ASSUME NEW c \in SUBSET Flags
    PROVE  /\ BuildRegistry(c) \subseteq BuildRegistry(Flags) \cup {"zalo_link_poll"}
           /\ Mounted(c) \subseteq {"core", "zalo", "zalo webhook", "platform", "dev", "dev session"}
  <1>1. Mounted(c) \subseteq {"core", "zalo", "zalo webhook", "platform", "dev", "dev session"}
    BY DEF Mounted
  <1>2. /\ "database" \in Flags /\ "s3" \in Flags /\ "bot token" \in Flags /\ "link secret" \in Flags
        /\ "webhook mode" \in Flags
    BY DEF Flags
  <1>3. /\ Housekeeping \subseteq BuildRegistry(Flags)
        /\ {"channel_delivery", "zalo_webhook_drain", "offboarding", "ingest"}
               \subseteq BuildRegistry(Flags)
    BY <1>2 DEF BuildRegistry, Channels, SendEnabled, DrainEnabled
  <1>4. BuildRegistry(c) \subseteq Housekeeping \cup
            {"channel_delivery", "zalo_link_poll", "zalo_webhook_drain", "offboarding", "ingest"}
    BY DEF BuildRegistry, Channels
  <1> QED BY <1>1, <1>3, <1>4

\* Where a copy that waits may be.
LEMMA WaitingWhere ==
    ASSUME NEW m
    PROVE  /\ \A u : u \in Waiting(m) <=>
                        u.msg = m /\ (u \in inbox \/ \E w \in Workers : u \in batch[w])
           /\ \A u : u \in Waiting(m)' <=>
                        u.msg = m /\ (u \in inbox' \/ \E w \in Workers : u \in batch'[w])
  BY DEF Waiting

\* What the types say of the numbers.
LEMMA DeploymentNumbers ==
    ASSUME DeploymentTypeOK
    PROVE  /\ MaxDay \in Nat /\ MaxOffers \in Nat /\ OffersFor \in Nat
           /\ UpdateRetention \in Nat /\ MessageRetention \in Nat
           /\ today \in 1..MaxDay /\ today \in 0..MaxDay /\ today \in Nat
           /\ offers \in [Said -> 0..MaxOffers] /\ since \in [Said -> 0..MaxDay]
           /\ acted \in [Said -> Nat] /\ inbox \subseteq Copies
           /\ batch \in [Workers -> SUBSET Copies]
           /\ \A m \in Said : offers[m] \in Nat /\ since[m] \in Nat /\ acted[m] \in Nat
           /\ \A u \in Copies : u.msg \in Said /\ u.at \in Nat
           /\ \A e \in claimed : e.msg \in Said /\ e.at \in Nat
  <1>1. /\ MaxDay \in Nat /\ MaxOffers \in Nat /\ OffersFor \in Nat
        /\ UpdateRetention \in Nat /\ MessageRetention \in Nat
    BY DeploymentAssumption
  <1>2. /\ today \in 1..MaxDay /\ offers \in [Said -> 0..MaxOffers] /\ since \in [Said -> 0..MaxDay]
        /\ acted \in [Said -> Nat] /\ inbox \subseteq Copies
        /\ batch \in [Workers -> SUBSET Copies] /\ claimed \subseteq [msg: Said, at: 1..MaxDay]
    BY DEF DeploymentTypeOK
  <1>3. today \in 0..MaxDay /\ today \in Nat
    BY <1>1, <1>2
  <1>4. \A n \in 0..MaxDay : n \in Nat
    OBVIOUS
  <1>5. \A n \in 0..MaxOffers : n \in Nat
    OBVIOUS
  <1>6. \A n \in 1..MaxDay : n \in Nat
    OBVIOUS
  <1>7. \A m \in Said : offers[m] \in Nat /\ since[m] \in Nat /\ acted[m] \in Nat
    <2>1. \A m \in Said : offers[m] \in 0..MaxOffers
      BY <1>2
    <2>2. \A m \in Said : since[m] \in 0..MaxDay
      BY <1>2
    <2>3. \A m \in Said : acted[m] \in Nat
      BY <1>2
    <2> QED BY <1>4, <1>5, <2>1, <2>2, <2>3
  <1>8. \A u \in Copies : u.msg \in Said /\ u.at \in 1..MaxDay
    BY DEF Copies
  <1>9. \A e \in claimed : e.msg \in Said /\ e.at \in 1..MaxDay
    BY <1>2
  <1> QED BY <1>1, <1>2, <1>3, <1>6, <1>7, <1>8, <1>9

\* A copy that is offered is one of the copies there may be.
LEMMA CopyTyped ==
    ASSUME DeploymentTypeOK, NEW m \in Said, Offers(m)
    PROVE  Copy(m) \in Copies /\ Copy(m).msg = m
  <1>1. today \in 1..MaxDay /\ offers[m] \in Nat /\ MaxOffers \in Nat
    BY DeploymentNumbers
  <1>2. offers[m] < MaxOffers
    BY DEF Offers
  <1>3. offers[m] + 1 \in 1..MaxOffers
    BY <1>1, <1>2
  <1> QED BY <1>1, <1>3 DEF Copy, Copies

\* The state of the processes and of the webhook.
ProcessesTyped ==
    /\ api \in {"down", "up"}
    /\ routes \subseteq {"core", "zalo", "zalo webhook", "platform", "dev", "dev session"}
    /\ worker \in [Workers -> {"down", "up", "stopping"}]
    /\ lanes \in [Workers -> SUBSET (BuildRegistry(Flags) \cup {"zalo_link_poll"})]
    /\ hooked \in BOOLEAN

\* A step on which no message moves.
LEMMA NobodySpeaks ==
    ASSUME DeploymentInv, ProcessesTyped',
           UNCHANGED <<unread, offers, since, inbox, batch, claimed, acted, unheard, outlived, today>>
    PROVE  DeploymentInv'
  <1>1. \A m : Waiting(m)' = Waiting(m)
    BY DEF Waiting
  <1>2. DeploymentTypeOK'
    BY DEF DeploymentInv, DeploymentTypeOK, ProcessesTyped, Copies
  <1>3. CopiesInTime' /\ ClaimsInTime'
    BY <1>1 DEF DeploymentInv, CopiesInTime, ClaimsInTime
  <1>4. ActedIsClaimed' /\ HeardOnce'
    BY <1>1 DEF DeploymentInv, ActedIsClaimed, HeardOnce
  <1> QED BY <1>2, <1>3, <1>4 DEF DeploymentInv

\* A step that loses copies, or moves them from the queue to a worker.
LEMMA CopiesLeave ==
    ASSUME DeploymentInv, ProcessesTyped', UNCHANGED <<unread, offers, since, claimed, acted,
                                                       outlived, today>>,
           inbox' \subseteq inbox, batch' \in [Workers -> SUBSET Copies],
           unheard \subseteq unheard', unheard' \subseteq Said,
           \A m \in Said : Waiting(m)' \subseteq Waiting(m),
           \A m \in Said : \/ Waiting(m) = {} \/ Waiting(m)' # {}
                           \/ m \in unheard' \/ acted[m] > 0
    PROVE  DeploymentInv'
  <1>1. DeploymentTypeOK'
    BY DEF DeploymentInv, DeploymentTypeOK, ProcessesTyped, Copies
  <1>2. CopiesInTime'
    BY DEF DeploymentInv, CopiesInTime
  <1>3. ClaimsInTime'
    BY DEF DeploymentInv, ClaimsInTime
  <1>4. ActedIsClaimed'
    <2> SUFFICES ASSUME NEW m \in Said, m \notin outlived, acted[m] > 0
                 PROVE  \/ \E e \in claimed : e.msg = m
                        \/ offers[m] > 0 /\ since[m] + OffersFor < today /\ Waiting(m)' = {}
      BY DEF ActedIsClaimed
    <2>1. \/ \E e \in claimed : e.msg = m
          \/ offers[m] > 0 /\ since[m] + OffersFor < today /\ Waiting(m) = {}
      BY DEF DeploymentInv, ActedIsClaimed
    <2> QED BY <2>1
  <1>5. HeardOnce'
    <2> SUFFICES ASSUME NEW m \in Said
                 PROVE  /\ acted[m] <= 1 \/ m \in outlived
                        /\ m \in unread \/ Waiting(m)' # {} \/ acted[m] > 0 \/ m \in unheard'
      BY DEF HeardOnce
    <2>1. /\ acted[m] <= 1 \/ m \in outlived
          /\ m \in unread \/ Waiting(m) # {} \/ acted[m] > 0 \/ m \in unheard
      BY DEF DeploymentInv, HeardOnce
    <2> QED BY <2>1
  <1> QED BY <1>1, <1>2, <1>3, <1>4, <1>5 DEF DeploymentInv

\* Zalo offers a message, and a reader has the copy or its answer is lost.
LEMMA CopyComes ==
    ASSUME DeploymentInv, NEW m \in Said, Offers(m),
           UNCHANGED <<processVars, hooked, claimed, acted, outlived, today>>,
           unread' \subseteq unread, unread \ {m} \subseteq unread',
           inbox' \subseteq Copies, batch' \in [Workers -> SUBSET Copies],
           unheard \subseteq unheard', unheard' \subseteq unheard \cup {m},
           Waiting(m) \subseteq Waiting(m)', Waiting(m)' \subseteq Waiting(m) \cup {Copy(m)},
           Waiting(m)' # {} \/ m \in unheard',
           \A x \in Said : x # m => Waiting(x)' = Waiting(x)
    PROVE  DeploymentInv'
  <1>0. /\ DeploymentTypeOK /\ CopiesInTime /\ ClaimsInTime /\ ActedIsClaimed /\ HeardOnce
        /\ today \in Nat /\ OffersFor \in Nat /\ MaxOffers \in Nat
        /\ offers \in [Said -> 0..MaxOffers] /\ since \in [Said -> 0..MaxDay]
        /\ offers[m] \in Nat /\ since[m] \in Nat
    BY DeploymentNumbers DEF DeploymentInv
  <1>1. /\ offers[m] < MaxOffers /\ m \in unread
        /\ offers[m] > 0 => today <= since[m] + OffersFor
        /\ offers' = [offers EXCEPT ![m] = @ + 1]
        /\ since' = [since EXCEPT ![m] = IF offers[m] = 0 THEN today ELSE @]
    BY DEF Offers
  <1>2. /\ offers'[m] = offers[m] + 1 /\ since'[m] = (IF offers[m] = 0 THEN today ELSE since[m])
        /\ \A x \in Said : x # m => offers'[x] = offers[x] /\ since'[x] = since[x]
        /\ offers'[m] > 0
    BY <1>0, <1>1
  <1>3. offers' \in [Said -> 0..MaxOffers] /\ since' \in [Said -> 0..MaxDay]
    <2>1. offers[m] + 1 \in 0..MaxOffers
      BY <1>0, <1>1
    <2>2. today \in 0..MaxDay
      BY <1>0, DeploymentNumbers
    <2> QED BY <1>0, <1>1, <2>1, <2>2
  <1>4. DeploymentTypeOK'
    BY <1>0, <1>3 DEF DeploymentTypeOK, processVars, Copies
  <1>5. Copy(m).msg = m /\ Copy(m).at = today
    BY DEF Copy
  <1>6. CopiesInTime'
    <2> SUFFICES ASSUME NEW x \in Said, NEW u \in Waiting(x)'
                 PROVE  /\ offers'[x] > 0 /\ u.at <= today
                        /\ since'[x] <= u.at /\ u.at <= since'[x] + OffersFor
      BY DEF CopiesInTime
    <2>1. CASE x # m
      BY <1>0, <1>2, <2>1 DEF CopiesInTime
    <2>2. CASE x = m /\ u \in Waiting(m)
      <3>1. /\ offers[m] > 0 /\ u.at <= today
            /\ since[m] <= u.at /\ u.at <= since[m] + OffersFor
        BY <1>0, <2>2 DEF CopiesInTime
      <3>2. since'[m] = since[m]
        BY <1>0, <1>2, <3>1
      <3> QED BY <1>2, <2>2, <3>1, <3>2
    <2>3. CASE x = m /\ u = Copy(m)
      <3>1. u.at = today
        BY <1>5, <2>3
      <3>2. since'[m] <= today /\ today <= since'[m] + OffersFor
        <4>1. CASE offers[m] = 0
          BY <1>0, <1>2, <4>1
        <4>2. CASE offers[m] > 0
          BY <1>0, <1>1, <1>2, <4>2 DEF ClaimsInTime
        <4> QED BY <1>0, <4>1, <4>2
      <3> QED BY <1>2, <2>3, <3>1, <3>2, <1>0
    <2> QED BY <2>1, <2>2, <2>3
  <1>7. ClaimsInTime'
    <2>1. ASSUME NEW x \in Said PROVE since'[x] <= today
      BY <1>0, <1>2 DEF ClaimsInTime
    <2>2. ASSUME NEW e \in claimed
          PROVE  offers'[e.msg] > 0 /\ acted[e.msg] > 0 /\ since'[e.msg] <= e.at /\ e.at <= today
      <3>1. e.msg \in Said
        BY <1>0 DEF DeploymentTypeOK
      <3>2. offers[e.msg] > 0 /\ acted[e.msg] > 0 /\ since[e.msg] <= e.at /\ e.at <= today
        BY <1>0 DEF ClaimsInTime
      <3>3. since'[e.msg] = since[e.msg]
        BY <1>0, <1>2, <3>1, <3>2
      <3>4. offers'[e.msg] > 0
        BY <1>2, <3>1, <3>2
      <3> QED BY <3>2, <3>3, <3>4
    <2> QED BY <2>1, <2>2 DEF ClaimsInTime
  <1>8. ActedIsClaimed'
    <2> SUFFICES ASSUME NEW x \in Said, x \notin outlived, acted[x] > 0
                 PROVE  \/ \E e \in claimed : e.msg = x
                        \/ offers'[x] > 0 /\ since'[x] + OffersFor < today /\ Waiting(x)' = {}
      BY DEF ActedIsClaimed
    <2>1. \/ \E e \in claimed : e.msg = x
          \/ offers[x] > 0 /\ since[x] + OffersFor < today /\ Waiting(x) = {}
      BY <1>0 DEF ActedIsClaimed
    <2>2. CASE x = m
      <3>1. ~(offers[m] > 0 /\ since[m] + OffersFor < today)
        BY <1>0, <1>1
      <3> QED BY <2>1, <2>2, <3>1
    <2>3. CASE x # m
      BY <1>2, <2>1, <2>3
    <2> QED BY <2>2, <2>3
  <1>9. HeardOnce'
    <2> SUFFICES ASSUME NEW x \in Said
                 PROVE  /\ acted[x] <= 1 \/ x \in outlived
                        /\ x \in unread' \/ Waiting(x)' # {} \/ acted[x] > 0 \/ x \in unheard'
      BY DEF HeardOnce
    <2>1. /\ acted[x] <= 1 \/ x \in outlived
          /\ x \in unread \/ Waiting(x) # {} \/ acted[x] > 0 \/ x \in unheard
      BY <1>0 DEF HeardOnce
    <2> QED BY <2>1
  <1> QED BY <1>4, <1>6, <1>7, <1>8, <1>9 DEF DeploymentInv

\* A worker claims the message of the copy it handles, and acts on it.
LEMMA CopyClaimed ==
    ASSUME DeploymentInv, NEW w \in Workers, NEW u \in batch[w], RouteMessage(w, u),
           ~\E e \in claimed : e.msg = u.msg
    PROVE  DeploymentInv'
  <1> DEFINE m == u.msg
             new == [msg |-> m, at |-> today]
  <1>0. /\ DeploymentTypeOK /\ CopiesInTime /\ ClaimsInTime /\ ActedIsClaimed /\ HeardOnce
        /\ today \in 1..MaxDay /\ today \in Nat /\ batch \in [Workers -> SUBSET Copies]
        /\ acted \in [Said -> Nat] /\ u \in Copies /\ m \in Said
        /\ since[m] \in Nat /\ u.at \in Nat
    <2>1. DeploymentTypeOK
      BY DEF DeploymentInv
    <2>2. u \in Copies
      BY <2>1, DeploymentNumbers
    <2> QED BY <2>1, <2>2, DeploymentNumbers DEF DeploymentInv
  <1>1. /\ claimed' = claimed \cup {new} /\ acted' = [acted EXCEPT ![m] = @ + 1]
        /\ batch' = [batch EXCEPT ![w] = @ \ {u}]
        /\ UNCHANGED <<processVars, zaloVars, inbox, unheard, outlived, today>>
    BY DEF RouteMessage
  <1>2. new \in [msg: Said, at: 1..MaxDay] /\ new.msg = m /\ new.at = today
    BY <1>0
  <1> HIDE DEF new
  <1>3. u \in Waiting(m) /\ Waiting(m) # {}
    BY <1>0, WaitingWhere
  <1>4. /\ offers[m] > 0 /\ since[m] <= u.at /\ u.at <= today
    BY <1>0, <1>3 DEF CopiesInTime
  <1>5. acted[m] = 0 \/ m \in outlived
    BY <1>0, <1>3 DEF ActedIsClaimed
  <1>6. /\ acted'[m] = acted[m] + 1 /\ \A x \in Said : x # m => acted'[x] = acted[x]
        /\ acted' \in [Said -> Nat]
    BY <1>0, <1>1
  <1>7. /\ batch' \in [Workers -> SUBSET Copies] /\ batch'[w] = batch[w] \ {u}
        /\ \A v \in Workers : v # w => batch'[v] = batch[v]
    BY <1>0, <1>1
  <1>8. \A x \in Said : Waiting(x)' \subseteq Waiting(x)
    BY <1>1, <1>7, WaitingWhere
  <1>9. \A x \in Said : x # m => Waiting(x) \subseteq Waiting(x)'
    <2> SUFFICES ASSUME NEW x \in Said, x # m, NEW v \in Waiting(x) PROVE v \in Waiting(x)'
      OBVIOUS
    <2>1. v.msg = x /\ v # u /\ (v \in inbox \/ \E z \in Workers : v \in batch[z])
      BY WaitingWhere
    <2> QED BY <1>1, <1>7, <2>1, WaitingWhere
  <1>10. DeploymentTypeOK'
    BY <1>0, <1>1, <1>2, <1>6, <1>7 DEF DeploymentTypeOK, processVars, zaloVars, Copies
  <1>11. CopiesInTime'
    BY <1>0, <1>1, <1>8 DEF CopiesInTime, zaloVars
  <1>12. acted[m] \in Nat /\ acted'[m] > 0
    BY <1>0, <1>6
  <1>13. ClaimsInTime'
    <2>1. \A x \in Said : since'[x] <= today'
      BY <1>0, <1>1 DEF ClaimsInTime, zaloVars
    <2>2. ASSUME NEW e \in claimed'
          PROVE  /\ offers[e.msg] > 0 /\ acted'[e.msg] > 0
                 /\ since[e.msg] <= e.at /\ e.at <= today
      <3>1. CASE e = new
        BY <1>0, <1>2, <1>4, <1>12, <3>1
      <3>2. CASE e \in claimed
        <4>1. e.msg \in Said /\ e.msg # m
          BY <1>0, <3>2 DEF DeploymentTypeOK
        <4> QED BY <1>0, <1>6, <3>2, <4>1 DEF ClaimsInTime
      <3> QED BY <1>1, <3>1, <3>2
    <2> QED BY <1>1, <2>1, <2>2 DEF ClaimsInTime, zaloVars
  <1>14. ActedIsClaimed'
    <2> SUFFICES ASSUME NEW x \in Said, x \notin outlived, acted'[x] > 0
                 PROVE  \/ \E e \in claimed' : e.msg = x
                        \/ offers[x] > 0 /\ since[x] + OffersFor < today /\ Waiting(x)' = {}
      BY <1>1 DEF ActedIsClaimed, zaloVars
    <2>1. CASE x = m
      BY <1>1, <1>2, <2>1
    <2>2. CASE x # m
      <3>1. \/ \E e \in claimed : e.msg = x
            \/ offers[x] > 0 /\ since[x] + OffersFor < today /\ Waiting(x) = {}
        BY <1>0, <1>6, <2>2 DEF ActedIsClaimed
      <3> QED BY <1>1, <1>8, <3>1
    <2> QED BY <2>1, <2>2
  <1>15. HeardOnce'
    <2> SUFFICES ASSUME NEW x \in Said
                 PROVE  /\ acted'[x] <= 1 \/ x \in outlived
                        /\ x \in unread \/ Waiting(x)' # {} \/ acted'[x] > 0 \/ x \in unheard
      BY <1>1 DEF HeardOnce, zaloVars
    <2>1. CASE x = m
      BY <1>5, <1>6, <1>12, <2>1
    <2>2. CASE x # m
      BY <1>0, <1>6, <1>9, <2>2 DEF HeardOnce
    <2> QED BY <2>1, <2>2
  <1> QED BY <1>10, <1>11, <1>13, <1>14, <1>15 DEF DeploymentInv

\* The sweep: when a claim goes, Zalo has stopped offering its message, and every
\* copy that was still queued goes with it.
LEMMA ClaimsSwept ==
    ASSUME DeploymentInv, NEW w \in Workers, PruneInbound(w)
    PROVE  DeploymentInv'
  <1> DEFINE old == {e \in claimed : e.at + MessageRetention < today}
             stale == {u \in inbox : u.at + UpdateRetention < today}
             held == {e.msg : e \in {d \in old : \E v \in Workers : \E u \in batch[v] : u.msg = d.msg}}
  <1>0. /\ DeploymentTypeOK /\ CopiesInTime /\ ClaimsInTime /\ ActedIsClaimed /\ HeardOnce
        /\ today \in Nat /\ inbox \subseteq Copies /\ claimed \subseteq [msg: Said, at: 1..MaxDay]
    <2>1. DeploymentTypeOK
      BY DEF DeploymentInv
    <2>2. claimed \subseteq [msg: Said, at: 1..MaxDay]
      BY <2>1 DEF DeploymentTypeOK
    <2> QED BY <2>1, <2>2, DeploymentNumbers DEF DeploymentInv
  <1>1. /\ claimed' = claimed \ old /\ inbox' = inbox \ stale
        /\ unheard' = unheard \cup {u.msg : u \in stale}
        /\ outlived' = outlived \cup held
        /\ UNCHANGED <<processVars, zaloVars, batch, acted, today>>
    BY DEF PruneInbound
  <1>2. /\ \A u \in stale : u \in inbox /\ u.at + UpdateRetention < today
        /\ \A u \in inbox : u \notin stale => ~(u.at + UpdateRetention < today)
        /\ \A e \in old : e \in claimed /\ e.at + MessageRetention < today
        /\ \A e \in old : e.msg \in held \/ \A v \in Workers : \A u \in batch[v] : u.msg # e.msg
        /\ \A m \in held : \E e \in claimed : m = e.msg
        /\ \A u \in stale : u.msg \in unheard'
    BY <1>1
  <1>3. /\ unheard' \subseteq Said /\ outlived' \subseteq Said /\ inbox' \subseteq Copies
        /\ claimed' \subseteq [msg: Said, at: 1..MaxDay]
    <2>1. \A u \in stale : u.msg \in Said
      BY <1>0, <1>2 DEF Copies
    <2>2. held \subseteq Said
      BY <1>0, <1>2
    <2> QED BY <1>0, <1>1, <2>1, <2>2 DEF DeploymentTypeOK
  <1> HIDE DEF old, stale, held
  <1>4. DeploymentTypeOK'
    BY <1>0, <1>1, <1>3 DEF DeploymentTypeOK, processVars, zaloVars, Copies
  <1>5. \A x \in Said : Waiting(x)' \subseteq Waiting(x)
    BY <1>1, WaitingWhere
  <1>6. CopiesInTime'
    BY <1>0, <1>1, <1>5 DEF CopiesInTime, zaloVars
  <1>7. ClaimsInTime'
    BY <1>0, <1>1 DEF ClaimsInTime, zaloVars
  <1>8. ASSUME NEW e \in old, e.msg \notin held
        PROVE  /\ e.msg \in Said /\ offers[e.msg] > 0 /\ since[e.msg] + OffersFor < today
               /\ Waiting(e.msg)' = {}
    <2>1. /\ e \in claimed /\ e.msg \in Said /\ e.at \in Nat /\ e.at + MessageRetention < today
          /\ MessageRetention \in Nat /\ UpdateRetention \in Nat /\ OffersFor \in Nat
          /\ OffersFor + UpdateRetention <= MessageRetention
      BY <1>0, <1>2, <1>8, DeploymentAssumption
    <2>2. /\ since[e.msg] \in Nat
      BY <1>0, <2>1, DeploymentNumbers
    <2>3. offers[e.msg] > 0 /\ since[e.msg] <= e.at
      BY <1>0, <2>1 DEF ClaimsInTime
    <2>4. since[e.msg] + OffersFor < today
      BY <1>0, <2>1, <2>2, <2>3
    <2>5. ASSUME NEW u \in Waiting(e.msg)' PROVE FALSE
      <3>1. u.msg = e.msg /\ (u \in inbox' \/ \E v \in Workers : u \in batch'[v])
        BY WaitingWhere
      <3>2. u \in inbox' /\ u \in inbox /\ u \notin stale
        BY <1>1, <1>2, <1>8, <3>1
      <3>3. u.at \in Nat /\ ~(u.at + UpdateRetention < today)
        BY <1>0, <1>2, <3>2 DEF Copies
      <3>4. u.at <= since[e.msg] + OffersFor
        BY <1>0, <1>5, <2>1, <2>5 DEF CopiesInTime
      <3> QED BY <1>0, <2>1, <2>2, <2>3, <3>3, <3>4
    <2> QED BY <2>1, <2>3, <2>4, <2>5
  <1>9. ActedIsClaimed'
    <2> SUFFICES ASSUME NEW x \in Said, x \notin outlived', acted[x] > 0
                 PROVE  \/ \E e \in claimed' : e.msg = x
                        \/ offers[x] > 0 /\ since[x] + OffersFor < today /\ Waiting(x)' = {}
      BY <1>1 DEF ActedIsClaimed, zaloVars
    <2>1. x \notin outlived /\ x \notin held
      BY <1>1
    <2>2. CASE \E e \in claimed : e.msg = x
      BY <1>1, <1>8, <2>1, <2>2
    <2>3. CASE offers[x] > 0 /\ since[x] + OffersFor < today /\ Waiting(x) = {}
      BY <1>5, <2>3
    <2> QED BY <1>0, <2>1, <2>2, <2>3 DEF ActedIsClaimed
  <1>10. HeardOnce'
    <2> SUFFICES ASSUME NEW x \in Said
                 PROVE  /\ acted[x] <= 1 \/ x \in outlived'
                        /\ x \in unread \/ Waiting(x)' # {} \/ acted[x] > 0 \/ x \in unheard'
      BY <1>1 DEF HeardOnce, zaloVars
    <2>1. /\ acted[x] <= 1 \/ x \in outlived
          /\ x \in unread \/ Waiting(x) # {} \/ acted[x] > 0 \/ x \in unheard
      BY <1>0 DEF HeardOnce
    <2>2. ASSUME NEW u \in Waiting(x), u \notin Waiting(x)' PROVE x \in unheard'
      BY <1>1, <1>2, <2>2, WaitingWhere
    <2> QED BY <1>1, <2>1, <2>2
  <1> QED BY <1>4, <1>6, <1>7, <1>9, <1>10 DEF DeploymentInv

\* A day passes.
LEMMA DayPasses ==
    ASSUME DeploymentInv, NextDay
    PROVE  DeploymentInv'
  <1>1. /\ today' = today + 1 /\ today < MaxDay
        /\ UNCHANGED <<processVars, zaloVars, inbox, batch, claimed, acted, unheard, outlived>>
    BY DEF NextDay
  <1>2. /\ DeploymentTypeOK /\ CopiesInTime /\ ClaimsInTime /\ ActedIsClaimed /\ HeardOnce
        /\ today \in 1..MaxDay /\ MaxDay \in Nat /\ OffersFor \in Nat
    BY DeploymentAssumption DEF DeploymentInv, DeploymentTypeOK
  <1>3. today' \in 1..MaxDay /\ today \in Nat
    BY <1>1, <1>2
  <1>4. \A m : Waiting(m)' = Waiting(m)
    BY <1>1 DEF Waiting
  <1>5. DeploymentTypeOK'
    BY <1>1, <1>2, <1>3 DEF DeploymentTypeOK, processVars, zaloVars, Copies
  <1>6. CopiesInTime'
    <2> SUFFICES ASSUME NEW m \in Said, NEW u \in Waiting(m)
                 PROVE  /\ offers[m] > 0 /\ u.at <= today'
                        /\ since[m] <= u.at /\ u.at <= since[m] + OffersFor
      BY <1>1, <1>4 DEF CopiesInTime, zaloVars
    <2>1. u \in Copies
      BY <1>2, WaitingWhere DEF DeploymentTypeOK
    <2>2. u.at \in Nat
      BY <2>1 DEF Copies
    <2>3. /\ offers[m] > 0 /\ u.at <= today
          /\ since[m] <= u.at /\ u.at <= since[m] + OffersFor
      BY <1>2 DEF CopiesInTime
    <2> QED BY <1>1, <1>3, <2>2, <2>3
  <1>7. ClaimsInTime'
    <2>1. ASSUME NEW m \in Said PROVE since[m] <= today'
      <3>1. since[m] \in Nat /\ since[m] <= today
        BY <1>2, DeploymentNumbers DEF ClaimsInTime
      <3> QED BY <1>1, <1>3, <3>1
    <2>2. ASSUME NEW e \in claimed PROVE e.at <= today'
      <3>1. e.at \in Nat /\ e.at <= today
        BY <1>2, DeploymentNumbers DEF ClaimsInTime
      <3> QED BY <1>1, <1>3, <3>1
    <2> QED BY <1>1, <1>2, <2>1, <2>2 DEF ClaimsInTime, zaloVars
  <1>8. ActedIsClaimed'
    <2> SUFFICES ASSUME NEW x \in Said, x \notin outlived, acted[x] > 0
                 PROVE  \/ \E e \in claimed : e.msg = x
                        \/ offers[x] > 0 /\ since[x] + OffersFor < today' /\ Waiting(x) = {}
      BY <1>1, <1>4 DEF ActedIsClaimed, zaloVars
    <2>1. \/ \E e \in claimed : e.msg = x
          \/ offers[x] > 0 /\ since[x] + OffersFor < today /\ Waiting(x) = {}
      BY <1>2 DEF ActedIsClaimed
    <2>2. since[x] \in Nat
      BY <1>2, DeploymentNumbers
    <2> QED BY <1>1, <1>2, <1>3, <2>1, <2>2
  <1>9. HeardOnce'
    BY <1>1, <1>2, <1>4 DEF HeardOnce, zaloVars
  <1> QED BY <1>5, <1>6, <1>7, <1>8, <1>9 DEF DeploymentInv

LEMMA DeploymentStep == DeploymentInv /\ [DeploymentNext]_deploymentVars => DeploymentInv'
  <1> SUFFICES ASSUME DeploymentInv, [DeploymentNext]_deploymentVars PROVE DeploymentInv'
    OBVIOUS
  <1>0. /\ DeploymentTypeOK /\ ClaimsInTime /\ ProcessesTyped /\ Settings \subseteq SUBSET Flags
        /\ batch \in [Workers -> SUBSET Copies] /\ inbox \subseteq Copies /\ unheard \subseteq Said
        /\ \A u \in Copies : u.msg \in Said
    BY DeploymentAssumption DEF DeploymentInv, DeploymentTypeOK, ProcessesTyped, Copies
  <1>1. ASSUME NEW c \in Settings, StartApi(c) \/ SetWebhook(c) \/ DeleteWebhook(c)
        PROVE  DeploymentInv'
    <2>1. ProcessesTyped'
      BY <1>0, <1>1, LanesKnown DEF ProcessesTyped, StartApi, SetWebhook, DeleteWebhook, processVars,
         chatVars, zaloVars
    <2> QED BY <1>1, <2>1, NobodySpeaks DEF StartApi, SetWebhook, DeleteWebhook, chatVars, zaloVars
  <1>2. CASE RestartApi
    <2>1. ProcessesTyped'
      BY <1>0, <1>2 DEF ProcessesTyped, RestartApi, chatVars, zaloVars
    <2> QED BY <1>2, <2>1, NobodySpeaks DEF RestartApi, chatVars, zaloVars
  <1>3. ASSUME NEW w \in Workers, NEW c \in Settings, StartWorker(w, c) PROVE DeploymentInv'
    <2>1. ProcessesTyped'
      <3>1. BuildRegistry(c) \subseteq BuildRegistry(Flags) \cup {"zalo_link_poll"}
        BY <1>0, LanesKnown
      <3> QED BY <1>0, <1>3, <3>1 DEF ProcessesTyped, StartWorker, chatVars, zaloVars
    <2> QED BY <1>3, <2>1, NobodySpeaks DEF StartWorker, chatVars, zaloVars
  <1>4. ASSUME NEW w \in Workers, Signal(w) PROVE DeploymentInv'
    <2>1. ProcessesTyped'
      BY <1>0, <1>4 DEF ProcessesTyped, Signal, chatVars, zaloVars
    <2> QED BY <1>4, <2>1, NobodySpeaks DEF Signal, chatVars, zaloVars
  <1>5. ASSUME NEW w \in Workers, EndWorker(w) PROVE DeploymentInv'
    <2>1. /\ unheard' = unheard \cup {u.msg : u \in batch[w]}
          /\ batch' = [batch EXCEPT ![w] = {}]
          /\ UNCHANGED <<api, routes, zaloVars, inbox, claimed, acted, outlived, today>>
      BY <1>5 DEF EndWorker
    <2>2. ProcessesTyped'
      BY <1>0, <1>5 DEF ProcessesTyped, EndWorker, zaloVars
    <2>3. /\ batch' \in [Workers -> SUBSET Copies] /\ batch'[w] = {}
          /\ \A v \in Workers : v # w => batch'[v] = batch[v]
      BY <1>0, <2>1
    <2>4. unheard' \subseteq Said /\ unheard \subseteq unheard' /\ inbox' = inbox
      BY <1>0, <2>1
    <2>5. \A m \in Said : Waiting(m)' \subseteq Waiting(m)
      BY <2>3, <2>4, WaitingWhere
    <2>6. ASSUME NEW m \in Said, NEW u \in Waiting(m), u \notin Waiting(m)' PROVE m \in unheard'
      <3>1. u \in batch[w] /\ u.msg = m
        BY <2>3, <2>4, <2>6, WaitingWhere
      <3> QED BY <2>1, <3>1
    <2>7. \A m \in Said : Waiting(m) = {} \/ Waiting(m)' # {} \/ m \in unheard'
      BY <2>6
    <2> QED BY <2>1, <2>2, <2>3, <2>4, <2>5, <2>7, CopiesLeave DEF zaloVars
  <1>6. ASSUME NEW m \in Said, NEW answered \in BOOLEAN, Post(m, answered) PROVE DeploymentInv'
    <2>1. /\ Offers(m) /\ inbox' = inbox \cup {Copy(m)}
          /\ unread' \in {unread, unread \ {m}}
          /\ UNCHANGED <<processVars, hooked, batch, claimed, acted, unheard, outlived, today>>
      BY <1>6 DEF Post
    <2>2. Copy(m) \in Copies /\ Copy(m).msg = m
      BY <1>0, <2>1, CopyTyped
    <2>3. \A x \in Said : x # m => Waiting(x)' = Waiting(x)
      BY <2>1, <2>2 DEF Waiting
    <2>4. Waiting(m)' = Waiting(m) \cup {Copy(m)}
      BY <2>1, <2>2 DEF Waiting
    <2> QED BY <1>0, <2>1, <2>2, <2>3, <2>4, CopyComes
  <1>7. ASSUME NEW w \in Workers, NEW m \in Said, NEW arrives \in BOOLEAN, Poll(w, m, arrives)
        PROVE  DeploymentInv'
    <2>1. /\ Offers(m) /\ batch[w] = {} /\ unread' = unread \ {m}
          /\ UNCHANGED <<processVars, hooked, inbox, claimed, acted, outlived, today>>
      BY <1>7 DEF Poll
    <2>2. Copy(m) \in Copies /\ Copy(m).msg = m
      BY <1>0, <2>1, CopyTyped
    <2>3. CASE arrives
      <3>1. batch' = [batch EXCEPT ![w] = {Copy(m)}] /\ unheard' = unheard
        BY <1>7, <2>3 DEF Poll
      <3>2. /\ batch' \in [Workers -> SUBSET Copies] /\ batch'[w] = {Copy(m)}
            /\ \A v \in Workers : v # w => batch'[v] = batch[v]
        BY <1>0, <2>2, <3>1
      <3>3. \A x \in Said : \A u : x # m => (u \in Waiting(x)' <=> u \in Waiting(x))
        BY <2>1, <2>2, <3>2, WaitingWhere
      <3>4. /\ \A u \in Waiting(m) : u \in Waiting(m)'
            /\ \A u \in Waiting(m)' : u \in Waiting(m) \/ u = Copy(m)
            /\ Copy(m) \in Waiting(m)'
        BY <2>1, <2>2, <3>2, WaitingWhere
      <3> QED BY <1>0, <2>1, <3>1, <3>2, <3>3, <3>4, CopyComes
    <2>4. CASE ~arrives
      <3>1. batch' = batch /\ unheard' = unheard \cup {m}
        BY <1>7, <2>4 DEF Poll
      <3>2. \A x : Waiting(x)' = Waiting(x)
        BY <2>1, <3>1 DEF Waiting
      <3> QED BY <1>0, <2>1, <3>1, <3>2, CopyComes
    <2> QED BY <2>3, <2>4
  <1>8. ASSUME NEW w \in Workers, NEW some \in SUBSET inbox, Take(w, some) PROVE DeploymentInv'
    <2>1. /\ batch[w] = {} /\ inbox' = inbox \ some /\ batch' = [batch EXCEPT ![w] = some]
          /\ UNCHANGED <<processVars, zaloVars, claimed, acted, unheard, outlived, today>>
      BY <1>8 DEF Take
    <2>2. /\ batch' \in [Workers -> SUBSET Copies] /\ batch'[w] = some
          /\ \A v \in Workers : v # w => batch'[v] = batch[v]
      BY <1>0, <2>1
    <2>3. \A m \in Said : \A u : u \in Waiting(m)' <=> u \in Waiting(m)
      BY <2>1, <2>2, WaitingWhere
    <2>4. \A m \in Said : Waiting(m)' = Waiting(m)
      BY <2>3
    <2>5. ProcessesTyped'
      BY <1>0, <2>1 DEF ProcessesTyped, processVars, zaloVars
    <2> QED BY <1>0, <2>1, <2>2, <2>4, <2>5, CopiesLeave DEF zaloVars
  <1>9. ASSUME NEW w \in Workers, NEW u \in batch[w],
               Fails(w, u) \/ (RouteMessage(w, u) /\ \E e \in claimed : e.msg = u.msg)
        PROVE  DeploymentInv'
    <2>1. /\ batch' = [batch EXCEPT ![w] = @ \ {u}]
          /\ unheard' \in {unheard, unheard \cup {u.msg}}
          /\ u.msg \in unheard' \/ \E e \in claimed : e.msg = u.msg
          /\ UNCHANGED <<processVars, zaloVars, inbox, claimed, acted, outlived, today>>
      BY <1>9 DEF Fails, RouteMessage
    <2>2. u.msg \in Said /\ (u.msg \in unheard' \/ acted[u.msg] > 0)
      BY <1>0, <2>1 DEF ClaimsInTime
    <2>3. /\ batch' \in [Workers -> SUBSET Copies] /\ batch'[w] = batch[w] \ {u}
          /\ \A v \in Workers : v # w => batch'[v] = batch[v]
      BY <1>0, <2>1
    <2>4. \A m \in Said : Waiting(m)' \subseteq Waiting(m)
      BY <2>1, <2>3, WaitingWhere
    <2>5. ASSUME NEW m \in Said, NEW v \in Waiting(m), v \notin Waiting(m)' PROVE m = u.msg
      BY <2>1, <2>3, <2>5, WaitingWhere
    <2>6. \A m \in Said : \/ Waiting(m) = {} \/ Waiting(m)' # {}
                           \/ m \in unheard' \/ acted[m] > 0
      BY <2>2, <2>5
    <2>7. ProcessesTyped'
      BY <1>0, <2>1 DEF ProcessesTyped, processVars, zaloVars
    <2> QED BY <1>0, <2>1, <2>2, <2>3, <2>4, <2>6, <2>7, CopiesLeave DEF zaloVars
  <1>10. ASSUME NEW w \in Workers, NEW u \in batch[w], RouteMessage(w, u) PROVE DeploymentInv'
    BY <1>9, <1>10, CopyClaimed
  <1>11. CASE UNCHANGED deploymentVars
    <2>1. ProcessesTyped'
      BY <1>0, <1>11 DEF ProcessesTyped, deploymentVars
    <2> QED BY <1>11, <2>1, NobodySpeaks DEF deploymentVars
  <1> QED BY <1>1, <1>2, <1>3, <1>4, <1>5, <1>6, <1>7, <1>8, <1>9, <1>10, <1>11, ClaimsSwept,
          DayPasses DEF DeploymentNext

\* Copies come only while Zalo offers their message, and a claim outlasts them.
THEOREM DeploymentInOrder == DeploymentSpec => []DeploymentInv
  <1>1. DeploymentInit => DeploymentInv
    <2> SUFFICES ASSUME DeploymentInit PROVE DeploymentInv
      OBVIOUS
    <2>1. \A m : Waiting(m) = {}
      BY DEF Waiting, DeploymentInit
    <2>2. 1 \in 1..MaxDay /\ 0 \in 0..MaxDay /\ 0 \in 0..MaxOffers
      BY DeploymentAssumption
    <2>3. DeploymentTypeOK
      BY <2>2 DEF DeploymentInit, DeploymentTypeOK
    <2> QED BY <2>1, <2>3 DEF DeploymentInit, DeploymentInv, CopiesInTime, ClaimsInTime,
            ActedIsClaimed, HeardOnce
  <1> QED BY <1>1, DeploymentStep, PTL DEF DeploymentSpec

\* Whatever each process is set to, and however many there are, a message is acted
\* on once, though it is offered again and its claim is swept, and is not lost
\* between its readers, as long as no worker holds a copy of it past the claim
\* (`SqlChannelUpdateQueue`, `SqlChannelInboundLedger`, `InboundRouter.route`).
THEOREM SaidIsHeardOnce == DeploymentSpec => []HeardOnce
  <1>1. DeploymentInv => HeardOnce
    BY DEF DeploymentInv
  <1> QED BY <1>1, DeploymentInOrder, PTL

-----------------------------------------------------------------------------
(* Checkpoints: a parked run finds the state it was left in.                  *)

\* The highest of some ids below newest, where newest is one of them.
LEMMA NewestOf ==
    ASSUME NEW n \in Nat, NEW S \in SUBSET (1..n), n \in S
    PROVE  Newest(S) = n
  <1> DEFINE c == Newest(S)
  <1>1. \E d \in S : \A e \in S : e <= d
    OBVIOUS
  <1>2. c \in S /\ \A e \in S : e <= c
    BY <1>1 DEF Newest
  <1> HIDE DEF c
  <1>3. c = n
    BY <1>2
  <1> QED BY <1>3 DEF c

\* `aput_writes` touches one checkpoint, and in it the slot of the channel.
LEMMA WriteKeeps ==
    ASSUME SaveTypeOK, NEW c \in CheckpointIds, NEW channel \in {"interrupt", "resume", "messages"},
           NEW value \in {"question", "answer", "output"}, PutWrite(c, channel, value)
    PROVE  /\ DOMAIN pending' = CheckpointIds
           /\ \A d \in CheckpointIds : d # c => pending'[d] = pending[d]
           /\ DOMAIN pending'[c] = DOMAIN pending[c] \cup {SlotOf(channel)}
           /\ DOMAIN pending'[c] \subseteq Slots
           /\ \A s \in DOMAIN pending'[c] : pending'[c][s] \in {"question", "answer", "output"}
           /\ "0" \in DOMAIN pending[c] => pending'[c]["0"] = pending[c]["0"]
           /\ channel = "messages" /\ "0" \notin DOMAIN pending[c] => pending'[c]["0"] = value
  <1> DEFINE slot == SlotOf(channel)
             put == [s \in DOMAIN pending[c] \cup {slot} |->
                IF s = slot /\ (slot # "0" \/ slot \notin DOMAIN pending[c])
                THEN value ELSE pending[c][s]]
  <1>1. /\ DOMAIN pending = CheckpointIds /\ DOMAIN pending[c] \subseteq Slots
        /\ \A s \in DOMAIN pending[c] : pending[c][s] \in {"question", "answer", "output"}
    BY DEF SaveTypeOK
  <1>2. pending' = [pending EXCEPT ![c] = put]
    BY DEF PutWrite
  <1>3. DOMAIN pending' = CheckpointIds /\ pending'[c] = put
        /\ \A d \in CheckpointIds : d # c => pending'[d] = pending[d]
    BY <1>1, <1>2
  <1>4. /\ slot \in Slots /\ (slot = "0" <=> channel = "messages")
    BY DEF SlotOf, Slots
  <1>5. DOMAIN put = DOMAIN pending[c] \cup {slot}
    OBVIOUS
  <1>6. \A s \in DOMAIN put : put[s] \in {"question", "answer", "output"}
    BY <1>1
  <1>7. /\ "0" \in DOMAIN pending[c] => put["0"] = pending[c]["0"]
        /\ channel = "messages" /\ "0" \notin DOMAIN pending[c] => put["0"] = value
    BY <1>4
  <1> QED BY <1>1, <1>3, <1>4, <1>5, <1>6, <1>7

\* A step that writes under the checkpoint the run is at.
LEMMA WriteStep ==
    ASSUME SaveInv, NEW channel \in {"interrupt", "resume", "messages"},
           NEW value \in {"question", "answer", "output"},
           thread.status \in {"running", "waiting", "replaying"},
           PutWrite(newest, channel, value), channel = "messages" => value = "output",
           NEW status \in {"running", "waiting", "replaying"},
           thread' = [status |-> status, at |-> newest],
           status = "waiting" => channel = "interrupt",
           output' = IF channel = "messages" THEN output \cup {newest} ELSE output,
           UNCHANGED <<saveClock, saved, newest, settled, doomed>>
    PROVE  SaveInv'
  <1>0. /\ SaveTypeOK /\ NewestIsLast /\ AtTheNewest /\ OwnSlot /\ ResumeFindsItsState
        /\ MaxPuts \in Nat /\ newest \in 0..MaxPuts /\ newest \in Stored \ doomed
        /\ Stored \subseteq 1..newest /\ Stored' = Stored
    BY SaveAssumption DEF SaveInv, SaveTypeOK, AtTheNewest, Stored, NewestIsLast
  <1>1. newest \in CheckpointIds /\ newest \in Nat
    BY <1>0 DEF CheckpointIds
  <1>2. /\ DOMAIN pending' = CheckpointIds
        /\ \A d \in CheckpointIds : d # newest => pending'[d] = pending[d]
        /\ DOMAIN pending'[newest] = DOMAIN pending[newest] \cup {SlotOf(channel)}
        /\ DOMAIN pending'[newest] \subseteq Slots
        /\ \A s \in DOMAIN pending'[newest] :
              pending'[newest][s] \in {"question", "answer", "output"}
        /\ "0" \in DOMAIN pending[newest] => pending'[newest]["0"] = pending[newest]["0"]
        /\ channel = "messages" /\ "0" \notin DOMAIN pending[newest] =>
              pending'[newest]["0"] = value
    BY <1>0, <1>1, WriteKeeps
  <1>3. SlotOf(channel) = "0" <=> channel = "messages"
    BY DEF SlotOf
  <1>4. \A c \in CheckpointIds : DOMAIN pending[c] \subseteq DOMAIN pending'[c]
    BY <1>2
  <1>5. OwnSlot'
    BY <1>0, <1>1, <1>2, <1>3 DEF OwnSlot, CheckpointIds
  <1>6. thread' \in [status: {"none", "loading", "running", "waiting", "replaying"},
                     at: 0..MaxPuts]
    BY <1>0
  <1>7. SaveTypeOK'
    BY <1>0, <1>1, <1>2, <1>6 DEF SaveTypeOK, CheckpointIds
  <1>8. NewestIsLast' /\ AtTheNewest'
    BY <1>0, <1>1 DEF NewestIsLast, AtTheNewest, Stored
  <1>9. Newest(Stored) = newest
    BY <1>0, <1>1, NewestOf
  <1>10. status = "waiting" => "interrupt" \in DOMAIN pending'[newest]
    BY <1>2 DEF SlotOf
  <1>11. ASSUME NEW c \in output' \cap Stored'
         PROVE  "0" \in DOMAIN pending'[c] /\ pending'[c]["0"] = "output"
    <2>1. c \in CheckpointIds
      <3>1. c \in 1..newest
        BY <1>0
      <3> QED BY <1>0, <1>1, <3>1 DEF CheckpointIds
    <2>2. "0" \in DOMAIN pending'[c]
      BY <1>0, <1>2, <1>3, <1>4, <2>1 DEF ResumeFindsItsState
    <2> QED BY <1>5, <2>1, <2>2 DEF OwnSlot, CheckpointIds
  <1>12. Newest(Stored)' = newest
    BY <1>0, <1>9
  <1>13. ResumeFindsItsState'
    BY <1>0, <1>10, <1>11, <1>12 DEF ResumeFindsItsState
  <1> QED BY <1>5, <1>7, <1>8, <1>13 DEF SaveInv

\* A step that puts the next checkpoint.
LEMMA PutStep ==
    ASSUME SaveInv, newest < MaxPuts, newest' = newest + 1, Put(newest'),
           thread' = [status |-> "running", at |-> newest'],
           UNCHANGED <<saveClock, pending, settled, output, doomed>>
    PROVE  SaveInv'
  <1>0. /\ SaveTypeOK /\ NewestIsLast /\ OwnSlot /\ ResumeFindsItsState
        /\ MaxPuts \in Nat /\ newest \in Nat /\ newest' \in 1..MaxPuts /\ saveClock \in Nat
    BY SaveAssumption DEF SaveInv, SaveTypeOK
  <1>1. Stored' = Stored \cup {newest'} /\ newest' \notin Stored \cup output \cup doomed
    BY <1>0 DEF Put, Stored, NewestIsLast
  <1>2. \A c \in Stored' : saved'[c] \in 0..saveClock
    BY <1>0, <1>1 DEF Put, Stored, SaveTypeOK
  <1>3. SaveTypeOK'
    BY <1>0, <1>1, <1>2 DEF SaveTypeOK, Stored, CheckpointIds
  <1>4. NewestIsLast' /\ AtTheNewest'
    BY <1>0, <1>1 DEF NewestIsLast, AtTheNewest, Stored
  <1>5. OwnSlot'
    BY <1>0 DEF OwnSlot, CheckpointIds
  <1>6. ResumeFindsItsState'
    BY <1>0, <1>1 DEF ResumeFindsItsState
  <1> QED BY <1>3, <1>4, <1>5, <1>6 DEF SaveInv

LEMMA SaveStep == SaveInv /\ [SaveNext]_saveVars => SaveInv'
  <1> SUFFICES ASSUME SaveInv, [SaveNext]_saveVars PROVE SaveInv'
    OBVIOUS
  <1>0. /\ SaveTypeOK /\ NewestIsLast /\ AtTheNewest /\ OwnSlot /\ ResumeFindsItsState
        /\ MaxPuts \in Nat /\ newest \in 0..MaxPuts /\ saveClock \in Nat /\ MaxSaveClock \in Nat
        /\ thread \in [status: {"none", "loading", "running", "waiting", "replaying"},
                       at: 0..MaxPuts]
    BY SaveAssumption DEF SaveInv, SaveTypeOK
  <1>1. CASE OpenRun
    BY <1>0, <1>1 DEF OpenRun, SaveInv, SaveTypeOK, NewestIsLast, AtTheNewest, OwnSlot,
       ResumeFindsItsState, Stored, CheckpointIds
  <1>2. CASE Load
    BY <1>2, PutStep DEF Load
  <1>3. CASE StepDone
    BY <1>3, PutStep DEF StepDone
  <1>4. CASE Interrupt \/ AskAgain
    <2>1. /\ thread.status \in {"running", "replaying"} /\ PutWrite(thread.at, "interrupt", "question")
          /\ thread' = [thread EXCEPT !.status = "waiting"]
          /\ UNCHANGED <<saveClock, saved, newest, settled, output, doomed>>
      BY <1>4 DEF Interrupt, AskAgain
    <2>2. thread.at = newest
      BY <1>0, <2>1 DEF AtTheNewest
    <2>3. thread' = [status |-> "waiting", at |-> newest]
      BY <1>0, <2>1, <2>2
    <2> QED BY <2>1, <2>2, <2>3, WriteStep
  <1>5. CASE ResumeThread
    <2>1. thread.status = "waiting"
      BY <1>5 DEF ResumeThread
    <2>2. newest \in Stored /\ Stored \subseteq 1..newest /\ newest \in Nat
      BY <1>0, <2>1 DEF AtTheNewest, NewestIsLast
    <2>3. GetTuple = newest
      BY <2>2, NewestOf DEF GetTuple
    <2> QED BY <1>5, <2>1, <2>3, WriteStep DEF ResumeThread
  <1>6. CASE TaskDone
    <2>1. /\ thread.status \in {"running", "replaying"} /\ PutWrite(thread.at, "messages", "output")
          /\ output' = output \cup {thread.at}
          /\ UNCHANGED <<saveClock, saved, newest, thread, settled, doomed>>
      BY <1>6 DEF TaskDone
    <2>2. thread.at = newest
      BY <1>0, <2>1 DEF AtTheNewest
    <2>3. PICK status \in {"running", "replaying"} : thread' = [status |-> status, at |-> newest]
      BY <1>0, <2>1, <2>2
    <2> QED BY <2>1, <2>2, <2>3, WriteStep
  <1>7. CASE Finish
    BY <1>0, <1>7 DEF Finish, SaveInv, SaveTypeOK, NewestIsLast, AtTheNewest, OwnSlot, NoRun,
       ResumeFindsItsState, Stored, CheckpointIds
  <1>8. CASE SaveTick
    <2>1. SaveTypeOK'
      BY <1>0, <1>8 DEF SaveTick, SaveTypeOK, CheckpointIds
    <2> QED BY <1>0, <1>8, <2>1 DEF SaveTick, SaveInv, NewestIsLast, AtTheNewest, OwnSlot,
            ResumeFindsItsState, Stored, CheckpointIds
  <1>9. CASE SelectDoomed
    <2>1. doomed' \subseteq Stored /\ thread = NoRun
          /\ UNCHANGED <<saveClock, saved, pending, newest, thread, settled, output>>
      BY <1>9 DEF SelectDoomed, MayPrune, Expired
    <2>2. doomed' \subseteq CheckpointIds
      BY <1>0, <2>1 DEF SaveTypeOK, Stored
    <2> QED BY <1>0, <2>1, <2>2 DEF SaveInv, SaveTypeOK, NewestIsLast, AtTheNewest, OwnSlot, NoRun,
            ResumeFindsItsState, Stored, CheckpointIds
  <1>10. CASE DeleteDoomed
    <2>1. /\ pending' = [c \in CheckpointIds |-> IF c \in doomed THEN << >> ELSE pending[c]]
          /\ saved' = [c \in Stored \ doomed |-> saved[c]] /\ doomed' = {}
          /\ UNCHANGED <<saveClock, newest, thread, settled, output>>
      BY <1>10 DEF DeleteDoomed
    <2>2. Stored' = Stored \ doomed
      BY <2>1 DEF Stored
    <2>3. \A c \in CheckpointIds : /\ c \in doomed => DOMAIN pending'[c] = {}
                                   /\ c \notin doomed => pending'[c] = pending[c]
      <3> TAKE c \in CheckpointIds
      <3>1. CASE c \in doomed
        <4>1. pending'[c] = << >>
          BY <2>1, <3>1
        <4>2. DOMAIN << >> = {}
          OBVIOUS
        <4> QED BY <3>1, <4>1, <4>2
      <3>2. CASE c \notin doomed
        BY <2>1, <3>2
      <3> QED BY <3>1, <3>2
    <2>4. DOMAIN pending' = CheckpointIds /\ \A c \in Stored' : saved'[c] = saved[c]
      BY <2>1, <2>2
    <2>5. SaveTypeOK'
      BY <1>0, <2>1, <2>2, <2>3, <2>4 DEF SaveTypeOK, Stored, CheckpointIds
    <2>6. NewestIsLast' /\ AtTheNewest'
      BY <1>0, <2>1, <2>2 DEF NewestIsLast, AtTheNewest
    <2>7. OwnSlot'
      BY <1>0, <2>3 DEF OwnSlot, CheckpointIds
    <2>8. ASSUME thread.status = "waiting"
          PROVE  /\ thread.at \in Stored' /\ thread.at = Newest(Stored')
                 /\ "interrupt" \in DOMAIN pending'[thread.at]
      <3>1. thread.at = newest /\ newest \in Stored' /\ newest \in Nat /\ Stored' \subseteq 1..newest
        BY <1>0, <2>2, <2>8 DEF AtTheNewest, NewestIsLast
      <3>2. Newest(Stored') = newest
        BY <3>1, NewestOf
      <3>3. newest \in CheckpointIds /\ newest \notin doomed
        BY <1>0, <2>2, <3>1 DEF CheckpointIds
      <3> QED BY <1>0, <2>3, <2>8, <3>1, <3>2, <3>3 DEF ResumeFindsItsState
    <2>9. ASSUME NEW c \in output \cap Stored'
          PROVE  "0" \in DOMAIN pending'[c] /\ pending'[c]["0"] = "output"
      <3>1. c \in CheckpointIds /\ c \notin doomed /\ c \in Stored
        BY <1>0, <2>2 DEF SaveTypeOK
      <3> QED BY <1>0, <2>3, <3>1 DEF ResumeFindsItsState
    <2>10. ResumeFindsItsState'
      BY <2>1, <2>8, <2>9 DEF ResumeFindsItsState, Newest
    <2> QED BY <2>5, <2>6, <2>7, <2>10 DEF SaveInv
  <1>11. CASE SweepFails
    BY <1>0, <1>11 DEF SweepFails, SaveInv, SaveTypeOK, NewestIsLast, AtTheNewest, OwnSlot,
       ResumeFindsItsState, Stored, CheckpointIds
  <1>12. CASE UNCHANGED saveVars
    BY <1>0, <1>12 DEF saveVars, SaveInv, SaveTypeOK, NewestIsLast, AtTheNewest, OwnSlot,
       ResumeFindsItsState, Stored, CheckpointIds
  <1> QED BY <1>1, <1>2, <1>3, <1>4, <1>5, <1>6, <1>7, <1>8, <1>9, <1>10, <1>11, <1>12 DEF SaveNext

\* A run is at the newest checkpoint, and no sweep holds its key.
THEOREM SavesInOrder == SaveSpec => []SaveInv
  <1>1. SaveInit => SaveInv
    <2> SUFFICES ASSUME SaveInit PROVE SaveInv
      OBVIOUS
    <2>1. /\ DOMAIN saved = {} /\ DOMAIN pending = CheckpointIds
          /\ \A c \in CheckpointIds : DOMAIN pending[c] = {}
      BY DEF SaveInit
    <2>2. thread.status = "none" /\ thread.at = 0
      BY DEF SaveInit, NoRun
    <2>3. SaveTypeOK
      <3>1. thread \in [status: {"none", "loading", "running", "waiting", "replaying"},
                       at: 0..MaxPuts]
        BY SaveAssumption DEF SaveInit, NoRun
      <3>2. /\ saveClock = 0 /\ newest = 0 /\ settled = FALSE /\ output = {} /\ doomed = {}
            /\ 0 \in 0..MaxSaveClock /\ 0 \in 0..MaxPuts
        BY SaveAssumption DEF SaveInit
      <3> QED BY <2>1, <3>1, <3>2 DEF SaveTypeOK
    <2>4. NewestIsLast /\ AtTheNewest /\ OwnSlot
      BY <2>1, <2>2 DEF SaveInit, NewestIsLast, AtTheNewest, OwnSlot, Stored
    <2>5. ResumeFindsItsState
      BY <2>1, <2>2 DEF SaveInit, ResumeFindsItsState, Stored
    <2> QED BY <2>3, <2>4, <2>5 DEF SaveInv
  <1> QED BY <1>1, SaveStep, PTL DEF SaveSpec

\* A run that waits can be resumed as it was left, whatever the sweep read before
\* it began, and what a task put out is on record (`prune`, `aput_writes`).
THEOREM ResumesItsState == SaveSpec => []ResumeFindsItsState
  <1>1. SaveInv => ResumeFindsItsState
    BY DEF SaveInv
  <1> QED BY <1>1, SavesInOrder, PTL

-----------------------------------------------------------------------------
(* Partitions: no audit row goes early, and none hides from the term.         *)

\* A month has two halves.
LEMMA MonthBounds ==
    ASSUME NEW h \in Nat
    PROVE  Month(h) \in Nat /\ 2 * Month(h) <= h /\ h <= 2 * Month(h) + 1
  BY DEF Month

LEMMA LogStep == LogInv /\ [LogNext]_logVars => LogInv'
  <1> SUFFICES ASSUME LogInv, [LogNext]_logVars PROVE LogInv'
    OBVIOUS
  <1>0. MonthsAhead \in Nat /\ MaxHalf \in Nat /\ \A t \in Terms : t \in Nat
    BY LogAssumption
  <1>1. /\ half \in 0..MaxHalf /\ half \in Nat /\ term \in Terms /\ parts \subseteq Months
        /\ kept \subseteq 0..half /\ default \subseteq 0..half
        /\ passes \subseteq Months /\ early \subseteq 0..half
        /\ DefaultIsRest /\ MadeStays /\ AuditKept
    BY <1>0 DEF LogInv, LogTypeOK
  <1>2. Month(half) \in Nat /\ 2 * Month(half) <= half /\ half <= 2 * Month(half) + 1
    BY <1>1, MonthBounds
  <1>3. Month(MaxHalf) \in Nat /\ Month(half) <= Month(MaxHalf)
    <2>1. Month(MaxHalf) \in Nat /\ MaxHalf <= 2 * Month(MaxHalf) + 1
      BY <1>0, MonthBounds
    <2> QED BY <1>0, <1>1, <1>2, <2>1
  <1>4. \A h \in 0..half : Month(h) \in Nat /\ 2 * Month(h) <= h /\ h <= 2 * Month(h) + 1
    <2> TAKE h \in 0..half
    <2>1. h \in Nat
      BY <1>1
    <2> QED BY <2>1, MonthBounds
  <1>5. CASE HalfPasses
    <2>1. /\ half' = half + 1 /\ half' \in 0..MaxHalf
          /\ UNCHANGED <<term, parts, kept, default, passes, early>>
      BY <1>0, <1>1, <1>5 DEF HalfPasses
    <2>2. Month(half') \in Nat /\ Month(half) <= Month(half')
      BY <1>1, <1>2, <2>1, MonthBounds
    <2>3. LogTypeOK'
      BY <1>0, <1>1, <2>1 DEF LogTypeOK, Months
    <2>4. MadeStays'
      <3> SUFFICES ASSUME NEW p \in passes
                   PROVE  /\ p <= Month(half')
                          /\ \A m \in p..(p + MonthsAhead) : m >= Month(half') => m \in parts
        BY <2>1 DEF MadeStays, Month
      <3>1. p \in Nat
        BY <1>1, <1>0, <1>3 DEF Months
      <3>2. p <= Month(half) /\ \A m \in p..(p + MonthsAhead) : m >= Month(half) => m \in parts
        BY <1>1 DEF MadeStays
      <3> QED BY <1>0, <1>2, <2>2, <3>1, <3>2
    <2>5. DefaultIsRest' /\ AuditKept'
      BY <1>1, <2>1 DEF DefaultIsRest, AuditKept, Month
    <2> QED BY <2>3, <2>4, <2>5 DEF LogInv
  <1>6. CASE AppendEvent
    <2>1. UNCHANGED <<half, term, parts, passes, early>>
      BY <1>6 DEF AppendEvent
    <2>2. CASE Month(half) \in parts /\ kept' = kept \cup {half} /\ UNCHANGED default
      <3>1. LogTypeOK'
        BY <1>0, <1>1, <2>1, <2>2 DEF LogTypeOK, Months
      <3> QED BY <1>1, <2>1, <2>2, <3>1 DEF LogInv, DefaultIsRest, MadeStays, AuditKept, Month
    <2>3. CASE Month(half) \notin parts /\ default' = default \cup {half} /\ UNCHANGED kept
      <3>1. LogTypeOK'
        BY <1>0, <1>1, <2>1, <2>3 DEF LogTypeOK, Months
      <3>2. passes \cap ((Month(half) - MonthsAhead)..Month(half)) = {}
        <4> SUFFICES ASSUME NEW p \in passes, p \in (Month(half) - MonthsAhead)..Month(half)
                     PROVE  FALSE
          OBVIOUS
        <4>1. p \in Nat
          BY <1>1, <1>0, <1>3 DEF Months
        <4>2. \A m \in p..(p + MonthsAhead) : m >= Month(half) => m \in parts
          BY <1>1 DEF MadeStays
        <4>3. Month(half) \in p..(p + MonthsAhead)
          BY <1>0, <1>2, <4>1
        <4> QED BY <1>2, <2>3, <4>2, <4>3
      <3>3. \A h \in default' : Month(h) \notin parts
                               /\ passes \cap ((Month(h) - MonthsAhead)..Month(h)) = {}
        BY <1>1, <2>3, <3>2 DEF DefaultIsRest, AuditKept
      <3>4. DefaultIsRest' /\ AuditKept'
        BY <1>1, <2>1, <3>3 DEF DefaultIsRest, AuditKept, Month
      <3>5. MadeStays'
        BY <1>1, <2>1 DEF MadeStays, Month
      <3> QED BY <3>1, <3>4, <3>5 DEF LogInv
    <2> QED BY <1>6, <2>2, <2>3 DEF AppendEvent
  <1>7. CASE CreateAhead
    <2> DEFINE moved == {h \in default : Month(h) \in Ahead \ parts}
    <2>1. /\ parts' = parts \cup Ahead /\ kept' = kept \cup moved /\ default' = default \ moved
          /\ passes' = passes \cup {Month(half)} /\ UNCHANGED <<half, term, early>>
      BY <1>7 DEF CreateAhead
    <2>2. Ahead \subseteq Months /\ Month(half) \in Months
      BY <1>0, <1>2, <1>3 DEF Ahead, Months
    <2>3. LogTypeOK'
      BY <1>1, <2>1, <2>2 DEF LogTypeOK, Months, Month
    <2>4. \A h \in default' : h \in default /\ Month(h) \notin parts /\ Month(h) \notin Ahead
      BY <1>1, <2>1 DEF DefaultIsRest
    <2>5. DefaultIsRest'
      BY <2>1, <2>4 DEF DefaultIsRest, Month
    <2>6. MadeStays'
      BY <1>0, <1>1, <1>2, <2>1 DEF MadeStays, Ahead, Month
    <2>7. ASSUME NEW h \in default'
          PROVE  passes' \cap ((Month(h) - MonthsAhead)..Month(h)) = {}
      <3>1. passes \cap ((Month(h) - MonthsAhead)..Month(h)) = {}
        BY <1>1, <2>4 DEF AuditKept
      <3>2. Month(h) \in Nat /\ Month(h) \notin Month(half)..(Month(half) + MonthsAhead)
        BY <1>1, <1>4, <2>4 DEF Ahead
      <3>3. Month(half) \notin (Month(h) - MonthsAhead)..Month(h)
        BY <1>0, <1>2, <3>2
      <3> QED BY <2>1, <3>1, <3>3
    <2>8. AuditKept'
      BY <1>1, <2>1, <2>7 DEF AuditKept, Month
    <2> QED BY <2>3, <2>5, <2>6, <2>8 DEF LogInv
  <1>8. CASE DropExpired
    <2> DEFINE over == {m \in parts : MonthIsOver(m)}
               taken == {h \in kept : Month(h) \in over}
    <2>1. /\ parts' = parts \ over /\ kept' = kept \ taken
          /\ early' = early \cup {h \in taken : half - h < term}
          /\ UNCHANGED <<half, term, default, passes>>
      BY <1>8 DEF DropExpired
    <2>2. \A m \in over : m \in Nat /\ m < Month(half)
      BY <1>0, <1>1, <1>2, <1>3 DEF MonthIsOver, Months
    <2>3. \A h \in taken : ~(half - h < term)
      <3> SUFFICES ASSUME NEW h \in taken PROVE half - h >= term
        BY <1>0, <1>1
      <3>1. Month(h) \in Nat /\ h \in 0..half /\ h <= 2 * Month(h) + 1
        BY <1>1, <1>4
      <3>2. 2 * (Month(h) + 1) <= half - term
        BY DEF MonthIsOver
      <3> QED BY <1>0, <1>1, <3>1, <3>2
    <2>4. early' = early
      BY <2>1, <2>3
    <2> HIDE DEF over, taken
    <2>5. LogTypeOK'
      BY <1>1, <2>1, <2>4 DEF LogTypeOK, Months, Month
    <2>6. DefaultIsRest' /\ AuditKept'
      BY <1>1, <2>1, <2>4 DEF DefaultIsRest, AuditKept, Month
    <2>7. MadeStays'
      <3> SUFFICES ASSUME NEW p \in passes
                   PROVE  /\ p <= Month(half)
                          /\ \A m \in p..(p + MonthsAhead) : m >= Month(half) => m \in parts'
        BY <2>1 DEF MadeStays, Month
      <3>1. p \in Nat
        BY <1>1, <1>0, <1>3 DEF Months
      <3> QED BY <1>0, <1>1, <1>2, <2>1, <2>2, <3>1 DEF MadeStays
    <2> QED BY <2>5, <2>6, <2>7 DEF LogInv
  <1>9. CASE \E t \in Terms : ChangeTerm(t)
    BY <1>1, <1>9 DEF ChangeTerm, LogInv, LogTypeOK, DefaultIsRest, MadeStays, AuditKept, Month,
       Months
  <1>10. CASE UNCHANGED logVars
    BY <1>1, <1>10 DEF logVars, LogInv, LogTypeOK, DefaultIsRest, MadeStays, AuditKept, Month,
       Months
  <1> QED BY <1>5, <1>6, <1>7, <1>8, <1>9, <1>10 DEF LogNext

\* What a pass made stays until its month is over, however the term changes.
THEOREM LogInOrder == LogSpec => []LogInv
  <1>1. LogInit => LogInv
    BY LogAssumption DEF LogInit, LogInv, LogTypeOK, DefaultIsRest, MadeStays, AuditKept
  <1> QED BY <1>1, LogStep, PTL DEF LogSpec

\* No audit row is dropped before the term in force, and a month the pass looked
\* ahead to has none in the DEFAULT partition (`drop_expired_partitions`,
\* `_ensure_one_partition`).
THEOREM AuditIsKept == LogSpec => []AuditKept
  <1>1. LogInv => AuditKept
    BY DEF LogInv
  <1> QED BY <1>1, LogInOrder, PTL

-----------------------------------------------------------------------------
(* DocSandbox: a command keeps its directory, and its group ends with it.     *)

\* `session_dir` and an entry that is added: the directory is there.
LEMMA DirOpened ==
    ASSUME BoxTypeOK, NEW s \in Sessions, dirs' \in {OpenedDir(s), Touched(s)}
    PROVE  /\ DOMAIN dirs' = DOMAIN dirs \cup {s} /\ DOMAIN dirs' \subseteq Sessions
           /\ \A t \in DOMAIN dirs' : dirs'[t] \in 0..MaxBoxClock
  <1>0. /\ DOMAIN dirs \subseteq Sessions /\ \A t \in DOMAIN dirs : dirs[t] \in 0..MaxBoxClock
        /\ boxClock \in 0..MaxBoxClock
    BY DEF BoxTypeOK
  <1> DEFINE d == OpenedDir(s)
  <1>1. DOMAIN d = DOMAIN dirs \cup {s} /\ \A t \in DOMAIN d : d[t] \in 0..MaxBoxClock
    BY <1>0 DEF OpenedDir
  <1> HIDE DEF d
  <1>2. CASE dirs' = d
    BY <1>0, <1>1, <1>2
  <1>3. CASE dirs' = [d EXCEPT ![s] = boxClock]
    BY <1>0, <1>1, <1>3
  <1> QED BY <1>2, <1>3 DEF Touched, d

\* A command that goes on keeps its session.
LEMMA Goes ==
    ASSUME BoxTypeOK, NEW c \in Commands, NEW step \in Steps, GotoStep(c, step)
    PROVE  /\ commands' \in [Commands -> [at: Steps, of: Sessions \cup {NoSession}, heard: BOOLEAN]]
           /\ commands'[c].at = step /\ commands'[c].of = commands[c].of
           /\ \A d \in Commands : d # c => commands'[d] = commands[d]
  <1>1. commands \in [Commands -> [at: Steps, of: Sessions \cup {NoSession}, heard: BOOLEAN]]
    BY DEF BoxTypeOK
  <1>2. commands' = [commands EXCEPT ![c].at = step]
    BY DEF GotoStep
  <1> QED BY <1>1, <1>2

LEMMA BoxStep == BoxInv /\ [BoxNext]_boxVars => BoxInv'
  <1> SUFFICES ASSUME BoxInv, [BoxNext]_boxVars PROVE BoxInv'
    OBVIOUS
  <1>0. /\ BoxTypeOK /\ RunningIsMarked /\ StuckHasRun /\ TrailIsTold
        /\ \A c \in Commands \ parted : commands[c].at = "running" => commands[c].of \in DOMAIN dirs
        /\ \A c \in alive \ stuck : commands[c].at = "running" /\ c \notin trail
        /\ MaxBoxClock \in Nat /\ MaxMishaps \in Nat
        /\ boxClock \in 0..MaxBoxClock /\ mishaps \in 0..MaxMishaps
        /\ DOMAIN dirs \subseteq Sessions /\ \A s \in DOMAIN dirs : dirs[s] \in 0..MaxBoxClock
        /\ commands \in [Commands -> [at: Steps, of: Sessions \cup {NoSession}, heard: BOOLEAN]]
        /\ marked \subseteq Sessions /\ stuck \subseteq alive
        /\ alive \subseteq Commands /\ away \subseteq Commands /\ trail \subseteq Commands /\ parted \subseteq Commands
    BY BoxAssumption DEF BoxInv, CommandsKeepApart, BoxTypeOK
  <1>1. ASSUME NEW c \in Commands, NEW s \in Sessions, AskCommand(c, s) PROVE BoxInv'
    <2> DEFINE request == [at |-> "queued", of |-> s, heard |-> TRUE]
    <2>1. /\ commands[c].at = "idle" /\ commands' = [commands EXCEPT ![c] = request]
          /\ dirs' = OpenedDir(s)
          /\ UNCHANGED <<boxClock, marked, alive, stuck, away, trail, parted, mishaps>>
      BY <1>1 DEF AskCommand, NotAsked
    <2>2. /\ DOMAIN dirs' = DOMAIN dirs \cup {s} /\ DOMAIN dirs' \subseteq Sessions
          /\ \A t \in DOMAIN dirs' : dirs'[t] \in 0..MaxBoxClock
      BY <1>0, <2>1, DirOpened
    <2>3. /\ request \in [at: Steps, of: Sessions \cup {NoSession}, heard: BOOLEAN]
          /\ request.at = "queued"
      BY DEF Steps
    <2> HIDE DEF request
    <2>4. /\ commands' \in [Commands -> [at: Steps, of: Sessions \cup {NoSession}, heard: BOOLEAN]]
          /\ commands'[c].at = "queued" /\ \A d \in Commands : d # c => commands'[d] = commands[d]
      BY <1>0, <2>1, <2>3
    <2>5. BoxTypeOK'
      BY <1>0, <2>1, <2>2, <2>4 DEF BoxTypeOK
    <2>6. RunningIsMarked' /\ StuckHasRun' /\ TrailIsTold' /\ CommandsKeepApart'
      BY <1>0, <2>1, <2>2, <2>4 DEF RunningIsMarked, StuckHasRun, CommandsKeepApart,
         TrailIsTold
    <2> QED BY <2>5, <2>6 DEF BoxInv
  <1>2. ASSUME NEW c \in Commands, StartCommand(c) PROVE BoxInv'
    <2>1. /\ commands[c].at = "queued" /\ commands[c].of \in DOMAIN dirs /\ GotoStep(c, "running")
          /\ marked' = marked \cup {commands[c].of} /\ alive' = alive \cup {c}
          /\ UNCHANGED <<boxClock, dirs, stuck, away, trail, parted, mishaps>>
      BY <1>2 DEF StartCommand
    <2>2. /\ commands' \in [Commands -> [at: Steps, of: Sessions \cup {NoSession}, heard: BOOLEAN]]
          /\ commands'[c].at = "running" /\ commands'[c].of = commands[c].of
          /\ \A d \in Commands : d # c => commands'[d] = commands[d]
      BY <1>0, <2>1, Goes DEF Steps
    <2>3. BoxTypeOK'
      BY <1>0, <2>1, <2>2 DEF BoxTypeOK
    <2>4. RunningIsMarked' /\ StuckHasRun' /\ TrailIsTold' /\ CommandsKeepApart'
      BY <1>0, <2>1, <2>2 DEF RunningIsMarked, StuckHasRun, CommandsKeepApart, TrailIsTold
    <2> QED BY <2>3, <2>4 DEF BoxInv
  <1>3. ASSUME NEW c \in Commands, StartFails(c) PROVE BoxInv'
    <2>1. /\ commands[c].at = "queued" /\ GotoStep(c, "lost")
          /\ marked' = marked \ {commands[c].of} /\ parted' = parted \cup InThread(commands[c].of)
          /\ UNCHANGED <<boxClock, dirs, alive, stuck, away, trail>>
      BY <1>3 DEF StartFails
    <2>2. mishaps' \in 0..MaxMishaps
      BY <1>0, <1>3 DEF StartFails
    <2>3. /\ commands' \in [Commands -> [at: Steps, of: Sessions \cup {NoSession}, heard: BOOLEAN]]
          /\ commands'[c].at = "lost" /\ commands'[c].of = commands[c].of
          /\ \A d \in Commands : d # c => commands'[d] = commands[d]
      BY <1>0, <2>1, Goes DEF Steps
    <2>4. /\ InThread(commands[c].of) \subseteq Commands
          /\ \A d \in Commands : commands[d].at = "running" /\ commands[d].of = commands[c].of =>
                d \in InThread(commands[c].of)
      BY DEF InThread
    <2>5. BoxTypeOK'
      BY <1>0, <2>1, <2>2, <2>3, <2>4 DEF BoxTypeOK
    <2>6. RunningIsMarked' /\ StuckHasRun' /\ TrailIsTold' /\ CommandsKeepApart'
      BY <1>0, <2>1, <2>3, <2>4 DEF RunningIsMarked, StuckHasRun, CommandsKeepApart, TrailIsTold
    <2> QED BY <2>5, <2>6 DEF BoxInv
  <1>4. ASSUME NEW s \in Sessions, dirs' \in {OpenedDir(s), Touched(s)},
               UNCHANGED <<boxClock, commands, marked, alive, stuck, away, trail, parted, mishaps>>
        PROVE  BoxInv'
    <2>1. /\ DOMAIN dirs' = DOMAIN dirs \cup {s} /\ DOMAIN dirs' \subseteq Sessions
          /\ \A t \in DOMAIN dirs' : dirs'[t] \in 0..MaxBoxClock
      BY <1>0, <1>4, DirOpened
    <2> QED BY <1>0, <1>4, <2>1 DEF BoxInv, BoxTypeOK, RunningIsMarked, StuckHasRun,
            CommandsKeepApart, TrailIsTold
  <1>5. ASSUME NEW c \in Commands, AddEntry(c) PROVE BoxInv'
    <2>1. commands[c].of \in Sessions
      BY <1>0, <1>5 DEF AddEntry
    <2> QED BY <1>4, <1>5, <2>1 DEF AddEntry
  <1>6. ASSUME NEW c \in Commands, Exit(c) PROVE BoxInv'
    <2>1. /\ commands[c].at = "running" /\ GotoStep(c, "exited")
          /\ \/ alive' = alive \ {c} /\ UNCHANGED <<stuck, mishaps>>
             \/ mishaps' \in 0..MaxMishaps /\ stuck' = stuck \cup {c} /\ UNCHANGED alive
          /\ UNCHANGED <<boxClock, dirs, marked, away, trail, parted>>
      BY <1>0, <1>6 DEF Exit
    <2>2. /\ commands' \in [Commands -> [at: Steps, of: Sessions \cup {NoSession}, heard: BOOLEAN]]
          /\ commands'[c].at = "exited" /\ commands'[c].of = commands[c].of
          /\ \A d \in Commands : d # c => commands'[d] = commands[d]
      BY <1>0, <2>1, Goes DEF Steps
    <2>3. /\ alive' \subseteq Commands /\ stuck' \subseteq alive' /\ alive \ {c} \subseteq alive'
          /\ alive' \ stuck' \subseteq (alive \ stuck) \ {c} /\ stuck' \subseteq stuck \cup {c}
      <3>1. c \in alive \ stuck
        BY <1>0, <2>1 DEF StuckHasRun
      <3> QED BY <1>0, <2>1, <3>1
    <2>4. BoxTypeOK'
      BY <1>0, <2>1, <2>2, <2>3 DEF BoxTypeOK
    <2>5. RunningIsMarked' /\ StuckHasRun' /\ TrailIsTold' /\ CommandsKeepApart'
      BY <1>0, <2>1, <2>2, <2>3 DEF RunningIsMarked, StuckHasRun, CommandsKeepApart,
         TrailIsTold
    <2> QED BY <2>4, <2>5 DEF BoxInv
  <1>7. ASSUME NEW c \in Commands, Answer(c) PROVE BoxInv'
    <2> DEFINE busy == marked \ {commands[c].of}
               left == {t \in DOMAIN dirs : ~Sweepable(t, busy)}
    <2>1. PICK step \in {"replied", "lost"} : GotoStep(c, step)
      BY <1>7 DEF Answer
    <2>2. /\ commands[c].at = "exited" /\ marked' = busy /\ dirs' = [s \in left |-> dirs[s]]
          /\ parted' = parted \cup (InThread(commands[c].of) \ {c})
          /\ UNCHANGED <<boxClock, alive, stuck, away, trail, mishaps>>
      BY <1>7 DEF Answer
    <2>3. /\ commands' \in [Commands -> [at: Steps, of: Sessions \cup {NoSession}, heard: BOOLEAN]]
          /\ commands'[c].at = step /\ commands'[c].of = commands[c].of
          /\ \A d \in Commands : d # c => commands'[d] = commands[d]
      BY <1>0, <2>1, Goes DEF Steps
    <2>4. /\ left \subseteq DOMAIN dirs /\ DOMAIN dirs \cap busy \subseteq left
          /\ DOMAIN dirs' = left /\ \A s \in left : dirs'[s] = dirs[s]
      BY <2>2 DEF Sweepable
    <2>5. /\ InThread(commands[c].of) \subseteq Commands
          /\ \A d \in Commands : commands[d].at = "running" /\ commands[d].of = commands[c].of =>
                d \in InThread(commands[c].of)
      BY DEF InThread
    <2> HIDE DEF left
    <2>6. BoxTypeOK'
      BY <1>0, <2>2, <2>3, <2>4, <2>5 DEF BoxTypeOK
    <2>7. \A d \in Commands \ parted' : commands'[d].at = "running" =>
                 commands'[d].of \in marked' /\ commands'[d].of \in DOMAIN dirs'
      BY <1>0, <2>1, <2>2, <2>3, <2>4, <2>5 DEF RunningIsMarked
    <2>8. RunningIsMarked' /\ StuckHasRun' /\ TrailIsTold' /\ CommandsKeepApart'
      BY <1>0, <2>1, <2>2, <2>3, <2>7 DEF RunningIsMarked, StuckHasRun, CommandsKeepApart,
         TrailIsTold
    <2> QED BY <2>6, <2>8 DEF BoxInv
  <1>8. ASSUME NEW c \in Commands, ClientGivesUp(c) PROVE BoxInv'
    <2>1. /\ mishaps' \in 0..MaxMishaps /\ commands' = [commands EXCEPT ![c].heard = FALSE]
          /\ UNCHANGED <<boxClock, dirs, marked, alive, stuck, away, trail, parted>>
      BY <1>0, <1>8 DEF ClientGivesUp
    <2>2. /\ commands' \in [Commands -> [at: Steps, of: Sessions \cup {NoSession}, heard: BOOLEAN]]
          /\ \A d \in Commands : commands'[d].at = commands[d].at /\ commands'[d].of = commands[d].of
      BY <1>0, <2>1
    <2>3. BoxTypeOK'
      BY <1>0, <2>1, <2>2 DEF BoxTypeOK
    <2> QED BY <1>0, <2>1, <2>2, <2>3 DEF BoxInv, RunningIsMarked, StuckHasRun, CommandsKeepApart,
            TrailIsTold
  <1>9. ASSUME NEW c \in Commands, RecordCommand(c) \/ RecordRefused(c) PROVE BoxInv'
    <2>1. /\ commands[c].at = "replied" /\ mishaps' \in 0..MaxMishaps
          /\ \/ GotoStep(c, "told") /\ trail' = trail \cup {c}
             \/ GotoStep(c, "lost") /\ trail' = trail
          /\ UNCHANGED <<boxClock, dirs, marked, alive, stuck, away, parted>>
      BY <1>0, <1>9 DEF RecordCommand, RecordRefused
    <2>2. /\ commands' \in [Commands -> [at: Steps, of: Sessions \cup {NoSession}, heard: BOOLEAN]]
          /\ \A d \in Commands : d # c => commands'[d] = commands[d]
          /\ \/ commands'[c].at = "told" /\ trail' = trail \cup {c}
             \/ commands'[c].at = "lost" /\ trail' = trail
      BY <1>0, <2>1, Goes DEF Steps
    <2>3. BoxTypeOK'
      BY <1>0, <2>1, <2>2 DEF BoxTypeOK
    <2>4. RunningIsMarked' /\ StuckHasRun' /\ TrailIsTold' /\ CommandsKeepApart'
      BY <1>0, <2>1, <2>2 DEF RunningIsMarked, StuckHasRun, CommandsKeepApart, TrailIsTold
    <2> QED BY <2>3, <2>4 DEF BoxInv
  <1>10. ASSUME NEW s \in Sessions, Release(s) PROVE BoxInv'
    <2>1. /\ DOMAIN dirs' = DOMAIN dirs \ {s} /\ \A t \in DOMAIN dirs' : dirs'[t] = dirs[t]
          /\ parted' = parted \cup InThread(s)
          /\ UNCHANGED <<boxClock, commands, marked, alive, stuck, away, trail, mishaps>>
      BY <1>10 DEF Release
    <2>2. InThread(s) \subseteq Commands
      BY DEF InThread
    <2>3. BoxTypeOK'
      BY <1>0, <2>1, <2>2 DEF BoxTypeOK
    <2>4. \A d \in Commands \ parted' : commands[d].at = "running" => commands[d].of \in DOMAIN dirs'
      BY <1>0, <2>1 DEF InThread
    <2> QED BY <1>0, <2>1, <2>3, <2>4 DEF BoxInv, RunningIsMarked, StuckHasRun, CommandsKeepApart,
            TrailIsTold
  <1>11. CASE RestartBox
    <2> DEFINE Halted(d) == commands[d].at \in {"queued", "running", "exited"}
    <2>1. /\ mishaps' \in 0..MaxMishaps /\ marked' = {} /\ alive' = {} /\ stuck' = {}
          /\ away' = {} /\ DOMAIN dirs' = {} /\ UNCHANGED <<boxClock, trail, parted>>
          /\ commands' = [d \in Commands |-> IF Halted(d) THEN [commands[d] EXCEPT !.at = "lost"]
                                                       ELSE commands[d]]
      BY <1>0, <1>11 DEF RestartBox
    <2>2. ASSUME NEW d \in Commands
          PROVE  /\ commands'[d] \in [at: Steps, of: Sessions \cup {NoSession}, heard: BOOLEAN]
                 /\ commands'[d].at # "running"
                 /\ commands'[d].at = "told" <=> commands[d].at = "told"
      <3>1. CASE Halted(d)
        BY <1>0, <2>1, <3>1 DEF Steps
      <3>2. CASE ~Halted(d)
        BY <1>0, <2>1, <3>2
      <3> QED BY <3>1, <3>2
    <2>3. commands' \in [Commands -> [at: Steps, of: Sessions \cup {NoSession}, heard: BOOLEAN]]
      BY <2>1, <2>2
    <2>4. BoxTypeOK'
      BY <1>0, <2>1, <2>3 DEF BoxTypeOK
    <2> QED BY <1>0, <2>1, <2>2, <2>4 DEF BoxInv, RunningIsMarked, StuckHasRun, CommandsKeepApart,
            TrailIsTold
  <1>12. CASE BoxTick \/ UNCHANGED boxVars
    <2>1. boxClock' \in 0..MaxBoxClock
          /\ UNCHANGED <<dirs, commands, marked, alive, stuck, away, trail, parted, mishaps>>
      BY <1>0, <1>12 DEF BoxTick, boxVars
    <2> QED BY <1>0, <2>1 DEF BoxInv, BoxTypeOK, RunningIsMarked, StuckHasRun, CommandsKeepApart,
            TrailIsTold
  <1>13. ASSUME NEW s \in Sessions, NEW n \in Nat, NEW new \in Nat, Upload(s, n, new) PROVE BoxInv'
    BY <1>4, <1>13 DEF Upload
  <1>14. ASSUME NEW s \in Sessions, Download(s) PROVE BoxInv'
    BY <1>13, <1>14 DEF Download
  <1>15. ASSUME NEW s \in Sessions, NEW n \in 1..(MaxFiles + 1), NEW new \in 0..1, Upload(s, n, new)
         PROVE  BoxInv'
    BY <1>4, <1>15 DEF Upload
  <1>16. ASSUME NEW c \in Commands, Detach(c) \/ DetachedEnds(c) PROVE BoxInv'
    <2>1. /\ away' \subseteq Commands
          /\ UNCHANGED <<boxClock, dirs, commands, marked, alive, stuck, trail, parted, mishaps>>
      BY <1>0, <1>16 DEF Detach, DetachedEnds
    <2> QED BY <1>0, <2>1 DEF BoxInv, BoxTypeOK, RunningIsMarked, StuckHasRun, CommandsKeepApart,
            TrailIsTold
  <1> QED BY <1>1, <1>2, <1>3, <1>5, <1>6, <1>7, <1>8, <1>9, <1>10, <1>11, <1>12, <1>14, <1>15, <1>16
          DEF BoxNext

\* A running command is marked until another of its session ends or cannot start.
THEOREM BoxInOrder == BoxSpec => []BoxInv
  <1>1. BoxInit => BoxInv
    <2> SUFFICES ASSUME BoxInit PROVE BoxInv
      OBVIOUS
    <2>1. DOMAIN dirs = {} /\ NotAsked \in [at: Steps, of: Sessions \cup {NoSession}, heard: BOOLEAN]
      BY DEF BoxInit, NotAsked, Steps
    <2>2. /\ commands \in [Commands -> [at: Steps, of: Sessions \cup {NoSession}, heard: BOOLEAN]]
          /\ \A c \in Commands : commands[c].at = "idle"
      BY <2>1 DEF BoxInit, NotAsked
    <2>3. BoxTypeOK
      BY <2>1, <2>2, BoxAssumption DEF BoxInit, BoxTypeOK
    <2> QED BY <2>2, <2>3 DEF BoxInit, BoxInv, RunningIsMarked, StuckHasRun, CommandsKeepApart,
            TrailIsTold
  <1> QED BY <1>1, BoxStep, PTL DEF BoxSpec

\* However old its directory is, a command keeps it while it runs, as long as its
\* session is not released and no other command of the session ends or fails to
\* start; and of a command that has answered no process of its group is left that
\* SIGKILL can end (`execute`, `sweep`, `_kill_group`).
THEOREM CommandsApart == BoxSpec => []CommandsKeepApart
  <1>1. BoxInv => CommandsKeepApart
    BY DEF BoxInv
  <1> QED BY <1>1, BoxInOrder, PTL

-----------------------------------------------------------------------------
(* Knowledge: the rows and the index.                                         *)

\* The one text that a version can have.
LEMMA OneText == ASSUME NEW t \in Texts PROVE {t} \in AtMostOne(Texts) /\ {} \in AtMostOne(Texts)
  <1>1. Cardinality({t}) = 1 /\ Cardinality({}) = 0
    BY FS_Singleton, FS_EmptySet
  <1> QED BY <1>1 DEF AtMostOne

\* A step of one pass: what becomes of it, and that the others stay.
LEMMA PassMoves ==
    ASSUME LibraryTypeOK, PassesHaveVersions, NEW p \in Passes, NEW e \in PassStates,
           pass' = [pass EXCEPT ![p] = e],
           IF e.at = "idle" THEN e = NoPass ELSE e.version \in Versions /\ e.text \in Texts
    PROVE  /\ pass' \in [Passes -> PassStates] /\ PassesHaveVersions'
           /\ pass'[p] = e /\ \A q \in Passes : q # p => pass'[q] = pass[q]
  <1>1. pass \in [Passes -> PassStates]
    BY DEF LibraryTypeOK
  <1>2. pass'[p] = e /\ \A q \in Passes : q # p => pass'[q] = pass[q]
    BY <1>1
  <1> QED BY <1>1, <1>2 DEF PassesHaveVersions

LEMMA StageMoves ==
    ASSUME LibraryTypeOK, PassesHaveVersions, NEW p \in Passes, pass[p].at # "idle",
           NEW step \in {"queued", "put", "write", "hide", "drop", "embed", "upsert"},
           NEW old \in SUBSET Versions,
           pass' = [pass EXCEPT ![p].at = step, ![p].superseded = old]
    PROVE  /\ pass' \in [Passes -> PassStates] /\ PassesHaveVersions'
           /\ pass'[p].at = step /\ pass'[p].superseded = old
           /\ pass'[p].version = pass[p].version /\ pass'[p].text = pass[p].text
           /\ \A q \in Passes : q # p => pass'[q] = pass[q]
  <1> DEFINE e == [pass[p] EXCEPT !.at = step, !.superseded = old]
  <1>1. pass \in [Passes -> PassStates] /\ pass[p] \in PassStates
    BY DEF LibraryTypeOK
  <1>2. pass' = [pass EXCEPT ![p] = e]
    BY <1>1
  <1>3. /\ e \in PassStates /\ e.at = step /\ e.superseded = old
        /\ e.version = pass[p].version /\ e.text = pass[p].text
    BY <1>1 DEF PassStates
  <1>4. pass[p].version \in Versions /\ pass[p].text \in Texts
    BY DEF PassesHaveVersions
  <1> HIDE DEF e
  <1>5. /\ pass' \in [Passes -> PassStates] /\ PassesHaveVersions'
        /\ pass'[p] = e /\ \A q \in Passes : q # p => pass'[q] = pass[q]
    BY <1>2, <1>3, <1>4, PassMoves
  <1> QED BY <1>3, <1>5

LEMMA StageOnly ==
    ASSUME LibraryTypeOK, PassesHaveVersions, NEW p \in Passes, pass[p].at # "idle",
           NEW step \in {"queued", "put", "write", "hide", "drop", "embed", "upsert"},
           GotoStage(p, step)
    PROVE  /\ pass' \in [Passes -> PassStates] /\ PassesHaveVersions'
           /\ pass'[p].at = step /\ pass'[p].superseded = pass[p].superseded
           /\ pass'[p].version = pass[p].version /\ pass'[p].text = pass[p].text
           /\ \A q \in Passes : q # p => pass'[q] = pass[q]
  <1> DEFINE e == [pass[p] EXCEPT !.at = step]
  <1>1. pass \in [Passes -> PassStates] /\ pass[p] \in PassStates
    BY DEF LibraryTypeOK
  <1>2. pass' = [pass EXCEPT ![p] = e]
    BY <1>1 DEF GotoStage
  <1>3. /\ e \in PassStates /\ e.at = step /\ e.superseded = pass[p].superseded
        /\ e.version = pass[p].version /\ e.text = pass[p].text
    BY <1>1 DEF PassStates
  <1>4. pass[p].version \in Versions /\ pass[p].text \in Texts
    BY DEF PassesHaveVersions
  <1> HIDE DEF e
  <1>5. /\ pass' \in [Passes -> PassStates] /\ PassesHaveVersions'
        /\ pass'[p] = e /\ \A q \in Passes : q # p => pass'[q] = pass[q]
    BY <1>2, <1>3, <1>4, PassMoves
  <1> QED BY <1>3, <1>5

\* What the calls of the index do to the points.
LEMMA Tombstoned ==
    ASSUME LibraryTypeOK, NEW v \in Versions, Tombstone(v)
    PROVE  /\ points' \in [Versions -> SUBSET (Texts \X BOOLEAN)]
           /\ points[v] = {} => points'[v] = {}
           /\ \A u \in Versions : u # v => points'[u] = points[u]
  <1> DEFINE struck == {<<pt[1], TRUE>> : pt \in points[v]}
  <1>1. points \in [Versions -> SUBSET (Texts \X BOOLEAN)]
    BY DEF LibraryTypeOK
  <1>2. points' = [points EXCEPT ![v] = struck]
    BY <1>1 DEF Tombstone
  <1>3. points[v] \in SUBSET (Texts \X BOOLEAN)
    BY <1>1
  <1>4. struck \in SUBSET (Texts \X BOOLEAN)
    <2> SUFFICES ASSUME NEW pt \in points[v] PROVE <<pt[1], TRUE>> \in Texts \X BOOLEAN
      OBVIOUS
    <2>1. pt \in Texts \X BOOLEAN
      BY <1>3
    <2>2. pt[1] \in Texts
      BY <2>1
    <2> QED BY <2>2
  <1>5. points[v] = {} => struck = {}
    OBVIOUS
  <1> HIDE DEF struck
  <1> QED BY <1>1, <1>2, <1>4, <1>5

LEMMA PointsDeleted ==
    ASSUME LibraryTypeOK, NEW v \in Versions, DeletePoints(v)
    PROVE  /\ points' \in [Versions -> SUBSET (Texts \X BOOLEAN)] /\ points'[v] = {}
           /\ \A u \in Versions : u # v => points'[u] = points[u]
  BY DEF DeletePoints, LibraryTypeOK

LEMMA Upserted ==
    ASSUME LibraryTypeOK, NEW v \in Versions, NEW t \in Texts, UpsertPoints(v, t)
    PROVE  /\ points' \in [Versions -> SUBSET (Texts \X BOOLEAN)]
           /\ points[v] = {} => points'[v] = {<<t, FALSE>>}
           /\ \A u \in Versions : u # v => points'[u] = points[u]
  <1>1. points \in [Versions -> SUBSET (Texts \X BOOLEAN)]
    BY DEF LibraryTypeOK
  <1>2. PICK left \in SUBSET {pt \in points[v] : pt[1] # t} :
            points' = [points EXCEPT ![v] = left \cup {<<t, FALSE>>}]
    BY DEF UpsertPoints
  <1>3. left \in SUBSET points[v] /\ points[v] \in SUBSET (Texts \X BOOLEAN)
    BY <1>1, <1>2
  <1>4. <<t, FALSE>> \in Texts \X BOOLEAN
    OBVIOUS
  <1>5. left \cup {<<t, FALSE>>} \in SUBSET (Texts \X BOOLEAN)
    BY <1>3, <1>4
  <1>6. points[v] = {} => left \cup {<<t, FALSE>>} = {<<t, FALSE>>}
    BY <1>3
  <1> DEFINE now == left \cup {<<t, FALSE>>}
  <1>7. points' = [points EXCEPT ![v] = now] /\ now \in SUBSET (Texts \X BOOLEAN)
    BY <1>2, <1>5
  <1> HIDE DEF now
  <1>8. /\ points' \in [Versions -> SUBSET (Texts \X BOOLEAN)] /\ points'[v] = now
        /\ \A u \in Versions : u # v => points'[u] = points[u]
    BY <1>1, <1>7
  <1> QED BY <1>6, <1>8 DEF now

\* What the transaction of a pass does to the rows.
LEMMA RowsWritten ==
    ASSUME LibraryTypeOK, PassesHaveVersions, NEW p \in Passes, WriteRows(p)
    PROVE  LET v == pass[p].version
           IN  /\ documents' \in [Versions -> DocumentRows]
               /\ documents'[v].status = "active" /\ documents'[v].current = TRUE
               /\ documents'[v].expired = FALSE
               /\ \A u \in Versions \ {v} :
                      /\ documents'[u].current = FALSE
                      /\ documents'[u].expired = documents[u].expired
                      /\ documents[u].current \/ documents'[u].status = documents[u].status
                      /\ documents[u].current => documents'[u].status = "superseded"
  <1> DEFINE v == pass[p].version
             now == [status |-> "active", current |-> TRUE, expired |-> FALSE]
             Old(u) == [documents[u] EXCEPT !.status = "superseded", !.current = FALSE]
  <1>1. documents \in [Versions -> DocumentRows] /\ v \in Versions
    BY DEF LibraryTypeOK, WriteRows, PassesHaveVersions
  <1>2. documents' = [u \in Versions |->
                      IF u = v THEN now
                      ELSE IF u \in {x \in Versions \ {v} : documents[x].current}
                           THEN Old(u) ELSE documents[u]]
    BY DEF WriteRows
  <1>3. /\ now \in DocumentRows /\ now.status = "active" /\ now.current = TRUE
        /\ now.expired = FALSE
    BY DEF DocumentRows
  <1>4. \A u \in Versions : /\ Old(u) \in DocumentRows /\ Old(u).status = "superseded"
                            /\ Old(u).current = FALSE /\ Old(u).expired = documents[u].expired
    BY <1>1 DEF DocumentRows
  <1>5. \A u \in Versions : documents[u] \in DocumentRows /\ documents[u].current \in BOOLEAN
    BY <1>1 DEF DocumentRows
  <1> HIDE DEF now, Old
  <1>6. documents' \in [Versions -> DocumentRows]
    BY <1>1, <1>2, <1>3, <1>4, <1>5
  <1>7. documents'[v] = now
    BY <1>1, <1>2
  <1>8. ASSUME NEW u \in Versions \ {v}
        PROVE  /\ documents[u].current = FALSE => documents'[u] = documents[u]
               /\ documents[u].current = TRUE => documents'[u] = Old(u)
    BY <1>2
  <1> QED BY <1>3, <1>4, <1>5, <1>6, <1>7, <1>8

LEMMA HideMoves ==
    ASSUME LibraryTypeOK, PassesHaveVersions, NEW p \in Passes, pass[p].at = "hide",
           NEW u, pass' = [pass EXCEPT ![p].superseded = @ \ {u}]
    PROVE  /\ pass' \in [Passes -> PassStates] /\ PassesHaveVersions'
           /\ pass'[p].at = "hide" /\ pass'[p].superseded = pass[p].superseded \ {u}
           /\ pass'[p].version = pass[p].version /\ pass'[p].text = pass[p].text
           /\ \A q \in Passes : q # p => pass'[q] = pass[q]
  <1> DEFINE e == [pass[p] EXCEPT !.superseded = pass[p].superseded \ {u}]
  <1>1. pass \in [Passes -> PassStates] /\ pass[p] \in PassStates
    BY DEF LibraryTypeOK
  <1>2. pass' = [pass EXCEPT ![p] = e]
    BY <1>1
  <1>3. /\ e \in PassStates /\ e.at = "hide" /\ e.superseded = pass[p].superseded \ {u}
        /\ e.version = pass[p].version /\ e.text = pass[p].text
    BY <1>1 DEF PassStates
  <1>4. pass[p].version \in Versions /\ pass[p].text \in Texts
    BY DEF PassesHaveVersions
  <1> HIDE DEF e
  <1>5. /\ pass' \in [Passes -> PassStates] /\ PassesHaveVersions'
        /\ pass'[p] = e /\ \A q \in Passes : q # p => pass'[q] = pass[q]
    BY <1>2, <1>3, <1>4, PassMoves
  <1> QED BY <1>3, <1>5

LEMMA GraceOver ==
    ASSUME LibraryTypeOK, NEW v \in Versions, GraceEnds(v)
    PROVE  /\ documents' \in [Versions -> DocumentRows] /\ documents'[v].expired
           /\ documents'[v].status = "deleted" /\ documents'[v].current = documents[v].current
           /\ \A u \in Versions : u # v => documents'[u] = documents[u]
  <1> DEFINE e == [documents[v] EXCEPT !.expired = TRUE]
  <1>1. documents \in [Versions -> DocumentRows] /\ documents[v] \in DocumentRows
    BY DEF LibraryTypeOK
  <1>2. documents' = [documents EXCEPT ![v] = e] /\ documents[v].status = "deleted"
    BY <1>1 DEF GraceEnds
  <1>3. /\ e \in DocumentRows /\ e.expired = TRUE /\ e.status = documents[v].status
        /\ e.current = documents[v].current
    BY <1>1 DEF DocumentRows
  <1> HIDE DEF e
  <1> QED BY <1>1, <1>2, <1>3

LEMMA LibraryTypeStep ==
    ASSUME LibraryTypeOK, PassesHaveVersions, [LibraryNext]_libraryVars
    PROVE  LibraryTypeOK' /\ PassesHaveVersions'
  <1>0. /\ MaxCrashes \in Nat /\ MaxTurns \in Nat /\ crashes \in 0..MaxCrashes /\ turns \in 0..MaxTurns
        /\ env \in Environments
    BY LibraryAssumption DEF LibraryTypeOK
  <1>1. ASSUME NEW p \in Passes, NEW v \in Versions, NEW t \in Texts, Enqueue(p, v, t)
        PROVE  LibraryTypeOK' /\ PassesHaveVersions'
    <2>1. turns' \in 0..MaxTurns
      BY <1>0, <1>1 DEF Enqueue, TakesTurn
    <2>2. pass' = [pass EXCEPT ![p] = [at |-> "queued", version |-> v, text |-> t,
                                    superseded |-> {}]]
      BY <1>1 DEF Enqueue
    <2>3. pass' \in [Passes -> PassStates] /\ PassesHaveVersions'
      BY <2>2 DEF LibraryTypeOK, PassStates, PassesHaveVersions, NoPass
    <2> QED BY <1>1, <2>1, <2>3 DEF Enqueue, LibraryTypeOK
  <1>2. ASSUME NEW p \in Passes, TakeUp(p)
        PROVE  LibraryTypeOK' /\ PassesHaveVersions'
    <2>3. pass' \in [Passes -> PassStates] /\ PassesHaveVersions'
      BY <1>2 DEF TakeUp, GotoStage, LibraryTypeOK, PassStates, PassesHaveVersions, NoPass
    <2> QED BY <1>2, <2>3 DEF TakeUp, LibraryTypeOK
  <1>3. ASSUME NEW p \in Passes, PutObject(p)
        PROVE  LibraryTypeOK' /\ PassesHaveVersions'
    <2>2. pass[p].version \in Versions /\ pass[p].text \in Texts
      BY <1>3 DEF PutObject, PassesHaveVersions
    <2>3. pass' \in [Passes -> PassStates] /\ PassesHaveVersions'
      BY <1>3 DEF PutObject, GotoStage, LibraryTypeOK, PassStates, PassesHaveVersions, NoPass
    <2>4. stored' \in [Versions -> AtMostOne(Texts)]
      BY <1>3, <2>2, OneText DEF PutObject, LibraryTypeOK
    <2> QED BY <1>3, <2>3, <2>4 DEF PutObject, LibraryTypeOK
  <1>4. ASSUME NEW p \in Passes, WriteRows(p)
        PROVE  LibraryTypeOK' /\ PassesHaveVersions'
    <2> DEFINE w == pass[p].version
               old == {u \in Versions \ {w} : documents[u].current}
    <2>2. w \in Versions /\ pass[p].text \in Texts /\ old \in SUBSET Versions
      BY <1>4 DEF WriteRows, PassesHaveVersions
    <2>3. pass' = [pass EXCEPT ![p].at = "hide", ![p].superseded = old]
      BY <1>4 DEF WriteRows
    <2>4. chunks' \in [Versions -> AtMostOne(Texts)]
      BY <1>4, <2>2, OneText DEF WriteRows, LibraryTypeOK
    <2>5. documents' \in [Versions -> DocumentRows]
      BY <1>4, RowsWritten
    <2> HIDE DEF old
    <2>6. pass' \in [Passes -> PassStates] /\ PassesHaveVersions'
      <3>1. pass[p].at # "idle"
        BY <1>4 DEF WriteRows
      <3> QED BY <2>2, <2>3, <3>1, StageMoves
    <2> QED BY <1>4, <2>4, <2>5, <2>6 DEF WriteRows, LibraryTypeOK
  <1>5. ASSUME NEW p \in Passes, WriteRefused(p) \/ Embed(p)
        PROVE  LibraryTypeOK' /\ PassesHaveVersions'
    <2>1. pass' \in [Passes -> PassStates] /\ PassesHaveVersions'
      BY <1>5, StageOnly DEF WriteRefused, Embed
    <2> QED BY <1>5, <2>1 DEF WriteRefused, Embed, LibraryTypeOK
  <1>6. ASSUME NEW p \in Passes, HideSuperseded(p)
        PROVE  LibraryTypeOK' /\ PassesHaveVersions'
    <2>0. pass[p].at = "hide" /\ pass[p].superseded \in SUBSET Versions
      BY <1>6 DEF HideSuperseded, LibraryTypeOK, PassStates
    <2>1. pass' \in [Passes -> PassStates] /\ PassesHaveVersions'
      BY <1>6, <2>0, StageOnly, HideMoves DEF HideSuperseded
    <2>2. points' \in [Versions -> SUBSET (Texts \X BOOLEAN)]
      BY <1>6, <2>0, Tombstoned DEF HideSuperseded, LibraryTypeOK
    <2> QED BY <1>6, <2>1, <2>2 DEF HideSuperseded, LibraryTypeOK
  <1>7. ASSUME NEW p \in Passes, DropPoints(p)
        PROVE  LibraryTypeOK' /\ PassesHaveVersions'
    <2>1. pass' \in [Passes -> PassStates] /\ PassesHaveVersions'
      BY <1>7 DEF DropPoints, GotoStage, LibraryTypeOK, PassStates, PassesHaveVersions, NoPass
    <2>2. points' \in [Versions -> SUBSET (Texts \X BOOLEAN)]
      BY <1>7 DEF DropPoints, DeletePoints, LibraryTypeOK
    <2> QED BY <1>7, <2>1, <2>2 DEF DropPoints, LibraryTypeOK
  <1>8. ASSUME NEW p \in Passes, Upsert(p)
        PROVE  LibraryTypeOK' /\ PassesHaveVersions'
    <2>1. pass[p].version \in Versions /\ pass[p].text \in Texts
      BY <1>8 DEF Upsert, PassesHaveVersions
    <2>2. pass' \in [Passes -> PassStates] /\ PassesHaveVersions'
      BY <1>8 DEF Upsert, LibraryTypeOK, PassStates, PassesHaveVersions, NoPass
    <2>3. points' \in [Versions -> SUBSET (Texts \X BOOLEAN)]
      BY <1>8, <2>1, Upserted DEF Upsert
    <2> QED BY <1>8, <2>1, <2>2, <2>3 DEF Upsert, LibraryTypeOK
  <1>9. ASSUME NEW p \in Passes, PassFails(p) \/ GiveUpPass(p)
        PROVE  LibraryTypeOK' /\ PassesHaveVersions'
    <2>1. pass' \in [Passes -> PassStates] /\ PassesHaveVersions'
      <3>1. CASE PassFails(p)
        <4>1. /\ pass[p].at # "idle" /\ {} \in SUBSET Versions
              /\ pass' = [pass EXCEPT ![p].at = "queued", ![p].superseded = {}]
          BY <3>1 DEF PassFails
        <4> QED BY <4>1, StageMoves
      <3>2. CASE GiveUpPass(p)
        <4>1. NoPass \in PassStates /\ NoPass.at = "idle"
          BY DEF NoPass, PassStates
        <4> QED BY <3>2, <4>1, PassMoves DEF GiveUpPass
      <3> QED BY <1>9, <3>1, <3>2
    <2>2. crashes' \in 0..MaxCrashes
      BY <1>0, <1>9 DEF PassFails, GiveUpPass, Crashes
    <2> QED BY <1>9, <2>1, <2>2 DEF PassFails, GiveUpPass, LibraryTypeOK
  <1>10. ASSUME NEW v \in Versions, SoftDelete(v)
         PROVE  LibraryTypeOK' /\ PassesHaveVersions'
    <2>1. turns' \in 0..MaxTurns
      BY <1>0, <1>10 DEF SoftDelete, TakesTurn
    <2>2. documents' \in [Versions -> DocumentRows] /\ erasing' \subseteq Versions
      BY <1>10 DEF SoftDelete, LibraryTypeOK, DocumentRows
    <2> QED BY <1>10, <2>1, <2>2 DEF SoftDelete, LibraryTypeOK, PassesHaveVersions
  <1>11. ASSUME NEW v \in Versions, Erase(v)
         PROVE  LibraryTypeOK' /\ PassesHaveVersions'
    <2>1. crashes' \in 0..MaxCrashes
      BY <1>0, <1>11 DEF Erase, Crashes
    <2>2. points' \in [Versions -> SUBSET (Texts \X BOOLEAN)]
      BY <1>11, Tombstoned DEF Erase, LibraryTypeOK
    <2> QED BY <1>11, <2>1, <2>2 DEF Erase, LibraryTypeOK, PassesHaveVersions
  <1>12. ASSUME NEW v \in Versions, Cite(v) \/ Uncite(v) \/ GraceEnds(v)
         PROVE  LibraryTypeOK' /\ PassesHaveVersions'
    <2>1. turns' \in 0..MaxTurns
      BY <1>0, <1>12 DEF Cite, Uncite, GraceEnds, TakesTurn
    <2>2. documents' \in [Versions -> DocumentRows] /\ evidence' \subseteq Versions
      <3>1. CASE Cite(v) \/ Uncite(v)
        BY <3>1 DEF Cite, Uncite, LibraryTypeOK
      <3>2. CASE GraceEnds(v)
        BY <3>2, GraceOver DEF GraceEnds, LibraryTypeOK
      <3> QED BY <1>12, <3>1, <3>2
    <2> QED BY <1>12, <2>1, <2>2 DEF Cite, Uncite, GraceEnds, LibraryTypeOK, PassesHaveVersions
  <1>13. ASSUME Candidates \/ SweepVectors \/ PurgeFails
         PROVE  LibraryTypeOK' /\ PassesHaveVersions'
    <2>1. crashes' \in 0..MaxCrashes
      BY <1>0, <1>13 DEF Candidates, SweepVectors, PurgeFails, Crashes
    <2>2. points' \in [Versions -> SUBSET (Texts \X BOOLEAN)]
      BY <1>13 DEF Candidates, SweepVectors, PurgeFails, DeletePoints, LibraryTypeOK
    <2>3. sweep' \in [at: {"idle", "vectors", "rows"}, doomed: SUBSET Versions,
                  left: SUBSET Versions]
      BY <1>13 DEF Candidates, SweepVectors, PurgeFails, NoSweep, LibraryTypeOK
    <2> QED BY <1>13, <2>1, <2>2, <2>3 DEF Candidates, SweepVectors, PurgeFails, LibraryTypeOK,
            PassesHaveVersions
  <1>14. ASSUME DeleteRows
         PROVE  LibraryTypeOK' /\ PassesHaveVersions'
    <2>1. documents' \in [Versions -> DocumentRows]
      BY <1>14 DEF DeleteRows, LibraryTypeOK, DocumentRows, Absent
    <2>2. chunks' \in [Versions -> AtMostOne(Texts)]
      <3>1. {} \in AtMostOne(Texts)
        BY FS_EmptySet DEF AtMostOne
      <3> QED BY <1>14, <3>1 DEF DeleteRows, LibraryTypeOK
    <2>3. sweep' \in [at: {"idle", "vectors", "rows"}, doomed: SUBSET Versions,
                  left: SUBSET Versions]
      BY <1>14 DEF DeleteRows, NoSweep
    <2> QED BY <1>14, <2>1, <2>2, <2>3 DEF DeleteRows, LibraryTypeOK, PassesHaveVersions
  <1>15. CASE UNCHANGED libraryVars
    BY <1>15 DEF libraryVars, LibraryTypeOK, PassesHaveVersions
  <1> QED BY <1>1, <1>2, <1>3, <1>4, <1>5, <1>6, <1>7, <1>8, <1>9, <1>10, <1>11, <1>12, <1>13, <1>14,
          <1>15 DEF LibraryNext, Ingest

Swept == SweptAlone /\ SweptIsEmpty /\ WrittenIsThere /\ CurrentIsActive /\ PurgedIsGone

\* A step of a pass that leaves the rows and the points alone.
LEMMA SweptByStage ==
    ASSUME Swept, NEW p \in Passes, pass[p].at # "idle",
           UNCHANGED <<documents, chunks, points, evidence, sweep, crossed, env>>,
           \/ pass'[p].at = "idle"
           \/ /\ pass'[p].version = pass[p].version
              /\ pass'[p].at \in Written => pass[p].at \in Written,
           \A q \in Passes : q # p => pass'[q] = pass[q]
    PROVE  Swept'
  <1>1. SweptAlone'
    BY DEF Swept, SweptAlone, Written
  <1>2. SweptIsEmpty' /\ CurrentIsActive' /\ PurgedIsGone'
    BY DEF Swept, SweptIsEmpty, CurrentIsActive, PurgedIsGone
  <1>3. WrittenIsThere'
    BY DEF Swept, WrittenIsThere, Written
  <1> QED BY <1>1, <1>2, <1>3 DEF Swept

\* A step that changes the points of one version only by taking some away.
LEMMA SweptByPoints ==
    ASSUME Swept, UNCHANGED <<documents, chunks, evidence, sweep, crossed, env>>,
           NEW p \in Passes, pass[p].at # "idle",
           \/ pass'[p].at = "idle"
           \/ /\ pass'[p].version = pass[p].version
              /\ pass'[p].at \in Written => pass[p].at \in Written,
           \A q \in Passes : q # p => pass'[q] = pass[q],
           NEW v \in Versions, \A u \in Versions : u # v => points'[u] = points[u],
           \/ points[v] = {} => points'[v] = {}
           \/ pass[p].version = v /\ pass[p].at \in Written,
           sweep.doomed \subseteq Versions
    PROVE  Swept'
  <1>1. SweptAlone'
    BY DEF Swept, SweptAlone, Written
  <1>2. CurrentIsActive'
    BY DEF Swept, CurrentIsActive
  <1>3. WrittenIsThere'
    BY DEF Swept, WrittenIsThere, Written
  <1>4. PurgedIsGone'
    BY DEF Swept, WrittenIsThere, PurgedIsGone
  <1>5. SweptIsEmpty'
    BY DEF Swept, SweptIsEmpty, SweptAlone
  <1> QED BY <1>1, <1>2, <1>3, <1>4, <1>5 DEF Swept

LEMMA SweptStep ==
    ASSUME LibraryTypeOK, PassesHaveVersions, Swept, [LibraryNext]_libraryVars
    PROVE  Swept'
  <1>0. sweep.doomed \subseteq Versions /\ sweep.left \subseteq Versions
    BY DEF LibraryTypeOK
  <1>1. ASSUME NEW p \in Passes, NEW v \in Versions, NEW t \in Texts, Enqueue(p, v, t)
        PROVE  Swept'
    <2> DEFINE e == [at |-> "queued", version |-> v, text |-> t, superseded |-> {}]
    <2>1. /\ pass' = [pass EXCEPT ![p] = e]
          /\ UNCHANGED <<documents, chunks, points, evidence, sweep, crossed, env>>
      BY <1>1 DEF Enqueue
    <2>2. e \in PassStates /\ e.at = "queued" /\ e.version = v /\ e.text = t
      BY DEF PassStates
    <2> HIDE DEF e
    <2>3. pass'[p] = e /\ \A q \in Passes : q # p => pass'[q] = pass[q]
      BY <2>1, <2>2, PassMoves
    <2>4. SweptAlone'
      BY <2>1, <2>2, <2>3 DEF Swept, SweptAlone, Written
    <2>5. WrittenIsThere'
      BY <2>1, <2>2, <2>3 DEF Swept, WrittenIsThere, Written
    <2> QED BY <2>1, <2>4, <2>5 DEF Swept, SweptIsEmpty, CurrentIsActive, PurgedIsGone
  <1>2. ASSUME NEW p \in Passes, TakeUp(p) \/ PutObject(p) \/ WriteRefused(p) \/ Embed(p)
        PROVE  Swept'
    <2>1. PICK step \in {"put", "write", "queued", "upsert"} :
              GotoStage(p, step) /\ (step = "upsert" => pass[p].at = "embed")
      BY <1>2 DEF TakeUp, PutObject, WriteRefused, Embed
    <2>2. pass[p].at # "idle" /\ UNCHANGED <<documents, chunks, points, evidence, sweep, crossed, env>>
      BY <1>2 DEF TakeUp, PutObject, WriteRefused, Embed
    <2>3. /\ pass'[p].at = step /\ pass'[p].version = pass[p].version
          /\ \A q \in Passes : q # p => pass'[q] = pass[q]
      BY <2>1, <2>2, StageOnly
    <2>4. pass'[p].at \in Written => pass[p].at \in Written
      BY <2>1, <2>3 DEF Written
    <2> QED BY <2>2, <2>3, <2>4, SweptByStage
  <1>3. ASSUME NEW p \in Passes, PassFails(p) \/ GiveUpPass(p)
        PROVE  Swept'
    <2>1. pass[p].at # "idle" /\ UNCHANGED <<documents, chunks, points, evidence, sweep, crossed, env>>
      BY <1>3 DEF PassFails, GiveUpPass
    <2>2. CASE PassFails(p)
      <3>1. /\ {} \in SUBSET Versions
            /\ pass' = [pass EXCEPT ![p].at = "queued", ![p].superseded = {}]
        BY <2>2 DEF PassFails
      <3>2. /\ pass'[p].at = "queued" /\ pass'[p].version = pass[p].version
            /\ \A q \in Passes : q # p => pass'[q] = pass[q]
        BY <2>1, <3>1, StageMoves
      <3> QED BY <2>1, <3>2, SweptByStage DEF Written
    <2>3. CASE GiveUpPass(p)
      <3>1. NoPass \in PassStates /\ NoPass.at = "idle"
        BY DEF NoPass, PassStates
      <3>2. pass'[p] = NoPass /\ \A q \in Passes : q # p => pass'[q] = pass[q]
        BY <2>3, <3>1, PassMoves DEF GiveUpPass
      <3> QED BY <2>1, <3>1, <3>2, SweptByStage
    <2> QED BY <1>3, <2>2, <2>3
  <1>4. ASSUME NEW p \in Passes, WriteRows(p)
        PROVE  Swept'
    <2> DEFINE w == pass[p].version
               old == {u \in Versions \ {w} : documents[u].current}
    <2>1. /\ w \in Versions /\ pass[p].at # "idle" /\ old \in SUBSET Versions
          /\ pass' = [pass EXCEPT ![p].at = "hide", ![p].superseded = old]
          /\ chunks' = [chunks EXCEPT ![w] = {pass[p].text}]
          /\ crossed' = crossed \cup ({w} \cap sweep.doomed)
          /\ UNCHANGED <<points, evidence, sweep, env>>
      BY <1>4 DEF WriteRows, PassesHaveVersions
    <2> HIDE DEF old
    <2>2. /\ pass'[p].at = "hide" /\ pass'[p].version = w
          /\ \A q \in Passes : q # p => pass'[q] = pass[q]
      BY <2>1, StageMoves
    <2>3. /\ documents'[w].status = "active" /\ documents'[w].current = TRUE
          /\ documents'[w].expired = FALSE
          /\ \A u \in Versions \ {w} :
                 /\ documents'[u].current = FALSE
                 /\ documents'[u].expired = documents[u].expired
                 /\ documents[u].current \/ documents'[u].status = documents[u].status
                 /\ documents[u].current => documents'[u].status = "superseded"
      BY <1>4, RowsWritten
    <2>4. \A u \in Versions : documents'[u].status = "absent" => documents[u].status = "absent"
      BY <2>3
    <2>5. \A u \in Versions : documents'[u].expired => documents[u].expired
      BY <2>3
    <2> HIDE DEF w
    <2>6. SweptAlone'
      <3> SUFFICES ASSUME NEW q \in Passes, pass'[q].at \in Written
                   PROVE  /\ ~documents'[pass'[q].version].expired
                          /\ pass'[q].version \in sweep.doomed => pass'[q].version \in crossed'
        BY <2>1 DEF SweptAlone
      <3>1. CASE q = p
        BY <2>1, <2>2, <2>3, <3>1
      <3>2. CASE q # p
        <4>1. pass'[q] = pass[q] /\ pass[q].at \in Written /\ pass[q].version \in Versions
          BY <2>2, <3>2 DEF PassesHaveVersions, Written
        <4> QED BY <2>1, <2>5, <4>1 DEF Swept, SweptAlone
      <3> QED BY <3>1, <3>2
    <2>7. SweptIsEmpty'
      BY <2>1 DEF Swept, SweptIsEmpty
    <2>8. WrittenIsThere'
      <3> SUFFICES ASSUME NEW q \in Passes, pass'[q].at \in Written,
                          pass'[q].version \notin crossed'
                   PROVE  documents'[pass'[q].version].status # "absent"
        BY <2>1 DEF WrittenIsThere
      <3>1. CASE q = p
        BY <2>2, <2>3, <3>1
      <3>2. CASE q # p
        <4>1. pass'[q] = pass[q] /\ pass[q].at \in Written
          BY <2>2, <3>2
        <4>2. pass[q].version \in Versions
          BY <4>1 DEF PassesHaveVersions, Written
        <4> QED BY <2>1, <2>4, <4>1, <4>2 DEF Swept, WrittenIsThere
      <3> QED BY <3>1, <3>2
    <2>9. CurrentIsActive'
      BY <2>3 DEF CurrentIsActive
    <2>10. PurgedIsGone'
      <3>1. \A u \in Versions : chunks[u] # {} => chunks'[u] # {}
        BY <2>1 DEF LibraryTypeOK
      <3> QED BY <2>1, <2>4, <3>1 DEF Swept, PurgedIsGone
    <2> QED BY <2>6, <2>7, <2>8, <2>9, <2>10 DEF Swept
  <1>5. ASSUME NEW p \in Passes, HideSuperseded(p)
        PROVE  Swept'
    <2>1. /\ pass[p].at = "hide" /\ pass[p].superseded \in SUBSET Versions
          /\ UNCHANGED <<documents, chunks, evidence, sweep, crossed, env>>
      BY <1>5 DEF HideSuperseded, LibraryTypeOK, PassStates
    <2>2. ASSUME NEW u \in pass[p].superseded, Tombstone(u),
                 pass' = [pass EXCEPT ![p].superseded = @ \ {u}]
          PROVE  Swept'
      <3>1. /\ pass'[p].at = "hide" /\ pass'[p].version = pass[p].version
            /\ \A q \in Passes : q # p => pass'[q] = pass[q]
        BY <2>1, <2>2, HideMoves
      <3>2. /\ u \in Versions /\ points[u] = {} => points'[u] = {}
            /\ \A v \in Versions : v # u => points'[v] = points[v]
        BY <2>1, <2>2, Tombstoned
      <3> QED BY <1>0, <2>1, <3>1, <3>2, SweptByPoints
    <2>3. CASE GotoStage(p, "drop") /\ UNCHANGED points
      <3>1. /\ pass'[p].at = "drop" /\ pass'[p].version = pass[p].version
            /\ \A q \in Passes : q # p => pass'[q] = pass[q]
        BY <2>1, <2>3, StageOnly
      <3> QED BY <2>1, <2>3, <3>1, SweptByStage DEF Written
    <2> QED BY <1>5, <2>2, <2>3 DEF HideSuperseded
  <1>6. ASSUME NEW p \in Passes, DropPoints(p)
        PROVE  Swept'
    <2>1. /\ pass[p].at = "drop" /\ pass[p].version \in Versions
          /\ UNCHANGED <<documents, chunks, evidence, sweep, crossed, env>>
      BY <1>6 DEF DropPoints, PassesHaveVersions
    <2>2. /\ pass'[p].at = "embed" /\ pass'[p].version = pass[p].version
          /\ \A q \in Passes : q # p => pass'[q] = pass[q]
      BY <1>6, <2>1, StageOnly DEF DropPoints
    <2>3. /\ points'[pass[p].version] = {}
          /\ \A v \in Versions : v # pass[p].version => points'[v] = points[v]
      BY <1>6, <2>1, PointsDeleted DEF DropPoints
    <2> QED BY <1>0, <2>1, <2>2, <2>3, SweptByPoints DEF Written
  <1>7. ASSUME NEW p \in Passes, Upsert(p)
        PROVE  Swept'
    <2>1. /\ pass[p].at = "upsert" /\ pass[p].version \in Versions /\ pass[p].text \in Texts
          /\ UNCHANGED <<documents, chunks, evidence, sweep, crossed, env>>
      BY <1>7 DEF Upsert, PassesHaveVersions
    <2>2. NoPass \in PassStates /\ NoPass.at = "idle"
      BY DEF NoPass, PassStates
    <2>3. pass'[p] = NoPass /\ \A q \in Passes : q # p => pass'[q] = pass[q]
      BY <1>7, <2>2, PassMoves DEF Upsert
    <2>4. \A v \in Versions : v # pass[p].version => points'[v] = points[v]
      BY <1>7, <2>1, Upserted DEF Upsert
    <2> QED BY <1>0, <2>1, <2>2, <2>3, <2>4, SweptByPoints DEF Written
  <1>8. ASSUME NEW v \in Versions, SoftDelete(v)
        PROVE  Swept'
    <2>1. /\ documents' = [documents EXCEPT ![v] = [status |-> "deleted", current |-> FALSE,
                                              expired |-> FALSE]]
          /\ UNCHANGED <<chunks, points, evidence, pass, sweep, crossed, env>>
      BY <1>8 DEF SoftDelete
    <2>2. /\ documents'[v].status = "deleted" /\ documents'[v].current = FALSE
          /\ documents'[v].expired = FALSE
          /\ \A u \in Versions : u # v => documents'[u] = documents[u]
      BY <2>1 DEF LibraryTypeOK
    <2>3. SweptIsEmpty' /\ CurrentIsActive' /\ PurgedIsGone'
      BY <2>1, <2>2 DEF Swept, SweptIsEmpty, CurrentIsActive, PurgedIsGone
    <2>4. WrittenIsThere' /\ SweptAlone'
      BY <2>1, <2>2 DEF Swept, WrittenIsThere, SweptAlone, PassesHaveVersions, Written
    <2> QED BY <2>3, <2>4 DEF Swept
  <1>9. ASSUME NEW v \in Versions, GraceEnds(v)
        PROVE  Swept'
    <2>1. /\ \A p \in Passes : pass[p].at # "idle" => pass[p].version # v
          /\ documents[v].status = "deleted"
          /\ UNCHANGED <<chunks, points, evidence, pass, sweep, crossed, env>>
      BY <1>9 DEF GraceEnds
    <2>2. /\ documents'[v].status = "deleted" /\ documents'[v].current = documents[v].current
          /\ \A u \in Versions : u # v => documents'[u] = documents[u]
      BY <1>9, GraceOver
    <2>3. SweptIsEmpty' /\ CurrentIsActive' /\ PurgedIsGone'
      BY <2>1, <2>2 DEF Swept, SweptIsEmpty, CurrentIsActive, PurgedIsGone
    <2>4. WrittenIsThere' /\ SweptAlone'
      BY <2>1, <2>2 DEF Swept, WrittenIsThere, SweptAlone, PassesHaveVersions, Written
    <2> QED BY <2>3, <2>4 DEF Swept
  <1>10. ASSUME NEW v \in Versions, Erase(v)
         PROVE  Swept'
    <2>1. /\ UNCHANGED <<documents, chunks, evidence, pass, sweep, crossed, env>>
          /\ \A u \in Versions : points[u] = {} => points'[u] = {}
      BY <1>10, Tombstoned DEF Erase
    <2> QED BY <1>0, <2>1 DEF Swept, SweptAlone, SweptIsEmpty, WrittenIsThere, CurrentIsActive,
            PurgedIsGone
  <1>11. ASSUME NEW v \in Versions, Cite(v) \/ Uncite(v)
         PROVE  Swept'
    <2>1. /\ UNCHANGED <<documents, chunks, points, pass, sweep, crossed, env>>
          /\ \A u \in evidence' : u \in evidence \/ (u = v /\ chunks[v] # {})
      BY <1>11 DEF Cite, Uncite
    <2> QED BY <2>1 DEF Swept, SweptAlone, SweptIsEmpty, WrittenIsThere, CurrentIsActive,
            PurgedIsGone
  <1>12. CASE Candidates
    <2> DEFINE aged == {v \in Versions : documents[v].expired /\ v \notin evidence}
    <2>1. /\ sweep' = [at |-> "vectors", doomed |-> aged, left |-> aged]
          /\ UNCHANGED <<documents, chunks, points, evidence, pass, crossed, env>>
      BY <1>12 DEF Candidates
    <2>2. \A v \in aged : v \in Versions /\ documents[v].expired
      OBVIOUS
    <2> HIDE DEF aged
    <2>3. sweep'.at = "vectors" /\ sweep'.doomed = aged /\ sweep'.left = aged
      BY <2>1
    <2> QED BY <2>1, <2>2, <2>3 DEF Swept, SweptAlone, SweptIsEmpty, WrittenIsThere,
            CurrentIsActive, PurgedIsGone
  <1>13. CASE SweepVectors
    <2>1. sweep.at = "vectors" /\ UNCHANGED <<documents, chunks, evidence, pass, crossed, env>>
      BY <1>13 DEF SweepVectors
    <2>2. ASSUME NEW v \in sweep.left, DeletePoints(v), sweep' = [sweep EXCEPT !.left = @ \ {v}]
          PROVE  Swept'
      <3>1. /\ sweep'.at = "vectors" /\ sweep'.doomed = sweep.doomed
            /\ sweep'.left = sweep.left \ {v}
        BY <2>1, <2>2 DEF LibraryTypeOK
      <3>2. points'[v] = {} /\ \A u \in Versions : u # v => points'[u] = points[u]
        BY <1>0, <2>2, PointsDeleted
      <3>3. SweptIsEmpty'
        BY <1>0, <2>1, <3>1, <3>2 DEF Swept, SweptIsEmpty
      <3>4. PurgedIsGone'
        BY <2>1, <3>2 DEF Swept, PurgedIsGone
      <3> QED BY <2>1, <3>1, <3>3, <3>4 DEF Swept, SweptAlone, WrittenIsThere, CurrentIsActive
    <2>3. CASE sweep.left = {} /\ sweep' = [sweep EXCEPT !.at = "rows"] /\ UNCHANGED points
      <3>1. sweep'.at = "rows" /\ sweep'.doomed = sweep.doomed /\ sweep'.left = sweep.left
        BY <2>3 DEF LibraryTypeOK
      <3> QED BY <2>1, <2>3, <3>1 DEF Swept, SweptAlone, SweptIsEmpty, WrittenIsThere,
              CurrentIsActive, PurgedIsGone
    <2> QED BY <1>13, <2>2, <2>3 DEF SweepVectors
  <1>14. CASE DeleteRows
    <2> DEFINE dead == sweep.doomed \ evidence
    <2>1. /\ sweep.at = "rows" /\ sweep' = NoSweep /\ UNCHANGED <<points, evidence, pass, crossed, env>>
          /\ documents' = [v \in Versions |-> IF v \in dead THEN Absent ELSE documents[v]]
          /\ chunks' = [v \in Versions |-> IF v \in dead THEN {} ELSE chunks[v]]
      BY <1>14 DEF DeleteRows
    <2>2. /\ \A v \in Versions : v \in dead => documents'[v] = Absent
          /\ \A v \in Versions : v \notin dead => documents'[v] = documents[v]
                                                  /\ chunks'[v] = chunks[v]
      BY <2>1
    <2>3. /\ Absent.status = "absent" /\ Absent.current = FALSE /\ Absent.expired = FALSE
          /\ NoSweep.at = "idle" /\ NoSweep.doomed = {} /\ NoSweep.left = {}
      BY DEF Absent, NoSweep
    <2>4. /\ \A v \in dead \ crossed : points[v] = {}
          /\ dead \cap evidence = {} /\ dead \subseteq sweep.doomed
      BY <2>1 DEF Swept, SweptIsEmpty
    <2> HIDE DEF dead
    <2>5. SweptAlone'
      BY <2>1, <2>2, <2>3 DEF Swept, SweptAlone, PassesHaveVersions, Written
    <2>6. SweptIsEmpty'
      BY <2>1, <2>3 DEF SweptIsEmpty
    <2>7. CurrentIsActive'
      BY <2>2, <2>3 DEF Swept, CurrentIsActive
    <2>8. PurgedIsGone'
      BY <2>1, <2>2, <2>3, <2>4 DEF Swept, PurgedIsGone
    <2>9. WrittenIsThere'
      <3> SUFFICES ASSUME NEW q \in Passes, pass[q].at \in Written,
                          pass[q].version \notin crossed
                   PROVE  documents'[pass[q].version].status # "absent"
        BY <2>1 DEF WrittenIsThere
      <3>1. pass[q].version \in Versions /\ pass[q].at # "idle"
        BY DEF PassesHaveVersions, Written
      <3>2. pass[q].version \notin dead
        BY <2>4, <3>1 DEF Swept, SweptAlone
      <3> QED BY <2>2, <3>1, <3>2 DEF Swept, WrittenIsThere
    <2> QED BY <2>5, <2>6, <2>7, <2>8, <2>9 DEF Swept
  <1>15. CASE PurgeFails
    <2>1. sweep' = NoSweep /\ UNCHANGED <<documents, chunks, points, evidence, pass, crossed, env>>
      BY <1>15 DEF PurgeFails
    <2>2. NoSweep.at = "idle" /\ NoSweep.doomed = {} /\ NoSweep.left = {}
      BY DEF NoSweep
    <2> QED BY <2>1, <2>2 DEF Swept, SweptAlone, SweptIsEmpty, WrittenIsThere, CurrentIsActive,
            PurgedIsGone
  <1>16. CASE UNCHANGED libraryVars
    BY <1>16 DEF libraryVars, Swept, SweptAlone, SweptIsEmpty, WrittenIsThere, CurrentIsActive,
       PurgedIsGone
  <1> QED BY <1>1, <1>2, <1>3, <1>4, <1>5, <1>6, <1>7, <1>8, <1>9, <1>10, <1>11, <1>12, <1>13, <1>14,
          <1>15, <1>16 DEF LibraryNext, Ingest

Agree == OneAtATime /\ DoomedIsOld /\ WholeAgrees /\ \A p \in Passes : StageIsDone(p)

\* While a pass is under way nothing else is.
LEMMA PassAlone ==
    ASSUME PassesHaveVersions, Swept, OneAtATime, NEW p \in Passes, pass[p].at # "idle"
    PROVE  /\ erasing = {} /\ sweep.at = "idle" /\ sweep.doomed = {}
           /\ \A q \in Passes : q # p => pass[q] = NoPass
  BY DEF PassesHaveVersions, Swept, SweptIsEmpty, OneAtATime

LEMMA NothingDone ==
    ASSUME NEW p \in Passes
    PROVE  /\ pass[p] = NoPass => StageIsDone(p)
           /\ pass'[p] = NoPass => StageIsDone(p)'
  BY DEF NoPass, StageIsDone, Written, Dropped

\* A step of the one pass.
LEMMA AgreeByPass ==
    ASSUME PassesHaveVersions, Swept, Agree, NEW p \in Passes, pass[p].at # "idle",
           \A q \in Passes : q # p => pass'[q] = pass[q],
           UNCHANGED <<erasing, sweep>>, StageIsDone(p)', WholeAgrees'
    PROVE  Agree'
  <1>1. /\ erasing = {} /\ sweep.at = "idle" /\ sweep.doomed = {}
        /\ \A q \in Passes : q # p => pass[q] = NoPass
    BY PassAlone DEF Agree
  <1>2. \A q \in Passes : q # p => pass'[q] = NoPass /\ pass'[q].at = "idle"
    BY <1>1 DEF NoPass
  <1>3. OneAtATime'
    BY <1>1, <1>2 DEF OneAtATime
  <1>4. DoomedIsOld'
    BY <1>1 DEF DoomedIsOld
  <1>5. \A q \in Passes : StageIsDone(q)'
    BY <1>2, NothingDone
  <1> QED BY <1>3, <1>4, <1>5 DEF Agree

\* The stores still agree when nothing that is whole and current has changed.
LEMMA StillAgrees ==
    ASSUME LibraryTypeOK, WholeAgrees,
           \A v \in whole' : documents'[v].current =>
               /\ v \in whole /\ documents[v].current /\ points'[v] = points[v]
               /\ documents'[v].status = documents[v].status
               /\ chunks'[v] = chunks[v] /\ stored'[v] = stored[v]
    PROVE  WholeAgrees'
  <1> SUFFICES ASSUME NEW v \in whole', documents'[v].current
               PROVE  Found(v)' = Read(v)' /\ Found(v)' = stored'[v]
    BY DEF WholeAgrees
  <1>1. Found(v) = Read(v) /\ Found(v) = stored[v]
    BY DEF WholeAgrees
  <1>2. Found(v)' = Found(v) /\ Read(v)' = Read(v)
    BY DEF Found, Read
  <1> QED BY <1>1, <1>2

LEMMA AgreeStep ==
    ASSUME LibraryTypeOK, PassesHaveVersions, Swept, Agree, "overlap" \notin env,
           [LibraryNext]_libraryVars
    PROVE  Agree'
  <1>0. /\ sweep.doomed \subseteq Versions /\ sweep.left \subseteq sweep.doomed
        /\ sweep.at = "idle" => sweep.doomed = {}
        /\ WholeAgrees /\ DoomedIsOld /\ OneAtATime /\ CurrentIsActive
        /\ whole \subseteq Versions /\ \A p \in Passes : StageIsDone(p)
    BY DEF LibraryTypeOK, Swept, SweptIsEmpty, Agree
  <1>q. MayOverlap => /\ \A p \in Passes : pass[p] = NoPass /\ pass[p].at = "idle"
                      /\ erasing = {} /\ sweep.at = "idle" /\ sweep.doomed = {}
    BY <1>0 DEF MayOverlap, Quiet, PassesHaveVersions
  <1>1. ASSUME NEW p \in Passes, NEW v \in Versions, NEW t \in Texts, Enqueue(p, v, t)
        PROVE  Agree'
    <2> DEFINE e == [at |-> "queued", version |-> v, text |-> t, superseded |-> {}]
    <2>1. /\ MayOverlap /\ pass' = [pass EXCEPT ![p] = e]
          /\ UNCHANGED <<documents, chunks, stored, points, erasing, sweep, whole>>
      BY <1>1 DEF Enqueue
    <2>2. e \in PassStates /\ e.at = "queued" /\ e.version = v /\ e.text = t /\ e.superseded = {}
      BY DEF PassStates
    <2> HIDE DEF e
    <2>3. pass'[p] = e /\ \A q \in Passes : q # p => pass'[q] = pass[q]
      BY <2>1, <2>2, PassMoves
    <2>4. WholeAgrees'
      BY <1>0, <2>1, StillAgrees
    <2>5. StageIsDone(p)'
      BY <2>2, <2>3 DEF StageIsDone, Written, Dropped
    <2>6. \A q \in Passes : StageIsDone(q)'
      BY <1>q, <2>1, <2>3, <2>5, NothingDone
    <2>7. OneAtATime'
      BY <1>q, <2>1, <2>3 DEF OneAtATime
    <2> QED BY <1>0, <2>1, <2>4, <2>6, <2>7 DEF Agree, DoomedIsOld
  <1>2. ASSUME NEW p \in Passes, TakeUp(p)
        PROVE  Agree'
    <2>1. /\ pass[p].at = "queued" /\ GotoStage(p, "put") /\ whole' = whole \ {pass[p].version}
          /\ UNCHANGED <<documents, chunks, stored, points, erasing, sweep>>
      BY <1>2 DEF TakeUp
    <2>2. /\ pass'[p].at = "put" /\ pass'[p].superseded = pass[p].superseded
          /\ pass'[p].version = pass[p].version /\ pass'[p].text = pass[p].text
          /\ \A q \in Passes : q # p => pass'[q] = pass[q]
      BY <2>1, StageOnly
    <2>3. WholeAgrees'
      BY <1>0, <2>1, StillAgrees
    <2>4. StageIsDone(p)'
      BY <1>0, <2>1, <2>2 DEF StageIsDone, Written, Dropped
    <2> QED BY <2>1, <2>2, <2>3, <2>4, AgreeByPass
  <1>3. ASSUME NEW p \in Passes, PutObject(p)
        PROVE  Agree'
    <2> DEFINE w == pass[p].version
    <2>1. /\ pass[p].at = "put" /\ GotoStage(p, "write") /\ w \in Versions
          /\ stored' = [stored EXCEPT ![w] = {pass[p].text}]
          /\ UNCHANGED <<documents, chunks, points, erasing, sweep, whole>>
      BY <1>3 DEF PutObject, PassesHaveVersions
    <2>2. /\ pass'[p].at = "write" /\ pass'[p].superseded = pass[p].superseded
          /\ pass'[p].version = w /\ pass'[p].text = pass[p].text
          /\ \A q \in Passes : q # p => pass'[q] = pass[q]
      BY <2>1, StageOnly
    <2>3. stored'[w] = {pass[p].text} /\ \A u \in Versions : u # w => stored'[u] = stored[u]
      BY <2>1 DEF LibraryTypeOK
    <2>4. w \notin whole
      BY <1>0, <2>1 DEF StageIsDone
    <2>5. WholeAgrees'
      <3>1. \A u \in whole : u # w /\ u \in Versions
        BY <1>0, <2>4
      <3> HIDE DEF w
      <3> QED BY <1>0, <2>1, <2>3, <3>1, StillAgrees
    <2>6. StageIsDone(p)'
      BY <1>0, <2>1, <2>2, <2>3, <2>4 DEF StageIsDone, Written, Dropped
    <2> QED BY <2>1, <2>2, <2>5, <2>6, AgreeByPass
  <1>4. ASSUME NEW p \in Passes, WriteRows(p)
        PROVE  Agree'
    <2> DEFINE w == pass[p].version
               old == {u \in Versions \ {w} : documents[u].current}
    <2>1. /\ pass[p].at = "write" /\ w \in Versions /\ old \in SUBSET Versions
          /\ pass' = [pass EXCEPT ![p].at = "hide", ![p].superseded = old]
          /\ chunks' = [chunks EXCEPT ![w] = {pass[p].text}]
          /\ UNCHANGED <<stored, points, erasing, sweep, whole>>
      BY <1>4 DEF WriteRows, PassesHaveVersions
    <2>2. \A u \in old : u \in Versions \ {w}
      OBVIOUS
    <2> HIDE DEF old
    <2>3. /\ pass'[p].at = "hide" /\ pass'[p].superseded = old
          /\ pass'[p].version = w /\ pass'[p].text = pass[p].text
          /\ \A q \in Passes : q # p => pass'[q] = pass[q]
      BY <2>1, StageMoves
    <2>4. documents'[w].current /\ \A u \in Versions \ {w} : documents'[u].current = FALSE
      BY <1>4, RowsWritten
    <2>5. w \notin whole /\ stored[w] = {pass[p].text}
      BY <1>0, <2>1 DEF StageIsDone
    <2>6. chunks'[w] = {pass[p].text}
      BY <2>1 DEF LibraryTypeOK
    <2>7. WholeAgrees'
      <3>1. \A u \in whole' : documents'[u].current = FALSE
        BY <1>0, <2>1, <2>4, <2>5
      <3> QED BY <3>1 DEF WholeAgrees
    <2>8. StageIsDone(p)'
      <3> HIDE DEF w
      <3>1. \A u \in pass'[p].superseded : ~documents'[u].current
        BY <2>2, <2>3, <2>4
      <3>2. /\ pass'[p].version \notin whole' /\ documents'[pass'[p].version].current
            /\ stored'[pass'[p].version] = {pass'[p].text}
            /\ chunks'[pass'[p].version] = {pass'[p].text}
        BY <2>1, <2>3, <2>4, <2>5, <2>6
      <3>3. pass'[p].at \notin Dropped
        BY <2>3 DEF Dropped
      <3> QED BY <3>1, <3>2, <3>3 DEF StageIsDone
    <2> QED BY <2>1, <2>3, <2>7, <2>8, AgreeByPass
  <1>5. ASSUME NEW p \in Passes, WriteRefused(p) \/ Embed(p)
        PROVE  Agree'
    <2>1. PICK step \in {"queued", "upsert"} :
              GotoStage(p, step) /\ (step = "upsert" => pass[p].at = "embed")
      BY <1>5 DEF WriteRefused, Embed
    <2>2. /\ pass[p].at # "idle"
          /\ UNCHANGED <<documents, chunks, stored, points, erasing, sweep, whole>>
      BY <1>5 DEF WriteRefused, Embed
    <2>3. /\ pass'[p].at = step /\ pass'[p].superseded = pass[p].superseded
          /\ pass'[p].version = pass[p].version /\ pass'[p].text = pass[p].text
          /\ \A q \in Passes : q # p => pass'[q] = pass[q]
      BY <2>1, <2>2, StageOnly
    <2>4. WholeAgrees'
      BY <1>0, <2>2, StillAgrees
    <2>5. StageIsDone(p)'
      BY <1>0, <2>1, <2>2, <2>3 DEF StageIsDone, Written, Dropped
    <2> QED BY <2>2, <2>3, <2>4, <2>5, AgreeByPass
  <1>6. ASSUME NEW p \in Passes, HideSuperseded(p)
        PROVE  Agree'
    <2>1. /\ pass[p].at = "hide" /\ pass[p].superseded \in SUBSET Versions
          /\ UNCHANGED <<documents, chunks, stored, erasing, sweep, whole>>
      BY <1>6 DEF HideSuperseded, LibraryTypeOK, PassStates
    <2>2. ASSUME NEW u \in pass[p].superseded, Tombstone(u),
                 pass' = [pass EXCEPT ![p].superseded = @ \ {u}]
          PROVE  Agree'
      <3>1. /\ pass'[p].at = "hide" /\ pass'[p].superseded = pass[p].superseded \ {u}
            /\ pass'[p].version = pass[p].version /\ pass'[p].text = pass[p].text
            /\ \A q \in Passes : q # p => pass'[q] = pass[q]
        BY <2>1, <2>2, HideMoves
      <3>2. u \in Versions /\ \A v \in Versions : v # u => points'[v] = points[v]
        BY <2>1, <2>2, Tombstoned
      <3>3. ~documents[u].current
        BY <1>0 DEF StageIsDone
      <3>4. WholeAgrees'
        BY <1>0, <2>1, <3>2, <3>3, StillAgrees
      <3>5. StageIsDone(p)'
        BY <1>0, <2>1, <3>1 DEF StageIsDone, Written, Dropped
      <3> QED BY <2>1, <3>1, <3>4, <3>5, AgreeByPass
    <2>3. CASE GotoStage(p, "drop") /\ UNCHANGED points
      <3>1. /\ pass'[p].at = "drop" /\ pass'[p].superseded = pass[p].superseded
            /\ pass'[p].version = pass[p].version /\ pass'[p].text = pass[p].text
            /\ \A q \in Passes : q # p => pass'[q] = pass[q]
        BY <2>1, <2>3, StageOnly
      <3>2. WholeAgrees'
        BY <1>0, <2>1, <2>3, StillAgrees
      <3>3. StageIsDone(p)'
        BY <1>0, <2>1, <2>3, <3>1 DEF StageIsDone, Written, Dropped
      <3> QED BY <2>1, <3>1, <3>2, <3>3, AgreeByPass
    <2> QED BY <1>6, <2>2, <2>3 DEF HideSuperseded
  <1>7. ASSUME NEW p \in Passes, DropPoints(p)
        PROVE  Agree'
    <2> DEFINE w == pass[p].version
    <2>1. /\ pass[p].at = "drop" /\ w \in Versions /\ GotoStage(p, "embed") /\ DeletePoints(w)
          /\ UNCHANGED <<documents, chunks, stored, erasing, sweep, whole>>
      BY <1>7 DEF DropPoints, PassesHaveVersions
    <2>2. /\ pass'[p].at = "embed" /\ pass'[p].superseded = pass[p].superseded
          /\ pass'[p].version = w /\ pass'[p].text = pass[p].text
          /\ \A q \in Passes : q # p => pass'[q] = pass[q]
      BY <2>1, StageOnly
    <2>3. points'[w] = {} /\ \A v \in Versions : v # w => points'[v] = points[v]
      BY <2>1, PointsDeleted
    <2>4. w \notin whole
      BY <1>0, <2>1 DEF StageIsDone
    <2>5. WholeAgrees'
      <3>1. \A u \in whole : u # w /\ u \in Versions
        BY <1>0, <2>4
      <3> HIDE DEF w
      <3> QED BY <1>0, <2>1, <2>3, <3>1, StillAgrees
    <2>6. StageIsDone(p)'
      BY <1>0, <2>1, <2>2, <2>3 DEF StageIsDone, Written, Dropped
    <2> QED BY <2>1, <2>2, <2>5, <2>6, AgreeByPass
  <1>8. ASSUME NEW p \in Passes, Upsert(p)
        PROVE  Agree'
    <2>0. pass[p].version \in Versions /\ pass[p].text \in Texts
      BY <1>8 DEF Upsert, PassesHaveVersions
    <2>w. PICK w \in Versions, t \in Texts : w = pass[p].version /\ t = pass[p].text
      BY <2>0
    <2>1. /\ pass[p].at = "upsert" /\ UpsertPoints(w, t)
          /\ pass' = [pass EXCEPT ![p] = NoPass] /\ whole' = whole \cup {w}
          /\ UNCHANGED <<documents, chunks, stored, erasing, sweep>>
      BY <1>8, <2>w DEF Upsert
    <2>2. NoPass \in PassStates /\ NoPass.at = "idle"
      BY DEF NoPass, PassStates
    <2>3. pass'[p] = NoPass /\ \A q \in Passes : q # p => pass'[q] = pass[q]
      BY <2>1, <2>2, PassMoves
    <2>4. stored[w] = {t} /\ chunks[w] = {t} /\ documents[w].current /\ points[w] = {}
      BY <1>0, <2>w, <2>1 DEF StageIsDone, Written, Dropped
    <2>5. points'[w] = {<<t, FALSE>>} /\ \A v \in Versions : v # w => points'[v] = points[v]
      BY <2>1, <2>4, Upserted
    <2>6. documents[w].status = "active"
      BY <1>0, <2>1, <2>4 DEF CurrentIsActive
    <2>7. WholeAgrees'
      <3> SUFFICES ASSUME NEW v \in whole', documents'[v].current
                   PROVE  Found(v)' = Read(v)' /\ Found(v)' = stored'[v]
        BY DEF WholeAgrees
      <3>1. CASE v = w
        <4>1. Found(w)' = {t}
          <5>1. <<t, FALSE>>[1] = t /\ ~<<t, FALSE>>[2]
            OBVIOUS
          <5>2. {q \in {<<t, FALSE>>} : ~q[2]} = {<<t, FALSE>>}
            BY <5>1
          <5>3. {pt[1] : pt \in {<<t, FALSE>>}} = {t}
            BY <5>1
          <5>4. Found(w)' = {pt[1] : pt \in {q \in {<<t, FALSE>>} : ~q[2]}}
            BY <2>5 DEF Found
          <5> QED BY <5>2, <5>3, <5>4
        <4>2. Read(w)' = {t}
          BY <2>1, <2>4, <2>6 DEF Read
        <4> QED BY <2>1, <2>4, <3>1, <4>1, <4>2
      <3>2. CASE v # w
        <4>1. v \in whole /\ v \in Versions
          BY <1>0, <2>1, <3>2
        <4>2. Found(v) = Read(v) /\ Found(v) = stored[v]
          BY <1>0, <2>1, <4>1 DEF WholeAgrees
        <4>3. Found(v)' = Found(v) /\ Read(v)' = Read(v)
          BY <2>1, <2>5, <3>2, <4>1 DEF Found, Read
        <4> QED BY <2>1, <4>2, <4>3
      <3> QED BY <3>1, <3>2
    <2>8. StageIsDone(p)'
      BY <2>3, NothingDone
    <2> QED BY <2>1, <2>3, <2>7, <2>8, AgreeByPass
  <1>9. ASSUME NEW p \in Passes, PassFails(p) \/ GiveUpPass(p)
        PROVE  Agree'
    <2>1. /\ pass[p].at # "idle"
          /\ UNCHANGED <<documents, chunks, stored, points, erasing, sweep, whole>>
      BY <1>9 DEF PassFails, GiveUpPass
    <2>2. WholeAgrees'
      BY <1>0, <2>1, StillAgrees
    <2>3. CASE PassFails(p)
      <3>1. /\ {} \in SUBSET Versions
            /\ pass' = [pass EXCEPT ![p].at = "queued", ![p].superseded = {}]
        BY <2>3 DEF PassFails
      <3>2. /\ pass'[p].at = "queued" /\ pass'[p].superseded = {}
            /\ \A q \in Passes : q # p => pass'[q] = pass[q]
        BY <2>1, <3>1, StageMoves
      <3>3. StageIsDone(p)'
        BY <3>2 DEF StageIsDone, Written, Dropped
      <3> QED BY <2>1, <2>2, <3>2, <3>3, AgreeByPass
    <2>4. CASE GiveUpPass(p)
      <3>1. NoPass \in PassStates /\ NoPass.at = "idle"
        BY DEF NoPass, PassStates
      <3>2. pass'[p] = NoPass /\ \A q \in Passes : q # p => pass'[q] = pass[q]
        BY <2>4, <3>1, PassMoves DEF GiveUpPass
      <3> QED BY <2>1, <2>2, <3>2, NothingDone, AgreeByPass
    <2> QED BY <1>9, <2>3, <2>4
  <1>10. ASSUME NEW v \in Versions, SoftDelete(v)
         PROVE  Agree'
    <2>1. /\ documents' = [documents EXCEPT ![v] = [status |-> "deleted", current |-> FALSE,
                                              expired |-> FALSE]]
          /\ MayOverlap /\ erasing' = erasing \cup {v}
          /\ UNCHANGED <<chunks, stored, points, pass, sweep, whole>>
      BY <1>10 DEF SoftDelete
    <2>2. /\ documents'[v].current = FALSE
          /\ \A u \in Versions : u # v => documents'[u] = documents[u]
      BY <2>1 DEF LibraryTypeOK
    <2>3. WholeAgrees'
      BY <1>0, <2>1, <2>2, StillAgrees
    <2>4. \A q \in Passes : StageIsDone(q)'
      BY <1>q, <2>1, NothingDone
    <2>5. erasing' = {v}
      BY <1>q, <2>1
    <2>6. OneAtATime' /\ DoomedIsOld'
      BY <1>q, <2>1, <2>2, <2>5 DEF OneAtATime, DoomedIsOld
    <2> QED BY <2>3, <2>4, <2>6 DEF Agree
  <1>11. ASSUME NEW v \in Versions, Erase(v)
         PROVE  Agree'
    <2>1. /\ v \in erasing /\ erasing' = erasing \ {v}
          /\ UNCHANGED <<documents, chunks, stored, pass, sweep, whole>>
          /\ \A u \in Versions : u # v => points'[u] = points[u]
      BY <1>11, Tombstoned DEF Erase
    <2>2. ~documents[v].current /\ \A p \in Passes : pass[p].at = "idle"
      BY <1>0, <2>1 DEF DoomedIsOld, OneAtATime
    <2>3. WholeAgrees'
      BY <1>0, <2>1, <2>2, StillAgrees
    <2>4. \A q \in Passes : StageIsDone(q)'
      BY <2>1, <2>2, NothingDone DEF PassesHaveVersions
    <2>5. OneAtATime' /\ DoomedIsOld'
      BY <1>0, <2>1, <2>2 DEF OneAtATime, DoomedIsOld
    <2> QED BY <2>3, <2>4, <2>5 DEF Agree
  <1>12. ASSUME NEW v \in Versions, Cite(v) \/ Uncite(v)
         PROVE  Agree'
    <2>1. UNCHANGED <<documents, chunks, stored, points, erasing, pass, sweep, whole>>
      BY <1>12 DEF Cite, Uncite
    <2>2. WholeAgrees'
      BY <1>0, <2>1, StillAgrees
    <2> QED BY <1>0, <2>1, <2>2 DEF Agree, OneAtATime, DoomedIsOld, StageIsDone
  <1>13. ASSUME NEW v \in Versions, GraceEnds(v)
         PROVE  Agree'
    <2>1. /\ documents[v].status = "deleted"
          /\ UNCHANGED <<chunks, stored, points, erasing, pass, sweep, whole>>
      BY <1>13 DEF GraceEnds
    <2>2. \A u \in Versions : /\ documents'[u].status = documents[u].status
                              /\ documents'[u].current = documents[u].current
      BY <1>13, <2>1, GraceOver
    <2>3. WholeAgrees'
      BY <1>0, <2>1, <2>2, StillAgrees
    <2>4. erasing \subseteq Versions
          /\ \A p \in Passes : pass[p].superseded \subseteq Versions
      BY DEF LibraryTypeOK, PassStates
    <2>5. \A p \in Passes : StageIsDone(p)'
      <3> SUFFICES ASSUME NEW p \in Passes PROVE StageIsDone(p)'
        OBVIOUS
      <3>1. \A u \in pass[p].superseded : ~documents'[u].current
        BY <1>0, <2>2, <2>4 DEF StageIsDone
      <3>2. pass[p].at \in Written => documents'[pass[p].version].current
        <4>1. pass[p].at \in Written => pass[p].version \in Versions
          BY DEF PassesHaveVersions, Written
        <4> QED BY <1>0, <2>2, <4>1 DEF StageIsDone
      <3> QED BY <1>0, <2>1, <3>1, <3>2 DEF StageIsDone
    <2> QED BY <1>0, <2>1, <2>2, <2>3, <2>4, <2>5 DEF Agree, OneAtATime, DoomedIsOld
  <1>14. CASE Candidates
    <2> DEFINE aged == {v \in Versions : documents[v].expired /\ v \notin evidence}
    <2>1. /\ sweep' = [at |-> "vectors", doomed |-> aged, left |-> aged] /\ MayOverlap
          /\ UNCHANGED <<documents, chunks, stored, points, erasing, pass, whole>>
      BY <1>14 DEF Candidates
    <2>2. \A v \in aged : ~documents[v].current
      BY <1>0 DEF CurrentIsActive
    <2> HIDE DEF aged
    <2>3. sweep'.at = "vectors" /\ sweep'.doomed = aged
      BY <2>1
    <2>4. WholeAgrees'
      BY <1>0, <2>1, StillAgrees
    <2>5. \A q \in Passes : StageIsDone(q)'
      BY <1>q, <2>1, NothingDone
    <2>6. OneAtATime' /\ DoomedIsOld'
      BY <1>q, <2>1, <2>2, <2>3 DEF OneAtATime, DoomedIsOld
    <2> QED BY <2>4, <2>5, <2>6 DEF Agree
  <1>15. CASE SweepVectors \/ DeleteRows \/ PurgeFails
    <2>1. /\ sweep.at # "idle" /\ UNCHANGED <<stored, pass, erasing>>
      BY <1>15 DEF SweepVectors, DeleteRows, PurgeFails
    <2>2. erasing = {} /\ \A p \in Passes : pass[p].at = "idle" /\ pass[p] = NoPass
      BY <1>0, <2>1 DEF OneAtATime, PassesHaveVersions
    <2>3. \A q \in Passes : StageIsDone(q)'
      BY <2>1, <2>2, NothingDone
    <2>4. OneAtATime'
      BY <2>1, <2>2 DEF OneAtATime
    <2>5. CASE SweepVectors
      <3>1. /\ sweep'.doomed = sweep.doomed /\ UNCHANGED <<documents, chunks, whole>>
            /\ \A u \in Versions : u \notin sweep.doomed => points'[u] = points[u]
        <4>1. ASSUME NEW v \in sweep.left, DeletePoints(v),
                     sweep' = [sweep EXCEPT !.left = @ \ {v}]
              PROVE  /\ sweep'.doomed = sweep.doomed
                     /\ \A u \in Versions : u \notin sweep.doomed => points'[u] = points[u]
          <5>1. v \in Versions /\ v \in sweep.doomed
            BY <1>0
          <5>2. \A u \in Versions : u # v => points'[u] = points[u]
            BY <4>1, <5>1, PointsDeleted
          <5>3. sweep'.doomed = sweep.doomed
            BY <4>1 DEF LibraryTypeOK
          <5> QED BY <5>1, <5>2, <5>3
        <4>2. sweep' = [sweep EXCEPT !.at = "rows"] => sweep'.doomed = sweep.doomed
          BY DEF LibraryTypeOK
        <4> QED BY <2>5, <4>1, <4>2 DEF SweepVectors
      <3>2. WholeAgrees'
        BY <1>0, <2>1, <3>1, StillAgrees DEF DoomedIsOld
      <3> QED BY <1>0, <2>1, <2>3, <2>4, <3>1, <3>2 DEF Agree, DoomedIsOld
    <2>6. CASE DeleteRows
      <3> DEFINE dead == sweep.doomed \ evidence
      <3>1. /\ sweep' = NoSweep /\ UNCHANGED points /\ whole' = whole \ dead
            /\ documents' = [v \in Versions |-> IF v \in dead THEN Absent ELSE documents[v]]
            /\ chunks' = [v \in Versions |-> IF v \in dead THEN {} ELSE chunks[v]]
        BY <2>6 DEF DeleteRows
      <3> HIDE DEF dead
      <3>2. \A v \in whole' : /\ v \in whole /\ documents'[v] = documents[v]
                              /\ chunks'[v] = chunks[v]
        BY <1>0, <3>1
      <3>3. WholeAgrees'
        BY <1>0, <2>1, <3>1, <3>2, StillAgrees
      <3>4. DoomedIsOld'
        BY <2>1, <2>2, <3>1 DEF DoomedIsOld, NoSweep
      <3> QED BY <2>3, <2>4, <3>3, <3>4 DEF Agree
    <2>7. CASE PurgeFails
      <3>1. sweep' = NoSweep /\ UNCHANGED <<documents, chunks, points, whole>>
        BY <2>7 DEF PurgeFails
      <3>2. WholeAgrees'
        BY <1>0, <2>1, <3>1, StillAgrees
      <3>3. DoomedIsOld'
        BY <2>1, <2>2, <3>1 DEF DoomedIsOld, NoSweep
      <3> QED BY <2>3, <2>4, <3>2, <3>3 DEF Agree
    <2> QED BY <1>15, <2>5, <2>6, <2>7
  <1>16. CASE UNCHANGED libraryVars
    <2>1. UNCHANGED <<documents, chunks, stored, points, erasing, pass, sweep, whole>>
      BY <1>16 DEF libraryVars
    <2>2. WholeAgrees'
      BY <1>0, <2>1, StillAgrees
    <2> QED BY <1>0, <2>1, <2>2 DEF Agree, OneAtATime, DoomedIsOld, StageIsDone
  <1> QED BY <1>1, <1>2, <1>3, <1>4, <1>5, <1>6, <1>7, <1>8, <1>9, <1>10, <1>11, <1>12, <1>13, <1>14,
          <1>15, <1>16 DEF LibraryNext, Ingest

\* LibraryInv holds of every behaviour of Knowledge.
THEOREM LibraryInOrder == LibrarySpec => []LibraryInv
  <1>1. LibraryInit => LibraryInv
    <2> SUFFICES ASSUME LibraryInit PROVE LibraryInv
      OBVIOUS
    <2>1. {} \in AtMostOne(Texts)
      BY FS_EmptySet DEF AtMostOne
    <2>2. LibraryTypeOK
      BY <2>1, LibraryAssumption DEF LibraryInit, LibraryTypeOK, Absent, DocumentRows, NoPass,
         PassStates, NoSweep
    <2>3. PassesHaveVersions /\ SweptAlone /\ SweptIsEmpty /\ WrittenIsThere /\ CurrentIsActive
      BY DEF LibraryInit, PassesHaveVersions, SweptAlone, SweptIsEmpty, WrittenIsThere,
         CurrentIsActive, NoPass, NoSweep, Absent, Written
    <2>4. PurgedIsGone
      BY DEF LibraryInit, PurgedIsGone
    <2>5. OneAtATime /\ DoomedIsOld /\ WholeAgrees
      BY DEF LibraryInit, OneAtATime, DoomedIsOld, WholeAgrees, NoPass, NoSweep
    <2>6. \A p \in Passes : StageIsDone(p)
      BY NothingDone DEF LibraryInit
    <2> QED BY <2>2, <2>3, <2>4, <2>5, <2>6 DEF LibraryInv
  <1>2. LibraryInv /\ [LibraryNext]_libraryVars => LibraryInv'
    <2> SUFFICES ASSUME LibraryInv, [LibraryNext]_libraryVars PROVE LibraryInv'
      OBVIOUS
    <2>1. LibraryTypeOK /\ PassesHaveVersions /\ Swept
      BY DEF LibraryInv, Swept
    <2>2. LibraryTypeOK' /\ PassesHaveVersions' /\ Swept'
      BY <2>1, LibraryTypeStep, SweptStep
    <2>3. env' = env
      BY DEF LibraryNext, Ingest, Enqueue, TakeUp, PutObject, WriteRows, WriteRefused,
         HideSuperseded, DropPoints, Embed, Upsert, PassFails, GiveUpPass, SoftDelete, Erase, Cite,
         Uncite, GraceEnds, Candidates, SweepVectors, DeleteRows, PurgeFails, libraryVars
    <2>4. "overlap" \notin env' => Agree'
      BY <2>1, <2>3, AgreeStep DEF LibraryInv, Agree
    <2> QED BY <2>2, <2>4 DEF LibraryInv, Swept, Agree
  <1> QED BY <1>1, <1>2, PTL DEF LibrarySpec

\* Whatever attempt of an ingest dies between the transaction and the calls of
\* the index, search and a full read agree about every version whose last job
\* succeeded (ingest_document, soft_delete_document, purge).
THEOREM StoresKeepAgreeing == LibrarySpec => []StoresAgree
  <1>1. LibraryInv => StoresAgree
    BY DEF LibraryInv, StoresAgree, WholeAgrees
  <1> QED BY <1>1, LibraryInOrder, PTL

\* The sweep that drops points first and rows second leaves no point of a row
\* that is gone, and no citation of one (SqlKnowledgeRetention.purge).
THEOREM PurgeIsComplete == LibrarySpec => []PurgedIsGone
  <1>1. LibraryInv => PurgedIsGone
    BY DEF LibraryInv
  <1> QED BY <1>1, LibraryInOrder, PTL

-----------------------------------------------------------------------------
(* Compaction: the summary stands for what is gone.                           *)

\* A set of naturals that is not empty and has a bound has a greatest element.
LEMMA MaxOfBounded ==
    ASSUME NEW a \in Nat, NEW b \in Nat, NEW S \in SUBSET (a..b), S # {}
    PROVE  Max(S) \in S
  <1> DEFINE T == {n \in Nat : \E x \in S : n = b - x}
  <1>1. T \subseteq Nat /\ T # {}
    <2>1. PICK x \in S : TRUE
      OBVIOUS
    <2>2. b - x \in Nat
      OBVIOUS
    <2> QED BY <2>2
  <1>2. PICK m \in T : \A y \in T : ~(<<y, m>> \in OpToRel(<, Nat))
    BY <1>1, WFMin, NatLessThanWellFounded
  <1>3. \A y \in T : ~(y < m)
    BY <1>1, <1>2 DEF OpToRel
  <1>4. PICK x \in S : m = b - x
    OBVIOUS
  <1>5. \A y \in S : x >= y
    <2> SUFFICES ASSUME NEW y \in S PROVE x >= y
      OBVIOUS
    <2>1. x \in Nat /\ y \in Nat /\ b - y \in Nat
      OBVIOUS
    <2>2. b - y \in T
      BY <2>1
    <2>3. ~(b - y < b - x)
      BY <1>3, <1>4, <2>2
    <2> QED BY <2>1, <2>3
  <1> QED BY <1>5 DEF Max

LEMMA EndsOfInterval ==
    ASSUME NEW a \in Nat, NEW b \in Nat, a <= b
    PROVE  Max(a..b) = b /\ Min(a..b) = a
  <1>1. b \in a..b /\ \A y \in a..b : b >= y
    OBVIOUS
  <1>2. a \in a..b /\ \A y \in a..b : a =< y
    OBVIOUS
  <1>3. Max(a..b) \in a..b /\ \A y \in a..b : Max(a..b) >= y
    BY <1>1 DEF Max
  <1>4. Min(a..b) \in a..b /\ \A y \in a..b : Min(a..b) =< y
    BY <1>2 DEF Min
  <1>5. Max(a..b) >= b /\ Min(a..b) =< a
    BY <1>1, <1>2, <1>3, <1>4
  <1> QED BY <1>3, <1>4, <1>5

\* A message is added to the thread.
LEMMA Appended ==
    ASSUME ThreadInOrder, NEW kind \in {"person", "answer", "call", "result"},
           NEW size \in Sizes \cup {1}, Says(kind, size)
    PROVE  /\ said' \in Seq([kind: {"person", "answer", "call", "result"}, size: Sizes \cup {1}])
           /\ Len(said') = Len(said) + 1 /\ Len(said) \in Nat /\ said' # << >>
           /\ \A i \in 1..Len(said) : IsResult(i)' <=> IsResult(i)
           /\ \A i \in Nat : i = Len(said) + 1 => (IsResult(i)' <=> kind = "result")
  <1> DEFINE m == [kind |-> kind, size |-> size]
             M == [kind: {"person", "answer", "call", "result"}, size: Sizes \cup {1}]
  <1>1. said \in Seq(M) /\ m \in M /\ m.kind = kind /\ said' = Append(said, m)
    BY DEF ThreadInOrder, Says
  <1> HIDE DEF M, m
  <1>2. /\ said' \in Seq(M) /\ Len(said') = Len(said) + 1 /\ Len(said) \in Nat
        /\ DOMAIN said = 1..Len(said) /\ DOMAIN said' = 1..(Len(said) + 1)
        /\ \A i \in 1..Len(said) : said'[i] = said[i]
        /\ said'[Len(said) + 1] = m
    BY <1>1
  <1>3. \A i \in 1..Len(said) : i \in DOMAIN said /\ i \in DOMAIN said'
    BY <1>2
  <1>4. \A i \in 1..Len(said) : IsResult(i)' <=> IsResult(i)
    BY <1>2, <1>3 DEF IsResult
  <1>5. Len(said) + 1 \in DOMAIN said'
    BY <1>2
  <1>6. said'[Len(said) + 1].kind = kind
    BY <1>1, <1>2
  <1>7. \A i \in Nat : i = Len(said) + 1 => (IsResult(i)' <=> kind = "result")
    BY <1>5, <1>6 DEF IsResult
  <1>8. said' # << >>
    BY <1>2
  <1> QED BY <1>2, <1>4, <1>7, <1>8 DEF M

\* Outside of a fold a message may be said.
LEMMA SaidOutside ==
    ASSUME FoldInv, NEW kind \in {"person", "answer", "call", "result"},
           NEW size \in Sizes \cup {1}, Says(kind, size),
           kind = "result" => said # << >>,
           phase' \in {"person", "hook", "tools"}, UNCHANGED <<cut, summary, work, asked, removals>>
    PROVE  FoldInv'
  <1>1. ThreadInOrder /\ SummaryCovers /\ WorkCovers /\ RequestFits /\ cut \in Nat
    BY DEF FoldInv, ThreadInOrder
  <1>2. /\ said' \in Seq([kind: {"person", "answer", "call", "result"}, size: Sizes \cup {1}])
        /\ Len(said') = Len(said) + 1 /\ Len(said) \in Nat /\ said' # << >>
        /\ \A i \in 1..Len(said) : IsResult(i)' <=> IsResult(i)
        /\ \A i \in Nat : i = Len(said) + 1 => (IsResult(i)' <=> kind = "result")
    BY <1>1, Appended
  <1>3. said # << >> => Len(said) >= 1
    BY <1>1, <1>2 DEF ThreadInOrder
  <1>4. ~IsResult(1)'
    <2>1. CASE said = << >>
      <3>1. 1 = Len(said) + 1
        BY <2>1
      <3> QED BY <1>2, <2>1, <3>1
    <2>2. CASE said # << >>
      <3>1. 1 \in 1..Len(said)
        BY <1>2, <1>3, <2>2
      <3> QED BY <1>1, <1>2, <3>1 DEF ThreadInOrder
    <2> QED BY <2>1, <2>2
  <1>5. ~IsResult(cut + 1)'
    <2>1. CASE cut = 0
      BY <1>4, <2>1
    <2>2. CASE cut # 0
      <3>1. PICK k \in Nat : k = cut + 1
        BY <1>1
      <3>2. k \in 1..Len(said)
        BY <1>1, <1>2, <2>2, <3>1 DEF ThreadInOrder
      <3>3. ~IsResult(k)
        BY <1>1, <3>1 DEF ThreadInOrder
      <3>4. ~IsResult(k)'
        BY <1>2, <3>2, <3>3
      <3> QED BY <3>1, <3>4
    <2> QED BY <2>1, <2>2
  <1>6. cut' \in Nat /\ (cut' = 0 \/ cut' < Len(said'))
    BY <1>1, <1>2 DEF ThreadInOrder
  <1>7. ThreadInOrder'
    BY <1>2, <1>4, <1>5, <1>6 DEF ThreadInOrder
  <1>8. SummaryCovers' /\ WorkCovers'
    BY <1>1 DEF SummaryCovers, WorkCovers, Folding
  <1>9. RequestFits'
    <2> SUFFICES ASSUME asked.of # {}
                 PROVE  /\ asked.size <= Budget
                        /\ \E a, b \in 1..Len(said') :
                               a <= b /\ asked.of = a..b /\ ~IsResult(a)'
      BY DEF RequestFits
    <2>1. PICK a \in 1..Len(said), b \in 1..Len(said) :
              a <= b /\ asked.of = a..b /\ ~IsResult(a)
      BY <1>1 DEF RequestFits
    <2>2. a \in 1..Len(said') /\ b \in 1..Len(said') /\ ~IsResult(a)'
      BY <1>2, <2>1
    <2> QED BY <1>1, <2>1, <2>2 DEF RequestFits
  <1> QED BY <1>7, <1>8, <1>9 DEF FoldInv

\* A step that keeps the thread, and the fold if it is still one.
LEMMA ThreadKept ==
    ASSUME FoldInv, UNCHANGED <<said, cut, summary>>, removals \subseteq removals',
           phase' \in {"person", "hook", "chunk", "ask", "record", "apply", "model", "tools",
                       "stopped"},
           said # << >>, WorkCovers', RequestFits'
    PROVE  FoldInv'
  <1>1. ThreadInOrder'
    BY DEF FoldInv, ThreadInOrder, IsResult
  <1>2. SummaryCovers'
    BY DEF FoldInv, SummaryCovers
  <1> QED BY <1>1, <1>2 DEF FoldInv

\* The fold is over, or not begun: the history stays as it was.
LEMMA FoldOver ==
    ASSUME FoldInv, UNCHANGED <<said, cut, summary, asked, removals>>, said # << >>,
           phase' \in {"person", "model", "stopped"}
    PROVE  FoldInv'
  <1>1. WorkCovers'
    BY DEF WorkCovers, Folding
  <1>2. RequestFits'
    BY DEF FoldInv, RequestFits, IsResult
  <1> QED BY <1>1, <1>2, ThreadKept

LEMMA FoldStep == FoldInv /\ [FoldNext]_foldVars => FoldInv'
  <1> SUFFICES ASSUME FoldInv, [FoldNext]_foldVars PROVE FoldInv'
    OBVIOUS
  <1>0. /\ ThreadInOrder /\ SummaryCovers /\ WorkCovers /\ RequestFits /\ cut \in Nat
        /\ Len(said) \in Nat /\ (phase # "person" => said # << >>)
    BY DEF FoldInv, ThreadInOrder
  <1>1. CASE PersonAsks
    BY <1>1, SaidOutside DEF PersonAsks
  <1>2. CASE ModelAnswers
    <2>1. phase = "model" /\ UNCHANGED <<cut, summary, work, asked, removals>>
      BY <1>2 DEF ModelAnswers
    <2>2. CASE Says("answer", 1) /\ phase' = "person"
      BY <2>1, <2>2, SaidOutside
    <2>3. CASE Says("call", 1) /\ phase' = "tools"
      BY <2>1, <2>3, SaidOutside
    <2>4. CASE phase' = "stopped" /\ UNCHANGED said
      BY <1>0, <2>1, <2>4, FoldOver
    <2> QED BY <1>2, <2>2, <2>3, <2>4 DEF ModelAnswers
  <1>3. ASSUME NEW n \in Sizes, Result(n) PROVE FoldInv'
    <2>1. /\ phase = "tools" /\ Says("result", n) /\ phase' \in {"tools", "hook"}
          /\ UNCHANGED <<cut, summary, work, asked, removals>>
      BY <1>3 DEF Result
    <2> QED BY <1>0, <2>1, SaidOutside
  <1>4. CASE TooShort
    BY <1>0, <1>4, FoldOver DEF TooShort
  <1>5. ASSUME NEW k \in (cut + 1)..(Len(said) - 1), BeginFold(k) PROVE FoldInv'
    <2>1. /\ phase = "hook" /\ ~IsResult(k + 1) /\ UNCHANGED <<said, cut, summary, asked, removals>>
          /\ \/ phase' = "model"
             \/ phase' = "chunk" /\ work' = [anchor |-> summary, next |-> cut + 1, to |-> k]
      BY <1>5 DEF BeginFold
    <2>2. CASE phase' = "model"
      BY <1>0, <2>1, <2>2, FoldOver
    <2>3. CASE phase' = "chunk" /\ work' = [anchor |-> summary, next |-> cut + 1, to |-> k]
      <3>1. /\ work'.anchor = summary /\ work'.next = cut + 1 /\ work'.to = k
        BY <2>3
      <3>2. /\ k \in Nat /\ cut + 1 \in Nat /\ cut < k /\ k < Len(said) /\ (cut + 1) - 1 = cut
            /\ 1 <= cut + 1 /\ cut + 1 <= k + 1 /\ cut + 1 <= k
        BY <1>0
      <3>3. work' \in [anchor: Summaries, next: Nat, to: Nat]
        BY <1>0, <2>3, <3>2 DEF SummaryCovers
      <3>4. ~IsResult(work.to + 1)' /\ ~IsResult(work.next)'
        BY <1>0, <2>1, <3>1 DEF IsResult, ThreadInOrder
      <3>5. work'.anchor.of \cup work'.anchor.lost = 1..(work'.next - 1)
        BY <1>0, <3>1, <3>2 DEF SummaryCovers
      <3>6. WorkCovers'
        BY <2>1, <2>3, <3>1, <3>2, <3>3, <3>4, <3>5 DEF WorkCovers
      <3>7. RequestFits'
        BY <1>0, <2>1, <2>3 DEF RequestFits, IsResult
      <3> QED BY <1>0, <2>1, <2>3, <3>6, <3>7, ThreadKept
    <2> QED BY <2>1, <2>2, <2>3
  <1>6. CASE Chunk
    <2> DEFINE fits == {j \in UnitEnds(work.next, work.to) :
                            Rendered(work.anchor) + TokensOf(work.next..j) <= Budget}
    <2>1. /\ phase = "chunk" /\ UNCHANGED <<said, cut, summary, work, removals>>
          /\ phase' \in {"model", "stopped", "ask"}
          /\ phase' = "ask" => fits # {}
          /\ asked' = IF phase' # "ask" THEN asked
                      ELSE [of |-> work.next..Max(fits),
                            size |-> Rendered(work.anchor) + TokensOf(work.next..Max(fits))]
      BY <1>6 DEF Chunk
    <2>2. CASE phase' # "ask"
      BY <1>0, <2>1, <2>2, FoldOver
    <2>3. CASE phase' = "ask"
      <3>1. /\ work.next \in Nat /\ work.to \in Nat /\ work.next <= work.to /\ 1 <= work.next
            /\ ~IsResult(work.next) /\ ~IsResult(work.to + 1) /\ work.to < Len(said)
        BY <1>0, <2>1 DEF WorkCovers, Folding
      <3>2. fits \in SUBSET (work.next..work.to) /\ fits # {}
        BY <2>1, <2>3 DEF UnitEnds
      <3>3. Max(fits) \in fits
        <4> HIDE DEF fits
        <4> QED BY <3>1, <3>2, MaxOfBounded
      <3>4. PICK b \in work.next..work.to :
                /\ b = Max(fits) /\ (b = work.to \/ ~IsResult(b + 1))
                /\ Rendered(work.anchor) + TokensOf(work.next..b) <= Budget
        BY <3>3 DEF UnitEnds
      <3>5. asked' = [of |-> work.next..b,
                      size |-> Rendered(work.anchor) + TokensOf(work.next..b)]
        BY <2>1, <2>3, <3>4
      <3>6. asked'.of = work.next..b /\ asked'.size <= Budget
        BY <3>4, <3>5
      <3>7. ~IsResult(b + 1)
        BY <3>1, <3>4
      <3>8. WorkCovers'
        BY <1>0, <2>1, <2>3 DEF WorkCovers, Folding, IsResult
      <3>9. work.next \in 1..Len(said) /\ b \in 1..Len(said) /\ work.next <= b
        BY <1>0, <3>1, <3>4
      <3>10. RequestFits'
        <4>1. PICK a \in 1..Len(said) : a = work.next
          BY <3>9
        <4>2. ~IsResult(a)' /\ ~IsResult(b + 1)'
          BY <2>1, <3>1, <3>7, <4>1 DEF IsResult
        <4>3. asked'.of = a..b /\ a <= b /\ a \in 1..Len(said') /\ b \in 1..Len(said')
          BY <2>1, <3>6, <3>9, <4>1
        <4>4. b \in work'.next..work'.to /\ asked'.of = work'.next..b
          BY <2>1, <3>4, <3>6
        <4> QED BY <3>6, <4>2, <4>3, <4>4 DEF RequestFits
      <3> QED BY <1>0, <2>1, <2>3, <3>8, <3>10, ThreadKept
    <2> QED BY <2>2, <2>3
  <1>7. ASSUME NEW n \in SummarySizes \cup {0}, Summarised(n) PROVE FoldInv'
    <2>1. /\ phase = "ask" /\ UNCHANGED <<said, cut, summary, asked, removals>>
          /\ work' = [work EXCEPT !.anchor = Folded(n), !.next = Max(asked.of) + 1]
          /\ phase' = IF work'.next > work.to THEN "record" ELSE "chunk"
      BY <1>7 DEF Summarised
    <2>2. /\ work \in [anchor: Summaries, next: Nat, to: Nat]
          /\ work.next \in Nat /\ work.to \in Nat /\ work.next <= work.to /\ 1 <= work.next
          /\ cut < work.to /\ work.to < Len(said) /\ ~IsResult(work.to + 1)
          /\ work.anchor.of \cup work.anchor.lost = 1..(work.next - 1)
      BY <1>0, <2>1 DEF WorkCovers, Folding
    <2>3. PICK b \in work.next..work.to : asked.of = work.next..b /\ ~IsResult(b + 1)
      BY <1>0, <2>1 DEF RequestFits
    <2>4. b \in Nat /\ work.next <= b /\ b <= work.to
      BY <2>2, <2>3
    <2>5. Max(asked.of) = b
      BY <2>2, <2>3, <2>4, EndsOfInterval
    <2>6. Folded(n) \in Summaries /\ Folded(n).of \cup Folded(n).lost = 1..b
      <3> DEFINE all == work.anchor.of \cup asked.of
      <3>1. /\ work.anchor.of \in SUBSET Nat /\ work.anchor.lost \in SUBSET Nat
            /\ asked.of \in SUBSET Nat
        BY <2>2, <2>3 DEF Summaries
      <3>2. 1..b = (1..(work.next - 1)) \cup (work.next..b)
        BY <2>2, <2>4
      <3>3. work.anchor.lost \cup all = 1..b
        BY <2>2, <2>3, <3>2
      <3>4. CASE n = 0
        <4>1. Folded(n) = [of |-> {}, lost |-> work.anchor.lost \cup all, size |-> 0]
          BY <3>4 DEF Folded
        <4> HIDE DEF all
        <4>2. Folded(n).of = {} /\ Folded(n).lost = work.anchor.lost \cup all /\ Folded(n).size = 0
          BY <4>1
        <4>3. Folded(n) \in Summaries
          BY <3>1, <4>1 DEF Summaries, all
        <4> QED BY <3>3, <4>2, <4>3
      <3>5. CASE n # 0
        <4>1. Folded(n) = [of |-> all, lost |-> work.anchor.lost, size |-> n]
          BY <3>5 DEF Folded
        <4> HIDE DEF all
        <4>2. Folded(n).of = all /\ Folded(n).lost = work.anchor.lost
          BY <4>1
        <4>3. Folded(n) \in Summaries
          BY <3>1, <4>1 DEF Summaries, all
        <4> QED BY <3>3, <4>2, <4>3
      <3> QED BY <3>4, <3>5
    <2>7. PICK f \in Summaries : f = Folded(n) /\ f.of \cup f.lost = 1..b
      BY <2>6
    <2>8. /\ work' = [work EXCEPT !.anchor = f, !.next = b + 1]
      BY <2>1, <2>5, <2>7
    <2>9. /\ work'.anchor = f /\ work'.next = b + 1 /\ work'.to = work.to
          /\ work' \in [anchor: Summaries, next: Nat, to: Nat]
      <3>1. PICK c \in Nat : c = b + 1
        BY <2>4
      <3>2. work' = [work EXCEPT !.anchor = f, !.next = c]
        BY <2>8, <3>1
      <3>3. /\ work'.anchor = f /\ work'.next = c /\ work'.to = work.to
            /\ work' \in [anchor: Summaries, next: Nat, to: Nat]
        BY <2>2, <3>2
      <3> QED BY <3>1, <3>3
    <2>10. (b + 1) - 1 = b /\ 1 <= b + 1 /\ b + 1 <= work.to + 1
      BY <2>2, <2>4
    <2>11. /\ phase' \in {"record", "chunk"}
           /\ phase' = "record" => b + 1 = work.to + 1
           /\ phase' = "chunk" => b + 1 <= work.to
      BY <2>1, <2>2, <2>4, <2>9
    <2>12. ~IsResult(work.to + 1)' /\ ~IsResult(work.next)'
      BY <2>1, <2>2, <2>3, <2>9 DEF IsResult
    <2>13. WorkCovers'
      BY <2>1, <2>2, <2>7, <2>9, <2>10, <2>11, <2>12 DEF WorkCovers
    <2>14. RequestFits'
      BY <1>0, <2>1, <2>11 DEF RequestFits, IsResult
    <2> QED BY <1>0, <2>1, <2>11, <2>13, <2>14, ThreadKept
  <1>8. CASE SummaryFails \/ CallerLeaves
    BY <1>0, <1>8, FoldOver DEF SummaryFails, CallerLeaves
  <1>9. CASE RecordRemoval
    <2>1. phase = "record" /\ UNCHANGED <<said, cut, summary, work, asked>>
      BY <1>9 DEF RecordRemoval
    <2>2. CASE removals' = removals \cup (cut + 1)..work.to /\ phase' = "apply"
      <3>1. 1..work.to \subseteq removals'
        <4>1. work.to \in Nat /\ cut < work.to
          BY <1>0, <2>1 DEF WorkCovers, Folding
        <4>2. 1..work.to = (1..cut) \cup ((cut + 1)..work.to)
          BY <1>0, <4>1
        <4> QED BY <1>0, <2>2, <4>2 DEF SummaryCovers
      <3>2. WorkCovers'
        BY <1>0, <2>1, <2>2, <3>1 DEF WorkCovers, Folding, IsResult
      <3>3. RequestFits'
        BY <1>0, <2>1, <2>2 DEF RequestFits, IsResult
      <3> QED BY <1>0, <2>1, <2>2, <3>2, <3>3, ThreadKept
    <2>3. CASE phase' = "model" /\ UNCHANGED removals
      BY <1>0, <2>1, <2>3, FoldOver
    <2> QED BY <1>9, <2>2, <2>3 DEF RecordRemoval
  <1>10. CASE Apply
    <2>1. /\ phase = "apply" /\ cut' = work.to /\ summary' = work.anchor /\ phase' = "model"
          /\ UNCHANGED <<said, work, asked, removals>>
      BY <1>10 DEF Apply
    <2>2. /\ work.to \in Nat /\ work.to < Len(said) /\ ~IsResult(work.to + 1)
          /\ work.anchor \in Summaries /\ 1..work.to \subseteq removals
          /\ work.anchor.of \cup work.anchor.lost = 1..(work.next - 1)
          /\ work.next = work.to + 1
      BY <1>0, <2>1 DEF WorkCovers, Folding
    <2>3. ~IsResult(cut + 1)' /\ ~IsResult(1)'
      BY <1>0, <2>1, <2>2 DEF IsResult, ThreadInOrder
    <2>4. ThreadInOrder'
      BY <1>0, <2>1, <2>2, <2>3 DEF ThreadInOrder
    <2>5. SummaryCovers'
      <3>1. work.next - 1 = work.to
        BY <2>2
      <3> QED BY <2>1, <2>2, <3>1 DEF SummaryCovers
    <2>6. WorkCovers' /\ RequestFits'
      BY <1>0, <2>1 DEF WorkCovers, Folding, RequestFits, IsResult
    <2> QED BY <2>4, <2>5, <2>6 DEF FoldInv
  <1>11. CASE UNCHANGED foldVars
    BY <1>0, <1>11 DEF foldVars, FoldInv, ThreadInOrder, SummaryCovers, WorkCovers, RequestFits,
       IsResult
  <1> QED BY <1>1, <1>2, <1>3, <1>4, <1>5, <1>6, <1>7, <1>8, <1>9, <1>10, <1>11 DEF FoldNext

\* FoldInv holds of every behaviour of Compaction.
THEOREM FoldsInOrder == FoldSpec => []FoldInv
  <1>1. FoldInit => FoldInv
    <2> SUFFICES ASSUME FoldInit PROVE FoldInv
      OBVIOUS
    <2>1. /\ said = << >> /\ cut = 0 /\ summary = NoSummary /\ phase = "person"
          /\ asked = NoRequest /\ removals = {}
      BY DEF FoldInit
    <2>2. said \in Seq([kind: {"person", "answer", "call", "result"}, size: Sizes \cup {1}])
      BY <2>1
    <2>3. DOMAIN said = {}
      BY <2>1
    <2>4. ThreadInOrder
      BY <2>1, <2>2, <2>3 DEF ThreadInOrder, IsResult
    <2>5. NoSummary \in Summaries /\ NoSummary.of = {} /\ NoSummary.lost = {}
      BY DEF NoSummary, Summaries
    <2>6. SummaryCovers
      BY <2>1, <2>5 DEF SummaryCovers
    <2>7. WorkCovers /\ RequestFits
      BY <2>1 DEF WorkCovers, RequestFits, Folding, NoRequest
    <2> QED BY <2>4, <2>6, <2>7 DEF FoldInv
  <1> QED BY <1>1, FoldStep, PTL DEF FoldSpec

\* However often a thread is compacted and whatever fails on the way, the
\* summary stands for all that is gone, on the audit trail, and no call is kept
\* apart from its results (abefore_model, _units, _anchor_and_rest).
THEOREM NothingForgotten == FoldSpec => []SummaryIsWhole
  <1>1. FoldInv => SummaryIsWhole
    <2> SUFFICES ASSUME FoldInv PROVE SummaryIsWhole
      OBVIOUS
    <2>1. ASSUME asked.of # {} PROVE ~IsResult(Min(asked.of)) /\ asked.size <= Budget
      <3>1. PICK a \in 1..Len(said), b \in 1..Len(said) :
                a <= b /\ asked.of = a..b /\ ~IsResult(a)
        BY <2>1 DEF FoldInv, RequestFits
      <3>2. Min(asked.of) = a
        BY <3>1, EndsOfInterval
      <3> QED BY <2>1, <3>1, <3>2 DEF FoldInv, RequestFits
    <2>2. ASSUME phase = "ask" PROVE ~IsResult(Max(asked.of) + 1)
      <3>1. PICK b \in work.next..work.to : asked.of = work.next..b /\ ~IsResult(b + 1)
        BY <2>2 DEF FoldInv, RequestFits
      <3>2. work.next \in Nat /\ work.to \in Nat
        BY <2>2 DEF FoldInv, WorkCovers, Folding
      <3>3. b \in Nat /\ work.next <= b
        BY <3>1, <3>2
      <3>4. Max(asked.of) = b
        BY <3>1, <3>2, <3>3, EndsOfInterval
      <3> QED BY <3>1, <3>4
    <2> QED BY <2>1, <2>2 DEF SummaryIsWhole, FoldInv, SummaryCovers, ThreadInOrder
  <1> QED BY <1>1, FoldsInOrder, PTL

\* What a step does to the thread and to the work on it.
LEMMA FoldSteps ==
    ASSUME FoldInv, [FoldNext]_foldVars
    PROVE  /\ \/ UNCHANGED said
              \/ phase \in {"person", "stopped"} /\ Len(said) < MaxSaid /\ Says("person", 1)
              \/ phase = "model" /\ Len(said) < MaxSaid /\ (Says("answer", 1) \/ Says("call", 1))
              \/ \E n \in Sizes : Result(n)
           /\ UNCHANGED work \/ phase' \in Folding
           /\ UNCHANGED removals \/ (phase = "record" /\ removals' = removals \cup (cut + 1)..work.to)
           /\ UNCHANGED strikes \/ Stumbles
           /\ \/ UNCHANGED charged \/ charged' = 0
              \/ charged < FoldCeiling /\ charged' = charged + 1
              \/ phase = "ask" /\ charged' = charged + 1
  <1>1. CASE PersonAsks
    BY <1>1 DEF PersonAsks
  <1>2. CASE ModelAnswers
    BY <1>2 DEF ModelAnswers
  <1>3. ASSUME NEW n \in Sizes, Result(n)
        PROVE  UNCHANGED <<work, removals, strikes, charged>>
    BY <1>3 DEF Result
  <1>4. CASE TooShort \/ SummaryFails \/ CallerLeaves
    BY <1>4 DEF TooShort, SummaryFails, CallerLeaves
  <1>5. ASSUME NEW k \in (cut + 1)..(Len(said) - 1), BeginFold(k)
        PROVE  /\ UNCHANGED <<said, removals, strikes, charged>>
               /\ UNCHANGED work \/ phase' \in Folding
    BY <1>5 DEF BeginFold, Folding
  <1>6. CASE Chunk
    BY <1>6 DEF Chunk
  <1>7. ASSUME NEW n \in SummarySizes \cup {0}, Summarised(n)
        PROVE  /\ UNCHANGED <<said, removals>> /\ phase' \in Folding
               /\ UNCHANGED strikes \/ Stumbles
               /\ phase = "ask" /\ charged' = charged + 1
    BY <1>7 DEF Summarised, Folding
  <1>8. CASE RecordRemoval
    BY <1>8 DEF RecordRemoval
  <1>9. CASE Apply
    BY <1>9 DEF Apply
  <1>10. CASE UNCHANGED foldVars
    BY <1>10 DEF foldVars
  <1> QED BY <1>1, <1>2, <1>3, <1>4, <1>5, <1>6, <1>7, <1>8, <1>9, <1>10 DEF FoldNext

\* Where the kinds of the messages are after one more is said.
LEMMA KindsAppended ==
    ASSUME ThreadInOrder, NEW kind \in {"person", "answer", "call", "result"},
           NEW size \in Sizes \cup {1}, Says(kind, size)
    PROVE  /\ Len(said) \in Nat /\ Len(said') = Len(said) + 1
           /\ DOMAIN said = 1..Len(said) /\ DOMAIN said' = 1..(Len(said) + 1)
           /\ \A i \in 1..Len(said) : said'[i] = said[i]
           /\ said'[Len(said) + 1].kind = kind
  <1> DEFINE m == [kind |-> kind, size |-> size]
             M == [kind: {"person", "answer", "call", "result"}, size: Sizes \cup {1}]
  <1>1. said \in Seq(M) /\ m \in M /\ m.kind = kind /\ said' = Append(said, m)
    BY DEF ThreadInOrder, Says
  <1> HIDE DEF M, m
  <1> QED BY <1>1

\* The thread grows, and a call is said within the bound on messages.
LEMMA CallsStep ==
    ASSUME FoldInv, FoldInv', ThreadFits, [FoldNext]_foldVars
    PROVE  /\ Len(said) \in Nat /\ Len(said') \in Nat /\ Len(said) <= Len(said')
           /\ Len(said') <= MaxSaid + MaxResults
           /\ \A i \in DOMAIN said' : said'[i].kind = "call" => i <= MaxSaid
           /\ phase' = "tools" => \E i \in DOMAIN said' : said'[i].kind = "call"
  <1>0. /\ ThreadInOrder /\ MaxSaid \in Nat /\ MaxResults \in Nat
        /\ Len(said) <= MaxSaid + MaxResults
        /\ \A i \in DOMAIN said : said[i].kind = "call" => i <= MaxSaid
        /\ phase = "tools" => \E i \in DOMAIN said : said[i].kind = "call"
        /\ Len(said) \in Nat /\ DOMAIN said = 1..Len(said)
    BY FoldAssumption DEF FoldInv, ThreadInOrder, ThreadFits, FoldTypeOK, CallsFit
  <1>1. phase' = "tools" => \/ phase = "tools"
                            \/ Says("call", 1)
    <2>1. ASSUME PersonAsks \/ TooShort \/ SummaryFails \/ CallerLeaves \/ Apply \/ RecordRemoval
          PROVE phase' # "tools"
      BY <2>1 DEF PersonAsks, TooShort, SummaryFails, CallerLeaves, Apply, RecordRemoval
    <2>2. ModelAnswers => phase' # "tools" \/ Says("call", 1)
      BY DEF ModelAnswers
    <2>3. ASSUME NEW n \in Sizes, Result(n) PROVE phase = "tools"
      BY <2>3 DEF Result
    <2>4. ASSUME NEW k \in (cut + 1)..(Len(said) - 1), BeginFold(k) PROVE phase' # "tools"
      BY <2>4 DEF BeginFold
    <2>5. Chunk => phase' # "tools"
      BY DEF Chunk
    <2>6. ASSUME NEW n \in SummarySizes \cup {0}, Summarised(n) PROVE phase' # "tools"
      BY <2>6 DEF Summarised
    <2>7. UNCHANGED foldVars => phase' = phase
      BY DEF foldVars
    <2> QED BY <2>1, <2>2, <2>3, <2>4, <2>5, <2>6, <2>7 DEF FoldNext
  <1>2. CASE UNCHANGED said
    <2>1. phase' = "tools" => \E i \in DOMAIN said' : said'[i].kind = "call"
      <3>1. ~Says("call", 1)
        <4>1. ASSUME Says("call", 1) PROVE Len(said') = Len(said) + 1
          BY <1>0, <4>1, KindsAppended
        <4>2. \A n \in Nat : n # n + 1
          OBVIOUS
        <4>3. Len(said) # Len(said) + 1
          BY <1>0, <4>2, Zenon
        <4> QED BY <1>2, <4>1, <4>3
      <3>2. phase' = "tools" => phase = "tools"
        BY <1>1, <3>1
      <3> QED BY <1>0, <1>2, <3>2
    <2> QED BY <1>0, <1>2, <2>1
  <1>3. ASSUME NEW kind \in {"person", "answer", "call", "result"}, NEW size \in Sizes \cup {1},
               Says(kind, size), Len(said) < MaxSaid + MaxResults,
               kind = "call" => Len(said) < MaxSaid
        PROVE  /\ Len(said') \in Nat /\ Len(said) <= Len(said')
               /\ Len(said') <= MaxSaid + MaxResults
               /\ \A i \in DOMAIN said' : said'[i].kind = "call" => i <= MaxSaid
               /\ phase' = "tools" => \E i \in DOMAIN said' : said'[i].kind = "call"
    <2>1. /\ Len(said') = Len(said) + 1
          /\ DOMAIN said' = 1..(Len(said) + 1)
          /\ \A i \in 1..Len(said) : said'[i] = said[i]
          /\ said'[Len(said) + 1].kind = kind
      BY <1>0, <1>3, KindsAppended
    <2>2. Len(said') \in Nat /\ Len(said) <= Len(said') /\ Len(said') <= MaxSaid + MaxResults
      BY <1>0, <1>3, <2>1
    <2>3. ASSUME NEW i \in DOMAIN said', said'[i].kind = "call" PROVE i <= MaxSaid
      <3>1. CASE i \in 1..Len(said)
        BY <1>0, <2>1, <2>3, <3>1
      <3>2. CASE i = Len(said) + 1
        BY <1>0, <1>3, <2>1, <2>3, <3>2
      <3> QED BY <1>0, <2>1, <3>1, <3>2
    <2>4. ASSUME phase' = "tools" PROVE \E i \in DOMAIN said' : said'[i].kind = "call"
      <3>1. CASE phase = "tools"
        <4>1. PICK i \in 1..Len(said) : said[i].kind = "call"
          BY <1>0, <3>1
        <4>2. i \in DOMAIN said' /\ said'[i].kind = "call"
          BY <1>0, <2>1, <4>1
        <4> QED BY <4>2
      <3>2. CASE Says("call", 1)
        <4>1. said'[Len(said) + 1].kind = "call"
          BY <1>0, <3>2, KindsAppended
        <4>2. Len(said) + 1 \in DOMAIN said'
          BY <1>0, <2>1
        <4> QED BY <4>1, <4>2
      <3> QED BY <1>1, <2>4, <3>1, <3>2
    <2> QED BY <2>2, <2>3, <2>4
  <1>4. Len(said) < MaxSaid => Len(said) < MaxSaid + MaxResults
    BY <1>0
  <1>5. ASSUME NEW n \in Sizes, Result(n)
        PROVE  Says("result", n) /\ Len(said) < MaxSaid + MaxResults
    <2> DEFINE made == {i \in DOMAIN said : said[i].kind = "call"}
    <2>1. /\ phase = "tools" /\ Len(said) - Max(made) < MaxResults /\ Says("result", n)
      BY <1>5 DEF Result
    <2>2. made \in SUBSET (1..Len(said)) /\ made # {}
      BY <1>0, <2>1
    <2>3. \A i \in made : i <= MaxSaid
      BY <1>0
    <2> HIDE DEF made
    <2>4. Max(made) \in made
      BY <1>0, <2>2, MaxOfBounded
    <2>5. PICK m \in 1..Len(said) : m = Max(made) /\ m <= MaxSaid
      BY <2>2, <2>3, <2>4
    <2>6. Len(said) - m < MaxResults
      BY <2>1, <2>5
    <2>7. Len(said) < MaxSaid + MaxResults
      BY <1>0, <2>5, <2>6
    <2> QED BY <2>1, <2>7
  <1>6. CASE Says("person", 1) /\ Len(said) < MaxSaid
    BY <1>0, <1>3, <1>4, <1>6
  <1>7. CASE Says("answer", 1) /\ Len(said) < MaxSaid
    BY <1>0, <1>3, <1>4, <1>7
  <1>8. CASE Says("call", 1) /\ Len(said) < MaxSaid
    BY <1>0, <1>3, <1>4, <1>8
  <1>9. ASSUME NEW n \in Sizes, Result(n)
        PROVE  /\ Len(said') \in Nat /\ Len(said) <= Len(said')
               /\ Len(said') <= MaxSaid + MaxResults
               /\ \A i \in DOMAIN said' : said'[i].kind = "call" => i <= MaxSaid
               /\ phase' = "tools" => \E i \in DOMAIN said' : said'[i].kind = "call"
    BY <1>3, <1>5, <1>9
  <1> QED BY <1>0, <1>2, <1>6, <1>7, <1>8, <1>9, FoldSteps

\* What the hook works on is part of the thread.
LEMMA WorkStep ==
    ASSUME FoldInv, FoldInv', ThreadFits, [FoldNext]_foldVars
    PROVE  /\ work'.anchor.of \cup work'.anchor.lost \subseteq 1..Len(said')
           /\ work'.anchor.size \in SummarySizes \cup {0}
           /\ work'.next \in 0..(Len(said') + 1) /\ work'.to \in 0..Len(said')
           /\ removals' \subseteq 1..Len(said')
  <1>1. Len(said) \in Nat /\ Len(said') \in Nat /\ Len(said) <= Len(said')
    BY CallsStep
  <1>2. 1..Len(said) \subseteq 1..Len(said')
    BY <1>1
  <1>3. /\ work.anchor.of \cup work.anchor.lost \subseteq 1..Len(said)
        /\ work.anchor.size \in SummarySizes \cup {0}
        /\ work.next \in 0..(Len(said) + 1) /\ work.to \in 0..Len(said)
        /\ removals \subseteq 1..Len(said)
    BY DEF ThreadFits, FoldTypeOK
  <1>4. removals' \subseteq 1..Len(said')
    <2>1. CASE UNCHANGED removals
      BY <1>2, <1>3, <2>1
    <2>2. CASE phase = "record" /\ removals' = removals \cup (cut + 1)..work.to
      <3>1. cut \in Nat /\ work.to \in Nat /\ work.to < Len(said)
        BY <2>2 DEF FoldInv, ThreadInOrder, WorkCovers, Folding
      <3>2. (cut + 1)..work.to \subseteq 1..Len(said)
        BY <1>1, <3>1
      <3> QED BY <1>2, <1>3, <2>2, <3>2
    <2> QED BY <2>1, <2>2, FoldSteps
  <1>5. CASE UNCHANGED work
    <2>1. work.next \in 0..(Len(said') + 1) /\ work.to \in 0..Len(said')
      <3>1. PICK a \in 0..(Len(said) + 1), b \in 0..Len(said) : a = work.next /\ b = work.to
        BY <1>3
      <3>2. a \in 0..(Len(said') + 1) /\ b \in 0..Len(said')
        BY <1>1
      <3> QED BY <3>1, <3>2
    <2> QED BY <1>2, <1>3, <1>4, <1>5, <2>1
  <1>6. CASE phase' \in Folding
    <2>1. /\ work' \in [anchor: Summaries, next: Nat, to: Nat]
          /\ work'.to < Len(said') /\ work'.next <= work'.to + 1 /\ 1 <= work'.next
          /\ work'.anchor.of \cup work'.anchor.lost = 1..(work'.next - 1)
      BY <1>6 DEF FoldInv, WorkCovers
    <2>2. PICK a \in Nat, b \in Nat : a = work'.next /\ b = work'.to
      BY <2>1
    <2>3. a \in 0..(Len(said') + 1) /\ b \in 0..Len(said') /\ 1..(a - 1) \subseteq 1..Len(said')
      BY <1>1, <2>1, <2>2
    <2>4. work'.anchor.size \in SummarySizes \cup {0}
      BY <2>1 DEF Summaries
    <2> QED BY <1>4, <2>1, <2>2, <2>3, <2>4
  <1> QED BY <1>5, <1>6, FoldSteps

LEMMA FitsStep == FoldInv /\ FoldInv' /\ ThreadFits /\ [FoldNext]_foldVars => ThreadFits'
  <1> SUFFICES ASSUME FoldInv, FoldInv', ThreadFits, [FoldNext]_foldVars PROVE ThreadFits'
    OBVIOUS
  <1>1. /\ charged \in 0..FoldCeiling /\ strikes \in 0..MaxStrikes
        /\ phase = "ask" => charged < FoldCeiling
        /\ FoldCeiling \in Nat /\ MaxStrikes \in Nat
    BY FoldAssumption DEF ThreadFits, FoldTypeOK, CallsFit
  <1>2. charged' \in 0..FoldCeiling
    BY <1>1, FoldSteps
  <1>3. strikes' \in 0..MaxStrikes
    BY <1>1, FoldSteps DEF Stumbles
  <1>4. phase' = "ask" => charged' < FoldCeiling
    <2>1. ASSUME PersonAsks \/ TooShort \/ SummaryFails \/ CallerLeaves \/ Apply \/ RecordRemoval
                 \/ ModelAnswers
          PROVE phase' # "ask"
      BY <2>1 DEF PersonAsks, TooShort, SummaryFails, CallerLeaves, Apply, RecordRemoval,
         ModelAnswers
    <2>2. ASSUME NEW n \in Sizes, Result(n) PROVE phase' # "ask"
      BY <2>2 DEF Result
    <2>3. ASSUME NEW k \in (cut + 1)..(Len(said) - 1), BeginFold(k) PROVE phase' # "ask"
      BY <2>3 DEF BeginFold
    <2>4. ASSUME Chunk, phase' = "ask" PROVE charged' < FoldCeiling
      <3>1. ~(charged >= FoldCeiling) /\ charged' = charged
        BY <2>4 DEF Chunk
      <3> QED BY <1>1, <3>1
    <2>5. ASSUME NEW n \in SummarySizes \cup {0}, Summarised(n) PROVE phase' # "ask"
      BY <2>5 DEF Summarised
    <2>6. UNCHANGED foldVars => phase' = phase /\ charged' = charged
      BY DEF foldVars
    <2> QED BY <1>1, <2>1, <2>2, <2>3, <2>4, <2>5, <2>6 DEF FoldNext
  <1>5. CallsFit'
    BY <1>4, CallsStep DEF CallsFit
  <1>6. cut' \in 0..Len(said') /\ 1..cut' \subseteq 1..Len(said')
    <2>1. /\ cut' \in Nat /\ (cut' = 0 \/ cut' < Len(said')) /\ Len(said') \in Nat
      BY CallsStep DEF FoldInv, ThreadInOrder
    <2> QED BY <2>1
  <1>7. /\ summary'.of \cup summary'.lost \subseteq 1..Len(said')
        /\ summary'.size \in SummarySizes \cup {0}
    BY <1>6 DEF FoldInv, SummaryCovers, Summaries
  <1>8. asked'.of \subseteq 1..Len(said')
    <2>1. CASE asked'.of # {}
      <3>1. PICK a \in 1..Len(said'), b \in 1..Len(said') : asked'.of = a..b
        BY <2>1 DEF FoldInv, RequestFits
      <3>2. Len(said') \in Nat
        BY CallsStep
      <3>3. a..b \subseteq 1..Len(said')
        BY <3>1, <3>2
      <3> QED BY <3>1, <3>3
    <2> QED BY <2>1
  <1>9. FoldTypeOK'
    BY <1>2, <1>3, <1>6, <1>7, <1>8, CallsStep, WorkStep DEF FoldInv, ThreadInOrder, FoldTypeOK
  <1> QED BY <1>5, <1>9 DEF ThreadFits

\* The variables of a thread and of the fold that is under way have their types
\* and keep within their bounds (`abefore_model`).
THEOREM ThreadsFit == FoldSpec => []ThreadFits
  <1>1. FoldInit => ThreadFits
    <2> SUFFICES ASSUME FoldInit PROVE ThreadFits
      OBVIOUS
    <2>1. /\ said = << >> /\ cut = 0 /\ phase = "person" /\ summary = NoSummary /\ work = NoWork
          /\ asked = NoRequest /\ charged = 0 /\ removals = {} /\ strikes = 0
      BY DEF FoldInit
    <2>2. /\ Len(said) = 0 /\ DOMAIN said = {}
          /\ said \in Seq([kind: {"person", "answer", "call", "result"}, size: Sizes \cup {1}])
      BY <2>1
    <2>3. /\ summary.of = {} /\ summary.lost = {} /\ summary.size = 0
          /\ work.anchor = NoSummary /\ work.next = 0 /\ work.to = 0 /\ asked.of = {}
      BY <2>1 DEF NoSummary, NoWork, NoRequest
    <2>4. work.anchor.of = {} /\ work.anchor.lost = {} /\ work.anchor.size = 0
      BY <2>3 DEF NoSummary
    <2>5. 0 \in 0..FoldCeiling /\ 0 \in 0..MaxStrikes /\ 0 <= MaxSaid + MaxResults
      BY FoldAssumption
    <2>6. FoldTypeOK
      BY <2>1, <2>2, <2>3, <2>4, <2>5 DEF FoldTypeOK
    <2> QED BY <2>1, <2>2, <2>6 DEF ThreadFits, CallsFit
  <1> QED BY <1>1, FitsStep, FoldsInOrder, PTL DEF FoldSpec

-----------------------------------------------------------------------------
(* Listings: the pages of a listing.                                          *)

\* A finite set with an order has a least element.
LEMMA LeastElement ==
    ASSUME NEW S, IsFiniteSet(S), S # {}, NEW R,
           \A x \in S : <<x, x>> \notin R,
           \A x, y, z \in S : <<x, y>> \in R /\ <<y, z>> \in R => <<x, z>> \in R
    PROVE  \E x \in S : \A y \in S : <<y, x>> \notin R
  <1> DEFINE Below(x) == {y \in S : <<y, x>> \in R}
             F == {Below(x) : x \in S}
  <1>1. F \subseteq FiniteSubsetsOf(S) /\ F # {}
    <2>1. \A x \in S : Below(x) \in SUBSET S
      OBVIOUS
    <2>2. \A x \in S : IsFiniteSet(Below(x))
      BY <2>1, FS_Subset
    <2>3. \A x \in S : Below(x) \in FiniteSubsetsOf(S)
      BY <2>1, <2>2 DEF FiniteSubsetsOf
    <2> HIDE DEF Below
    <2> QED BY <2>3
  <1>2. PICK U \in F : \A V \in F : <<V, U>> \notin StrictSubsetOrdering(S)
    <2>1. IsWellFoundedOn(StrictSubsetOrdering(S), FiniteSubsetsOf(S))
      BY FS_StrictSubsetOrderingWellFounded
    <2> HIDE DEF F
    <2> QED BY <1>1, <2>1, WFMin
  <1>3. PICK x \in S : U = Below(x)
    BY <1>2
  <1>4. ASSUME NEW y \in S, <<y, x>> \in R PROVE FALSE
    <2>1. y \in Below(x) /\ y \notin Below(y)
      BY <1>4
    <2>2. Below(y) \subseteq Below(x)
      BY <1>4
    <2>3. Below(y) # Below(x)
      BY <2>1
    <2>4. Below(y) \in SUBSET S /\ Below(x) \in SUBSET S /\ Below(y) \in F
      OBVIOUS
    <2> HIDE DEF Below
    <2>5. <<Below(y), Below(x)>> \in StrictSubsetOrdering(S)
      BY <2>2, <2>3, <2>4 DEF StrictSubsetOrdering
    <2> QED BY <1>2, <1>3, <2>4, <2>5
  <1> QED BY <1>4

\* The rows of the table are finitely many, and newest first is an order of them.
LEMMA RowsAreOrdered ==
    ASSUME ListingTypeOK
    PROVE  /\ IsFiniteSet(DOMAIN table)
           /\ \A i \in DOMAIN table : /\ Position(i).stamp \in Nat /\ Position(i).id = i
                                      /\ Position(i).stamp > 0 /\ i \in Nat
                                      /\ Position(i) \in [stamp: Nat, id: Nat]
  <1>1. IsFiniteSet(DOMAIN table) /\ \A i \in DOMAIN table : i \in Nat
    BY ListingAssumption, FS_Subset DEF ListingTypeOK
  <1>2. \A i \in DOMAIN table : table[i].stamp \in 1..MaxClock /\ MaxClock \in Nat
    BY ListingAssumption DEF ListingTypeOK, Entry
  <1>3. \A i \in DOMAIN table : table[i].stamp \in Nat /\ table[i].stamp > 0
    BY <1>2
  <1> QED BY <1>1, <1>3 DEF Position

LEMMA NaturalsCompare ==
    \A x, y, z \in Nat : ~(x > x) /\ (x > y /\ y > z => x > z) /\ (x > y \/ y > x \/ x = y)
  OBVIOUS

LEMMA NewerIsOrder ==
    /\ \A a \in [stamp: Nat, id: Nat] : ~Newer(a, a)
    /\ \A a, b, c \in [stamp: Nat, id: Nat] : Newer(a, b) /\ Newer(b, c) => Newer(a, c)
    /\ \A a, b \in [stamp: Nat, id: Nat] : a.id # b.id => Newer(a, b) \/ Newer(b, a)
  <1>1. \A a \in [stamp: Nat, id: Nat] : a.stamp \in Nat /\ a.id \in Nat
    OBVIOUS
  <1>2. ASSUME NEW a \in [stamp: Nat, id: Nat], NEW b \in [stamp: Nat, id: Nat],
               NEW c \in [stamp: Nat, id: Nat]
        PROVE  /\ ~Newer(a, a) /\ (Newer(a, b) /\ Newer(b, c) => Newer(a, c))
               /\ (a.id # b.id => Newer(a, b) \/ Newer(b, a))
    <2>1. /\ a.stamp \in Nat /\ b.stamp \in Nat /\ c.stamp \in Nat
          /\ a.id \in Nat /\ b.id \in Nat /\ c.id \in Nat
      BY <1>1
    <2>2. \A x, y, z \in Nat : ~(x > x) /\ (x > y /\ y > z => x > z) /\ (x > y \/ y > x \/ x = y)
      BY NaturalsCompare
    <2>3. ~Newer(a, a)
      BY <2>1, <2>2 DEF Newer
    <2>4. Newer(a, b) /\ Newer(b, c) => Newer(a, c)
      BY <2>1, <2>2, Zenon DEF Newer
    <2>5. a.id # b.id => Newer(a, b) \/ Newer(b, a)
      BY <2>1, <2>2, Zenon DEF Newer
    <2> QED BY <2>3, <2>4, <2>5
  <1> QED BY <1>2

Preceding(S, i) == {j \in S : Newer(Position(j), Position(i))}

\* Every set of rows that is not empty has a newest and an oldest one.
LEMMA FirstAndLast ==
    ASSUME ListingTypeOK, NEW S \in SUBSET (DOMAIN table), S # {}
    PROVE  /\ \E i \in S : Preceding(S, i) = {}
           /\ \E i \in S : \A j \in S \ {i} : Newer(Position(j), Position(i))
  <1> DEFINE R == {s \in S \X S : Newer(Position(s[1]), Position(s[2]))}
             Q == {s \in S \X S : Newer(Position(s[2]), Position(s[1]))}
  <1>1. IsFiniteSet(S) /\ \A i \in S : Position(i) \in [stamp: Nat, id: Nat] /\ Position(i).id = i
    BY RowsAreOrdered, FS_Subset
  <1>2. \A i, j \in S : /\ <<i, j>> \in R <=> Newer(Position(i), Position(j))
                        /\ <<i, j>> \in Q <=> Newer(Position(j), Position(i))
    OBVIOUS
  <1>3. /\ \A x \in S : ~Newer(Position(x), Position(x))
        /\ \A x, y, z \in S : Newer(Position(x), Position(y)) /\ Newer(Position(y), Position(z))
                                  => Newer(Position(x), Position(z))
        /\ \A x, y \in S : x # y => Newer(Position(x), Position(y)) \/ Newer(Position(y), Position(x))
    BY <1>1, NewerIsOrder
  <1> HIDE DEF R, Q
  <1>4. /\ \A x \in S : <<x, x>> \notin R /\ <<x, x>> \notin Q
        /\ \A x, y, z \in S : <<x, y>> \in R /\ <<y, z>> \in R => <<x, z>> \in R
        /\ \A x, y, z \in S : <<x, y>> \in Q /\ <<y, z>> \in Q => <<x, z>> \in Q
    BY <1>2, <1>3
  <1>5. PICK i \in S : \A y \in S : <<y, i>> \notin R
    BY <1>1, <1>4, LeastElement
  <1>6. PICK k \in S : \A y \in S : <<y, k>> \notin Q
    BY <1>1, <1>4, LeastElement
  <1>7. Preceding(S, i) = {}
    BY <1>2, <1>5 DEF Preceding
  <1>8. \A j \in S \ {k} : Newer(Position(j), Position(k))
    BY <1>2, <1>3, <1>6
  <1> QED BY <1>7, <1>8

\* What precedes a row is finite, and less than all.
LEMMA PrecedingAreFewer ==
    ASSUME ListingTypeOK, NEW S \in SUBSET (DOMAIN table), NEW i \in S
    PROVE  /\ IsFiniteSet(S) /\ Cardinality(S) \in Nat
           /\ Cardinality(Preceding(S, i)) \in Nat /\ Cardinality(Preceding(S, i)) < Cardinality(S)
  <1>1. IsFiniteSet(S) /\ Cardinality(S) \in Nat
    BY RowsAreOrdered, FS_Subset, FS_CardinalityType
  <1>2. i \notin Preceding(S, i)
    BY RowsAreOrdered, NewerIsOrder DEF Preceding
  <1>3. Preceding(S, i) \in SUBSET (S \ {i})
    BY <1>2 DEF Preceding
  <1>4. IsFiniteSet(S \ {i}) /\ Cardinality(S \ {i}) = Cardinality(S) - 1
    BY <1>1, FS_RemoveElement
  <1>5. Cardinality(Preceding(S, i)) <= Cardinality(S \ {i}) /\ IsFiniteSet(Preceding(S, i))
    BY <1>3, <1>4, FS_Subset
  <1>6. Cardinality(Preceding(S, i)) \in Nat
    BY <1>5, FS_CardinalityType
  <1> QED BY <1>1, <1>4, <1>5, <1>6

\* A row ahead of one of the foremost is one of them.
LEMMA ForemostIsPrefix ==
    ASSUME ListingTypeOK, NEW S \in SUBSET (DOMAIN table), NEW n \in Nat, NEW l \in Foremost(n, S),
           NEW i \in S, Newer(Position(i), Position(l))
    PROVE  i \in Foremost(n, S)
  <1>1. l \in S /\ Cardinality(Preceding(S, l)) < n
    BY DEF Foremost, Preceding
  <1>2. Preceding(S, i) \subseteq Preceding(S, l)
    <2>1. \A j \in S : Position(j) \in [stamp: Nat, id: Nat]
      BY RowsAreOrdered
    <2> QED BY <1>1, <2>1, NewerIsOrder DEF Preceding
  <1>3. IsFiniteSet(S)
    BY PrecedingAreFewer
  <1>4. IsFiniteSet(Preceding(S, l)) /\ Cardinality(Preceding(S, l)) \in Nat
    <2>1. Preceding(S, l) \in SUBSET S
      BY DEF Preceding
    <2> QED BY <1>3, <2>1, FS_Subset, FS_CardinalityType
  <1>5. /\ Cardinality(Preceding(S, i)) <= Cardinality(Preceding(S, l))
        /\ Cardinality(Preceding(S, i)) \in Nat
    BY <1>2, <1>4, FS_Subset, FS_CardinalityType
  <1>6. Cardinality(Preceding(S, i)) < n
    BY <1>1, <1>4, <1>5
  <1> QED BY <1>6 DEF Foremost, Preceding

\* Fewer rows than asked for are all the rows there are.
LEMMA FewAreAll ==
    ASSUME ListingTypeOK, NEW S \in SUBSET (DOMAIN table), NEW n \in Nat,
           Cardinality(Foremost(n, S)) < n
    PROVE  Foremost(n, S) = S
  <1> DEFINE rest == S \ Foremost(n, S)
  <1>1. Foremost(n, S) \in SUBSET S
    BY DEF Foremost
  <1>2. ASSUME rest # {} PROVE FALSE
    <2>1. rest \in SUBSET (DOMAIN table)
      OBVIOUS
    <2>2. PICK i \in rest : Preceding(rest, i) = {}
      BY <1>2, <2>1, FirstAndLast
    <2>3. Preceding(S, i) \subseteq Foremost(n, S)
      BY <2>2 DEF Preceding
    <2>4. IsFiniteSet(S) /\ i \in S /\ Cardinality(Preceding(S, i)) \in Nat
      BY <2>2, PrecedingAreFewer
    <2>5. IsFiniteSet(Foremost(n, S)) /\ Cardinality(Foremost(n, S)) \in Nat
      BY <1>1, <2>4, FS_Subset, FS_CardinalityType
    <2>6. Cardinality(Preceding(S, i)) <= Cardinality(Foremost(n, S))
      BY <2>3, <2>5, FS_Subset
    <2>7. Cardinality(Preceding(S, i)) < n
      BY <2>4, <2>5, <2>6
    <2>8. i \in Foremost(n, S)
      BY <2>4, <2>7 DEF Foremost, Preceding
    <2> QED BY <2>2, <2>8
  <1> QED BY <1>1, <1>2

\* What a page has: all that is left, or all up to the row where it ends.
LEMMA PageIsPrefix ==
    ASSUME ListingTypeOK, NEW q, NEW after, NEW limit \in Nat \ {0}
    PROVE  LET S == AfterPosition(q, after)
               page == Page(q, after, limit)
           IN  /\ page.items \subseteq S
               /\ \/ page.next = Nowhere /\ page.items = S
                  \/ \E l \in page.items :
                         /\ page.next = Position(l)
                         /\ \A j \in page.items : ~Newer(Position(l), Position(j))
                         /\ \A j \in S \ page.items : Newer(Position(l), Position(j))
  <1> DEFINE S == AfterPosition(q, after)
             fetched == Foremost(limit + 1, S)
             shown == Foremost(limit, fetched)
             page == Page(q, after, limit)
  <1>1. S \in SUBSET (DOMAIN table)
    BY DEF AfterPosition
  <1>2. fetched \in SUBSET S /\ shown \in SUBSET fetched
    BY DEF Foremost
  <1>3. /\ page.items = shown
        /\ page.next = IF Cardinality(fetched) > limit
                       THEN Position(CHOOSE i \in shown : \A j \in shown \ {i} :
                                         Newer(Position(j), Position(i)))
                       ELSE Nowhere
    BY DEF Page
  <1> HIDE DEF page, S
  <1>4. fetched \in SUBSET (DOMAIN table) /\ shown \in SUBSET (DOMAIN table)
    BY <1>1, <1>2
  <1>5. IsFiniteSet(fetched) /\ Cardinality(fetched) \in Nat
    BY <1>4, RowsAreOrdered, FS_Subset, FS_CardinalityType
  <1>6. CASE ~(Cardinality(fetched) > limit)
    <2>1. Cardinality(fetched) < limit + 1 /\ Cardinality(fetched) <= limit
      BY <1>5, <1>6
    <2>2. fetched = S
      BY <1>1, <2>1, FewAreAll
    <2> HIDE DEF fetched
    <2>3. ASSUME NEW i \in fetched PROVE i \in shown
      <3>1. /\ Cardinality(Preceding(fetched, i)) \in Nat
            /\ Cardinality(Preceding(fetched, i)) < Cardinality(fetched)
        BY <1>4, PrecedingAreFewer
      <3>2. Cardinality(Preceding(fetched, i)) < limit
        BY <1>5, <2>1, <3>1
      <3> QED BY <3>2 DEF Foremost, Preceding
    <2>4. shown = S
      BY <1>2, <2>2, <2>3
    <2> QED BY <1>3, <1>6, <2>4 DEF page, S
  <1>7. CASE Cardinality(fetched) > limit
    <2>1. fetched # {}
      <3>1. fetched = {} => Cardinality(fetched) = 0
        BY FS_EmptySet
      <3> QED BY <1>5, <1>7, <3>1
    <2>2. shown # {}
      <3>1. PICK i \in fetched : Preceding(fetched, i) = {}
        BY <1>4, <2>1, FirstAndLast
      <3>2. Cardinality(Preceding(fetched, i)) < limit
        BY <3>1, FS_EmptySet
      <3> HIDE DEF fetched
      <3> QED BY <3>1, <3>2 DEF Foremost, Preceding
    <2> DEFINE l == CHOOSE i \in shown : \A j \in shown \ {i} : Newer(Position(j), Position(i))
    <2>3. l \in shown /\ \A j \in shown \ {l} : Newer(Position(j), Position(l))
      <3> HIDE DEF shown
      <3>1. \E i \in shown : \A j \in shown \ {i} : Newer(Position(j), Position(i))
        BY <1>4, <2>2, FirstAndLast
      <3> QED BY <3>1
    <2>4. page.next = Position(l)
      BY <1>3, <1>7
    <2> HIDE DEF l, shown
    <2>5. \A j \in DOMAIN table : Position(j) \in [stamp: Nat, id: Nat] /\ Position(j).id = j
      BY RowsAreOrdered
    <2>6. \A j \in shown : ~Newer(Position(l), Position(j))
      <3> SUFFICES ASSUME NEW j \in shown, Newer(Position(l), Position(j)) PROVE FALSE
        OBVIOUS
      <3>1. /\ Position(l) \in [stamp: Nat, id: Nat] /\ Position(j) \in [stamp: Nat, id: Nat]
        BY <1>4, <2>3, <2>5
      <3>2. ~Newer(Position(l), Position(l))
        BY <3>1, NewerIsOrder
      <3> QED BY <2>3, <3>1, <3>2, NewerIsOrder
    <2>7. ASSUME NEW j \in S \ shown PROVE Newer(Position(l), Position(j))
      <3>1. j # l /\ j \in DOMAIN table /\ l \in DOMAIN table /\ l \in fetched
        BY <1>1, <1>2, <1>4, <2>3, <2>7
      <3>2. Newer(Position(j), Position(l)) \/ Newer(Position(l), Position(j))
        BY <2>5, <3>1, NewerIsOrder
      <3>3. ASSUME Newer(Position(j), Position(l)) PROVE FALSE
        <4>1. j \in fetched
          BY <1>1, <3>1, <3>3, ForemostIsPrefix
        <4> HIDE DEF fetched
        <4>2. j \in shown
          BY <1>4, <2>3, <3>3, <4>1, ForemostIsPrefix DEF shown
        <4> QED BY <2>7, <4>2
      <3> QED BY <3>2, <3>3
    <2> QED BY <1>2, <1>3, <2>3, <2>4, <2>6, <2>7 DEF page, S
  <1> QED BY <1>6, <1>7

\* A form that changes, where the rows and the walk stay.
LEMMA FormsStep ==
    ASSUME ListingInv, UNCHANGED <<table, walk>>, clock' \in 1..MaxClock,
           gone \subseteq gone', gone' \subseteq ReportIds, gone' \cap DOMAIN table = {},
           DOMAIN forms' \subseteq ReportIds, \A j \in DOMAIN forms' : forms'[j] \in Form,
           objects' \subseteq ReportIds \X (1..MaxImages),
           \A j \in DOMAIN table \cup walk.seen : {j} \X (1..MaxImages) \subseteq objects',
           FormsInOrder'
    PROVE  ListingInv'
  <1>1. ListingTypeOK'
    BY DEF ListingInv, ListingTypeOK
  <1>2. RowsInOrder'
    BY DEF ListingInv, RowsInOrder
  <1>3. CursorDivides'
    BY DEF ListingInv, CursorDivides, Position, Newer
  <1> QED BY <1>1, <1>2, <1>3 DEF ListingInv

\* A form is taken out of the way.
LEMMA FormDropped ==
    ASSUME ListingInv, NEW i \in DOMAIN forms, forms' = Without(forms, i)
    PROVE  /\ DOMAIN forms' = DOMAIN forms \ {i} /\ \A j \in DOMAIN forms' : forms'[j] = forms[j]
           /\ \A j \in DOMAIN forms' : forms'[j] \in Form
  <1>1. DOMAIN forms' = DOMAIN forms \ {i} /\ \A j \in DOMAIN forms' : forms'[j] = forms[j]
    BY DEF Without
  <1> QED BY <1>1 DEF ListingInv, ListingTypeOK

\* A page is read: the rows it gives are new, and it ends where the next begins.
LEMMA PageStep ==
    ASSUME ListingInv, NEW limit \in PageSizes, ListPage(limit)
    PROVE  ListingInv'
  <1> DEFINE S == AfterPosition(walk.query, walk.after)
             page == Page(walk.query, walk.after, limit)
  <1>1. ListingTypeOK /\ CursorDivides /\ RowsInOrder /\ FormsInOrder
    BY DEF ListingInv
  <1>2. limit \in Nat \ {0}
    BY ListingAssumption
  <1>3. PICK shown, next :
            /\ shown = page.items /\ next = page.next /\ shown \subseteq S
            /\ \/ next = Nowhere /\ shown = S
               \/ \E l \in shown : /\ next = Position(l)
                                   /\ \A j \in shown : ~Newer(Position(l), Position(j))
                                   /\ \A j \in S \ shown : Newer(Position(l), Position(j))
    <2> HIDE DEF S, page
    <2>1. /\ page.items \subseteq S
          /\ \/ page.next = Nowhere /\ page.items = S
             \/ \E l \in page.items : /\ page.next = Position(l)
                                      /\ \A j \in page.items : ~Newer(Position(l), Position(j))
                                      /\ \A j \in S \ page.items : Newer(Position(l), Position(j))
      BY <1>1, <1>2, PageIsPrefix DEF S, page
    <2> QED BY <2>1
  <1>4. PICK listed : listed = IF walk.at = "first"
                               THEN {i \in DOMAIN table : table[i].query = walk.query}
                               ELSE walk.steady
    OBVIOUS
  <1>5. /\ walk \in [at: {"first", "more", "done"}, query: Queries,
                     after: [stamp: Nat, id: Nat], steady: SUBSET ReportIds,
                     seen: SUBSET ReportIds, twice: SUBSET ReportIds]
        /\ walk.twice = {} /\ walk.at \in {"first", "more"}
    BY <1>1 DEF CursorDivides, ListPage, ListingTypeOK
  <1>6. /\ walk' = [walk EXCEPT !.at = IF next = Nowhere THEN "done" ELSE "more",
                                !.after = next, !.steady = listed, !.seen = @ \cup shown,
                                !.twice = @ \cup (walk.seen \cap shown)]
        /\ UNCHANGED <<clock, forms, objects, table, gone>>
    BY <1>3, <1>4 DEF ListPage
  <1>7. \A i \in DOMAIN table : i \in S <=>
            table[i].query = walk.query /\ (walk.after = Nowhere \/ Newer(walk.after, Position(i)))
    BY DEF AfterPosition
  <1>8. S \in SUBSET (DOMAIN table) /\ shown \in SUBSET (DOMAIN table)
    BY <1>3 DEF AfterPosition
  <1> HIDE DEF S, page
  <1>9. Nowhere \in [stamp: Nat, id: Nat] /\ Nowhere.stamp = 0
    BY DEF Nowhere
  <1>10. \A i \in DOMAIN table : /\ Position(i) \in [stamp: Nat, id: Nat] /\ i \in ReportIds
                                 /\ Position(i).stamp > 0 /\ Position(i).stamp \in Nat
                                 /\ Position(i) # Nowhere
    <2>1. \A i \in DOMAIN table : /\ Position(i) \in [stamp: Nat, id: Nat] /\ Position(i).stamp > 0
                                  /\ Position(i).stamp \in Nat
      BY <1>1, RowsAreOrdered
    <2>2. \A n \in Nat : n > 0 => n # 0
      OBVIOUS
    <2> QED BY <1>1, <1>9, <2>1, <2>2 DEF ListingTypeOK
  <1>11. next \in [stamp: Nat, id: Nat]
    BY <1>3, <1>8, <1>9, <1>10
  <1>12. /\ walk'.at = (IF next = Nowhere THEN "done" ELSE "more") /\ walk'.query = walk.query
         /\ walk'.after = next /\ walk'.steady = listed /\ walk'.seen = walk.seen \cup shown
         /\ walk'.twice = walk.seen \cap shown
    BY <1>5, <1>6
  <1>13. listed \in SUBSET (DOMAIN table) /\ \A i \in listed : table[i].query = walk.query
    BY <1>1, <1>4, <1>5 DEF CursorDivides
  \* What was given before is not given again.
  <1>14. walk.seen \cap shown = {}
    <2>1. CASE walk.at = "first"
      BY <1>1, <2>1 DEF CursorDivides
    <2>2. CASE walk.at = "more"
      <3>1. walk.after.stamp > 0 /\ walk.after.stamp \in Nat
        BY <1>1, <1>5, <2>2 DEF CursorDivides
      <3>2. walk.after # Nowhere
        BY <1>9, <3>1
      <3>3. \A i \in walk.seen \cap DOMAIN table : ~Newer(walk.after, Position(i))
        BY <1>1, <2>2 DEF CursorDivides
      <3> QED BY <1>3, <1>7, <1>8, <3>2, <3>3
    <2> QED BY <1>5, <2>1, <2>2
  \* What was there all the while and was not given is still to come.
  <1>15. listed \ walk.seen \subseteq S
    <2>1. CASE walk.at = "first"
      <3>1. walk.after = Nowhere
        BY <1>1, <2>1 DEF CursorDivides
      <3> QED BY <1>7, <1>13, <3>1
    <2>2. CASE walk.at = "more"
      <3>1. \A i \in walk.steady \ walk.seen : Newer(walk.after, Position(i))
        BY <1>1, <2>2 DEF CursorDivides
      <3>2. listed = walk.steady
        BY <1>4, <2>2
      <3> QED BY <1>7, <1>13, <3>1, <3>2
    <2> QED BY <1>5, <2>1, <2>2
  \* What was given before is not after the row where this page ends.
  <1>16. \A l \in shown : \A i \in walk.seen \cap DOMAIN table : ~Newer(Position(l), Position(i))
    <2> SUFFICES ASSUME NEW l \in shown, NEW i \in walk.seen \cap DOMAIN table,
                        Newer(Position(l), Position(i))
                 PROVE  FALSE
      OBVIOUS
    <2>1. CASE walk.at = "first"
      BY <1>1, <2>1 DEF CursorDivides
    <2>2. CASE walk.at = "more"
      <3>1. walk.after.stamp > 0 /\ walk.after.stamp \in Nat
        BY <1>1, <1>5, <2>2 DEF CursorDivides
      <3>2. walk.after # Nowhere /\ walk.after \in [stamp: Nat, id: Nat]
        BY <1>5, <1>9, <3>1
      <3>3. ~Newer(walk.after, Position(i))
        BY <1>1, <2>2 DEF CursorDivides
      <3>4. Newer(walk.after, Position(l))
        BY <1>3, <1>7, <1>8, <3>2
      <3>5. Newer(walk.after, Position(i))
        BY <1>8, <1>10, <3>2, <3>4, NewerIsOrder
      <3> QED BY <3>3, <3>5
    <2> QED BY <1>5, <2>1, <2>2
  <1>17. \A i \in DOMAIN table : Position(i)' = Position(i)
    BY <1>6 DEF Position
  <1>19. CursorDivides'
    <2>1. walk' \in [at: {"first", "more", "done"}, query: Queries,
                     after: [stamp: Nat, id: Nat], steady: SUBSET ReportIds,
                     seen: SUBSET ReportIds, twice: SUBSET ReportIds]
      <3>1. listed \in SUBSET ReportIds /\ shown \in SUBSET ReportIds
        BY <1>8, <1>10, <1>13
      <3> QED BY <1>5, <1>6, <1>11, <3>1
    <2>2. walk'.twice = {}
      BY <1>12, <1>14
    <2>3. \A i \in walk'.steady : i \in DOMAIN table /\ table[i].query = walk'.query
      BY <1>12, <1>13
    <2>4. walk'.at # "first"
      BY <1>12
    <2>5. ASSUME walk'.at = "more"
          PROVE  /\ walk'.after.stamp > 0
                 /\ \A i \in walk'.steady \ walk'.seen : Newer(walk'.after, Position(i))
                 /\ \A i \in walk'.seen \cap DOMAIN table : ~Newer(walk'.after, Position(i))
      <3>1. PICK l \in shown : /\ next = Position(l)
                               /\ \A j \in shown : ~Newer(Position(l), Position(j))
                               /\ \A j \in S \ shown : Newer(Position(l), Position(j))
        BY <1>3, <1>12, <2>5
      <3>2. walk'.after = Position(l) /\ Position(l).stamp > 0
        BY <1>8, <1>10, <1>12, <3>1
      <3>3. \A i \in walk'.steady \ walk'.seen : Newer(Position(l), Position(i))
        BY <1>12, <1>15, <3>1
      <3>4. \A i \in walk'.seen \cap DOMAIN table : ~Newer(Position(l), Position(i))
        BY <1>12, <1>16, <3>1
      <3> QED BY <3>2, <3>3, <3>4
    <2>6. walk'.at = "done" => walk'.steady \subseteq walk'.seen
      <3>1. walk'.at = "done" => shown = S
        BY <1>3, <1>8, <1>10, <1>12
      <3> QED BY <1>12, <1>15, <3>1
    <2>7. walk'.at = "more" =>
              /\ walk'.after.stamp > 0
              /\ \A i \in walk'.steady \ walk'.seen : Newer(walk'.after, Position(i)')
              /\ \A i \in walk'.seen \cap DOMAIN table : ~Newer(walk'.after, Position(i)')
      BY <1>17, <2>3, <2>5
    <2>8. table' = table
      BY <1>6
    <2> QED BY <2>1, <2>2, <2>3, <2>4, <2>6, <2>7, <2>8, Zenon DEF CursorDivides, Newer
  <1>20. ListingTypeOK'
    BY <1>1, <1>6, <1>19 DEF ListingTypeOK, CursorDivides
  <1>21. RowsInOrder'
    BY <1>1, <1>6, <1>8, <1>12 DEF RowsInOrder
  <1>22. FormsInOrder'
    BY <1>1, <1>6 DEF FormsInOrder
  <1> QED BY <1>19, <1>20, <1>21, <1>22 DEF ListingInv

\* A row is committed while a client reads: it may be before or after the cursor.
LEMMA CommitStep ==
    ASSUME ListingInv, NEW i \in DOMAIN forms, CommitReport(i)
    PROVE  ListingInv'
  <1>1. ListingTypeOK /\ CursorDivides /\ RowsInOrder /\ FormsInOrder
    BY DEF ListingInv
  <1>2. /\ DOMAIN forms' = DOMAIN forms \ {i} /\ \A j \in DOMAIN forms' : forms'[j] = forms[j]
        /\ \A j \in DOMAIN forms' : forms'[j] \in Form
        /\ UNCHANGED <<clock, objects, gone, walk>>
    BY FormDropped DEF CommitReport
  <1>3. /\ DOMAIN table' = DOMAIN table \cup {i}
        /\ table'[i] = [stamp |-> forms[i].stamp, query |-> forms[i].query]
        /\ \A j \in DOMAIN table \ {i} : table'[j] = table[j]
    BY DEF CommitReport, With
  <1>4. /\ i \in ReportIds /\ forms[i] \in Form /\ i \notin DOMAIN table \cup gone
        /\ forms[i].stored = MaxImages /\ forms[i].stamp > 0
        /\ {i} \X (1..MaxImages) \subseteq objects
    BY <1>1 DEF ListingTypeOK, FormsInOrder, CommitReport
  <1>5. table'[i] \in Entry
    <2>1. PICK n \in 0..MaxClock, q \in Queries : n = forms[i].stamp /\ q = forms[i].query
      BY <1>4 DEF Form
    <2>2. MaxClock \in Nat /\ n > 0
      BY <1>4, <2>1, ListingAssumption
    <2>3. n \in 1..MaxClock
      BY <2>2
    <2> QED BY <1>3, <2>1, <2>3 DEF Entry
  <1>6. i \notin walk.seen /\ i \notin walk.steady
    BY <1>1, <1>4 DEF RowsInOrder, CursorDivides
  <1>7. \A j \in DOMAIN table :
            table'[j] = table[j] /\ Position(j)' = Position(j) /\ j \in DOMAIN table'
    BY <1>3, <1>4 DEF Position
  <1>8. ListingTypeOK'
    BY <1>1, <1>2, <1>3, <1>4, <1>5, <1>7 DEF ListingTypeOK
  <1>9. RowsInOrder'
    BY <1>1, <1>2, <1>3, <1>4 DEF RowsInOrder
  <1>10. FormsInOrder'
    BY <1>1, <1>2, <1>3 DEF FormsInOrder
  <1>11. CursorDivides'
    <2>1. \A j \in walk.steady : j \in DOMAIN table' /\ table'[j].query = walk.query
      BY <1>1, <1>7 DEF CursorDivides
    <2>2. walk.at = "more" =>
              /\ \A j \in walk.steady \ walk.seen : Newer(walk.after, Position(j)')
              /\ \A j \in walk.seen \cap DOMAIN table' : ~Newer(walk.after, Position(j)')
      BY <1>1, <1>3, <1>6, <1>7 DEF CursorDivides
    <2>3. walk' = walk
      BY <1>2
    <2> QED BY <1>1, <2>1, <2>2, <2>3 DEF CursorDivides, Newer
  <1> QED BY <1>8, <1>9, <1>10, <1>11 DEF ListingInv

\* A row leaves its listing: what is left keeps its place.
LEMMA LeaveStep ==
    ASSUME ListingInv, NEW i \in ReportIds, Leave(i)
    PROVE  ListingInv'
  <1>1. ListingTypeOK /\ CursorDivides /\ RowsInOrder /\ FormsInOrder
    BY DEF ListingInv
  <1>2. /\ DOMAIN table' = DOMAIN table \ {i} /\ \A j \in DOMAIN table' : table'[j] = table[j]
        /\ gone' = gone \cup {i} /\ i \in DOMAIN table
        /\ UNCHANGED <<clock, objects, forms>>
    BY DEF Leave, Without
  <1>3. /\ walk' \in [at: {"first", "more", "done"}, query: Queries,
                      after: [stamp: Nat, id: Nat], steady: SUBSET ReportIds,
                      seen: SUBSET ReportIds, twice: SUBSET ReportIds]
        /\ walk'.at = walk.at /\ walk'.query = walk.query /\ walk'.after = walk.after
        /\ walk'.steady = walk.steady \ {i} /\ walk'.seen = walk.seen /\ walk'.twice = walk.twice
    BY <1>1 DEF CursorDivides, Leave
  <1>4. \A j \in DOMAIN table' : Position(j)' = Position(j)
    BY <1>2 DEF Position
  <1>5. ListingTypeOK'
    BY <1>1, <1>2, <1>3 DEF ListingTypeOK
  <1>6. RowsInOrder'
    BY <1>1, <1>2, <1>3 DEF RowsInOrder
  <1>7. FormsInOrder'
    BY <1>1, <1>2 DEF FormsInOrder
  <1>8. CursorDivides'
    <2>1. \A j \in walk'.steady : j \in DOMAIN table' /\ table'[j].query = walk'.query
      BY <1>1, <1>2, <1>3 DEF CursorDivides
    <2>2. walk'.at = "more" =>
              /\ walk'.after.stamp > 0
              /\ \A j \in walk'.steady \ walk'.seen : Newer(walk'.after, Position(j)')
              /\ \A j \in walk'.seen \cap DOMAIN table' : ~Newer(walk'.after, Position(j)')
      <3> SUFFICES ASSUME walk.at = "more"
                   PROVE  /\ walk.after.stamp > 0
                          /\ \A j \in walk'.steady \ walk'.seen : Newer(walk.after, Position(j)')
                          /\ \A j \in walk'.seen \cap DOMAIN table' :
                                 ~Newer(walk.after, Position(j)')
        BY <1>3
      <3>1. /\ walk.after.stamp > 0
            /\ \A j \in walk.steady \ walk.seen : Newer(walk.after, Position(j))
            /\ \A j \in walk.seen \cap DOMAIN table : ~Newer(walk.after, Position(j))
        BY <1>1 DEF CursorDivides
      <3> QED BY <1>2, <1>3, <1>4, <2>1, <3>1
    <2>3. /\ walk'.twice = {} /\ (walk'.at = "done" => walk'.steady \subseteq walk'.seen)
          /\ walk'.at = "first" => walk'.seen = {} /\ walk'.steady = {} /\ walk'.after = Nowhere
      BY <1>1, <1>3 DEF CursorDivides
    <2> QED BY <1>3, <2>1, <2>2, <2>3, Zenon DEF CursorDivides, Newer
  <1> QED BY <1>5, <1>6, <1>7, <1>8 DEF ListingInv

\* Every step preserves the invariant.
LEMMA ListingStep ==
    ASSUME ListingInv, [ListingNext]_listingVars
    PROVE  ListingInv'
  <1>1. ListingTypeOK /\ CursorDivides /\ RowsInOrder /\ FormsInOrder
    BY DEF ListingInv
  <1>2. /\ gone \cap DOMAIN table = {} /\ gone \subseteq ReportIds
        /\ \A j \in DOMAIN table \cup walk.seen : {j} \X (1..MaxImages) \subseteq objects
        /\ clock \in 1..MaxClock /\ objects \subseteq ReportIds \X (1..MaxImages)
        /\ MaxImages \in Nat /\ MaxClock \in Nat
        /\ \A j \in DOMAIN forms : j \notin DOMAIN table \cup gone \cup walk.seen
    BY <1>1, ListingAssumption DEF RowsInOrder, ListingTypeOK, FormsInOrder
  <1>3. /\ DOMAIN forms \subseteq ReportIds /\ \A j \in DOMAIN forms : forms[j] \in Form
        /\ \A j \in DOMAIN forms :
               /\ j \notin DOMAIN table \cup gone
               /\ {j} \X (1..forms[j].stored) \subseteq objects
               /\ forms[j].at = "writing" => forms[j].stored = MaxImages /\ forms[j].stamp > 0
    BY <1>1 DEF ListingTypeOK, FormsInOrder
  <1>4. CASE ClockTick
    <2>1. clock' \in 1..MaxClock /\ UNCHANGED <<forms, objects, table, gone, walk>>
      BY <1>2, <1>4 DEF ClockTick
    <2>2. FormsInOrder'
      BY <1>1, <2>1 DEF FormsInOrder
    <2> QED BY <1>2, <1>3, <2>1, <2>2, FormsStep
  <1>5. ASSUME NEW i \in ReportIds, NEW q \in Queries, Submit(i, q) PROVE ListingInv'
    <2>1. /\ UNCHANGED <<clock, objects, table, gone, walk>>
          /\ DOMAIN forms' = DOMAIN forms \cup {i}
          /\ forms'[i] = [at |-> "storing", stored |-> 0, stamp |-> 0, query |-> q]
          /\ \A j \in DOMAIN forms \ {i} : forms'[j] = forms[j]
          /\ i \notin DOMAIN table \cup gone
      BY <1>5 DEF Submit, With
    <2>2. forms'[i] \in Form /\ forms'[i].stored = 0 /\ forms'[i].at = "storing"
      BY <1>2, <2>1 DEF Form
    <2>3. 1..0 = {}
      OBVIOUS
    <2>4. FormsInOrder'
      BY <1>3, <2>1, <2>2, <2>3 DEF FormsInOrder
    <2>5. DOMAIN forms' \subseteq ReportIds /\ \A j \in DOMAIN forms' : forms'[j] \in Form
      BY <1>3, <2>1, <2>2
    <2> QED BY <1>2, <2>1, <2>4, <2>5, FormsStep
  <1>6. ASSUME NEW i \in DOMAIN forms, Store(i) PROVE ListingInv'
    <2>1. PICK n \in 0..MaxImages : n = forms[i].stored
      BY <1>3 DEF Form
    <2>2. /\ UNCHANGED <<clock, table, gone, walk>> /\ n < MaxImages /\ forms[i].at = "storing"
          /\ objects' = objects \cup {<<i, n + 1>>}
          /\ forms' = [forms EXCEPT ![i].stored = n + 1]
      BY <1>6, <2>1 DEF Store
    <2>3. PICK m \in 1..MaxImages : m = n + 1 /\ 1..m = (1..n) \cup {m} /\ m \in 0..MaxImages
      BY <1>2, <2>1, <2>2
    <2>4. /\ DOMAIN forms' = DOMAIN forms /\ \A j \in DOMAIN forms \ {i} : forms'[j] = forms[j]
          /\ forms'[i] = [forms[i] EXCEPT !.stored = m]
      BY <2>2, <2>3
    <2>5. forms'[i] \in Form /\ forms'[i].stored = m /\ forms'[i].at = "storing"
      BY <1>3, <2>2, <2>3, <2>4 DEF Form
    <2>6. {i} \X (1..m) \subseteq objects'
      BY <1>3, <2>1, <2>2, <2>3
    <2>7. objects' \subseteq ReportIds \X (1..MaxImages)
      BY <1>2, <1>3, <2>2, <2>3
    <2>8. FormsInOrder'
      BY <1>3, <2>2, <2>4, <2>5, <2>6 DEF FormsInOrder
    <2>9. DOMAIN forms' \subseteq ReportIds /\ \A j \in DOMAIN forms' : forms'[j] \in Form
      BY <1>3, <2>4, <2>5
    <2>10. \A j \in DOMAIN table \cup walk.seen : {j} \X (1..MaxImages) \subseteq objects'
      BY <1>2, <2>2
    <2> QED BY <1>2, <2>2, <2>7, <2>8, <2>9, <2>10, FormsStep
  <1>7. ASSUME NEW i \in DOMAIN forms, StoreFails(i) PROVE ListingInv'
    <2>1. PICK n \in 0..MaxImages : n = forms[i].stored
      BY <1>3 DEF Form
    <2>2. PICK shown \in SUBSET {<<i, k>> : k \in 1..n} :
              objects' = (objects \ ({i} \X (1..MaxImages))) \cup shown
      BY <1>7, <2>1 DEF StoreFails
    <2>3. forms' = Without(forms, i) /\ gone' = gone \cup {i} /\ UNCHANGED <<clock, table, walk>>
      BY <1>7 DEF StoreFails
    <2>4. /\ DOMAIN forms' = DOMAIN forms \ {i} /\ \A j \in DOMAIN forms' : forms'[j] = forms[j]
          /\ \A j \in DOMAIN forms' : forms'[j] \in Form
      BY <2>3, FormDropped
    <2>5. \A j : j # i => \A k : <<j, k>> \in objects => <<j, k>> \in objects'
      BY <2>2
    <2>6. shown \subseteq ReportIds \X (1..MaxImages)
      <3>1. \A k \in 1..n : k \in 1..MaxImages
        BY <1>2
      <3> QED BY <1>3, <3>1
    <2>7. objects' \subseteq ReportIds \X (1..MaxImages)
      BY <1>2, <2>2, <2>6
    <2>8. \A j \in DOMAIN table \cup walk.seen : {j} \X (1..MaxImages) \subseteq objects'
      BY <1>2, <2>5
    <2>9. FormsInOrder'
      BY <1>3, <2>3, <2>4, <2>5 DEF FormsInOrder
    <2> QED BY <1>2, <1>3, <2>3, <2>4, <2>7, <2>8, <2>9, FormsStep
  <1>8. ASSUME NEW i \in DOMAIN forms, WriteReport(i) PROVE ListingInv'
    <2>1. /\ DOMAIN forms' = DOMAIN forms /\ \A j \in DOMAIN forms \ {i} : forms'[j] = forms[j]
          /\ forms'[i] = [forms[i] EXCEPT !.at = "writing", !.stamp = clock]
          /\ forms[i].stored = MaxImages /\ UNCHANGED <<clock, objects, table, gone, walk>>
      BY <1>8 DEF WriteReport
    <2>2. clock \in 0..MaxClock /\ clock > 0
      BY <1>2
    <2>3. /\ forms'[i] \in Form /\ forms'[i].stored = MaxImages
          /\ forms'[i].stamp > 0
      BY <1>3, <2>1, <2>2 DEF Form
    <2>4. FormsInOrder'
      BY <1>3, <2>1, <2>3 DEF FormsInOrder
    <2>5. DOMAIN forms' \subseteq ReportIds /\ \A j \in DOMAIN forms' : forms'[j] \in Form
      BY <1>3, <2>1, <2>3
    <2> QED BY <1>2, <2>1, <2>4, <2>5, FormsStep
  <1>9. ASSUME NEW i \in DOMAIN forms, Abandon(i) PROVE ListingInv'
    <2>1. /\ forms' = Without(forms, i) /\ gone' = gone \cup {i}
          /\ UNCHANGED <<clock, objects, table, walk>>
      BY <1>9 DEF Abandon
    <2>2. /\ DOMAIN forms' = DOMAIN forms \ {i} /\ \A j \in DOMAIN forms' : forms'[j] = forms[j]
          /\ \A j \in DOMAIN forms' : forms'[j] \in Form
      BY <2>1, FormDropped
    <2>3. FormsInOrder'
      BY <1>3, <2>1, <2>2 DEF FormsInOrder
    <2> QED BY <1>2, <1>3, <2>1, <2>2, <2>3, FormsStep
  <1>10. ASSUME NEW q \in Queries, ChangeQuery(q) PROVE ListingInv'
    <2>1. walk' = Fresh(q) /\ UNCHANGED <<clock, forms, objects, table, gone>>
      BY <1>10 DEF ChangeQuery
    <2>2. ListingTypeOK'
      BY <1>1, <2>1 DEF ListingTypeOK, Fresh
    <2>3. RowsInOrder'
      BY <1>1, <2>1 DEF RowsInOrder, Fresh
    <2>4. FormsInOrder'
      BY <1>1, <2>1 DEF FormsInOrder
    <2>5. CursorDivides'
      BY <2>1 DEF CursorDivides, Fresh, Nowhere
    <2> QED BY <2>2, <2>3, <2>4, <2>5 DEF ListingInv
  <1>11. CASE UNCHANGED listingVars
    BY <1>1, <1>11 DEF listingVars, ListingInv, ListingTypeOK, FormsInOrder, RowsInOrder,
                       CursorDivides, Position, Newer
  <1> QED BY <1>4, <1>5, <1>6, <1>7, <1>8, <1>9, <1>10, <1>11, CommitStep, LeaveStep, PageStep
          DEF ListingNext

\* The listings' invariant holds of every reachable state.
THEOREM ListingsInOrder == ListingSpec => []ListingInv
  <1>1. ListingInit => ListingInv
    <2> SUFFICES ASSUME ListingInit PROVE ListingInv
      OBVIOUS
    <2>1. PICK q \in Queries : walk = Fresh(q)
      BY DEF ListingInit
    <2>2. DOMAIN forms = {} /\ DOMAIN table = {}
      BY DEF ListingInit
    <2>3. 1 \in 1..MaxClock
      BY ListingAssumption
    <2> QED BY <2>1, <2>2, <2>3 DEF ListingInit, ListingInv, ListingTypeOK, FormsInOrder,
               RowsInOrder, CursorDivides, Fresh, Nowhere
  <1> QED BY <1>1, ListingStep, PTL DEF ListingSpec

\* A client that follows the cursors to the end has been given every row that was
\* in the listing all the while, no row twice, and none without its screenshots
\* (build_page, after_position, newest_first, _store_all).
THEOREM PagesExact == ListingSpec => []PagesAreExact
  <1>1. ListingInv => PagesAreExact
    BY DEF ListingInv, RowsInOrder, CursorDivides, PagesAreExact
  <1> QED BY <1>1, ListingsInOrder, PTL

-----------------------------------------------------------------------------
(* Recall: what a run is told of what its worker remembers.                  *)

Kinds == [told: BOOLEAN, asks: BOOLEAN, confidence: Nat]
Rows == [valid: {"live", "closed", "gone"}, kind: Range(plan)]

\* What the types say of the rows.
LEMMA MemoryRows ==
    ASSUME RecallTypeOK
    PROVE  /\ Len(items) \in Nat /\ Ids = 1..Len(items) /\ IsFiniteSet(Ids) /\ Live \subseteq Ids
           /\ plan \in Seq(Kinds) /\ Range(plan) \subseteq Kinds
           /\ \A i \in Ids : items[i] \in Rows
  <1>1. items \in Seq(Rows) /\ plan \in Seq(Kinds)
    BY RecallAssumption DEF RecallTypeOK, Rows, Kinds
  <1>2. Len(items) \in Nat /\ Ids = 1..Len(items) /\ \A i \in Ids : items[i] \in Rows
    BY <1>1 DEF Ids
  <1>3. IsFiniteSet(1..Len(items))
    <2>1. 1 \in Int /\ Len(items) \in Int
      BY <1>2
    <2> QED BY <2>1, FS_Interval
  <1>4. Range(plan) \subseteq Kinds
    BY <1>1 DEF Range
  <1> QED BY <1>1, <1>2, <1>3, <1>4 DEF Live

\* A function on the first n numbers is a sequence.
LEMMA FunctionIsSequence ==
    ASSUME NEW n \in Nat, NEW S, NEW f \in [1..n -> S]
    PROVE  f \in Seq(S) /\ Len(f) = n /\ DOMAIN f = 1..n
  OBVIOUS

\* The rows after a commit: what it closes is not live, and the new one is.
LEMMA CommittedRows ==
    ASSUME RecallTypeOK, NEW closes \in SUBSET Live, NEW kind \in Range(plan),
           items' = Append([i \in Ids |-> IF i \in closes THEN [items[i] EXCEPT !.valid = "closed"]
                                          ELSE items[i]], [valid |-> "live", kind |-> kind])
    PROVE  /\ items' \in Seq(Rows) /\ Len(items') = Len(items) + 1
           /\ Ids' = Ids \cup {Len(items) + 1} /\ Len(items) + 1 \notin Ids
           /\ Live' = (Live \ closes) \cup {Len(items) + 1}
           /\ \A i \in Ids : items'[i].kind = items[i].kind
  <1> DEFINE old == [i \in Ids |-> IF i \in closes THEN [items[i] EXCEPT !.valid = "closed"]
                                   ELSE items[i]]
             new == [valid |-> "live", kind |-> kind]
             n == Len(items)
  <1>1. /\ n \in Nat /\ Ids = 1..n /\ \A i \in Ids : items[i] \in Rows
    BY MemoryRows
  <1>2. new \in Rows /\ new.valid = "live"
    BY DEF Rows
  <1>3. \A i \in Ids : old[i] \in Rows
    BY <1>1 DEF Rows
  <1>4. \A i \in Ids : /\ old[i].kind = items[i].kind
                       /\ old[i].valid = IF i \in closes THEN "closed" ELSE items[i].valid
    BY <1>1 DEF Rows
  <1>5. old \in [1..n -> Rows]
    BY <1>1, <1>3
  <1> HIDE DEF old, new
  <1>6. old \in Seq(Rows) /\ Len(old) = n
    BY <1>1, <1>5, FunctionIsSequence
  <1>7. items' = Append(old, new)
    BY DEF old, new
  <1>8. /\ items' \in Seq(Rows) /\ Len(items') = n + 1 /\ DOMAIN items' = 1..(n + 1)
        /\ \A i \in 1..n : items'[i] = old[i]
        /\ items'[n + 1] = new
    BY <1>1, <1>2, <1>6, <1>7
  <1>9. 1..(n + 1) = Ids \cup {n + 1} /\ n + 1 \notin Ids
    BY <1>1
  <1>10. Ids' = Ids \cup {n + 1}
    BY <1>8, <1>9 DEF Ids
  <1>11. Live' = {i \in Ids \cup {n + 1} : items'[i].valid = "live"}
    BY <1>10 DEF Live
  <1>12. \A i \in Ids : items'[i].valid = IF i \in closes THEN "closed" ELSE items[i].valid
    BY <1>1, <1>4, <1>8
  <1>13. items'[n + 1].valid = "live"
    BY <1>2, <1>8
  <1>14. Live' = (Live \ closes) \cup {n + 1}
    BY <1>9, <1>11, <1>12, <1>13 DEF Live
  <1>15. \A i \in Ids : items'[i].kind = items[i].kind
    BY <1>1, <1>4, <1>8
  <1> QED BY <1>8, <1>9, <1>10, <1>14, <1>15

\* The rows after a pass of retention.
LEMMA ExpiredRows ==
    ASSUME RecallTypeOK, NEW due \in SUBSET Ids,
           items' = [i \in Ids |-> IF i \in due THEN [items[i] EXCEPT !.valid = "gone"]
                                   ELSE items[i]]
    PROVE  /\ items' \in Seq(Rows) /\ Len(items') = Len(items) /\ Ids' = Ids
           /\ Live' = Live \ due
           /\ \A i \in Ids : items'[i].kind = items[i].kind
  <1>1. /\ Len(items) \in Nat /\ Ids = 1..Len(items) /\ \A i \in Ids : items[i] \in Rows
    BY MemoryRows
  <1>2. \A i \in Ids : /\ items'[i] \in Rows /\ items'[i].kind = items[i].kind
                       /\ items'[i].valid = IF i \in due THEN "gone" ELSE items[i].valid
    BY <1>1 DEF Rows
  <1>3. items' \in [1..Len(items) -> Rows]
    BY <1>1, <1>2
  <1>4. items' \in Seq(Rows) /\ Len(items') = Len(items) /\ DOMAIN items' = 1..Len(items)
    BY <1>1, <1>3, FunctionIsSequence
  <1>5. Ids' = Ids
    BY <1>1, <1>4 DEF Ids
  <1>6. Live' = Live \ due
    BY <1>2, <1>5 DEF Live
  <1> QED BY <1>2, <1>4, <1>5, <1>6

\* The order of the query looks at what never changes.
LEMMA OrderKept ==
    ASSUME NEW S, \A i \in S : items'[i].kind = items[i].kind
    PROVE  \A i, j \in S : Before(i, j)' <=> Before(i, j)
  BY DEF Before

\* A step that leaves the call of `recall` alone leaves its answer as good.
LEMMA AnswerKept ==
    ASSUME RecallInv, UNCHANGED recall, Ids \subseteq Ids',
           \A i \in Ids : items'[i].kind = items[i].kind
    PROVE  FoundIsFirst' /\ AnswerIsWhole'
  <1>1. FoundIsFirst /\ AnswerIsWhole
    BY DEF RecallInv, RecallIsExact
  <1>2. recall.could \subseteq Ids
    BY <1>1 DEF FoundIsFirst
  <1>3. \A i, j \in recall.could : Before(i, j)' <=> Before(i, j)
    BY <1>2, OrderKept
  <1>4. FoundIsFirst'
    <2>1. ASSUME recall.at = "ranking"
          PROVE  /\ recall \in [at: {"ranking"}, found: Seq(Ids'), could: SUBSET Ids',
                                ranks: BOOLEAN, known: {{}}]
                 /\ (recall.found \in First(recall.could, IF recall.ranks THEN Pool ELSE Limit,
                                            Before))'
      <3>1. /\ recall \in [at: {"ranking"}, found: Seq(Ids), could: SUBSET Ids, ranks: BOOLEAN,
                           known: {{}}]
            /\ recall.found \in First(recall.could, IF recall.ranks THEN Pool ELSE Limit, Before)
        BY <1>1, <2>1 DEF FoundIsFirst
      <3>2. Seq(Ids) \subseteq Seq(Ids')
        OBVIOUS
      <3>3. recall \in [at: {"ranking"}, found: Seq(Ids'), could: SUBSET Ids', ranks: BOOLEAN,
                        known: {{}}]
        BY <3>1, <3>2
      <3>4. \A m \in DOMAIN recall.found : recall.found[m] \in recall.could
        BY <3>1 DEF First
      <3>5. (recall.found \in First(recall.could, IF recall.ranks THEN Pool ELSE Limit, Before))'
        BY <1>3, <3>1, <3>4 DEF First
      <3> QED BY <3>3, <3>5
    <2> QED BY <1>2, <2>1 DEF FoundIsFirst
  <1>5. AnswerIsWhole'
    <2> SUFFICES ASSUME recall.at = "told", recall.could # {}
                 PROVE  AnswerIsWhole'
      BY DEF AnswerIsWhole
    <2>1. /\ IsInjective(recall.found) /\ Range(recall.found) \subseteq recall.could
          /\ Len(recall.found) = AtMost(recall.could, Limit)
          /\ \A m, n \in DOMAIN recall.found :
                 m < n /\ recall.found[m] \notin recall.known
                     => recall.found[n] \notin recall.known
          /\ \A i \in recall.could \ Range(recall.found), j \in Range(recall.found) \ recall.known :
                 Before(j, i) \/ i \in recall.known
      BY <1>1 DEF AnswerIsWhole
    <2>2. \A i \in recall.could \ Range(recall.found), j \in Range(recall.found) \ recall.known :
              Before(j, i)' \/ i \in recall.known
      BY <1>3, <2>1
    <2> QED BY <2>1, <2>2 DEF AnswerIsWhole
  <1> QED BY <1>4, <1>5

\* Where an element of a sequence stands, and where every other one would.
LEMMA PlaceOf ==
    ASSUME NEW n \in Nat, NEW S, NEW s \in [1..n -> S], IsInjective(s), NEW i
    PROVE  /\ i \in Range(s) => Place(s, i) \in 1..n /\ s[Place(s, i)] = i
           /\ i \notin Range(s) => Place(s, i) = n + 1
           /\ \A m \in 1..n : Place(s, s[m]) = m
  <1>1. Len(s) = n /\ DOMAIN s = 1..n
    BY FunctionIsSequence
  <1>2. ASSUME NEW x \in Range(s) PROVE Place(s, x) \in 1..n /\ s[Place(s, x)] = x
    <2>1. \E m \in DOMAIN s : s[m] = x
      BY <1>2 DEF Range
    <2>2. Place(s, x) = CHOOSE m \in DOMAIN s : s[m] = x
      BY <1>2 DEF Place
    <2> QED BY <1>1, <2>1, <2>2
  <1>3. i \notin Range(s) => Place(s, i) = n + 1
    BY <1>1 DEF Place
  <1>4. ASSUME NEW m \in 1..n PROVE Place(s, s[m]) = m
    <2>1. s[m] \in Range(s)
      BY <1>1 DEF Range
    <2>2. Place(s, s[m]) \in 1..n /\ s[Place(s, s[m])] = s[m]
      BY <1>2, <2>1
    <2> QED BY <1>1, <2>2 DEF IsInjective
  <1> QED BY <1>2, <1>3, <1>4

\* A sequence without repetition has as many members as places.
LEMMA MembersCounted ==
    ASSUME NEW n \in Nat, NEW S, NEW s \in [1..n -> S], IsInjective(s)
    PROVE  IsFiniteSet(Range(s)) /\ Cardinality(Range(s)) = n
  <1>1. DOMAIN s = 1..n
    OBVIOUS
  <1>2. s \in Bijection(1..n, Range(s))
    <2>1. s \in [1..n -> Range(s)]
      BY <1>1 DEF Range
    <2>2. \A y \in Range(s) : \E x \in 1..n : s[x] = y
      BY <1>1 DEF Range
    <2>3. \A x, y \in 1..n : s[x] = s[y] => x = y
      BY <1>1 DEF IsInjective
    <2> QED BY <2>1, <2>2, <2>3 DEF Bijection, Injection, Surjection
  <1>3. 1 \in Int /\ n \in Int
    OBVIOUS
  <1>4. IsFiniteSet(1..n) /\ Cardinality(1..n) = IF 1 > n THEN 0 ELSE n - 1 + 1
    BY <1>3, FS_Interval, ZenonT(30)
  <1>5. Cardinality(1..n) = n
    BY <1>4
  <1>6. ExistsBijection(1..n, Range(s))
    BY <1>2 DEF ExistsBijection
  <1> QED BY <1>4, <1>5, <1>6, FS_Bijection

\* What the ranker says of the memories that were found: each at most once.
LEMMA NearestOrders ==
    ASSUME NEW order \in Nearest, IsFiniteSet(Range(recall.found))
    PROVE  /\ \E k \in Nat : order \in [1..k -> Range(order)]
           /\ IsInjective(order) /\ Range(order) \subseteq Range(recall.found)
  <1> DEFINE known == vectors \cap Range(recall.found)
  <1>1. CASE order = << >>
    <2>1. DOMAIN order = {} /\ 1..0 = {}
      BY <1>1
    <2>2. Range(order) = {} /\ IsInjective(order)
      BY <2>1 DEF Range, IsInjective
    <2>3. order \in [1..0 -> Range(order)]
      BY <1>1, <2>1, <2>2
    <2> QED BY <2>2, <2>3
  <1>2. CASE order \in [1..Cardinality(known) -> known] /\ IsInjective(order)
    <2>1. Cardinality(known) \in Nat
      BY FS_Subset, FS_CardinalityType
    <2>2. DOMAIN order = 1..Cardinality(known) /\ \A m \in DOMAIN order : order[m] \in known
      BY <1>2
    <2>3. Range(order) \subseteq known /\ order \in [1..Cardinality(known) -> Range(order)]
      BY <1>2, <2>2 DEF Range
    <2> QED BY <1>2, <2>1, <2>3
  <1> QED BY <1>1, <1>2 DEF Nearest

LEMMA Capped ==
    ASSUME NEW S, NEW n \in Nat, IsFiniteSet(S)
    PROVE  AtMost(S, n) \in Nat /\ AtMost(S, n) <= n /\ AtMost(S, n) <= Cardinality(S)
  <1>1. Cardinality(S) \in Nat
    BY FS_CardinalityType
  <1> QED BY <1>1 DEF AtMost

\* The answer that `rank_by` and the cap make of what the query found.
LEMMA RankedIsWhole ==
    ASSUME RecallInv, recall.at = "ranking", NEW order \in Nearest,
           NEW told \in [1..AtMost(Range(recall.found), Limit) -> Range(recall.found)],
           IsInjective(told),
           \A l, m \in DOMAIN told : l < m => RankedAhead(order, told[l], told[m]),
           \A i \in Range(recall.found) \ Range(told), m \in DOMAIN told :
               RankedAhead(order, told[m], i)
    PROVE  /\ IsInjective(told) /\ Range(told) \subseteq recall.could
           /\ told \in Seq(Ids) /\ Len(told) = AtMost(recall.could, Limit)
           /\ \A m, n \in DOMAIN told :
                  m < n /\ told[m] \notin Range(order) => told[n] \notin Range(order)
           /\ \A i \in recall.could \ Range(told), j \in Range(told) \ Range(order) :
                  Before(j, i) \/ i \in Range(order)
  <1> DEFINE found == recall.found
             could == recall.could
             wide == IF recall.ranks THEN Pool ELSE Limit
  <1>1. /\ could \subseteq Ids /\ IsFiniteSet(could)
        /\ found \in First(could, wide, Before) /\ recall.ranks \in BOOLEAN
    <2>1. could \subseteq Ids
      BY DEF RecallInv, FoundIsFirst
    <2>2. IsFiniteSet(could)
      BY <2>1, MemoryRows, FS_Subset DEF RecallInv
    <2> QED BY <2>1, <2>2 DEF RecallInv, FoundIsFirst
  <1>2. Limit \in Nat /\ wide \in Nat /\ Limit <= wide
    BY <1>1, RecallAssumption
  <1>3. PICK f \in Nat : f = AtMost(could, wide)
    BY <1>1, <1>2, Capped
  <1>4. /\ found \in [1..f -> could] /\ IsInjective(found)
        /\ \A l, m \in DOMAIN found : l < m => Before(found[l], found[m])
        /\ \A i \in could \ Range(found), m \in DOMAIN found : Before(found[m], i)
    BY <1>1, <1>3 DEF First
  <1> HIDE DEF wide, found, could
  <1>5. IsFiniteSet(Range(found)) /\ Cardinality(Range(found)) = f
    BY <1>4, MembersCounted
  <1>6. Range(found) \subseteq could
    BY <1>4 DEF Range
  <1>7. PICK t \in Nat : t = AtMost(Range(found), Limit)
    BY <1>2, <1>5, Capped
  <1>8. /\ told \in [1..t -> Range(found)] /\ IsInjective(told)
        /\ \A l, m \in DOMAIN told : l < m => RankedAhead(order, told[l], told[m])
        /\ \A i \in Range(found) \ Range(told), m \in DOMAIN told : RankedAhead(order, told[m], i)
    BY <1>7 DEF found
  <1>9. DOMAIN told = 1..t /\ Range(told) \subseteq Range(found)
    BY <1>8 DEF Range
  <1>10. told \in Seq(Ids) /\ Len(told) = t
    <2>1. told \in [1..t -> Ids]
      BY <1>1, <1>6, <1>8 DEF could
    <2> QED BY <2>1, FunctionIsSequence
  <1>11. t = AtMost(could, Limit)
    <2>1. PICK c \in Nat : c = Cardinality(could)
      BY <1>1, FS_CardinalityType DEF could
    <2>2. f = (IF c < wide THEN c ELSE wide) /\ t = (IF f < Limit THEN f ELSE Limit)
      BY <1>3, <1>5, <1>7, <2>1 DEF AtMost
    <2>3. t = IF c < Limit THEN c ELSE Limit
      BY <1>2, <1>3, <2>1, <2>2
    <2> QED BY <2>1, <2>3 DEF AtMost
  <1>12. PICK k \in Nat : order \in [1..k -> Range(order)]
    <2>1. IsFiniteSet(Range(recall.found))
      BY <1>5 DEF found
    <2>2. \E k \in Nat : order \in [1..k -> Range(order)]
      BY <2>1, NearestOrders
    <2> QED BY <2>2
  <1>13. IsInjective(order) /\ Range(order) \subseteq Range(found)
    BY <1>5, NearestOrders DEF found
  <1>14. \A i : /\ i \in Range(order) => Place(order, i) \in 1..k
                /\ i \notin Range(order) => Place(order, i) = k + 1
    BY <1>12, <1>13, PlaceOf
  <1>15. ASSUME NEW i \in Range(found)
         PROVE  Place(found, i) \in 1..f /\ found[Place(found, i)] = i
    <2>1. found \in [1..f -> could] /\ IsInjective(found)
      BY <1>4
    <2> QED BY <2>1, PlaceOf
  <1>16. \A i, j : RankedAhead(order, i, j) <=>
             \/ Place(order, i) < Place(order, j)
             \/ Place(order, i) = Place(order, j) /\ Place(found, i) < Place(found, j)
    BY DEF RankedAhead, found
  <1>17. ASSUME NEW i, NEW j, RankedAhead(order, i, j), i \notin Range(order)
         PROVE  j \notin Range(order) /\ Place(found, i) < Place(found, j)
    <2>1. Place(order, i) = k + 1
      BY <1>14, <1>17
    <2>2. CASE j \in Range(order)
      <3>1. PICK p \in 1..k : p = Place(order, j)
        BY <1>14, <2>2
      <3>2. ~(k + 1 < p) /\ k + 1 # p
        OBVIOUS
      <3> QED BY <1>16, <1>17, <2>1, <3>1, <3>2
    <2>3. CASE j \notin Range(order)
      <3>1. Place(order, j) = k + 1 /\ ~(k + 1 < k + 1)
        BY <1>14, <2>3
      <3> QED BY <1>16, <1>17, <2>1, <2>3, <3>1
    <2> QED BY <2>2, <2>3
  <1>18. ASSUME NEW m \in DOMAIN told, NEW n \in DOMAIN told, m < n, told[m] \notin Range(order)
         PROVE  told[n] \notin Range(order)
    <2>1. RankedAhead(order, told[m], told[n])
      BY <1>8, <1>18
    <2> QED BY <1>17, <1>18, <2>1
  <1>19. ASSUME NEW i \in could \ Range(told), NEW j \in Range(told) \ Range(order)
         PROVE  Before(j, i) \/ i \in Range(order)
    <2>1. PICK m \in DOMAIN told : told[m] = j
      BY DEF Range
    <2>2. j \in Range(found)
      BY <1>9
    <2>3. PICK p \in 1..f : p = Place(found, j) /\ found[p] = j
      BY <1>15, <2>2
    <2>4. p \in DOMAIN found
      BY <1>4
    <2>5. CASE i \notin Range(found)
      BY <1>4, <2>3, <2>4, <2>5
    <2>6. CASE i \in Range(found)
      <3>1. RankedAhead(order, j, i)
        BY <1>8, <2>1, <2>6
      <3>2. Place(found, j) < Place(found, i)
        BY <1>17, <3>1
      <3>3. PICK q \in 1..f : q = Place(found, i) /\ found[q] = i
        BY <1>15, <2>6
      <3>4. q \in DOMAIN found /\ p < q
        BY <1>4, <2>3, <3>2, <3>3
      <3> QED BY <1>4, <2>3, <2>4, <3>3, <3>4
    <2> QED BY <2>5, <2>6
  <1>20. Range(told) \subseteq could
    BY <1>6, <1>9
  <1> QED BY <1>8, <1>10, <1>11, <1>18, <1>19, <1>20 DEF could

HandlerStates == [at: {"idle", "purge", "index"}, item: Nat, closes: SUBSET Ids, open: BOOLEAN]

\* The types, from the parts of the invariant that have them.
LEMMA MemoryTypes ==
    ASSUME items' \in Seq(Rows'), plan' \in Plans, Len(items') <= Len(plan'),
           vectors' \cup expiry' \cup leftover' \subseteq Ids', HandlersKeepUp',
           recall'.at \in {"idle", "ranking", "told"}, Range(recall'.found) \subseteq Ids',
           outages' \in 0..MaxOutages
    PROVE  RecallTypeOK'
  <1>1. ASSUME NEW h \in Handlers
        PROVE  /\ handler'[h].at \in {"idle", "purge", "index"}
               /\ handler'[h].item \in Ids' \cup {0} /\ handler'[h].closes \subseteq Ids'
    <2>1. handler'[h] \in HandlerStates'
      BY DEF HandlersKeepUp, HandlerStates
    <2>2. CASE handler'[h].at = "idle"
      BY <2>1, <2>2 DEF HandlersKeepUp, AtRest, HandlerStates
    <2>3. CASE handler'[h].at # "idle"
      BY <2>1, <2>3 DEF HandlersKeepUp, HandlerStates
    <2> QED BY <2>2, <2>3
  <1> QED BY <1>1 DEF RecallTypeOK, Rows

\* A step of the points and the handlers, which leaves rows and answers alone.
LEMMA RowsKept ==
    ASSUME RecallInv, UNCHANGED <<plan, items, recall>>,
           vectors' \cup expiry' \cup leftover' \subseteq Ids, outages' \in 0..MaxOutages,
           HandlersKeepUp', PointsExplained'
    PROVE  RecallInv'
  <1>1. Ids' = Ids /\ RecallTypeOK
    BY DEF Ids, RecallInv
  <1>2. RecallTypeOK'
    <2>1. Rows' = Rows /\ items \in Seq(Rows)
      BY <1>1 DEF Rows, RecallTypeOK
    <2> QED BY <1>1, <2>1, MemoryTypes DEF RecallTypeOK
  <1>3. FoundIsFirst' /\ AnswerIsWhole'
    BY <1>1, AnswerKept
  <1> QED BY <1>2, <1>3 DEF RecallInv, RecallIsExact

\* A step of one handler.
LEMMA HandlerSteps ==
    ASSUME RecallInv, NEW h \in Handlers, NEW e \in HandlerStates,
           handler' = [handler EXCEPT ![h] = e], UNCHANGED <<plan, items, expiry, recall>>,
           IF e.at = "idle" THEN e = AtRest ELSE e.item \in Ids,
           e.closes \subseteq handler[h].closes,
           e.at = "index" => e.closes \cap vectors' \subseteq leftover',
           outages' \in 0..MaxOutages,
           leftover \subseteq leftover', leftover' \subseteq Ids,
           \A i \in vectors' : i \in vectors \/ (i \in Ids /\ (i \in Live \/ i \in leftover')),
           \A i \in handler[h].closes \ e.closes : i \in vectors' => i \in leftover'
    PROVE  RecallInv'
  <1>1. /\ RecallTypeOK /\ HandlersKeepUp /\ PointsExplained
        /\ vectors \cup expiry \cup leftover \subseteq Ids
        /\ handler \in [Handlers -> HandlerStates]
    BY DEF RecallInv, RecallIsExact, RecallTypeOK, HandlersKeepUp, HandlerStates
  <1>2. Ids' = Ids /\ Live' = Live
    BY DEF Ids, Live
  <1>3. handler'[h] = e /\ \A g \in Handlers : g # h => handler'[g] = handler[g]
    BY <1>1
  <1>4. handler' \in [Handlers -> HandlerStates]
    BY <1>1
  <1>5. HandlersKeepUp'
    <2>1. ASSUME NEW g \in Handlers
          PROVE  /\ IF handler'[g].at = "idle" THEN handler'[g] = AtRest ELSE handler'[g].item \in Ids
                 /\ handler'[g].closes \cap Live = {}
                 /\ handler'[g].at = "index" => handler'[g].closes \cap vectors' \subseteq leftover'
      <3>1. CASE g = h
        BY <1>1, <1>3, <3>1 DEF HandlersKeepUp
      <3>2. CASE g # h
        <4>1. handler'[g] = handler[g]
          BY <1>3, <3>2
        <4>2. /\ handler[g].closes \cap Live = {}
              /\ handler[g].at = "index" => handler[g].closes \cap vectors \subseteq leftover
              /\ IF handler[g].at = "idle" THEN handler[g] = AtRest ELSE handler[g].item \in Ids
          BY <1>1 DEF HandlersKeepUp
        <4> QED BY <4>1, <4>2
      <3> QED BY <3>1, <3>2
    <2>2. AtRest' = AtRest
      BY DEF AtRest
    <2> QED BY <1>2, <1>4, <2>1, <2>2 DEF HandlersKeepUp, HandlerStates
  <1>6. PointsExplained'
    <2> SUFFICES ASSUME NEW i \in vectors' \ leftover'
                 PROVE  i \in Live \cup expiry \cup UNION {handler'[g].closes : g \in Handlers}
      BY <1>2 DEF PointsExplained
    <2>1. CASE i \in Live
      BY <2>1
    <2>2. CASE i \notin Live
      <3>1. i \in vectors \ leftover
        BY <2>2
      <3>2. i \in expiry \/ \E g \in Handlers : i \in handler[g].closes
        BY <1>1, <2>2, <3>1 DEF PointsExplained
      <3>3. ASSUME NEW g \in Handlers, i \in handler[g].closes PROVE i \in handler'[g].closes
        BY <1>3, <3>3
      <3> QED BY <3>2, <3>3
    <2> QED BY <2>1, <2>2
  <1>7. vectors' \cup expiry' \cup leftover' \subseteq Ids
    BY <1>1
  <1> QED BY <1>5, <1>6, <1>7, RowsKept

\* A commit closes what its memory answers anew.
LEMMA RowCommitted ==
    ASSUME RecallInv, NEW h \in Handlers, Commit(h) PROVE RecallInv'
  <1> DEFINE kind == plan[Len(items) + 1]
             closes == {i \in Live : kind.asks /\ items[i].kind.asks}
             n == Len(items) + 1
             e == [at |-> "purge", item |-> n, closes |-> closes, open |-> TRUE]
  <1>0. /\ RecallTypeOK /\ HandlersKeepUp /\ PointsExplained
        /\ vectors \cup expiry \cup leftover \subseteq Ids
        /\ handler \in [Handlers -> HandlerStates]
    BY DEF RecallInv, RecallIsExact, RecallTypeOK, HandlersKeepUp, HandlerStates
  <1>1. /\ handler[h].at = "idle" /\ Len(items) < Len(plan)
        /\ items' = Append([i \in Ids |-> IF i \in closes THEN [items[i] EXCEPT !.valid = "closed"]
                                          ELSE items[i]], [valid |-> "live", kind |-> kind])
        /\ handler' = [handler EXCEPT ![h] = e]
        /\ UNCHANGED <<plan, vectors, expiry, recall, leftover, outages>>
    BY DEF Commit
  <1>2. /\ Len(items) \in Nat /\ Ids = 1..Len(items) /\ Live \subseteq Ids
        /\ plan \in Seq(Kinds)
    BY <1>0, MemoryRows
  <1>3. kind \in Range(plan) /\ Len(plan) \in Nat /\ n \in Nat /\ n <= Len(plan)
    <2>1. Len(plan) \in Nat /\ DOMAIN plan = 1..Len(plan)
      BY <1>2
    <2>2. n \in 1..Len(plan) /\ n \in Nat
      BY <1>1, <1>2, <2>1
    <2> QED BY <2>1, <2>2 DEF Range
  <1>4. closes \subseteq Live
    OBVIOUS
  <1> HIDE DEF kind, closes
  <1>5. /\ items' \in Seq(Rows) /\ Len(items') = n /\ Ids' = Ids \cup {n} /\ n \notin Ids
        /\ Live' = (Live \ closes) \cup {n}
        /\ \A i \in Ids : items'[i].kind = items[i].kind
    BY <1>0, <1>1, <1>3, <1>4, CommittedRows
  <1> HIDE DEF n
  <1>6. e \in [at: {"idle", "purge", "index"}, item: Nat, closes: SUBSET Ids', open: BOOLEAN]
    BY <1>2, <1>3, <1>4, <1>5
  <1>7. e.at = "purge" /\ e.item = n /\ e.closes = closes
    OBVIOUS
  <1> HIDE DEF e
  <1>8. handler[h] = AtRest
    BY <1>0, <1>1 DEF HandlersKeepUp
  <1>9. handler'[h] = e /\ \A g \in Handlers : g # h => handler'[g] = handler[g]
    BY <1>0, <1>1
  <1>10. HandlersKeepUp'
    <2>1. handler' \in [Handlers -> HandlerStates']
      <3>1. \A g \in Handlers : handler'[g] \in HandlerStates'
        <4> SUFFICES ASSUME NEW g \in Handlers PROVE handler'[g] \in HandlerStates'
          OBVIOUS
        <4>1. CASE g = h
          BY <1>6, <1>9, <4>1 DEF HandlerStates
        <4>2. CASE g # h
          <5>1. handler[g] \in HandlerStates /\ handler'[g] = handler[g]
            BY <1>0, <1>9, <4>2
          <5> QED BY <1>5, <5>1 DEF HandlerStates
        <4> QED BY <4>1, <4>2
      <3> QED BY <1>0, <1>1, <3>1
    <2>2. ASSUME NEW g \in Handlers
          PROVE  /\ IF handler'[g].at = "idle" THEN handler'[g] = AtRest
                    ELSE handler'[g].item \in Ids'
                 /\ handler'[g].closes \cap Live' = {}
                 /\ handler'[g].at = "index" => handler'[g].closes \cap vectors' \subseteq leftover'
      <3>1. CASE g = h
        BY <1>2, <1>4, <1>5, <1>7, <1>9, <3>1
      <3>2. CASE g # h
        <4>1. handler'[g] = handler[g] /\ handler[g] \in HandlerStates
          BY <1>0, <1>9, <3>2
        <4>2. /\ handler[g].closes \cap Live = {} /\ handler[g].closes \subseteq Ids
              /\ handler[g].at = "index" => handler[g].closes \cap vectors \subseteq leftover
              /\ IF handler[g].at = "idle" THEN handler[g] = AtRest ELSE handler[g].item \in Ids
          BY <1>0, <4>1 DEF HandlersKeepUp, HandlerStates
        <4> QED BY <1>1, <1>5, <4>1, <4>2
      <3> QED BY <3>1, <3>2
    <2>3. AtRest' = AtRest
      BY DEF AtRest
    <2> QED BY <2>1, <2>2, <2>3 DEF HandlersKeepUp, HandlerStates
  <1>11. PointsExplained'
    <2> SUFFICES ASSUME NEW i \in vectors \ leftover
                 PROVE  i \in Live' \cup expiry \cup UNION {handler'[g].closes : g \in Handlers}
      BY <1>1 DEF PointsExplained
    <2>1. i \in Live \/ i \in expiry \/ \E g \in Handlers : i \in handler[g].closes
      BY <1>0 DEF PointsExplained
    <2>2. CASE i \in Live
      <3>1. i \in closes => i \in handler'[h].closes
        BY <1>7, <1>9
      <3> QED BY <1>5, <2>2, <3>1
    <2>3. ASSUME NEW g \in Handlers, i \in handler[g].closes PROVE i \in handler'[g].closes
      BY <1>8, <1>9, <2>3 DEF AtRest
    <2> QED BY <2>1, <2>2, <2>3
  <1>12. FoundIsFirst' /\ AnswerIsWhole'
    BY <1>1, <1>5, AnswerKept
  <1>13. RecallTypeOK'
    <2>1. Rows' = Rows
      BY <1>1 DEF Rows
    <2> QED BY <1>0, <1>1, <1>3, <1>5, <1>10, <2>1, MemoryTypes DEF RecallTypeOK
  <1> QED BY <1>10, <1>11, <1>12, <1>13 DEF RecallInv, RecallIsExact

\* A pass of retention deletes rows, and has their points to purge.
LEMMA ExpireStep ==
    ASSUME RecallInv, NEW due \in SUBSET Ids, ExpireItems(due) PROVE RecallInv'
  <1>0. /\ RecallTypeOK /\ HandlersKeepUp /\ PointsExplained
        /\ vectors \cup expiry \cup leftover \subseteq Ids
    BY DEF RecallInv, RecallIsExact, RecallTypeOK
  <1>1. /\ expiry = {} /\ expiry' = due
        /\ items' = [i \in Ids |-> IF i \in due THEN [items[i] EXCEPT !.valid = "gone"]
                                   ELSE items[i]]
        /\ UNCHANGED <<plan, vectors, handler, recall, leftover, outages>>
    BY DEF ExpireItems
  <1>2. /\ items' \in Seq(Rows) /\ Len(items') = Len(items) /\ Ids' = Ids /\ Live' = Live \ due
        /\ \A i \in Ids : items'[i].kind = items[i].kind
    BY <1>0, <1>1, ExpiredRows
  <1>3. HandlersKeepUp'
    BY <1>0, <1>1, <1>2 DEF HandlersKeepUp, AtRest
  <1>4. PointsExplained'
    BY <1>0, <1>1, <1>2 DEF PointsExplained
  <1>5. FoundIsFirst' /\ AnswerIsWhole'
    BY <1>1, <1>2, AnswerKept
  <1>6. RecallTypeOK'
    <2>1. Rows' = Rows
      BY <1>1 DEF Rows
    <2> QED BY <1>0, <1>1, <1>2, <1>3, <2>1, MemoryTypes DEF RecallTypeOK
  <1> QED BY <1>3, <1>4, <1>5, <1>6 DEF RecallInv, RecallIsExact

\* A step of the call of `recall` alone.
LEMMA CallSteps ==
    ASSUME RecallInv, UNCHANGED <<plan, items, vectors, handler, expiry, leftover, outages>>,
           recall'.at \in {"idle", "ranking", "told"}, Range(recall'.found) \subseteq Ids,
           FoundIsFirst', AnswerIsWhole'
    PROVE  RecallInv'
  <1>1. RecallTypeOK /\ HandlersKeepUp /\ PointsExplained /\ Ids' = Ids /\ Live' = Live
    BY DEF RecallInv, RecallIsExact, Ids, Live
  <1>2. HandlersKeepUp' /\ PointsExplained'
    BY <1>1 DEF HandlersKeepUp, PointsExplained, AtRest
  <1>3. RecallTypeOK'
    BY <1>1 DEF RecallTypeOK
  <1> QED BY <1>2, <1>3 DEF RecallInv, RecallIsExact

LEMMA QueryStep ==
    ASSUME RecallInv, NEW ranks \in BOOLEAN, Query(ranks) PROVE RecallInv'
  <1> DEFINE could == {i \in Live : items[i].kind.told}
             wide == IF ranks THEN Pool ELSE Limit
  <1>1. UNCHANGED <<plan, items, vectors, handler, expiry, leftover, outages>>
    BY DEF Query
  <1>2. PICK rows \in First(could, wide, Before) :
            recall' = [at |-> "ranking", found |-> rows, could |-> could, ranks |-> ranks,
                       known |-> {}]
    BY DEF Query
  <1>3. could \subseteq Ids /\ IsFiniteSet(could) /\ Ids' = Ids
    BY <1>1, MemoryRows, FS_Subset DEF RecallInv, Ids, Live
  <1>4. wide \in Nat
    BY RecallAssumption
  <1>5. rows \in [1..AtMost(could, wide) -> could] /\ AtMost(could, wide) \in Nat
    BY <1>2, <1>3, <1>4, Capped DEF First
  <1> HIDE DEF could
  <1>6. rows \in Seq(Ids) /\ Range(rows) \subseteq Ids
    <2>1. rows \in [1..AtMost(could, wide) -> Ids]
      BY <1>3, <1>5
    <2> QED BY <1>5, <2>1, FunctionIsSequence DEF Range
  <1>7. /\ recall'.at = "ranking" /\ recall'.found = rows /\ recall'.could = could
        /\ recall'.ranks = ranks
        /\ recall' \in [at: {"ranking"}, found: Seq(Ids), could: SUBSET Ids, ranks: BOOLEAN,
                        known: {{}}]
    BY <1>2, <1>3, <1>6
  <1>8. \A i, j : Before(i, j)' <=> Before(i, j)
    BY <1>1 DEF Before
  <1>9. (recall.found \in First(recall.could, IF recall.ranks THEN Pool ELSE Limit, Before))'
    BY <1>2, <1>7, <1>8 DEF First
  <1>10. FoundIsFirst'
    BY <1>3, <1>7, <1>9 DEF FoundIsFirst
  <1>11. AnswerIsWhole'
    BY <1>7 DEF AnswerIsWhole
  <1> QED BY <1>1, <1>6, <1>7, <1>10, <1>11, CallSteps

LEMMA OrderedStep == ASSUME RecallInv, Ordered PROVE RecallInv'
  <1>1. recall.at = "ranking" /\ UNCHANGED <<plan, items, vectors, handler, expiry, leftover, outages>>
    BY DEF Ordered
  <1>2. PICK order \in Nearest : \E told \in [1..AtMost(Range(recall.found), Limit) ->
                                                  Range(recall.found)] :
            /\ IsInjective(told)
            /\ \A l, m \in DOMAIN told : l < m => RankedAhead(order, told[l], told[m])
            /\ \A i \in Range(recall.found) \ Range(told), m \in DOMAIN told :
                   RankedAhead(order, told[m], i)
            /\ recall' = [recall EXCEPT !.at = "told", !.known = Range(order), !.found = told]
    BY DEF Ordered, First
  <1>3. PICK told \in [1..AtMost(Range(recall.found), Limit) -> Range(recall.found)] :
            /\ IsInjective(told)
            /\ \A l, m \in DOMAIN told : l < m => RankedAhead(order, told[l], told[m])
            /\ \A i \in Range(recall.found) \ Range(told), m \in DOMAIN told :
                   RankedAhead(order, told[m], i)
            /\ recall' = [recall EXCEPT !.at = "told", !.known = Range(order), !.found = told]
    BY <1>2
  <1>4. /\ IsInjective(told) /\ Range(told) \subseteq recall.could
        /\ told \in Seq(Ids) /\ Len(told) = AtMost(recall.could, Limit)
        /\ \A m, n \in DOMAIN told :
               m < n /\ told[m] \notin Range(order) => told[n] \notin Range(order)
        /\ \A i \in recall.could \ Range(told), j \in Range(told) \ Range(order) :
               Before(j, i) \/ i \in Range(order)
    BY <1>1, <1>3, RankedIsWhole
  <1>5. /\ recall \in [at: {"ranking"}, found: Seq(Ids), could: SUBSET Ids, ranks: BOOLEAN,
                       known: {{}}]
        /\ recall.could \subseteq Ids /\ Ids' = Ids
    BY <1>1 DEF RecallInv, FoundIsFirst, Ids
  <1>6. PICK known : known = Range(order)
    OBVIOUS
  <1>7. /\ recall'.at = "told" /\ recall'.known = known /\ recall'.found = told
        /\ recall'.could = recall.could
    BY <1>3, <1>5, <1>6
  <1>8. \A i, j : Before(i, j)' <=> Before(i, j)
    BY <1>1 DEF Before
  <1>9. FoundIsFirst'
    BY <1>5, <1>7 DEF FoundIsFirst
  <1>10. AnswerIsWhole'
    BY <1>4, <1>6, <1>7, <1>8 DEF AnswerIsWhole
  <1>11. Range(recall'.found) \subseteq Ids
    BY <1>4, <1>5, <1>7
  <1> QED BY <1>1, <1>7, <1>9, <1>10, <1>11, CallSteps

LEMMA RecallStep == RecallInv /\ [RecallNext]_recallVars => RecallInv'
  <1> SUFFICES ASSUME RecallInv, [RecallNext]_recallVars PROVE RecallInv'
    OBVIOUS
  <1>0. /\ RecallTypeOK /\ HandlersKeepUp /\ PointsExplained
        /\ vectors \cup expiry \cup leftover \subseteq Ids
        /\ handler \in [Handlers -> HandlerStates] /\ outages \in 0..MaxOutages
    BY DEF RecallInv, RecallIsExact, RecallTypeOK, HandlersKeepUp, HandlerStates
  <1>1. AtRest \in HandlerStates /\ AtRest.at = "idle" /\ AtRest.closes = {}
    BY DEF AtRest, HandlerStates
  <1>2. Outage => outages' \in 0..MaxOutages
    BY <1>0, RecallAssumption DEF Outage
  <1>3. Ids \subseteq Nat /\ \A h \in Handlers : handler[h].closes \subseteq Ids
    BY <1>0, MemoryRows DEF HandlerStates
  <1>4. ASSUME NEW h \in Handlers, NEW i \in Ids, Redelivered(h, i) PROVE RecallInv'
    <2> DEFINE e == [at |-> "index", item |-> i, closes |-> {}, open |-> items[i].valid = "live"]
    <2>1. /\ handler[h].at = "idle" /\ handler' = [handler EXCEPT ![h] = e]
          /\ UNCHANGED <<plan, items, vectors, expiry, recall, leftover, outages>>
      BY <1>4 DEF Redelivered
    <2>2. e \in HandlerStates
      <3>1. PICK b \in BOOLEAN : b = (items[i].valid = "live")
        OBVIOUS
      <3>2. e = [at |-> "index", item |-> i, closes |-> {}, open |-> b]
        BY <3>1
      <3> HIDE DEF e
      <3> QED BY <1>3, <3>2 DEF HandlerStates
    <2>3. e.at = "index" /\ e.item = i /\ e.closes = {}
      OBVIOUS
    <2>4. handler[h].closes = {}
      BY <1>0, <1>1, <2>1 DEF HandlersKeepUp
    <2> HIDE DEF e
    <2> QED BY <1>0, <2>1, <2>2, <2>3, <2>4, HandlerSteps
  <1>5. ASSUME NEW h \in Handlers, PurgeClosed(h) PROVE RecallInv'
    <2> DEFINE e == [handler[h] EXCEPT !.at = "index"]
    <2>1. /\ handler[h].at = "purge" /\ handler' = [handler EXCEPT ![h] = e]
          /\ UNCHANGED <<plan, items, expiry, recall>>
          /\ \/ vectors' = vectors \ handler[h].closes /\ UNCHANGED <<leftover, outages>>
             \/ /\ Outage /\ UNCHANGED vectors
                /\ leftover' = leftover \cup (handler[h].closes \cap vectors)
      BY <1>0, <1>5 DEF PurgeClosed
    <2>2. /\ e \in HandlerStates /\ e.at = "index" /\ e.item = handler[h].item
          /\ e.closes = handler[h].closes
      <3>1. handler[h] \in HandlerStates
        BY <1>0
      <3> QED BY <3>1 DEF HandlerStates
    <2>3. handler[h].item \in Ids
      BY <1>0, <2>1 DEF HandlersKeepUp
    <2> HIDE DEF e
    <2>4. outages' \in 0..MaxOutages
      BY <1>0, <1>2, <2>1
    <2>5. e.closes \cap vectors' \subseteq leftover' /\ leftover \subseteq leftover'
          /\ leftover' \subseteq Ids /\ vectors' \subseteq vectors
      BY <1>0, <2>1, <2>2
    <2> QED BY <2>1, <2>2, <2>3, <2>4, <2>5, HandlerSteps
  <1>6. ASSUME NEW h \in Handlers, Index(h) PROVE RecallInv'
    <2> DEFINE i == handler[h].item
    <2>1. /\ handler[h].at = "index" /\ handler' = [handler EXCEPT ![h] = AtRest]
          /\ UNCHANGED <<plan, items, expiry, recall>>
          /\ \/ /\ vectors' = IF handler[h].open THEN vectors \cup {i} ELSE vectors
                /\ leftover' = IF handler[h].open /\ i \notin Live THEN leftover \cup {i}
                               ELSE leftover
                /\ UNCHANGED outages
             \/ Outage /\ UNCHANGED <<vectors, leftover>>
      BY <1>6 DEF Index, MayIndex
    <2>2. i \in Ids /\ handler[h].closes \cap vectors \subseteq leftover
          /\ handler[h].closes \cap Live = {}
      BY <1>0, <2>1 DEF HandlersKeepUp
    <2>3. outages' \in 0..MaxOutages
      BY <1>0, <1>2, <2>1
    <2>4. /\ leftover \subseteq leftover' /\ leftover' \subseteq Ids
          /\ \A j \in vectors' : j \in vectors \/ (j \in Ids /\ (j \in Live \/ j \in leftover'))
          /\ \A j \in handler[h].closes : j \in vectors' => j \in leftover'
      BY <1>0, <2>1, <2>2
    <2> QED BY <1>1, <2>1, <2>3, <2>4, HandlerSteps
  <1>7. ASSUME NEW h \in Handlers, Crash(h) PROVE RecallInv'
    <2>1. /\ Outage /\ handler' = [handler EXCEPT ![h] = AtRest]
          /\ leftover' = leftover \cup (handler[h].closes \cap vectors)
          /\ UNCHANGED <<plan, items, vectors, expiry, recall>>
      BY <1>7 DEF Crash
    <2>2. /\ outages' \in 0..MaxOutages /\ leftover \subseteq leftover' /\ leftover' \subseteq Ids
          /\ \A j \in handler[h].closes : j \in vectors' => j \in leftover'
      BY <1>0, <1>2, <2>1
    <2> QED BY <1>1, <2>1, <2>2, HandlerSteps
  <1>8. ASSUME NEW h \in Handlers, Commit(h) PROVE RecallInv'
    BY <1>8, RowCommitted
  <1>9. ASSUME NEW due \in SUBSET Ids, ExpireItems(due) PROVE RecallInv'
    BY <1>9, ExpireStep
  <1>10. CASE PurgeExpired
    <2>1. /\ expiry' = {} /\ UNCHANGED <<plan, items, handler, recall>>
          /\ \/ vectors' = vectors \ expiry /\ UNCHANGED <<leftover, outages>>
             \/ Outage /\ leftover' = leftover \cup (expiry \cap vectors) /\ UNCHANGED vectors
      BY <1>10 DEF PurgeExpired
    <2>2. outages' \in 0..MaxOutages /\ Ids' = Ids /\ Live' = Live
      BY <1>0, <1>2, <2>1 DEF Ids, Live
    <2>3. /\ vectors' \subseteq vectors /\ leftover \subseteq leftover' /\ leftover' \subseteq Ids
          /\ vectors' \cap expiry \subseteq leftover'
      BY <1>0, <2>1
    <2>4. HandlersKeepUp'
      BY <1>0, <2>1, <2>2, <2>3 DEF HandlersKeepUp, AtRest
    <2>5. PointsExplained'
      BY <1>0, <2>1, <2>2, <2>3 DEF PointsExplained
    <2> QED BY <1>0, <2>1, <2>2, <2>3, <2>4, <2>5, RowsKept
  <1>11. ASSUME NEW ranks \in BOOLEAN, Query(ranks) PROVE RecallInv'
    BY <1>11, QueryStep
  <1>12. CASE RecallNothing \/ Told
    <2>1. /\ UNCHANGED <<plan, items, vectors, handler, expiry, leftover, outages>>
          /\ recall' = [NoRecall EXCEPT !.at = "told"] \/ recall' = NoRecall
      BY <1>12 DEF RecallNothing, Told
    <2>2. recall'.at \in {"idle", "told"} /\ recall'.could = {} /\ recall'.found = << >>
      BY <2>1 DEF NoRecall
    <2>3. Range(recall'.found) = {}
      <3>1. DOMAIN << >> = {}
        OBVIOUS
      <3> QED BY <2>2, <3>1 DEF Range
    <2>4. FoundIsFirst' /\ AnswerIsWhole'
      BY <2>2 DEF FoundIsFirst, AnswerIsWhole
    <2> QED BY <2>1, <2>2, <2>3, <2>4, CallSteps
  <1>13. CASE Ordered
    BY <1>13, OrderedStep
  <1>14. CASE UNCHANGED recallVars
    <2>1. UNCHANGED <<plan, items, vectors, handler, expiry, recall, leftover, outages>>
      BY <1>14 DEF recallVars
    <2>2. Ids' = Ids /\ Live' = Live
      BY <2>1 DEF Ids, Live
    <2>3. HandlersKeepUp' /\ PointsExplained'
      BY <1>0, <2>1, <2>2 DEF HandlersKeepUp, PointsExplained, AtRest
    <2> QED BY <1>0, <2>1, <2>3, RowsKept
  <1> QED BY <1>4, <1>5, <1>6, <1>7, <1>8, <1>9, <1>10, <1>11, <1>12, <1>13, <1>14 DEF RecallNext

\* RecallInv holds of every behaviour of Recall.
THEOREM RecallInOrder == RecallSpec => []RecallInv
  <1>1. RecallInit => RecallInv
    <2> SUFFICES ASSUME RecallInit PROVE RecallInv
      OBVIOUS
    <2>1. /\ plan \in Plans /\ items = << >> /\ vectors = {} /\ handler = [h \in Handlers |-> AtRest]
          /\ expiry = {} /\ recall = NoRecall /\ leftover = {} /\ outages = 0
      BY DEF RecallInit
    <2>2. Ids = {} /\ Live = {} /\ Len(items) = 0 /\ items \in Seq(Rows)
      BY <2>1 DEF Ids, Live
    <2>3. recall.at = "idle" /\ recall.could = {} /\ recall.found = << >>
      BY <2>1 DEF NoRecall
    <2>4. Range(recall.found) = {}
      <3>1. DOMAIN << >> = {}
        OBVIOUS
      <3> QED BY <2>3, <3>1 DEF Range
    <2>5. AtRest.at = "idle" /\ AtRest.closes = {} /\ AtRest.item = 0 /\ AtRest.open = FALSE
      BY DEF AtRest
    <2>6. HandlersKeepUp
      <3>1. AtRest \in HandlerStates
        BY DEF AtRest, HandlerStates
      <3>2. handler \in [Handlers -> HandlerStates] /\ \A h \in Handlers : handler[h] = AtRest
        BY <2>1, <3>1
      <3> QED BY <2>1, <2>5, <3>2 DEF HandlersKeepUp, HandlerStates
    <2>7. Len(plan) \in Nat /\ 0 \in 0..MaxOutages
      BY <2>1, RecallAssumption
    <2>8. RecallTypeOK
      BY <2>1, <2>2, <2>3, <2>4, <2>5, <2>7 DEF RecallTypeOK, Rows
    <2> QED BY <2>1, <2>3, <2>6, <2>8 DEF RecallInv, FoundIsFirst, RecallIsExact, PointsExplained,
            AnswerIsWhole
  <1> QED BY <1>1, RecallStep, PTL DEF RecallSpec

\* A point is of a live memory, or its purge is to come, failed or was overtaken;
\* and an answer is what the run could be told, once each, as many as fit, the
\* unranked last and in the query's order, whatever the store holds (`recall`,
\* `rank_by`, `_purge_vectors`).
THEOREM RecallExact == RecallSpec => []RecallIsExact
  <1>1. RecallInv => RecallIsExact
    BY DEF RecallInv
  <1> QED BY <1>1, RecallInOrder, PTL

-----------------------------------------------------------------------------
(* Platform: the parts side by side.                                         *)

\* A step of the platform is for each part a step of its own or none, so the
\* platform is each of them at once.
THEOREM PlatformIsItsParts ==
    Spec => /\ DeliverySpec /\ LibrarySpec /\ ToolSpec /\ CostSpec /\ DeploymentSpec
            /\ ListingSpec /\ SaveSpec /\ LogSpec /\ BoxSpec /\ FoldSpec /\ RecallSpec
  <1>1. Init => /\ DeliveryInit /\ LibraryInit /\ ToolInit /\ CostInit /\ DeploymentInit
                /\ ListingInit /\ SaveInit /\ LogInit /\ BoxInit /\ FoldInit /\ RecallInit
    BY DEF Init
  <1>2. [Next]_vars =>
           /\ [DeliveryNext]_deliveryVars /\ [LibraryNext]_libraryVars /\ [ToolNext]_toolVars
           /\ [CostNext]_costVars /\ [DeploymentNext]_deploymentVars /\ [ListingNext]_listingVars
           /\ [SaveNext]_saveVars /\ [LogNext]_logVars /\ [BoxNext]_boxVars /\ [FoldNext]_foldVars
           /\ [RecallNext]_recallVars
    <2> SUFFICES ASSUME [Next]_vars
                 PROVE  /\ [DeliveryNext]_deliveryVars /\ [LibraryNext]_libraryVars
                        /\ [ToolNext]_toolVars /\ [CostNext]_costVars
                        /\ [DeploymentNext]_deploymentVars /\ [ListingNext]_listingVars
                        /\ [SaveNext]_saveVars /\ [LogNext]_logVars /\ [BoxNext]_boxVars
                        /\ [FoldNext]_foldVars /\ [RecallNext]_recallVars
      OBVIOUS
    <2>1. CASE Delivering
      BY <2>1 DEF Delivering, Rest
    <2>2. CASE Library
      BY <2>2 DEF Library, Rest
    <2>3. CASE ToolSteps
      BY <2>3 DEF ToolSteps, Rest
    <2>4. CASE ModelSteps
      BY <2>4 DEF ModelSteps, Rest
    <2>5. CASE Deployment
      BY <2>5 DEF Deployment, Rest
    <2>6. CASE Pages
      BY <2>6 DEF Pages, Rest
    <2>7. CASE Saves
      BY <2>7 DEF Saves, Rest
    <2>8. CASE AuditLog
      BY <2>8 DEF AuditLog, Rest
    <2>9. CASE Sandbox
      BY <2>9 DEF Sandbox, Rest
    <2>10. CASE Compacting
      BY <2>10 DEF Compacting, Rest
    <2>11. CASE Recalling
      BY <2>11 DEF Recalling, Rest
    <2>12. CASE UNCHANGED vars
      BY <2>12 DEF vars
    <2> QED BY <2>1, <2>2, <2>3, <2>4, <2>5, <2>6, <2>7, <2>8, <2>9, <2>10, <2>11, <2>12 DEF Next
  <1> QED BY <1>1, <1>2, PTL DEF Spec, DeliverySpec, LibrarySpec, ToolSpec, CostSpec,
          DeploymentSpec, ListingSpec, SaveSpec, LogSpec, BoxSpec, FoldSpec, RecallSpec

\* Whatever the parts do between each other's steps, every variable of each keeps
\* its type and its bounds.
THEOREM PartsKeepTypes == Spec => []PartsTypeOK
  <1>1. /\ DeliveryInv /\ LibraryInv /\ CallInv /\ AccountInv /\ DeploymentInv /\ ListingInv
        /\ SaveInv /\ LogInv /\ BoxInv /\ ThreadFits /\ RecallInv
        => PartsTypeOK
    BY DEF PartsTypeOK, DeliveryInv, LibraryInv, CallInv, AccountInv, DeploymentInv, ListingInv,
           SaveInv, LogInv, BoxInv, ThreadFits, RecallInv
  <1> QED BY <1>1, PlatformIsItsParts, DeliveriesInOrder, LibraryInOrder, CallsInOrder,
          AccountsInOrder, DeploymentInOrder, ListingsInOrder, SavesInOrder, LogInOrder,
          BoxInOrder, ThreadsFit, RecallInOrder, PTL

\* The two vector stores show what the rows say, once nothing is under way, and
\* hide nothing from a run that asks (finalize, _reembed, recall, rank_by).
THEOREM IndexesMatchRows == Spec => []IndexMatchesRows
  <1>1. StoresAgree /\ RecallIsExact => IndexMatchesRows
    BY DEF IndexMatchesRows
  <1> QED BY <1>1, PlatformIsItsParts, StoresKeepAgreeing, RecallExact, PTL
=============================================================================

------------------------------ MODULE ToolCalls ------------------------------
(***************************************************************************)
(* The tool calls of one run.  The model emits a step of calls; each is a  *)
(* task of its own, and the tasks interleave.  The autonomy policy         *)
(* (autonomy.py) says which calls wait for a person; the middleware        *)
(* (adapters/langchain_tools.py) lets one of a step do so and defers the   *)
(* others; the tool's wrapper asks, and the executor (executor.py) checks, *)
(* looks for an earlier execution under the call's key, runs the handler,  *)
(* and records what came of it (adapters/tool_execution_store.py).         *)
(*                                                                         *)
(* A call's arguments are abstracted to its tool, so two calls of one tool *)
(* have one key (run, tool, arguments).  The pause itself is RunLifecycle; *)
(* here a parked run is decided and resumed in one step.  The run may be   *)
(* stopped, or its process die, at any moment.                             *)
(*                                                                         *)
(* Operators marked Mutant are wrong versions of the definition they       *)
(* precede; no specification uses them.                                    *)
(***************************************************************************)
EXTENDS Naturals, FiniteSets

CONSTANTS
    Tools,       \* the tools offered
    Effect,      \* side_effect_level of each
    Idempotent,  \* the tools that may be retried
    Always,      \* the tools whose approval_policy is "always"
    Levels,      \* the autonomy levels a run may have; "unset" for none
    ToolSets,    \* the sets of tools a run may have the scopes for
    NoTool,
    MaxCalls,    \* bound on the calls of a step
    MaxSteps,    \* bound on the steps of a run
    MaxRetries   \* max_retries of an idempotent tool

ASSUME ToolAssumption ==
    /\ {MaxCalls, MaxSteps, MaxRetries} \subseteq Nat
    /\ NoTool \notin Tools /\ "unset" \in Levels

VARIABLES
    run,       \* the run: status, level, policy version, scopes, steps so far
    calls,     \* the calls of the present step, by position
    recorded,  \* the tools with a succeeded row under their key
    refusals   \* how many records the database refused

toolVars == <<run, calls, recorded, refusals>>

Positions == 1..MaxCalls

CallRecords == [tool: Tools \cup {NoTool},
                at: {"unused", "new", "paused", "asked", "check", "find", "act", "succeeded",
                     "failed", "ended"},
                decision: {"none", "approved", "rejected"},
                shown: BOOLEAN,             \* a person saw this call's card
                tries: 0..(MaxRetries + 1),
                acted: BOOLEAN,             \* the handler had its effect
                row: BOOLEAN]               \* the call has an execution row

ToolTypeOK ==
    /\ run \in [status: {"new", "running", "parked", "completed", "failed"},
                level: Levels, current: BOOLEAN, tools: ToolSets \cup {{}}, steps: 0..MaxSteps]
    /\ calls \in [Positions -> CallRecords]
    /\ recorded \subseteq Tools
    /\ refusals \in 0..1

Unused == [tool |-> NoTool, at |-> "unused", decision |-> "none", shown |-> FALSE,
           tries |-> 0, acted |-> FALSE, row |-> FALSE]

ToolInit ==
    /\ run = [status |-> "new", level |-> "unset", current |-> TRUE, tools |-> {}, steps |-> 0]
    /\ calls = [i \in Positions |-> Unused]
    /\ recorded = {}
    /\ refusals = 0

-----------------------------------------------------------------------------
(***************************************************************************)
(* The policy.                                                             *)
(***************************************************************************)

Rung == [none |-> 0, internal |-> 1, external_idempotent |-> 2, external |-> 3, critical |-> 4]

\* One above the highest rung a level runs without asking.
Reach == [A0 |-> 0, A1 |-> 1, A2 |-> 2, A3 |-> 3, A4 |-> 4]

RungOf(t) ==
    IF Effect[t] = "external" /\ t \in Idempotent THEN Rung.external_idempotent
                                                   ELSE Rung[Effect[t]]

\* A run whose level was never resolved asks for everything.
RequiresApproval(t) ==
    \/ t \in Always \/ Effect[t] = "critical"
    \/ run.level \in DOMAIN Reach => RungOf(t) >= Reach[run.level]

\* A run stamped under another policy version always asks.
Decide(t) == ~run.current \/ RequiresApproval(t)

-----------------------------------------------------------------------------
(***************************************************************************)
(* The run.                                                                *)
(***************************************************************************)

Moves(i, at) == calls' = [calls EXCEPT ![i].at = at]

\* The run starts with its level, policy version and the tools it has scopes for.
BeginRun(level, current, tools) ==
    /\ run.status = "new"
    /\ run' = [run EXCEPT !.status = "running", !.level = level, !.current = current,
                          !.tools = tools]
    /\ UNCHANGED <<calls, recorded, refusals>>

StepOver == \A i \in Positions : calls[i].at \in {"unused", "ended"}

\* The model answers with a step of calls.
Think(tools) ==
    /\ run.status = "running" /\ StepOver /\ run.steps < MaxSteps
    /\ run' = [run EXCEPT !.steps = run.steps + 1]
    /\ calls' = [i \in Positions |->
                    IF i \in DOMAIN tools
                    THEN [Unused EXCEPT !.tool = tools[i], !.at = "new"] ELSE Unused]
    /\ UNCHANGED <<recorded, refusals>>

\* The model answers without a call.
Conclude ==
    /\ run.status = "running" /\ StepOver
    /\ run' = [run EXCEPT !.status = "completed"]
    /\ UNCHANGED <<calls, recorded, refusals>>

\* Stop, a crash, a run the reaper took or an approval nobody gave: the calls
\* are cut off where they stand.
CutOff ==
    /\ run.status \in {"running", "parked"}
    /\ run' = [run EXCEPT !.status = "failed"]
    /\ UNCHANGED <<calls, recorded, refusals>>

Paused == {i \in Positions : calls[i].at = "paused"}

\* _handle_outcome: every task has stopped.  One pause is shown; on more than
\* one the run fails.
Park ==
    /\ run.status = "running" /\ Paused # {}
    /\ \A i \in Positions : calls[i].at \in {"unused", "ended", "paused"}
    /\ IF Cardinality(Paused) > 1
       THEN run' = [run EXCEPT !.status = "failed"] /\ UNCHANGED calls
       ELSE /\ run' = [run EXCEPT !.status = "parked"]
            /\ calls' = [i \in Positions |-> IF i \in Paused THEN [calls[i] EXCEPT !.shown = TRUE]
                                                              ELSE calls[i]]
    /\ UNCHANGED <<recorded, refusals>>

\* A person decides and the run is resumed: the payload names no pause, and
\* goes to a task that waits for one.
ResumeCall(i, decision) ==
    /\ run.status = "parked" /\ i \in Paused
    /\ run' = [run EXCEPT !.status = "running"]
    /\ calls' = [calls EXCEPT ![i].at = "asked", ![i].decision = decision]
    /\ UNCHANGED <<recorded, refusals>>

-----------------------------------------------------------------------------
(***************************************************************************)
(* One call.                                                               *)
(***************************************************************************)

Ends(i) == Moves(i, "ended")

\* _first_gated_call, by position in the step.
FirstGatedCall(i) ==
    \A j \in Positions : j < i /\ calls[j].tool # NoTool => ~Decide(calls[j].tool)

\* awrap_tool_call: a later gated call is answered with a deferral.
Gate(i) ==
    /\ calls[i].at = "new"
    /\ IF ~Decide(calls[i].tool)      THEN Moves(i, "check")
       ELSE IF FirstGatedCall(i)      THEN Moves(i, "paused")
                                      ELSE Ends(i)
    /\ UNCHANGED <<run, recorded, refusals>>

\* The arguments do not validate, or the preview of the card raises an error
\* it does not declare: the call is answered as failed and nobody is asked.
PreviewFails(i) ==
    /\ calls[i].at = "new" /\ Decide(calls[i].tool) /\ FirstGatedCall(i)
    /\ Ends(i)
    /\ UNCHANGED <<run, recorded, refusals>>

\* Mutant: any decision lets the call go on.
AnsweredAnyhow(i) ==
    /\ calls[i].at = "asked"
    /\ Moves(i, "check")
    /\ UNCHANGED <<run, recorded, refusals>>

\* The wrapper runs again from the top and interrupt() returns the decision.
Answered(i) ==
    /\ calls[i].at = "asked"
    /\ IF calls[i].decision = "approved" THEN Moves(i, "check") ELSE Ends(i)
    /\ UNCHANGED <<run, recorded, refusals>>

\* The executor: scopes, then the approval once more.
CheckCall(i) ==
    /\ calls[i].at = "check"
    /\ IF calls[i].tool \notin run.tools THEN Ends(i) /\ UNCHANGED run
       ELSE IF Decide(calls[i].tool) /\ calls[i].decision = "none"
       THEN Ends(i) /\ run' = [run EXCEPT !.status = "failed"]
       ELSE Moves(i, "find") /\ UNCHANGED run
    /\ UNCHANGED <<recorded, refusals>>

\* find_succeeded: an execution under the key is replayed.  A tool without
\* effects has no key.
Find(i) ==
    /\ calls[i].at = "find"
    /\ IF Effect[calls[i].tool] # "none" /\ calls[i].tool \in recorded
       THEN Ends(i) ELSE Moves(i, "act")
    /\ UNCHANGED <<run, recorded, refusals>>

Allowed(t) == 1 + (IF t \in Idempotent THEN MaxRetries ELSE 0)

\* Mutant: an error the tool does not declare escapes the executor.
HandlerUntyped(i) ==
    /\ calls[i].at = "act"
    /\ \E outcome \in {"ok", "unavailable", "refused", "crashed"}, effect \in BOOLEAN :
           /\ outcome = "ok" => effect
           /\ outcome = "refused" => ~effect
           /\ LET tries == calls[i].tries + 1 IN
              calls' = [calls EXCEPT
                  ![i].tries = tries,
                  ![i].acted = @ \/ (effect /\ Effect[calls[i].tool] # "none"),
                  ![i].at = IF outcome = "ok" THEN "succeeded"
                            ELSE IF outcome = "unavailable" /\ tries < Allowed(calls[i].tool)
                                 THEN "act"
                                 ELSE IF outcome = "crashed" THEN "ended" ELSE "failed"]
    /\ UNCHANGED <<run, recorded, refusals>>

\* One attempt of the handler.  A timeout or an unavailable service is tried
\* again where the tool is idempotent; a refusal had no effect; an error the
\* tool does not declare, or an answer that does not validate, may have had.
Handler(i) ==
    /\ calls[i].at = "act"
    /\ \E outcome \in {"ok", "unavailable", "refused", "crashed"}, effect \in BOOLEAN :
           /\ outcome = "ok" => effect
           /\ outcome = "refused" => ~effect
           /\ LET tries == calls[i].tries + 1 IN
              calls' = [calls EXCEPT
                  ![i].tries = tries,
                  ![i].acted = @ \/ (effect /\ Effect[calls[i].tool] # "none"),
                  ![i].at = IF outcome = "ok" THEN "succeeded"
                            ELSE IF outcome = "unavailable" /\ tries < Allowed(calls[i].tool)
                                 THEN "act" ELSE "failed"]
    /\ UNCHANGED <<run, recorded, refusals>>

\* record, status "failed": there may be any number of these under a key.
RecordFailed(i) ==
    /\ calls[i].at = "failed"
    /\ calls' = [calls EXCEPT ![i].at = "ended", ![i].row = TRUE]
    /\ UNCHANGED <<run, recorded, refusals>>

\* record, status "succeeded": one row under a key.  A second one is refused
\* by the unique index, and the call is answered as unavailable.
RecordSucceeded(i) ==
    /\ calls[i].at = "succeeded"
    /\ LET t == calls[i].tool
           keyed == Effect[t] # "none"
       IN
       IF keyed /\ t \in recorded
       THEN Ends(i) /\ UNCHANGED recorded
       ELSE /\ calls' = [calls EXCEPT ![i].at = "ended", ![i].row = TRUE]
            /\ recorded' = IF keyed THEN recorded \cup {t} ELSE recorded
    /\ UNCHANGED <<run, refusals>>

\* The database refuses the record; the call is answered as unavailable.
RecordLost(i) ==
    /\ calls[i].at \in {"failed", "succeeded"} /\ refusals = 0
    /\ refusals' = 1
    /\ Ends(i)
    /\ UNCHANGED <<run, recorded>>

Progress(i) ==
    /\ run.status = "running"
    /\ \/ Gate(i) \/ PreviewFails(i) \/ Answered(i) \/ CheckCall(i) \/ Find(i)
       \/ Handler(i) \/ RecordFailed(i) \/ RecordSucceeded(i) \/ RecordLost(i)

ToolNext ==
    \/ \E level \in Levels, current \in BOOLEAN, tools \in ToolSets :
           BeginRun(level, current, tools)
    \/ \E n \in Positions : \E tools \in [1..n -> Tools] : Think(tools)
    \/ Conclude \/ CutOff \/ Park
    \/ \E i \in Positions : \/ Progress(i)
                            \/ \E d \in {"approved", "rejected"} : ResumeCall(i, d)

ToolSpec == ToolInit /\ [][ToolNext]_toolVars

-----------------------------------------------------------------------------
(***************************************************************************)
(* Properties.                                                             *)
(***************************************************************************)

\* A call that has to wait for a person acts only after its own card was shown
\* and approved, whatever the other calls of its step do, and no step ever
\* waits on two cards at once.
GatedActsWereShown ==
    /\ Cardinality(Paused) <= 1
    /\ \A i \in Positions :
           calls[i].acted /\ Decide(calls[i].tool) =>
               calls[i].shown /\ calls[i].decision = "approved"

\* A call that had an effect and is over is on record: it has an execution
\* row, or another call under the same key has a succeeded one - also where
\* two calls under one key raced and where the handler acted and then failed.
ActsAreOnRecord ==
    refusals = 0 =>
        \A i \in Positions :
            calls[i].acted /\ calls[i].at = "ended" =>
                calls[i].row \/ calls[i].tool \in recorded

-----------------------------------------------------------------------------
(***************************************************************************)
(* The inductive invariant.                                                *)
(***************************************************************************)

\* What lets a call go on to the executor.
Cleared(i) == Decide(calls[i].tool) => calls[i].shown /\ calls[i].decision = "approved"

\* Before the run begins, its level unknown, there is no call.
NewIsEmpty == run.status = "new" => \A i \in Positions : calls[i] = Unused

\* A call that waits is the first of its step that has to, and a person who
\* decides on it has seen its card.
WaitsFirst ==
    \A i \in Positions :
        /\ calls[i].at = "paused" => Decide(calls[i].tool) /\ FirstGatedCall(i)
        /\ calls[i].at = "asked" \/ (calls[i].at = "paused" /\ run.status = "parked") =>
              calls[i].shown

\* Where a call stands tells how often its handler was tried.
TriesFit ==
    \A i \in Positions :
        /\ calls[i].at = "unused" <=> calls[i].tool = NoTool
        /\ calls[i].at \in {"unused", "new", "paused", "asked", "check", "find"} =>
              calls[i].tries = 0 /\ ~calls[i].acted
        /\ calls[i].at = "act" => calls[i].tries < Allowed(calls[i].tool)

\* Nothing is past the gate that was not let through it.
PastTheGate ==
    \A i \in Positions :
        calls[i].acted \/ calls[i].at \in {"check", "find", "act", "succeeded", "failed"} =>
            Cleared(i)

CallInv == ToolTypeOK /\ NewIsEmpty /\ WaitsFirst /\ TriesFit /\ PastTheGate /\ ActsAreOnRecord
=============================================================================

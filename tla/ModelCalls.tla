----------------------------- MODULE ModelCalls ------------------------------
(***************************************************************************)
(* What the model calls of runs cost, and what keeps the cost in bounds.   *)
(*                                                                         *)
(* A run starts once the day's allowance has room for it (allowance.py).   *)
(* Its calls are the agent loop's (adapters/run_budget.py around           *)
(* adapters/model_retry.py) and those of its tools through the gateway     *)
(* (model/gateway.py), which tries the primary route twice and then the    *)
(* fallback, each behind its provider's circuit breaker.  Both check the   *)
(* run's ledger before the call and charge it after (model/budget.py).     *)
(* The ledger is a dictionary of one process: a run that is resumed in     *)
(* another one, or after a restart, is not known there.                    *)
(* The tenant's total of the day is kept by another hand                   *)
(* (adapters/spend_guard.py): the gateway adds each answer, the meter adds *)
(* what the agent loop spent when an invocation of the graph ends          *)
(* (adapters/langchain_usage.py).  Everything between two awaits is one    *)
(* step.                                                                   *)
(*                                                                         *)
(* Operators marked Mutant are wrong versions of the definition they       *)
(* precede; no specification uses them.                                    *)
(***************************************************************************)
EXTENDS Naturals, FiniteSets

CONSTANTS
    Runs,
    LoopOf,       \* [run |-> its agent loop]; a caller, like a tool
    ToolsOf,      \* [run |-> the tools of it that call the gateway]
    RunsPerDay,   \* the plan's runs_per_day
    SpendPerDay,  \* the plan's spend_usd_per_day
    Ceiling,      \* the profile's max_cost_usd_per_run
    MaxCost,      \* the most one call costs
    Threshold,    \* failure_threshold of a breaker
    MaxAnswers,   \* bound on the answers the providers give
    MaxFaults     \* bound on failed calls, lost records, unreadable answers and
                  \* runs that are resumed in another process

VARIABLES
    runs,     \* how far each run is
    ledger,   \* RunBudgetLedger.spend of the process the run is in
    callers,  \* the loops and the tools: where they are in a call
    breaker,  \* the circuit breaker of each provider
    meter,    \* what the handler of the run's present invocation has seen
    guard,    \* tenant_daily_spend_guard of today
    billed,   \* what the answers that arrived have cost
    spent,    \* the same for each run, as far as it was charged for it
    here,     \* of that, what it was charged since it came to this process
    stays,    \* how many times it came to a process
    missed,   \* the cost that no record has: lost or unreadable
    faults    \* how many faults there were

costVars == <<runs, ledger, callers, breaker, meter, guard, billed, spent, here, stays, missed,
              faults>>

Loops == {LoopOf[r] : r \in Runs}
Callers == Loops \cup UNION {ToolsOf[r] : r \in Runs}
Providers == {"primary", "fallback"}
CallersOf(r) == {LoopOf[r]} \cup ToolsOf[r]
RunOf(c) == CHOOSE r \in Runs : c \in CallersOf(r)

\* A call is made for one run; a day has finitely many runs, and a run finitely
\* many tools.  A breaker trips at some positive number of failures.
ASSUME CostAssumption ==
    /\ {Ceiling, MaxCost, Threshold, MaxAnswers, MaxFaults} \subseteq Nat
    /\ MaxCost > 0 /\ Threshold > 0 /\ MaxAnswers > 0
    /\ IsFiniteSet(Runs)
    /\ \A r \in Runs : IsFiniteSet(ToolsOf[r]) /\ ToolsOf[r] \cap Loops = {}
    /\ \A q, r \in Runs : CallersOf(q) \cap CallersOf(r) # {} => q = r

\* DEFAULT_ATTEMPTS of the loop, and the routes of _attempts.
Attempts == 3
Route(n) == IF n = Attempts THEN "fallback" ELSE "primary"

Amounts == 0..(MaxAnswers * MaxCost)

\* What f has for the members of S together: the number of its units.
Total(f, S) == Cardinality({x \in S \X Amounts : x[2] < f[x[1]]})

CostTypeOK ==
    /\ runs \in [Runs -> {"new", "counted", "allowed", "running", "unbilled", "paused",
                          "unbilled paused", "refused", "ended"}]
    /\ ledger \in [Runs -> Amounts]
    /\ callers \in [Callers -> [at: {"idle", "next", "calling", "recording"},
                                attempt: 0..Attempts, cost: 0..MaxCost]]
    /\ breaker \in [Providers -> [state: {"closed", "open", "half_open"},
                                  fails: 0..(Threshold - 1), cooled: BOOLEAN]]
    /\ meter \in [Runs -> Amounts]
    /\ guard \in Amounts /\ billed \in Amounts /\ missed \in Amounts
    /\ spent \in [Runs -> Amounts] /\ here \in [Runs -> Amounts]
    /\ stays \in [Runs -> Nat \ {0}]
    /\ faults \in 0..MaxFaults

NotCalling == [at |-> "idle", attempt |-> 0, cost |-> 0]

CostInit ==
    /\ runs = [r \in Runs |-> "new"]
    /\ ledger = [r \in Runs |-> 0]
    /\ callers = [c \in Callers |-> NotCalling]
    /\ breaker = [p \in Providers |-> [state |-> "closed", fails |-> 0, cooled |-> FALSE]]
    /\ meter = [r \in Runs |-> 0]
    /\ guard = 0 /\ billed = 0 /\ missed = 0
    /\ spent = [r \in Runs |-> 0] /\ here = [r \in Runs |-> 0]
    /\ stays = [r \in Runs |-> 1]
    /\ faults = 0

-----------------------------------------------------------------------------
(***************************************************************************)
(* A run, from the allowance to its end.                                   *)
(***************************************************************************)
callVars == <<callers, breaker, spent, here, stays>>

To(r, phase) == runs' = [runs EXCEPT ![r] = phase]

\* A fault happens, if there is one left.
Strikes == faults < MaxFaults /\ faults' = faults + 1

\* DailyAllowance._require_runs: count, let in, or refuse.
RequireRuns(r) ==
    /\ runs[r] = "new"
    /\ LET started == {q \in Runs : runs[q] \notin {"new", "counted", "allowed", "refused"}}
       IN To(r, IF Cardinality(started) < RunsPerDay THEN "counted" ELSE "refused")
    /\ UNCHANGED <<ledger, callVars, meter, guard, billed, missed, faults>>

\* DailyAllowance._require_spend, over spend_today.
RequireSpend(r) ==
    /\ runs[r] = "counted"
    /\ To(r, IF guard < SpendPerDay THEN "allowed" ELSE "refused")
    /\ UNCHANGED <<ledger, callVars, meter, guard, billed, missed, faults>>

\* start: the row is created and the graph invoked under a new meter.
StartRun(r) ==
    /\ runs[r] = "allowed"
    /\ To(r, "running")
    /\ UNCHANGED <<ledger, callVars, meter, guard, billed, missed, faults>>

\* resume in the process that paused the run: no allowance, a new meter, and
\* the ledger's entry as it was.
ResumeRun(r) ==
    /\ runs[r] = "paused"
    /\ To(r, "running")
    /\ UNCHANGED <<ledger, callVars, meter, guard, billed, missed, faults>>

\* resume in another process, or after a restart.  The dictionary there has
\* what the run was charged in an earlier stay, or nothing.
ResumeElsewhere(r, known) ==
    /\ runs[r] = "paused" /\ known <= spent[r] /\ Strikes
    /\ To(r, "running")
    /\ ledger' = [ledger EXCEPT ![r] = known]
    /\ here' = [here EXCEPT ![r] = 0]
    /\ stays' = [stays EXCEPT ![r] = @ + 1]
    /\ UNCHANGED <<callers, breaker, spent, meter, guard, billed, missed>>

\* The graph returns, at a pause or at its end.
Returns(r, phase) ==
    /\ runs[r] = "running"
    /\ \A c \in CallersOf(r) : callers[c].at = "idle"
    /\ To(r, phase)
    /\ UNCHANGED <<ledger, callVars, meter, guard, billed, missed, faults>>

\* What the gateway calls of these callers have cost and not yet recorded.
Owed == [c \in Callers |-> IF callers[c].at = "recording" THEN callers[c].cost ELSE 0]
Unrecorded(some) == Total(Owed, some)

\* The run is stopped or raises: its calls are cancelled where they are, and
\* an answer not yet recorded is lost with its task.
Cancelled(r) ==
    /\ runs[r] = "running"
    /\ \E c \in CallersOf(r) : callers[c].at # "idle"
    /\ Strikes
    /\ To(r, "unbilled")
    /\ missed' = missed + Unrecorded(CallersOf(r))
    /\ callers' = [c \in Callers |-> IF c \in CallersOf(r) THEN NotCalling ELSE callers[c]]
    /\ UNCHANGED <<ledger, breaker, spent, here, stays, meter, guard, billed>>

\* LangchainUsageMeter._record, in the finally of the invocation: the day's
\* total takes what the meter saw, or the failure is logged and the cost lost.
Bill(r, taken) ==
    /\ IF taken
       THEN guard' = guard + meter[r] /\ UNCHANGED <<missed, faults>>
       ELSE meter[r] > 0 /\ Strikes /\ missed' = missed + meter[r] /\ UNCHANGED guard
    /\ meter' = [meter EXCEPT ![r] = 0]

\* Mutant: a pause frees the ledger's entry, as an end does.
SettlesFreed(r, taken) ==
    /\ runs[r] \in {"unbilled", "unbilled paused"}
    /\ To(r, IF runs[r] = "unbilled" THEN "ended" ELSE "paused")
    /\ ledger' = [ledger EXCEPT ![r] = 0]
    /\ Bill(r, taken)
    /\ UNCHANGED <<callVars, billed>>

\* _handle_outcome and _fail: the entry is freed at the end, never at a pause.
Settles(r, taken) ==
    /\ runs[r] \in {"unbilled", "unbilled paused"}
    /\ To(r, IF runs[r] = "unbilled" THEN "ended" ELSE "paused")
    /\ ledger' = IF runs[r] = "unbilled" THEN [ledger EXCEPT ![r] = 0] ELSE ledger
    /\ Bill(r, taken)
    /\ UNCHANGED <<callVars, billed>>

\* The money: the ledgers, the meters and the totals.
Totals == <<ledger, meter, guard, billed, spent, here, stays, missed>>

-----------------------------------------------------------------------------
(***************************************************************************)
(* The breaker (resilience.py).                                            *)
(***************************************************************************)
Trip == [state |-> "open", fails |-> 0, cooled |-> FALSE]

\* Mutant: one failure more than the threshold trips it.
RecordFailureLate(p) ==
    LET b == breaker[p]
    IN breaker' = [breaker EXCEPT ![p] =
           IF b.state = "half_open" \/ b.fails + 1 > Threshold THEN Trip
           ELSE [b EXCEPT !.fails = @ + 1]]

RecordFailure(p) ==
    LET b == breaker[p]
    IN breaker' = [breaker EXCEPT ![p] =
           IF b.state = "half_open" \/ b.fails + 1 >= Threshold THEN Trip
           ELSE [b EXCEPT !.fails = @ + 1]]

RecordSuccess(p) ==
    breaker' = [breaker EXCEPT ![p] = [state |-> "closed", fails |-> 0, cooled |-> FALSE]]

\* before_call raises CircuitOpenError.
Refuses(p) == breaker[p].state = "open" /\ ~breaker[p].cooled

\* before_call lets the call through; an open breaker is half open from then.
PassesBreaker(p) ==
    /\ ~Refuses(p)
    /\ breaker' = IF breaker[p].state = "open"
                  THEN [breaker EXCEPT ![p].state = "half_open", ![p].cooled = FALSE]
                  ELSE breaker

\* reset_timeout_seconds have passed since the breaker opened.
Cools(p) ==
    /\ Refuses(p)
    /\ breaker' = [breaker EXCEPT ![p].cooled = TRUE]
    /\ UNCHANGED <<runs, callers, faults, Totals>>

-----------------------------------------------------------------------------
(***************************************************************************)
(* A call.                                                                 *)
(***************************************************************************)
\* RunBudgetLedger.check.
CheckLedger(r) == ledger[r] < Ceiling

\* generate_structured_traced and awrap_model_call up to the first attempt;
\* a caller over the ceiling is refused and makes none.
Generate(c) ==
    /\ callers[c] = NotCalling /\ runs[RunOf(c)] = "running"
    /\ billed + MaxCost <= MaxAnswers * MaxCost
    /\ CheckLedger(RunOf(c))
    /\ callers' = [callers EXCEPT ![c].at = "next", ![c].attempt = 1]
    /\ UNCHANGED <<runs, breaker, faults, Totals>>

\* The next attempt, or the end of them: the last error is raised, to the
\* model that called the tool or to the run.
Continue(c) ==
    callers' = [callers EXCEPT ![c] =
        IF @.attempt = Attempts THEN NotCalling
        ELSE [at |-> "next", attempt |-> @.attempt + 1, cost |-> 0]]

\* The request is on its way.  The loop's chat model has no breaker.
Calling(c) ==
    /\ callers[c].at = "next"
    /\ IF c \in Loops THEN UNCHANGED breaker ELSE PassesBreaker(Route(callers[c].attempt))
    /\ callers' = [callers EXCEPT ![c].at = "calling"]
    /\ UNCHANGED <<runs, faults, Totals>>

\* An open breaker is a failed attempt like another.
CircuitOpen(c) ==
    /\ callers[c].at = "next" /\ c \notin Loops
    /\ Refuses(Route(callers[c].attempt))
    /\ Continue(c)
    /\ UNCHANGED <<runs, breaker, faults, Totals>>

\* Timeout or error of the provider.
CallFails(c) ==
    /\ callers[c].at = "calling" /\ Strikes
    /\ IF c \in Loops THEN UNCHANGED breaker ELSE RecordFailure(Route(callers[c].attempt))
    /\ Continue(c)
    /\ UNCHANGED <<runs, Totals>>

\* The answer of the gateway's adapter cannot be read: paid for, never
\* charged, and tried again.
Unparseable(c, cost) ==
    /\ callers[c].at = "calling" /\ c \notin Loops /\ Strikes
    /\ billed + cost <= MaxAnswers * MaxCost
    /\ RecordSuccess(Route(callers[c].attempt))
    /\ billed' = billed + cost /\ missed' = missed + cost
    /\ Continue(c)
    /\ UNCHANGED <<runs, ledger, meter, guard, spent, here, stays>>

\* RunBudgetLedger.record.
Charge(r, cost) ==
    /\ ledger' = [ledger EXCEPT ![r] = @ + cost]
    /\ spent' = [spent EXCEPT ![r] = @ + cost]
    /\ here' = [here EXCEPT ![r] = @ + cost]
    /\ UNCHANGED stays

\* The loop's call answers: the handler sees it, the ledger is charged.
LoopAnswers(c, cost) ==
    /\ callers[c].at = "calling" /\ c \in Loops
    /\ billed + cost <= MaxAnswers * MaxCost
    /\ billed' = billed + cost
    /\ Charge(RunOf(c), cost)
    /\ meter' = [meter EXCEPT ![RunOf(c)] = @ + cost]
    /\ callers' = [callers EXCEPT ![c] = NotCalling]
    /\ UNCHANGED <<runs, breaker, guard, missed, faults>>

\* The gateway's call answers: _priced, _spend, and on to _record.
GatewayAnswers(c, cost) ==
    /\ callers[c].at = "calling" /\ c \notin Loops
    /\ billed + cost <= MaxAnswers * MaxCost
    /\ RecordSuccess(Route(callers[c].attempt))
    /\ billed' = billed + cost
    /\ Charge(RunOf(c), cost)
    /\ callers' = [callers EXCEPT ![c].at = "recording", ![c].cost = cost]
    /\ UNCHANGED <<runs, meter, guard, missed, faults>>

\* model_validate: the output is the tool's, or the next attempt is made.
Validate(c, valid) ==
    IF valid THEN callers' = [callers EXCEPT ![c] = NotCalling] ELSE Continue(c)

\* Mutant: only an answer that validates is recorded.
RecordValid(c, valid) ==
    /\ callers[c].at = "recording"
    /\ guard' = IF valid THEN guard + callers[c].cost ELSE guard
    /\ Validate(c, valid)
    /\ UNCHANGED <<runs, ledger, breaker, meter, billed, spent, here, stays, missed, faults>>

\* SqlSpendGuardRecorder.record: one upsert that adds; then the validation.
RecordSpend(c, valid) ==
    /\ callers[c].at = "recording"
    /\ guard' = guard + callers[c].cost
    /\ Validate(c, valid)
    /\ UNCHANGED <<runs, ledger, breaker, meter, billed, spent, here, stays, missed, faults>>

\* CompositeUsageRecorder logs a recorder that fails, and the call goes on.
SpendLost(c, valid) ==
    /\ callers[c].at = "recording" /\ Strikes
    /\ missed' = missed + callers[c].cost
    /\ Validate(c, valid)
    /\ UNCHANGED <<runs, ledger, breaker, meter, guard, billed, spent, here, stays>>

-----------------------------------------------------------------------------
CostNext ==
    \/ \E r \in Runs :
           \/ RequireRuns(r) \/ RequireSpend(r) \/ StartRun(r) \/ ResumeRun(r) \/ Cancelled(r)
           \/ \E known \in Amounts : ResumeElsewhere(r, known)
           \/ \E phase \in {"unbilled", "unbilled paused"} : Returns(r, phase)
           \/ \E taken \in BOOLEAN : Settles(r, taken)
    \/ \E c \in Callers :
           \/ Generate(c) \/ Calling(c) \/ CircuitOpen(c) \/ CallFails(c)
           \/ \E cost \in 1..MaxCost :
                  Unparseable(c, cost) \/ LoopAnswers(c, cost) \/ GatewayAnswers(c, cost)
           \/ \E valid \in BOOLEAN : RecordSpend(c, valid) \/ SpendLost(c, valid)
    \/ \E p \in Providers : Cools(p)

CostSpec == CostInit /\ [][CostNext]_costVars

\* A run is charged less than its ceiling before each call is let through, so
\* it overshoots by what its callers had in the air: one answer for the loop,
\* one for each attempt of a tool.
Overshot(r) == Ceiling + MaxCost * (1 + Attempts * Cardinality(ToolsOf[r]))

\* Pausing and being resumed gains a run nothing in the process it is in, and
\* one ceiling more, with its overshoot, in each other process it comes to.
CeilingHolds ==
    \A r \in Runs : here[r] < Overshot(r) /\ spent[r] < stays[r] * Overshot(r)

\* Every answer that arrived is in the day's total once, unless its record
\* failed or it could not be read; the invocations and the gateway calls that
\* are still open carry the rest.
SpendIsAccounted ==
    billed = guard + missed + Total(meter, Runs) + Unrecorded(Callers)

-----------------------------------------------------------------------------
(***************************************************************************)
(* The inductive invariant.                                                *)
(***************************************************************************)

Charging ==
    /\ runs \in [Runs -> {"new", "counted", "allowed", "running", "unbilled", "paused",
                          "unbilled paused", "refused", "ended"}]
    /\ ledger \in [Runs -> Nat] /\ here \in [Runs -> Nat]
    /\ callers \in [Callers -> [at: {"idle", "next", "calling", "recording"},
                                attempt: 0..Attempts, cost: 0..MaxCost]]

\* Only a run that is running has calls, and each of them is some attempt.
CallsAreOfRunning ==
    \A c \in Callers : callers[c].at # "idle" =>
        runs[RunOf(c)] = "running" /\ callers[c].attempt \in 1..Attempts

\* Until its end a run's entry in the ledger has all that it was charged here.
LedgerIsWhole == \A r \in Runs : runs[r] # "ended" => here[r] <= ledger[r]

\* The answers that the calls in the air may still be charged for.
InTheAir(r) ==
    {s \in CallersOf(r) \X (1..Attempts) :
        LET c == callers[s[1]]
        IN  /\ c.at # "idle"
            /\ IF s[1] \in Loops THEN s[2] = 1
               ELSE s[2] > c.attempt \/ (s[2] = c.attempt /\ c.at # "recording")}

\* What a run was charged here and what it may still be charged is within bounds.
AirIsBounded ==
    \A r \in Runs : here[r] + MaxCost * Cardinality(InTheAir(r)) < Overshot(r)

\* No run was charged for more than arrived, and no ledger has more than that.
ChargesArrived ==
    \A r \in Runs : ledger[r] <= spent[r] /\ here[r] <= spent[r] /\ spent[r] <= billed

\* What a run was charged in earlier stays is within the bound of each of them.
StaysAreBounded ==
    \A r \in Runs : spent[r] + Overshot(r) <= stays[r] * Overshot(r) + here[r]

AccountInv == CostTypeOK /\ SpendIsAccounted /\ ChargesArrived /\ StaysAreBounded

CostInv == Charging /\ CallsAreOfRunning /\ LedgerIsWhole /\ AirIsBounded
=============================================================================

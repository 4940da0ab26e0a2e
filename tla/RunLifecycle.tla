---------------------------- MODULE RunLifecycle ----------------------------
(***************************************************************************)
(* The life of a worker run: platform.worker_runs (run_store.py), the      *)
(* LangGraph runner that drives a run on the checkpoint of its thread      *)
(* (langgraph_runner.py), and the decision that unparks a paused run       *)
(* (approval_flow.py).                                                     *)
(*                                                                         *)
(* An activity is one call in progress in some API process: run r is also  *)
(* the call of start or stream that created it, and every member of Calls  *)
(* is one call of decide, which itself resumes the graph.  A step of an    *)
(* activity is one database transaction, one graph invocation or one       *)
(* return of one, so everything that can interleave in the program does.   *)
(* An activity invokes the graph at most once, so the approval request it  *)
(* raises, and the pause of the graph that the request is about, are named *)
(* by the activity.                                                        *)
(*                                                                         *)
(* Operators marked Mutant are wrong versions of the definition they       *)
(* precede, kept to show that the properties can fail; no specification    *)
(* uses them.                                                              *)
(***************************************************************************)
EXTENDS Naturals, FiniteSets

CONSTANTS
    Runs,          \* run ids; each is the start or stream call that owns it
    Streamed,      \* the runs begun by stream() rather than start()
    Threads,       \* conversations; a thread has one graph checkpoint
    ThreadOf,      \* the thread of each run
    Calls,         \* calls of ApproveAndResumeService.decide
    Environments,  \* the sets of faults the environment may exhibit
    NoOne          \* absence of an activity or of a run

FaultKinds == {"crash",   \* a process dies, with every activity in it
               "store",   \* a write or read of a row raises
               "audit",   \* _audit raises InfrastructureError
               "cancel",  \* Stop or shutdown cancels a streamed run's task
               "stale"}   \* a run outlives stale_run_after_seconds

Activities == Runs \cup Calls

ASSUME RunAssumption ==
    /\ Streamed \subseteq Runs
    /\ ThreadOf \in [Runs -> Threads]
    /\ Runs \cap Calls = {}
    /\ NoOne \notin Activities
    /\ Environments \subseteq SUBSET FaultKinds

VARIABLES
    runs,       \* worker_runs: status, approval_request_id, age past the limit
    approvals,  \* approval_requests, by the activity that raised it
    paused,     \* the checkpoint of a thread: who left it interrupted, how often
    pc,         \* where each activity stands
    onRun,      \* the run an activity works on
    about,      \* the request a decide call read
    seen,       \* the version of it that the call read
    env         \* the faults of this behaviour

vars == <<runs, approvals, paused, pc, onRun, about, seen, env>>

Terminal == {"completed", "failed", "cancelled"}
RunStatus == {"none", "running", "waiting_approval"} \cup Terminal
ApprovalStatus == {"none", "pending", "approved", "rejected"}

Steps == {"idle", "conflict", "reap", "reinsert", "started",   \* create
          "read", "checked", "decided", "resuming",            \* decide, resume
          "graph", "settle", "pause", "park", "finish",        \* _handle_outcome
          "giveup", "audit",
          "fail", "cancel", "lastaudit",                       \* _fail
          "ended"}

Rows == [status: RunStatus, approval: Activities \cup {NoOne}, stale: BOOLEAN]
Requests == [status: ApprovalStatus, run: Runs \cup {NoOne}, version: Nat,
             by: Calls \cup {NoOne}]

TypeOK ==
    /\ runs \in [Runs -> Rows]
    /\ approvals \in [Activities -> Requests]
    /\ paused \in [Threads -> [by: Activities \cup {NoOne}, count: 0..2]]
    /\ pc \in [Activities -> Steps]
    /\ onRun \in [Activities -> Runs \cup {NoOne}]
    /\ about \in [Calls -> Activities \cup {NoOne}]
    /\ seen \in [Calls -> Nat]
    /\ env \in Environments

Init ==
    /\ runs = [r \in Runs |-> [status |-> "none", approval |-> NoOne, stale |-> FALSE]]
    /\ approvals = [x \in Activities |->
                      [status |-> "none", run |-> NoOne, version |-> 0, by |-> NoOne]]
    /\ paused = [t \in Threads |-> [by |-> NoOne, count |-> 0]]
    /\ pc = [x \in Activities |-> "idle"]
    /\ onRun = [x \in Activities |-> IF x \in Runs THEN x ELSE NoOne]
    /\ about = [c \in Calls |-> NoOne]
    /\ seen = [c \in Calls |-> 0]
    /\ env \in Environments

Live(x) == pc[x] \notin {"idle", "ended"}
Unfinished(r) == runs[r].status \in {"running", "waiting_approval"}
SameThread(r, q) == ThreadOf[r] = ThreadOf[q]

Goto(x, step) == pc' = [pc EXCEPT ![x] = step]

(***************************************************************************)
(* run_store.py: the row, and uq_worker_runs_active_thread over it.        *)
(***************************************************************************)

\* Mutant: the index predicate forgets the waiting runs.
IndexOnRunningOnly(r) ==
    \A q \in Runs \ {r} : SameThread(r, q) => runs[q].status # "running"

\* The partial unique index: what it lets the row of r become unfinished.
IndexAllows(r) == \A q \in Runs \ {r} : SameThread(r, q) => ~Unfinished(q)

\* _insert: the row is born running.
Insert(r) == runs' = [runs EXCEPT ![r] = [status |-> "running",
                                          approval |-> NoOne, stale |-> FALSE]]

\* set_status: unconditional on the row's present status; the approval is
\* written only with a pause, and updated_at is now.
SetStatus(r, status, approval) ==
    runs' = [runs EXCEPT ![r] = [status |-> status,
                                 approval |-> IF approval = NoOne THEN runs[r].approval
                                                                  ELSE approval,
                                 stale |-> FALSE]]

(***************************************************************************)
(* create: claim the thread by inserting the row; on a conflict look for a *)
(* parked run, then reap a stale one and insert again.  Four transactions. *)
(***************************************************************************)

Claim(r) ==
    /\ pc[r] = "idle"
    /\ IF IndexAllows(r) THEN Insert(r) /\ Goto(r, "started")
                         ELSE Goto(r, "conflict") /\ UNCHANGED runs
    /\ UNCHANGED <<approvals, paused, onRun, about, seen, env>>

WaitingApprovalForThread(r) ==
    /\ pc[r] = "conflict"
    /\ Goto(r, IF \E q \in Runs : SameThread(r, q) /\ runs[q].status = "waiting_approval"
               THEN "ended" ELSE "reap")
    /\ UNCHANGED <<runs, approvals, paused, onRun, about, seen, env>>

\* Mutant: the reaper does not look at the age of the row.
AnyRunningOn(r) == {q \in Runs : SameThread(r, q) /\ runs[q].status = "running"}

StaleOn(r) == {q \in Runs : /\ SameThread(r, q)
                            /\ runs[q].status = "running"
                            /\ runs[q].stale}

ReapStaleThread(r) ==
    /\ pc[r] = "reap"
    /\ runs' = [q \in Runs |-> IF q \in StaleOn(r)
                               THEN [status |-> "failed", approval |-> runs[q].approval,
                                     stale |-> FALSE]
                               ELSE runs[q]]
    /\ Goto(r, IF StaleOn(r) = {} THEN "ended" ELSE "reinsert")
    /\ UNCHANGED <<approvals, paused, onRun, about, seen, env>>

Reinsert(r) ==
    /\ pc[r] = "reinsert"
    /\ IF IndexAllows(r) THEN Insert(r) /\ Goto(r, "started")
                         ELSE Goto(r, "ended") /\ UNCHANGED runs
    /\ UNCHANGED <<approvals, paused, onRun, about, seen, env>>

\* The database clock: a running row passes stale_run_after_seconds.  The limit
\* is set above the longest turn, so only the "stale" fault ages a driven run.
Age(r) ==
    /\ runs[r].status = "running" /\ ~runs[r].stale
    /\ Live(r) => "stale" \in env
    /\ runs' = [runs EXCEPT ![r] = [status |-> "running",
                                   approval |-> runs[r].approval, stale |-> TRUE]]
    /\ UNCHANGED <<approvals, paused, pc, onRun, about, seen, env>>

(***************************************************************************)
(* decide: read the request, check its run, then one transaction that      *)
(* writes the decision; after the commit, resume the run.                  *)
(***************************************************************************)

\* The caller may see and decide the request; a refused caller changes nothing.
ReadRequest(c, a) ==
    /\ pc[c] = "idle" /\ approvals[a].status # "none"
    /\ about' = [about EXCEPT ![c] = a]
    /\ seen' = [seen EXCEPT ![c] = approvals[a].version]
    /\ onRun' = [onRun EXCEPT ![c] = approvals[a].run]
    /\ Goto(c, "read")
    /\ UNCHANGED <<runs, approvals, paused, env>>

ResumableRun(c) ==
    /\ pc[c] = "read" /\ runs[onRun[c]].status = "waiting_approval"
    /\ Goto(c, "checked")
    /\ UNCHANGED <<runs, approvals, paused, onRun, about, seen, env>>

\* The run is not waiting, or this process does not host its graph.
RefuseRun(c) ==
    /\ pc[c] = "read"
    /\ Goto(c, "ended")
    /\ UNCHANGED <<runs, approvals, paused, onRun, about, seen, env>>

\* What save's optimistic lock compares, after request.decide saw PENDING.
StillPending(c) == seen[c] = 1 /\ approvals[about[c]].version = seen[c]

Decide(c, outcome) ==
    /\ pc[c] = "checked"
    /\ IF StillPending(c)
       THEN /\ approvals' = [approvals EXCEPT ![about[c]] =
                               [status |-> outcome, run |-> approvals[about[c]].run,
                                version |-> seen[c] + 1, by |-> c]]
            /\ Goto(c, "decided")
       ELSE Goto(c, "ended") /\ UNCHANGED approvals
    /\ UNCHANGED <<runs, paused, onRun, about, seen, env>>

\* resume re-reads the row, and refuses a run that is no longer waiting.
Resume(c) ==
    /\ pc[c] = "decided"
    /\ Goto(c, IF runs[onRun[c]].status = "waiting_approval" THEN "resuming" ELSE "ended")
    /\ UNCHANGED <<runs, approvals, paused, onRun, about, seen, env>>

(***************************************************************************)
(* The graph, on the checkpoint of the run's thread.                       *)
(***************************************************************************)

Thread(x) == ThreadOf[onRun[x]]

\* run.started or run.resumed is on the trail: ainvoke / astream begins.
EnterGraph(x) ==
    /\ pc[x] \in {"started", "resuming"}
    /\ Goto(x, "graph")
    /\ paused' = [paused EXCEPT ![Thread(x)] = [by |-> NoOne, count |-> 0]]
    /\ UNCHANGED <<runs, approvals, onRun, about, seen, env>>

\* Mutant: a second, parallel interrupt is not refused.
AnyInterruptPauses(interrupts) == IF interrupts = 0 THEN "finish" ELSE "pause"

\* _handle_outcome on a state with that many distinct interrupts.
HandleOutcome(interrupts) ==
    IF interrupts = 0 THEN "finish" ELSE IF interrupts = 1 THEN "pause" ELSE "giveup"

GraphReturns(x, interrupts) ==
    /\ pc[x] = "graph"
    /\ paused' = [paused EXCEPT ![Thread(x)] =
                    [by |-> IF interrupts = 0 THEN NoOne ELSE x, count |-> interrupts]]
    /\ Goto(x, IF x \in Streamed THEN "settle" ELSE HandleOutcome(interrupts))
    /\ UNCHANGED <<runs, approvals, onRun, about, seen, env>>

\* Mutant: the exception of the graph ends the call without _fail.
GraphErrorEscapes(x) ==
    /\ pc[x] = "graph"
    /\ Goto(x, "ended")
    /\ UNCHANGED <<runs, approvals, paused, onRun, about, seen, env>>

GraphRaises(x) ==
    /\ pc[x] = "graph"
    /\ Goto(x, "fail")
    /\ UNCHANGED <<runs, approvals, paused, onRun, about, seen, env>>

\* _settle_stream: a row that is already terminal stays; otherwise the outcome
\* is read back from the thread's checkpoint.
SettleStream(x) ==
    /\ pc[x] = "settle"
    /\ Goto(x, IF runs[onRun[x]].status \in Terminal THEN "ended"
               ELSE HandleOutcome(paused[Thread(x)].count))
    /\ UNCHANGED <<runs, approvals, paused, onRun, about, seen, env>>

(***************************************************************************)
(* _handle_outcome and _fail: what the activity writes when the graph is   *)
(* back.  An exception in _handle_outcome ends a start or a resume; the    *)
(* driver of a stream catches it and records the run as failed.            *)
(***************************************************************************)

Raised(x) == IF x \in Streamed THEN "fail" ELSE "ended"

\* Mutant: the request is raised and the run is never parked on it.
RaiseWithoutPark(x) ==
    /\ pc[x] = "pause"
    /\ approvals' = [approvals EXCEPT ![x] = [status |-> "pending", run |-> onRun[x],
                                              version |-> 1, by |-> NoOne]]
    /\ Goto(x, "audit")
    /\ UNCHANGED <<runs, paused, onRun, about, seen, env>>

CreateApproval(x) ==
    /\ pc[x] = "pause"
    /\ approvals' = [approvals EXCEPT ![x] = [status |-> "pending", run |-> onRun[x],
                                              version |-> 1, by |-> NoOne]]
    /\ Goto(x, "park")
    /\ UNCHANGED <<runs, paused, onRun, about, seen, env>>

\* The insert is refused (a malformed required_scope), or the database fails.
CreateApprovalFails(x) ==
    /\ pc[x] = "pause"
    /\ Goto(x, "giveup")
    /\ UNCHANGED <<runs, approvals, paused, onRun, about, seen, env>>

Park(x) ==
    /\ pc[x] = "park"
    /\ IF IndexAllows(onRun[x])
       THEN SetStatus(onRun[x], "waiting_approval", x) /\ Goto(x, "audit")
       ELSE Goto(x, Raised(x)) /\ UNCHANGED runs
    /\ UNCHANGED <<approvals, paused, onRun, about, seen, env>>

\* The terminal writes, by the step that makes them.
Verdict == [finish |-> "completed", giveup |-> "failed", fail |-> "failed",
            cancel |-> "cancelled"]

Conclude(x) ==
    /\ pc[x] \in DOMAIN Verdict
    /\ SetStatus(onRun[x], Verdict[pc[x]], NoOne)
    /\ Goto(x, IF pc[x] \in {"finish", "giveup"} THEN "audit" ELSE "lastaudit")
    /\ UNCHANGED <<approvals, paused, onRun, about, seen, env>>

Audited(x) ==
    /\ pc[x] \in {"audit", "lastaudit"}
    /\ Goto(x, "ended")
    /\ UNCHANGED <<runs, approvals, paused, onRun, about, seen, env>>

(***************************************************************************)
(* Faults.                                                                 *)
(***************************************************************************)

AuditFails(x) ==
    /\ "audit" \in env
    /\ pc[x] \in {"started", "resuming", "audit", "lastaudit"}
    /\ Goto(x, IF pc[x] = "audit" THEN Raised(x) ELSE "ended")
    /\ UNCHANGED <<runs, approvals, paused, onRun, about, seen, env>>

StoreFails(x) ==
    /\ "store" \in env
    /\ pc[x] \in {"read", "checked", "decided", "settle", "park", "finish", "giveup",
                  "fail", "cancel"}
    /\ Goto(x, IF pc[x] \in {"settle", "park", "finish", "giveup"} THEN Raised(x)
                                                                   ELSE "ended")
    /\ UNCHANGED <<runs, approvals, paused, onRun, about, seen, env>>

\* The task of a streamed run is cancelled: _drive records it, unless it is
\* already recording an end and is cancelled out of that too.
Cancel(x) ==
    /\ "cancel" \in env /\ x \in Streamed
    /\ \/ /\ pc[x] \in {"graph", "settle", "pause", "park", "finish", "giveup", "audit"}
          /\ Goto(x, "cancel")
       \/ /\ pc[x] \in {"fail", "cancel", "lastaudit"}
          /\ Goto(x, "ended")
    /\ UNCHANGED <<runs, approvals, paused, onRun, about, seen, env>>

Crash(x) ==
    /\ "crash" \in env /\ Live(x)
    /\ Goto(x, "ended")
    /\ UNCHANGED <<runs, approvals, paused, onRun, about, seen, env>>

-----------------------------------------------------------------------------

\* What the code itself does next for an activity once it has begun.
Progress(x) ==
    \/ x \in Runs /\ (WaitingApprovalForThread(x) \/ ReapStaleThread(x) \/ Reinsert(x))
    \/ x \in Calls /\ (ResumableRun(x) \/ RefuseRun(x) \/ Resume(x)
                       \/ \E o \in {"approved", "rejected"} : Decide(x, o))
    \/ EnterGraph(x)
    \/ \E n \in 0..2 : GraphReturns(x, n)
    \/ GraphRaises(x)
    \/ SettleStream(x)
    \/ CreateApproval(x)
    \/ CreateApprovalFails(x)
    \/ Park(x)
    \/ Conclude(x)
    \/ Audited(x)

Next ==
    \/ \E r \in Runs : Claim(r) \/ Age(r)
    \/ \E c \in Calls, a \in Activities : ReadRequest(c, a)
    \/ \E x \in Activities : Progress(x)
    \/ \E x \in Activities : AuditFails(x) \/ StoreFails(x) \/ Cancel(x) \/ Crash(x)

Spec == Init /\ [][Next]_vars

\* Every started call keeps being scheduled by its event loop; nobody has to
\* send a turn, decide a request or press Stop.
FairSpec == Spec /\ \A x \in Activities : WF_vars(Progress(x))

-----------------------------------------------------------------------------

\* At most one unfinished run per thread, through every order of inserts,
\* reaps, resurrecting status writes and faults: what create relies on when it
\* claims a thread by inserting (run_store.py create).
OneUnfinishedPerThread ==
    \A r, q \in Runs : r # q /\ SameThread(r, q) => ~(Unfinished(r) /\ Unfinished(q))

\* A decision, once committed, is never decided again or altered by another
\* decider that read the request while it was pending (repositories.py save).
DecisionIsFinal ==
    [][\A a \in Activities : approvals[a].by # NoOne => approvals'[a] = approvals[a]]_vars

\* With no fault but crashes and failing statements, two activities are never
\* in the graph of one thread together, though a resumed run's row never goes
\* back to running and a paused run's request can be decided before the pause
\* is recorded: two turns do not write one checkpoint.
GraphExclusive ==
    env \subseteq {"crash", "store"} =>
        \A x, y \in Activities :
            pc[x] = "graph" /\ pc[y] = "graph" /\ Thread(x) = Thread(y) => x = y

\* Under the same faults, a decision is handed to the very pause its request
\* was raised for: resume carries no interrupt id, so nothing but the order of
\* steps keeps the answer of one pause from being given to another.
ResumesItsOwnPause ==
    [][env \subseteq {"crash", "store"} =>
        \A c \in Calls : pc[c] = "resuming" /\ pc'[c] = "graph" =>
            paused[Thread(c)] = [by |-> about[c], count |-> 1]]_vars

\* The contract's view of a thread and of a request.
Conversation == INSTANCE TurnContract WITH
    calm <- env \subseteq {"crash", "store"},
    open <- [t \in Threads |-> {r \in Runs : ThreadOf[r] = t /\ Unfinished(r)}],
    inside <- [t \in Threads |-> {x \in Activities : pc[x] = "graph" /\ Thread(x) = t}],
    question <- [t \in Threads |-> IF paused[t].count = 1 THEN {paused[t].by} ELSE {}],
    asked <- {a \in Activities : approvals[a].status # "none"},
    decided <- [a \in Activities |-> {approvals[a].by} \ {NoOne}]

\* Whatever crashes and whichever statement fails, start, stream, decide and
\* resume keep the conversation's contract: one driver of the graph at a time,
\* of an unfinished run, and a question is answered once, by the decision of the
\* request that was raised for it.
KeepsTurns == Conversation!Spec

\* Without faults every card in the inbox can be decided: the run of a pending
\* request is waiting, or the activity that raised it is about to park it.
PendingIsDecidable ==
    env = {} => \A a \in Activities : approvals[a].status = "pending" =>
        runs[approvals[a].run].status = "waiting_approval" \/ pc[a] = "park"

\* Without faults no run stays running: every turn is settled or parked.
RunSettles == \A r \in Runs : runs[r].status = "running" ~> runs[r].status # "running"

\* "the only thing that unparks it is a decision on this row": a parked run's
\* request is still to be decided, or its decision is being carried out.
ParkedOnOpenDecision ==
    \A r \in Runs : runs[r].status = "waiting_approval" =>
        \/ approvals[runs[r].approval].status = "pending"
        \/ \E c \in Calls : onRun[c] = r /\ approvals[about[c]].by = c /\ Live(c)
-----------------------------------------------------------------------------
(***************************************************************************)
(* Why GraphExclusive holds: the right to run the graph of a run is a      *)
(* token.  The call that created the run holds it while the row is         *)
(* running; creating the approval request hands it to the request, the     *)
(* decision to the decide call, and that call's next request takes it on.  *)
(***************************************************************************)

Safe == env \subseteq {"crash", "store"}

\* The steps at which a starter, and a decide call, hold the token.
Driving == {"started", "graph", "settle", "pause", "park", "finish", "giveup", "fail", "cancel"}
Resuming == {"resuming", "graph", "settle", "pause", "finish", "giveup", "fail"}
InCharge == {"decided"} \cup Resuming

\* Where a call that has not touched its run may stand.
Bystander == {"idle", "read", "ended"}

\* The steps of create and of decide, and the steps after a request is raised.
Creating == {"idle", "conflict", "reap", "reinsert"}
Deciding == {"read", "checked", "decided", "resuming"}
OnlyStarters == {"conflict", "reap", "reinsert", "started", "settle", "cancel"}
Late == {"park", "audit", "fail", "cancel", "lastaudit", "ended"}

\* The local variables of the activities.
LocalsInv ==
    /\ \A r \in Runs : onRun[r] = r /\ pc[r] \notin Deciding
    /\ \A c \in Calls :
        /\ pc[c] \notin OnlyStarters
        /\ pc[c] # "idle" => /\ about[c] \in Activities
                             /\ onRun[c] \in Runs
                             /\ approvals[about[c]].status # "none"
                             /\ approvals[about[c]].run = onRun[c]
    /\ \A r \in Runs : pc[r] \in Creating => runs[r].status = "none"

\* A request is pending exactly at version 1, and names its run.
ApprovalsInv ==
    \A a \in Activities :
        /\ approvals[a].status = "none" <=> approvals[a].version = 0
        /\ approvals[a].status = "none" => approvals[a].run = NoOne
        /\ approvals[a].status = "pending" <=> approvals[a].version = 1
        /\ approvals[a].by = NoOne <=> approvals[a].status \in {"none", "pending"}
        /\ approvals[a].status # "none" =>
              /\ approvals[a].run \in Runs
              /\ pc[a] \in Late
              /\ pc[approvals[a].run] \notin Creating

\* A starter that still drives its run finds its row running and not stale.
StarterOwns == \A r \in Runs : pc[r] \in Driving => runs[r].status = "running" /\ ~runs[r].stale

\* A decide call that carries its decision out finds the row waiting.
ResumerOwns == \A c \in Calls : pc[c] \in Resuming => runs[onRun[c]].status = "waiting_approval"

\* Until a run first parks, no decide call has got past reading its request.
NotYetParked ==
    \A r \in Runs : runs[r].status \in {"none", "running"} =>
        /\ \A c \in Calls : onRun[c] = r => pc[c] \in Bystander
        /\ \A a \in Activities : approvals[a].run = r => a = r

\* One token per run.
OneToken ==
    /\ \A a, b \in Activities :
        /\ approvals[a].status = "pending" /\ approvals[b].status = "pending"
        /\ approvals[a].run = approvals[b].run
        => a = b
    /\ \A a \in Activities, c \in Calls :
        approvals[a].status = "pending" /\ pc[c] \in InCharge => onRun[c] # approvals[a].run
    /\ \A c, d \in Calls :
        pc[c] \in InCharge /\ pc[d] \in InCharge /\ onRun[c] = onRun[d] => c = d

\* The inductive invariant: the token discipline, and the index underneath.
TokenInv ==
    /\ LocalsInv
    /\ ApprovalsInv
    /\ OneUnfinishedPerThread
    /\ Safe => StarterOwns /\ ResumerOwns /\ NotYetParked /\ OneToken
-----------------------------------------------------------------------------
(***************************************************************************)
(* Why ResumesItsOwnPause and PendingIsDecidable hold: the checkpoint      *)
(* follows the token.  From the graph's return with one interrupt to the   *)
(* resume of the decided request, nobody else has the right to enter the   *)
(* graph of the thread, so the checkpoint keeps the pause of the activity  *)
(* that raised the request.                                                *)
(***************************************************************************)

\* The checkpoint of r's thread is the one pause of activity a.
PausedBy(r, a) == paused[ThreadOf[r]] = [by |-> a, count |-> 1]

\* An activity that read its own interrupt back still finds it.
OutcomeIsOwn ==
    \A x \in Activities :
        /\ pc[x] = "pause" => PausedBy(onRun[x], x)
        /\ pc[x] = "settle" /\ paused[Thread(x)].count = 1 => paused[Thread(x)].by = x

\* A pending request of an unfinished run is about the present checkpoint; one
\* whose run was ended under it was raised by the starter, and no decide call
\* gets past reading it.
PendingIsPause ==
    \A a \in Activities : approvals[a].status = "pending" =>
        IF Unfinished(approvals[a].run)
        THEN PausedBy(approvals[a].run, a)
        ELSE /\ a = approvals[a].run
             /\ \A c \in Calls : onRun[c] = approvals[a].run => pc[c] \in Bystander

\* A decide call about to resume finds its run waiting and its pause in place.
DecidedIsPause ==
    \A c \in Calls : pc[c] \in {"decided", "resuming"} =>
        runs[onRun[c]].status = "waiting_approval" /\ PausedBy(onRun[c], about[c])

\* Who parks, parks the run its own request names.
ParksItsRun == \A x \in Activities : pc[x] = "park" => approvals[x].run = onRun[x]

PauseInv ==
    /\ ParksItsRun
    /\ Safe => OutcomeIsOwn /\ PendingIsPause /\ DecidedIsPause
    /\ PendingIsDecidable

\* Why the contract is kept: beside that, whoever drives the graph has taken the
\* question out of the checkpoint, and a call that goes to resume is the decider.
DriveInv ==
    Safe => /\ \A x \in Activities : pc[x] = "graph" => paused[Thread(x)].count = 0
            /\ \A c \in Calls : pc[c] \in {"decided", "resuming"} => approvals[about[c]].by = c
=============================================================================

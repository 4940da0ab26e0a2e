----------------------------- MODULE IngestJobs -----------------------------
(***************************************************************************)
(* The durable upload queue: knowledge.ingest_jobs (ingest_jobs.py) and    *)
(* the consumer that drains it under a lease (consumers/ingest.py).        *)
(*                                                                         *)
(* A worker is one drain_one at a time, with the heartbeat task that runs  *)
(* beside it.  It works from the copy of the row that claim_next returned: *)
(* attempt is the count it was handed, and mark_done and mark_failed write *)
(* by job id alone.  A step is one transaction, or one await of _process.  *)
(* Faults other than timeouts are counted: a behaviour has finitely many.  *)
(*                                                                         *)
(* Operators marked Mutant are wrong versions of the definition they       *)
(* precede, kept to show that the properties can fail; no specification    *)
(* uses them.                                                              *)
(***************************************************************************)
EXTENDS Naturals, FiniteSets

CONSTANTS
    Jobs,          \* uploaded files
    Workers,       \* concurrent drain_one calls, of one process or several
    MaxAttempts,   \* max_attempts of a job
    MaxFaults,     \* bound on the faults of one behaviour
    Environments,  \* the sets of faults the environment may exhibit
    NoJob          \* absence of a job

FaultKinds == {"crash",    \* the worker process dies or is shut down
               "store",    \* mark_done or mark_failed raises
               "renewal",  \* renew_lease raises
               "stall",    \* a worker is paused past its lease
               "timeout"}  \* a job exceeds job_timeout_seconds

ASSUME JobAssumption ==
    /\ MaxAttempts \in Nat \ {0}
    /\ MaxFaults \in Nat
    /\ NoJob \notin Jobs
    /\ Environments \subseteq SUBSET FaultKinds

VARIABLES
    jobs,     \* the rows: status, attempts, available_at reached, lease
    pc,       \* where each worker stands
    job,      \* the job it holds
    attempt,  \* the attempts of the row it was handed
    beating,  \* the workers whose heartbeat task is alive
    faults,   \* how many faults have happened
    env       \* the faults of this behaviour

vars == <<jobs, pc, job, attempt, beating, faults, env>>

Settled == {"done", "failed"}
Rows == [status: {"absent", "queued", "processing"} \cup Settled, attempts: Nat, due: BOOLEAN,
         lease: {"none", "held", "lapsed"}]

TypeOK ==
    /\ jobs \in [Jobs -> Rows]
    /\ pc \in [Workers -> {"idle", "working", "indexed", "marked", "failing"}]
    /\ job \in [Workers -> Jobs \cup {NoJob}]
    /\ attempt \in [Workers -> Nat]
    /\ beating \subseteq Workers
    /\ faults \in 0..MaxFaults
    /\ env \in Environments

Init ==
    /\ jobs = [j \in Jobs |-> [status |-> "absent", attempts |-> 0, due |-> FALSE,
                               lease |-> "none"]]
    /\ pc = [w \in Workers |-> "idle"]
    /\ job = [w \in Workers |-> NoJob]
    /\ attempt = [w \in Workers |-> 0]
    /\ beating = {}
    /\ faults = 0
    /\ env \in Environments

Goto(w, step) == pc' = [pc EXCEPT ![w] = step]

\* drain_one is over: its finally clause cancels the heartbeat.
Leave(w) ==
    /\ Goto(w, "idle")
    /\ job' = [job EXCEPT ![w] = NoJob]
    /\ attempt' = [attempt EXCEPT ![w] = 0]
    /\ beating' = beating \ {w}

\* A fault of that kind strikes, if this environment has it and any are left.
Strikes(kind) == kind \in env /\ faults < MaxFaults /\ faults' = faults + 1

-----------------------------------------------------------------------------

\* An upload: the row is queued, and due at once.
Enqueue(j) ==
    /\ jobs[j].status = "absent"
    /\ jobs' = [jobs EXCEPT ![j] = [status |-> "queued", attempts |-> 0, due |-> TRUE,
                                   lease |-> "none"]]
    /\ UNCHANGED <<pc, job, attempt, beating, faults, env>>

\* Mutant: a job that is already processing is claimable whatever its lease.
ClaimableWithoutLease(j) ==
    \/ jobs[j].status = "queued" /\ jobs[j].due
    \/ jobs[j].status = "processing"

\* Mutant: the arm for expired leases is missing.
ClaimableWhenQueued(j) == jobs[j].status = "queued" /\ jobs[j].due

\* claim_next's predicate.
Claimable(j) ==
    \/ jobs[j].status = "queued" /\ jobs[j].due
    \/ jobs[j].status = "processing" /\ jobs[j].lease = "lapsed"

ClaimNext(w, j) ==
    /\ pc[w] = "idle" /\ Claimable(j)
    /\ jobs' = [jobs EXCEPT ![j] = [status |-> "processing", attempts |-> jobs[j].attempts + 1,
                                   due |-> jobs[j].due, lease |-> "held"]]
    /\ Goto(w, "working")
    /\ job' = [job EXCEPT ![w] = j]
    /\ attempt' = [attempt EXCEPT ![w] = jobs[j].attempts + 1]
    /\ beating' = beating \cup {w}
    /\ UNCHANGED <<faults, env>>

\* renew_lease's predicate: still processing, at the attempt w was handed.
StillOwns(w) ==
    jobs[job[w]].status = "processing" /\ jobs[job[w]].attempts = attempt[w]

\* One round of _beat: push the lease forward, or stop beating.
Beat(w) ==
    /\ w \in beating
    /\ IF StillOwns(w)
       THEN /\ jobs' = [jobs EXCEPT ![job[w]] =
                          [status |-> "processing", attempts |-> attempt[w],
                           due |-> jobs[job[w]].due, lease |-> "held"]]
            /\ UNCHANGED beating
       ELSE beating' = beating \ {w} /\ UNCHANGED jobs
    /\ UNCHANGED <<pc, job, attempt, faults, env>>

\* The exception leaves _beat's loop: the heartbeat task is over.
BeatRaises(w) ==
    /\ w \in beating /\ Strikes("renewal")
    /\ beating' = beating \ {w}
    /\ UNCHANGED <<jobs, pc, job, attempt, env>>

\* lease_until passes.  heartbeat_seconds is shorter than lease_seconds, so a
\* lease that is still beaten for lapses only when its worker stalls.
Lapse(j) ==
    /\ jobs[j].status = "processing" /\ jobs[j].lease = "held"
    /\ IF \E w \in beating : job[w] = j /\ StillOwns(w) THEN Strikes("stall")
                                                        ELSE UNCHANGED faults
    /\ jobs' = [jobs EXCEPT ![j] = [status |-> "processing", attempts |-> jobs[j].attempts,
                                   due |-> jobs[j].due, lease |-> "lapsed"]]
    /\ UNCHANGED <<pc, job, attempt, beating, env>>

\* available_at passes.
BecomeDue(j) ==
    /\ jobs[j].status = "queued" /\ ~jobs[j].due
    /\ jobs' = [jobs EXCEPT ![j] = [status |-> "queued", attempts |-> jobs[j].attempts,
                                   due |-> TRUE, lease |-> jobs[j].lease]]
    /\ UNCHANGED <<pc, job, attempt, beating, faults, env>>

-----------------------------------------------------------------------------

\* _process: fetch, parse, and the gateway's own commit of the document.
Index(w) ==
    /\ pc[w] = "working"
    /\ Goto(w, "indexed")
    /\ UNCHANGED <<jobs, job, attempt, beating, faults, env>>

ProcessRaises(w) ==
    /\ pc[w] = "working"
    /\ Goto(w, "failing")
    /\ UNCHANGED <<jobs, job, attempt, beating, faults, env>>

\* mark_done commits; the coroutine has not resumed yet.
MarkDone(w) ==
    /\ pc[w] = "indexed"
    /\ jobs' = [jobs EXCEPT ![job[w]] = [status |-> "done", attempts |-> jobs[job[w]].attempts,
                                        due |-> jobs[job[w]].due, lease |-> "none"]]
    /\ Goto(w, "marked")
    /\ UNCHANGED <<job, attempt, beating, faults, env>>

Return(w) ==
    /\ pc[w] = "marked"
    /\ Leave(w)
    /\ UNCHANGED <<jobs, faults, env>>

\* wait_for cancels _process wherever it stands, also in mark_done's commit.
Timeout(w) ==
    /\ "timeout" \in env /\ pc[w] \in {"working", "indexed", "marked"}
    /\ Goto(w, "failing")
    /\ UNCHANGED <<jobs, job, attempt, beating, faults, env>>

\* mark_failed judges by the count the worker was handed.
Exhausted(w) == attempt[w] >= MaxAttempts

MarkFailed(w) ==
    /\ pc[w] = "failing"
    /\ jobs' = [jobs EXCEPT ![job[w]] =
                  [status |-> IF Exhausted(w) THEN "failed" ELSE "queued",
                   attempts |-> jobs[job[w]].attempts,
                   due |-> Exhausted(w) /\ jobs[job[w]].due,
                   lease |-> "none"]]
    /\ Leave(w)
    /\ UNCHANGED <<faults, env>>

\* mark_done raises into the handler of drain_one, mark_failed out of it.
StoreFails(w) ==
    /\ pc[w] \in {"indexed", "failing"} /\ Strikes("store")
    /\ IF pc[w] = "indexed" THEN Goto(w, "failing") /\ UNCHANGED <<job, attempt, beating>>
                            ELSE Leave(w)
    /\ UNCHANGED <<jobs, env>>

Crash(w) ==
    /\ pc[w] # "idle" /\ Strikes("crash")
    /\ Leave(w)
    /\ UNCHANGED <<jobs, env>>

\* What a worker does once it holds a job.
Work(w) ==
    Index(w) \/ ProcessRaises(w) \/ MarkDone(w) \/ Return(w) \/ MarkFailed(w)

Next ==
    \/ \E w \in Workers :
          \/ \E j \in Jobs : ClaimNext(w, j)
          \/ Work(w) \/ Beat(w) \/ BeatRaises(w)
          \/ Timeout(w) \/ StoreFails(w) \/ Crash(w)
    \/ \E j \in Jobs : Enqueue(j) \/ Lapse(j) \/ BecomeDue(j)

Spec == Init /\ [][Next]_vars

\* The worker lane ticks for ever, a job in hand is worked on, and the clock
\* goes on.
FairSpec ==
    /\ Spec
    /\ \A w \in Workers : WF_vars(Work(w))
    /\ \A j \in Jobs : /\ WF_vars(\E w \in Workers : ClaimNext(w, j))
                       /\ WF_vars(Lapse(j)) /\ WF_vars(BecomeDue(j))

-----------------------------------------------------------------------------

OneWorkerPerJob ==
    \A v, w \in Workers : pc[v] # "idle" /\ pc[w] # "idle" /\ job[v] = job[w] => v = w

\* However long a job runs, and whoever crashes, times out or cannot settle it,
\* one worker at a time is on it: the heartbeat holds the lease to the end.
ExclusiveWork ==
    env \subseteq {"crash", "store", "timeout"} => OneWorkerPerJob

\* A job that was marked done is never put back in the queue or failed.
DoneIsFinal ==
    [][env \subseteq {"crash", "store"} =>
        \A j \in Jobs : jobs[j].status = "done" => jobs'[j].status = "done"]_vars

\* A job is settled in the end, also when the worker that held it was killed.
JobSettles == \A j \in Jobs : jobs[j].status = "processing" ~> jobs[j].status \in Settled

\* "two consecutive misses [...] still leave a third of the window to recover in
\* before another worker treats the job as abandoned": up to two renewals that
\* fail do not put a second worker on a running job.
MissedBeatsAreRecovered ==
    env = {"renewal"} /\ faults <= 2 => OneWorkerPerJob
-----------------------------------------------------------------------------
(***************************************************************************)
(* Why ExclusiveWork holds: as long as heartbeats neither raise nor stall, *)
(* a worker that has a job owns its row until it has settled it, and a row *)
(* that is owned is not claimable.                                         *)
(***************************************************************************)

Calm == env \subseteq {"crash", "store", "timeout"}

\* A worker has a job exactly between claim_next and the end of drain_one.
HandsFull == \A w \in Workers : pc[w] # "idle" => job[w] \in Jobs

\* The row of a worker that has not settled it: held, beaten for, its own.
Held(w) ==
    /\ jobs[job[w]].status = "processing" /\ jobs[job[w]].lease = "held"
    /\ jobs[job[w]].attempts = attempt[w] /\ w \in beating

\* The row after mark_done committed: final unless the timeout still strikes.
DoneBy(w) ==
    /\ jobs[job[w]].status = "done"
    /\ pc[w] = "marked" \/ (pc[w] = "failing" /\ "timeout" \in env)

OwnersOwn == \A w \in Workers : pc[w] # "idle" => Held(w) \/ DoneBy(w)

LeaseInv == HandsFull /\ (Calm => OwnersOwn /\ OneWorkerPerJob)
=============================================================================

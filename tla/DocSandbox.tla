----------------------------- MODULE DocSandbox ------------------------------
(* Commands a model wrote, run in the document container (apps/docgen api.py, *)
(* runner.py, workspace.py, files.py) on behalf of runs that record each one  *)
(* in the audit trail (adapters/sandbox.py, sandbox_audit.py,                 *)
(* docgen_client.py).                                                         *)
(*                                                                            *)
(* A session is a directory on a tmpfs.  Commands queue for a semaphore and   *)
(* run in threads; the end of a command, its sweep of old sessions and the    *)
(* reply are one turn of the event loop.  File transfers and `release` run in *)
(* threads of their own.  What a command prints or writes is left out, except *)
(* whether it adds an entry to its directory.                                 *)
(*                                                                            *)
(* Operators marked Mutant are wrong versions of the definition they precede; *)
(* no specification uses them.                                                *)
EXTENDS Naturals, FiniteSets

CONSTANTS
    Sessions,
    Commands,     \* commands that are asked for
    Concurrency,  \* max_concurrency
    Ttl,          \* session_ttl_seconds, in ticks
    MaxFiles,     \* max_files_per_batch
    MaxBoxClock,  \* bound on the clock
    MaxMishaps,   \* bound on failed starts, lost replies, failed records and restarts
    NoSession

ASSUME BoxAssumption == {MaxBoxClock, MaxMishaps} \subseteq Nat

VARIABLES
    boxClock,
    dirs,      \* the directories that exist: when an entry was last added
    commands,  \* each command, and the session it is for
    marked,    \* active_sessions, a set
    alive,     \* commands with a process of their group that is still alive
    stuck,     \* of those, the ones SIGKILL does not end
    away,      \* commands with a process alive in a session of its own
    trail,     \* commands with a row in the audit trail
    parted,    \* history: commands whose directory they could lose, see below
    mishaps

boxVars == <<boxClock, dirs, commands, marked, alive, stuck, away, trail, parted, mishaps>>

Steps == {"idle", "queued", "running", "exited", "replied", "told", "lost"}
NotAsked == [at |-> "idle", of |-> NoSession, heard |-> TRUE]

BoxTypeOK ==
    /\ boxClock \in 0..MaxBoxClock /\ mishaps \in 0..MaxMishaps
    /\ DOMAIN dirs \subseteq Sessions /\ \A s \in DOMAIN dirs : dirs[s] \in 0..MaxBoxClock
    /\ commands \in [Commands -> [at: Steps, of: Sessions \cup {NoSession}, heard: BOOLEAN]]
    /\ marked \subseteq Sessions /\ stuck \subseteq alive
    /\ alive \cup away \cup trail \cup parted \subseteq Commands

BoxInit ==
    /\ boxClock = 0 /\ dirs = << >> /\ commands = [c \in Commands |-> NotAsked] /\ marked = {}
    /\ alive = {} /\ stuck = {} /\ away = {} /\ trail = {} /\ parted = {} /\ mishaps = 0

InThread(s) == {c \in Commands : commands[c].of = s /\ commands[c].at \in {"running", "exited"}}
Under == UNION {InThread(s) : s \in Sessions}

\* `session_dir`: a directory that is there keeps its time.
OpenedDir(s) == [t \in DOMAIN dirs \cup {s} |-> IF t \in DOMAIN dirs THEN dirs[t] ELSE boxClock]
Touched(s) == [OpenedDir(s) EXCEPT ![s] = boxClock]
GotoStep(c, step) == commands' = [commands EXCEPT ![c].at = step]

-----------------------------------------------------------------------------
(* A command.                                                                 *)

\* `aexecute` and the head of `execute`: the directory is made before the wait.
AskCommand(c, s) ==
    /\ commands[c] = NotAsked
    /\ commands' = [commands EXCEPT ![c] = [at |-> "queued", of |-> s, heard |-> TRUE]]
    /\ dirs' = OpenedDir(s)
    /\ UNCHANGED <<boxClock, marked, alive, stuck, away, trail, parted, mishaps>>

\* The semaphore is free; `Popen` starts a session of processes.
StartCommand(c) ==
    /\ commands[c].at = "queued" /\ Cardinality(Under) < Concurrency
    /\ commands[c].of \in DOMAIN dirs
    /\ GotoStep(c, "running") /\ marked' = marked \cup {commands[c].of} /\ alive' = alive \cup {c}
    /\ UNCHANGED <<boxClock, dirs, stuck, away, trail, parted, mishaps>>

\* The directory has been swept or released meanwhile, or there is no room for the
\* sink or no process to be had: `run_command` raises, the session's mark is taken
\* away, whoever else runs in it, and the caller is told that the sandbox refused.
StartFails(c) ==
    /\ commands[c].at = "queued" /\ Cardinality(Under) < Concurrency
    /\ \/ commands[c].of \notin DOMAIN dirs /\ UNCHANGED mishaps
       \/ mishaps < MaxMishaps /\ mishaps' = mishaps + 1
    /\ GotoStep(c, "lost") /\ marked' = marked \ {commands[c].of}
    /\ parted' = parted \cup InThread(commands[c].of)
    /\ UNCHANGED <<boxClock, dirs, alive, stuck, away, trail>>

\* A command starts a process in a session of its own, and it ends some time.
Detach(c) ==
    /\ commands[c].at = "running" /\ away' = away \cup {c}
    /\ UNCHANGED <<boxClock, dirs, commands, marked, alive, stuck, trail, parted, mishaps>>

DetachedEnds(c) ==
    /\ c \in away /\ away' = away \ {c}
    /\ UNCHANGED <<boxClock, dirs, commands, marked, alive, stuck, trail, parted, mishaps>>

\* A command, or what it left behind, adds an entry to its directory.
AddEntry(c) ==
    /\ commands[c].at = "running" \/ c \in alive \cup away
    /\ commands[c].of \in DOMAIN dirs
    /\ dirs' = Touched(commands[c].of)
    /\ UNCHANGED <<boxClock, commands, marked, alive, stuck, away, trail, parted, mishaps>>

\* `run_command`: the shell returns or the deadline passes, and whatever is left
\* of its group is killed, unless it is wedged beyond the last round.  A process
\* that left the group is not signalled.
Exit(c) ==
    /\ commands[c].at = "running" /\ GotoStep(c, "exited")
    /\ \/ alive' = alive \ {c} /\ UNCHANGED <<stuck, mishaps>>
       \/ /\ mishaps < MaxMishaps /\ mishaps' = mishaps + 1
          /\ stuck' = stuck \cup {c} /\ UNCHANGED alive
    /\ UNCHANGED <<boxClock, dirs, marked, away, trail, parted>>

\* Mutant: the sweep does not ask which sessions have a command in flight.
SweepableAlways(s, busy) == s \in DOMAIN dirs /\ dirs[s] + Ttl < boxClock

\* `sweep`: older than the term, and no command in flight.
Sweepable(s, busy) == s \in DOMAIN dirs /\ dirs[s] + Ttl < boxClock /\ s \notin busy

\* The tail of `execute`: the session is no longer active, whoever else runs in
\* it; old sessions are swept; the reply goes out, if anybody waits for it.
Answer(c) ==
    LET busy == marked \ {commands[c].of}
    IN  /\ commands[c].at = "exited"
        /\ GotoStep(c, IF commands[c].heard THEN "replied" ELSE "lost")
        /\ marked' = busy
        /\ dirs' = [s \in {t \in DOMAIN dirs : ~Sweepable(t, busy)} |-> dirs[s]]
        /\ parted' = parted \cup (InThread(commands[c].of) \ {c})
        /\ UNCHANGED <<boxClock, alive, stuck, away, trail, mishaps>>

\* The client's own deadline passes, or its run is cancelled: the service does
\* not notice and goes on.
ClientGivesUp(c) ==
    /\ commands[c].at \in {"queued", "running", "exited"} /\ commands[c].heard
    /\ mishaps < MaxMishaps /\ mishaps' = mishaps + 1
    /\ commands' = [commands EXCEPT ![c].heard = FALSE]
    /\ UNCHANGED <<boxClock, dirs, marked, alive, stuck, away, trail, parted>>

\* `_record`, after the command and before its result is handed on.
RecordCommand(c) ==
    /\ commands[c].at = "replied" /\ trail' = trail \cup {c} /\ GotoStep(c, "told")
    /\ UNCHANGED <<boxClock, dirs, marked, alive, stuck, away, parted, mishaps>>

\* The audit refuses the row and the error takes the result's place.
RecordRefused(c) ==
    /\ commands[c].at = "replied" /\ mishaps < MaxMishaps /\ mishaps' = mishaps + 1
    /\ GotoStep(c, "lost")
    /\ UNCHANGED <<boxClock, dirs, marked, alive, stuck, away, trail, parted>>

-----------------------------------------------------------------------------
(* Files, and the end of a session.                                           *)

\* `upload`: too many files and none is written; otherwise each by itself, and
\* the directory's time changes with the first that is new.
Upload(s, n, new) ==
    /\ new <= n
    /\ dirs' = IF n <= MaxFiles /\ new > 0 THEN Touched(s) ELSE OpenedDir(s)
    /\ UNCHANGED <<boxClock, commands, marked, alive, stuck, away, trail, parted, mishaps>>

\* `download` opens the directory, even one that was swept.
Download(s) == Upload(s, 0, 0)

\* `release`, at the end of a run: nobody asks whether a command is running.
Release(s) ==
    /\ s \in DOMAIN dirs /\ dirs' = [t \in DOMAIN dirs \ {s} |-> dirs[t]]
    /\ parted' = parted \cup InThread(s)
    /\ UNCHANGED <<boxClock, commands, marked, alive, stuck, away, trail, mishaps>>

\* The container is started again: the tmpfs is empty, every call is refused.
RestartBox ==
    /\ mishaps < MaxMishaps /\ mishaps' = mishaps + 1
    /\ dirs' = << >> /\ marked' = {} /\ alive' = {} /\ stuck' = {} /\ away' = {}
    /\ commands' = [c \in Commands |-> IF commands[c].at \in {"queued", "running", "exited"}
                                       THEN [commands[c] EXCEPT !.at = "lost"] ELSE commands[c]]
    /\ UNCHANGED <<boxClock, trail, parted>>

BoxTick ==
    /\ boxClock < MaxBoxClock /\ boxClock' = boxClock + 1
    /\ UNCHANGED <<dirs, commands, marked, alive, stuck, away, trail, parted, mishaps>>

BoxNext ==
    \/ \E c \in Commands, s \in Sessions : AskCommand(c, s)
    \/ \E c \in Commands : \/ StartCommand(c) \/ StartFails(c) \/ AddEntry(c) \/ Exit(c)
                           \/ Detach(c) \/ DetachedEnds(c)
                           \/ Answer(c) \/ ClientGivesUp(c) \/ RecordCommand(c) \/ RecordRefused(c)
    \/ \E s \in Sessions, n \in 1..(MaxFiles + 1), new \in 0..1 : Upload(s, n, new)
    \/ \E s \in Sessions : Download(s) \/ Release(s)
    \/ RestartBox \/ BoxTick

BoxSpec == BoxInit /\ [][BoxNext]_boxVars

-----------------------------------------------------------------------------
\* A command keeps its directory as long as it runs, however old the directory
\* is, unless its session was released, another command of the session has ended
\* or one could not be started, which take the session's one mark away; and once
\* a command has answered, or is on the audit trail, no process of its group is
\* left that SIGKILL can end (`execute`, `sweep`, `_kill_group`, `aexecute`).  A
\* process that made a session of its own stays.
CommandsKeepApart ==
    /\ \A c \in Commands \ parted : commands[c].at = "running" => commands[c].of \in DOMAIN dirs
    /\ \A c \in alive \ stuck : commands[c].at = "running" /\ c \notin trail

-----------------------------------------------------------------------------
(* The inductive invariant.                                                   *)

\* A command that runs has its session marked, unless another command of the
\* session has ended.
RunningIsMarked ==
    \A c \in Commands \ parted : commands[c].at = "running" => commands[c].of \in marked

\* A command that runs has a process, and only its end finds out that the process
\* does not die.
StuckHasRun ==
    /\ \A c \in Commands : commands[c].at = "running" => c \in alive
    /\ \A c \in stuck : commands[c].at \notin {"idle", "queued", "running"}

\* A row of the trail is of a command the model was told of.
TrailIsTold == \A c \in trail : commands[c].at = "told"

BoxInv == BoxTypeOK /\ RunningIsMarked /\ StuckHasRun /\ TrailIsTold /\ CommandsKeepApart
=============================================================================

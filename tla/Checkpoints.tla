----------------------------- MODULE Checkpoints -----------------------------
(* The saved state of one thread: what the graph stores while its runs come   *)
(* and go (adapters/checkpoint.py) and the sweep that prunes it               *)
(* (adapters/checkpoint_retention.py, retention_policy.py).                   *)
(*                                                                            *)
(* The graph library is external: a run loads the newest checkpoint, puts one *)
(* for its input, stores what its task writes under it, and puts the next; a  *)
(* task that asks a human stores an interrupt instead, and a resumed run      *)
(* stores the answer and runs the task again under the same checkpoint.       *)
(* Checkpoint ids grow with time.  The sweep's transaction reads the keys and *)
(* deletes them in two statements, and runs start in between.                 *)
(*                                                                            *)
(* Operators marked Mutant are wrong versions of the definition they precede; *)
(* no specification uses them.                                                *)
EXTENDS Naturals, FiniteSets

CONSTANTS
    Superseded,   \* age at which a checkpoint that is not the newest may go
    IdleFor,      \* age of the last write at which the whole thread may go
    BatchLimit,   \* rows of one pass
    MaxPuts,      \* bound on the checkpoints of the thread
    MaxSaveClock  \* bound on the clock

ASSUME SaveAssumption == {MaxPuts, MaxSaveClock} \subseteq Nat

VARIABLES
    saveClock,
    saved,    \* when each checkpoint that is stored was first put
    pending,  \* the writes stored under each, by slot
    newest,   \* the last checkpoint put, stored or not
    thread,   \* the thread's unfinished run, and the checkpoint it is at
    settled,  \* a run of the thread has finished
    output,   \* history: checkpoints whose task has stored its output
    doomed    \* the keys the sweep has read

saveVars == <<saveClock, saved, pending, newest, thread, settled, output, doomed>>

CheckpointIds == 1..MaxPuts

\* WRITES_IDX_MAP: the channels of the library itself have slots of their own,
\* below zero, so that slot 0 is the task's.
Slots == {"interrupt", "resume", "0"}
NoRun == [status |-> "none", at |-> 0]

SaveTypeOK ==
    /\ saveClock \in 0..MaxSaveClock /\ newest \in 0..MaxPuts
    /\ DOMAIN saved \subseteq CheckpointIds /\ \A c \in DOMAIN saved : saved[c] \in 0..saveClock
    /\ DOMAIN pending = CheckpointIds
    /\ \A c \in CheckpointIds :
          /\ DOMAIN pending[c] \subseteq Slots
          /\ \A s \in DOMAIN pending[c] : pending[c][s] \in {"question", "answer", "output"}
    /\ thread \in [status: {"none", "loading", "running", "waiting", "replaying"},
                   at: 0..MaxPuts]
    /\ settled \in BOOLEAN /\ output \subseteq CheckpointIds
    /\ doomed \subseteq CheckpointIds

SaveInit ==
    /\ saveClock = 0 /\ saved = << >> /\ pending = [c \in CheckpointIds |-> << >>] /\ newest = 0
    /\ thread = NoRun /\ settled = FALSE /\ output = {} /\ doomed = {}

Stored == DOMAIN saved
Newest(S) == CHOOSE c \in S : \A d \in S : d <= c

\* `aget_tuple`: the highest id, or nothing.
GetTuple == IF Stored = {} THEN 0 ELSE Newest(Stored)

\* `aput`: an id that is there keeps the time it first appeared.
Put(c) == saved' = [d \in Stored \cup {c} |-> IF d \in Stored THEN saved[d] ELSE saveClock]

\* Mutant: slots are handed out in the order of the writes.
SlotInOrder(channel) == "0"

SlotOf(channel) == IF channel = "messages" THEN "0" ELSE channel

\* `aput_writes`: a special write replaces what the slot held, a task's own
\* output is kept as it was first stored.
PutWrite(c, channel, value) ==
    LET slot == SlotOf(channel)
        held == pending[c]
    IN  pending' = [pending EXCEPT ![c] =
            [s \in DOMAIN held \cup {slot} |->
                IF s = slot /\ (slot # "0" \/ slot \notin DOMAIN held) THEN value ELSE held[s]]]

-----------------------------------------------------------------------------
(* The runs of the thread.                                                    *)

\* The index allows one unfinished run on a thread.
OpenRun ==
    /\ thread = NoRun /\ newest < MaxPuts /\ thread' = [status |-> "loading", at |-> 0]
    /\ UNCHANGED <<saveClock, saved, pending, newest, settled, output, doomed>>

\* What the thread holds is loaded and the input is the next checkpoint.
Load ==
    /\ thread.status = "loading" /\ newest < MaxPuts
    /\ newest' = newest + 1 /\ Put(newest')
    /\ thread' = [status |-> "running", at |-> newest']
    /\ UNCHANGED <<saveClock, pending, settled, output, doomed>>

\* The task asks a human: the question is stored and the run is parked.
Interrupt ==
    /\ thread.status = "running" /\ thread.at \notin output
    /\ PutWrite(thread.at, "interrupt", "question")
    /\ thread' = [thread EXCEPT !.status = "waiting"]
    /\ UNCHANGED <<saveClock, saved, newest, settled, output, doomed>>

\* The decision: the run continues from the newest checkpoint.
ResumeThread ==
    /\ thread.status = "waiting" /\ GetTuple # 0
    /\ PutWrite(GetTuple, "resume", "answer")
    /\ thread' = [status |-> "replaying", at |-> GetTuple]
    /\ UNCHANGED <<saveClock, saved, newest, settled, output, doomed>>

\* The task is done, the first time or the second: its output is stored.
TaskDone ==
    /\ thread.status \in {"running", "replaying"} /\ thread.at \notin output
    /\ PutWrite(thread.at, "messages", "output")
    /\ output' = output \cup {thread.at}
    /\ UNCHANGED <<saveClock, saved, newest, thread, settled, doomed>>

\* The task that is run again asks for something else: the question is replaced.
AskAgain ==
    /\ thread.status = "replaying" /\ thread.at \notin output
    /\ PutWrite(thread.at, "interrupt", "question")
    /\ thread' = [thread EXCEPT !.status = "waiting"]
    /\ UNCHANGED <<saveClock, saved, newest, settled, output, doomed>>

\* The next checkpoint, made of the one before and its writes.
StepDone ==
    /\ thread.status \in {"running", "replaying"} /\ thread.at \in output /\ newest < MaxPuts
    /\ newest' = newest + 1 /\ Put(newest')
    /\ thread' = [status |-> "running", at |-> newest']
    /\ UNCHANGED <<saveClock, pending, settled, output, doomed>>

\* Completed, failed or cancelled, wherever it is.
Finish ==
    /\ thread # NoRun /\ thread' = NoRun /\ settled' = TRUE
    /\ UNCHANGED <<saveClock, saved, pending, newest, output, doomed>>

SaveTick ==
    /\ saveClock < MaxSaveClock /\ saveClock' = saveClock + 1
    /\ UNCHANGED <<saved, pending, newest, thread, settled, output, doomed>>

-----------------------------------------------------------------------------
(* `SqlCheckpointRetention.prune`.                                            *)

\* At least one finished run, and none that is not.
MayPrune == settled /\ thread = NoRun

Expired ==
    {c \in Stored :
        /\ saveClock - saved[c] >= Superseded
        /\ c # Newest(Stored) \/ \A d \in Stored : saveClock - saved[d] >= IdleFor}

\* Oldest first.
SelectDoomed ==
    /\ doomed = {} /\ MayPrune /\ Expired # {}
    /\ doomed' = {c \in Expired : Cardinality({d \in Expired : d < c}) < BatchLimit}
    /\ UNCHANGED <<saveClock, saved, pending, newest, thread, settled, output>>

\* The writes, then the checkpoints, by key.
DeleteDoomed ==
    /\ doomed # {}
    /\ pending' = [c \in CheckpointIds |-> IF c \in doomed THEN << >> ELSE pending[c]]
    /\ saved' = [c \in Stored \ doomed |-> saved[c]]
    /\ doomed' = {}
    /\ UNCHANGED <<saveClock, newest, thread, settled, output>>

\* The transaction is rolled back.
SweepFails ==
    /\ doomed # {} /\ doomed' = {}
    /\ UNCHANGED <<saveClock, saved, pending, newest, thread, settled, output>>

SaveNext ==
    \/ OpenRun \/ Load \/ Interrupt \/ ResumeThread \/ TaskDone \/ AskAgain \/ StepDone
    \/ Finish \/ SaveTick \/ SelectDoomed \/ DeleteDoomed \/ SweepFails

SaveSpec == SaveInit /\ [][SaveNext]_saveVars

-----------------------------------------------------------------------------
\* A run that waits for a human can be resumed as it was left, however long the
\* human takes and whatever the sweep read before the run began: the checkpoint
\* it paused at is stored, is the newest, and holds its question; and a task
\* that was approved and run again has its output on record (`aput_writes`,
\* `prune`).
ResumeFindsItsState ==
    /\ thread.status = "waiting" =>
          /\ thread.at \in Stored /\ thread.at = Newest(Stored)
          /\ "interrupt" \in DOMAIN pending[thread.at]
    /\ \A c \in output \cap Stored :
          "0" \in DOMAIN pending[c] /\ pending[c]["0"] = "output"

-----------------------------------------------------------------------------
(* The inductive invariant.                                                   *)

\* Nothing is ahead of the last checkpoint put.
NewestIsLast == Stored \cup output \cup doomed \subseteq 1..newest

\* A run is at the last checkpoint put, and a sweep that began before the run
\* did has not read its key.
AtTheNewest ==
    IF thread.status \in {"none", "loading"} THEN thread.at = 0
    ELSE thread.at = newest /\ newest \in Stored \ doomed

\* Slot 0 is the task's own: no write of the library is ever there.
OwnSlot == \A c \in CheckpointIds : "0" \in DOMAIN pending[c] => pending[c]["0"] = "output"

SaveInv == SaveTypeOK /\ NewestIsLast /\ AtTheNewest /\ OwnSlot /\ ResumeFindsItsState
=============================================================================

---------------------------- MODULE MemoryOutbox ----------------------------
(***************************************************************************)
(* Remembering after the answer: facts announced on the transactional      *)
(* outbox (outbox_drain.py, consumers/outbox.py), decided by the memory    *)
(* service (consumers/memory.py, dw_memory/service.py, policy.py), held    *)
(* for a person's review where the policy asks for one, superseded by a    *)
(* later answer to the same question, and removed by retention.            *)
(*                                                                         *)
(* A worker runs one tick of the outbox consumer at a time.  It locks the  *)
(* events of its batch, counts an attempt for each and commits that before *)
(* it delivers any, so a second worker may claim the same events again.    *)
(* Transactions are READ COMMITTED.  Where two of them can meet they are   *)
(* split: a claim locks its rows, skipping those another claim has locked, *)
(* and later commits; propose reads the candidate, inserts it, and later   *)
(* commits; what a write closes is what its UPDATE saw, which is less than *)
(* what is live at its commit.                                             *)
(*                                                                         *)
(* The vector of a memory, written and purged after the commit, is         *)
(* Recall's.  Audit rows, which commit with the change they record, are    *)
(* left out.                                                               *)
(*                                                                         *)
(* Operators marked Mutant are wrong versions of the definition they       *)
(* precede, kept to show that the properties can fail; no specification    *)
(* uses them.                                                              *)
(***************************************************************************)
EXTENDS Integers, Sequences, FiniteSets

CONSTANTS
    Candidates,        \* facts that workflows propose
    Sources,           \* how many distinct documents each one cites
    Label,             \* its classification
    FactKey,           \* fact_key: the kind of question it answers
    NoKey,             \* a fact that answers no named question
    Subjects,          \* subject_refs: whom or what it is about
    Malformed,         \* candidates whose payload does not parse
    AutoWriteSources,  \* documents that make a fact corroborated
    Workers,           \* processes that drain the outbox
    BatchSize,         \* outbox_batch_size
    MaxAttempts,       \* outbox_max_attempts
    MaxEvents,         \* bound on the events announced
    MaxFaults          \* bound on the failures, deletions, lapses and late commits

ASSUME MemoryAssumption ==
    /\ IsFiniteSet(Candidates)
    /\ Sources \in [Candidates -> Nat]
    /\ Label \in [Candidates -> {"internal", "restricted"}]
    /\ Malformed \subseteq Candidates
    /\ AutoWriteSources \in Nat \ {0}
    /\ BatchSize \in Nat \ {0}
    /\ MaxAttempts \in Nat \ {0}
    /\ MaxEvents \in Nat
    /\ MaxFaults \in Nat

VARIABLES
    at,         \* occurred_at of each event, 0 before its transaction commits
    attempts,   \* how often an event was claimed
    processed,  \* the events whose processed_at is set
    rows,       \* memory.write_candidates: the decision and the memory
    approvals,  \* the memory.review approval of each held candidate
    verifies,   \* the candidates whose evidence passes verification
    items,      \* memory.items, in the order they were committed
    pc,         \* where each worker stands in its tick
    batch,      \* the events a claim has locked, then those still to deliver
    sees,       \* the answers its transaction is about to close
    raced,      \* history: pairs of candidates stored by overlapping transactions
    overtaken,  \* history: events that a claim could pass over for a younger one
    faults      \* how many faults have happened

vars == <<at, attempts, processed, rows, approvals, verifies, items, pc, batch, sees, raced,
          overtaken, faults>>

Events == {"proposed", "decided"} \X Candidates

Decisions == {"none", "auto_write", "review", "reject"}

TypeOK ==
    /\ at \in [Events -> 0..MaxEvents]
    /\ attempts \in [Events -> 0..MaxAttempts]
    /\ processed \subseteq Events
    /\ rows \in [Candidates -> [decision: Decisions, memory: Nat]]
    /\ approvals \in [Candidates -> {"none", "pending", "approved", "rejected"}]
    /\ verifies \subseteq Candidates
    /\ items \in Seq([of: Candidates, valid: {"live", "closed", "expired"}])
    /\ pc \in [Workers -> {"idle", "claim", "deliver", "insert", "store", "done", "failed"}]
    /\ batch \in [Workers -> SUBSET Events]
    /\ sees \in [Workers -> SUBSET Nat]
    /\ raced \subseteq SUBSET Candidates
    /\ overtaken \subseteq Events
    /\ faults \in 0..MaxFaults

Init ==
    /\ at = [e \in Events |-> 0]
    /\ attempts = [e \in Events |-> 0]
    /\ processed = {}
    /\ rows = [c \in Candidates |-> [decision |-> "none", memory |-> 0]]
    /\ approvals = [c \in Candidates |-> "none"]
    /\ verifies = Candidates
    /\ items = <<>>
    /\ pc = [w \in Workers |-> "idle"]
    /\ batch = [w \in Workers |-> {}]
    /\ sees = [w \in Workers |-> {}]
    /\ raced = {}
    /\ overtaken = {}
    /\ faults = 0

-----------------------------------------------------------------------------
(***************************************************************************)
(* What is announced, and what happens around the worker.                  *)
(***************************************************************************)

\* One more of the things that go wrong, or go away.
Strikes == faults < MaxFaults /\ faults' = faults + 1

Announced == {e \in Events : at[e] > 0}

\* Rows that an uncommitted claim has locked.
Locked == UNION {batch[w] : w \in {v \in Workers : pc[v] = "claim"}}

\* The event is claimed, or being claimed.
Claimed(e) == attempts[e] > 0 \/ e \in Locked

\* The producer stamps an event with its own clock before it commits, so an
\* event may appear with any stamp that is not taken, one older than what is
\* there already included.
Announce(e) ==
    \E k \in 1..MaxEvents :
        /\ \A f \in Announced : at[f] # k
        /\ at' = [at EXCEPT ![e] = k]
        /\ \/ (\A f \in Announced : at[f] < k) /\ UNCHANGED faults
           \/ (\E f \in Announced : k < at[f]) /\ Strikes
        /\ overtaken' = overtaken \cup {x \in {e} : \E f \in Announced : k < at[f] /\ Claimed(f)}

\* A workflow announces a candidate when its turn is over.
ProposeCandidate(c) ==
    /\ at[<<"proposed", c>>] = 0 /\ Announce(<<"proposed", c>>)
    /\ UNCHANGED <<attempts, processed, rows, approvals, verifies, items, pc, batch, sees, raced>>

\* A person decides a memory.review; the decision has no run, so it is
\* announced on the outbox, in its own transaction.
DecideReview(c, outcome) ==
    /\ approvals[c] = "pending"
    /\ approvals' = [approvals EXCEPT ![c] = outcome]
    /\ Announce(<<"decided", c>>)
    /\ UNCHANGED <<attempts, processed, rows, verifies, items, pc, batch, sees, raced>>

\* A document that a proposed fact cites is deleted, changed or relabelled: the
\* citation no longer verifies.
EvidenceLapses(c) ==
    /\ c \in verifies /\ Sources[c] > 0 /\ at[<<"proposed", c>>] > 0
    /\ verifies' = verifies \ {c}
    /\ Strikes
    /\ UNCHANGED <<at, attempts, processed, rows, approvals, items, pc, batch, sees, raced,
                   overtaken>>

\* Retention deletes a memory past its term, live or closed.
Expire(i) ==
    /\ items[i].valid # "expired"
    /\ items' = [items EXCEPT ![i] = [of |-> items[i].of, valid |-> "expired"]]
    /\ Strikes
    /\ UNCHANGED <<at, attempts, processed, rows, approvals, verifies, pc, batch, sees, raced,
                   overtaken>>

-----------------------------------------------------------------------------
(***************************************************************************)
(* The drain: claim_batch, then one event after the other.                 *)
(***************************************************************************)

Claimable == {e \in Announced : e \notin processed /\ attempts[e] < MaxAttempts}

\* The first BatchSize claimable events by occurred_at that nobody has locked.
IsOldest(B) ==
    LET free == Claimable \ Locked IN
    /\ B \subseteq free /\ Cardinality(B) <= BatchSize
    /\ B = free \/ Cardinality(B) = BatchSize
    /\ \A e \in B, f \in free \ B : at[e] < at[f]

\* claim_batch's SELECT ... FOR UPDATE SKIP LOCKED.
LockBatch(w, B) ==
    /\ pc[w] = "idle" /\ B # {} /\ IsOldest(B)
    /\ pc' = [pc EXCEPT ![w] = "claim"]
    /\ batch' = [batch EXCEPT ![w] = B]
    /\ overtaken' = overtaken \cup {e \in Locked : \E f \in B : at[e] < at[f]}
    /\ UNCHANGED <<at, attempts, processed, rows, approvals, verifies, items, sees, raced, faults>>

\* Mutant: the attempt is not counted at the claim.
ClaimUncounted(w) ==
    /\ pc[w] = "claim"
    /\ pc' = [pc EXCEPT ![w] = "deliver"]
    /\ UNCHANGED <<at, attempts, processed, rows, approvals, verifies, items, batch, sees, raced,
                   overtaken, faults>>

\* The attempts of the locked events are counted and committed.
CommitClaim(w) ==
    /\ pc[w] = "claim"
    /\ attempts' = [e \in Events |-> IF e \in batch[w] THEN attempts[e] + 1 ELSE attempts[e]]
    /\ pc' = [pc EXCEPT ![w] = "deliver"]
    /\ UNCHANGED <<at, processed, rows, approvals, verifies, items, batch, sees, raced, overtaken,
                   faults>>

\* Mutant: the batch is delivered newest first.
NewestFirst(w, e) == e \in batch[w] /\ \A f \in batch[w] : at[e] >= at[f]

\* The event a worker is on: the batch is delivered in the order of occurrence.
Delivers(w, e) == e \in batch[w] /\ \A f \in batch[w] : at[e] <= at[f]

Goto(w, p) ==
    /\ pc' = [pc EXCEPT ![w] = p]
    /\ sees' = [sees EXCEPT ![w] = {}]

\* On to the next event, or to the end of the tick.
Advance(w, e) ==
    /\ batch' = [batch EXCEPT ![w] = @ \ {e}]
    /\ Goto(w, IF batch[w] = {e} THEN "idle" ELSE "deliver")

\* The UPDATE waits for a claim that has the row locked.
MarkProcessed(w, e) ==
    /\ pc[w] = "done" /\ Delivers(w, e) /\ e \notin Locked
    /\ processed' = processed \cup {e}
    /\ Advance(w, e)
    /\ UNCHANGED <<at, attempts, rows, approvals, verifies, items, raced, overtaken, faults>>

\* Only the reason is recorded, whatever was raised: the event stays claimable
\* until its attempts run out.
RecordFailure(w, e) ==
    /\ pc[w] = "failed" /\ Delivers(w, e) /\ e \notin Locked
    /\ Advance(w, e)
    /\ UNCHANGED <<at, attempts, processed, rows, approvals, verifies, items, raced, overtaken,
                   faults>>

\* The items with the live ones among S closed.
Close(S) ==
    [i \in DOMAIN items |->
        [of |-> items[i].of,
         valid |-> IF i \in S /\ items[i].valid = "live" THEN "closed" ELSE items[i].valid]]

\* Mutant: the answers an item closes are closed in a transaction of their own.
CloseSurvives(w) ==
    /\ pc[w] \in {"deliver", "insert", "store"}
    /\ items' = Close(sees[w])
    /\ Goto(w, "failed")
    /\ Strikes
    /\ UNCHANGED <<at, attempts, processed, rows, approvals, verifies, batch, raced, overtaken>>

\* The database raises inside the handler: its transaction is rolled back.
StoreFails(w) ==
    /\ pc[w] \in {"deliver", "insert", "store"}
    /\ Goto(w, "failed")
    /\ Strikes
    /\ UNCHANGED <<at, attempts, processed, rows, approvals, verifies, items, batch, raced,
                   overtaken>>

\* The process dies, or claim_batch, mark_processed or record_failure raises out
\* of the tick: the rest of the batch is dropped, and an uncommitted claim is
\* rolled back.  Attempts that were committed stay counted.
Abandon(w) ==
    /\ pc[w] # "idle"
    /\ Goto(w, "idle")
    /\ batch' = [batch EXCEPT ![w] = {}]
    /\ Strikes
    /\ UNCHANGED <<at, attempts, processed, rows, approvals, verifies, items, raced, overtaken>>

-----------------------------------------------------------------------------
(***************************************************************************)
(* memory.candidate_proposed: MemoryService.propose.                       *)
(***************************************************************************)

Evaluate(c) ==
    IF Sources[c] = 0 THEN "reject"
    ELSE IF Label[c] = "restricted" THEN "review"
    ELSE IF Sources[c] >= AutoWriteSources THEN "auto_write" ELSE "review"

\* A worker has an uncommitted item of the candidate, and with it the
\* candidate's row, inserted or locked.
Storing(w, c) == pc[w] = "store" /\ \E e \in Events : Delivers(w, e) /\ e[2] = c

RowLocked(w, c) == \E v \in Workers \ {w} : Storing(v, c)

\* Two facts answer one question: the same key, of a subject they share.  The
\* relation is not transitive.
SameQuestion(c, d) ==
    FactKey[c] # NoKey /\ FactKey[d] = FactKey[c] /\ Subjects[c] \cap Subjects[d] # {}

\* Mutant: an answer is closed only by one about the same subjects.
SameSubjectsAnswers(c) ==
    {i \in DOMAIN items : /\ items[i].valid = "live" /\ SameQuestion(c, items[i].of)
                          /\ Subjects[items[i].of] = Subjects[c]}

\* What _close_superseded finds: the live answers to the question of c that
\* were committed when its statement began.
LiveAnswers(c) ==
    {i \in DOMAIN items : items[i].valid = "live" /\ SameQuestion(c, items[i].of)}

\* The evidence is verified, the item inserted and the answers it closes
\* updated; nothing is visible before the commit.
StoreItem(w, c) ==
    /\ c \in verifies
    /\ pc' = [pc EXCEPT ![w] = "store"]
    /\ sees' = [sees EXCEPT ![w] = LiveAnswers(c)]
    /\ UNCHANGED <<rows, approvals>>

\* The event parses, and _already_decided reads the candidate's row.
ReadCandidate(w, c) ==
    /\ pc[w] = "deliver" /\ Delivers(w, <<"proposed", c>>)
    /\ Goto(w, IF c \in Malformed THEN "failed"
               ELSE IF rows[c].decision # "none" THEN "done" ELSE "insert")
    /\ UNCHANGED <<at, attempts, processed, rows, approvals, verifies, items, batch, raced,
                   overtaken, faults>>

\* The primary key of write_candidates is the event's id.
KeyFree(c) == rows[c].decision = "none"

Decided(c, d) == [rows EXCEPT ![c] = [decision |-> d, memory |-> rows[c].memory]]

\* A candidate with no provenance is recorded and never stored.
RejectCandidate(w, c) ==
    /\ KeyFree(c) /\ Evaluate(c) = "reject"
    /\ rows' = Decided(c, "reject")
    /\ Goto(w, "done")
    /\ UNCHANGED approvals

\* The candidate and its memory.review approval commit together.
HoldForReview(w, c) ==
    /\ KeyFree(c) /\ Evaluate(c) = "review" /\ c \in verifies
    /\ rows' = Decided(c, "review")
    /\ approvals' = [approvals EXCEPT ![c] = "pending"]
    /\ Goto(w, "done")

AutoWrite(w, c) == KeyFree(c) /\ Evaluate(c) = "auto_write" /\ StoreItem(w, c)

\* The evidence is refused (DomainError), or another delivery won the insert
\* (unique violation): the transaction is rolled back.
RefuseCandidate(w, c) ==
    /\ ~KeyFree(c) \/ (Evaluate(c) # "reject" /\ c \notin verifies)
    /\ Goto(w, "failed")
    /\ UNCHANGED <<rows, approvals>>

InsertCandidate(w, c) ==
    /\ pc[w] = "insert" /\ Delivers(w, <<"proposed", c>>) /\ ~RowLocked(w, c)
    /\ RejectCandidate(w, c) \/ HoldForReview(w, c) \/ AutoWrite(w, c) \/ RefuseCandidate(w, c)
    /\ UNCHANGED <<at, attempts, processed, verifies, items, batch, raced, overtaken, faults>>

-----------------------------------------------------------------------------
(***************************************************************************)
(* memory.review.decided: MemoryService.settle_review, under the lock of   *)
(* the candidate's row.  The event commits with the decision, so the       *)
(* approval it reads is never pending.                                     *)
(***************************************************************************)

AlreadySettled(w, c) ==
    /\ rows[c].memory # 0 \/ rows[c].decision # "review"
    /\ Goto(w, "done")
    /\ UNCHANGED <<rows, approvals, items>>

SettleRefused(w, c) ==
    /\ rows[c].memory = 0 /\ rows[c].decision = "review" /\ approvals[c] = "rejected"
    /\ rows' = Decided(c, "reject")
    /\ Goto(w, "done")
    /\ UNCHANGED <<approvals, items>>

StoreReviewed(w, c) ==
    /\ rows[c].memory = 0 /\ rows[c].decision = "review" /\ approvals[c] = "approved"
    /\ StoreItem(w, c)
    /\ UNCHANGED items

\* The evidence of an approved candidate no longer verifies: the refusal is
\* committed, then raised.
ReviewFails(w, c) ==
    /\ rows[c].memory = 0 /\ rows[c].decision = "review" /\ approvals[c] = "approved"
    /\ c \notin verifies
    /\ rows' = Decided(c, "reject")
    /\ Goto(w, "failed")
    /\ UNCHANGED <<approvals, items>>

SettleReview(w, c) ==
    /\ pc[w] = "deliver" /\ Delivers(w, <<"decided", c>>) /\ ~RowLocked(w, c)
    /\ AlreadySettled(w, c) \/ SettleRefused(w, c) \/ StoreReviewed(w, c) \/ ReviewFails(w, c)
    /\ UNCHANGED <<at, attempts, processed, verifies, batch, raced, overtaken, faults>>

-----------------------------------------------------------------------------

\* What other workers have uncommitted: their transactions overlap that of w.
Overlapping(w) == {d \in Candidates : \E v \in Workers \ {w} : Storing(v, d)}

\* The item, the answers it closes (those no other commit or retention has
\* closed meanwhile) and the candidate's row, in one commit.
CommitItem(w, e) ==
    /\ pc[w] = "store" /\ Delivers(w, e)
    /\ items' = Append(Close(sees[w]), [of |-> e[2], valid |-> "live"])
    /\ rows' = [rows EXCEPT ![e[2]] =
                  [decision |-> IF e[1] = "proposed" THEN "auto_write" ELSE "review",
                   memory |-> Len(items) + 1]]
    /\ raced' = raced \cup {{e[2], d} : d \in Overlapping(w)}
    /\ Goto(w, "done")
    /\ UNCHANGED <<at, attempts, processed, approvals, verifies, batch, overtaken, faults>>

\* A step of a worker's tick in which nothing goes wrong.
Work(w) ==
    \/ \E B \in SUBSET Claimable : LockBatch(w, B)
    \/ CommitClaim(w)
    \/ \E c \in Candidates : ReadCandidate(w, c) \/ InsertCandidate(w, c) \/ SettleReview(w, c)
    \/ \E e \in Events : CommitItem(w, e) \/ MarkProcessed(w, e) \/ RecordFailure(w, e)

Next ==
    \/ \E w \in Workers : Work(w) \/ StoreFails(w) \/ Abandon(w)
    \/ \E c \in Candidates :
          \/ ProposeCandidate(c) \/ EvidenceLapses(c)
          \/ \E outcome \in {"approved", "rejected"} : DecideReview(c, outcome)
    \/ \E i \in DOMAIN items : Expire(i)

Spec == Init /\ [][Next]_vars

\* The worker's loop calls the consumer for ever, and a tick goes on.
FairSpec == Spec /\ \A w \in Workers : WF_vars(Work(w))

-----------------------------------------------------------------------------

\* A fact is stored once, however often its events are delivered, by however
\* many workers, and whenever they die: the candidate's row names its memory.
WritesOnce ==
    \A i \in DOMAIN items : rows[items[i].of].memory = i

\* Nothing is closed for an answer that never came: a closed memory has a later
\* one with its key about one of its subjects, so the newest answer to a question
\* stands until its term, whatever failed, raced or was redelivered.  (A memory
\* about two subjects is closed by one about either; the other subject may be
\* left without a live answer.)
ClosedByLater ==
    \A i \in DOMAIN items : items[i].valid = "closed" =>
        \E j \in DOMAIN items : j > i /\ SameQuestion(items[j].of, items[i].of)

\* A question has one live answer, except where the transactions that stored
\* two answers overlapped, so that neither could see the other's.
OneLiveAnswer ==
    \A i, j \in DOMAIN items :
        /\ i # j /\ items[i].valid = "live" /\ items[j].valid = "live"
        /\ SameQuestion(items[i].of, items[j].of)
        => {items[i].of, items[j].of} \in raced

\* Facts written unreviewed are stored in the order of their stamps: an older
\* fact follows, and so replaces, a newer one only when it was claimed more than
\* once, or the newer one was claimed while another claim had the older one
\* locked, or before the older one's transaction committed.
LaterAnswerWins ==
    \A i, j \in DOMAIN items :
        LET older == <<"proposed", items[i].of>> IN
        /\ i > j /\ at[older] < at[<<"proposed", items[j].of>>]
        /\ Evaluate(items[i].of) = "auto_write" /\ Evaluate(items[j].of) = "auto_write"
        => attempts[older] > 1 \/ older \in overtaken

\* An event that counts as delivered had its effect, and the effect is what the
\* policy and the reviewer decided: a restricted or thinly supported fact is
\* stored only after an approval, and a held one always has somebody to ask.
SettledAsDecided ==
    \A c \in Candidates :
        /\ <<"proposed", c>> \in processed => rows[c].decision # "none"
        /\ <<"decided", c>> \in processed =>
              rows[c].memory # 0 \/ rows[c].decision = "reject"
        /\ rows[c].memory # 0 /\ (Label[c] = "restricted" \/ Sources[c] < AutoWriteSources) =>
              approvals[c] = "approved"
        /\ rows[c].decision = "review" => approvals[c] # "none"

\* The backlog empties again and again: every event is delivered in the end, or
\* uses up its attempts, and none keeps the others from their turn.
BacklogDrains == []<>(Claimable = {})
-----------------------------------------------------------------------------
(***************************************************************************)
(* Why the safety properties hold: events are stamped apart, so a worker   *)
(* is on one event at a time; a transaction that stores a candidate is the *)
(* only one, and finds it not yet stored; and what its UPDATE did not see  *)
(* was committed by a transaction it overlapped.                           *)
(***************************************************************************)

\* A row is locked by one claim at a time, and stays claimable while it is.
LocksApart ==
    \A v, w \in Workers : pc[v] = "claim" =>
        /\ batch[v] \subseteq Claimable
        /\ pc[w] = "claim" /\ batch[v] \cap batch[w] # {} => v = w

\* No two events share a stamp, and a decision is announced when it is made.
StampsApart ==
    /\ \A e, f \in Announced : at[e] = at[f] => e = f
    /\ \A c \in Candidates : approvals[c] \in {"none", "pending"} => at[<<"decided", c>>] = 0
    /\ \A w \in Workers : batch[w] \subseteq Announced

\* The row of a candidate, its approval and its memory agree.
RowsAgree ==
    \A c \in Candidates :
        /\ rows[c].decision = "none" => rows[c].memory = 0 /\ approvals[c] = "none"
        /\ rows[c].decision = "auto_write" => rows[c].memory # 0 /\ Evaluate(c) = "auto_write"
        /\ rows[c].decision = "review" => approvals[c] # "none"
        /\ rows[c].decision = "review" /\ rows[c].memory # 0 => approvals[c] = "approved"
        /\ rows[c].decision = "reject" => rows[c].memory = 0

\* What a worker may store: the same candidate nobody else is storing.
StoresUnstored ==
    \A w \in Workers, c \in Candidates : Storing(w, c) =>
        /\ rows[c].memory = 0
        /\ Delivers(w, <<"proposed", c>>) => /\ rows[c].decision = "none"
                                             /\ Evaluate(c) = "auto_write"
        /\ Delivers(w, <<"decided", c>>) => /\ rows[c].decision = "review"
                                            /\ approvals[c] = "approved"
        /\ \A v \in Workers : Storing(v, c) => v = w

\* What it saw, and what it could not see.
SeesAnswers ==
    \A w \in Workers, c \in Candidates : Storing(w, c) =>
        /\ sees[w] \subseteq {i \in DOMAIN items : SameQuestion(c, items[i].of)}
        /\ \A i \in DOMAIN items :
              items[i].valid = "live" /\ SameQuestion(c, items[i].of)
              => i \in sees[w] \/ {items[i].of, c} \in raced

\* A handler that returned has had its effect.
DoneHasEffect ==
    \A w \in Workers, c \in Candidates : pc[w] = "done" =>
        /\ Delivers(w, <<"proposed", c>>) => rows[c].decision # "none"
        /\ Delivers(w, <<"decided", c>>) => rows[c].memory # 0 \/ rows[c].decision = "reject"

MemoryInv ==
    /\ StampsApart /\ RowsAgree /\ StoresUnstored /\ SeesAnswers /\ DoneHasEffect
    /\ WritesOnce /\ ClosedByLater /\ OneLiveAnswer /\ SettledAsDecided
-----------------------------------------------------------------------------
(***************************************************************************)
(* Why LaterAnswerWins holds: a claim takes the oldest first, so whoever   *)
(* claims an event claims every older one with it that may still be        *)
(* claimed and is not locked.  An older event on its first claim is        *)
(* therefore in the batch ahead of the younger one, or in no batch         *)
(* together with it.                                                       *)
(***************************************************************************)

\* A worker that has claimed the event and delivers its batch.
Holds(w, e) == pc[w] # "claim" /\ e \in batch[w]

\* Attempts are counted by the claims: nothing unclaimed is delivered or
\* processed, and on its first claim an event is in one batch.
ClaimsCounted ==
    \A e \in Events :
        /\ attempts[e] > 0 => at[e] > 0
        /\ e \in processed => attempts[e] > 0
        /\ \A w \in Workers : Holds(w, e) => attempts[e] > 0
        /\ attempts[e] <= 1 => \A v, w \in Workers :
              Holds(v, e) => e \notin processed /\ (Holds(w, e) => v = w)

\* A corroborated fact is never held for review, and is stored by a claim of
\* its proposal.
StoredByProposal ==
    \A c \in Candidates : Evaluate(c) = "auto_write" =>
        /\ rows[c].decision # "review"
        /\ rows[c].memory # 0 => attempts[<<"proposed", c>>] > 0

\* The event may be claimed for the first time, or is on its first claim.
Fresh(e) == attempts[e] <= 1 /\ e \notin processed /\ e \notin overtaken

\* Nothing is locked, claimed or stored ahead of an older fresh event.
OldestFirst ==
    \A e, f \in Events : at[e] > 0 /\ at[e] < at[f] /\ Fresh(e) =>
        /\ attempts[e] = 0 => attempts[f] = 0
        /\ \A w \in Workers : pc[w] = "claim" /\ f \in batch[w] => e \in batch[w]
        /\ \A w \in Workers : attempts[e] = 1 /\ Holds(w, e) =>
              /\ \A v \in Workers : Holds(v, f) => v = w
              /\ f[1] = "proposed" /\ Evaluate(f[2]) = "auto_write" => rows[f[2]].memory = 0

OrderInv == ClaimsCounted /\ StoredByProposal /\ OldestFirst /\ LaterAnswerWins
=============================================================================

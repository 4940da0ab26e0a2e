------------------------- MODULE MemoryOutboxProofs -------------------------
(* Theorems about MemoryOutbox, for any candidates, workers and bounds.      *)
EXTENDS MemoryOutbox, TLAPS, SequenceTheorems

LEMMA CloseType ==
    ASSUME TypeOK, NEW S
    PROVE  /\ Close(S) \in Seq([of: Candidates, valid: {"live", "closed", "expired"}])
           /\ DOMAIN Close(S) = DOMAIN items /\ Len(Close(S)) = Len(items)
           /\ \A i \in DOMAIN items : Close(S)[i].of = items[i].of
           /\ \A i \in DOMAIN items :
                 Close(S)[i].valid = IF i \in S /\ items[i].valid = "live" THEN "closed"
                                     ELSE items[i].valid
  <1> DEFINE R == [of: Candidates, valid: {"live", "closed", "expired"}]
  <1>1. items \in Seq(R) /\ DOMAIN items = 1..Len(items) /\ Len(items) \in Nat
    BY DEF TypeOK
  <1>2. \A i \in DOMAIN items : items[i] \in R
    <2> HIDE DEF R
    <2> QED BY <1>1, ElementOfSeq
  <1>3. \A i \in DOMAIN items : Close(S)[i] \in R /\ Close(S)[i].of = items[i].of
                                /\ Close(S)[i].valid = IF i \in S /\ items[i].valid = "live"
                                                       THEN "closed" ELSE items[i].valid
    BY <1>2 DEF Close
  <1>4. Close(S) \in [1..Len(items) -> R]
    BY <1>1, <1>3 DEF Close
  <1>5. Close(S) \in Seq(R) /\ Len(Close(S)) = Len(items)
    BY <1>1, <1>4
  <1> QED BY <1>1, <1>3, <1>5 DEF Close

LEMMA AnswersType == ASSUME TypeOK, NEW c PROVE LiveAnswers(c) \subseteq Nat
  <1>1. DOMAIN items \subseteq Nat
    BY DEF TypeOK
  <1> QED BY <1>1 DEF LiveAnswers

LEMMA TypeStep == TypeOK /\ LocksApart /\ [Next]_vars => TypeOK'
  <1> SUFFICES ASSUME TypeOK, LocksApart, [Next]_vars PROVE TypeOK'
    OBVIOUS
  <1> USE MemoryAssumption DEF TypeOK, Goto, Decisions
  <1>1. ASSUME NEW e \in Events, Announce(e)
        PROVE  /\ at' \in [Events -> 0..MaxEvents]
               /\ overtaken' \subseteq Events /\ faults' \in 0..MaxFaults
    BY <1>1 DEF Announce, Strikes
  <1>2. ASSUME NEW c \in Candidates, ProposeCandidate(c) PROVE TypeOK'
    <2>1. <<"proposed", c>> \in Events
      BY DEF Events
    <2> QED BY <1>1, <1>2, <2>1 DEF ProposeCandidate
  <1>3. ASSUME NEW c \in Candidates, NEW outcome \in {"approved", "rejected"},
               DecideReview(c, outcome)
        PROVE  TypeOK'
    <2>1. <<"decided", c>> \in Events
      BY DEF Events
    <2> QED BY <1>1, <1>3, <2>1 DEF DecideReview
  <1>4. ASSUME NEW c \in Candidates, EvidenceLapses(c) PROVE TypeOK'
    BY <1>4 DEF EvidenceLapses, Strikes
  <1>5. ASSUME NEW i \in DOMAIN items, Expire(i) PROVE TypeOK'
    <2> DEFINE R == [of: Candidates, valid: {"live", "closed", "expired"}]
    <2>1. items \in Seq(R) /\ i \in 1..Len(items)
      OBVIOUS
    <2>2. items[i] \in R
      <3> HIDE DEF R
      <3> QED BY ONLY <2>1, ElementOfSeq
    <2>3. [of |-> items[i].of, valid |-> "expired"] \in R
      BY <2>2
    <2>4. items' \in Seq(R)
      <3> HIDE DEF R
      <3> QED BY ONLY <1>5, <2>1, <2>3, ExceptSeq DEF Expire
    <2>5. faults' \in 0..MaxFaults
      <3>1. faults < MaxFaults /\ faults' = faults + 1
        BY ONLY <1>5 DEF Expire, Strikes
      <3>2. faults \in 0..MaxFaults /\ MaxFaults \in Nat
        OBVIOUS
      <3> QED BY ONLY <3>1, <3>2
    <2>6. UNCHANGED <<at, attempts, processed, rows, approvals, verifies, pc, batch, sees, raced,
                      overtaken>>
      BY <1>5 DEF Expire
    <2> QED BY <2>4, <2>5, <2>6
  <1>6. ASSUME NEW w \in Workers, NEW B \in SUBSET Claimable, LockBatch(w, B) PROVE TypeOK'
    <2>1. B \subseteq Events
      BY DEF Claimable, Announced
    <2>2. overtaken' \subseteq Events
      BY <1>6 DEF LockBatch, Locked
    <2> QED BY <1>6, <2>1, <2>2 DEF LockBatch
  <1>18. ASSUME NEW w \in Workers, CommitClaim(w) PROVE TypeOK'
    <2>1. \A e \in batch[w] : attempts[e] < MaxAttempts
      BY <1>18 DEF CommitClaim, LocksApart, Claimable
    <2>2. attempts' \in [Events -> 0..MaxAttempts]
      BY <1>18, <2>1 DEF CommitClaim
    <2> QED BY <1>18, <2>2 DEF CommitClaim
  <1>7. ASSUME NEW w \in Workers, NEW c \in Candidates, ReadCandidate(w, c) PROVE TypeOK'
    BY <1>7 DEF ReadCandidate
  <1>8. ASSUME NEW w \in Workers, NEW c \in Candidates, StoreItem(w, c)
        PROVE  /\ pc' \in [Workers -> {"idle", "claim", "deliver", "insert", "store", "done", "failed"}]
               /\ sees' \in [Workers -> SUBSET Nat]
    BY <1>8, AnswersType DEF StoreItem
  <1>9. ASSUME NEW w \in Workers, NEW c \in Candidates, InsertCandidate(w, c) PROVE TypeOK'
    <2>1. CASE RejectCandidate(w, c)
      BY <1>9, <2>1 DEF InsertCandidate, RejectCandidate, Decided
    <2>2. CASE HoldForReview(w, c)
      BY <1>9, <2>2 DEF InsertCandidate, HoldForReview, Decided
    <2>3. CASE AutoWrite(w, c)
      BY <1>8, <1>9, <2>3 DEF InsertCandidate, AutoWrite, StoreItem
    <2>4. CASE RefuseCandidate(w, c)
      BY <1>9, <2>4 DEF InsertCandidate, RefuseCandidate
    <2> QED BY <1>9, <2>1, <2>2, <2>3, <2>4 DEF InsertCandidate
  <1>10. ASSUME NEW w \in Workers, NEW c \in Candidates, SettleReview(w, c) PROVE TypeOK'
    <2>1. CASE AlreadySettled(w, c)
      BY <1>10, <2>1 DEF SettleReview, AlreadySettled
    <2>2. CASE SettleRefused(w, c)
      BY <1>10, <2>2 DEF SettleReview, SettleRefused, Decided
    <2>3. CASE StoreReviewed(w, c)
      BY <1>8, <1>10, <2>3 DEF SettleReview, StoreReviewed, StoreItem
    <2>4. CASE ReviewFails(w, c)
      BY <1>10, <2>4 DEF SettleReview, ReviewFails, Decided
    <2> QED BY <1>10, <2>1, <2>2, <2>3, <2>4 DEF SettleReview
  <1>11. ASSUME NEW w \in Workers, NEW e \in Events, CommitItem(w, e) PROVE TypeOK'
    <2>1. e[2] \in Candidates /\ Len(items) \in Nat
      BY DEF Events
    <2>2. items' \in Seq([of: Candidates, valid: {"live", "closed", "expired"}])
      <3> DEFINE R == [of: Candidates, valid: {"live", "closed", "expired"}]
      <3>1. items' = Append(Close(sees[w]), [of |-> e[2], valid |-> "live"])
        BY ONLY <1>11 DEF CommitItem
      <3>2. Close(sees[w]) \in Seq(R)
        BY CloseType
      <3>3. [of |-> e[2], valid |-> "live"] \in R
        BY ONLY <2>1
      <3> HIDE DEF R
      <3>4. items' \in Seq(R)
        BY ONLY <3>1, <3>2, <3>3
      <3> QED BY ONLY <3>4 DEF R
    <2>3. raced' \subseteq SUBSET Candidates
      <3>1. \A d \in Candidates : {e[2], d} \in SUBSET Candidates
        BY <2>1
      <3>2. {{e[2], d} : d \in Overlapping(w)} \subseteq SUBSET Candidates
        BY ONLY <3>1 DEF Overlapping
      <3> QED BY <1>11, <3>2 DEF CommitItem
    <2>4. rows' \in [Candidates -> [decision: Decisions, memory: Nat]]
      BY <1>11, <2>1 DEF CommitItem
    <2> QED BY <1>11, <2>2, <2>3, <2>4 DEF CommitItem
  <1>12. ASSUME NEW w \in Workers, NEW e \in Events, Advance(w, e)
         PROVE  /\ pc' \in [Workers -> {"idle", "claim", "deliver", "insert", "store", "done", "failed"}]
                /\ sees' \in [Workers -> SUBSET Nat]
                /\ batch' \in [Workers -> SUBSET Events]
    BY <1>12 DEF Advance
  <1>13. ASSUME NEW w \in Workers, NEW e \in Events, MarkProcessed(w, e) PROVE TypeOK'
    BY <1>12, <1>13 DEF MarkProcessed
  <1>14. ASSUME NEW w \in Workers, NEW e \in Events, RecordFailure(w, e) PROVE TypeOK'
    BY <1>12, <1>14 DEF RecordFailure
  <1>15. ASSUME NEW w \in Workers, StoreFails(w) PROVE TypeOK'
    BY <1>15 DEF StoreFails, Strikes
  <1>16. ASSUME NEW w \in Workers, Abandon(w) PROVE TypeOK'
    BY <1>16 DEF Abandon, Strikes
  <1>17. CASE UNCHANGED vars
    BY <1>17 DEF vars
  <1> QED
    BY <1>2, <1>3, <1>4, <1>5, <1>6, <1>7, <1>9, <1>10, <1>11, <1>13, <1>14, <1>15, <1>16, <1>17,
       <1>18
       DEF Next, Work

\* A step in which no claim begins, and no row that is locked is claimed or
\* processed.
LEMMA LockFrame ==
    ASSUME TypeOK, LocksApart,
           \A w \in Workers : pc'[w] = "claim" => pc[w] = "claim" /\ batch'[w] = batch[w],
           \A e \in Events : at[e] > 0 => at'[e] > 0,
           \A w \in Workers : pc'[w] = "claim" => \A e \in batch'[w] :
               attempts'[e] = attempts[e] /\ (e \in processed' => e \in processed)
    PROVE  LocksApart'
  <1> SUFFICES ASSUME NEW v \in Workers, NEW w \in Workers, pc'[v] = "claim"
      PROVE  /\ \A e \in batch'[v] : e \in Claimable'
             /\ pc'[w] = "claim" /\ batch'[v] \cap batch'[w] # {} => v = w
    BY DEF LocksApart
  <1>1. \A e \in batch'[v] : e \in Claimable'
    BY DEF LocksApart, Claimable, Announced
  <1> QED BY <1>1 DEF LocksApart

LEMMA LockStep == TypeOK /\ LocksApart /\ [Next]_vars => LocksApart'
  <1> SUFFICES ASSUME TypeOK, LocksApart, [Next]_vars PROVE LocksApart'
    OBVIOUS
  <1> USE MemoryAssumption
  <1>1. ASSUME NEW e \in Events, Announce(e), UNCHANGED <<attempts, processed, pc, batch>>
        PROVE  LocksApart'
    <2>1. \A f \in Events : at[f] > 0 => at'[f] > 0
      BY <1>1 DEF Announce, TypeOK
    <2> QED BY <1>1, <2>1, LockFrame
  <1>2. ASSUME NEW c \in Candidates, ProposeCandidate(c) PROVE LocksApart'
    BY <1>1, <1>2 DEF ProposeCandidate, Events
  <1>3. ASSUME NEW c \in Candidates, NEW outcome \in {"approved", "rejected"},
               DecideReview(c, outcome)
        PROVE  LocksApart'
    BY <1>1, <1>3 DEF DecideReview, Events
  <1>4. ASSUME UNCHANGED <<at, attempts, processed, pc, batch>> PROVE LocksApart'
    BY <1>4, LockFrame
  <1>5. ASSUME NEW w \in Workers, NEW B \in SUBSET Claimable, LockBatch(w, B) PROVE LocksApart'
    <2>1. /\ UNCHANGED <<at, attempts, processed>>
          /\ pc'[w] = "claim" /\ batch'[w] = B
          /\ \A v \in Workers : v # w => pc'[v] = pc[v] /\ batch'[v] = batch[v]
      BY <1>5 DEF LockBatch, TypeOK
    <2>2. \A v \in Workers : pc[v] = "claim" => batch[v] \cap B = {}
      BY <1>5 DEF LockBatch, IsOldest, Locked
    <2>3. pc[w] = "idle"
      BY <1>5 DEF LockBatch
    <2>4. Claimable' = Claimable
      BY <2>1 DEF Claimable, Announced
    <2> SUFFICES ASSUME NEW u \in Workers, NEW v \in Workers, pc'[u] = "claim"
        PROVE  /\ batch'[u] \subseteq Claimable
               /\ pc'[v] = "claim" /\ batch'[u] \cap batch'[v] # {} => u = v
      BY <2>4 DEF LocksApart
    <2>5. CASE u = w
      BY <2>1, <2>2, <2>5
    <2>6. CASE u # w /\ v = w
      BY <2>1, <2>2, <2>6 DEF LocksApart
    <2>7. CASE u # w /\ v # w
      BY <2>1, <2>7 DEF LocksApart
    <2> QED BY <2>5, <2>6, <2>7
  <1>6. ASSUME NEW w \in Workers, CommitClaim(w) PROVE LocksApart'
    <2>1. /\ UNCHANGED <<at, processed, batch>> /\ pc[w] = "claim"
          /\ pc'[w] = "deliver" /\ \A v \in Workers : v # w => pc'[v] = pc[v]
          /\ \A e \in Events : e \notin batch[w] => attempts'[e] = attempts[e]
      BY <1>6 DEF CommitClaim, TypeOK
    <2>2. \A v \in Workers : pc'[v] = "claim" => \A e \in batch'[v] : attempts'[e] = attempts[e]
      <3> SUFFICES ASSUME NEW v \in Workers, NEW e \in batch'[v], pc'[v] = "claim"
          PROVE  attempts'[e] = attempts[e]
        OBVIOUS
      <3>1. v # w /\ pc[v] = "claim" /\ e \in batch[v] /\ e \in Events
        BY <2>1 DEF TypeOK
      <3>2. e \notin batch[w]
        BY <2>1, <3>1 DEF LocksApart
      <3> QED BY <2>1, <3>1, <3>2
    <2> QED BY <2>1, <2>2, LockFrame
  <1>7. ASSUME NEW w \in Workers, NEW p, p # "claim", Goto(w, p),
               UNCHANGED <<at, attempts, processed>>,
               \A v \in Workers : v # w => batch'[v] = batch[v]
        PROVE  LocksApart'
    <2>1. pc'[w] = p /\ \A v \in Workers : v # w => pc'[v] = pc[v]
      BY <1>7 DEF Goto, TypeOK
    <2> QED BY <1>7, <2>1, LockFrame
  <1>8. ASSUME NEW w \in Workers, NEW c \in Candidates, ReadCandidate(w, c) PROVE LocksApart'
    <2>1. /\ UNCHANGED <<at, attempts, processed, batch>>
          /\ Goto(w, "failed") \/ Goto(w, "done") \/ Goto(w, "insert")
      BY <1>8 DEF ReadCandidate
    <2> QED BY <1>7, <2>1
  <1>9. ASSUME NEW w \in Workers, NEW c \in Candidates, StoreItem(w, c),
               UNCHANGED <<at, attempts, processed, batch>>
        PROVE  LocksApart'
    <2>1. pc'[w] = "store" /\ \A v \in Workers : v # w => pc'[v] = pc[v]
      BY <1>9 DEF StoreItem, TypeOK
    <2> QED BY <1>9, <2>1, LockFrame
  <1>10. ASSUME NEW w \in Workers, NEW c \in Candidates,
                InsertCandidate(w, c) \/ SettleReview(w, c)
         PROVE  LocksApart'
    <2>1. /\ UNCHANGED <<at, attempts, processed, batch>>
          /\ Goto(w, "failed") \/ Goto(w, "done") \/ StoreItem(w, c)
      BY <1>10 DEF InsertCandidate, RejectCandidate, HoldForReview, AutoWrite, RefuseCandidate,
                   SettleReview, AlreadySettled, SettleRefused, StoreReviewed, ReviewFails
    <2> QED BY <1>7, <1>9, <2>1
  <1>11. ASSUME NEW w \in Workers, NEW e \in Events, CommitItem(w, e) PROVE LocksApart'
    BY <1>7, <1>11 DEF CommitItem
  <1>12. ASSUME NEW w \in Workers, NEW e \in Events, RecordFailure(w, e) PROVE LocksApart'
    <2>1. /\ UNCHANGED <<at, attempts, processed>>
          /\ \A v \in Workers : v # w => batch'[v] = batch[v]
          /\ Goto(w, "idle") \/ Goto(w, "deliver")
      BY <1>12 DEF RecordFailure, Advance, TypeOK
    <2> QED BY <1>7, <2>1
  <1>13. ASSUME NEW w \in Workers, NEW e \in Events, MarkProcessed(w, e) PROVE LocksApart'
    <2>1. /\ UNCHANGED <<at, attempts>> /\ processed' = processed \cup {e} /\ e \notin Locked
          /\ pc'[w] # "claim"
          /\ \A v \in Workers : v # w => batch'[v] = batch[v] /\ pc'[v] = pc[v]
      BY <1>13 DEF MarkProcessed, Advance, Goto, TypeOK
    <2>2. \A v \in Workers : pc'[v] = "claim" => e \notin batch'[v]
      BY <2>1 DEF Locked
    <2> QED BY <2>1, <2>2, LockFrame
  <1>14. ASSUME NEW w \in Workers, StoreFails(w) \/ Abandon(w) PROVE LocksApart'
    <2>1. /\ UNCHANGED <<at, attempts, processed>>
          /\ \A v \in Workers : v # w => batch'[v] = batch[v]
          /\ Goto(w, "idle") \/ Goto(w, "failed")
      BY <1>14 DEF StoreFails, Abandon, TypeOK
    <2> QED BY <1>7, <2>1
  <1>15. ASSUME NEW c \in Candidates, EvidenceLapses(c) PROVE LocksApart'
    BY <1>4, <1>15 DEF EvidenceLapses
  <1>16. ASSUME NEW i \in DOMAIN items, Expire(i) PROVE LocksApart'
    BY <1>4, <1>16 DEF Expire
  <1>17. CASE UNCHANGED vars
    BY <1>4, <1>17 DEF vars
  <1> QED
    BY <1>2, <1>3, <1>5, <1>6, <1>8, <1>10, <1>11, <1>12, <1>13, <1>14, <1>15, <1>16, <1>17
       DEF Next, Work

LEMMA TypeAndLocks == Spec => [](TypeOK /\ LocksApart)
  <1>1. Init => TypeOK /\ LocksApart
    BY MemoryAssumption DEF Init, TypeOK, Decisions, LocksApart
  <1> QED BY <1>1, TypeStep, LockStep, PTL DEF Spec

\* Type correctness: attempts stay within outbox_max_attempts, and every
\* transaction leaves rows, approvals and memories of their kind.
THEOREM TypeCorrect == Spec => []TypeOK
  BY TypeAndLocks, PTL

-----------------------------------------------------------------------------

LEMMA ItemsType ==
    ASSUME TypeOK
    PROVE  /\ Len(items) \in Nat /\ DOMAIN items = 1..Len(items)
           /\ \A i \in DOMAIN items : items[i].of \in Candidates
  <1> DEFINE R == [of: Candidates, valid: {"live", "closed", "expired"}]
  <1>1. items \in Seq(R) /\ DOMAIN items = 1..Len(items) /\ Len(items) \in Nat
    BY DEF TypeOK
  <1>2. \A i \in DOMAIN items : items[i] \in R
    <2> HIDE DEF R
    <2> QED BY <1>1, ElementOfSeq
  <1> QED BY <1>1, <1>2

\* No step restamps an event.
AtKept == \A e \in Announced : at'[e] = at[e]

LEMMA DeliversKept ==
    ASSUME StampsApart, AtKept, NEW v \in Workers, batch'[v] = batch[v], NEW e \in Events
    PROVE  Delivers(v, e)' <=> Delivers(v, e)
  <1>1. \A f \in batch[v] : at'[f] = at[f]
    BY DEF StampsApart, AtKept
  <1> QED BY <1>1 DEF Delivers

LEMMA OneCurrent ==
    ASSUME TypeOK, StampsApart, NEW w \in Workers, NEW e \in Events, NEW f \in Events,
           Delivers(w, e), Delivers(w, f)
    PROVE  e = f
  <1>1. e \in Announced /\ f \in Announced /\ at[e] <= at[f] /\ at[f] <= at[e]
    BY DEF Delivers, StampsApart
  <1>2. at[e] \in Int /\ at[f] \in Int
    BY DEF TypeOK
  <1> QED BY <1>1, <1>2 DEF StampsApart

LEMMA StoringKept ==
    ASSUME StampsApart, AtKept, NEW v \in Workers, pc'[v] = pc[v], batch'[v] = batch[v],
           NEW c \in Candidates
    PROVE  Storing(v, c)' <=> Storing(v, c)
  <1>1. \A e \in Events : Delivers(v, e)' <=> Delivers(v, e)
    BY DeliversKept
  <1> QED BY <1>1 DEF Storing

LEMMA StoringDelivers ==
    ASSUME NEW w \in Workers, NEW c \in Candidates, Storing(w, c)
    PROVE  Delivers(w, <<"proposed", c>>) \/ Delivers(w, <<"decided", c>>)
  BY DEF Storing, Events

-----------------------------------------------------------------------------

LEMMA AnnounceStep ==
    ASSUME TypeOK, StampsApart, NEW e \in Events, at[e] = 0, Announce(e), batch' = batch
    PROVE  /\ AtKept
           /\ \A f, g \in Announced' : at'[f] = at'[g] => f = g
           /\ \A w \in Workers : batch'[w] \subseteq Announced'
           /\ \A f \in Events : f # e => at'[f] = at[f]
  <1>1. PICK k \in 1..MaxEvents : /\ \A f \in Announced : at[f] # k
                                 /\ at' = [at EXCEPT ![e] = k]
    BY DEF Announce
  <1>2. at \in [Events -> Int] /\ k > 0 /\ e \notin Announced
    BY MemoryAssumption DEF TypeOK, Announced
  <1>3. \A f \in Events : at'[f] = IF f = e THEN k ELSE at[f]
    BY <1>1, <1>2
  <1>4. Announced' = Announced \cup {e}
    BY <1>2, <1>3 DEF Announced
  <1>5. AtKept
    BY <1>2, <1>3 DEF AtKept, Announced
  <1>6. ASSUME NEW f \in Announced', NEW g \in Announced', at'[f] = at'[g] PROVE f = g
    <2>1. f \in Events /\ g \in Events
      BY DEF Announced
    <2>2. CASE f = e \/ g = e
      BY <1>1, <1>3, <1>4, <1>6, <2>1, <2>2
    <2>3. CASE f # e /\ g # e
      BY <1>3, <1>4, <1>6, <2>1, <2>3 DEF StampsApart
    <2> QED BY <2>2, <2>3
  <1>7. \A w \in Workers : batch'[w] \subseteq Announced'
    BY <1>4 DEF StampsApart
  <1> QED BY <1>3, <1>5, <1>6, <1>7

\* A step that stamps nothing.
LEMMA StampedStep ==
    ASSUME StampsApart, at' = at, \A w \in Workers : batch'[w] \subseteq Announced,
           \A c \in Candidates : approvals'[c] \in {"none", "pending"} =>
                                     approvals[c] \in {"none", "pending"}
    PROVE  StampsApart' /\ AtKept
  <1>1. Announced' = Announced
    BY DEF Announced
  <1> QED BY <1>1 DEF StampsApart, AtKept

LEMMA StampStep == TypeOK /\ StampsApart /\ RowsAgree /\ [Next]_vars => StampsApart' /\ AtKept
  <1> SUFFICES ASSUME TypeOK, StampsApart, RowsAgree, [Next]_vars PROVE StampsApart' /\ AtKept
    OBVIOUS
  <1>0. \A w \in Workers : batch[w] \subseteq Announced
    BY DEF StampsApart
  <1>1. ASSUME NEW c \in Candidates, ProposeCandidate(c) PROVE StampsApart' /\ AtKept
    <2>1. <<"proposed", c>> \in Events /\ \A d \in Candidates : <<"decided", d>> \in Events
      BY DEF Events
    <2>2. at[<<"proposed", c>>] = 0 /\ Announce(<<"proposed", c>>) /\ batch' = batch
          /\ approvals' = approvals
      BY <1>1 DEF ProposeCandidate
    <2>3. \A d \in Candidates : at'[<<"decided", d>>] = at[<<"decided", d>>]
      BY <2>1, <2>2, AnnounceStep
    <2> QED BY <2>1, <2>2, <2>3, AnnounceStep DEF StampsApart
  <1>2. ASSUME NEW c \in Candidates, NEW outcome \in {"approved", "rejected"},
               DecideReview(c, outcome)
        PROVE  StampsApart' /\ AtKept
    <2>1. \A d \in Candidates : <<"decided", d>> \in Events
      BY DEF Events
    <2>2. Announce(<<"decided", c>>) /\ batch' = batch /\ at[<<"decided", c>>] = 0
          /\ approvals' = [approvals EXCEPT ![c] = outcome]
      BY <1>2 DEF DecideReview, StampsApart
    <2>3. ASSUME NEW d \in Candidates, approvals'[d] \in {"none", "pending"}
          PROVE  at'[<<"decided", d>>] = 0
      <3>1. d # c /\ approvals'[d] = approvals[d]
        BY <2>2, <2>3 DEF TypeOK
      <3> QED BY <2>1, <2>2, <2>3, <3>1, AnnounceStep DEF StampsApart
    <2> QED BY <2>1, <2>2, <2>3, AnnounceStep DEF StampsApart
  <1>3. ASSUME NEW c \in Candidates, EvidenceLapses(c) PROVE StampsApart' /\ AtKept
    BY <1>0, <1>3, StampedStep DEF EvidenceLapses
  <1>4. ASSUME NEW i \in DOMAIN items, Expire(i) PROVE StampsApart' /\ AtKept
    BY <1>0, <1>4, StampedStep DEF Expire
  <1>15. ASSUME NEW w \in Workers, CommitClaim(w) PROVE StampsApart' /\ AtKept
    BY <1>0, <1>15, StampedStep DEF CommitClaim
  <1>5. ASSUME NEW w \in Workers, NEW B \in SUBSET Claimable, LockBatch(w, B)
        PROVE  StampsApart' /\ AtKept
    <2>1. B \subseteq Announced
      BY DEF Claimable
    <2>2. at' = at /\ approvals' = approvals /\ batch' = [batch EXCEPT ![w] = B]
      BY <1>5 DEF LockBatch
    <2>3. \A v \in Workers : batch'[v] \subseteq Announced
      BY <1>0, <2>1, <2>2 DEF TypeOK
    <2> QED BY <2>2, <2>3, StampedStep
  <1>6. ASSUME NEW w \in Workers, NEW c \in Candidates, ReadCandidate(w, c)
        PROVE  StampsApart' /\ AtKept
    BY <1>0, <1>6, StampedStep DEF ReadCandidate
  <1>7. ASSUME NEW w \in Workers, NEW c \in Candidates, InsertCandidate(w, c)
        PROVE  StampsApart' /\ AtKept
    <2>1. at' = at /\ batch' = batch
      BY <1>7 DEF InsertCandidate
    <2>2. approvals' = approvals \/ (approvals' = [approvals EXCEPT ![c] = "pending"]
                                     /\ approvals[c] = "none")
      BY <1>7 DEF InsertCandidate, RejectCandidate, HoldForReview, AutoWrite, StoreItem,
                  RefuseCandidate, KeyFree, RowsAgree
    <2>3. \A d \in Candidates : approvals'[d] \in {"none", "pending"} =>
                                    approvals[d] \in {"none", "pending"}
      BY <2>2 DEF TypeOK
    <2> QED BY <1>0, <2>1, <2>3, StampedStep
  <1>8. ASSUME NEW w \in Workers, NEW c \in Candidates, SettleReview(w, c)
        PROVE  StampsApart' /\ AtKept
    <2>1. at' = at /\ batch' = batch /\ approvals' = approvals
      BY <1>8 DEF SettleReview, AlreadySettled, SettleRefused, StoreReviewed, StoreItem, ReviewFails
    <2> QED BY <1>0, <2>1, StampedStep
  <1>9. ASSUME NEW w \in Workers, NEW e \in Events, CommitItem(w, e) PROVE StampsApart' /\ AtKept
    BY <1>0, <1>9, StampedStep DEF CommitItem
  <1>10. ASSUME NEW w \in Workers, at' = at, approvals' = approvals,
                NEW B \in SUBSET batch[w], batch' = [batch EXCEPT ![w] = B]
         PROVE  StampsApart' /\ AtKept
    <2>1. \A v \in Workers : batch'[v] \subseteq Announced
      BY <1>0, <1>10 DEF TypeOK
    <2> QED BY <1>10, <2>1, StampedStep
  <1>11. ASSUME NEW w \in Workers, NEW e \in Events, MarkProcessed(w, e) \/ RecordFailure(w, e)
         PROVE  StampsApart' /\ AtKept
    BY <1>10, <1>11 DEF MarkProcessed, RecordFailure, Advance
  <1>12. ASSUME NEW w \in Workers, StoreFails(w) PROVE StampsApart' /\ AtKept
    BY <1>0, <1>12, StampedStep DEF StoreFails
  <1>13. ASSUME NEW w \in Workers, Abandon(w) PROVE StampsApart' /\ AtKept
    BY <1>10, <1>13 DEF Abandon
  <1>14. CASE UNCHANGED vars
    BY <1>0, <1>14, StampedStep DEF vars
  <1> QED
    BY <1>1, <1>2, <1>3, <1>4, <1>5, <1>6, <1>7, <1>8, <1>9, <1>11, <1>12, <1>13, <1>14, <1>15
       DEF Next, Work

-----------------------------------------------------------------------------
(***************************************************************************)
(* How each part of the invariant passes a step, in terms of what the step *)
(* changes.                                                                *)
(***************************************************************************)

\* A worker that goes on storing keeps its claim on the candidate.
LEMMA StoresStep ==
    ASSUME StampsApart, StoresUnstored, AtKept,
           \A v \in Workers : pc'[v] = "store" => pc[v] = "store" /\ batch'[v] = batch[v],
           \A v \in Workers, c \in Candidates : Storing(v, c) /\ pc'[v] = "store" =>
               rows'[c] = rows[c] /\ approvals'[c] = approvals[c]
    PROVE  StoresUnstored'
  <1> SUFFICES ASSUME NEW w \in Workers, NEW c \in Candidates, Storing(w, c)'
      PROVE  /\ rows'[c].memory = 0
             /\ Delivers(w, <<"proposed", c>>)' => /\ rows'[c].decision = "none"
                                                   /\ Evaluate(c) = "auto_write"
             /\ Delivers(w, <<"decided", c>>)' => /\ rows'[c].decision = "review"
                                                  /\ approvals'[c] = "approved"
             /\ \A v \in Workers : Storing(v, c)' => v = w
    BY DEF StoresUnstored, Evaluate
  <1>1. ASSUME NEW v \in Workers, Storing(v, c)' PROVE Storing(v, c) /\ pc'[v] = "store"
    <2>1. pc'[v] = "store"
      BY <1>1 DEF Storing
    <2> QED BY <1>1, <2>1, StoringKept
  <1>2. <<"proposed", c>> \in Events /\ <<"decided", c>> \in Events
    BY DEF Events
  <1>3. Storing(w, c) /\ batch'[w] = batch[w] /\ rows'[c] = rows[c] /\ approvals'[c] = approvals[c]
    BY <1>1
  <1>4. \A e \in Events : Delivers(w, e)' <=> Delivers(w, e)
    BY <1>3, DeliversKept
  <1> QED BY <1>1, <1>2, <1>3, <1>4 DEF StoresUnstored

\* A worker that goes on storing sees what it saw; an item that was added since
\* is one it overlapped.
LEMMA SeesStep ==
    ASSUME TypeOK, StampsApart, SeesAnswers, AtKept,
           \A v \in Workers : pc'[v] = "store" =>
               pc[v] = "store" /\ batch'[v] = batch[v] /\ sees'[v] = sees[v],
           DOMAIN items \subseteq DOMAIN items',
           \A i \in DOMAIN items : /\ items'[i].of = items[i].of
                                   /\ items'[i].valid = "live" => items[i].valid = "live",
           raced \subseteq raced',
           \A i \in DOMAIN items' \ DOMAIN items, v \in Workers, c \in Candidates :
               Storing(v, c) /\ pc'[v] = "store" => {items'[i].of, c} \in raced'
    PROVE  SeesAnswers'
  <1> SUFFICES ASSUME NEW w \in Workers, NEW c \in Candidates, Storing(w, c)'
      PROVE  /\ sees'[w] \subseteq {i \in DOMAIN items' : SameQuestion(c, items'[i].of)}
             /\ \A i \in DOMAIN items' :
                   items'[i].valid = "live" /\ SameQuestion(c, items'[i].of)
                   => i \in sees'[w] \/ {items'[i].of, c} \in raced'
    BY DEF SeesAnswers, SameQuestion
  <1>1. pc'[w] = "store" /\ sees'[w] = sees[w] /\ Storing(w, c)
    <2>1. pc'[w] = "store"
      BY DEF Storing
    <2> QED BY <2>1, StoringKept
  <1>2. sees[w] \subseteq {i \in DOMAIN items : SameQuestion(c, items[i].of)}
    BY <1>1 DEF SeesAnswers
  <1>3. sees'[w] \subseteq {i \in DOMAIN items' : SameQuestion(c, items'[i].of)}
    BY <1>1, <1>2
  <1>4. ASSUME NEW i \in DOMAIN items', items'[i].valid = "live", SameQuestion(c, items'[i].of)
        PROVE  i \in sees'[w] \/ {items'[i].of, c} \in raced'
    <2>1. CASE i \in DOMAIN items
      BY <1>1, <1>4, <2>1 DEF SeesAnswers
    <2>2. CASE i \notin DOMAIN items
      BY <1>1, <2>2
    <2> QED BY <2>1, <2>2
  <1> QED BY <1>3, <1>4

\* Rows only move on.
RowsMoveOn ==
    \A c \in Candidates :
        /\ rows[c].decision # "none" => rows'[c].decision # "none"
        /\ rows[c].memory # 0 \/ rows[c].decision = "reject" =>
              rows'[c].memory # 0 \/ rows'[c].decision = "reject"

\* The effect of the event a worker is on, after the step.
HasEffect(w) ==
    \A c \in Candidates :
        /\ Delivers(w, <<"proposed", c>>)' => rows'[c].decision # "none"
        /\ Delivers(w, <<"decided", c>>)' => rows'[c].memory # 0 \/ rows'[c].decision = "reject"

LEMMA DoneStep ==
    ASSUME StampsApart, DoneHasEffect, AtKept, RowsMoveOn,
           \A v \in Workers : pc'[v] = "done" =>
               (pc[v] = "done" /\ batch'[v] = batch[v]) \/ HasEffect(v)
    PROVE  DoneHasEffect'
  <1> SUFFICES ASSUME NEW w \in Workers, NEW c \in Candidates, pc'[w] = "done"
      PROVE  /\ Delivers(w, <<"proposed", c>>)' => rows'[c].decision # "none"
             /\ Delivers(w, <<"decided", c>>)' => rows'[c].memory # 0 \/ rows'[c].decision = "reject"
    BY DEF DoneHasEffect
  <1>1. <<"proposed", c>> \in Events /\ <<"decided", c>> \in Events
    BY DEF Events
  <1>2. CASE HasEffect(w)
    BY <1>2 DEF HasEffect
  <1>3. CASE pc[w] = "done" /\ batch'[w] = batch[w]
    <2>1. \A e \in Events : Delivers(w, e)' <=> Delivers(w, e)
      BY <1>3, DeliversKept
    <2> QED BY <1>1, <1>3, <2>1 DEF DoneHasEffect, RowsMoveOn
  <1> QED BY <1>2, <1>3

\* What counts as delivered keeps its effect.
LEMMA SettledStep ==
    ASSUME SettledAsDecided, RowsMoveOn, RowsAgree', TypeOK',
           \A c \in Candidates :
               /\ <<"proposed", c>> \in processed' \ processed => rows'[c].decision # "none"
               /\ <<"decided", c>> \in processed' \ processed =>
                     rows'[c].memory # 0 \/ rows'[c].decision = "reject"
    PROVE  SettledAsDecided'
  <1> SUFFICES ASSUME NEW c \in Candidates
      PROVE  /\ <<"proposed", c>> \in processed' => rows'[c].decision # "none"
             /\ <<"decided", c>> \in processed' =>
                   rows'[c].memory # 0 \/ rows'[c].decision = "reject"
             /\ rows'[c].memory # 0 /\ (Label[c] = "restricted" \/ Sources[c] < AutoWriteSources)
                => approvals'[c] = "approved"
             /\ rows'[c].decision = "review" => approvals'[c] # "none"
    BY DEF SettledAsDecided
  <1>1. rows'[c].decision \in Decisions
    BY DEF TypeOK
  <1>2. Evaluate(c) = "auto_write" => Label[c] # "restricted" /\ Sources[c] >= AutoWriteSources
    BY DEF Evaluate
  <1>3. Sources[c] \in Int /\ AutoWriteSources \in Int
    BY MemoryAssumption
  <1>4. rows'[c].memory # 0 => Evaluate(c) = "auto_write" \/ approvals'[c] = "approved"
    BY <1>1 DEF RowsAgree, Decisions, Evaluate
  <1>5. rows'[c].memory # 0 /\ (Label[c] = "restricted" \/ Sources[c] < AutoWriteSources)
        => approvals'[c] = "approved"
    BY <1>2, <1>3, <1>4
  <1> QED BY <1>5 DEF SettledAsDecided, RowsMoveOn, RowsAgree

-----------------------------------------------------------------------------
(***************************************************************************)
(* The steps that touch memories.                                          *)
(***************************************************************************)

ItemsInv == WritesOnce /\ ClosedByLater /\ OneLiveAnswer

LEMMA SameItems ==
    ASSUME TypeOK, ItemsInv, items' = items, raced' = raced,
           \A c \in Candidates : rows'[c].memory = rows[c].memory
    PROVE  ItemsInv'
  <1>1. WritesOnce'
    BY ItemsType DEF ItemsInv, WritesOnce
  <1>2. ClosedByLater' /\ OneLiveAnswer'
    BY DEF ItemsInv, ClosedByLater, OneLiveAnswer, SameQuestion
  <1> QED BY <1>1, <1>2 DEF ItemsInv

LEMMA ExpireFacts ==
    ASSUME TypeOK, NEW i \in DOMAIN items, Expire(i)
    PROVE  /\ DOMAIN items' = DOMAIN items
           /\ \A j \in DOMAIN items : /\ items'[j].of = items[j].of
                                      /\ items'[j].valid = IF j = i THEN "expired" ELSE items[j].valid
  <1>1. items' = [items EXCEPT ![i] = [of |-> items[i].of, valid |-> "expired"]]
    BY DEF Expire
  <1> QED BY <1>1

LEMMA ExpireItems ==
    ASSUME TypeOK, ItemsInv, NEW i \in DOMAIN items, Expire(i)
    PROVE  ItemsInv'
  <1>1. rows' = rows /\ raced' = raced
    BY DEF Expire
  <1>2. WritesOnce'
    BY <1>1, ExpireFacts DEF ItemsInv, WritesOnce
  <1>3. ClosedByLater'
    BY <1>1, ExpireFacts DEF ItemsInv, ClosedByLater, SameQuestion
  <1>4. OneLiveAnswer'
    BY <1>1, ExpireFacts DEF ItemsInv, OneLiveAnswer, SameQuestion
  <1> QED BY <1>2, <1>3, <1>4 DEF ItemsInv

LEMMA CommitFacts ==
    ASSUME TypeOK, NEW w \in Workers, NEW e \in Events, CommitItem(w, e)
    PROVE  /\ DOMAIN items' = 1..(Len(items) + 1)
           /\ \A i \in DOMAIN items :
                 /\ items'[i].of = items[i].of
                 /\ items'[i].valid = IF i \in sees[w] /\ items[i].valid = "live" THEN "closed"
                                      ELSE items[i].valid
           /\ items'[Len(items) + 1].of = e[2] /\ items'[Len(items) + 1].valid = "live"
  <1> DEFINE R == [of: Candidates, valid: {"live", "closed", "expired"}]
             new == [of |-> e[2], valid |-> "live"]
             old == Close(sees[w])
  <1>1. Len(items) \in Nat /\ DOMAIN items = 1..Len(items)
    BY ItemsType
  <1>2. old \in Seq(R) /\ Len(old) = Len(items)
    BY CloseType
  <1>3. new \in R
    BY DEF Events
  <1>4. \A i \in DOMAIN items :
           /\ old[i].of = items[i].of
           /\ old[i].valid = IF i \in sees[w] /\ items[i].valid = "live" THEN "closed"
                             ELSE items[i].valid
    BY CloseType
  <1>5. items' = Append(old, new)
    BY DEF CommitItem
  <1>6. new.of = e[2] /\ new.valid = "live"
    OBVIOUS
  <1> HIDE DEF R, new, old
  <1>7. /\ items' \in Seq(R) /\ Len(items') = Len(items) + 1
        /\ \A i \in 1..Len(items) : items'[i] = old[i]
        /\ items'[Len(items) + 1] = new
    BY <1>2, <1>3, <1>5, AppendProperties
  <1> QED BY <1>1, <1>4, <1>6, <1>7

LEMMA CommitItems ==
    ASSUME TypeOK, MemoryInv, NEW w \in Workers, NEW e \in Events, CommitItem(w, e)
    PROVE  ItemsInv'
  <1> DEFINE n == Len(items)
             c == e[2]
  <1>1. n \in Nat /\ DOMAIN items = 1..n /\ \A i \in DOMAIN items : items[i].of \in Candidates
    BY ItemsType
  <1>2. c \in Candidates /\ Storing(w, c)
    BY DEF Events, CommitItem, Storing
  <1>3. /\ rows[c].memory = 0
        /\ sees[w] \subseteq {i \in DOMAIN items : SameQuestion(c, items[i].of)}
    BY <1>2 DEF MemoryInv, StoresUnstored, SeesAnswers
  <1>4. /\ \A i \in DOMAIN items :
              items[i].valid = "live" /\ SameQuestion(c, items[i].of)
              => i \in sees[w] \/ {items[i].of, c} \in raced
        /\ raced \subseteq raced'
    BY <1>2 DEF MemoryInv, SeesAnswers, CommitItem
  <1>5. /\ DOMAIN items' = 1..(n + 1)
        /\ \A i \in 1..n :
              /\ items'[i].of = items[i].of
              /\ items'[i].valid = IF i \in sees[w] /\ items[i].valid = "live" THEN "closed"
                                   ELSE items[i].valid
        /\ items'[n + 1].of = c /\ items'[n + 1].valid = "live"
    BY <1>1, CommitFacts
  <1>6. /\ rows'[c].memory = n + 1
        /\ \A d \in Candidates : d # c => rows'[d] = rows[d]
    BY <1>2 DEF CommitItem, TypeOK
  <1> HIDE DEF n, c
  <1>7. WritesOnce'
    <2>1. ASSUME NEW i \in 1..n PROVE rows'[items'[i].of].memory = i
      <3>1. rows[items[i].of].memory = i /\ items[i].of \in Candidates
        BY <1>1 DEF MemoryInv, WritesOnce
      <3>2. items[i].of # c
        BY <1>3, <3>1
      <3> QED BY <1>5, <1>6, <3>1, <3>2
    <2> QED BY <1>1, <1>5, <1>6, <2>1 DEF WritesOnce
  <1>8. ClosedByLater'
    <2> SUFFICES ASSUME NEW i \in 1..(n + 1), items'[i].valid = "closed"
        PROVE  \E j \in 1..(n + 1) : j > i /\ SameQuestion(items'[j].of, items'[i].of)
      BY <1>5 DEF ClosedByLater, SameQuestion
    <2>1. i \in 1..n
      BY <1>1, <1>5
    <2>2. CASE i \in sees[w]
      <3>1. SameQuestion(c, items[i].of)
        BY <1>3, <2>2
      <3> QED BY <1>1, <1>5, <2>1, <3>1
    <2>3. CASE i \notin sees[w]
      <3>1. items[i].valid = "closed"
        BY <1>5, <2>1, <2>3
      <3>2. PICK j \in 1..n : j > i /\ SameQuestion(items[j].of, items[i].of)
        BY <1>1, <2>1, <3>1 DEF MemoryInv, ClosedByLater
      <3> QED BY <1>1, <1>5, <2>1, <3>2
    <2> QED BY <2>2, <2>3
  <1>9. OneLiveAnswer'
    <2>1. ASSUME NEW i \in 1..n, items'[i].valid = "live", SameQuestion(c, items[i].of)
          PROVE  {items[i].of, c} \in raced'
      BY <1>1, <1>4, <1>5, <2>1
    <2> SUFFICES ASSUME NEW i \in 1..(n + 1), NEW j \in 1..(n + 1), i # j,
                        items'[i].valid = "live", items'[j].valid = "live",
                        SameQuestion(items'[i].of, items'[j].of)
        PROVE  {items'[i].of, items'[j].of} \in raced'
      BY <1>5 DEF OneLiveAnswer, SameQuestion
    <2>0. SameQuestion(items'[j].of, items'[i].of)
      BY DEF SameQuestion
    <2>2. CASE i \in 1..n /\ j \in 1..n
      <3>1. items[i].valid = "live" /\ items[j].valid = "live"
        BY <1>5, <2>2
      <3> QED BY <1>1, <1>4, <1>5, <2>2, <3>1 DEF MemoryInv, OneLiveAnswer
    <2>3. CASE j = n + 1
      <3>1. i \in 1..n
        BY <1>1, <2>3
      <3> QED BY <1>5, <2>0, <2>1, <2>3, <3>1
    <2>4. CASE i = n + 1
      <3>1. j \in 1..n
        BY <1>1, <2>4
      <3>2. {items[j].of, c} \in raced'
        BY <1>5, <2>1, <2>4, <3>1
      <3>3. {items'[i].of, items'[j].of} = {items[j].of, c}
        BY <1>5, <2>4, <3>1
      <3> QED BY <3>2, <3>3
    <2> QED BY <1>1, <2>2, <2>3, <2>4
  <1> QED BY <1>7, <1>8, <1>9 DEF ItemsInv

-----------------------------------------------------------------------------

Rest == /\ RowsAgree /\ StoresUnstored /\ SeesAnswers /\ DoneHasEffect
        /\ ItemsInv /\ SettledAsDecided

\* A worker that is storing after the step was so before, on the same event.
KeepsStoring ==
    \A v \in Workers : pc'[v] = "store" =>
        pc[v] = "store" /\ batch'[v] = batch[v] /\ sees'[v] = sees[v]

KeepsDone ==
    \A v \in Workers : pc'[v] = "done" =>
        (pc[v] = "done" /\ batch'[v] = batch[v]) \/ HasEffect(v)

\* A step that changes no row, approval or memory.
LEMMA StillStep ==
    ASSUME TypeOK, TypeOK', MemoryInv, AtKept, KeepsStoring, KeepsDone,
           rows' = rows, approvals' = approvals, items' = items, raced' = raced,
           \A c \in Candidates :
               /\ <<"proposed", c>> \in processed' \ processed => rows'[c].decision # "none"
               /\ <<"decided", c>> \in processed' \ processed =>
                     rows'[c].memory # 0 \/ rows'[c].decision = "reject"
    PROVE  Rest'
  <1>1. RowsAgree' /\ RowsMoveOn
    BY DEF MemoryInv, RowsAgree, RowsMoveOn, Evaluate
  <1>2. StoresUnstored'
    BY StoresStep DEF MemoryInv, KeepsStoring
  <1>3. SeesAnswers'
    BY SeesStep DEF MemoryInv, KeepsStoring
  <1>4. DoneHasEffect'
    BY <1>1, DoneStep DEF MemoryInv, KeepsDone
  <1>5. ItemsInv'
    BY SameItems DEF MemoryInv, ItemsInv
  <1>6. SettledAsDecided'
    BY <1>1, SettledStep DEF MemoryInv
  <1> QED BY <1>1, <1>2, <1>3, <1>4, <1>5, <1>6 DEF Rest

\* A step of w that changes the row of c, which nobody is storing, and leaves
\* memories alone.
LEMMA RowStep ==
    ASSUME TypeOK, TypeOK', MemoryInv, AtKept, NEW w \in Workers, NEW c \in Candidates,
           ~RowLocked(w, c), KeepsStoring, pc'[w] # "store", KeepsDone, RowsAgree', RowsMoveOn,
           \A d \in Candidates : d # c => rows'[d] = rows[d] /\ approvals'[d] = approvals[d],
           rows'[c].memory = rows[c].memory,
           items' = items, raced' = raced, processed' = processed
    PROVE  Rest'
  <1>1. \A v \in Workers, d \in Candidates : Storing(v, d) /\ pc'[v] = "store" =>
            rows'[d] = rows[d] /\ approvals'[d] = approvals[d]
    BY DEF RowLocked
  <1>2. StoresUnstored'
    BY <1>1, StoresStep DEF MemoryInv, KeepsStoring
  <1>3. SeesAnswers'
    BY SeesStep DEF MemoryInv, KeepsStoring
  <1>4. DoneHasEffect'
    BY DoneStep DEF MemoryInv, KeepsDone
  <1>5. ItemsInv'
    <2>1. \A d \in Candidates : rows'[d].memory = rows[d].memory
      OBVIOUS
    <2> QED BY <2>1, SameItems DEF MemoryInv, ItemsInv
  <1>6. SettledAsDecided'
    BY SettledStep DEF MemoryInv
  <1> QED BY <1>2, <1>3, <1>4, <1>5, <1>6 DEF Rest

\* A transaction that begins to store a candidate which nobody else stores.
LEMMA StoreStep ==
    ASSUME TypeOK, TypeOK', MemoryInv, AtKept, NEW w \in Workers, NEW e \in Events,
           Delivers(w, e), ~RowLocked(w, e[2]), StoreItem(w, e[2]),
           rows[e[2]].memory = 0,
           e[1] = "proposed" => rows[e[2]].decision = "none" /\ Evaluate(e[2]) = "auto_write",
           e[1] = "decided" => rows[e[2]].decision = "review" /\ approvals[e[2]] = "approved",
           batch' = batch, items' = items, raced' = raced, processed' = processed
    PROVE  Rest'
  <1> DEFINE c == e[2]
  <1>1. c \in Candidates
    BY DEF Events
  <1>2. /\ rows' = rows /\ approvals' = approvals
        /\ pc'[w] = "store" /\ \A v \in Workers : v # w => pc'[v] = pc[v] /\ sees'[v] = sees[v]
        /\ sees'[w] = LiveAnswers(c)
    BY DEF StoreItem, TypeOK
  <1>3. \A v \in Workers, f \in Events : Delivers(v, f)' <=> Delivers(v, f)
    BY DeliversKept DEF MemoryInv
  <1>4. \A v \in Workers, d \in Candidates : v # w => (Storing(v, d)' <=> Storing(v, d))
    BY <1>2, StoringKept DEF MemoryInv
  <1>5. \A f \in Events : Delivers(w, f) => f = e
    BY OneCurrent DEF MemoryInv
  <1>6. \A d \in Candidates : Storing(w, d)' <=> d = c
    BY <1>2, <1>3, <1>5 DEF Storing
  <1>7. \A v \in Workers : v # w => ~Storing(v, c)
    BY DEF RowLocked
  <1>8. RowsAgree' /\ RowsMoveOn
    BY <1>2 DEF MemoryInv, RowsAgree, RowsMoveOn, Evaluate
  <1>9. StoresUnstored'
    <2> SUFFICES ASSUME NEW v \in Workers, NEW d \in Candidates, Storing(v, d)'
        PROVE  /\ rows[d].memory = 0
               /\ Delivers(v, <<"proposed", d>>) => /\ rows[d].decision = "none"
                                                    /\ Evaluate(d) = "auto_write"
               /\ Delivers(v, <<"decided", d>>) => /\ rows[d].decision = "review"
                                                   /\ approvals[d] = "approved"
               /\ \A u \in Workers : Storing(u, d)' => u = v
      <3>1. \A d \in Candidates : <<"proposed", d>> \in Events /\ <<"decided", d>> \in Events
        BY DEF Events
      <3> QED BY <1>2, <1>3, <3>1 DEF StoresUnstored, Evaluate
    <2>0. <<"proposed", d>> \in Events /\ <<"decided", d>> \in Events
      BY DEF Events
    <2>1. CASE v = w
      <3>1. d = c
        BY <1>6, <2>1
      <3>2. Delivers(w, <<"proposed", d>>) => e[1] = "proposed"
        BY <1>5, <2>0
      <3>3. Delivers(w, <<"decided", d>>) => e[1] = "decided"
        BY <1>5, <2>0
      <3>4. \A u \in Workers : Storing(u, d)' => u = v
        BY <1>4, <1>7, <2>1, <3>1
      <3> QED BY <2>1, <3>1, <3>2, <3>3, <3>4
    <2>2. CASE v # w
      <3>1. Storing(v, d) /\ d # c
        BY <1>4, <1>7, <2>2
      <3>2. \A u \in Workers : Storing(u, d)' => Storing(u, d)
        BY <1>4, <1>6, <3>1
      <3> QED BY <3>1, <3>2 DEF MemoryInv, StoresUnstored
    <2> QED BY <2>1, <2>2
  <1>10. SeesAnswers'
    <2> SUFFICES ASSUME NEW v \in Workers, NEW d \in Candidates, Storing(v, d)'
        PROVE  /\ sees'[v] \subseteq {i \in DOMAIN items : SameQuestion(d, items[i].of)}
               /\ \A i \in DOMAIN items :
                     items[i].valid = "live" /\ SameQuestion(d, items[i].of)
                     => i \in sees'[v] \/ {items[i].of, d} \in raced
      BY DEF SeesAnswers, SameQuestion
    <2>1. CASE v = w
      <3>1. d = c
        BY <1>6, <2>1
      <3> QED BY <1>2, <2>1, <3>1 DEF LiveAnswers
    <2>2. CASE v # w
      <3>1. Storing(v, d) /\ sees'[v] = sees[v]
        BY <1>2, <1>4, <2>2
      <3> QED BY <3>1 DEF MemoryInv, SeesAnswers
    <2> QED BY <2>1, <2>2
  <1>11. DoneHasEffect'
    <2>1. \A v \in Workers : pc'[v] = "done" => pc[v] = "done" /\ batch'[v] = batch[v]
      BY <1>2
    <2> QED BY <1>8, <2>1, DoneStep DEF MemoryInv
  <1>12. ItemsInv'
    BY <1>2, SameItems DEF MemoryInv, ItemsInv
  <1>13. SettledAsDecided'
    BY <1>8, SettledStep DEF MemoryInv
  <1> QED BY <1>8, <1>9, <1>10, <1>11, <1>12, <1>13 DEF Rest

LEMMA CommitStep ==
    ASSUME TypeOK, TypeOK', MemoryInv, AtKept, NEW w \in Workers, NEW e \in Events, CommitItem(w, e)
    PROVE  Rest'
  <1> DEFINE c == e[2]
  <1>1. /\ c \in Candidates /\ e[1] \in {"proposed", "decided"} /\ e = <<e[1], c>>
        /\ Storing(w, c) /\ Delivers(w, e) /\ pc[w] = "store"
    <2>1. Delivers(w, e) /\ pc[w] = "store"
      BY DEF CommitItem
    <2>2. e[2] \in Candidates /\ e[1] \in {"proposed", "decided"} /\ e = <<e[1], e[2]>>
      BY DEF Events
    <2>3. Storing(w, e[2])
      BY <2>1 DEF Storing
    <2> QED BY <2>1, <2>2, <2>3
  <1>2. /\ rows' = [rows EXCEPT ![c] = [decision |-> IF e[1] = "proposed" THEN "auto_write"
                                                     ELSE "review",
                                        memory |-> Len(items) + 1]]
        /\ approvals' = approvals /\ batch' = batch /\ processed' = processed
        /\ raced' = raced \cup {{c, d} : d \in Overlapping(w)}
    BY DEF CommitItem
  <1>3. /\ pc'[w] = "done"
        /\ \A v \in Workers : v # w => pc'[v] = pc[v] /\ sees'[v] = sees[v]
    BY DEF CommitItem, Goto, TypeOK
  <1>4. Len(items) \in Nat /\ DOMAIN items = 1..Len(items)
    BY ItemsType
  <1>5. /\ rows[c].memory = 0
        /\ e[1] = "proposed" => rows[c].decision = "none" /\ Evaluate(c) = "auto_write"
        /\ e[1] = "decided" => rows[c].decision = "review" /\ approvals[c] = "approved"
        /\ \A v \in Workers : Storing(v, c) => v = w
    <2> HIDE DEF c
    <2>1. /\ rows[c].memory = 0
          /\ Delivers(w, <<"proposed", c>>) => /\ rows[c].decision = "none"
                                               /\ Evaluate(c) = "auto_write"
          /\ Delivers(w, <<"decided", c>>) => /\ rows[c].decision = "review"
                                              /\ approvals[c] = "approved"
          /\ \A v \in Workers : Storing(v, c) => v = w
      BY <1>1 DEF MemoryInv, StoresUnstored
    <2>2. /\ e[1] = "proposed" => Delivers(w, <<"proposed", c>>)
          /\ e[1] = "decided" => Delivers(w, <<"decided", c>>)
      BY <1>1
    <2> QED BY <2>1, <2>2
  <1>6. /\ rows'[c].memory = Len(items) + 1 /\ rows'[c].memory # 0
        /\ rows'[c].decision = IF e[1] = "proposed" THEN "auto_write" ELSE "review"
        /\ \A d \in Candidates : d # c => rows'[d] = rows[d]
    BY <1>1, <1>2, <1>4 DEF TypeOK
  <1> HIDE DEF c
  <1>7. RowsMoveOn
    BY <1>6 DEF RowsMoveOn
  <1>8. RowsAgree'
    <2> SUFFICES ASSUME NEW d \in Candidates
        PROVE  /\ rows'[d].decision = "none" => rows'[d].memory = 0 /\ approvals[d] = "none"
               /\ rows'[d].decision = "auto_write" =>
                     rows'[d].memory # 0 /\ Evaluate(d) = "auto_write"
               /\ rows'[d].decision = "review" => approvals[d] # "none"
               /\ rows'[d].decision = "review" /\ rows'[d].memory # 0 => approvals[d] = "approved"
               /\ rows'[d].decision = "reject" => rows'[d].memory = 0
      BY <1>2 DEF RowsAgree, Evaluate
    <2>1. CASE d = c
      BY <1>1, <1>5, <1>6, <2>1
    <2>2. CASE d # c
      BY <1>6, <2>2 DEF MemoryInv, RowsAgree
    <2> QED BY <2>1, <2>2
  <1>9. KeepsStoring
    BY <1>2, <1>3 DEF KeepsStoring
  <1>10. StoresUnstored'
    <2>1. \A v \in Workers, d \in Candidates : Storing(v, d) /\ pc'[v] = "store" =>
              rows'[d] = rows[d] /\ approvals'[d] = approvals[d]
      BY <1>2, <1>3, <1>5, <1>6
    <2> QED BY <1>9, <2>1, StoresStep DEF MemoryInv, KeepsStoring
  <1>11. SeesAnswers'
    <2>1. /\ DOMAIN items \subseteq DOMAIN items'
          /\ \A i \in DOMAIN items : /\ items'[i].of = items[i].of
                                     /\ items'[i].valid = "live" => items[i].valid = "live"
          /\ \A i \in DOMAIN items' \ DOMAIN items : items'[i].of = c
      BY <1>4, CommitFacts DEF c
    <2>2. ASSUME NEW v \in Workers, NEW d \in Candidates, Storing(v, d), pc'[v] = "store"
          PROVE  {c, d} \in raced'
      <3>1. v # w
        BY <1>3, <2>2
      <3>2. d \in Overlapping(w)
        BY <2>2, <3>1 DEF Overlapping
      <3> QED BY <1>2, <3>2
    <2>3. raced \subseteq raced'
      BY <1>2
    <2> QED BY <1>9, <2>1, <2>2, <2>3, SeesStep DEF MemoryInv, KeepsStoring
  <1>12. DoneHasEffect'
    <2>1. HasEffect(w)
      <3>1. \A f \in Events : Delivers(w, f)' => f = e
        BY <1>1, <1>2, DeliversKept, OneCurrent DEF MemoryInv
      <3> SUFFICES ASSUME NEW d \in Candidates
          PROVE  /\ Delivers(w, <<"proposed", d>>)' => rows'[d].decision # "none"
                 /\ Delivers(w, <<"decided", d>>)' =>
                       rows'[d].memory # 0 \/ rows'[d].decision = "reject"
        BY DEF HasEffect
      <3>2. <<"proposed", d>> \in Events /\ <<"decided", d>> \in Events
        BY DEF Events
      <3>3. Delivers(w, <<"proposed", d>>)' \/ Delivers(w, <<"decided", d>>)' => d = c
        BY <1>1, <3>1, <3>2
      <3> QED BY <1>6, <3>3
    <2>2. KeepsDone
      BY <1>2, <1>3, <2>1 DEF KeepsDone
    <2> QED BY <1>7, <2>2, DoneStep DEF MemoryInv, KeepsDone
  <1>13. ItemsInv'
    BY CommitItems
  <1>14. SettledAsDecided'
    BY <1>2, <1>7, <1>8, SettledStep DEF MemoryInv
  <1> QED BY <1>8, <1>10, <1>11, <1>12, <1>13, <1>14 DEF Rest

\* A worker that goes to p leaves the others where they are.
LEMMA GotoFrame ==
    ASSUME TypeOK, NEW w \in Workers, NEW p, Goto(w, p), batch' = batch
    PROVE  /\ pc'[w] = p
           /\ p # "store" => KeepsStoring
           /\ p # "done" \/ HasEffect(w) => KeepsDone
  <1>1. /\ pc'[w] = p
        /\ \A v \in Workers : v # w => pc'[v] = pc[v] /\ sees'[v] = sees[v] /\ batch'[v] = batch[v]
    BY DEF Goto, TypeOK
  <1> QED BY <1>1 DEF KeepsStoring, KeepsDone

\* The effect of a delivered event is that on its candidate.
LEMMA EffectOf ==
    ASSUME TypeOK, StampsApart, AtKept, NEW w \in Workers, NEW e \in Events, Delivers(w, e),
           batch'[w] = batch[w],
           e[1] = "proposed" => rows'[e[2]].decision # "none",
           e[1] = "decided" => rows'[e[2]].memory # 0 \/ rows'[e[2]].decision = "reject"
    PROVE  HasEffect(w)
  <1>1. \A f \in Events : Delivers(w, f)' => f = e
    BY DeliversKept, OneCurrent
  <1>2. \A d \in Candidates : <<"proposed", d>> \in Events /\ <<"decided", d>> \in Events
    BY DEF Events
  <1>3. ASSUME NEW d \in Candidates, Delivers(w, <<"proposed", d>>)'
        PROVE  rows'[d].decision # "none"
    <2>1. e = <<"proposed", d>>
      BY <1>1, <1>2, <1>3
    <2>2. e[1] = "proposed" /\ e[2] = d
      BY ONLY <2>1
    <2> QED BY <2>2
  <1>4. ASSUME NEW d \in Candidates, Delivers(w, <<"decided", d>>)'
        PROVE  rows'[d].memory # 0 \/ rows'[d].decision = "reject"
    <2>1. e = <<"decided", d>>
      BY <1>1, <1>2, <1>4
    <2>2. e[1] = "decided" /\ e[2] = d
      BY ONLY <2>1
    <2> QED BY <2>2
  <1> QED BY <1>3, <1>4 DEF HasEffect

-----------------------------------------------------------------------------

LEMMA InsertStep ==
    ASSUME TypeOK, TypeOK', MemoryInv, AtKept, NEW w \in Workers, NEW c \in Candidates,
           InsertCandidate(w, c)
    PROVE  Rest'
  <1> DEFINE e == <<"proposed", c>>
  <1>1. e \in Events /\ e[1] = "proposed" /\ e[2] = c
    BY DEF Events
  <1>2. /\ Delivers(w, e) /\ ~RowLocked(w, c) /\ batch' = batch
        /\ items' = items /\ raced' = raced /\ processed' = processed
    BY DEF InsertCandidate
  <1>3. StampsApart /\ batch'[w] = batch[w]
    BY <1>2 DEF MemoryInv
  <1> HIDE DEF e
  <1>4. KeyFree(c) => rows[c].decision = "none" /\ rows[c].memory = 0 /\ approvals[c] = "none"
    BY DEF KeyFree, MemoryInv, RowsAgree
  <1>5. ASSUME NEW d \in {"reject", "review"}, KeyFree(c), rows' = Decided(c, d), Goto(w, "done"),
               d = "reject" => approvals' = approvals,
               d = "review" => approvals' = [approvals EXCEPT ![c] = "pending"]
        PROVE  Rest'
    <2>1. /\ rows'[c].decision = d /\ rows'[c].memory = rows[c].memory
          /\ \A b \in Candidates : b # c => rows'[b] = rows[b] /\ approvals'[b] = approvals[b]
          /\ d = "review" => approvals'[c] = "pending"
      BY <1>5 DEF Decided, TypeOK
    <2>2. RowsMoveOn
      BY <1>4, <1>5, <2>1 DEF RowsMoveOn
    <2>3. RowsAgree'
      <3> SUFFICES ASSUME NEW b \in Candidates
          PROVE  /\ rows'[b].decision = "none" => rows'[b].memory = 0 /\ approvals'[b] = "none"
                 /\ rows'[b].decision = "auto_write" =>
                       rows'[b].memory # 0 /\ Evaluate(b) = "auto_write"
                 /\ rows'[b].decision = "review" => approvals'[b] # "none"
                 /\ rows'[b].decision = "review" /\ rows'[b].memory # 0 =>
                       approvals'[b] = "approved"
                 /\ rows'[b].decision = "reject" => rows'[b].memory = 0
        BY DEF RowsAgree, Evaluate
      <3>1. CASE b = c
        BY <1>4, <1>5, <2>1, <3>1
      <3>2. CASE b # c
        BY <2>1, <3>2 DEF MemoryInv, RowsAgree
      <3> QED BY <3>1, <3>2
    <2>4. HasEffect(w)
      BY <1>1, <1>2, <1>3, <2>1, EffectOf
    <2>5. KeepsStoring /\ KeepsDone /\ pc'[w] # "store"
      BY <1>2, <1>5, <2>4, GotoFrame
    <2> QED BY <1>2, <2>1, <2>2, <2>3, <2>5, RowStep
  <1>6. CASE RejectCandidate(w, c)
    BY <1>5, <1>6 DEF RejectCandidate
  <1>7. CASE HoldForReview(w, c)
    BY <1>5, <1>7 DEF HoldForReview
  <1>8. CASE AutoWrite(w, c)
    BY <1>1, <1>2, <1>4, <1>8, StoreStep DEF AutoWrite
  <1>9. CASE RefuseCandidate(w, c)
    <2>1. Goto(w, "failed") /\ rows' = rows /\ approvals' = approvals
      BY <1>9 DEF RefuseCandidate
    <2>2. KeepsStoring /\ KeepsDone
      BY <1>2, <2>1, GotoFrame
    <2> QED BY <1>2, <2>1, <2>2, StillStep
  <1> QED BY <1>6, <1>7, <1>8, <1>9 DEF InsertCandidate

LEMMA SettleStep ==
    ASSUME TypeOK, TypeOK', MemoryInv, AtKept, NEW w \in Workers, NEW c \in Candidates,
           SettleReview(w, c)
    PROVE  Rest'
  <1> DEFINE e == <<"decided", c>>
  <1>1. e \in Events /\ e[1] = "decided" /\ e[2] = c
    BY DEF Events
  <1>2. Delivers(w, e) /\ ~RowLocked(w, c) /\ batch' = batch /\ raced' = raced
        /\ processed' = processed
    BY DEF SettleReview
  <1>3. StampsApart /\ batch'[w] = batch[w]
    BY <1>2 DEF MemoryInv
  <1>4. approvals[c] \notin {"none", "pending"}
    <2>1. e \in Announced
      BY <1>2, <1>3 DEF Delivers, StampsApart
    <2>2. at[<<"decided", c>>] > 0
      BY <2>1 DEF Announced
    <2> QED BY <1>3, <2>2 DEF StampsApart
  <1> HIDE DEF e
  <1>5. ASSUME rows[c].memory = 0, rows[c].decision = "review", rows' = Decided(c, "reject"),
               approvals' = approvals, items' = items,
               Goto(w, "done") \/ Goto(w, "failed")
        PROVE  Rest'
    <2>1. /\ rows'[c].decision = "reject" /\ rows'[c].memory = 0
          /\ \A b \in Candidates : b # c => rows'[b] = rows[b] /\ approvals'[b] = approvals[b]
      BY <1>5 DEF Decided, TypeOK
    <2>2. RowsMoveOn
      BY <2>1 DEF RowsMoveOn
    <2>3. RowsAgree'
      <3> SUFFICES ASSUME NEW b \in Candidates
          PROVE  /\ rows'[b].decision = "none" => rows'[b].memory = 0 /\ approvals'[b] = "none"
                 /\ rows'[b].decision = "auto_write" =>
                       rows'[b].memory # 0 /\ Evaluate(b) = "auto_write"
                 /\ rows'[b].decision = "review" => approvals'[b] # "none"
                 /\ rows'[b].decision = "review" /\ rows'[b].memory # 0 =>
                       approvals'[b] = "approved"
                 /\ rows'[b].decision = "reject" => rows'[b].memory = 0
        BY DEF RowsAgree, Evaluate
      <3>1. CASE b = c
        BY <2>1, <3>1
      <3>2. CASE b # c
        BY <2>1, <3>2 DEF MemoryInv, RowsAgree
      <3> QED BY <3>1, <3>2
    <2>4. HasEffect(w)
      BY <1>1, <1>2, <1>3, <2>1, EffectOf
    <2>5. KeepsStoring /\ KeepsDone /\ pc'[w] # "store"
      BY <1>2, <1>5, <2>4, GotoFrame
    <2> QED BY <1>2, <1>5, <2>1, <2>2, <2>3, <2>5, RowStep
  <1>6. CASE AlreadySettled(w, c)
    <2>1. /\ Goto(w, "done") /\ rows' = rows /\ approvals' = approvals /\ items' = items
          /\ rows[c].memory # 0 \/ rows[c].decision # "review"
      BY <1>6 DEF AlreadySettled
    <2>2. rows[c].decision \in Decisions
      BY DEF TypeOK
    <2>3. rows[c].memory # 0 \/ rows[c].decision = "reject"
      BY <1>4, <2>1, <2>2 DEF Decisions, MemoryInv, RowsAgree
    <2>4. HasEffect(w)
      BY <1>1, <1>2, <1>3, <2>1, <2>3, EffectOf
    <2>5. KeepsStoring /\ KeepsDone
      BY <1>2, <2>1, <2>4, GotoFrame
    <2> QED BY <1>2, <2>1, <2>5, StillStep
  <1>7. CASE SettleRefused(w, c)
    BY <1>5, <1>7 DEF SettleRefused
  <1>8. CASE StoreReviewed(w, c)
    BY <1>1, <1>2, <1>8, StoreStep DEF StoreReviewed
  <1>9. CASE ReviewFails(w, c)
    BY <1>5, <1>9 DEF ReviewFails
  <1> QED BY <1>6, <1>7, <1>8, <1>9 DEF SettleReview

\* A worker that leaves its event, or its tick.
LEMMA LeaveFrame ==
    ASSUME TypeOK, NEW w \in Workers, NEW p \in {"idle", "deliver", "insert", "failed"},
           Goto(w, p), \A v \in Workers : v # w => batch'[v] = batch[v]
    PROVE  KeepsStoring /\ KeepsDone
  <1>1. pc'[w] = p /\ \A v \in Workers : v # w => pc'[v] = pc[v] /\ sees'[v] = sees[v]
    BY DEF Goto, TypeOK
  <1> QED BY <1>1 DEF KeepsStoring, KeepsDone

LEMMA DecideStep ==
    ASSUME TypeOK, TypeOK', MemoryInv, AtKept, NEW c \in Candidates,
           NEW outcome \in {"approved", "rejected"}, DecideReview(c, outcome)
    PROVE  Rest'
  <1>1. /\ approvals[c] = "pending" /\ approvals'[c] = outcome
        /\ \A d \in Candidates : d # c => approvals'[d] = approvals[d]
        /\ UNCHANGED <<processed, rows, items, pc, batch, sees, raced>>
    BY DEF DecideReview, TypeOK
  <1>2. ASSUME NEW v \in Workers PROVE ~Storing(v, c)
    <2> SUFFICES ASSUME Storing(v, c) PROVE FALSE
      OBVIOUS
    <2>1. CASE Delivers(v, <<"proposed", c>>)
      BY <1>1, <2>1 DEF MemoryInv, StoresUnstored, RowsAgree
    <2>2. CASE Delivers(v, <<"decided", c>>)
      BY <1>1, <2>2 DEF MemoryInv, StoresUnstored
    <2> QED BY <2>1, <2>2, StoringDelivers
  <1>3. RowsMoveOn
    BY <1>1 DEF RowsMoveOn
  <1>4. RowsAgree'
    <2> SUFFICES ASSUME NEW d \in Candidates
        PROVE  /\ rows[d].decision = "none" => rows[d].memory = 0 /\ approvals'[d] = "none"
               /\ rows[d].decision = "auto_write" =>
                     rows[d].memory # 0 /\ Evaluate(d) = "auto_write"
               /\ rows[d].decision = "review" => approvals'[d] # "none"
               /\ rows[d].decision = "review" /\ rows[d].memory # 0 => approvals'[d] = "approved"
               /\ rows[d].decision = "reject" => rows[d].memory = 0
      BY <1>1 DEF RowsAgree, Evaluate
    <2>1. CASE d = c
      BY <1>1, <2>1 DEF MemoryInv, RowsAgree
    <2>2. CASE d # c
      BY <1>1, <2>2 DEF MemoryInv, RowsAgree
    <2> QED BY <2>1, <2>2
  <1>5. StoresUnstored'
    BY <1>1, <1>2, StoresStep DEF MemoryInv
  <1>6. SeesAnswers'
    BY <1>1, SeesStep DEF MemoryInv
  <1>7. DoneHasEffect'
    BY <1>1, <1>3, DoneStep DEF MemoryInv
  <1>8. ItemsInv'
    BY <1>1, SameItems DEF MemoryInv, ItemsInv
  <1>9. SettledAsDecided'
    BY <1>1, <1>3, <1>4, SettledStep DEF MemoryInv
  <1> QED BY <1>4, <1>5, <1>6, <1>7, <1>8, <1>9 DEF Rest

LEMMA ExpireStep ==
    ASSUME TypeOK, TypeOK', MemoryInv, AtKept, NEW i \in DOMAIN items, Expire(i)
    PROVE  Rest'
  <1>1. UNCHANGED <<processed, rows, approvals, pc, batch, sees, raced>>
    BY DEF Expire
  <1>2. RowsAgree' /\ RowsMoveOn
    BY <1>1 DEF MemoryInv, RowsAgree, RowsMoveOn, Evaluate
  <1>3. StoresUnstored'
    BY <1>1, StoresStep DEF MemoryInv
  <1>4. SeesAnswers'
    <2>1. /\ DOMAIN items' = DOMAIN items
          /\ \A j \in DOMAIN items : /\ items'[j].of = items[j].of
                                     /\ items'[j].valid = "live" => items[j].valid = "live"
      BY ExpireFacts
    <2> QED BY <1>1, <2>1, SeesStep DEF MemoryInv
  <1>5. DoneHasEffect'
    BY <1>1, <1>2, DoneStep DEF MemoryInv
  <1>6. ItemsInv'
    BY ExpireItems DEF MemoryInv, ItemsInv
  <1>7. SettledAsDecided'
    BY <1>1, <1>2, SettledStep DEF MemoryInv
  <1> QED BY <1>2, <1>3, <1>4, <1>5, <1>6, <1>7 DEF Rest

LEMMA RestStep == TypeOK /\ TypeOK' /\ MemoryInv /\ AtKept /\ [Next]_vars => Rest'
  <1> SUFFICES ASSUME TypeOK, TypeOK', MemoryInv, AtKept, [Next]_vars PROVE Rest'
    OBVIOUS
  <1>1. ASSUME UNCHANGED <<processed, rows, approvals, items, pc, batch, sees, raced>> PROVE Rest'
    <2>1. KeepsStoring /\ KeepsDone
      BY <1>1 DEF KeepsStoring, KeepsDone
    <2> QED BY <1>1, <2>1, StillStep
  <1>2. ASSUME NEW c \in Candidates, ProposeCandidate(c) \/ EvidenceLapses(c) PROVE Rest'
    BY <1>1, <1>2 DEF ProposeCandidate, EvidenceLapses
  <1>10. ASSUME NEW w \in Workers, CommitClaim(w) PROVE Rest'
    <2>1. /\ UNCHANGED <<processed, rows, approvals, items, raced, batch, sees>>
          /\ pc' = [pc EXCEPT ![w] = "deliver"]
      BY <1>10 DEF CommitClaim
    <2>2. KeepsStoring /\ KeepsDone
      BY <2>1 DEF KeepsStoring, KeepsDone, TypeOK
    <2> QED BY <2>1, <2>2, StillStep
  <1>3. ASSUME NEW w \in Workers, NEW B \in SUBSET Claimable, LockBatch(w, B) PROVE Rest'
    <2>1. /\ UNCHANGED <<processed, rows, approvals, items, raced>>
          /\ pc' = [pc EXCEPT ![w] = "claim"] /\ batch' = [batch EXCEPT ![w] = B] /\ sees' = sees
      BY <1>3 DEF LockBatch
    <2>2. KeepsStoring /\ KeepsDone
      BY <2>1 DEF KeepsStoring, KeepsDone, TypeOK
    <2> QED BY <2>1, <2>2, StillStep
  <1>4. ASSUME NEW w \in Workers, NEW c \in Candidates, ReadCandidate(w, c) PROVE Rest'
    <2>1. /\ UNCHANGED <<processed, rows, approvals, items, batch, raced>>
          /\ Delivers(w, <<"proposed", c>>)
          /\ \/ Goto(w, "failed") \/ Goto(w, "insert")
             \/ Goto(w, "done") /\ rows[c].decision # "none"
      BY <1>4 DEF ReadCandidate
    <2>2. CASE Goto(w, "failed") \/ Goto(w, "insert")
      <3>1. KeepsStoring /\ KeepsDone
        BY <2>1, <2>2, GotoFrame
      <3> QED BY <2>1, <3>1, StillStep
    <2>3. CASE Goto(w, "done") /\ rows[c].decision # "none"
      <3> DEFINE e == <<"proposed", c>>
      <3>1. e \in Events /\ e[1] = "proposed" /\ e[2] = c /\ Delivers(w, e)
        BY <2>1 DEF Events
      <3>2. StampsApart /\ batch'[w] = batch[w] /\ rows'[c].decision # "none"
        BY <2>1, <2>3 DEF MemoryInv
      <3> HIDE DEF e
      <3>3. HasEffect(w)
        BY <3>1, <3>2, EffectOf
      <3>4. KeepsStoring /\ KeepsDone
        BY <2>1, <2>3, <3>3, GotoFrame
      <3> QED BY <2>1, <3>4, StillStep
    <2> QED BY <2>1, <2>2, <2>3
  <1>5. ASSUME NEW w \in Workers, NEW e \in Events, Advance(w, e) PROVE KeepsStoring /\ KeepsDone
    <2>1. \A v \in Workers : v # w => batch'[v] = batch[v]
      BY <1>5 DEF Advance, TypeOK
    <2>2. Goto(w, "idle") \/ Goto(w, "deliver")
      BY <1>5 DEF Advance
    <2> QED BY <2>1, <2>2, LeaveFrame
  <1>6. ASSUME NEW w \in Workers, NEW e \in Events, MarkProcessed(w, e) PROVE Rest'
    <2>1. /\ pc[w] = "done" /\ Delivers(w, e) /\ processed' = processed \cup {e} /\ Advance(w, e)
          /\ UNCHANGED <<rows, approvals, items, raced>>
      BY <1>6 DEF MarkProcessed
    <2>2. ASSUME NEW c \in Candidates
          PROVE  /\ <<"proposed", c>> \in processed' \ processed => rows'[c].decision # "none"
                 /\ <<"decided", c>> \in processed' \ processed =>
                       rows'[c].memory # 0 \/ rows'[c].decision = "reject"
      <3>1. <<"proposed", c>> \in processed' \ processed => Delivers(w, <<"proposed", c>>)
        BY <2>1
      <3>2. <<"decided", c>> \in processed' \ processed => Delivers(w, <<"decided", c>>)
        BY <2>1
      <3> QED BY <2>1, <3>1, <3>2 DEF MemoryInv, DoneHasEffect
    <2>3. KeepsStoring /\ KeepsDone
      BY <1>5, <2>1
    <2> QED BY <2>1, <2>2, <2>3, StillStep
  <1>7. ASSUME NEW w \in Workers, NEW e \in Events, RecordFailure(w, e) PROVE Rest'
    <2>1. Advance(w, e) /\ UNCHANGED <<processed, rows, approvals, items, raced>>
      BY <1>7 DEF RecordFailure
    <2>2. KeepsStoring /\ KeepsDone
      BY <1>5, <2>1
    <2> QED BY <2>1, <2>2, StillStep
  <1>8. ASSUME NEW w \in Workers, StoreFails(w) \/ Abandon(w) PROVE Rest'
    <2>1. /\ UNCHANGED <<processed, rows, approvals, items, raced>>
          /\ Goto(w, "failed") \/ Goto(w, "idle")
          /\ \A v \in Workers : v # w => batch'[v] = batch[v]
      BY <1>8 DEF StoreFails, Abandon, TypeOK
    <2>2. KeepsStoring /\ KeepsDone
      BY <2>1, LeaveFrame
    <2> QED BY <2>1, <2>2, StillStep
  <1>9. CASE UNCHANGED vars
    BY <1>1, <1>9 DEF vars
  <1> QED
    BY <1>2, <1>3, <1>4, <1>6, <1>7, <1>8, <1>9, <1>10, DecideStep, ExpireStep, InsertStep, SettleStep,
       CommitStep DEF Next, Work

LEMMA MemoryStep == TypeOK /\ TypeOK' /\ MemoryInv /\ [Next]_vars => MemoryInv'
  BY StampStep, RestStep DEF MemoryInv, Rest, ItemsInv

LEMMA MemoryInit == Init => MemoryInv
  <1> SUFFICES ASSUME Init PROVE MemoryInv
    OBVIOUS
  <1>0. \A e \in Events : at[e] = 0
    BY DEF Init
  <1>1. StampsApart
    <2>1. Announced = {}
      BY <1>0 DEF Announced
    <2>4. \A c \in Candidates : at[<<"decided", c>>] = 0
      BY <1>0 DEF Events
    <2>5. \A w \in Workers : batch[w] = {}
      BY DEF Init
    <2> QED BY <2>1, <2>4, <2>5 DEF StampsApart
  <1>2. items = <<>> /\ DOMAIN items = {}
    BY DEF Init
  <1>3. WritesOnce /\ ClosedByLater /\ OneLiveAnswer
    BY <1>2 DEF WritesOnce, ClosedByLater, OneLiveAnswer
  <1>4. StoresUnstored /\ SeesAnswers /\ DoneHasEffect
    BY DEF Init, StoresUnstored, SeesAnswers, DoneHasEffect, Storing
  <1>5. RowsAgree /\ SettledAsDecided
    BY DEF Init, RowsAgree, SettledAsDecided
  <1> QED BY <1>1, <1>3, <1>4, <1>5 DEF MemoryInv

\* The inductive invariant: a storing transaction is alone on its candidate,
\* finds it unstored, and has seen every live answer but those it overlapped.
THEOREM MemoryCorrect == Spec => []MemoryInv
  BY MemoryInit, TypeCorrect, MemoryStep, PTL DEF Spec

\* Redelivered, raced by another worker or resumed after a crash, an event
\* stores its fact once (propose, settle_review).
THEOREM FactsWrittenOnce == Spec => []WritesOnce
  <1>1. MemoryInv => WritesOnce
    BY DEF MemoryInv
  <1> QED BY <1>1, MemoryCorrect, PTL

\* Whatever fails, races or is redelivered, nothing is closed for an answer that
\* is not stored (_close_superseded in the transaction of the item that replaces).
THEOREM ClosedForAnAnswer == Spec => []ClosedByLater
  <1>1. MemoryInv => ClosedByLater
    BY DEF MemoryInv
  <1> QED BY <1>1, MemoryCorrect, PTL

\* Two live answers to one question come only from transactions that overlapped.
THEOREM AnswersAreUnique == Spec => []OneLiveAnswer
  <1>1. MemoryInv => OneLiveAnswer
    BY DEF MemoryInv
  <1> QED BY <1>1, MemoryCorrect, PTL

\* What mark_processed settles has been done, as the policy and the reviewer
\* decided it.
THEOREM DeliveredMeansSettled == Spec => []SettledAsDecided
  <1>1. MemoryInv => SettledAsDecided
    BY DEF MemoryInv
  <1> QED BY <1>1, MemoryCorrect, PTL

-----------------------------------------------------------------------------

\* A stored corroborated fact was claimed, so its proposal keeps its stamp.
LEMMA StoredIsClaimed ==
    ASSUME TypeOK, WritesOnce, StoredByProposal, ClaimsCounted, NEW i \in DOMAIN items,
           Evaluate(items[i].of) = "auto_write"
    PROVE  /\ items[i].of \in Candidates /\ <<"proposed", items[i].of>> \in Events
           /\ rows[items[i].of].memory # 0
           /\ attempts[<<"proposed", items[i].of>>] > 0
           /\ at[<<"proposed", items[i].of>>] > 0
  <1>1. items[i].of \in Candidates /\ i # 0
    BY ItemsType
  <1>2. <<"proposed", items[i].of>> \in Events
    BY <1>1 DEF Events
  <1>3. rows[items[i].of].memory # 0
    BY <1>1 DEF WritesOnce
  <1> QED BY <1>1, <1>2, <1>3 DEF StoredByProposal, ClaimsCounted

\* A step that stamps, claims and stores nothing keeps the order, though it may
\* let go of claimed events, mark one of them processed, and decide rows.
LEMMA OrderFrame ==
    ASSUME TypeOK, OrderInv, UNCHANGED <<at, attempts, overtaken>>,
           \A w \in Workers : pc'[w] = "claim" => pc[w] = "claim" /\ batch'[w] = batch[w],
           \A w \in Workers, e \in Events : Holds(w, e)' => Holds(w, e),
           processed \subseteq processed',
           \A e \in processed' \ processed : \E w \in Workers : Holds(w, e) /\ ~Holds(w, e)',
           \A c \in Candidates :
              /\ rows'[c].memory = rows[c].memory
              /\ Evaluate(c) = "auto_write" /\ rows'[c].decision = "review" =>
                    rows[c].decision = "review",
           DOMAIN items' = DOMAIN items, \A i \in DOMAIN items : items'[i].of = items[i].of
    PROVE  OrderInv'
  <1>1. ClaimsCounted'
    <2> SUFFICES ASSUME NEW e \in Events
        PROVE  /\ attempts[e] > 0 => at[e] > 0
               /\ e \in processed' => attempts[e] > 0
               /\ \A w \in Workers : Holds(w, e)' => attempts[e] > 0
               /\ attempts[e] <= 1 => \A v, w \in Workers :
                     Holds(v, e)' => e \notin processed' /\ (Holds(w, e)' => v = w)
      BY DEF ClaimsCounted
    <2> QED BY DEF OrderInv, ClaimsCounted
  <1>2. StoredByProposal'
    BY DEF OrderInv, StoredByProposal, Evaluate
  <1>3. \A f \in Events : f[2] \in Candidates
    BY DEF Events
  <1>4. OldestFirst'
    <2> SUFFICES ASSUME NEW e \in Events, NEW f \in Events, at[e] > 0, at[e] < at[f], Fresh(e)'
        PROVE  /\ attempts[e] = 0 => attempts[f] = 0
               /\ \A w \in Workers : pc'[w] = "claim" /\ f \in batch'[w] => e \in batch'[w]
               /\ \A w \in Workers : attempts[e] = 1 /\ Holds(w, e)' =>
                     /\ \A v \in Workers : Holds(v, f)' => v = w
                     /\ f[1] = "proposed" /\ Evaluate(f[2]) = "auto_write" =>
                           rows'[f[2]].memory = 0
      BY DEF OldestFirst, Evaluate
    <2>1. Fresh(e)
      BY DEF Fresh
    <2> QED BY <1>3, <2>1 DEF OrderInv, OldestFirst
  <1>5. LaterAnswerWins'
    BY DEF OrderInv, LaterAnswerWins, Evaluate
  <1> QED BY <1>1, <1>2, <1>4, <1>5 DEF OrderInv

\* A new announcement is claimed by nobody.  If a younger event is claimed
\* already, it counts as overtaken.
LEMMA OrderAnnounce ==
    ASSUME TypeOK, StampsApart, WritesOnce, OrderInv, NEW e \in Events, at[e] = 0, Announce(e),
           UNCHANGED <<attempts, processed, rows, items, pc, batch>>
    PROVE  OrderInv'
  <1>1. PICK k \in 1..MaxEvents :
           /\ at' = [at EXCEPT ![e] = k]
           /\ overtaken' = overtaken \cup
                              {x \in {e} : \E f \in Announced : k < at[f] /\ Claimed(f)}
    BY DEF Announce
  <1>2. k \in Nat /\ k > 0 /\ \A f \in Events : at[f] \in Nat /\ attempts[f] \in Nat
    BY MemoryAssumption DEF TypeOK
  <1>3. \A f \in Events : at'[f] = IF f = e THEN k ELSE at[f]
    BY <1>1 DEF TypeOK
  <1>4. attempts[e] = 0 /\ \A w \in Workers : e \notin batch[w]
    <2>1. ~(attempts[e] > 0)
      BY DEF OrderInv, ClaimsCounted
    <2> QED BY <1>2, <2>1 DEF StampsApart, Announced
  <1>5. /\ overtaken \subseteq overtaken'
        /\ e \notin overtaken' => \A f \in Events : k < at[f] => attempts[f] = 0 /\ f \notin Locked
    <2>1. overtaken \subseteq overtaken'
      BY <1>1
    <2> SUFFICES ASSUME e \notin overtaken', NEW f \in Events, k < at[f]
        PROVE  attempts[f] = 0 /\ f \notin Locked
      BY <2>1
    <2>2. f \in Announced
      BY <1>2 DEF Announced
    <2>3. ~Claimed(f)
      BY <1>1, <2>2
    <2> QED BY <1>2, <2>3 DEF Claimed
  <1>6. \A w \in Workers, f \in Events : Holds(w, f)' <=> Holds(w, f)
    BY DEF Holds
  <1>7. ClaimsCounted'
    BY <1>2, <1>3, <1>6 DEF OrderInv, ClaimsCounted
  <1>8. StoredByProposal'
    BY DEF OrderInv, StoredByProposal, Evaluate
  <1>9. OldestFirst'
    <2> SUFFICES ASSUME NEW x \in Events, NEW y \in Events, at'[x] > 0, at'[x] < at'[y], Fresh(x)'
                 PROVE  /\ attempts[x] = 0 => attempts[y] = 0
                        /\ \A w \in Workers : pc[w] = "claim" /\ y \in batch[w] => x \in batch[w]
                        /\ \A w \in Workers : attempts[x] = 1 /\ Holds(w, x) =>
                              /\ \A v \in Workers : Holds(v, y) => v = w
                              /\ y[1] = "proposed" /\ Evaluate(y[2]) = "auto_write" =>
                                    rows[y[2]].memory = 0
      BY <1>6 DEF OldestFirst, Evaluate
    <2>1. Fresh(x)
      BY <1>5 DEF Fresh
    <2>2. CASE x # e /\ y # e
      BY <1>3, <2>1, <2>2 DEF OrderInv, OldestFirst
    <2>3. CASE y = e
      <3>1. y = <<y[1], y[2]>> /\ y[2] \in Candidates
        BY DEF Events
      <3> QED BY <1>4, <2>3, <3>1 DEF OrderInv, StoredByProposal, Holds
    <2>4. CASE x = e /\ y # e
      <3>1. attempts[y] = 0 /\ y \notin Locked
        BY <1>3, <1>5, <2>4 DEF Fresh
      <3>2. \A w \in Workers : pc[w] = "claim" => y \notin batch[w]
        BY <3>1 DEF Locked
      <3> QED BY <1>4, <2>4, <3>1, <3>2
    <2> QED BY <2>2, <2>3, <2>4
  <1>10. LaterAnswerWins'
    <2>1. ASSUME NEW i \in DOMAIN items, Evaluate(items[i].of) = "auto_write"
          PROVE  at'[<<"proposed", items[i].of>>] = at[<<"proposed", items[i].of>>]
      BY <1>3, <2>1, StoredIsClaimed DEF OrderInv
    <2> QED BY <1>5, <2>1 DEF OrderInv, LaterAnswerWins, Evaluate
  <1> QED BY <1>7, <1>8, <1>9, <1>10 DEF OrderInv

\* A claim locks every older event along that may still be claimed, unless
\* another claim has it.
LEMMA OrderLock ==
    ASSUME TypeOK, OrderInv, MaxAttempts > 1,
           NEW w \in Workers, NEW B \in SUBSET Claimable, LockBatch(w, B)
    PROVE  OrderInv'
  <1> USE MemoryAssumption
  <1>1. /\ pc'[w] = "claim" /\ batch'[w] = B
        /\ \A v \in Workers : v # w => pc'[v] = pc[v] /\ batch'[v] = batch[v]
        /\ UNCHANGED <<at, attempts, processed, rows, items>>
        /\ overtaken \subseteq overtaken'
    BY DEF LockBatch, TypeOK
  <1>2. \A v \in Workers, e \in Events : Holds(v, e)' => Holds(v, e)
    BY <1>1 DEF Holds
  <1>3. \A e \in Events : at[e] \in Nat /\ attempts[e] \in Nat
    BY DEF TypeOK
  <1>4. ASSUME NEW e \in Events, NEW f \in B, at[e] > 0, at[e] < at[f], Fresh(e)' PROVE e \in B
    <2> SUFFICES ASSUME e \notin B PROVE FALSE
      OBVIOUS
    <2>0. f \in Events
      BY DEF Claimable, Announced
    <2>1. e \in Claimable
      BY <1>1, <1>3, <1>4 DEF Fresh, Claimable, Announced
    <2>2. e \notin Locked
      BY <1>4 DEF Fresh, LockBatch
    <2>3. at[f] < at[e]
      BY <2>1, <2>2 DEF LockBatch, IsOldest
    <2> QED BY <1>3, <1>4, <2>0, <2>3
  <1>5. ClaimsCounted'
    BY <1>1, <1>2 DEF OrderInv, ClaimsCounted
  <1>6. StoredByProposal'
    BY <1>1 DEF OrderInv, StoredByProposal, Evaluate
  <1>7. OldestFirst'
    <2> SUFFICES ASSUME NEW e \in Events, NEW f \in Events, at[e] > 0, at[e] < at[f], Fresh(e)'
        PROVE  /\ attempts[e] = 0 => attempts[f] = 0
               /\ \A u \in Workers : pc'[u] = "claim" /\ f \in batch'[u] => e \in batch'[u]
               /\ \A u \in Workers : attempts[e] = 1 /\ Holds(u, e)' =>
                     /\ \A v \in Workers : Holds(v, f)' => v = u
                     /\ f[1] = "proposed" /\ Evaluate(f[2]) = "auto_write" => rows[f[2]].memory = 0
      BY <1>1 DEF OldestFirst, Evaluate
    <2>1. Fresh(e)
      BY <1>1 DEF Fresh
    <2>2. ASSUME NEW u \in Workers, pc'[u] = "claim", f \in batch'[u] PROVE e \in batch'[u]
      <3>1. CASE u = w
        BY <1>1, <1>4, <2>2, <3>1
      <3>2. CASE u # w
        BY <1>1, <2>1, <2>2, <3>2 DEF OrderInv, OldestFirst
      <3> QED BY <3>1, <3>2
    <2> QED BY <1>2, <2>1, <2>2 DEF OrderInv, OldestFirst
  <1>8. LaterAnswerWins'
    BY <1>1 DEF OrderInv, LaterAnswerWins, Evaluate
  <1> QED BY <1>5, <1>6, <1>7, <1>8 DEF OrderInv

\* What a claim counts for the first time was in no batch, and nothing younger
\* was claimed before.
LEMMA OrderClaim ==
    ASSUME TypeOK, StampsApart, OrderInv, NEW w \in Workers, CommitClaim(w)
    PROVE  OrderInv'
  <1> DEFINE B == batch[w]
  <1>1. /\ pc[w] = "claim" /\ pc'[w] = "deliver"
        /\ \A v \in Workers : v # w => pc'[v] = pc[v]
        /\ UNCHANGED <<at, processed, rows, items, batch, overtaken>>
    BY DEF CommitClaim, TypeOK
  <1>2. \A e \in Events : /\ attempts'[e] = IF e \in B THEN attempts[e] + 1 ELSE attempts[e]
                          /\ attempts[e] \in Nat
    BY MemoryAssumption DEF CommitClaim, TypeOK
  <1>3. /\ \A e \in Events : Holds(w, e)' <=> e \in B
        /\ \A v \in Workers, e \in Events : v # w => (Holds(v, e)' <=> Holds(v, e))
        /\ \A e \in Events : ~Holds(w, e)
    BY <1>1 DEF Holds
  <1>4. \A e \in B : e \in Events /\ at[e] > 0
    BY DEF StampsApart, Announced
  <1> HIDE DEF B
  <1>5. ClaimsCounted'
    <2> SUFFICES ASSUME NEW e \in Events
                 PROVE  /\ attempts'[e] > 0 => at[e] > 0
                        /\ e \in processed => attempts'[e] > 0
                        /\ \A v \in Workers : Holds(v, e)' => attempts'[e] > 0
                        /\ attempts'[e] <= 1 => \A u, v \in Workers :
                              Holds(u, e)' => e \notin processed /\ (Holds(v, e)' => u = v)
      BY <1>1 DEF ClaimsCounted
    <2>1. /\ attempts[e] > 0 => at[e] > 0
          /\ e \in processed => attempts[e] > 0
          /\ \A v \in Workers : Holds(v, e) => attempts[e] > 0
          /\ attempts[e] <= 1 => \A u, v \in Workers :
                Holds(u, e) => e \notin processed /\ (Holds(v, e) => u = v)
      BY DEF OrderInv, ClaimsCounted
    <2>2. CASE e \in B
      <3>1. attempts'[e] = attempts[e] + 1 /\ attempts[e] \in Nat
        BY <1>2, <2>2
      <3>2. attempts'[e] <= 1 => e \notin processed /\ \A v \in Workers : ~Holds(v, e)
        BY <2>1, <3>1
      <3> QED BY <1>3, <1>4, <2>1, <2>2, <3>1, <3>2
    <2>3. CASE e \notin B
      BY <1>2, <1>3, <2>1, <2>3
    <2> QED BY <2>2, <2>3
  <1>6. StoredByProposal'
    <2>1. \A c \in Candidates : <<"proposed", c>> \in Events
      BY DEF Events
    <2> QED BY <1>1, <1>2, <2>1 DEF OrderInv, StoredByProposal, Evaluate
  <1>7. OldestFirst'
    <2> SUFFICES ASSUME NEW e \in Events, NEW f \in Events, at[e] > 0, at[e] < at[f], Fresh(e)'
                 PROVE  /\ attempts'[e] = 0 => attempts'[f] = 0
                        /\ \A u \in Workers : pc'[u] = "claim" /\ f \in batch[u] => e \in batch[u]
                        /\ \A u \in Workers : attempts'[e] = 1 /\ Holds(u, e)' =>
                              /\ \A v \in Workers : Holds(v, f)' => v = u
                              /\ f[1] = "proposed" /\ Evaluate(f[2]) = "auto_write" =>
                                    rows[f[2]].memory = 0
      BY <1>1 DEF OldestFirst, Evaluate
    <2>0. Fresh(e)
      BY <1>1, <1>2 DEF Fresh
    <2>1. /\ attempts[e] = 0 => attempts[f] = 0
          /\ \A u \in Workers : pc[u] = "claim" /\ f \in batch[u] => e \in batch[u]
          /\ \A u \in Workers : attempts[e] = 1 /\ Holds(u, e) =>
                /\ \A v \in Workers : Holds(v, f) => v = u
                /\ f[1] = "proposed" /\ Evaluate(f[2]) = "auto_write" => rows[f[2]].memory = 0
      BY <2>0 DEF OrderInv, OldestFirst
    <2>2. f \in B => e \in B
      BY <1>1, <2>1 DEF B
    <2>3. ASSUME NEW u \in Workers, attempts'[e] = 1, Holds(u, e)'
          PROVE  /\ \A v \in Workers : Holds(v, f)' => v = u
                 /\ f[1] = "proposed" /\ Evaluate(f[2]) = "auto_write" => rows[f[2]].memory = 0
      <3>1. CASE e \in B
        <4>1. attempts[e] = 0 /\ attempts[f] = 0
          BY <1>2, <2>1, <2>3, <3>1
        <4>2. \A v \in Workers : ~Holds(v, f) /\ ~Holds(v, e)
          BY <4>1 DEF OrderInv, ClaimsCounted
        <4>3. f = <<f[1], f[2]>> /\ f[2] \in Candidates
          BY DEF Events
        <4>4. f[1] = "proposed" /\ Evaluate(f[2]) = "auto_write" => rows[f[2]].memory = 0
          BY <4>1, <4>3 DEF OrderInv, StoredByProposal
        <4> QED BY <1>3, <2>3, <4>2, <4>4
      <3>2. CASE e \notin B
        <4>1. u # w /\ Holds(u, e) /\ attempts[e] = 1 /\ f \notin B
          BY <1>2, <1>3, <2>2, <2>3, <3>2
        <4>2. \A v \in Workers : Holds(v, f)' => Holds(v, f)
          BY <1>3, <4>1
        <4> QED BY <2>1, <4>1, <4>2
      <3> QED BY <3>1, <3>2
    <2>4. attempts'[e] = 0 => attempts'[f] = 0
      BY <1>2, <2>1, <2>2
    <2> QED BY <1>1, <2>1, <2>3, <2>4
  <1>8. LaterAnswerWins'
    <2>1. ASSUME NEW i \in DOMAIN items
          PROVE  attempts'[<<"proposed", items[i].of>>] >= attempts[<<"proposed", items[i].of>>]
                 /\ attempts[<<"proposed", items[i].of>>] \in Nat
                 /\ attempts'[<<"proposed", items[i].of>>] \in Nat
      <3>1. <<"proposed", items[i].of>> \in Events
        BY ItemsType DEF Events
      <3> QED BY <1>2, <3>1
    <2> QED BY <1>1, <2>1 DEF OrderInv, LaterAnswerWins, Evaluate
  <1> QED BY <1>5, <1>6, <1>7, <1>8 DEF OrderInv

\* A commit stores a fact with no younger one stored ahead of its first claim.
LEMMA OrderCommit ==
    ASSUME TypeOK, MemoryInv, OrderInv, NEW w \in Workers, NEW e \in Events, CommitItem(w, e)
    PROVE  OrderInv'
  <1> DEFINE c == e[2]
             n == Len(items)
  <1>1. /\ e = <<e[1], c>> /\ c \in Candidates /\ e[1] \in {"proposed", "decided"}
        /\ Delivers(w, e) /\ Storing(w, c) /\ pc[w] = "store"
        /\ UNCHANGED <<at, attempts, processed, batch, overtaken>>
    BY DEF CommitItem, Storing, Events
  <1>2. /\ n \in Nat /\ DOMAIN items = 1..n /\ DOMAIN items' = 1..(n + 1)
        /\ \A i \in DOMAIN items : items'[i].of = items[i].of /\ items[i].of \in Candidates
        /\ items'[n + 1].of = c
    BY ItemsType, CommitFacts
  <1>3. /\ rows'[c].memory = n + 1
        /\ rows'[c].decision = IF e[1] = "proposed" THEN "auto_write" ELSE "review"
        /\ \A d \in Candidates : d # c => rows'[d] = rows[d]
    BY <1>1 DEF CommitItem, TypeOK
  <1>10. \A v \in Workers : pc'[v] = "claim" <=> pc[v] = "claim"
    BY <1>1 DEF CommitItem, Goto, TypeOK
  <1>11. \A v \in Workers, f \in Events : Holds(v, f)' <=> Holds(v, f)
    BY <1>1, <1>10 DEF Holds
  <1>12. \A f \in Events : Fresh(f)' <=> Fresh(f)
    BY <1>1 DEF Fresh
  <1> HIDE DEF c, n
  <1>4. Evaluate(c) = "auto_write" => e = <<"proposed", c>>
    <2>1. CASE e = <<"decided", c>>
      BY <1>1, <2>1 DEF MemoryInv, StoresUnstored, OrderInv, StoredByProposal
    <2> QED BY <1>1, <2>1
  <1>5. Holds(w, e) /\ attempts[e] > 0 /\ attempts[e] \in Nat
    <2>1. Holds(w, e)
      BY <1>1 DEF Delivers, Holds
    <2> QED BY <2>1, MemoryAssumption DEF OrderInv, ClaimsCounted, TypeOK
  <1>6. ClaimsCounted'
    BY <1>1, <1>11 DEF OrderInv, ClaimsCounted
  <1>7. StoredByProposal'
    BY <1>1, <1>3, <1>4, <1>5 DEF OrderInv, StoredByProposal, Evaluate
  <1>8. OldestFirst'
    <2> SUFFICES ASSUME NEW x \in Events, NEW f \in Events, at[x] > 0, at[x] < at[f], Fresh(x),
                        NEW u \in Workers, attempts[x] = 1, Holds(u, x),
                        f[1] = "proposed", Evaluate(f[2]) = "auto_write"
                 PROVE  rows'[f[2]].memory = 0
      BY <1>1, <1>10, <1>11, <1>12 DEF OrderInv, OldestFirst, Evaluate
    <2>1. f = <<"proposed", f[2]>> /\ f[2] \in Candidates
      BY DEF Events
    <2>2. rows[f[2]].memory = 0 /\ \A v \in Workers : Holds(v, f) => v = u
      BY DEF OrderInv, OldestFirst
    <2>3. f[2] # c
      <3> SUFFICES ASSUME f[2] = c PROVE FALSE
        OBVIOUS
      <3>1. f = e /\ w = u
        BY <1>4, <1>5, <2>1, <2>2
      <3>2. at[e] <= at[x] /\ at[e] \in Int /\ at[x] \in Int
        BY <1>1, <3>1 DEF Delivers, TypeOK, Holds
      <3> QED BY <3>1, <3>2
    <2> QED BY <1>3, <2>1, <2>2, <2>3
  <1>9. LaterAnswerWins'
    <2> SUFFICES ASSUME NEW i \in DOMAIN items', NEW j \in DOMAIN items', i > j,
                        at[<<"proposed", items'[i].of>>] < at[<<"proposed", items'[j].of>>],
                        Evaluate(items'[i].of) = "auto_write",
                        Evaluate(items'[j].of) = "auto_write"
                 PROVE  \/ attempts[<<"proposed", items'[i].of>>] > 1
                        \/ <<"proposed", items'[i].of>> \in overtaken
      BY <1>1 DEF LaterAnswerWins, Evaluate
    <2>1. j \in DOMAIN items /\ items'[j].of = items[j].of
      BY <1>2
    <2>2. CASE i \in DOMAIN items
      BY <1>2, <2>1, <2>2 DEF OrderInv, LaterAnswerWins
    <2>3. CASE i = n + 1
      <3> DEFINE f == <<"proposed", items[j].of>>
      <3>1. items'[i].of = c /\ e = <<"proposed", c>>
        BY <1>2, <1>4, <2>3
      <3>2. f \in Events /\ f[1] = "proposed" /\ f[2] = items[j].of /\ rows[f[2]].memory # 0
        BY <2>1, StoredIsClaimed DEF OrderInv, MemoryInv
      <3>3. at[e] < at[f] /\ Evaluate(f[2]) = "auto_write"
        BY <2>1, <3>1
      <3>4. at[e] > 0 /\ (attempts[e] <= 1 => e \notin processed)
        BY <1>5 DEF OrderInv, ClaimsCounted
      <3> HIDE DEF f
      <3>5. ~(attempts[e] = 1 /\ Fresh(e))
        BY <1>5, <3>2, <3>3, <3>4 DEF OrderInv, OldestFirst
      <3>6. attempts[e] > 1 \/ e \in overtaken
        BY <1>5, <3>4, <3>5 DEF Fresh
      <3> QED BY <3>1, <3>6
    <2> QED BY <1>2, <2>2, <2>3
  <1> QED BY <1>6, <1>7, <1>8, <1>9 DEF OrderInv

LEMMA DecidedFacts ==
    ASSUME TypeOK, NEW c \in Candidates, NEW d, rows' = Decided(c, d)
    PROVE  /\ rows'[c].decision = d
           /\ \A b \in Candidates : /\ rows'[b].memory = rows[b].memory
                                    /\ b # c => rows'[b] = rows[b]
  <1>1. rows'[c] = [decision |-> d, memory |-> rows[c].memory]
    BY DEF Decided, TypeOK
  <1>2. \A b \in Candidates : b # c => rows'[b] = rows[b]
    BY DEF Decided, TypeOK
  <1> QED BY <1>1, <1>2

LEMMA OrderStep ==
    ASSUME MaxAttempts > 1, TypeOK, MemoryInv, OrderInv, [Next]_vars
    PROVE  OrderInv'
  <1>0. StampsApart /\ WritesOnce
    BY DEF MemoryInv
  <1>14. ASSUME UNCHANGED <<at, attempts, overtaken, processed, batch>>,
                \A v \in Workers : pc'[v] = "claim" <=> pc[v] = "claim",
                \A d \in Candidates :
                   /\ rows'[d].memory = rows[d].memory
                   /\ Evaluate(d) = "auto_write" /\ rows'[d].decision = "review" =>
                         rows[d].decision = "review",
                DOMAIN items' = DOMAIN items,
                \A i \in DOMAIN items : items'[i].of = items[i].of
         PROVE  OrderInv'
    <2>1. \A v \in Workers, e \in Events : Holds(v, e)' <=> Holds(v, e)
      BY <1>14 DEF Holds
    <2> QED BY <1>14, <2>1, OrderFrame
  <1>1. ASSUME NEW c \in Candidates, ProposeCandidate(c) PROVE OrderInv'
    <2>1. <<"proposed", c>> \in Events
      BY DEF Events
    <2> QED BY <1>0, <1>1, <2>1, OrderAnnounce DEF ProposeCandidate
  <1>2. ASSUME NEW c \in Candidates, NEW outcome \in {"approved", "rejected"},
               DecideReview(c, outcome)
        PROVE  OrderInv'
    <2>1. <<"decided", c>> \in Events /\ at[<<"decided", c>>] = 0
      BY <1>0, <1>2 DEF Events, DecideReview, StampsApart
    <2> QED BY <1>0, <1>2, <2>1, OrderAnnounce DEF DecideReview
  <1>3. ASSUME NEW c \in Candidates, EvidenceLapses(c) PROVE OrderInv'
    BY <1>3, <1>14 DEF EvidenceLapses
  <1>4. ASSUME NEW i \in DOMAIN items, Expire(i) PROVE OrderInv'
    <2>1. DOMAIN items' = DOMAIN items /\ \A j \in DOMAIN items : items'[j].of = items[j].of
      BY <1>4, ExpireFacts
    <2> QED BY <1>4, <1>14, <2>1 DEF Expire
  <1>5. ASSUME NEW w \in Workers, NEW B \in SUBSET Claimable, LockBatch(w, B) PROVE OrderInv'
    BY <1>5, OrderLock
  <1>15. ASSUME NEW w \in Workers, CommitClaim(w) PROVE OrderInv'
    BY <1>0, <1>15, OrderClaim
  <1>6. ASSUME NEW w \in Workers, NEW c \in Candidates, ReadCandidate(w, c) PROVE OrderInv'
    <2>1. \A v \in Workers : pc'[v] = "claim" <=> pc[v] = "claim"
      BY <1>6 DEF ReadCandidate, Goto, TypeOK
    <2> QED BY <1>6, <1>14, <2>1 DEF ReadCandidate
  <1>7. ASSUME NEW w \in Workers, NEW c \in Candidates, InsertCandidate(w, c) PROVE OrderInv'
    <2>1. UNCHANGED <<at, attempts, overtaken, processed, items, batch>>
      BY <1>7 DEF InsertCandidate
    <2>4. \A v \in Workers : pc'[v] = "claim" <=> pc[v] = "claim"
      BY <1>7 DEF InsertCandidate, RejectCandidate, HoldForReview, AutoWrite, StoreItem,
                  RefuseCandidate, Goto, TypeOK
    <2>2. \/ rows' = rows
          \/ rows' = Decided(c, "reject")
          \/ rows' = Decided(c, "review") /\ Evaluate(c) = "review"
      BY <1>7 DEF InsertCandidate, RejectCandidate, HoldForReview, AutoWrite, StoreItem,
                  RefuseCandidate
    <2>3. \A d \in Candidates :
             /\ rows'[d].memory = rows[d].memory
             /\ Evaluate(d) = "auto_write" /\ rows'[d].decision = "review" =>
                   rows[d].decision = "review"
      BY <2>2, DecidedFacts
    <2> QED BY <1>14, <2>1, <2>3, <2>4
  <1>8. ASSUME NEW w \in Workers, NEW c \in Candidates, SettleReview(w, c) PROVE OrderInv'
    <2>4. \A v \in Workers : pc'[v] = "claim" <=> pc[v] = "claim"
      BY <1>8 DEF SettleReview, AlreadySettled, SettleRefused, StoreReviewed, StoreItem, ReviewFails,
                  Goto, TypeOK
    <2>1. UNCHANGED <<at, attempts, overtaken, processed, items, batch>>
      BY <1>8 DEF SettleReview, AlreadySettled, SettleRefused, StoreReviewed, ReviewFails
    <2>2. rows' = rows \/ rows' = Decided(c, "reject")
      BY <1>8 DEF SettleReview, AlreadySettled, SettleRefused, StoreReviewed, StoreItem, ReviewFails
    <2>3. \A d \in Candidates :
             /\ rows'[d].memory = rows[d].memory
             /\ Evaluate(d) = "auto_write" /\ rows'[d].decision = "review" =>
                   rows[d].decision = "review"
      BY <2>2, DecidedFacts
    <2> QED BY <1>14, <2>1, <2>3, <2>4
  <1>9. ASSUME NEW w \in Workers, NEW e \in Events, CommitItem(w, e) PROVE OrderInv'
    BY <1>9, OrderCommit
  <1>10. ASSUME NEW w \in Workers, NEW p, p # "claim", pc' = [pc EXCEPT ![w] = p],
                UNCHANGED <<at, attempts, overtaken, processed, rows, items>>,
                pc[w] = "claim" => batch'[w] = {},
                \A v \in Workers : batch'[v] \subseteq batch[v] /\ (v # w => batch'[v] = batch[v])
         PROVE  OrderInv'
    <2>1. pc'[w] = p /\ \A v \in Workers : v # w => pc'[v] = pc[v]
      BY <1>10 DEF TypeOK
    <2>2. \A v \in Workers, e \in Events : Holds(v, e)' => Holds(v, e)
      BY <1>10, <2>1 DEF Holds
    <2>3. \A v \in Workers : pc'[v] = "claim" => pc[v] = "claim" /\ batch'[v] = batch[v]
      BY <1>10, <2>1
    <2> QED BY <1>10, <2>2, <2>3, OrderFrame
  <1>11. ASSUME NEW w \in Workers, NEW e \in Events, RecordFailure(w, e) PROVE OrderInv'
    <2>1. /\ UNCHANGED <<at, attempts, overtaken, processed, rows, items>> /\ pc[w] = "failed"
          /\ \A v \in Workers : batch'[v] \subseteq batch[v] /\ (v # w => batch'[v] = batch[v])
          /\ pc' = [pc EXCEPT ![w] = "idle"] \/ pc' = [pc EXCEPT ![w] = "deliver"]
      BY <1>11 DEF RecordFailure, Advance, Goto, TypeOK
    <2> QED BY <1>10, <2>1
  <1>12. ASSUME NEW w \in Workers, StoreFails(w) \/ Abandon(w) PROVE OrderInv'
    <2>1. /\ UNCHANGED <<at, attempts, overtaken, processed, rows, items>>
          /\ pc[w] = "claim" => batch'[w] = {}
          /\ \A v \in Workers : batch'[v] \subseteq batch[v] /\ (v # w => batch'[v] = batch[v])
          /\ pc' = [pc EXCEPT ![w] = "idle"] \/ pc' = [pc EXCEPT ![w] = "failed"]
      BY <1>12 DEF StoreFails, Abandon, Goto, TypeOK
    <2> QED BY <1>10, <2>1
  <1>16. ASSUME NEW w \in Workers, NEW e \in Events, MarkProcessed(w, e) PROVE OrderInv'
    <2>1. /\ UNCHANGED <<at, attempts, overtaken, rows, items>>
          /\ processed' = processed \cup {e} /\ pc[w] = "done"
          /\ e \in batch[w] /\ e \notin batch'[w] /\ batch'[w] \subseteq batch[w]
          /\ pc'[w] # "claim"
          /\ \A v \in Workers : v # w => batch'[v] = batch[v] /\ pc'[v] = pc[v]
      BY <1>16 DEF MarkProcessed, Delivers, Advance, Goto, TypeOK
    <2>2. \A v \in Workers, f \in Events : Holds(v, f)' => Holds(v, f)
      BY <2>1 DEF Holds
    <2>3. Holds(w, e) /\ ~Holds(w, e)'
      BY <2>1 DEF Holds
    <2>4. \A v \in Workers : pc'[v] = "claim" => pc[v] = "claim" /\ batch'[v] = batch[v]
      BY <2>1
    <2> QED BY <2>1, <2>2, <2>3, <2>4, OrderFrame
  <1>13. CASE UNCHANGED vars
    BY <1>13, <1>14 DEF vars
  <1> QED
    BY <1>1, <1>2, <1>3, <1>4, <1>5, <1>6, <1>7, <1>8, <1>9, <1>11, <1>12, <1>13, <1>15,
       <1>16
    DEF Next, Work

LEMMA OrderInit == Init => OrderInv
  <1> SUFFICES ASSUME Init PROVE OrderInv
    OBVIOUS
  <1>1. items = <<>> /\ DOMAIN items = {}
    BY DEF Init
  <1>2. \A e \in Events : at[e] = 0 /\ attempts[e] = 0
    BY DEF Init
  <1>3. ClaimsCounted
    BY DEF Init, ClaimsCounted, Holds
  <1>4. StoredByProposal
    BY DEF Init, StoredByProposal
  <1>5. OldestFirst
    BY <1>2 DEF OldestFirst
  <1>6. LaterAnswerWins
    BY <1>1 DEF LaterAnswerWins
  <1> QED BY <1>3, <1>4, <1>5, <1>6 DEF OrderInv

\* Where a failed delivery is retried at all, corroborated facts are stored in
\* the order of their stamps, however many workers drain the outbox: one stored
\* after a younger one was claimed more than once, was locked by another claim
\* when the younger was claimed, or was committed after that.  With
\* outbox_max_attempts = 1 an event that is being delivered is no longer
\* claimable, so a second worker overtakes it, and the order is lost.
THEOREM OlderIsStoredFirst == ASSUME MaxAttempts > 1 PROVE Spec => []LaterAnswerWins
  <1>1. TypeOK /\ MemoryInv /\ OrderInv /\ [Next]_vars => OrderInv'
    BY OrderStep
  <1>2. OrderInv => LaterAnswerWins
    BY DEF OrderInv
  <1> QED BY <1>1, <1>2, OrderInit, TypeCorrect, MemoryCorrect, PTL DEF Spec
=============================================================================

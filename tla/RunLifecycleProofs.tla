------------------------- MODULE RunLifecycleProofs -------------------------
(* Theorems about RunLifecycle, for any runs, threads, calls and faults.    *)
EXTENDS RunLifecycle, TLAPS

\* An activity that only moves to another step keeps the types.
LEMMA GotoType ==
    ASSUME TypeOK, NEW x \in Activities, NEW step \in Steps, Goto(x, step),
           UNCHANGED <<runs, approvals, paused, onRun, about, seen, env>>
    PROVE  TypeOK'
  BY DEF TypeOK, Goto

\* The two writes of a run's row produce rows.
LEMMA RowType ==
    ASSUME TypeOK, NEW r \in Runs, NEW status \in RunStatus,
           NEW approval \in Activities \cup {NoOne},
           Insert(r) \/ SetStatus(r, status, approval)
    PROVE  runs' \in [Runs -> Rows]
  <1>1. CASE Insert(r)
    BY <1>1 DEF TypeOK, Insert, RunStatus, Rows
  <1>2. CASE SetStatus(r, status, approval)
    <2> DEFINE new == IF approval = NoOne THEN runs[r].approval ELSE approval
    <2>1. new \in Activities \cup {NoOne}
      BY DEF TypeOK, Rows
    <2> QED BY <1>2, <2>1 DEF TypeOK, SetStatus, Rows
  <1> QED BY <1>1, <1>2

LEMMA InsertType ==
    ASSUME TypeOK, NEW r \in Runs, Insert(r), Goto(r, "started"),
           UNCHANGED <<approvals, paused, onRun, about, seen, env>>
    PROVE  TypeOK'
  <1>1. runs' \in [Runs -> Rows]
    BY RowType DEF RunStatus
  <1>2. pc' \in [Activities -> Steps]
    BY DEF TypeOK, Goto, Steps, Activities
  <1> QED BY <1>1, <1>2 DEF TypeOK

LEMMA TypeStep == TypeOK /\ LocalsInv /\ ApprovalsInv /\ [Next]_vars => TypeOK'
  <1> SUFFICES ASSUME TypeOK, LocalsInv, ApprovalsInv, [Next]_vars PROVE TypeOK'
    OBVIOUS
  <1> USE RunAssumption DEF Activities
  <1>0. \A x \in Activities : pc[x] # "idle" => onRun[x] \in Runs
    BY DEF LocalsInv
  <1>1. ASSUME NEW r \in Runs, Claim(r) PROVE TypeOK'
    <2>1. CASE IndexAllows(r)
      BY <1>1, <2>1, InsertType DEF Claim
    <2>2. CASE ~IndexAllows(r)
      BY <1>1, <2>2, GotoType DEF Claim, Steps
    <2> QED BY <2>1, <2>2
  <1>2. ASSUME NEW r \in Runs, WaitingApprovalForThread(r) PROVE TypeOK'
    BY <1>2, GotoType DEF WaitingApprovalForThread, Steps
  <1>3. ASSUME NEW r \in Runs, ReapStaleThread(r) PROVE TypeOK'
    <2>1. "failed" \in RunStatus
      BY DEF RunStatus, Terminal
    <2>2. runs' \in [Runs -> Rows]
      BY <1>3, <2>1 DEF TypeOK, ReapStaleThread, Rows
    <2>3. pc' \in [Activities -> Steps]
      BY <1>3 DEF TypeOK, ReapStaleThread, Goto, Steps
    <2> QED BY <1>3, <2>2, <2>3 DEF TypeOK, ReapStaleThread
  <1>4. ASSUME NEW r \in Runs, Reinsert(r) PROVE TypeOK'
    <2>1. CASE IndexAllows(r)
      BY <1>4, <2>1, InsertType DEF Reinsert
    <2>2. CASE ~IndexAllows(r)
      BY <1>4, <2>2, GotoType DEF Reinsert, Steps
    <2> QED BY <2>1, <2>2
  <1>5. ASSUME NEW r \in Runs, Age(r) PROVE TypeOK'
    BY <1>5 DEF TypeOK, Age, Rows, RunStatus
  <1>6. ASSUME NEW c \in Calls, NEW a \in Activities, ReadRequest(c, a) PROVE TypeOK'
    BY <1>6 DEF TypeOK, ReadRequest, Goto, Steps, Requests
  <1>7. ASSUME NEW c \in Calls, ResumableRun(c) \/ RefuseRun(c) \/ Resume(c) PROVE TypeOK'
    BY <1>7, GotoType DEF ResumableRun, RefuseRun, Resume, Steps
  <1>8. ASSUME NEW c \in Calls, NEW o \in {"approved", "rejected"}, Decide(c, o) PROVE TypeOK'
    <2>1. CASE StillPending(c)
      <3>1. about[c] \in Activities /\ approvals[about[c]].run \in Runs \cup {NoOne}
        BY <1>8, <2>1 DEF Decide, LocalsInv, TypeOK, Requests
      <3>2. [status |-> o, run |-> approvals[about[c]].run, version |-> seen[c] + 1, by |-> c]
              \in Requests
        BY <3>1 DEF TypeOK, Requests, ApprovalStatus
      <3> QED BY <1>8, <2>1, <3>1, <3>2 DEF TypeOK, Decide, Goto, Steps
    <2>2. CASE ~StillPending(c)
      BY <1>8, <2>2, GotoType DEF Decide, Steps
    <2> QED BY <2>1, <2>2
  <1>9. ASSUME NEW x \in Activities, EnterGraph(x) PROVE TypeOK'
    BY <1>9, <1>0 DEF TypeOK, EnterGraph, Goto, Steps, Thread
  <1>10. ASSUME NEW x \in Activities, NEW n \in 0..2, GraphReturns(x, n) PROVE TypeOK'
    BY <1>10, <1>0 DEF TypeOK, GraphReturns, Goto, Steps, HandleOutcome, Thread
  <1>11. ASSUME NEW x \in Activities,
                \/ GraphRaises(x) \/ SettleStream(x) \/ CreateApprovalFails(x) \/ Audited(x)
                \/ AuditFails(x) \/ StoreFails(x) \/ Cancel(x) \/ Crash(x)
         PROVE  TypeOK'
    BY <1>11, GotoType DEF GraphRaises, SettleStream, CreateApprovalFails, Audited, AuditFails,
         StoreFails, Cancel, Crash, Steps, HandleOutcome, Raised
  <1>12. ASSUME NEW x \in Activities, CreateApproval(x) PROVE TypeOK'
    BY <1>12, <1>0 DEF TypeOK, CreateApproval, Goto, Steps, ApprovalStatus, Requests
  <1>13. ASSUME NEW x \in Activities, Park(x) PROVE TypeOK'
    <2>1. onRun[x] \in Runs
      BY <1>13, <1>0 DEF Park
    <2>2. CASE IndexAllows(onRun[x])
      <3>1. runs' \in [Runs -> Rows]
        BY <1>13, <2>1, <2>2, RowType DEF Park, RunStatus
      <3> QED BY <1>13, <2>2, <3>1 DEF TypeOK, Park, Goto, Steps
    <2>3. CASE ~IndexAllows(onRun[x])
      BY <1>13, <2>3, GotoType DEF Park, Steps, Raised
    <2> QED BY <2>2, <2>3
  <1>14. ASSUME NEW x \in Activities, Conclude(x) PROVE TypeOK'
    <2>1. onRun[x] \in Runs /\ pc[x] \in DOMAIN Verdict
      BY <1>14, <1>0 DEF Conclude, Verdict
    <2>2. Verdict[pc[x]] \in RunStatus
      BY <2>1 DEF Verdict, RunStatus, Terminal
    <2> QED BY <1>14, <2>1, <2>2, RowType DEF TypeOK, Conclude, Goto, Steps
  <1>15. CASE UNCHANGED vars
    BY <1>15 DEF TypeOK, vars
  <1> QED
    BY <1>1, <1>2, <1>3, <1>4, <1>5, <1>6, <1>7, <1>8, <1>9, <1>10, <1>11, <1>12, <1>13, <1>14,
       <1>15 DEF Next, Progress

\* A step of x that only moves it, keeps the locals consistent if requests
\* keep their runs and no row of a run still being created changes.
LEMMA LocalsFrame ==
    ASSUME TypeOK, LocalsInv, NEW x \in Activities, NEW step \in Steps, Goto(x, step),
           UNCHANGED <<onRun, about>>,
           x \in Runs => step \notin Deciding \cup Creating,
           x \in Calls => step \notin OnlyStarters /\ pc[x] # "idle",
           \A a \in Activities : approvals[a].status # "none" =>
              approvals'[a].status # "none" /\ approvals'[a].run = approvals[a].run,
           \A r \in Runs : pc'[r] \in Creating => runs'[r].status = runs[r].status
    PROVE  LocalsInv'
  <1> USE RunAssumption DEF Activities, TypeOK, Goto
  <1>1. \A r \in Runs : (onRun[r] = r /\ pc[r] \notin Deciding)'
    BY DEF LocalsInv
  <1>2. ASSUME NEW c \in Calls, pc'[c] # "idle"
        PROVE  /\ about[c] \in Activities /\ onRun[c] \in Runs
               /\ approvals'[about[c]].status # "none"
               /\ approvals'[about[c]].run = onRun[c]
    <2>1. pc[c] # "idle"
      BY <1>2
    <2>2. /\ about[c] \in Activities /\ onRun[c] \in Runs
          /\ approvals[about[c]].status # "none" /\ approvals[about[c]].run = onRun[c]
      BY <2>1 DEF LocalsInv
    <2> QED BY <2>2
  <1>3. \A c \in Calls : pc'[c] \notin OnlyStarters
    BY DEF LocalsInv
  <1>4. ASSUME NEW r \in Runs, pc'[r] \in Creating PROVE runs'[r].status = "none"
    <2>1. pc[r] \in Creating
      BY <1>4
    <2> QED BY <1>4, <2>1 DEF LocalsInv
  <1> QED BY <1>1, <1>2, <1>3, <1>4 DEF LocalsInv

\* A step of x that leaves the requests alone keeps ApprovalsInv, if x does
\* not go back from the steps that follow raising one.
LEMMA ApprovalsFrame ==
    ASSUME TypeOK, ApprovalsInv, NEW x \in Activities, NEW step \in Steps, Goto(x, step),
           UNCHANGED approvals, pc[x] \in Late => step \in Late,
           step \in Creating => pc[x] \in Creating
    PROVE  ApprovalsInv'
  BY DEF TypeOK, ApprovalsInv, Goto

\* Every step keeps the local variables of the activities consistent.
LEMMA LocalsStep ==
    TypeOK /\ LocalsInv /\ ApprovalsInv /\ [Next]_vars => LocalsInv'
  <1> SUFFICES ASSUME TypeOK, LocalsInv, ApprovalsInv,
                      [Next]_vars
               PROVE  LocalsInv'
    OBVIOUS
  <1> USE RunAssumption DEF Activities
  <1>1. ASSUME NEW r \in Runs, Claim(r) PROVE LocalsInv'
    BY <1>1 DEF Claim, Insert, Goto, TypeOK, LocalsInv, Deciding, Creating
  <1>2. ASSUME NEW r \in Runs, WaitingApprovalForThread(r) PROVE LocalsInv'
    BY <1>2 DEF WaitingApprovalForThread, Goto, TypeOK, LocalsInv, Deciding, Creating
  <1>3. ASSUME NEW r \in Runs, ReapStaleThread(r) PROVE LocalsInv'
    BY <1>3 DEF ReapStaleThread, StaleOn, Goto, TypeOK, LocalsInv, Deciding, Creating
  <1>4. ASSUME NEW r \in Runs, Reinsert(r) PROVE LocalsInv'
    BY <1>4 DEF Reinsert, Insert, Goto, TypeOK, LocalsInv, Deciding, Creating
  <1>5. ASSUME NEW r \in Runs, Age(r) PROVE LocalsInv'
    BY <1>5 DEF Age, TypeOK, LocalsInv
  <1>6. ASSUME NEW c \in Calls, NEW a \in Activities, ReadRequest(c, a) PROVE LocalsInv'
    BY <1>6 DEF ReadRequest, Goto, TypeOK, LocalsInv, ApprovalsInv, Deciding,
       OnlyStarters, Creating
  <1>7. ASSUME NEW c \in Calls, ResumableRun(c) \/ RefuseRun(c) \/ Resume(c) PROVE LocalsInv'
    BY <1>7, LocalsFrame DEF ResumableRun, RefuseRun, Resume, Steps, Deciding, Creating,
       OnlyStarters
  <1>8. ASSUME NEW c \in Calls, NEW o \in {"approved", "rejected"}, Decide(c, o)
        PROVE  LocalsInv'
    <2>1. about[c] \in Activities /\ seen[c] \in Nat
      BY <1>8 DEF Decide, LocalsInv, TypeOK
    <2>2. \A a \in Activities : approvals[a].status # "none" =>
             approvals'[a].status # "none" /\ approvals'[a].run = approvals[a].run
      BY <1>8, <2>1 DEF Decide, TypeOK, Requests
    <2>3. \A r \in Runs : pc'[r] \in Creating => runs'[r].status = runs[r].status
      BY <1>8 DEF Decide
    <2>4. PICK step \in {"decided", "ended"} : Goto(c, step)
      BY <1>8 DEF Decide
    <2>5. pc[c] # "idle" /\ UNCHANGED <<onRun, about>>
      BY <1>8 DEF Decide
    <2> QED BY <2>2, <2>3, <2>4, <2>5, LocalsFrame DEF Steps, OnlyStarters
  <1>9. ASSUME NEW x \in Activities, EnterGraph(x) PROVE LocalsInv'
    BY <1>9, LocalsFrame DEF EnterGraph, Steps, Deciding, Creating, OnlyStarters, LocalsInv
  <1>10. ASSUME NEW x \in Activities, NEW n \in 0..2, GraphReturns(x, n) PROVE LocalsInv'
    BY <1>10, LocalsFrame DEF GraphReturns, HandleOutcome, Steps, Deciding, Creating,
       OnlyStarters
  <1>11. ASSUME NEW x \in Activities, GraphRaises(x) \/ SettleStream(x) PROVE LocalsInv'
    BY <1>11, LocalsFrame DEF GraphRaises, SettleStream, HandleOutcome, Steps, Deciding,
       Creating, OnlyStarters, LocalsInv
  <1>12. ASSUME NEW x \in Activities, CreateApproval(x) PROVE LocalsInv'
    <2>1. approvals[x].status = "none"
      BY <1>12 DEF CreateApproval, ApprovalsInv, Late
    <2>2. \A a \in Activities : approvals[a].status # "none" => approvals'[a] = approvals[a]
      BY <1>12, <2>1 DEF CreateApproval, TypeOK
    <2> QED BY <1>12, <2>2, LocalsFrame DEF CreateApproval, Steps, Deciding, Creating,
       OnlyStarters
  <1>13. ASSUME NEW x \in Activities, CreateApprovalFails(x) \/ Audited(x) PROVE LocalsInv'
    BY <1>13, LocalsFrame DEF CreateApprovalFails, Audited, Steps, Deciding, Creating,
       OnlyStarters
  <1>14. ASSUME NEW x \in Activities, Park(x) PROVE LocalsInv'
    <2>0. pc[onRun[x]] \notin Creating
      BY <1>14 DEF Park, LocalsInv, ApprovalsInv, Creating
    <2>1. PICK step \in {"audit", "fail", "ended"} : Goto(x, step)
      BY <1>14 DEF Park, Raised
    <2>2. \A r \in Runs : pc'[r] \in Creating => runs'[r].status = runs[r].status
      <3> SUFFICES ASSUME NEW r \in Runs, pc'[r] \in Creating
                   PROVE  runs'[r].status = runs[r].status
        OBVIOUS
      <3>1. r # x
        BY <2>1 DEF Goto, Creating, TypeOK
      <3>2. pc[r] \in Creating /\ runs[r].status = "none"
        BY <2>1, <3>1 DEF Goto, TypeOK, LocalsInv
      <3>3. CASE r = onRun[x]
        BY <1>14, <2>0, <3>2, <3>3
      <3>4. CASE r # onRun[x]
        BY <1>14, <3>4 DEF Park, SetStatus, TypeOK
      <3> QED BY <3>3, <3>4
    <2> QED BY <1>14, <2>1, <2>2, LocalsFrame DEF Park, Steps, OnlyStarters, Deciding, Creating
  <1>15. ASSUME NEW x \in Activities, Conclude(x) PROVE LocalsInv'
    <2>0. pc[onRun[x]] \notin Creating
      BY <1>15 DEF Conclude, Verdict, LocalsInv, ApprovalsInv, Creating
    <2>1. PICK step \in {"audit", "lastaudit"} : Goto(x, step)
      BY <1>15 DEF Conclude
    <2>2. \A r \in Runs : pc'[r] \in Creating => runs'[r].status = runs[r].status
      <3> SUFFICES ASSUME NEW r \in Runs, pc'[r] \in Creating
                   PROVE  runs'[r].status = runs[r].status
        OBVIOUS
      <3>1. r # x
        BY <2>1 DEF Goto, Creating, TypeOK
      <3>2. pc[r] \in Creating /\ runs[r].status = "none"
        BY <2>1, <3>1 DEF Goto, TypeOK, LocalsInv
      <3>3. CASE r = onRun[x]
        BY <1>15, <2>0, <3>2, <3>3
      <3>4. CASE r # onRun[x]
        BY <1>15, <3>4 DEF Conclude, SetStatus, TypeOK
      <3> QED BY <3>3, <3>4
    <2> QED BY <1>15, <2>1, <2>2, LocalsFrame DEF Conclude, Verdict, Steps, OnlyStarters,
       Deciding, Creating
  <1>16. ASSUME NEW x \in Activities, AuditFails(x) \/ StoreFails(x) \/ Cancel(x) \/ Crash(x)
         PROVE  LocalsInv'
    BY <1>16, LocalsFrame DEF AuditFails, StoreFails, Cancel, Crash, Raised, Live, Steps,
       Deciding, Creating, OnlyStarters
  <1>17. CASE UNCHANGED vars
    BY <1>17 DEF LocalsInv, vars
  <1> QED
    BY <1>1, <1>2, <1>3, <1>4, <1>5, <1>6, <1>7, <1>8, <1>9, <1>10, <1>11, <1>12, <1>13,
       <1>14, <1>15, <1>16, <1>17 DEF Next, Progress

\* Every step keeps the requests and their versions in step.
LEMMA ApprovalsStep ==
    TypeOK /\ LocalsInv /\ ApprovalsInv /\ [Next]_vars => ApprovalsInv'
  <1> SUFFICES ASSUME TypeOK, LocalsInv, ApprovalsInv,
                      [Next]_vars
               PROVE  ApprovalsInv'
    OBVIOUS
  <1> USE RunAssumption DEF Activities
  <1>1. ASSUME NEW r \in Runs, Claim(r) PROVE ApprovalsInv'
    BY <1>1, ApprovalsFrame DEF Claim, Steps, Late, Creating
  <1>2. ASSUME NEW r \in Runs, WaitingApprovalForThread(r) PROVE ApprovalsInv'
    BY <1>2, ApprovalsFrame DEF WaitingApprovalForThread, Steps, Late, Creating
  <1>3. ASSUME NEW r \in Runs, ReapStaleThread(r) PROVE ApprovalsInv'
    BY <1>3, ApprovalsFrame DEF ReapStaleThread, Steps, Late, Creating
  <1>4. ASSUME NEW r \in Runs, Reinsert(r) PROVE ApprovalsInv'
    BY <1>4, ApprovalsFrame DEF Reinsert, Steps, Late, Creating
  <1>5. ASSUME NEW r \in Runs, Age(r) PROVE ApprovalsInv'
    BY <1>5 DEF Age, ApprovalsInv
  <1>6. ASSUME NEW c \in Calls, NEW a \in Activities, ReadRequest(c, a) PROVE ApprovalsInv'
    BY <1>6, ApprovalsFrame DEF ReadRequest, Steps, Late, Creating
  <1>7. ASSUME NEW c \in Calls, ResumableRun(c) \/ RefuseRun(c) \/ Resume(c) PROVE ApprovalsInv'
    BY <1>7, ApprovalsFrame DEF ResumableRun, RefuseRun, Resume, Steps, Late, Creating
  <1>8. ASSUME NEW c \in Calls, NEW o \in {"approved", "rejected"}, Decide(c, o)
        PROVE  ApprovalsInv'
    <2>1. about[c] \in Activities /\ seen[c] \in Nat /\ approvals[about[c]].status # "none"
      BY <1>8 DEF Decide, LocalsInv, TypeOK
    <2>2. CASE ~StillPending(c)
      BY <1>8, <2>2, ApprovalsFrame DEF Decide, Steps, Late, Creating
    <2>3. CASE StillPending(c)
      <3>1. /\ approvals' = [approvals EXCEPT ![about[c]] =
                               [status |-> o, run |-> approvals[about[c]].run,
                                version |-> 2, by |-> c]]
            /\ Goto(c, "decided") /\ pc[c] \notin Late \cup Creating
        BY <1>8, <2>3 DEF Decide, StillPending, Late, Creating
      <3>2. \A a \in Activities : pc[a] \in Late => pc'[a] \in Late
        BY <3>1 DEF Goto, TypeOK
      <3>3. \A a \in Activities : pc[a] \notin Creating => pc'[a] \notin Creating
        BY <3>1 DEF Goto, TypeOK, Creating
      <3> QED BY <2>1, <3>1, <3>2, <3>3 DEF ApprovalsInv, TypeOK, Requests
    <2> QED BY <2>2, <2>3
  <1>9. ASSUME NEW x \in Activities, EnterGraph(x) PROVE ApprovalsInv'
    BY <1>9, ApprovalsFrame DEF EnterGraph, Steps, Late, Creating
  <1>10. ASSUME NEW x \in Activities, NEW n \in 0..2, GraphReturns(x, n) PROVE ApprovalsInv'
    BY <1>10, ApprovalsFrame DEF GraphReturns, HandleOutcome, Steps, Late, Creating
  <1>11. ASSUME NEW x \in Activities, GraphRaises(x) \/ SettleStream(x) PROVE ApprovalsInv'
    BY <1>11, ApprovalsFrame DEF GraphRaises, SettleStream, HandleOutcome, Steps, Late, Creating
  <1>12. ASSUME NEW x \in Activities, CreateApproval(x) PROVE ApprovalsInv'
    BY <1>12 DEF CreateApproval, Goto, TypeOK, Requests, LocalsInv, ApprovalsInv, Late, Creating
  <1>13. ASSUME NEW x \in Activities, CreateApprovalFails(x) \/ Audited(x) PROVE ApprovalsInv'
    BY <1>13, ApprovalsFrame DEF CreateApprovalFails, Audited, Steps, Late, Creating
  <1>14. ASSUME NEW x \in Activities, Park(x) PROVE ApprovalsInv'
    BY <1>14, ApprovalsFrame DEF Park, Raised, Steps, Late, Creating
  <1>15. ASSUME NEW x \in Activities, Conclude(x) PROVE ApprovalsInv'
    BY <1>15, ApprovalsFrame DEF Conclude, Verdict, Steps, Late, Creating
  <1>16. ASSUME NEW x \in Activities, AuditFails(x) \/ StoreFails(x) \/ Cancel(x) \/ Crash(x)
         PROVE  ApprovalsInv'
    BY <1>16, ApprovalsFrame DEF AuditFails, StoreFails, Cancel, Crash, Raised, Live,
       Steps, Late, Creating
  <1>17. CASE UNCHANGED vars
    BY <1>17 DEF ApprovalsInv, vars
  <1> QED
    BY <1>1, <1>2, <1>3, <1>4, <1>5, <1>6, <1>7, <1>8, <1>9, <1>10, <1>11, <1>12, <1>13,
       <1>14, <1>15, <1>16, <1>17 DEF Next, Progress

\* Every step keeps at most one unfinished run on a thread.
LEMMA IndexStep ==
    TypeOK /\ LocalsInv /\ OneUnfinishedPerThread /\ [Next]_vars => OneUnfinishedPerThread'
  <1> SUFFICES ASSUME TypeOK, LocalsInv, OneUnfinishedPerThread,
                      [Next]_vars
               PROVE  OneUnfinishedPerThread'
    OBVIOUS
  <1> USE RunAssumption DEF Activities
  <1>1. ASSUME NEW r \in Runs, Claim(r) PROVE OneUnfinishedPerThread'
    BY <1>1 DEF Claim, Insert, IndexAllows, OneUnfinishedPerThread, Unfinished,
       SameThread, TypeOK
  <1>2. ASSUME NEW r \in Runs, WaitingApprovalForThread(r) PROVE OneUnfinishedPerThread'
    BY <1>2 DEF WaitingApprovalForThread, OneUnfinishedPerThread, Unfinished
  <1>3. ASSUME NEW r \in Runs, ReapStaleThread(r) PROVE OneUnfinishedPerThread'
    BY <1>3 DEF ReapStaleThread, StaleOn, OneUnfinishedPerThread, Unfinished, SameThread, TypeOK
  <1>4. ASSUME NEW r \in Runs, Reinsert(r) PROVE OneUnfinishedPerThread'
    BY <1>4 DEF Reinsert, Insert, IndexAllows, OneUnfinishedPerThread, Unfinished,
       SameThread, TypeOK
  <1>5. ASSUME NEW r \in Runs, Age(r) PROVE OneUnfinishedPerThread'
    BY <1>5 DEF Age, OneUnfinishedPerThread, Unfinished, SameThread, TypeOK
  <1>6. ASSUME NEW c \in Calls, NEW a \in Activities, ReadRequest(c, a)
        PROVE  OneUnfinishedPerThread'
    BY <1>6 DEF ReadRequest, OneUnfinishedPerThread, Unfinished
  <1>7. ASSUME NEW c \in Calls, ResumableRun(c) \/ RefuseRun(c) \/ Resume(c)
        PROVE  OneUnfinishedPerThread'
    BY <1>7 DEF ResumableRun, RefuseRun, Resume, OneUnfinishedPerThread, Unfinished
  <1>8. ASSUME NEW c \in Calls, NEW o \in {"approved", "rejected"}, Decide(c, o)
        PROVE  OneUnfinishedPerThread'
    BY <1>8 DEF Decide, OneUnfinishedPerThread, Unfinished
  <1>9. ASSUME NEW x \in Activities, EnterGraph(x) PROVE OneUnfinishedPerThread'
    BY <1>9 DEF EnterGraph, OneUnfinishedPerThread, Unfinished
  <1>10. ASSUME NEW x \in Activities, NEW n \in 0..2, GraphReturns(x, n)
         PROVE  OneUnfinishedPerThread'
    BY <1>10 DEF GraphReturns, OneUnfinishedPerThread, Unfinished
  <1>11. ASSUME NEW x \in Activities, GraphRaises(x) \/ SettleStream(x)
         PROVE  OneUnfinishedPerThread'
    BY <1>11 DEF GraphRaises, SettleStream, OneUnfinishedPerThread, Unfinished
  <1>12. ASSUME NEW x \in Activities, CreateApproval(x) PROVE OneUnfinishedPerThread'
    BY <1>12 DEF CreateApproval, OneUnfinishedPerThread, Unfinished
  <1>13. ASSUME NEW x \in Activities, CreateApprovalFails(x) \/ Audited(x)
         PROVE  OneUnfinishedPerThread'
    BY <1>13 DEF CreateApprovalFails, Audited, OneUnfinishedPerThread, Unfinished
  <1>14. ASSUME NEW x \in Activities, Park(x) PROVE OneUnfinishedPerThread'
    <2>1. onRun[x] \in Runs
      BY <1>14 DEF Park, LocalsInv
    <2> QED BY <1>14, <2>1 DEF Park, SetStatus, IndexAllows, OneUnfinishedPerThread,
       Unfinished, SameThread, TypeOK
  <1>15. ASSUME NEW x \in Activities, Conclude(x) PROVE OneUnfinishedPerThread'
    BY <1>15 DEF Conclude, SetStatus, Verdict, OneUnfinishedPerThread, Unfinished,
       SameThread, TypeOK
  <1>16. ASSUME NEW x \in Activities, AuditFails(x) \/ StoreFails(x) \/ Cancel(x) \/ Crash(x)
         PROVE  OneUnfinishedPerThread'
    BY <1>16 DEF AuditFails, StoreFails, Cancel, Crash, OneUnfinishedPerThread, Unfinished
  <1>17. CASE UNCHANGED vars
    BY <1>17 DEF vars, OneUnfinishedPerThread, Unfinished
  <1> QED
    BY <1>1, <1>2, <1>3, <1>4, <1>5, <1>6, <1>7, <1>8, <1>9, <1>10, <1>11, <1>12, <1>13,
       <1>14, <1>15, <1>16, <1>17 DEF Next, Progress

\* Every step keeps a driving starter's row running: no decide call writes it
\* before it is parked, and no reaper takes it.
LEMMA StarterStep ==
    /\ TypeOK /\ LocalsInv /\ ApprovalsInv /\ Safe
    /\ StarterOwns /\ ResumerOwns /\ NotYetParked /\ OneToken /\ [Next]_vars
    => StarterOwns'
  <1> SUFFICES ASSUME TypeOK, LocalsInv, ApprovalsInv, Safe,
                      StarterOwns, ResumerOwns, NotYetParked, OneToken, [Next]_vars
               PROVE  StarterOwns'
    OBVIOUS
  <1> USE RunAssumption DEF Activities
  <1>1. ASSUME NEW r \in Runs, Claim(r) PROVE StarterOwns'
    BY <1>1 DEF Claim, Insert, Goto, TypeOK, StarterOwns, Driving
  <1>2. ASSUME NEW r \in Runs, WaitingApprovalForThread(r) PROVE StarterOwns'
    BY <1>2 DEF WaitingApprovalForThread, Goto, TypeOK, StarterOwns, Driving
  <1>3. ASSUME NEW r \in Runs, ReapStaleThread(r) PROVE StarterOwns'
    BY <1>3 DEF ReapStaleThread, StaleOn, Goto, TypeOK, StarterOwns, Driving
  <1>4. ASSUME NEW r \in Runs, Reinsert(r) PROVE StarterOwns'
    BY <1>4 DEF Reinsert, Insert, Goto, TypeOK, StarterOwns, Driving
  <1>5. ASSUME NEW r \in Runs, Age(r) PROVE StarterOwns'
    <2>1. pc[r] \notin Driving
      BY <1>5 DEF Age, Safe, Live, Driving
    <2> QED BY <1>5, <2>1 DEF Age, StarterOwns, TypeOK
  <1>6. ASSUME NEW c \in Calls, NEW a \in Activities, ReadRequest(c, a) PROVE StarterOwns'
    BY <1>6 DEF ReadRequest, Goto, TypeOK, StarterOwns, Driving
  <1>7. ASSUME NEW c \in Calls, ResumableRun(c) \/ RefuseRun(c) \/ Resume(c) PROVE StarterOwns'
    BY <1>7 DEF ResumableRun, RefuseRun, Resume, Goto, TypeOK, StarterOwns, Driving
  <1>8. ASSUME NEW c \in Calls, NEW o \in {"approved", "rejected"}, Decide(c, o)
        PROVE  StarterOwns'
    BY <1>8 DEF Decide, Goto, TypeOK, StarterOwns, Driving
  <1>9. ASSUME NEW x \in Activities, EnterGraph(x) PROVE StarterOwns'
    BY <1>9 DEF EnterGraph, Goto, TypeOK, LocalsInv, Deciding, StarterOwns, Driving
  <1>10. ASSUME NEW x \in Activities, NEW n \in 0..2, GraphReturns(x, n) PROVE StarterOwns'
    BY <1>10 DEF GraphReturns, HandleOutcome, Goto, TypeOK, StarterOwns, Driving
  <1>11. ASSUME NEW x \in Activities, GraphRaises(x) \/ SettleStream(x) PROVE StarterOwns'
    BY <1>11 DEF GraphRaises, SettleStream, HandleOutcome, Goto, TypeOK, StarterOwns, Driving
  <1>12. ASSUME NEW x \in Activities, CreateApproval(x) PROVE StarterOwns'
    BY <1>12 DEF CreateApproval, Goto, TypeOK, StarterOwns, Driving
  <1>13. ASSUME NEW x \in Activities, CreateApprovalFails(x) \/ Audited(x) PROVE StarterOwns'
    BY <1>13 DEF CreateApprovalFails, Audited, Goto, TypeOK, StarterOwns, Driving
  <1>14. ASSUME NEW x \in Activities, Park(x) PROVE StarterOwns'
    <2>1. CASE x \in Runs
      <3>1. \A r \in Runs : pc'[r] \in Driving => pc[r] \in Driving /\ (r = x => UNCHANGED runs)
        BY <1>14, <2>1 DEF Park, Goto, Raised, TypeOK, Driving
      <3>2. \A r \in Runs : r # x => runs'[r] = runs[r]
        BY <1>14, <2>1 DEF Park, SetStatus, LocalsInv, TypeOK
      <3> QED BY <3>1, <3>2 DEF StarterOwns
    <2>2. CASE x \in Calls
      <3>1. \A r \in Runs : pc'[r] = pc[r]
        BY <1>14, <2>2 DEF Park, Goto, TypeOK
      <3>2. runs[onRun[x]].status # "running" /\ onRun[x] \in Runs
        BY <1>14, <2>2 DEF Park, LocalsInv, NotYetParked, Bystander
      <3>3. \A r \in Runs : r # onRun[x] => runs'[r] = runs[r]
        BY <1>14, <3>2 DEF Park, SetStatus, TypeOK
      <3> QED BY <3>1, <3>2, <3>3 DEF StarterOwns
    <2> QED BY <2>1, <2>2
  <1>15. ASSUME NEW x \in Activities, Conclude(x) PROVE StarterOwns'
    BY <1>15 DEF Conclude, SetStatus, Verdict, Goto, TypeOK, StarterOwns, Driving,
       LocalsInv, NotYetParked, Bystander
  <1>16. ASSUME NEW x \in Activities, AuditFails(x) \/ StoreFails(x) \/ Cancel(x) \/ Crash(x)
         PROVE  StarterOwns'
    BY <1>16 DEF AuditFails, StoreFails, Cancel, Crash, Raised, Live, Safe, Goto, TypeOK,
       StarterOwns, Driving
  <1>17. CASE UNCHANGED vars
    BY <1>17 DEF vars, StarterOwns
  <1> QED
    BY <1>1, <1>2, <1>3, <1>4, <1>5, <1>6, <1>7, <1>8, <1>9, <1>10, <1>11, <1>12, <1>13,
       <1>14, <1>15, <1>16, <1>17 DEF Next, Progress

\* Every step keeps the row waiting for the call that carries out a decision.
LEMMA ResumerStep ==
    /\ TypeOK /\ LocalsInv /\ ApprovalsInv /\ Safe
    /\ StarterOwns /\ ResumerOwns /\ NotYetParked /\ OneToken /\ [Next]_vars
    => ResumerOwns'
  <1> SUFFICES ASSUME TypeOK, LocalsInv, ApprovalsInv, Safe,
                      StarterOwns, ResumerOwns, NotYetParked, OneToken, [Next]_vars
               PROVE  ResumerOwns'
    OBVIOUS
  <1> USE RunAssumption DEF Activities
  <1>1. ASSUME NEW r \in Runs, Claim(r) PROVE ResumerOwns'
    <2>1. ASSUME NEW c \in Calls, pc'[c] \in Resuming
          PROVE  onRun'[c] = onRun[c] /\ runs'[onRun[c]] = runs[onRun[c]] /\ pc[c] \in Resuming
      <3>1. pc'[c] = pc[c] /\ onRun'[c] = onRun[c]
        BY <1>1 DEF Claim, Goto, TypeOK
      <3>2. onRun[c] \in Runs /\ onRun[c] # r
        BY <1>1, <2>1, <3>1 DEF Claim, LocalsInv, ApprovalsInv, Resuming, Creating
      <3> QED BY <1>1, <2>1, <3>1, <3>2 DEF Claim, Insert, TypeOK
    <2> QED BY <2>1 DEF ResumerOwns
  <1>2. ASSUME NEW r \in Runs, WaitingApprovalForThread(r) PROVE ResumerOwns'
    BY <1>2 DEF WaitingApprovalForThread, Goto, TypeOK, ResumerOwns, Resuming
  <1>3. ASSUME NEW r \in Runs, ReapStaleThread(r) PROVE ResumerOwns'
    BY <1>3 DEF ReapStaleThread, StaleOn, LocalsInv, Goto, TypeOK, ResumerOwns, Resuming
  <1>4. ASSUME NEW r \in Runs, Reinsert(r) PROVE ResumerOwns'
    <2>1. ASSUME NEW c \in Calls, pc'[c] \in Resuming
          PROVE  onRun'[c] = onRun[c] /\ runs'[onRun[c]] = runs[onRun[c]] /\ pc[c] \in Resuming
      <3>1. pc'[c] = pc[c] /\ onRun'[c] = onRun[c]
        BY <1>4 DEF Reinsert, Goto, TypeOK
      <3>2. onRun[c] \in Runs /\ onRun[c] # r
        BY <1>4, <2>1, <3>1 DEF Reinsert, LocalsInv, ApprovalsInv, Resuming, Creating
      <3> QED BY <1>4, <2>1, <3>1, <3>2 DEF Reinsert, Insert, TypeOK
    <2> QED BY <2>1 DEF ResumerOwns
  <1>5. ASSUME NEW r \in Runs, Age(r) PROVE ResumerOwns'
    BY <1>5 DEF Age, LocalsInv, Goto, TypeOK, ResumerOwns, Resuming
  <1>6. ASSUME NEW c \in Calls, NEW a \in Activities, ReadRequest(c, a) PROVE ResumerOwns'
    BY <1>6 DEF ReadRequest, Goto, TypeOK, ResumerOwns, Resuming
  <1>7. ASSUME NEW c \in Calls, ResumableRun(c) \/ RefuseRun(c) \/ Resume(c) PROVE ResumerOwns'
    BY <1>7 DEF ResumableRun, RefuseRun, Resume, Goto, TypeOK, ResumerOwns, Resuming
  <1>8. ASSUME NEW c \in Calls, NEW o \in {"approved", "rejected"}, Decide(c, o)
        PROVE  ResumerOwns'
    BY <1>8 DEF Decide, Goto, TypeOK, ResumerOwns, Resuming
  <1>9. ASSUME NEW x \in Activities, EnterGraph(x) PROVE ResumerOwns'
    BY <1>9 DEF EnterGraph, Goto, TypeOK, LocalsInv, OnlyStarters, ResumerOwns, Resuming
  <1>10. ASSUME NEW x \in Activities, NEW n \in 0..2, GraphReturns(x, n) PROVE ResumerOwns'
    BY <1>10 DEF GraphReturns, HandleOutcome, Goto, TypeOK, ResumerOwns, Resuming
  <1>11. ASSUME NEW x \in Activities, GraphRaises(x) \/ SettleStream(x) PROVE ResumerOwns'
    BY <1>11 DEF GraphRaises, SettleStream, HandleOutcome, Goto, TypeOK, ResumerOwns, Resuming
  <1>12. ASSUME NEW x \in Activities, CreateApproval(x) PROVE ResumerOwns'
    BY <1>12 DEF CreateApproval, Goto, TypeOK, ResumerOwns, Resuming
  <1>13. ASSUME NEW x \in Activities, CreateApprovalFails(x) \/ Audited(x) PROVE ResumerOwns'
    BY <1>13 DEF CreateApprovalFails, Audited, Goto, TypeOK, ResumerOwns, Resuming
  <1>14. ASSUME NEW x \in Activities, Park(x) PROVE ResumerOwns'
    BY <1>14 DEF Park, SetStatus, Raised, LocalsInv, Goto, TypeOK, ResumerOwns, Resuming
  <1>15. ASSUME NEW x \in Activities, Conclude(x) PROVE ResumerOwns'
    <2>1. ASSUME NEW c \in Calls, pc'[c] \in Resuming
          PROVE  onRun'[c] = onRun[c] /\ runs'[onRun[c]] = runs[onRun[c]] /\ pc[c] \in Resuming
      <3>1. c # x /\ pc'[c] = pc[c] /\ onRun'[c] = onRun[c]
        BY <1>15, <2>1 DEF Conclude, Goto, TypeOK, Resuming
      <3>2. CASE x \in Calls
        <4>1. pc[x] \in InCharge /\ pc[c] \in InCharge
          BY <1>15, <2>1, <3>1, <3>2 DEF Conclude, Verdict, InCharge, Resuming,
             LocalsInv, OnlyStarters
        <4>2. onRun[c] # onRun[x]
          BY <3>1, <3>2, <4>1 DEF OneToken
        <4> QED BY <1>15, <2>1, <3>1, <4>2 DEF Conclude, SetStatus, TypeOK
      <3>3. CASE x \in Runs
        <4>1. onRun[x] = x /\ runs[x].status = "running"
          BY <1>15, <3>3 DEF Conclude, Verdict, Driving, LocalsInv, StarterOwns
        <4>2. onRun[c] # x
          BY <2>1, <3>1, <4>1 DEF ResumerOwns
        <4> QED BY <1>15, <2>1, <3>1, <4>1, <4>2 DEF Conclude, SetStatus, TypeOK
      <3> QED BY <3>2, <3>3
    <2> QED BY <2>1 DEF ResumerOwns
  <1>16. ASSUME NEW x \in Activities, AuditFails(x) \/ StoreFails(x) \/ Cancel(x) \/ Crash(x)
         PROVE  ResumerOwns'
    BY <1>16 DEF AuditFails, StoreFails, Cancel, Crash, Raised, Goto, TypeOK, ResumerOwns,
       Resuming, LocalsInv
  <1>17. CASE UNCHANGED vars
    BY <1>17 DEF vars, ResumerOwns
  <1> QED
    BY <1>1, <1>2, <1>3, <1>4, <1>5, <1>6, <1>7, <1>8, <1>9, <1>10, <1>11, <1>12, <1>13,
       <1>14, <1>15, <1>16, <1>17 DEF Next, Progress

\* A step of x that writes no row back to running keeps NotYetParked, if a
\* call only gets past reading when its run is waiting.
LEMMA ParkedFrame ==
    ASSUME TypeOK, LocalsInv, NotYetParked, NEW x \in Activities, NEW step \in Steps,
           Goto(x, step), UNCHANGED <<approvals, onRun>>,
           \A r \in Runs : runs'[r].status \in {"none", "running"} =>
                              runs[r].status \in {"none", "running"},
           \/ x \in Runs
           \/ step \in Bystander
           \/ pc[x] \notin Bystander
           \/ runs[onRun[x]].status = "waiting_approval"
    PROVE  NotYetParked'
  <1> SUFFICES ASSUME NEW r \in Runs, runs'[r].status \in {"none", "running"}
               PROVE  /\ \A c \in Calls : onRun[c] = r => pc'[c] \in Bystander
                      /\ \A a \in Activities : approvals[a].run = r => a = r
    BY DEF NotYetParked
  <1>1. runs[r].status \in {"none", "running"}
    OBVIOUS
  <1>2. ASSUME NEW c \in Calls, onRun[c] = r PROVE pc'[c] \in Bystander
    <2>1. pc[c] \in Bystander
      BY <1>1, <1>2 DEF NotYetParked
    <2>2. CASE c # x
      BY <2>1, <2>2 DEF Goto, TypeOK
    <2>3. CASE c = x
      BY <1>1, <1>2, <2>1, <2>3, RunAssumption DEF Goto, TypeOK, Activities
    <2> QED BY <2>2, <2>3
  <1> QED BY <1>1, <1>2 DEF NotYetParked

\* A step of x that moves no request keeps the token single, if a call only
\* takes charge by deciding.
LEMMA TokenFrame ==
    ASSUME TypeOK, OneToken, NEW x \in Activities, NEW step \in Steps, Goto(x, step),
           UNCHANGED <<approvals, onRun>>,
           x \in Runs \/ step \notin InCharge \/ pc[x] \in InCharge
    PROVE  OneToken'
  <1>1. \A c \in Calls : pc'[c] \in InCharge => pc[c] \in InCharge
    BY RunAssumption DEF Goto, TypeOK, Activities
  <1> QED BY <1>1 DEF OneToken

\* Every step keeps decide calls off a run that has not parked yet.
LEMMA ParkedStep ==
    /\ TypeOK /\ LocalsInv /\ ApprovalsInv /\ Safe
    /\ StarterOwns /\ ResumerOwns /\ NotYetParked /\ OneToken /\ [Next]_vars
    => NotYetParked'
  <1> SUFFICES ASSUME TypeOK, LocalsInv, ApprovalsInv, Safe,
                      StarterOwns, ResumerOwns, NotYetParked, OneToken, [Next]_vars
               PROVE  NotYetParked'
    OBVIOUS
  <1> USE RunAssumption DEF Activities
  <1>1. ASSUME NEW r \in Runs, Claim(r) PROVE NotYetParked'
    <2>1. pc[r] \in Creating
      BY <1>1 DEF Claim, Creating
    <2>2. \A a \in Activities : approvals[a].run # r
      BY <2>1 DEF ApprovalsInv
    <2>3. \A c \in Calls : onRun[c] = r => pc[c] = "idle"
      BY <2>2 DEF LocalsInv
    <2>4. \A c \in Calls : pc'[c] = pc[c]
      BY <1>1 DEF Claim, Goto, TypeOK
    <2>5. \A q \in Runs : q # r => runs'[q] = runs[q]
      BY <1>1 DEF Claim, Insert, TypeOK
    <2>6. UNCHANGED <<approvals, onRun>>
      BY <1>1 DEF Claim
    <2> QED BY <2>2, <2>3, <2>4, <2>5, <2>6 DEF NotYetParked, Bystander
  <1>2. ASSUME NEW r \in Runs, WaitingApprovalForThread(r) PROVE NotYetParked'
    BY <1>2, ParkedFrame DEF WaitingApprovalForThread, Steps, Bystander
  <1>3. ASSUME NEW r \in Runs, ReapStaleThread(r) PROVE NotYetParked'
    BY <1>3, ParkedFrame DEF ReapStaleThread, StaleOn, Steps, Bystander
  <1>4. ASSUME NEW r \in Runs, Reinsert(r) PROVE NotYetParked'
    <2>1. pc[r] \in Creating
      BY <1>4 DEF Reinsert, Creating
    <2>2. \A a \in Activities : approvals[a].run # r
      BY <2>1 DEF ApprovalsInv
    <2>3. \A c \in Calls : onRun[c] = r => pc[c] = "idle"
      BY <2>2 DEF LocalsInv
    <2>4. \A c \in Calls : pc'[c] = pc[c]
      BY <1>4 DEF Reinsert, Goto, TypeOK
    <2>5. \A q \in Runs : q # r => runs'[q] = runs[q]
      BY <1>4 DEF Reinsert, Insert, TypeOK
    <2>6. UNCHANGED <<approvals, onRun>>
      BY <1>4 DEF Reinsert
    <2> QED BY <2>2, <2>3, <2>4, <2>5, <2>6 DEF NotYetParked, Bystander
  <1>5. ASSUME NEW r \in Runs, Age(r) PROVE NotYetParked'
    BY <1>5 DEF Age, TypeOK, NotYetParked
  <1>6. ASSUME NEW c \in Calls, NEW a \in Activities, ReadRequest(c, a) PROVE NotYetParked'
    BY <1>6 DEF ReadRequest, Goto, TypeOK, LocalsInv, NotYetParked, Bystander
  <1>7. ASSUME NEW c \in Calls, ResumableRun(c) \/ RefuseRun(c) \/ Resume(c) PROVE NotYetParked'
    BY <1>7, ParkedFrame DEF ResumableRun, RefuseRun, Resume, Steps, Bystander
  <1>8. ASSUME NEW c \in Calls, NEW o \in {"approved", "rejected"}, Decide(c, o)
        PROVE  NotYetParked'
    <2>0. about[c] \in Activities
      BY <1>8 DEF Decide, LocalsInv
    <2>1. ASSUME NEW a \in Activities PROVE approvals'[a].run = approvals[a].run
      <3>1. CASE StillPending(c) /\ a = about[c]
        BY <1>8, <2>0, <3>1 DEF Decide, TypeOK
      <3>2. CASE ~(StillPending(c) /\ a = about[c])
        BY <1>8, <2>0, <3>2 DEF Decide, TypeOK
      <3> QED BY <3>1, <3>2
    <2>2. \A d \in Calls : pc[d] \in Bystander => pc'[d] \in Bystander
      BY <1>8 DEF Decide, Goto, TypeOK, Bystander
    <2> QED BY <1>8, <2>1, <2>2 DEF Decide, NotYetParked
  <1>9. ASSUME NEW x \in Activities, EnterGraph(x) PROVE NotYetParked'
    BY <1>9, ParkedFrame DEF EnterGraph, Steps, Bystander
  <1>10. ASSUME NEW x \in Activities, NEW n \in 0..2, GraphReturns(x, n) PROVE NotYetParked'
    BY <1>10, ParkedFrame DEF GraphReturns, HandleOutcome, Steps, Bystander
  <1>11. ASSUME NEW x \in Activities, GraphRaises(x) \/ SettleStream(x) PROVE NotYetParked'
    BY <1>11, ParkedFrame DEF GraphRaises, SettleStream, HandleOutcome, Steps, Bystander
  <1>12. ASSUME NEW x \in Activities, CreateApproval(x) PROVE NotYetParked'
    <2>1. onRun[x] \in Runs /\ (x \in Runs => onRun[x] = x)
      BY <1>12 DEF CreateApproval, LocalsInv
    <2>2. x \in Calls => runs[onRun[x]].status = "waiting_approval"
      BY <1>12 DEF CreateApproval, ResumerOwns, Resuming
    <2>3. \A a \in Activities : a # x => approvals'[a] = approvals[a]
      BY <1>12 DEF CreateApproval, TypeOK
    <2>4. approvals'[x].run = onRun[x]
      BY <1>12 DEF CreateApproval, TypeOK
    <2>5. \A c \in Calls : c # x => pc'[c] = pc[c]
      BY <1>12 DEF CreateApproval, Goto, TypeOK
    <2>6. UNCHANGED <<runs, onRun>>
      BY <1>12 DEF CreateApproval
    <2> QED BY <2>1, <2>2, <2>3, <2>4, <2>5, <2>6 DEF NotYetParked
  <1>13. ASSUME NEW x \in Activities, CreateApprovalFails(x) \/ Audited(x) PROVE NotYetParked'
    BY <1>13, ParkedFrame DEF CreateApprovalFails, Audited, Steps, Bystander
  <1>14. ASSUME NEW x \in Activities, Park(x) PROVE NotYetParked'
    <2>1. onRun[x] \in Runs
      BY <1>14 DEF Park, LocalsInv
    <2>2. \A r \in Runs : runs'[r].status \in {"none", "running"} =>
             runs[r].status \in {"none", "running"}
      BY <1>14, <2>1 DEF Park, SetStatus, TypeOK
    <2> QED BY <1>14, <2>2, ParkedFrame DEF Park, Raised, Steps, Bystander
  <1>15. ASSUME NEW x \in Activities, Conclude(x) PROVE NotYetParked'
    <2>1. pc[x] \in {"finish", "giveup", "fail", "cancel"} /\ Verdict[pc[x]] \in Terminal
      BY <1>15 DEF Conclude, Verdict, Terminal
    <2>2. onRun[x] \in Runs
      BY <2>1 DEF LocalsInv, Activities
    <2>3. \A r \in Runs : runs'[r].status \in {"none", "running"} =>
             runs[r].status \in {"none", "running"}
      BY <1>15, <2>1, <2>2 DEF Conclude, SetStatus, TypeOK, Terminal
    <2> QED BY <1>15, <2>1, <2>3, ParkedFrame DEF Conclude, Steps, Bystander
  <1>16. ASSUME NEW x \in Activities, AuditFails(x) \/ StoreFails(x) \/ Cancel(x) \/ Crash(x)
         PROVE  NotYetParked'
    BY <1>16, ParkedFrame DEF AuditFails, StoreFails, Cancel, Crash, Raised, Live, Steps,
       Bystander
  <1>17. CASE UNCHANGED vars
    BY <1>17 DEF vars, NotYetParked
  <1> QED
    BY <1>1, <1>2, <1>3, <1>4, <1>5, <1>6, <1>7, <1>8, <1>9, <1>10, <1>11, <1>12, <1>13,
       <1>14, <1>15, <1>16, <1>17 DEF Next, Progress

\* Every step hands the token of a run on and never makes a second.
LEMMA TokenStep ==
    /\ TypeOK /\ LocalsInv /\ ApprovalsInv /\ Safe
    /\ StarterOwns /\ ResumerOwns /\ NotYetParked /\ OneToken /\ [Next]_vars
    => OneToken'
  <1> SUFFICES ASSUME TypeOK, LocalsInv, ApprovalsInv, Safe,
                      StarterOwns, ResumerOwns, NotYetParked, OneToken, [Next]_vars
               PROVE  OneToken'
    OBVIOUS
  <1> USE RunAssumption DEF Activities
  <1>1. ASSUME NEW r \in Runs, Claim(r) PROVE OneToken'
    BY <1>1, TokenFrame DEF Claim, Steps, InCharge, Resuming
  <1>2. ASSUME NEW r \in Runs, WaitingApprovalForThread(r) PROVE OneToken'
    BY <1>2, TokenFrame DEF WaitingApprovalForThread, Steps, InCharge, Resuming
  <1>3. ASSUME NEW r \in Runs, ReapStaleThread(r) PROVE OneToken'
    BY <1>3, TokenFrame DEF ReapStaleThread, Steps, InCharge, Resuming
  <1>4. ASSUME NEW r \in Runs, Reinsert(r) PROVE OneToken'
    BY <1>4, TokenFrame DEF Reinsert, Steps, InCharge, Resuming
  <1>5. ASSUME NEW r \in Runs, Age(r) PROVE OneToken'
    BY <1>5 DEF Age, OneToken
  <1>6. ASSUME NEW c \in Calls, NEW a \in Activities, ReadRequest(c, a) PROVE OneToken'
    BY <1>6 DEF ReadRequest, Goto, TypeOK, OneToken, InCharge, Resuming
  <1>7. ASSUME NEW c \in Calls, ResumableRun(c) \/ RefuseRun(c) \/ Resume(c) PROVE OneToken'
    BY <1>7, TokenFrame DEF ResumableRun, RefuseRun, Resume, Steps, InCharge, Resuming
  <1>8. ASSUME NEW c \in Calls, NEW o \in {"approved", "rejected"}, Decide(c, o) PROVE OneToken'
    <2>1. CASE ~StillPending(c)
      BY <1>8, <2>1, TokenFrame DEF Decide, Steps, InCharge, Resuming
    <2>2. CASE StillPending(c)
      <3>1. /\ about[c] \in Activities
            /\ approvals[about[c]].status = "pending"
            /\ approvals[about[c]].run = onRun[c]
        BY <1>8, <2>2 DEF Decide, StillPending, LocalsInv, ApprovalsInv
      <3>2. \A a \in Activities : approvals'[a].status = "pending" =>
               a # about[c] /\ approvals'[a] = approvals[a]
        BY <1>8, <2>2, <3>1 DEF Decide, TypeOK
      <3>3. \A a \in Activities : approvals'[a].status = "pending" =>
               approvals[a].run # onRun[c]
        BY <3>1, <3>2 DEF OneToken
      <3>4. \A d \in Calls : d # c => pc'[d] = pc[d]
        BY <1>8 DEF Decide, Goto, TypeOK
      <3>5. \A d \in Calls : pc[d] \in InCharge => onRun[d] # onRun[c]
        BY <3>1 DEF OneToken
      <3>6. UNCHANGED onRun
        BY <1>8 DEF Decide
      <3>7. \A a, b \in Activities :
               /\ approvals'[a].status = "pending" /\ approvals'[b].status = "pending"
               /\ approvals'[a].run = approvals'[b].run
               => a = b
        BY <3>2 DEF OneToken
      <3>8. \A a \in Activities, d \in Calls :
               approvals'[a].status = "pending" /\ pc'[d] \in InCharge =>
                 onRun[d] # approvals'[a].run
        BY <3>2, <3>3, <3>4 DEF OneToken
      <3>9. \A d, e \in Calls : pc'[d] \in InCharge /\ pc'[e] \in InCharge
                                /\ onRun[d] = onRun[e] => d = e
        BY <3>4, <3>5 DEF OneToken
      <3> QED BY <3>6, <3>7, <3>8, <3>9 DEF OneToken
    <2> QED BY <2>1, <2>2
  <1>9. ASSUME NEW x \in Activities, EnterGraph(x) PROVE OneToken'
    BY <1>9, TokenFrame DEF EnterGraph, LocalsInv, OnlyStarters, Steps, InCharge, Resuming
  <1>10. ASSUME NEW x \in Activities, NEW n \in 0..2, GraphReturns(x, n) PROVE OneToken'
    BY <1>10, TokenFrame DEF GraphReturns, HandleOutcome, Steps, InCharge, Resuming
  <1>11. ASSUME NEW x \in Activities, GraphRaises(x) \/ SettleStream(x) PROVE OneToken'
    BY <1>11, TokenFrame DEF GraphRaises, SettleStream, HandleOutcome, Steps, InCharge, Resuming
  <1>12. ASSUME NEW x \in Activities, CreateApproval(x) PROVE OneToken'
    <2>1. /\ onRun[x] \in Runs /\ UNCHANGED onRun
          /\ approvals'[x].status = "pending" /\ approvals'[x].run = onRun[x]
          /\ \A a \in Activities : a # x => approvals'[a] = approvals[a]
      BY <1>12 DEF CreateApproval, LocalsInv, TypeOK
    <2>2. \A c \in Calls : pc'[c] \in InCharge => c # x /\ pc[c] \in InCharge
      BY <1>12 DEF CreateApproval, Goto, TypeOK, InCharge, Resuming
    <2>3. \A a \in Activities :
             approvals[a].status = "pending" /\ approvals[a].run = onRun[x] => a = x
      <3>1. CASE x \in Calls
        BY <1>12, <3>1 DEF CreateApproval, InCharge, Resuming, OneToken
      <3>2. CASE x \in Runs
        BY <1>12, <3>2 DEF CreateApproval, LocalsInv, StarterOwns, Driving, NotYetParked
      <3> QED BY <3>1, <3>2
    <2>4. \A c \in Calls : pc'[c] \in InCharge => onRun[c] # onRun[x]
      <3>1. CASE x \in Calls
        BY <1>12, <2>2, <3>1 DEF CreateApproval, InCharge, Resuming, OneToken
      <3>2. CASE x \in Runs
        BY <1>12, <2>2, <3>2 DEF CreateApproval, LocalsInv, StarterOwns, Driving, NotYetParked,
             InCharge, Resuming, Bystander
      <3> QED BY <3>1, <3>2
    <2>5. \A a, b \in Activities :
             /\ approvals'[a].status = "pending" /\ approvals'[b].status = "pending"
             /\ approvals'[a].run = approvals'[b].run
             => a = b
      BY <2>1, <2>3 DEF OneToken
    <2>6. \A a \in Activities, c \in Calls :
             approvals'[a].status = "pending" /\ pc'[c] \in InCharge => onRun[c] # approvals'[a].run
      BY <2>1, <2>2, <2>4 DEF OneToken
    <2> QED BY <2>1, <2>2, <2>5, <2>6 DEF OneToken
  <1>13. ASSUME NEW x \in Activities, CreateApprovalFails(x) \/ Audited(x) PROVE OneToken'
    BY <1>13, TokenFrame DEF CreateApprovalFails, Audited, Steps, InCharge, Resuming
  <1>14. ASSUME NEW x \in Activities, Park(x) PROVE OneToken'
    BY <1>14, TokenFrame DEF Park, Raised, Steps, InCharge, Resuming
  <1>15. ASSUME NEW x \in Activities, Conclude(x) PROVE OneToken'
    BY <1>15, TokenFrame DEF Conclude, Verdict, Steps, InCharge, Resuming
  <1>16. ASSUME NEW x \in Activities, AuditFails(x) \/ StoreFails(x) \/ Cancel(x) \/ Crash(x)
         PROVE  OneToken'
    BY <1>16, TokenFrame DEF AuditFails, StoreFails, Cancel, Crash, Raised, Steps,
       InCharge, Resuming
  <1>17. CASE UNCHANGED vars
    BY <1>17 DEF vars, OneToken
  <1> QED
    BY <1>1, <1>2, <1>3, <1>4, <1>5, <1>6, <1>7, <1>8, <1>9, <1>10, <1>11, <1>12, <1>13,
       <1>14, <1>15, <1>16, <1>17 DEF Next, Progress

LEMMA EnvStep == [Next]_vars => env' = env
  BY DEF Next, Progress, vars, Claim, WaitingApprovalForThread, ReapStaleThread, Reinsert, Age,
     ReadRequest, ResumableRun, RefuseRun, Decide, Resume, EnterGraph, GraphReturns, GraphRaises,
     SettleStream, CreateApproval, CreateApprovalFails, Park, Conclude, Audited, AuditFails,
     StoreFails, Cancel, Crash

LEMMA InvInit == Init => TypeOK /\ TokenInv
  <1> SUFFICES ASSUME Init PROVE TypeOK /\ TokenInv
    OBVIOUS
  <1> USE RunAssumption DEF Activities
  <1>1. TypeOK
    BY DEF Init, TypeOK, Rows, Requests, RunStatus, ApprovalStatus, Steps
  <1>2. LocalsInv /\ ApprovalsInv
    BY DEF Init, LocalsInv, ApprovalsInv, Deciding, OnlyStarters
  <1>3. OneUnfinishedPerThread
    BY DEF Init, OneUnfinishedPerThread, Unfinished
  <1>4. StarterOwns /\ ResumerOwns
    BY DEF Init, StarterOwns, ResumerOwns, Driving, Resuming
  <1>5. NotYetParked /\ OneToken
    BY DEF Init, NotYetParked, OneToken, Bystander, InCharge, Resuming
  <1> QED BY <1>1, <1>2, <1>3, <1>4, <1>5 DEF TokenInv

LEMMA InvStep == TypeOK /\ TokenInv /\ [Next]_vars => TypeOK' /\ TokenInv'
  <1> SUFFICES ASSUME TypeOK, TokenInv, [Next]_vars PROVE TypeOK' /\ TokenInv'
    OBVIOUS
  <1>1. TypeOK'
    BY TypeStep DEF TokenInv
  <1>2. LocalsInv' /\ ApprovalsInv' /\ OneUnfinishedPerThread'
    BY LocalsStep, ApprovalsStep, IndexStep DEF TokenInv
  <1>3. env' = env
    BY EnvStep
  <1>4. ASSUME Safe' PROVE StarterOwns' /\ ResumerOwns' /\ NotYetParked' /\ OneToken'
    <2>1. Safe
      BY <1>3, <1>4 DEF Safe
    <2> QED BY <2>1, StarterStep, ResumerStep, ParkedStep, TokenStep DEF TokenInv
  <1> QED BY <1>1, <1>2, <1>4 DEF TokenInv

\* The token discipline is an invariant of every behaviour.
THEOREM TokenDiscipline == Spec => [](TypeOK /\ TokenInv)
  BY InvInit, InvStep, PTL DEF Spec

\* The variables keep their types: create, decide, resume and the faults only
\* ever write rows and requests of the declared shape.
THEOREM TypeCorrect == Spec => []TypeOK
  BY TokenDiscipline, PTL

\* A thread never has two unfinished runs, whatever create, the reaper and the
\* unconditional set_status do, for any number of runs and under every fault.
THEOREM OneUnfinished == Spec => []OneUnfinishedPerThread
  <1>1. TypeOK /\ TokenInv => OneUnfinishedPerThread
    BY DEF TokenInv
  <1> QED BY <1>1, TokenDiscipline, PTL

\* Only decide and _create_approval write requests; decide writes one at version
\* 1, and a request is raised once.
LEMMA DecidedStays ==
    ASSUME TypeOK, TokenInv, [Next]_vars, NEW a \in Activities, approvals[a].by # NoOne
    PROVE  approvals'[a] = approvals[a]
  <1>1. approvals[a].status \notin {"none", "pending"} /\ approvals[a].version # 1
    BY DEF TokenInv, ApprovalsInv
  <1>2. ASSUME NEW c \in Calls, NEW o \in {"approved", "rejected"}, Decide(c, o)
        PROVE  approvals'[a] = approvals[a]
    BY <1>1, <1>2 DEF Decide, StillPending, TypeOK
  <1>3. ASSUME NEW x \in Activities, CreateApproval(x)
        PROVE  approvals'[a] = approvals[a]
    <2>1. approvals[x].status = "none"
      BY <1>3 DEF CreateApproval, TokenInv, ApprovalsInv, Late
    <2> QED BY <1>1, <1>3, <2>1 DEF CreateApproval, TypeOK
  <1> QED
    BY <1>2, <1>3 DEF Next, Progress, vars, Claim, WaitingApprovalForThread, ReapStaleThread,
       Reinsert, Age, ReadRequest, ResumableRun, RefuseRun, Resume, EnterGraph, GraphReturns,
       GraphRaises, SettleStream, CreateApprovalFails, Park, Conclude, Audited, AuditFails,
       StoreFails, Cancel, Crash

\* A decided request is never written again, by a decider that read it while it
\* was pending or by anybody else.
THEOREM DecisionFinal == Spec => DecisionIsFinal
  <1>1. TypeOK /\ TokenInv /\ [Next]_vars =>
          [\A a \in Activities : approvals[a].by # NoOne => approvals'[a] = approvals[a]]_vars
    BY DecidedStays
  <1> QED BY <1>1, TokenDiscipline, PTL DEF Spec, DecisionIsFinal

\* The token keeps the graph of a thread to one call, which drives a run that is
\* not finished.
LEMMA DriverAlone ==
    ASSUME TypeOK, TokenInv, Safe, NEW x \in Activities, pc[x] = "graph"
    PROVE  /\ onRun[x] \in Runs /\ Unfinished(onRun[x])
           /\ \A y \in Activities : pc[y] = "graph" /\ Thread(x) = Thread(y) => x = y
  <1> USE DEF Activities
  <1>1. \A y \in Activities : pc[y] = "graph" => onRun[y] \in Runs
    BY DEF TokenInv, LocalsInv
  <1>2. \A r \in Runs : pc[r] = "graph" => onRun[r] = r /\ runs[r].status = "running"
    BY DEF TokenInv, LocalsInv, StarterOwns, Driving
  <1>3. \A c \in Calls : pc[c] = "graph" => runs[onRun[c]].status = "waiting_approval"
    BY DEF TokenInv, ResumerOwns, Resuming
  <1>4. ASSUME NEW y \in Activities, pc[y] = "graph", Thread(x) = Thread(y)
        PROVE  x = y
    <2>1. onRun[x] = onRun[y]
      BY <1>1, <1>2, <1>3, <1>4
         DEF TokenInv, OneUnfinishedPerThread, Unfinished, SameThread, Thread
    <2>2. CASE x \in Calls /\ y \in Calls
      BY <1>4, <2>1, <2>2 DEF TokenInv, OneToken, InCharge, Resuming
    <2>3. CASE x \in Runs \/ y \in Runs
      BY <1>2, <1>3, <1>4, <2>1, <2>3
    <2> QED BY <2>2, <2>3
  <1> QED BY <1>1, <1>2, <1>3, <1>4 DEF Unfinished

\* While processes may crash and statements may fail, no two calls are in the
\* graph of one thread: two turns never write one checkpoint.
THEOREM TurnsExclusive == Spec => []GraphExclusive
  <1>1. TypeOK /\ TokenInv => GraphExclusive
    BY DriverAlone DEF GraphExclusive, Safe
  <1> QED BY <1>1, TokenDiscipline, PTL

-----------------------------------------------------------------------------

\* Unless it settles, pauses or takes a decision up, a step of x that leaves the
\* rows, the requests and the checkpoints alone keeps the pauses where they are.
LEMMA PauseFrame ==
    ASSUME TypeOK, LocalsInv, ApprovalsInv, OutcomeIsOwn, PendingIsPause, DecidedIsPause,
           NEW x \in Activities, NEW step \in Steps, Goto(x, step),
           UNCHANGED <<runs, approvals, paused, onRun, about>>,
           step \notin {"pause", "settle", "decided", "resuming"},
           x \in Runs \/ step \in Bystander \/ pc[x] \notin Bystander
    PROVE  OutcomeIsOwn' /\ PendingIsPause' /\ DecidedIsPause'
  <1> USE RunAssumption DEF Activities
  <1>1. \A y \in Activities : pc'[y] \in {"pause", "settle", "decided", "resuming"} => pc'[y] = pc[y]
    BY DEF Goto, TypeOK
  <1>2. \A c \in Calls : pc[c] \in Bystander => pc'[c] \in Bystander
    BY DEF Goto, TypeOK
  <1>3. OutcomeIsOwn'
    BY <1>1 DEF OutcomeIsOwn, PausedBy, Thread
  <1>4. DecidedIsPause'
    BY <1>1 DEF DecidedIsPause, PausedBy
  <1>5. PendingIsPause'
    BY <1>2 DEF PendingIsPause, PausedBy, Unfinished
  <1> QED BY <1>3, <1>4, <1>5

\* A step that only rewrites rows, and moves x on past them, keeps the pauses if
\* no decided run loses its wait, and a row starts or stops being unfinished only
\* where no decide call has got past reading.
LEMMA RowFrame ==
    ASSUME TypeOK, LocalsInv, ApprovalsInv, OutcomeIsOwn, PendingIsPause, DecidedIsPause,
           NEW x \in Activities, NEW step \in Steps, Goto(x, step),
           UNCHANGED <<approvals, paused, onRun, about>>,
           step \notin {"pause", "settle", "decided", "resuming"},
           x \in Runs \/ pc[x] \notin Bystander,
           \A c \in Calls : pc'[c] \in {"decided", "resuming"} =>
               runs'[onRun[c]].status = runs[onRun[c]].status,
           \A a \in Activities : approvals[a].status = "pending" =>
               \/ Unfinished(approvals[a].run) <=> Unfinished(approvals[a].run)'
               \/ /\ Unfinished(approvals[a].run)
                  /\ a = approvals[a].run
                  /\ \A c \in Calls : onRun[c] = a => pc[c] \in Bystander
    PROVE  OutcomeIsOwn' /\ PendingIsPause' /\ DecidedIsPause'
  <1> USE RunAssumption DEF Activities
  <1>1. \A y \in Activities : pc'[y] \in {"pause", "settle", "decided", "resuming"} => pc'[y] = pc[y]
    BY DEF Goto, TypeOK
  <1>2. \A c \in Calls : pc[c] \in Bystander => pc'[c] \in Bystander
    BY DEF Goto, TypeOK
  <1>3. OutcomeIsOwn'
    BY <1>1 DEF OutcomeIsOwn, PausedBy, Thread
  <1>4. DecidedIsPause'
    BY <1>1 DEF DecidedIsPause, PausedBy
  <1>5. PendingIsPause'
    BY <1>2 DEF PendingIsPause, PausedBy
  <1> QED BY <1>3, <1>4, <1>5

\* Whoever may write a checkpoint is alone on its thread: no request of an
\* unfinished run, no decide call about to resume and no other activity with an
\* outcome in hand is left on it.
LEMMA WriterAlone ==
    ASSUME TypeOK, LocalsInv, ApprovalsInv, OneUnfinishedPerThread,
           StarterOwns, ResumerOwns, NotYetParked, OneToken, DecidedIsPause,
           NEW x \in Activities, pc[x] \in {"started", "resuming", "graph"}
    PROVE  /\ onRun[x] \in Runs
           /\ \A a \in Activities :
                 approvals[a].status = "pending" /\ Unfinished(approvals[a].run) =>
                     ThreadOf[approvals[a].run] # Thread(x)
           /\ \A c \in Calls : c # x /\ pc[c] \in {"decided", "resuming"} => Thread(c) # Thread(x)
           /\ \A y \in Activities : y # x /\ pc[y] \in {"pause", "settle"} => Thread(y) # Thread(x)
  <1> USE RunAssumption DEF Activities
  <1>1. /\ onRun[x] \in Runs /\ Unfinished(onRun[x])
        /\ x \in Runs => onRun[x] = x /\ runs[x].status = "running"
        /\ x \in Calls => runs[onRun[x]].status = "waiting_approval" /\ pc[x] \in InCharge
    BY DEF LocalsInv, StarterOwns, ResumerOwns, Driving, Resuming, InCharge, Unfinished, OnlyStarters,
           Deciding
  <1>2. \A r \in Runs : Unfinished(r) /\ ThreadOf[r] = Thread(x) => r = onRun[x]
    BY <1>1 DEF OneUnfinishedPerThread, SameThread, Thread
  <1>3. ASSUME NEW a \in Activities, approvals[a].status = "pending", Unfinished(approvals[a].run),
               ThreadOf[approvals[a].run] = Thread(x)
        PROVE  FALSE
    <2>1. approvals[a].run = onRun[x] /\ pc[a] \in Late
      BY <1>2, <1>3 DEF ApprovalsInv
    <2>2. CASE x \in Calls
      BY <1>1, <1>3, <2>1, <2>2 DEF OneToken
    <2>3. CASE x \in Runs
      BY <1>1, <2>1, <2>3 DEF NotYetParked, Late
    <2> QED BY <2>2, <2>3
  <1>4. ASSUME NEW c \in Calls, c # x, pc[c] \in {"decided", "resuming"}, Thread(c) = Thread(x)
        PROVE  FALSE
    <2>1. onRun[c] \in Runs /\ runs[onRun[c]].status = "waiting_approval" /\ pc[c] \in InCharge
      BY <1>4 DEF LocalsInv, DecidedIsPause, InCharge, Resuming
    <2>2. onRun[c] = onRun[x]
      BY <1>2, <1>4, <2>1 DEF Unfinished, Thread
    <2> QED BY <1>1, <1>4, <2>1, <2>2 DEF OneToken
  <1>5. ASSUME NEW y \in Activities, y # x, pc[y] \in {"pause", "settle"}, Thread(y) = Thread(x)
        PROVE  FALSE
    <2>1. /\ onRun[y] \in Runs /\ Unfinished(onRun[y])
          /\ y \in Runs => onRun[y] = y /\ runs[y].status = "running"
          /\ y \in Calls => runs[onRun[y]].status = "waiting_approval" /\ pc[y] \in InCharge
      BY <1>5 DEF LocalsInv, StarterOwns, ResumerOwns, Driving, Resuming, InCharge, Unfinished,
                  OnlyStarters
    <2>2. onRun[y] = onRun[x]
      BY <1>2, <1>5, <2>1 DEF Thread
    <2> QED BY <1>1, <1>5, <2>1, <2>2 DEF OneToken
  <1> QED BY <1>1, <1>3, <1>4, <1>5

\* The same for a write of a row: an activity that holds the token of its run
\* leaves no other holder behind.
LEMMA HolderAlone ==
    ASSUME TypeOK, LocalsInv, ApprovalsInv, StarterOwns, ResumerOwns, NotYetParked, OneToken,
           NEW x \in Activities,
           pc[x] \in {"finish", "giveup", "fail", "cancel"}
    PROVE  /\ onRun[x] \in Runs
           /\ \A c \in Calls : c # x /\ pc[c] \in InCharge => onRun[c] # onRun[x]
           /\ \A a \in Activities :
                 approvals[a].status = "pending" /\ approvals[a].run = onRun[x] =>
                     /\ a = onRun[x] /\ a = x
                     /\ \A c \in Calls : onRun[c] = a => pc[c] \in Bystander
  <1> USE RunAssumption DEF Activities
  <1>1. onRun[x] \in Runs
    BY DEF LocalsInv
  <1>2. CASE x \in Calls
    BY <1>1, <1>2 DEF LocalsInv, OnlyStarters, InCharge, Resuming, OneToken
  <1>3. CASE x \in Runs
    <2>1. onRun[x] = x /\ runs[x].status = "running"
      BY <1>3 DEF LocalsInv, StarterOwns, Driving
    <2> QED BY <2>1, <1>3 DEF NotYetParked, InCharge, Resuming, Bystander
  <1> QED BY <1>1, <1>2, <1>3

\* A write of the checkpoint by an activity in charge of the thread leaves every
\* other pause where it is, if the activity's own next step fits what it wrote.
LEMMA WriterFrame ==
    ASSUME TypeOK, LocalsInv, ApprovalsInv, OneUnfinishedPerThread,
           StarterOwns, ResumerOwns, NotYetParked, OneToken,
           OutcomeIsOwn, PendingIsPause, DecidedIsPause,
           NEW x \in Activities, pc[x] \in {"started", "resuming", "graph"},
           NEW p \in [by: Activities \cup {NoOne}, count: 0..2],
           paused' = [paused EXCEPT ![Thread(x)] = p],
           UNCHANGED <<runs, approvals, onRun, about>>,
           NEW step \in {"graph", "settle", "finish", "pause", "giveup"}, Goto(x, step),
           step = "pause" => p = [by |-> x, count |-> 1],
           step = "settle" /\ p.count = 1 => p.by = x
    PROVE  OutcomeIsOwn' /\ PendingIsPause' /\ DecidedIsPause'
  <1> USE RunAssumption DEF Activities
  <1>1. /\ onRun[x] \in Runs
        /\ \A a \in Activities :
              approvals[a].status = "pending" /\ Unfinished(approvals[a].run) =>
                  ThreadOf[approvals[a].run] # Thread(x)
        /\ \A c \in Calls : c # x /\ pc[c] \in {"decided", "resuming"} => Thread(c) # Thread(x)
        /\ \A y \in Activities : y # x /\ pc[y] \in {"pause", "settle"} => Thread(y) # Thread(x)
    BY WriterAlone
  <1>2. /\ paused'[Thread(x)] = p
        /\ \A t \in Threads : t # Thread(x) => paused'[t] = paused[t]
    BY <1>1 DEF TypeOK, Thread
  <1>3. /\ pc'[x] = step
        /\ \A y \in Activities : y # x => pc'[y] = pc[y]
    BY DEF Goto, TypeOK
  <1>4. \A y \in Activities : pc[y] # "idle" => onRun[y] \in Runs /\ Thread(y) \in Threads
    BY DEF LocalsInv, Thread
  <1>5. OutcomeIsOwn'
    <2>1. ASSUME NEW y \in Activities, y # x
          PROVE  /\ pc'[y] = "pause" => PausedBy(onRun[y], y)'
                 /\ pc'[y] = "settle" /\ paused'[Thread(y)].count = 1 => paused'[Thread(y)].by = y
      <3>1. pc[y] \in {"pause", "settle"} => paused'[Thread(y)] = paused[Thread(y)]
        BY <1>1, <1>2, <1>4, <2>1
      <3>2. pc'[y] = pc[y]
        BY <1>3, <2>1
      <3> QED BY <3>1, <3>2 DEF OutcomeIsOwn, PausedBy, Thread
    <2>2. /\ pc'[x] = "pause" => PausedBy(onRun[x], x)'
          /\ pc'[x] = "settle" /\ paused'[Thread(x)].count = 1 => paused'[Thread(x)].by = x
      BY <1>2, <1>3 DEF PausedBy, Thread
    <2> QED BY <2>1, <2>2 DEF OutcomeIsOwn, Thread
  <1>6. DecidedIsPause'
    <2>1. \A c \in Calls : pc'[c] \in {"decided", "resuming"} => c # x /\ pc'[c] = pc[c]
      BY <1>3
    <2> QED BY <1>1, <1>2, <1>4, <2>1 DEF DecidedIsPause, PausedBy, Thread
  <1>7. \A a \in Activities : approvals[a].status = "pending" => approvals[a].run \in Runs
    BY DEF ApprovalsInv
  <1>8. \A c \in Calls : pc[c] \in Bystander => pc'[c] \in Bystander
    BY <1>3 DEF Bystander
  <1>9. PendingIsPause'
    BY <1>1, <1>2, <1>7, <1>8 DEF PendingIsPause, PausedBy, Unfinished
  <1> QED BY <1>5, <1>6, <1>9

\* Every step keeps each pause with the request, and the call, that answer it.
LEMMA PauseStep ==
    /\ TypeOK /\ LocalsInv /\ ApprovalsInv /\ OneUnfinishedPerThread /\ Safe
    /\ StarterOwns /\ ResumerOwns /\ NotYetParked /\ OneToken
    /\ OutcomeIsOwn /\ PendingIsPause /\ DecidedIsPause /\ [Next]_vars
    => OutcomeIsOwn' /\ PendingIsPause' /\ DecidedIsPause'
  <1> SUFFICES ASSUME TypeOK, LocalsInv, ApprovalsInv, OneUnfinishedPerThread, Safe,
                      StarterOwns, ResumerOwns, NotYetParked, OneToken,
                      OutcomeIsOwn, PendingIsPause, DecidedIsPause, [Next]_vars
               PROVE  OutcomeIsOwn' /\ PendingIsPause' /\ DecidedIsPause'
    OBVIOUS
  <1> USE RunAssumption DEF Activities
  <1> DEFINE Kept == OutcomeIsOwn' /\ PendingIsPause' /\ DecidedIsPause'
  <1>0. ASSUME NEW r \in Runs, pc[r] \in Creating, Insert(r), Goto(r, "started"),
               UNCHANGED <<approvals, paused, onRun, about>>
        PROVE  Kept
    <2>1. \A a \in Activities : approvals[a].status = "pending" =>
             approvals[a].run \in Runs /\ approvals[a].run # r
      BY <1>0 DEF ApprovalsInv
    <2>2. \A c \in Calls : pc[c] \in {"decided", "resuming"} => onRun[c] \in Runs /\ onRun[c] # r
      BY <1>0 DEF ApprovalsInv, LocalsInv
    <2>3. \A q \in Runs : q # r => runs'[q] = runs[q]
      BY <1>0 DEF Insert, TypeOK
    <2>4. \A c \in Calls : pc'[c] = pc[c]
      BY <1>0 DEF Goto, TypeOK
    <2>5. \A a \in Activities : approvals[a].status = "pending" =>
             (Unfinished(approvals[a].run) <=> Unfinished(approvals[a].run)')
      BY <1>0, <2>1, <2>3 DEF Unfinished
    <2>6. \A c \in Calls : pc'[c] \in {"decided", "resuming"} =>
             runs'[onRun[c]].status = runs[onRun[c]].status
      BY <2>2, <2>3, <2>4
    <2> QED BY <1>0, <2>5, <2>6, RowFrame DEF Steps
  <1>1. ASSUME NEW r \in Runs, Claim(r) PROVE Kept
    <2>1. CASE IndexAllows(r)
      BY <1>0, <1>1, <2>1 DEF Claim, Creating
    <2>2. CASE ~IndexAllows(r)
      BY <1>1, <2>2, PauseFrame DEF Claim, Steps
    <2> QED BY <2>1, <2>2
  <1>2. ASSUME NEW r \in Runs, WaitingApprovalForThread(r) PROVE Kept
    BY <1>2, PauseFrame DEF WaitingApprovalForThread, Steps
  <1>3. ASSUME NEW r \in Runs, ReapStaleThread(r) PROVE Kept
    <2>1. \A q \in Runs : \/ runs'[q].status = runs[q].status
                          \/ runs[q].status = "running"
      BY <1>3 DEF ReapStaleThread, StaleOn
    <2>2. \A c \in Calls : pc'[c] = pc[c]
      BY <1>3 DEF ReapStaleThread, Goto, TypeOK
    <2>3. \A c \in Calls : pc'[c] \in {"decided", "resuming"} =>
             runs'[onRun[c]].status = runs[onRun[c]].status
      BY <2>1, <2>2 DEF DecidedIsPause, LocalsInv
    <2>4. ASSUME NEW a \in Activities, approvals[a].status = "pending"
          PROVE  \/ Unfinished(approvals[a].run) <=> Unfinished(approvals[a].run)'
                 \/ /\ Unfinished(approvals[a].run)
                    /\ a = approvals[a].run
                    /\ \A c \in Calls : onRun[c] = a => pc[c] \in Bystander
      <3>1. approvals[a].run \in Runs /\ approvals' = approvals
        BY <1>3, <2>4 DEF ApprovalsInv, ReapStaleThread
      <3>2. CASE runs'[approvals[a].run].status = runs[approvals[a].run].status
        BY <3>1, <3>2 DEF Unfinished
      <3>3. CASE runs[approvals[a].run].status = "running"
        BY <3>1, <3>3 DEF Unfinished, NotYetParked
      <3> QED BY <2>1, <3>1, <3>2, <3>3
    <2>5. PICK step \in Steps : /\ Goto(r, step)
                                /\ step \notin {"pause", "settle", "decided", "resuming"}
      BY <1>3 DEF ReapStaleThread, Steps
    <2>6. UNCHANGED <<approvals, paused, onRun, about>>
      BY <1>3 DEF ReapStaleThread
    <2> QED BY <2>3, <2>4, <2>5, <2>6, RowFrame
  <1>4. ASSUME NEW r \in Runs, Reinsert(r) PROVE Kept
    <2>1. CASE IndexAllows(r)
      BY <1>0, <1>4, <2>1 DEF Reinsert, Creating
    <2>2. CASE ~IndexAllows(r)
      BY <1>4, <2>2, PauseFrame DEF Reinsert, Steps
    <2> QED BY <2>1, <2>2
  <1>5. ASSUME NEW r \in Runs, Age(r) PROVE Kept
    <2>1. /\ \A q \in Runs : runs'[q].status = runs[q].status
          /\ UNCHANGED <<approvals, paused, pc, onRun, about>>
      BY <1>5 DEF Age, TypeOK
    <2>2. \A c \in Calls : pc[c] \in {"decided", "resuming"} => onRun[c] \in Runs
      BY DEF LocalsInv
    <2>3. \A a \in Activities : approvals[a].status = "pending" => approvals[a].run \in Runs
      BY DEF ApprovalsInv
    <2>4. PendingIsPause'
      BY <2>1, <2>3 DEF PendingIsPause, PausedBy, Unfinished
    <2>5. OutcomeIsOwn' /\ DecidedIsPause'
      BY <2>1, <2>2 DEF OutcomeIsOwn, DecidedIsPause, PausedBy, Thread
    <2> QED BY <2>4, <2>5
  <1>6. ASSUME NEW c \in Calls, NEW a \in Activities, ReadRequest(c, a) PROVE Kept
    <2>1. /\ UNCHANGED <<runs, approvals, paused>>
          /\ pc'[c] = "read"
          /\ \A y \in Activities : y # c => pc'[y] = pc[y] /\ onRun'[y] = onRun[y]
          /\ \A d \in Calls : d # c => about'[d] = about[d]
      BY <1>6 DEF ReadRequest, Goto, TypeOK
    <2>2. OutcomeIsOwn' /\ DecidedIsPause'
      BY <2>1 DEF OutcomeIsOwn, DecidedIsPause, PausedBy, Thread
    <2>3. PendingIsPause'
      BY <2>1 DEF PendingIsPause, PausedBy, Unfinished, Bystander
    <2> QED BY <2>2, <2>3
  <1>7. ASSUME NEW c \in Calls, ResumableRun(c) PROVE Kept
    <2>1. /\ UNCHANGED <<runs, approvals, paused, onRun, about>>
          /\ pc'[c] = "checked"
          /\ \A y \in Activities : y # c => pc'[y] = pc[y]
      BY <1>7 DEF ResumableRun, Goto, TypeOK
    <2>2. OutcomeIsOwn' /\ DecidedIsPause'
      BY <2>1 DEF OutcomeIsOwn, DecidedIsPause, PausedBy, Thread
    <2>3. Unfinished(onRun[c])
      BY <1>7 DEF ResumableRun, Unfinished
    <2>4. PendingIsPause'
      BY <2>1, <2>3 DEF PendingIsPause, PausedBy, Unfinished
    <2> QED BY <2>2, <2>4
  <1>8. ASSUME NEW c \in Calls, RefuseRun(c) PROVE Kept
    BY <1>8, PauseFrame DEF RefuseRun, Steps, Bystander
  <1>9. ASSUME NEW c \in Calls, Resume(c) PROVE Kept
    <2>1. /\ UNCHANGED <<runs, approvals, paused, onRun, about>>
          /\ pc[c] = "decided" /\ pc'[c] \in {"resuming", "ended"}
          /\ \A y \in Activities : y # c => pc'[y] = pc[y]
      BY <1>9 DEF Resume, Goto, TypeOK
    <2>2. OutcomeIsOwn' /\ DecidedIsPause'
      BY <2>1 DEF OutcomeIsOwn, DecidedIsPause, PausedBy, Thread
    <2>3. PendingIsPause'
      BY <2>1 DEF PendingIsPause, PausedBy, Unfinished, Bystander
    <2> QED BY <2>2, <2>3
  <1>10. ASSUME NEW c \in Calls, NEW o \in {"approved", "rejected"}, Decide(c, o) PROVE Kept
    <2>1. CASE ~StillPending(c)
      BY <1>10, <2>1, PauseFrame DEF Decide, Steps, Bystander
    <2>2. CASE StillPending(c)
      <3>1. /\ about[c] \in Activities /\ onRun[c] \in Runs
            /\ approvals[about[c]].status = "pending"
            /\ approvals[about[c]].run = onRun[c]
        BY <1>10, <2>2 DEF Decide, StillPending, LocalsInv, ApprovalsInv
      <3>2. pc[c] \notin Bystander
        BY <1>10 DEF Decide, Bystander
      <3>3. Unfinished(onRun[c]) /\ PausedBy(onRun[c], about[c])
        BY <3>1, <3>2 DEF PendingIsPause
      <3>4. runs[onRun[c]].status = "waiting_approval"
        BY <3>1, <3>2, <3>3 DEF NotYetParked, Unfinished
      <3>5. /\ UNCHANGED <<runs, paused, onRun, about>>
            /\ pc'[c] = "decided"
            /\ \A y \in Activities : y # c => pc'[y] = pc[y]
        BY <1>10, <2>2 DEF Decide, Goto, TypeOK
      <3>6. \A a \in Activities : approvals'[a].status = "pending" => approvals'[a] = approvals[a]
        BY <1>10, <2>2, <3>1 DEF Decide, TypeOK
      <3>7. OutcomeIsOwn'
        BY <3>5 DEF OutcomeIsOwn, PausedBy, Thread
      <3>8. DecidedIsPause'
        BY <3>3, <3>4, <3>5 DEF DecidedIsPause, PausedBy
      <3>9. PendingIsPause'
        BY <3>2, <3>5, <3>6 DEF PendingIsPause, PausedBy, Unfinished
      <3> QED BY <3>7, <3>8, <3>9
    <2> QED BY <2>1, <2>2
  <1>11. ASSUME NEW x \in Activities, EnterGraph(x) PROVE Kept
    <2>1. Goto(x, "graph") /\ pc[x] \in {"started", "resuming"}
          /\ paused' = [paused EXCEPT ![Thread(x)] = [by |-> NoOne, count |-> 0]]
          /\ UNCHANGED <<runs, approvals, onRun, about>>
      BY <1>11 DEF EnterGraph
    <2>2. [by |-> NoOne, count |-> 0] \in [by: Activities \cup {NoOne}, count: 0..2]
      OBVIOUS
    <2> QED BY <2>1, <2>2, WriterFrame
  <1>12. ASSUME NEW x \in Activities, NEW n \in 0..2, GraphReturns(x, n) PROVE Kept
    <2> DEFINE p == [by |-> IF n = 0 THEN NoOne ELSE x, count |-> n]
    <2>1. PICK step \in {"settle", "finish", "pause", "giveup"} :
             Goto(x, step) /\ (step = "pause" => n = 1)
      BY <1>12 DEF GraphReturns, HandleOutcome
    <2>2. /\ pc[x] = "graph" /\ paused' = [paused EXCEPT ![Thread(x)] = p]
          /\ UNCHANGED <<runs, approvals, onRun, about>>
      BY <1>12 DEF GraphReturns
    <2>3. n = 1 => p = [by |-> x, count |-> 1]
      OBVIOUS
    <2>4. p.count = 1 => p.by = x
      OBVIOUS
    <2>5. p \in [by: Activities \cup {NoOne}, count: 0..2]
      OBVIOUS
    <2> HIDE DEF p
    <2> QED BY <2>1, <2>2, <2>3, <2>4, <2>5, WriterFrame
  <1>13. ASSUME NEW x \in Activities, GraphRaises(x) PROVE Kept
    BY <1>13, PauseFrame DEF GraphRaises, Steps, Bystander
  <1>14. ASSUME NEW x \in Activities, SettleStream(x) PROVE Kept
    <2>1. PICK step \in {"ended", "finish", "pause", "giveup"} :
             Goto(x, step) /\ (step = "pause" => paused[Thread(x)].count = 1)
      BY <1>14 DEF SettleStream, HandleOutcome
    <2>2. pc[x] = "settle" /\ UNCHANGED <<runs, approvals, paused, onRun, about>>
      BY <1>14 DEF SettleStream
    <2>3. CASE step = "pause"
      <3>1. onRun[x] \in Runs /\ Thread(x) = ThreadOf[onRun[x]] /\ ThreadOf[onRun[x]] \in Threads
        BY <2>2 DEF LocalsInv, Thread
      <3>2. paused[ThreadOf[onRun[x]]] \in [by: Activities \cup {NoOne}, count: 0..2]
        BY <3>1 DEF TypeOK
      <3>3. paused[ThreadOf[onRun[x]]].count = 1 /\ paused[ThreadOf[onRun[x]]].by = x
        BY <2>1, <2>2, <2>3, <3>1 DEF OutcomeIsOwn
      <3>4. PausedBy(onRun[x], x)
        BY <3>2, <3>3 DEF PausedBy
      <3>5. pc'[x] = "pause" /\ \A y \in Activities : y # x => pc'[y] = pc[y]
        BY <2>1, <2>3 DEF Goto, TypeOK
      <3>6. OutcomeIsOwn' /\ DecidedIsPause'
        BY <2>2, <3>4, <3>5 DEF OutcomeIsOwn, DecidedIsPause, PausedBy, Thread
      <3>7. PendingIsPause'
        BY <2>2, <3>5 DEF PendingIsPause, PausedBy, Unfinished, Bystander
      <3> QED BY <3>6, <3>7
    <2>4. CASE step # "pause"
      BY <2>1, <2>2, <2>4, PauseFrame DEF Steps, Bystander
    <2> QED BY <2>3, <2>4
  <1>15. ASSUME NEW x \in Activities, CreateApproval(x) PROVE Kept
    <2>1. /\ onRun[x] \in Runs /\ Unfinished(onRun[x]) /\ PausedBy(onRun[x], x)
      BY <1>15 DEF CreateApproval, LocalsInv, StarterOwns, ResumerOwns, Driving, Resuming,
                   Unfinished, OutcomeIsOwn
    <2>2. /\ UNCHANGED <<runs, paused, onRun, about>>
          /\ pc[x] = "pause" /\ pc'[x] = "park"
          /\ \A y \in Activities : y # x => pc'[y] = pc[y]
      BY <1>15 DEF CreateApproval, Goto, TypeOK
    <2>3. /\ approvals'[x].run = onRun[x]
          /\ \A a \in Activities : a # x => approvals'[a] = approvals[a]
      BY <1>15 DEF CreateApproval, TypeOK
    <2>4. OutcomeIsOwn' /\ DecidedIsPause'
      BY <2>2 DEF OutcomeIsOwn, DecidedIsPause, PausedBy, Thread
    <2>5. PendingIsPause'
      BY <2>1, <2>2, <2>3 DEF PendingIsPause, PausedBy, Unfinished, Bystander
    <2> QED BY <2>4, <2>5
  <1>16. ASSUME NEW x \in Activities, CreateApprovalFails(x) \/ Audited(x) PROVE Kept
    BY <1>16, PauseFrame DEF CreateApprovalFails, Audited, Steps, Bystander
  <1>17. ASSUME NEW x \in Activities, Park(x) PROVE Kept
    <2>1. /\ onRun[x] \in Runs /\ pc[x] = "park"
          /\ UNCHANGED <<approvals, paused, onRun, about>>
      BY <1>17 DEF Park, LocalsInv
    <2>2. CASE ~IndexAllows(onRun[x])
      BY <1>17, <2>2, PauseFrame DEF Park, Raised, Steps, Bystander
    <2>3. CASE IndexAllows(onRun[x])
      <3>1. Goto(x, "audit") /\ runs'[onRun[x]].status = "waiting_approval"
            /\ \A q \in Runs : q # onRun[x] => runs'[q] = runs[q]
        BY <1>17, <2>1, <2>3 DEF Park, SetStatus, TypeOK
      <3>2. \A c \in Calls : pc'[c] \in {"decided", "resuming"} => pc[c] = pc'[c]
        BY <3>1 DEF Goto, TypeOK
      <3>3. \A c \in Calls : pc'[c] \in {"decided", "resuming"} =>
               runs'[onRun[c]].status = runs[onRun[c]].status
        BY <2>1, <3>1, <3>2 DEF DecidedIsPause, LocalsInv
      <3>4. ASSUME NEW a \in Activities, approvals[a].status = "pending"
            PROVE  Unfinished(approvals[a].run) <=> Unfinished(approvals[a].run)'
        <4>1. approvals[a].run \in Runs /\ approvals' = approvals
          BY <2>1, <3>4 DEF ApprovalsInv
        <4>2. CASE approvals[a].run # onRun[x]
          BY <3>1, <4>1, <4>2 DEF Unfinished
        <4>3. CASE approvals[a].run = onRun[x] /\ x \in Calls
          BY <2>1, <3>1, <3>4, <4>1, <4>3 DEF Unfinished, PendingIsPause, Bystander
        <4>4. CASE approvals[a].run = onRun[x] /\ x \in Runs
          BY <2>1, <3>1, <3>4, <4>1, <4>4 DEF Unfinished, LocalsInv, StarterOwns, Driving
        <4> QED BY <4>2, <4>3, <4>4
      <3>5. pc[x] \notin Bystander
        BY <2>1 DEF Bystander
      <3> QED BY <2>1, <3>1, <3>3, <3>4, <3>5, RowFrame DEF Steps
    <2> QED BY <2>2, <2>3
  <1>18. ASSUME NEW x \in Activities, Conclude(x) PROVE Kept
    <2>1. pc[x] \in {"finish", "giveup", "fail", "cancel"}
      BY <1>18 DEF Conclude, Verdict
    <2>2. /\ onRun[x] \in Runs
          /\ \A c \in Calls : c # x /\ pc[c] \in InCharge => onRun[c] # onRun[x]
          /\ \A a \in Activities :
                approvals[a].status = "pending" /\ approvals[a].run = onRun[x] =>
                    /\ a = onRun[x] /\ a = x
                    /\ \A c \in Calls : onRun[c] = a => pc[c] \in Bystander
      BY <2>1, HolderAlone
    <2>3. /\ UNCHANGED <<approvals, paused, onRun, about>>
          /\ \A q \in Runs : q # onRun[x] => runs'[q] = runs[q]
      BY <1>18 DEF Conclude, SetStatus, TypeOK
    <2>4. PICK step \in {"audit", "lastaudit"} : Goto(x, step)
      BY <1>18 DEF Conclude
    <2>5. \A c \in Calls : pc'[c] \in {"decided", "resuming"} =>
             runs'[onRun[c]].status = runs[onRun[c]].status
      <3>1. \A c \in Calls : pc'[c] \in {"decided", "resuming"} => c # x /\ pc[c] = pc'[c]
        BY <2>4 DEF Goto, TypeOK
      <3> QED BY <2>2, <2>3, <3>1 DEF InCharge, Resuming, LocalsInv
    <2>6. ASSUME NEW a \in Activities, approvals[a].status = "pending"
          PROVE  \/ Unfinished(approvals[a].run) <=> Unfinished(approvals[a].run)'
                 \/ /\ Unfinished(approvals[a].run)
                    /\ a = approvals[a].run
                    /\ \A c \in Calls : onRun[c] = a => pc[c] \in Bystander
      <3>1. approvals[a].run \in Runs
        BY <2>6 DEF ApprovalsInv
      <3>2. CASE approvals[a].run # onRun[x]
        BY <2>3, <3>1, <3>2 DEF Unfinished
      <3>3. CASE approvals[a].run = onRun[x]
        BY <2>1, <2>2, <2>6, <3>3 DEF Unfinished, StarterOwns, Driving
      <3> QED BY <3>2, <3>3
    <2>7. pc[x] \notin Bystander /\ step \in Steps
          /\ step \notin {"pause", "settle", "decided", "resuming"}
      BY <2>1 DEF Bystander, Steps
    <2> QED BY <2>3, <2>4, <2>5, <2>6, <2>7, RowFrame
  <1>19. ASSUME NEW x \in Activities, AuditFails(x) \/ StoreFails(x) \/ Cancel(x) \/ Crash(x)
         PROVE  Kept
    BY <1>19, PauseFrame DEF AuditFails, StoreFails, Cancel, Crash, Raised, Steps, Bystander
  <1>20. CASE UNCHANGED vars
    BY <1>20 DEF vars, OutcomeIsOwn, PendingIsPause, DecidedIsPause, PausedBy, Thread, Unfinished
  <1> QED
    BY <1>1, <1>2, <1>3, <1>4, <1>5, <1>6, <1>7, <1>8, <1>9, <1>10, <1>11, <1>12, <1>13,
       <1>14, <1>15, <1>16, <1>17, <1>18, <1>19, <1>20 DEF Next, Progress

\* A request keeps the run that its raiser is about to park.
LEMMA ParksStep ==
    TypeOK /\ LocalsInv /\ ApprovalsInv /\ ParksItsRun /\ [Next]_vars => ParksItsRun'
  <1> SUFFICES ASSUME TypeOK, LocalsInv, ApprovalsInv, ParksItsRun, [Next]_vars,
                      NEW x \in Activities, pc'[x] = "park"
               PROVE  approvals'[x].run = onRun'[x]
    BY DEF ParksItsRun
  <1> USE RunAssumption DEF Activities
  <1>1. CASE CreateApproval(x)
    BY <1>1 DEF CreateApproval, TypeOK
  <1>2. ASSUME NEW y \in Activities, y # x, CreateApproval(y)
        PROVE  approvals'[x].run = onRun'[x]
    BY <1>2 DEF CreateApproval, TypeOK, Goto, ParksItsRun
  <1>3. ASSUME NEW c \in Calls, NEW o \in {"approved", "rejected"}, Decide(c, o)
        PROVE  approvals'[x].run = onRun'[x]
    <2>1. pc[x] = "park" /\ about[c] \in Activities /\ UNCHANGED onRun
      BY <1>3 DEF Decide, Goto, TypeOK, LocalsInv
    <2>2. approvals'[x].run = approvals[x].run
      <3>1. CASE StillPending(c) /\ x = about[c]
        BY <1>3, <2>1, <3>1 DEF Decide, TypeOK
      <3>2. CASE ~(StillPending(c) /\ x = about[c])
        BY <1>3, <2>1, <3>2 DEF Decide, TypeOK
      <3> QED BY <3>1, <3>2
    <2> QED BY <2>1, <2>2 DEF ParksItsRun
  <1>4. ASSUME NEW c \in Calls, NEW a \in Activities, ReadRequest(c, a)
        PROVE  approvals'[x].run = onRun'[x]
    BY <1>4 DEF ReadRequest, Goto, TypeOK, ParksItsRun
  <1>5. ASSUME pc[x] = "park", UNCHANGED <<approvals, onRun>>
        PROVE  approvals'[x].run = onRun'[x]
    BY <1>5 DEF ParksItsRun
  <1>6. ASSUME NEW r \in Runs,
               Claim(r) \/ Age(r) \/ WaitingApprovalForThread(r) \/ ReapStaleThread(r) \/ Reinsert(r)
        PROVE  pc[x] = "park" /\ UNCHANGED <<approvals, onRun>>
    BY <1>6 DEF Claim, Age, WaitingApprovalForThread, ReapStaleThread, Reinsert, Goto, TypeOK
  <1>7. ASSUME NEW c \in Calls, ResumableRun(c) \/ RefuseRun(c) \/ Resume(c)
        PROVE  pc[x] = "park" /\ UNCHANGED <<approvals, onRun>>
    BY <1>7 DEF ResumableRun, RefuseRun, Resume, Goto, TypeOK
  <1>8. ASSUME NEW y \in Activities,
               \/ EnterGraph(y) \/ GraphRaises(y) \/ SettleStream(y) \/ CreateApprovalFails(y)
               \/ Park(y) \/ Conclude(y) \/ Audited(y)
               \/ \E n \in 0..2 : GraphReturns(y, n)
        PROVE  pc[x] = "park" /\ UNCHANGED <<approvals, onRun>>
    BY <1>8 DEF EnterGraph, GraphRaises, SettleStream, CreateApprovalFails, Park, Conclude, Audited,
                GraphReturns, HandleOutcome, Raised, Goto, TypeOK
  <1>9. ASSUME NEW y \in Activities, AuditFails(y) \/ StoreFails(y) \/ Cancel(y) \/ Crash(y)
        PROVE  pc[x] = "park" /\ UNCHANGED <<approvals, onRun>>
    BY <1>9 DEF AuditFails, StoreFails, Cancel, Crash, Raised, Goto, TypeOK
  <1>10. CASE UNCHANGED vars
    BY <1>10 DEF vars, ParksItsRun
  <1> QED
    BY <1>1, <1>2, <1>3, <1>4, <1>5, <1>6, <1>7, <1>8, <1>9, <1>10 DEF Next, Progress

\* Without faults every step leaves a pending request decidable.
LEMMA DecidableStep ==
    ASSUME TypeOK, TokenInv, PauseInv, [Next]_vars, env = {},
           NEW a \in Activities, approvals'[a].status = "pending"
    PROVE  runs'[approvals'[a].run].status = "waiting_approval" \/ pc'[a] = "park"
  <1> USE RunAssumption DEF Activities
  <1> DEFINE Goal == runs'[approvals'[a].run].status = "waiting_approval" \/ pc'[a] = "park"
  <1>0. /\ LocalsInv /\ ApprovalsInv /\ OneUnfinishedPerThread
        /\ StarterOwns /\ ResumerOwns /\ NotYetParked /\ OneToken
        /\ PendingIsDecidable
        /\ ParksItsRun
    BY DEF TokenInv, Safe, PauseInv
  <1>1. approvals[a].status = "pending" =>
            approvals[a].run \in Runs
            /\ (runs[approvals[a].run].status = "waiting_approval" \/ pc[a] = "park")
    BY <1>0 DEF ApprovalsInv, PendingIsDecidable
  <1>2. ASSUME NEW r \in Runs, pc[r] \in Creating, Insert(r), Goto(r, "started"), UNCHANGED approvals
        PROVE  Goal
    <2>1. pc[a] = "park" => pc'[a] = "park"
      BY <1>2 DEF Goto, TypeOK, Creating
    <2>2. approvals[a].run # r
      BY <1>0, <1>2 DEF ApprovalsInv
    <2> QED BY <1>1, <1>2, <2>1, <2>2 DEF Insert, TypeOK
  <1>3. ASSUME NEW r \in Runs, Claim(r) \/ Reinsert(r) PROVE Goal
    <2>1. CASE IndexAllows(r)
      BY <1>2, <1>3, <2>1 DEF Claim, Reinsert, Creating
    <2>2. CASE ~IndexAllows(r)
      BY <1>1, <1>3, <2>2 DEF Claim, Reinsert, Goto, TypeOK
    <2> QED BY <2>1, <2>2
  <1>4. ASSUME NEW r \in Runs, WaitingApprovalForThread(r) PROVE Goal
    BY <1>1, <1>4 DEF WaitingApprovalForThread, Goto, TypeOK
  <1>5. ASSUME NEW r \in Runs, ReapStaleThread(r) PROVE Goal
    BY <1>1, <1>5 DEF ReapStaleThread, StaleOn, Goto, TypeOK
  <1>6. ASSUME NEW r \in Runs, Age(r) PROVE Goal
    BY <1>1, <1>6 DEF Age, TypeOK
  <1>7. ASSUME NEW c \in Calls, NEW b \in Activities, ReadRequest(c, b) PROVE Goal
    BY <1>1, <1>7 DEF ReadRequest, Goto, TypeOK
  <1>8. ASSUME NEW c \in Calls, ResumableRun(c) \/ RefuseRun(c) \/ Resume(c) PROVE Goal
    BY <1>1, <1>8 DEF ResumableRun, RefuseRun, Resume, Goto, TypeOK
  <1>9. ASSUME NEW c \in Calls, NEW o \in {"approved", "rejected"}, Decide(c, o) PROVE Goal
    <2>1. about[c] \in Activities /\ UNCHANGED runs
      BY <1>0, <1>9 DEF Decide, LocalsInv
    <2>2. pc[a] = "park" => pc'[a] = "park"
      BY <1>9 DEF Decide, Goto, TypeOK
    <2>3. approvals'[a] = approvals[a]
      <3>1. CASE StillPending(c) /\ a = about[c]
        BY <1>9, <2>1, <3>1 DEF Decide, TypeOK
      <3>2. CASE ~(StillPending(c) /\ a = about[c])
        BY <1>9, <2>1, <3>2 DEF Decide, TypeOK
      <3> QED BY <3>1, <3>2
    <2> QED BY <1>1, <2>1, <2>2, <2>3
  <1>10. ASSUME NEW x \in Activities,
               \/ EnterGraph(x) \/ GraphRaises(x) \/ SettleStream(x) \/ CreateApprovalFails(x)
               \/ Audited(x) \/ \E n \in 0..2 : GraphReturns(x, n)
        PROVE  Goal
    BY <1>1, <1>10 DEF EnterGraph, GraphRaises, SettleStream, CreateApprovalFails, Audited,
                       GraphReturns, Goto, TypeOK
  <1>11. ASSUME NEW x \in Activities, CreateApproval(x) PROVE Goal
    BY <1>1, <1>11 DEF CreateApproval, Goto, TypeOK
  <1>12. ASSUME NEW x \in Activities, Park(x) PROVE Goal
    <2>1. onRun[x] \in Runs
      BY <1>0, <1>12 DEF Park, LocalsInv
    <2>2. approvals' = approvals /\ approvals[a].status = "pending"
      BY <1>12 DEF Park
    <2>3. CASE x # a
      <3>1. pc'[a] = pc[a]
        BY <1>12, <2>3 DEF Park, Goto, TypeOK
      <3>2. runs[approvals[a].run].status = "waiting_approval" =>
               runs'[approvals[a].run].status = "waiting_approval"
        BY <1>1, <1>12, <2>1, <2>2 DEF Park, SetStatus, TypeOK
      <3> QED BY <1>1, <2>2, <3>1, <3>2
    <2>4. CASE x = a
      <3>1. approvals[a].run = onRun[a] /\ onRun[a] \in Runs
        BY <1>0, <1>1, <1>12, <2>2, <2>4 DEF Park, ParksItsRun
      <3>2. Unfinished(onRun[a])
        <4>1. CASE a \in Runs
          BY <1>0, <1>12, <2>4, <4>1 DEF Park, LocalsInv, StarterOwns, Driving, Unfinished
        <4>2. CASE a \in Calls
          BY <1>0, <1>12, <2>2, <2>4, <3>1, <4>2 DEF Park, PauseInv, PendingIsPause, Bystander, Safe
        <4> QED BY <4>1, <4>2
      <3>3. IndexAllows(onRun[a])
        BY <1>0, <3>1, <3>2 DEF IndexAllows, OneUnfinishedPerThread
      <3> QED BY <1>12, <2>2, <2>4, <3>1, <3>3 DEF Park, SetStatus, TypeOK
    <2> QED BY <2>3, <2>4
  <1>13. ASSUME NEW x \in Activities, Conclude(x) PROVE Goal
    <2>1. pc[x] \in {"finish", "giveup", "fail", "cancel"}
      BY <1>13 DEF Conclude, Verdict
    <2>2. /\ onRun[x] \in Runs
          /\ approvals[a].status = "pending" /\ approvals[a].run = onRun[x] => a = x /\ a = onRun[x]
      BY <1>0, <2>1, HolderAlone
    <2>3. /\ approvals' = approvals
          /\ \A q \in Runs : q # onRun[x] => runs'[q] = runs[q]
          /\ \A y \in Activities : y # x => pc'[y] = pc[y]
      BY <1>13, <2>1 DEF Conclude, SetStatus, Goto, TypeOK
    <2>4. pc[a] = "park" => a # x
      BY <2>1
    <2>5. a = x /\ a = onRun[x] => runs[a].status = "running"
      BY <1>0, <2>1, <2>2 DEF StarterOwns, Driving
    <2> QED BY <1>1, <2>1, <2>2, <2>3, <2>4, <2>5
  <1>14. ASSUME NEW x \in Activities, AuditFails(x) \/ StoreFails(x) \/ Cancel(x) \/ Crash(x)
         PROVE  Goal
    BY <1>14 DEF AuditFails, StoreFails, Cancel, Crash
  <1>15. CASE UNCHANGED vars
    BY <1>1, <1>15 DEF vars
  <1> QED
    BY <1>3, <1>4, <1>5, <1>6, <1>7, <1>8, <1>9, <1>10, <1>11, <1>12, <1>13, <1>14, <1>15
    DEF Next, Progress

\* The checkpoint follows the token in every behaviour.
THEOREM PauseDiscipline == Spec => []PauseInv
  <1>1. Init => PauseInv
    BY RunAssumption DEF Init, PauseInv, ParksItsRun, OutcomeIsOwn, PendingIsPause, DecidedIsPause,
       PendingIsDecidable, Activities
  <1>2. TypeOK /\ TokenInv /\ PauseInv /\ [Next]_vars => PauseInv'
    <2> SUFFICES ASSUME TypeOK, TokenInv, PauseInv, [Next]_vars PROVE PauseInv'
      OBVIOUS
    <2>1. ParksItsRun'
      BY ParksStep DEF TokenInv, PauseInv
    <2>2. ASSUME Safe' PROVE OutcomeIsOwn' /\ PendingIsPause' /\ DecidedIsPause'
      <3>1. Safe
        BY <2>2, EnvStep DEF Safe
      <3> QED BY <3>1, PauseStep DEF TokenInv, PauseInv
    <2>3. PendingIsDecidable'
      BY EnvStep, DecidableStep DEF PendingIsDecidable
    <2> QED BY <2>1, <2>2, <2>3 DEF PauseInv
  <1> QED BY <1>1, <1>2, TokenDiscipline, PTL DEF Spec

\* While processes may crash and statements may fail, Command(resume=...) always
\* meets the interrupt that the decided request was raised for, though resume
\* carries no interrupt id.
THEOREM OwnPauseResumed == Spec => ResumesItsOwnPause
  <1>1. TypeOK /\ TokenInv /\ PauseInv /\ [Next]_vars =>
          [env \subseteq {"crash", "store"} =>
             \A c \in Calls : pc[c] = "resuming" /\ pc'[c] = "graph" =>
                paused[Thread(c)] = [by |-> about[c], count |-> 1]]_vars
    BY DEF PauseInv, Safe, DecidedIsPause, PausedBy, Thread
  <1> QED BY <1>1, TokenDiscipline, PauseDiscipline, PTL DEF Spec, ResumesItsOwnPause

\* Without faults no card of the inbox is orphaned: the run of a pending request
\* waits for it, or the call that raised the request is about to park it.
THEOREM CardsDecidable == Spec => []PendingIsDecidable
  <1>1. PauseInv => PendingIsDecidable
    BY DEF PauseInv
  <1> QED BY <1>1, PauseDiscipline, PTL

-----------------------------------------------------------------------------
(* RunLifecycle implements TurnContract.                                     *)

\* What the contract sees of the rows, the checkpoints and the requests.
OpenTurns == [t \in Threads |-> {r \in Runs : ThreadOf[r] = t /\ Unfinished(r)}]
Drivers == [t \in Threads |-> {x \in Activities : pc[x] = "graph" /\ Thread(x) = t}]
Questions == [t \in Threads |-> IF paused[t].count = 1 THEN {paused[t].by} ELSE {}]
Asked == {a \in Activities : approvals[a].status # "none"}
Deciders == [a \in Activities |-> {approvals[a].by} \ {NoOne}]

\* Each of a thread's sets has at most one member, and a driver has its turn.
ViewInOrder ==
    /\ \A r \in Runs : Unfinished(r) => OpenTurns[ThreadOf[r]] = {r}
    /\ \A t \in Threads : OpenTurns[t] = {} => Drivers[t] = {}
    /\ \A x \in Activities : pc[x] = "graph" => Drivers[Thread(x)] = {x} /\ Thread(x) \in Threads

LEMMA ViewIsInOrder == TypeOK /\ TokenInv /\ Safe => ViewInOrder
  <1> SUFFICES ASSUME TypeOK, TokenInv, Safe PROVE ViewInOrder
    OBVIOUS
  <1>1. \A r \in Runs : Unfinished(r) => OpenTurns[ThreadOf[r]] = {r}
    BY RunAssumption DEF TokenInv, OneUnfinishedPerThread, SameThread, OpenTurns
  <1>2. \A x \in Activities : pc[x] = "graph" =>
            /\ onRun[x] \in Runs /\ Unfinished(onRun[x]) /\ Thread(x) \in Threads
            /\ \A y \in Activities : pc[y] = "graph" /\ Thread(x) = Thread(y) => x = y
    BY RunAssumption, DriverAlone DEF Thread
  <1>3. \A t \in Threads : OpenTurns[t] = {} => Drivers[t] = {}
    BY <1>2 DEF OpenTurns, Drivers, Thread
  <1>4. \A x \in Activities : pc[x] = "graph" => Drivers[Thread(x)] = {x} /\ Thread(x) \in Threads
    BY <1>2 DEF Drivers
  <1> QED BY <1>1, <1>3, <1>4 DEF ViewInOrder

\* A call that moves outside the graph leaves the drivers alone.
LEMMA DriversSame ==
    ASSUME TypeOK, NEW x \in Activities, NEW step \in Steps, Goto(x, step), UNCHANGED onRun,
           pc[x] # "graph", step # "graph"
    PROVE  Drivers' = Drivers
  <1>1. \A y \in Activities : pc'[y] = "graph" <=> pc[y] = "graph"
    BY DEF TypeOK, Goto
  <1> QED BY <1>1 DEF Drivers, Thread

\* Rows that stay finished or unfinished leave the open turns alone.
LEMMA OpenSame ==
    ASSUME \A r \in Runs : Unfinished(r)' <=> Unfinished(r)
    PROVE  OpenTurns' = OpenTurns
  BY DEF OpenTurns

\* One row becomes unfinished where the index allows it.
LEMMA TurnOpens ==
    ASSUME ViewInOrder, NEW r \in Runs, ~Unfinished(r), Unfinished(r)', IndexAllows(r),
           \A q \in Runs \ {r} : runs'[q] = runs[q], Drivers' = Drivers,
           UNCHANGED <<paused, approvals>>
    PROVE  Conversation!Next
  <1>1. ThreadOf[r] \in Threads
    BY RunAssumption
  <1>2. OpenTurns[ThreadOf[r]] = {} /\ Drivers[ThreadOf[r]] = {}
    BY <1>1 DEF OpenTurns, IndexAllows, SameThread, ViewInOrder
  <1>3. OpenTurns' = [OpenTurns EXCEPT ![ThreadOf[r]] = {r}]
    <2>1. \A q \in Runs : Unfinished(q)' <=> q = r \/ Unfinished(q)
      BY DEF Unfinished
    <2>2. \A t \in Threads : OpenTurns'[t] = IF t = ThreadOf[r] THEN {r} ELSE OpenTurns[t]
      BY <1>1, <1>2, <2>1 DEF OpenTurns
    <2> QED BY <2>2 DEF OpenTurns
  <1>4. UNCHANGED <<Questions, Asked, Deciders>>
    BY DEF Questions, Asked, Deciders
  <1>5. Conversation!Open(r)
    BY <1>2, <1>3, <1>4 DEF Conversation!Open, OpenTurns, Drivers, Questions, Asked, Deciders
  <1> QED BY <1>5 DEF Conversation!Next

\* One row is finished; after it nobody drives its thread, so nobody did before.
LEMMA TurnCloses ==
    ASSUME ViewInOrder, ViewInOrder', NEW r \in Runs, Unfinished(r), ~Unfinished(r)',
           \A q \in Runs \ {r} : Unfinished(q)' <=> Unfinished(q), Drivers' = Drivers,
           UNCHANGED <<paused, approvals>>
    PROVE  Conversation!Next
  <1>1. PICK t \in Threads : t = ThreadOf[r]
    BY RunAssumption
  <1>2. OpenTurns[t] = {r}
    BY <1>1 DEF ViewInOrder
  <1>3. OpenTurns' = [OpenTurns EXCEPT ![t] = {}]
    <2>1. \A s \in Threads : OpenTurns'[s] = IF s = t THEN {} ELSE OpenTurns[s]
      BY <1>1, <1>2 DEF OpenTurns
    <2> QED BY <2>1 DEF OpenTurns
  <1>4. Drivers[t] = {}
    <2>1. OpenTurns'[t] = {}
      BY <1>3 DEF OpenTurns
    <2> QED BY <2>1 DEF ViewInOrder
  <1>5. UNCHANGED <<Questions, Asked, Deciders>>
    BY DEF Questions, Asked, Deciders
  <1>6. Conversation!Close(t)
    BY <1>2, <1>3, <1>4, <1>5 DEF Conversation!Close, OpenTurns, Drivers, Questions, Asked, Deciders
  <1> QED BY <1>6 DEF Conversation!Next

\* A driver leaves the graph, with a question of its own or none.
LEMMA DriverLeaves ==
    ASSUME TypeOK, ViewInOrder, NEW x \in Activities, NEW step \in Steps \ {"graph"}, Goto(x, step),
           pc[x] = "graph", UNCHANGED <<runs, approvals, onRun>>,
           Questions' = Questions \/ Questions' = [Questions EXCEPT ![Thread(x)] = {x}]
    PROVE  Conversation!Next
  <1>1. PICK t \in Threads : t = Thread(x)
    BY DEF ViewInOrder
  <1>2. Drivers[t] = {x}
    BY <1>1 DEF ViewInOrder
  <1>3. Drivers' = [Drivers EXCEPT ![t] = {}]
    <2>1. \A y \in Activities : pc'[y] = "graph" <=> y # x /\ pc[y] = "graph"
      BY DEF TypeOK, Goto
    <2>2. \A y \in Activities : Thread(y)' = Thread(y)
      BY DEF Thread
    <2>3. \A s \in Threads : Drivers'[s] = IF s = t THEN {} ELSE Drivers[s]
      BY <1>1, <1>2, <2>1, <2>2 DEF Drivers
    <2> QED BY <2>3 DEF Drivers
  <1>4. UNCHANGED <<OpenTurns, Asked, Deciders>>
    BY DEF OpenTurns, Unfinished, Asked, Deciders
  <1>5. Conversation!Leave(x, t)
    BY <1>1, <1>2, <1>3, <1>4 DEF Conversation!Leave, OpenTurns, Drivers, Questions, Asked, Deciders
  <1> QED BY <1>5 DEF Conversation!Next, Activities

\* A step moves one activity at most, and only EnterGraph moves it into the graph,
\* only decide to a decision and only resume on from there.
LEMMA OneMoves ==
    ASSUME TypeOK, [Next]_vars
    PROVE  \/ UNCHANGED pc
           \/ \E x \in Activities, step \in Steps :
                 /\ Goto(x, step)
                 /\ step = "graph" => EnterGraph(x)
                 /\ step = "decided" => \E o \in {"approved", "rejected"} : Decide(x, o)
                 /\ step = "resuming" => pc[x] = "decided"
  <1> USE DEF Activities
  <1> DEFINE Others == Steps \ {"graph", "decided", "resuming"}
             Moves(x) == \E step \in Steps :
                 /\ Goto(x, step)
                 /\ step = "graph" => EnterGraph(x)
                 /\ step = "decided" => \E o \in {"approved", "rejected"} : Decide(x, o)
                 /\ step = "resuming" => pc[x] = "decided"
  <1>1. \A x \in Activities, step \in Others : Goto(x, step) => Moves(x)
    OBVIOUS
  <1> HIDE DEF Moves
  <1>2. ASSUME NEW r \in Runs,
               Claim(r) \/ WaitingApprovalForThread(r) \/ ReapStaleThread(r) \/ Reinsert(r)
        PROVE  Moves(r)
    BY <1>1, <1>2 DEF Claim, WaitingApprovalForThread, ReapStaleThread, Reinsert, Steps
  <1>3. ASSUME NEW c \in Calls,
               ResumableRun(c) \/ RefuseRun(c) \/ \E a \in Activities : ReadRequest(c, a)
        PROVE  Moves(c)
    BY <1>1, <1>3 DEF ResumableRun, RefuseRun, ReadRequest, Steps
  <1>4. ASSUME NEW c \in Calls, Resume(c) PROVE Moves(c)
    BY <1>1, <1>4 DEF Resume, Steps, Moves
  <1>5. ASSUME NEW c \in Calls, NEW o \in {"approved", "rejected"}, Decide(c, o) PROVE Moves(c)
    <2>1. CASE StillPending(c)
      <3>1. Goto(c, "decided")
        BY <1>5, <2>1 DEF Decide
      <3> QED BY <1>5, <3>1 DEF Steps, Moves
    <2>2. CASE ~StillPending(c)
      BY <1>1, <1>5, <2>2 DEF Decide, Steps
    <2> QED BY <2>1, <2>2
  <1>6. ASSUME NEW x \in Activities, EnterGraph(x) PROVE Moves(x)
    <2>1. Goto(x, "graph")
      BY <1>6 DEF EnterGraph
    <2> QED BY <1>6, <2>1 DEF Steps, Moves
  <1>7. ASSUME NEW x \in Activities,
               GraphRaises(x) \/ SettleStream(x) \/ \E n \in 0..2 : GraphReturns(x, n)
        PROVE  Moves(x)
    BY <1>1, <1>7 DEF GraphReturns, GraphRaises, SettleStream, HandleOutcome, Steps
  <1>8. ASSUME NEW x \in Activities,
               \/ CreateApproval(x) \/ CreateApprovalFails(x) \/ Park(x) \/ Conclude(x)
               \/ Audited(x)
        PROVE  Moves(x)
    BY <1>1, <1>8 DEF CreateApproval, CreateApprovalFails, Park, Conclude, Audited, Raised, Steps
  <1>9. ASSUME NEW x \in Activities, AuditFails(x) \/ StoreFails(x) \/ Cancel(x) \/ Crash(x)
        PROVE  Moves(x)
    BY <1>1, <1>9 DEF AuditFails, StoreFails, Cancel, Crash, Raised, Steps
  <1>10. CASE \E r \in Runs : Age(r)
    BY <1>10 DEF Age
  <1>11. CASE UNCHANGED vars
    BY <1>11 DEF vars
  <1>12. ASSUME NEW x \in Activities, Progress(x) PROVE Moves(x)
    BY <1>2, <1>3, <1>4, <1>5, <1>6, <1>7, <1>8, <1>12 DEF Progress
  <1>13. CASE \E x \in Activities : Moves(x)
    BY <1>13 DEF Moves
  <1>14. CASE \E r \in Runs : Claim(r)
    BY <1>2, <1>13, <1>14
  <1>15. CASE \E c \in Calls, a \in Activities : ReadRequest(c, a)
    BY <1>3, <1>13, <1>15
  <1>16. CASE \E x \in Activities : Progress(x)
    BY <1>12, <1>13, <1>16
  <1>17. CASE \E x \in Activities : AuditFails(x) \/ StoreFails(x) \/ Cancel(x) \/ Crash(x)
    BY <1>9, <1>13, <1>17
  <1> QED BY <1>10, <1>11, <1>14, <1>15, <1>16, <1>17 DEF Next

\* Who drives a graph has taken the question out of its checkpoint, and nobody
\* else on the thread writes one back; a decision stays its decider's.
LEMMA DriveStep == TypeOK /\ TokenInv /\ DriveInv /\ [Next]_vars => DriveInv'
  <1> SUFFICES ASSUME TypeOK, TokenInv, DriveInv, [Next]_vars, Safe PROVE DriveInv'
    BY EnvStep DEF DriveInv, Safe
  <1> USE RunAssumption DEF Activities
  <1>1. ASSUME NEW x \in Activities, pc'[x] = "graph" PROVE paused'[Thread(x)'].count = 0
    <2>1. CASE EnterGraph(x)
      <3>1. Thread(x) \in Threads /\ Thread(x)' = Thread(x)
        BY <2>1 DEF EnterGraph, TokenInv, LocalsInv, Thread
      <3> QED BY <2>1, <3>1 DEF EnterGraph, TypeOK
    <2>2. CASE pc[x] = "graph"
      <3>1. Thread(x) \in Threads /\ paused[Thread(x)].count = 0 /\ onRun[x] \in Runs
        BY <2>2, DriverAlone DEF DriveInv, Thread
      <3>2. onRun'[x] = onRun[x]
        BY <2>2 DEF Next, Progress, vars, Claim, WaitingApprovalForThread, ReapStaleThread,
           Reinsert, Age, ReadRequest, ResumableRun, RefuseRun, Resume, EnterGraph, GraphReturns,
           GraphRaises, SettleStream, CreateApproval, CreateApprovalFails, Park, Conclude, Audited,
           AuditFails, StoreFails, Cancel, Crash, Decide, TypeOK
      <3>3. CASE \E y \in Activities : EnterGraph(y)
        BY <3>1, <3>2, <3>3 DEF EnterGraph, TypeOK, Thread
      <3>4. ASSUME NEW y \in Activities, NEW n \in 0..2, GraphReturns(y, n)
            PROVE  paused'[Thread(x)].count = 0
        <4>1. y # x
          BY <1>1, <3>4 DEF GraphReturns, Goto, HandleOutcome, TypeOK
        <4>2. Thread(y) # Thread(x)
          BY <2>2, <3>4, <4>1, DriverAlone DEF GraphReturns
        <4> QED BY <3>1, <3>4, <4>2 DEF GraphReturns, TypeOK
      <3>5. CASE paused' = paused
        BY <3>1, <3>2, <3>5 DEF Thread
      <3> QED BY <3>2, <3>3, <3>4, <3>5 DEF Next, Progress, vars, Claim, WaitingApprovalForThread,
           ReapStaleThread, Reinsert, Age, ReadRequest, ResumableRun, RefuseRun, Resume,
           GraphRaises, SettleStream, CreateApproval, CreateApprovalFails, Park, Conclude, Audited,
           AuditFails, StoreFails, Cancel, Crash, Decide, Thread
    <2>3. pc[x] = "graph" \/ EnterGraph(x)
      BY <1>1, OneMoves DEF Goto, TypeOK
    <2> QED BY <2>1, <2>2, <2>3
  <1>2. ASSUME NEW c \in Calls, pc'[c] \in {"decided", "resuming"}
        PROVE  approvals'[about'[c]].by = c
    <2>1. CASE \E o \in {"approved", "rejected"} : Decide(c, o)
      BY <1>2, <2>1 DEF Decide, Goto, TypeOK, TokenInv, LocalsInv
    <2>2. CASE pc[c] \in {"decided", "resuming"}
      <3>1. approvals[about[c]].by = c /\ about[c] \in Activities
        BY <2>2 DEF DriveInv, TokenInv, LocalsInv
      <3>2. approvals'[about[c]] = approvals[about[c]]
        BY <3>1, DecidedStays
      <3>3. about'[c] = about[c]
        BY <2>2 DEF Next, Progress, vars, Claim, WaitingApprovalForThread, ReapStaleThread,
           Reinsert, Age, ReadRequest, ResumableRun, RefuseRun, Resume, EnterGraph, GraphReturns,
           GraphRaises, SettleStream, CreateApproval, CreateApprovalFails, Park, Conclude, Audited,
           AuditFails, StoreFails, Cancel, Crash, Decide, TypeOK
      <3> QED BY <3>1, <3>2, <3>3
    <2>3. pc[c] \in {"decided", "resuming"} \/ \E o \in {"approved", "rejected"} : Decide(c, o)
      BY <1>2, OneMoves DEF Goto, TypeOK
    <2> QED BY <2>1, <2>2, <2>3
  <1> QED BY <1>1, <1>2 DEF DriveInv

\* In every behaviour a driver's checkpoint is free of questions, and who goes to
\* resume is the decider of the request it carries.
THEOREM DriveDiscipline == Spec => []DriveInv
  <1>1. Init => DriveInv
    BY RunAssumption DEF Init, DriveInv, Activities
  <1> QED BY <1>1, DriveStep, TokenDiscipline, PTL DEF Spec

\* The turn, or who decided the question it stopped with, enters the graph; after
\* the step it is alone there, so nobody was in before.
LEMMA DriverEnters ==
    ASSUME TypeOK, TokenInv, PauseInv, DriveInv, Safe, ViewInOrder, ViewInOrder',
           NEW x \in Activities, EnterGraph(x)
    PROVE  Conversation!Next
  <1> USE RunAssumption DEF Activities
  <1>1. PICK t \in Threads : t = Thread(x) /\ onRun[x] \in Runs
    BY DEF EnterGraph, TokenInv, LocalsInv, Thread
  <1>2. /\ \A y \in Activities : pc'[y] = "graph" <=> y = x \/ pc[y] = "graph"
        /\ \A y \in Activities : Thread(y)' = Thread(y)
        /\ pc[x] # "graph"
    BY DEF TypeOK, EnterGraph, Goto, Thread
  <1>3. Drivers'[t] = {x}
    BY <1>1, <1>2 DEF ViewInOrder
  <1>4. Drivers[t] = {}
    BY <1>2, <1>3 DEF Drivers
  <1>5. Drivers' = [Drivers EXCEPT ![t] = {x}]
    <2>1. \A s \in Threads : Drivers'[s] = IF s = t THEN {x} ELSE Drivers[s]
      BY <1>1, <1>2, <1>3 DEF Drivers
    <2> QED BY <2>1 DEF Drivers
  <1>6. Questions' = [Questions EXCEPT ![t] = {}]
    <2>1. paused'[t].count = 0 /\ \A s \in Threads \ {t} : paused'[s] = paused[s]
      BY <1>1 DEF EnterGraph, TypeOK
    <2>2. Questions'[t] = {}
      BY <2>1 DEF Questions
    <2>3. \A s \in Threads \ {t} : Questions'[s] = Questions[s]
      BY <2>1 DEF Questions
    <2> QED BY <2>2, <2>3 DEF Questions
  <1>7. UNCHANGED <<OpenTurns, Asked, Deciders>>
    BY DEF EnterGraph, OpenTurns, Unfinished, Asked, Deciders
  <1>8. /\ OpenTurns[t] # {}
        /\ OpenTurns[t] = {x} \/ \E a \in Asked : Questions[t] = {a} /\ Deciders[a] = {x}
    <2>1. CASE x \in Runs
      <3>1. onRun[x] = x /\ Unfinished(x)
        BY <2>1 DEF EnterGraph, TokenInv, LocalsInv, StarterOwns, Deciding, Driving, Unfinished
      <3> QED BY <1>1, <3>1 DEF ViewInOrder, Thread
    <2>2. CASE x \in Calls
      <3>1. pc[x] = "resuming"
        BY <2>2 DEF EnterGraph, TokenInv, LocalsInv, OnlyStarters
      <3>2. PICK a \in Activities : a = about[x] /\ a \in Asked
        BY <2>2, <3>1 DEF TokenInv, LocalsInv, Asked
      <3>3. /\ Unfinished(onRun[x]) /\ paused[t] = [by |-> a, count |-> 1]
            /\ approvals[a].by = x
        BY <1>1, <2>2, <3>1, <3>2 DEF PauseInv, DecidedIsPause, PausedBy, DriveInv, Thread, Unfinished
      <3>4. OpenTurns[t] # {}
        BY <1>1, <3>3 DEF OpenTurns, Thread
      <3>5. Questions[t] = {a} /\ Deciders[a] = {x}
        BY <2>2, <3>3 DEF Questions, Deciders
      <3> QED BY <3>2, <3>4, <3>5
    <2> QED BY <2>1, <2>2
  <1>9. Conversation!Enter(x, t)
    BY <1>4, <1>5, <1>6, <1>7, <1>8
       DEF Conversation!Enter, OpenTurns, Drivers, Questions, Asked, Deciders
  <1> QED BY <1>9 DEF Conversation!Next

\* The question in the checkpoint becomes a request.
LEMMA QuestionRaised ==
    ASSUME TypeOK, TokenInv, PauseInv, Safe, NEW x \in Activities, CreateApproval(x)
    PROVE  Conversation!Next
  <1> USE RunAssumption DEF Activities
  <1>1. PICK t \in Threads : t = Thread(x) /\ paused[t] = [by |-> x, count |-> 1]
    BY DEF CreateApproval, TokenInv, LocalsInv, PauseInv, OutcomeIsOwn, PausedBy, Thread
  <1>2. approvals[x].status = "none" /\ approvals[x].by = NoOne
    BY DEF CreateApproval, TokenInv, ApprovalsInv, Late
  <1>3. /\ approvals'[x].status = "pending" /\ approvals'[x].by = NoOne
        /\ \A a \in Activities \ {x} : approvals'[a] = approvals[a]
    BY DEF CreateApproval, TypeOK
  <1>4. Asked' = Asked \cup {x} /\ x \notin Asked
    BY <1>2, <1>3 DEF Asked
  <1>5. Deciders' = Deciders
    BY <1>2, <1>3 DEF Deciders
  <1>6. Questions[t] = {x} /\ Questions' = Questions
    BY <1>1 DEF Questions, CreateApproval
  <1>7. OpenTurns' = OpenTurns
    BY OpenSame DEF CreateApproval, Unfinished
  <1>8. Drivers' = Drivers
    BY DriversSame DEF CreateApproval, Steps
  <1>9. Conversation!Raise(x, t)
    BY <1>4, <1>5, <1>6, <1>7, <1>8
       DEF Conversation!Raise, OpenTurns, Drivers, Questions, Asked, Deciders
  <1> QED BY <1>9 DEF Conversation!Next

\* A pending request is decided.
LEMMA RequestDecided ==
    ASSUME TypeOK, TokenInv, NEW c \in Calls, NEW o \in {"approved", "rejected"}, Decide(c, o),
           StillPending(c)
    PROVE  Conversation!Next
  <1> USE RunAssumption DEF Activities
  <1>1. PICK a \in Activities : /\ a = about[c] /\ approvals[a].status # "none"
                                /\ approvals[a].by = NoOne
    BY DEF Decide, StillPending, TokenInv, LocalsInv, ApprovalsInv
  <1>2. /\ approvals'[a].status = o /\ approvals'[a].by = c /\ c # NoOne
        /\ \A b \in Activities \ {a} : approvals'[b] = approvals[b]
    BY <1>1 DEF Decide, TypeOK
  <1>3. Asked' = Asked /\ a \in Asked
    BY <1>1, <1>2 DEF Asked
  <1>4. Deciders[a] = {} /\ Deciders' = [Deciders EXCEPT ![a] = {c}]
    <2>1. \A b \in Activities : Deciders'[b] = IF b = a THEN {c} ELSE Deciders[b]
      BY <1>2 DEF Deciders
    <2>2. Deciders[a] = {}
      BY <1>1 DEF Deciders
    <2>3. Deciders' = [Deciders EXCEPT ![a] = {c}]
      BY <2>1 DEF Deciders
    <2> QED BY <2>2, <2>3
  <1>5. Questions' = Questions
    BY DEF Decide, Questions
  <1>6. OpenTurns' = OpenTurns
    BY OpenSame DEF Decide, Unfinished
  <1>7. Drivers' = Drivers
    BY DriversSame DEF Decide, Steps
  <1>8. Conversation!Decide(c, a)
    BY <1>3, <1>4, <1>5, <1>6, <1>7
       DEF Conversation!Decide, OpenTurns, Drivers, Questions, Asked, Deciders
  <1> QED BY <1>8 DEF Conversation!Next

\* A graph that returns with one interrupt leaves its driver's question; with none
\* or several it leaves the checkpoint without one, as it was.
LEMMA GraphLeaves ==
    ASSUME TypeOK, TokenInv, DriveInv, Safe, ViewInOrder,
           NEW x \in Activities, NEW n \in 0..2, GraphReturns(x, n)
    PROVE  Conversation!Next
  <1>1. PICK t \in Threads : t = Thread(x)
    BY DEF GraphReturns, ViewInOrder
  <1>2. paused[t].count = 0
    BY <1>1 DEF DriveInv, GraphReturns
  <1>3. /\ paused'[t].count = n
        /\ n = 1 => paused'[t].by = x
        /\ \A s \in Threads \ {t} : paused'[s] = paused[s]
    BY <1>1 DEF GraphReturns, TypeOK
  <1>4. \A s \in Threads \ {t} : Questions'[s] = Questions[s]
    BY <1>3 DEF Questions
  <1>5. Questions[t] = {} /\ Questions'[t] = IF n = 1 THEN {x} ELSE {}
    BY <1>2, <1>3 DEF Questions
  <1>6. Questions' = Questions \/ Questions' = [Questions EXCEPT ![t] = {x}]
    <2>1. CASE n = 1
      BY <1>4, <1>5, <2>1 DEF Questions
    <2>2. CASE n # 1
      <3>1. \A s \in Threads : Questions'[s] = Questions[s]
        BY <1>4, <1>5, <2>2
      <3> QED BY <3>1 DEF Questions
    <2> QED BY <2>1, <2>2
  <1>7. PICK step \in Steps \ {"graph"} : Goto(x, step)
    BY DEF GraphReturns, HandleOutcome, Steps
  <1> QED BY <1>1, <1>6, <1>7, DriverLeaves DEF GraphReturns

\* A status write by who drives the run closes its turn, opens it again where the
\* index allows, or leaves it as it is.
LEMMA RowWritten ==
    ASSUME TypeOK, ViewInOrder, ViewInOrder', NEW r \in Runs, NEW status, NEW a,
           SetStatus(r, status, a), Drivers' = Drivers, UNCHANGED <<paused, approvals>>,
           status \in Terminal \/ (status = "waiting_approval" /\ IndexAllows(r))
    PROVE  Conversation!Next \/ UNCHANGED <<OpenTurns, Drivers, Questions, Asked, Deciders>>
  <1>1. runs'[r].status = status /\ \A q \in Runs \ {r} : runs'[q] = runs[q]
    BY DEF SetStatus, TypeOK
  <1>2. \A q \in Runs \ {r} : Unfinished(q)' <=> Unfinished(q)
    BY <1>1 DEF Unfinished
  <1>3. Unfinished(r)' <=> status = "waiting_approval"
    BY <1>1 DEF Unfinished, Terminal
  <1>4. CASE Unfinished(r)' /\ ~Unfinished(r)
    BY <1>1, <1>3, <1>4, TurnOpens DEF Terminal
  <1>5. CASE Unfinished(r) /\ ~Unfinished(r)'
    BY <1>2, <1>5, TurnCloses
  <1>6. CASE Unfinished(r)' <=> Unfinished(r)
    <2>1. OpenTurns' = OpenTurns
      BY <1>2, <1>6, OpenSame
    <2> QED BY <2>1 DEF Questions, Asked, Deciders
  <1> QED BY <1>4, <1>5, <1>6

\* Every step of the program is a step of the contract, or one it does not see.
LEMMA StepKeepsTurns ==
    ASSUME TypeOK, TokenInv, PauseInv, DriveInv, [Next]_vars, Safe, ViewInOrder, ViewInOrder'
    PROVE  Conversation!Next \/ UNCHANGED <<OpenTurns, Drivers, Questions, Asked, Deciders>>
  <1> USE RunAssumption DEF Activities
  <1> DEFINE Unseen == UNCHANGED <<OpenTurns, Drivers, Questions, Asked, Deciders>>
             Kept == Conversation!Next \/ Unseen
  <1>1. ASSUME NEW x \in Activities, pc[x] # "graph", NEW step \in Steps \ {"graph"}, Goto(x, step),
               UNCHANGED <<runs, approvals, paused, onRun>>
        PROVE  Unseen
    <2>1. Drivers' = Drivers
      BY <1>1, DriversSame
    <2>2. OpenTurns' = OpenTurns
      BY <1>1, OpenSame DEF Unfinished
    <2> QED BY <1>1, <2>1, <2>2 DEF Questions, Asked, Deciders
  <1>2. ASSUME NEW r \in Runs, pc[r] \in Creating, IndexAllows(r), Insert(r), Goto(r, "started"),
               UNCHANGED <<approvals, paused, onRun>>
        PROVE  Conversation!Next
    <2>1. Drivers' = Drivers
      BY <1>2, DriversSame DEF Creating, Steps
    <2>2. ~Unfinished(r) /\ Unfinished(r)' /\ \A q \in Runs \ {r} : runs'[q] = runs[q]
      BY <1>2 DEF TokenInv, LocalsInv, Insert, Unfinished, TypeOK
    <2> QED BY <1>2, <2>1, <2>2, TurnOpens
  <1>3. ASSUME NEW r \in Runs, Claim(r) \/ Reinsert(r) PROVE Kept
    <2>1. CASE IndexAllows(r)
      BY <1>2, <1>3, <2>1 DEF Claim, Reinsert, Creating
    <2>2. CASE ~IndexAllows(r)
      BY <1>1, <1>3, <2>2 DEF Claim, Reinsert, Steps
    <2> QED BY <2>1, <2>2
  <1>4. ASSUME NEW r \in Runs, Age(r) PROVE Kept
    <2>1. \A q \in Runs : Unfinished(q)' <=> Unfinished(q)
      BY <1>4 DEF Age, Unfinished, TypeOK
    <2>2. OpenTurns' = OpenTurns
      BY <2>1, OpenSame
    <2> QED BY <1>4, <2>2 DEF Age, Drivers, Thread, Questions, Asked, Deciders
  <1>5. ASSUME NEW r \in Runs, WaitingApprovalForThread(r) PROVE Kept
    BY <1>1, <1>5 DEF WaitingApprovalForThread, Steps
  <1>6. ASSUME NEW r \in Runs, ReapStaleThread(r) PROVE Kept
    <2>1. Drivers' = Drivers
      <3>1. PICK step \in Steps \ {"graph"} : Goto(r, step)
        BY <1>6 DEF ReapStaleThread, Steps
      <3> QED BY <1>6, <3>1, DriversSame DEF ReapStaleThread
    <2>2. UNCHANGED <<paused, approvals>>
      BY <1>6 DEF ReapStaleThread
    <2>3. \A q \in Runs : q \notin StaleOn(r) => runs'[q] = runs[q]
      BY <1>6 DEF ReapStaleThread
    <2>4. CASE StaleOn(r) = {}
      <3>1. OpenTurns' = OpenTurns
        BY <2>3, <2>4, OpenSame DEF Unfinished
      <3> QED BY <2>1, <2>2, <3>1 DEF Questions, Asked, Deciders
    <2>5. ASSUME NEW q \in StaleOn(r) PROVE Kept
      <3>1. q \in Runs /\ Unfinished(q) /\ ~Unfinished(q)'
        BY <1>6, <2>5 DEF ReapStaleThread, StaleOn, Unfinished
      <3>2. \A p \in Runs \ {q} : p \notin StaleOn(r)
        BY <2>5, <3>1 DEF StaleOn, TokenInv, OneUnfinishedPerThread, SameThread, Unfinished
      <3>3. \A p \in Runs \ {q} : Unfinished(p)' <=> Unfinished(p)
        BY <2>3, <3>2 DEF Unfinished
      <3> QED BY <2>1, <2>2, <3>1, <3>3, TurnCloses
    <2> QED BY <2>4, <2>5
  <1>7. ASSUME NEW c \in Calls, NEW a \in Activities, ReadRequest(c, a) PROVE Kept
    <2>1. Drivers' = Drivers
      <3>1. \A y \in Activities : /\ pc'[y] = "graph" <=> pc[y] = "graph"
                                  /\ pc[y] = "graph" => onRun'[y] = onRun[y]
        BY <1>7 DEF ReadRequest, Goto, TypeOK
      <3> QED BY <3>1 DEF Drivers, Thread
    <2> QED BY <1>7, <2>1 DEF ReadRequest, OpenTurns, Unfinished, Questions, Asked, Deciders
  <1>8. ASSUME NEW c \in Calls, ResumableRun(c) \/ RefuseRun(c) \/ Resume(c) PROVE Kept
    BY <1>1, <1>8 DEF ResumableRun, RefuseRun, Resume, Steps
  <1>9. ASSUME NEW c \in Calls, NEW o \in {"approved", "rejected"}, Decide(c, o) PROVE Kept
    <2>1. CASE StillPending(c)
      BY <1>9, <2>1, RequestDecided
    <2>2. CASE ~StillPending(c)
      BY <1>1, <1>9, <2>2 DEF Decide, Steps
    <2> QED BY <2>1, <2>2
  <1>10. ASSUME NEW x \in Activities, EnterGraph(x) PROVE Kept
    BY <1>10, DriverEnters
  <1>11. ASSUME NEW x \in Activities, NEW n \in 0..2, GraphReturns(x, n) PROVE Kept
    BY <1>11, GraphLeaves
  <1>12. ASSUME NEW x \in Activities, GraphRaises(x) PROVE Kept
    <2>1. Questions' = Questions
      BY <1>12 DEF GraphRaises, Questions
    <2> QED BY <1>12, <2>1, DriverLeaves DEF GraphRaises, Steps
  <1>13. ASSUME NEW x \in Activities, SettleStream(x) \/ CreateApprovalFails(x) \/ Audited(x)
         PROVE  Kept
    BY <1>1, <1>13 DEF SettleStream, CreateApprovalFails, Audited, HandleOutcome, Steps
  <1>14. ASSUME NEW x \in Activities, CreateApproval(x) PROVE Kept
    BY <1>14, QuestionRaised
  <1>15. ASSUME NEW x \in Activities, Park(x) PROVE Kept
    <2>1. onRun[x] \in Runs
      BY <1>15 DEF Park, TokenInv, LocalsInv
    <2>2. CASE IndexAllows(onRun[x])
      <3>1. Drivers' = Drivers
        BY <1>15, <2>2, DriversSame DEF Park, Steps
      <3> QED BY <1>15, <2>1, <2>2, <3>1, RowWritten DEF Park
    <2>3. CASE ~IndexAllows(onRun[x])
      BY <1>1, <1>15, <2>3 DEF Park, Raised, Steps
    <2> QED BY <2>2, <2>3
  <1>16. ASSUME NEW x \in Activities, Conclude(x) PROVE Kept
    <2>1. onRun[x] \in Runs /\ pc[x] # "graph"
      BY <1>16 DEF Conclude, Verdict, TokenInv, LocalsInv
    <2>2. PICK step \in Steps \ {"graph"} : Goto(x, step)
      BY <1>16 DEF Conclude, Steps
    <2>3. Drivers' = Drivers
      BY <1>16, <2>1, <2>2, DriversSame DEF Conclude
    <2>4. Verdict[pc[x]] \in Terminal
      BY <1>16 DEF Conclude, Verdict, Terminal
    <2> QED BY <1>16, <2>1, <2>3, <2>4, RowWritten DEF Conclude
  <1>17. ASSUME NEW x \in Activities, AuditFails(x) \/ StoreFails(x) \/ Cancel(x) \/ Crash(x)
         PROVE  Kept
    <2>1. StoreFails(x) \/ Crash(x)
      BY <1>17 DEF AuditFails, Cancel, Safe
    <2>2. CASE pc[x] = "graph"
      <3>1. Goto(x, "ended") /\ UNCHANGED <<runs, approvals, paused, onRun>>
        BY <2>1, <2>2 DEF StoreFails, Crash
      <3>2. Questions' = Questions
        BY <3>1 DEF Questions
      <3> QED BY <2>2, <3>1, <3>2, DriverLeaves DEF Steps
    <2>3. CASE pc[x] # "graph"
      BY <1>1, <2>1, <2>3 DEF StoreFails, Crash, Raised, Steps
    <2> QED BY <2>2, <2>3
  <1>18. CASE UNCHANGED vars
    BY <1>18 DEF vars, OpenTurns, Unfinished, Drivers, Thread, Questions, Asked, Deciders
  <1> HIDE DEF Kept
  <1>19. ASSUME NEW x \in Activities, Progress(x) PROVE Kept
    BY <1>3, <1>5, <1>6, <1>8, <1>9, <1>10, <1>11, <1>12, <1>13, <1>14, <1>15, <1>16, <1>19
       DEF Progress
  <1>20. Kept
    BY <1>3, <1>4, <1>7, <1>17, <1>18, <1>19 DEF Next, Kept
  <1> QED BY <1>20 DEF Kept

\* The run store, the runner and the decision flow implement TurnContract: while
\* nothing worse happens than crashes and failing statements, a conversation has
\* one unfinished turn and one driver at a time, a request is about the question
\* its graph stopped with, and the graph is entered again only by its decider.
THEOREM ImplementsTurns == Spec => KeepsTurns
  <1>1. Init => Conversation!Init
    BY RunAssumption DEF Init, Conversation!Init, Unfinished, Activities
  <1>2. [Next]_vars => Safe' = Safe
    BY EnvStep DEF Safe
  <1>3. /\ TypeOK /\ TokenInv /\ PauseInv /\ DriveInv /\ [Next]_vars
        /\ (Safe => ViewInOrder) /\ (Safe => ViewInOrder)'
        => [Safe' = Safe /\ (Safe => Conversation!Next)]_(Conversation!vars)
    <2> SUFFICES ASSUME TypeOK, TokenInv, PauseInv, DriveInv, [Next]_vars,
                        Safe => ViewInOrder, (Safe => ViewInOrder)'
                 PROVE  [Safe' = Safe /\ (Safe => Conversation!Next)]_(Conversation!vars)
      OBVIOUS
    <2>1. UNCHANGED <<OpenTurns, Drivers, Questions, Asked, Deciders>> /\ Safe' = Safe
             => UNCHANGED Conversation!vars
      BY DEF Conversation!vars, OpenTurns, Drivers, Questions, Asked, Deciders, Safe
    <2> QED BY <1>2, <2>1, StepKeepsTurns
  <1>4. TypeOK /\ TokenInv => (Safe => ViewInOrder)
    BY ViewIsInOrder
  <1> QED
    BY <1>1, <1>3, <1>4, TokenDiscipline, PauseDiscipline, DriveDiscipline, PTL
       DEF Spec, KeepsTurns, Conversation!Spec, Safe
=============================================================================

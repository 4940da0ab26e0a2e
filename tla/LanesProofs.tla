----------------------------- MODULE LanesProofs -----------------------------
(* Theorems about two of the worker's lanes, the queue of uploads             *)
(* (IngestJobs) and the passes that export and purge a tenant that leaves     *)
(* (Offboarding).  The two share no variable; each theorem is about one of    *)
(* them, for every value of its constants.                                    *)
EXTENDS IngestJobs, Offboarding, SequenceTheorems, TLAPS

-----------------------------------------------------------------------------
(* IngestJobs: a job is one worker's at a time, and done is final.            *)

LEMMA TypeStep == TypeOK /\ HandsFull /\ [Next]_vars => TypeOK' /\ HandsFull'
  <1> SUFFICES ASSUME TypeOK, HandsFull, [Next]_vars PROVE TypeOK' /\ HandsFull'
    OBVIOUS
  <1> USE JobAssumption DEF TypeOK, HandsFull, Rows, Settled, Goto
  <1>1. ASSUME NEW w \in Workers, NEW j \in Jobs, ClaimNext(w, j) PROVE TypeOK' /\ HandsFull'
    BY <1>1 DEF ClaimNext
  <1>2. ASSUME NEW w \in Workers, Beat(w) PROVE TypeOK' /\ HandsFull'
    BY <1>2 DEF Beat
  <1>3. ASSUME NEW w \in Workers, BeatRaises(w) PROVE TypeOK' /\ HandsFull'
    BY <1>3 DEF BeatRaises, Strikes
  <1>4. ASSUME NEW w \in Workers, Index(w) \/ ProcessRaises(w) \/ Timeout(w)
        PROVE  TypeOK' /\ HandsFull'
    BY <1>4 DEF Index, ProcessRaises, Timeout
  <1>5. ASSUME NEW w \in Workers, MarkDone(w) PROVE TypeOK' /\ HandsFull'
    BY <1>5 DEF MarkDone
  <1>6. ASSUME NEW w \in Workers, Return(w) PROVE TypeOK' /\ HandsFull'
    BY <1>6 DEF Return, Leave
  <1>7. ASSUME NEW w \in Workers, MarkFailed(w) PROVE TypeOK' /\ HandsFull'
    BY <1>7 DEF MarkFailed, Leave
  <1>8. ASSUME NEW w \in Workers, StoreFails(w) PROVE TypeOK' /\ HandsFull'
    BY <1>8 DEF StoreFails, Leave, Strikes
  <1>9. ASSUME NEW w \in Workers, Crash(w) PROVE TypeOK' /\ HandsFull'
    BY <1>9 DEF Crash, Leave, Strikes
  <1>10. ASSUME NEW j \in Jobs, Lapse(j) PROVE TypeOK' /\ HandsFull'
    BY <1>10 DEF Lapse, Strikes
  <1>11. ASSUME NEW j \in Jobs, BecomeDue(j) PROVE TypeOK' /\ HandsFull'
    BY <1>11 DEF BecomeDue
  <1>12. ASSUME NEW j \in Jobs, Enqueue(j) PROVE TypeOK' /\ HandsFull'
    BY <1>12 DEF Enqueue
  <1>13. CASE UNCHANGED vars
    BY <1>13 DEF vars
  <1> QED
    BY <1>1, <1>2, <1>3, <1>4, <1>5, <1>6, <1>7, <1>8, <1>9, <1>10, <1>11, <1>12, <1>13
       DEF Next, Work

\* A worker that changes nothing about rows and moves on keeps the owners in
\* place, if it only leaves, or still owns its row where it goes.
LEMMA MoveStep ==
    ASSUME TypeOK, HandsFull, OwnersOwn, OneWorkerPerJob, NEW w \in Workers, pc[w] # "idle",
           \A v \in Workers \ {w} : /\ pc'[v] = pc[v] /\ job'[v] = job[v]
                                    /\ attempt'[v] = attempt[v]
                                    /\ v \in beating => v \in beating',
           \A j \in Jobs : j # job[w] => jobs'[j] = jobs[j],
           pc'[w] # "idle" => job'[w] = job[w] /\ (Held(w)' \/ DoneBy(w)'),
           env' = env
    PROVE  OwnersOwn' /\ OneWorkerPerJob'
  <1>1. ASSUME NEW v \in Workers, v # w, pc'[v] # "idle" PROVE Held(v)' \/ DoneBy(v)'
    <2>1. job[v] \in Jobs /\ job[v] # job[w]
      BY <1>1 DEF HandsFull, OneWorkerPerJob
    <2>2. jobs'[job'[v]] = jobs[job[v]]
      BY <1>1, <2>1
    <2> QED BY <1>1, <2>2 DEF OwnersOwn, Held, DoneBy
  <1>2. OwnersOwn'
    BY <1>1 DEF OwnersOwn
  <1>3. OneWorkerPerJob'
    BY DEF OneWorkerPerJob
  <1> QED BY <1>2, <1>3

LEMMA LeaseStep ==
    TypeOK /\ HandsFull /\ Calm /\ OwnersOwn /\ OneWorkerPerJob /\ [Next]_vars
      => OwnersOwn' /\ OneWorkerPerJob'
  <1> DEFINE Goal == OwnersOwn' /\ OneWorkerPerJob'
  <1> SUFFICES ASSUME TypeOK, HandsFull, Calm, OwnersOwn, OneWorkerPerJob, [Next]_vars
               PROVE  Goal
    OBVIOUS
  <1> USE JobAssumption DEF TypeOK, Goto
  <1>1. ASSUME NEW w \in Workers, NEW j \in Jobs, ClaimNext(w, j) PROVE Goal
    <2>1. \A v \in Workers : pc[v] # "idle" => job[v] # j
      BY <1>1 DEF ClaimNext, Claimable, OwnersOwn, Held, DoneBy
    <2>2. ASSUME NEW v \in Workers, pc'[v] # "idle" PROVE Held(v)' \/ DoneBy(v)'
      <3>1. CASE v = w
        BY <1>1, <3>1 DEF ClaimNext, Held
      <3>2. CASE v # w
        <4>1. /\ pc'[v] = pc[v] /\ job'[v] = job[v] /\ attempt'[v] = attempt[v]
              /\ v \in beating => v \in beating'
          BY <1>1, <3>2 DEF ClaimNext
        <4>2. jobs'[job[v]] = jobs[job[v]] /\ env' = env
          BY <1>1, <2>1, <2>2, <4>1 DEF ClaimNext, HandsFull
        <4> QED BY <2>2, <4>1, <4>2 DEF OwnersOwn, Held, DoneBy
      <3> QED BY <3>1, <3>2
    <2>3. OneWorkerPerJob'
      BY <1>1, <2>1 DEF ClaimNext, OneWorkerPerJob
    <2> QED BY <2>2, <2>3 DEF OwnersOwn
  <1>2. ASSUME NEW w \in Workers, Beat(w) PROVE Goal
    <2>1. ASSUME NEW v \in Workers, pc[v] # "idle" PROVE Held(v)' \/ DoneBy(v)'
      <3>1. job[v] \in Jobs /\ (Held(v) \/ DoneBy(v)) /\ UNCHANGED <<pc, job, attempt, env>>
        BY <1>2, <2>1 DEF Beat, OwnersOwn, HandsFull
      <3>2. CASE DoneBy(v)
        BY <1>2, <3>1, <3>2 DEF Beat, StillOwns, DoneBy
      <3>3. CASE Held(v)
        <4>1. v \in beating'
          BY <1>2, <3>3 DEF Beat, StillOwns, Held
        <4> QED BY <1>2, <3>1, <3>3, <4>1 DEF Beat, StillOwns, Held
      <3> QED BY <3>1, <3>2, <3>3
    <2> QED BY <1>2, <2>1 DEF Beat, OwnersOwn, OneWorkerPerJob
  <1>3. ASSUME NEW w \in Workers, BeatRaises(w) PROVE Goal
    BY <1>3 DEF BeatRaises, Strikes, Calm
  <1>4. ASSUME NEW w \in Workers, Index(w) \/ ProcessRaises(w) \/ Timeout(w) PROVE Goal
    <2>1. Held(w)' \/ DoneBy(w)'
      BY <1>4 DEF Index, ProcessRaises, Timeout, OwnersOwn, Held, DoneBy
    <2> QED BY <1>4, <2>1, MoveStep DEF Index, ProcessRaises, Timeout
  <1>5. ASSUME NEW w \in Workers, MarkDone(w) PROVE Goal
    <2>1. DoneBy(w)'
      BY <1>5 DEF MarkDone, DoneBy, HandsFull
    <2> QED BY <1>5, <2>1, MoveStep DEF MarkDone
  <1>6. ASSUME NEW w \in Workers, Return(w) \/ MarkFailed(w) \/ Crash(w) PROVE Goal
    BY <1>6, MoveStep DEF Return, MarkFailed, Crash, Leave
  <1>7. ASSUME NEW w \in Workers, StoreFails(w) PROVE Goal
    <2>1. pc'[w] # "idle" => job'[w] = job[w] /\ (Held(w)' \/ DoneBy(w)')
      BY <1>7 DEF StoreFails, Leave, OwnersOwn, Held, DoneBy
    <2> QED BY <1>7, <2>1, MoveStep DEF StoreFails, Leave
  <1>8. ASSUME NEW j \in Jobs, Lapse(j) PROVE Goal
    <2>1. \A w \in Workers : pc[w] # "idle" => job[w] # j
      BY <1>8 DEF Lapse, Strikes, Calm, StillOwns, OwnersOwn, Held, DoneBy
    <2> QED BY <1>8, <2>1 DEF Lapse, HandsFull, OwnersOwn, OneWorkerPerJob, Held, DoneBy
  <1>9. ASSUME NEW j \in Jobs, Enqueue(j) \/ BecomeDue(j) PROVE Goal
    <2>1. \A w \in Workers : pc[w] # "idle" => job[w] # j
      BY <1>9 DEF Enqueue, BecomeDue, OwnersOwn, Held, DoneBy
    <2> QED BY <1>9, <2>1 DEF Enqueue, BecomeDue, HandsFull, OwnersOwn, OneWorkerPerJob, Held, DoneBy
  <1>10. CASE UNCHANGED vars
    BY <1>10 DEF vars, OwnersOwn, OneWorkerPerJob, Held, DoneBy
  <1> QED
    BY <1>1, <1>2, <1>3, <1>4, <1>5, <1>6, <1>7, <1>8, <1>9, <1>10 DEF Next, Work

\* The invariant behind the theorems below.
THEOREM LeasesInOrder == Spec => [](TypeOK /\ LeaseInv)
  <1>1. Init => TypeOK /\ LeaseInv
    BY JobAssumption DEF Init, TypeOK, Rows, Settled, LeaseInv, HandsFull, OwnersOwn,
       OneWorkerPerJob
  <1>2. TypeOK /\ LeaseInv /\ [Next]_vars => TypeOK' /\ LeaseInv'
    <2>1. [Next]_vars => env' = env
      BY DEF Next, Work, vars, ClaimNext, Beat, BeatRaises, Index, ProcessRaises, MarkDone, Return,
         Timeout, MarkFailed, StoreFails, Crash, Enqueue, Lapse, BecomeDue
    <2> QED BY <2>1, TypeStep, LeaseStep DEF LeaseInv, Calm
  <1> QED BY <1>1, <1>2, PTL DEF Spec

\* The variables keep their types.
THEOREM TypeCorrect == Spec => []TypeOK
  BY LeasesInOrder, PTL

\* Two workers are never on one job while heartbeats neither raise nor stall,
\* for any number of workers, crashes, failed settlements and timeouts.
THEOREM WorkExclusive == Spec => []ExclusiveWork
  <1>1. LeaseInv => ExclusiveWork
    BY DEF LeaseInv, Calm, ExclusiveWork
  <1> QED BY <1>1, LeasesInOrder, PTL

\* A job that was marked done stays done: whoever could write its row again has
\* left it.
THEOREM DoneFinal == Spec => DoneIsFinal
  <1> DEFINE Stays == env \subseteq {"crash", "store"} =>
                        \A j \in Jobs : jobs[j].status = "done" => jobs'[j].status = "done"
  <1>1. TypeOK /\ LeaseInv /\ [Next]_vars => [Stays]_vars
    <2> SUFFICES ASSUME TypeOK, LeaseInv, [Next]_vars, env \subseteq {"crash", "store"},
                        NEW j \in Jobs, jobs[j].status = "done"
                 PROVE  jobs'[j].status = "done"
      OBVIOUS
    <2> USE DEF TypeOK
    <2>1. ASSUME NEW w \in Workers, pc[w] # "idle", job[w] = j PROVE pc[w] = "marked"
      BY <2>1 DEF LeaseInv, Calm, OwnersOwn, Held, DoneBy
    <2>2. ASSUME NEW w \in Workers, NEW i \in Jobs, ClaimNext(w, i)
          PROVE  jobs'[j].status = "done"
      BY <2>2 DEF ClaimNext, Claimable
    <2>3. ASSUME NEW w \in Workers, Beat(w) PROVE jobs'[j].status = "done"
      BY <2>3 DEF Beat, StillOwns
    <2>4. ASSUME NEW w \in Workers, MarkDone(w) \/ MarkFailed(w) PROVE jobs'[j].status = "done"
      BY <2>1, <2>4 DEF MarkDone, MarkFailed
    <2>5. ASSUME NEW i \in Jobs, Enqueue(i) \/ Lapse(i) \/ BecomeDue(i) PROVE jobs'[j].status = "done"
      BY <2>5 DEF Enqueue, Lapse, BecomeDue
    <2> QED
      BY <2>2, <2>3, <2>4, <2>5 DEF Next, Work, vars, BeatRaises, Index, ProcessRaises, Return,
         Timeout, StoreFails, Crash
  <1> QED BY <1>1, LeasesInOrder, PTL DEF Spec, DoneIsFinal

-----------------------------------------------------------------------------
(* Offboarding: nothing is purged that no bundle holds.                       *)

\* A step that leaves data and bundles alone and takes one pass on: the parts
\* about passes hold if they hold of that pass.
LEMMA PassMoves ==
    ASSUME LeavingInv, StoredTyped', UNCHANGED <<data, bundles>>, NEW w \in Offboarders,
           \A v \in Offboarders \ {w} : pass'[v] = pass[v],
           \A s \in Exported : pass'[w].at \in HasRead(s) /\ "old" \in data[s] =>
               "old" \in pass'[w].read[s],
           pass'[w].at \in Uploaded => \A s \in Exported : Saved(s),
           \A s \in Purged : pass'[w].at \in Emptied(s) => "old" \notin data[s]
    PROVE  /\ PurgedIsExported' /\ ReadsWhatIsThere' /\ UploadedIsSaved' /\ EmptiedIsGone'
           /\ TrailKept'
  <1>1. PurgedIsExported' /\ TrailKept'
    BY DEF LeavingInv, PurgedIsExported, TrailKept
  <1>2. ReadsWhatIsThere'
    BY DEF LeavingInv, ReadsWhatIsThere
  <1>3. UploadedIsSaved'
    BY DEF LeavingInv, UploadedIsSaved, Saved
  <1>4. EmptiedIsGone'
    BY DEF LeavingInv, EmptiedIsGone
  <1> QED BY <1>1, <1>2, <1>3, <1>4

\* A step that touches no pass, no bundle and no data.
LEMMA OperatorMoves ==
    ASSUME LeavingInv, StoredTyped', UNCHANGED <<data, bundles, pass>>, ClosedMeansGone'
    PROVE  LeavingInv'
  BY DEF LeavingInv, PurgedIsExported, ReadsWhatIsThere, UploadedIsSaved, EmptiedIsGone,
         TrailKept, Saved

\* A function over the requests' places is again a sequence.
LEMMA SamePlaces ==
    ASSUME NEW S, NEW s \in Seq(S), NEW f, f = [i \in DOMAIN s |-> f[i]],
           \A i \in DOMAIN s : f[i] \in S
    PROVE  f \in Seq(S) /\ DOMAIN f = DOMAIN s
  <1>1. PICK n \in Nat : DOMAIN s = 1..n
    BY LenProperties
  <1>2. f \in [1..n -> S]
    BY <1>1
  <1>3. f \in UNION {[1..k -> S] : k \in Nat}
    BY <1>2
  <1>4. Seq(S) = UNION {[1..k -> S] : k \in Nat}
    BY SeqDef
  <1> QED BY <1>1, <1>2, <1>3, <1>4

LEMMA FileStep == ASSUME LeavingInv, FileRequest PROVE LeavingInv'
  <1> DEFINE new == [status |-> "requested", key |-> 0, stale |-> FALSE]
  <1>1. requests' = Append(requests, new) /\ UNCHANGED <<tenant, data, bundles, pass>>
    BY DEF FileRequest
  <1>2. StoredTyped'
    <2>1. new \in Request
      BY DEF Request, Terminal
    <2> HIDE DEF new
    <2>2. requests' \in Seq(Request)
      BY <1>1, <2>1 DEF LeavingInv, StoredTyped
    <2> QED BY <1>1, <2>2 DEF LeavingInv, StoredTyped
  <1>3. ASSUME NEW i \in DOMAIN requests', requests'[i].status = "completed"
        PROVE  i \in DOMAIN requests /\ requests[i].status = "completed"
    BY <1>1, <1>3 DEF LeavingInv, StoredTyped
  <1>4. ClosedMeansGone'
    BY <1>1, <1>3 DEF LeavingInv, ClosedMeansGone
  <1> QED BY <1>1, <1>2, <1>4, OperatorMoves

LEMMA OperatorStep ==
    ASSUME LeavingInv,
           SetAside \/ Finalize \/ \E status \in {"active", "locked"} : SetTenantStatus(status)
    PROVE  LeavingInv'
  <1>1. UNCHANGED <<requests, data, bundles, pass>>
    BY DEF SetAside, Finalize, SetTenantStatus
  <1>2. StoredTyped'
    BY <1>1 DEF LeavingInv, StoredTyped
  <1>3. CASE tenant' # "offboarded"
    <2>1. ClosedMeansGone'
      BY <1>1, <1>3 DEF LeavingInv, ClosedMeansGone
    <2> QED BY <1>1, <1>2, <2>1, OperatorMoves
  <1>4. CASE Finalize
    <2>1. requests # <<>> /\ Latest.status = "completed"
      BY <1>4 DEF Finalize
    <2>2. Len(requests) \in DOMAIN requests
      BY <2>1 DEF LeavingInv, StoredTyped
    <2>3. (\A s \in Purged : "old" \notin data[s]) /\ {"old", "purged"} \subseteq data["audit"]
      BY <2>1, <2>2 DEF LeavingInv, ClosedMeansGone, Latest
    <2>4. ClosedMeansGone'
      BY <1>1, <2>3 DEF ClosedMeansGone
    <2> QED BY <1>1, <1>2, <2>4, OperatorMoves
  <1> QED BY <1>3, <1>4 DEF SetAside, SetTenantStatus

LEMMA LateStep ==
    ASSUME LeavingInv, NEW s \in Stores, LateWrite(s) PROVE LeavingInv'
  <1>1. data' = [data EXCEPT ![s] = @ \cup {"late"}]
        /\ UNCHANGED <<tenant, requests, bundles, pass>>
    BY DEF LateWrite
  <1>2. data[s] \cup {"late"} \in SUBSET Content
    BY DEF LeavingInv, StoredTyped, Content
  <1>3. StoredTyped'
    BY <1>1, <1>2 DEF LeavingInv, StoredTyped
  <1>4. \A t \in Stores : /\ "old" \in data'[t] <=> "old" \in data[t]
                         /\ "purged" \in data'[t] <=> "purged" \in data[t]
    BY <1>1 DEF LeavingInv, StoredTyped
  <1>5. Exported \subseteq Stores /\ Purged \subseteq Stores /\ {"audit", "rows"} \subseteq Stores
    BY DEF Stores, Exported
  <1>6. ClosedMeansGone' /\ TrailKept'
    BY <1>1, <1>4, <1>5 DEF LeavingInv, ClosedMeansGone, TrailKept
  <1>7. PurgedIsExported' /\ ReadsWhatIsThere' /\ UploadedIsSaved' /\ EmptiedIsGone'
    BY <1>1, <1>4, <1>5
       DEF LeavingInv, PurgedIsExported, ReadsWhatIsThere, UploadedIsSaved, EmptiedIsGone, Saved
  <1> QED BY <1>3, <1>6, <1>7 DEF LeavingInv

LEMMA StaleStep ==
    ASSUME LeavingInv, NEW i \in DOMAIN requests, GoesStale(i) PROVE LeavingInv'
  <1>1. requests' = [requests EXCEPT ![i].stale = TRUE]
        /\ UNCHANGED <<tenant, data, bundles, pass>>
    BY DEF GoesStale
  <1>2. \A j \in DOMAIN requests : requests[j] \in Request
    BY DEF LeavingInv, StoredTyped
  <1>3. \A j \in DOMAIN requests : requests'[j] \in Request
                                   /\ requests'[j].status = requests[j].status
    BY <1>1, <1>2 DEF Request
  <1>4. requests' = [j \in DOMAIN requests |-> requests'[j]]
    BY <1>1
  <1>5. requests' \in Seq(Request) /\ DOMAIN requests' = DOMAIN requests
    BY <1>3, <1>4, SamePlaces DEF LeavingInv, StoredTyped
  <1>6. StoredTyped'
    BY <1>1, <1>5 DEF LeavingInv, StoredTyped
  <1>7. ClosedMeansGone'
    BY <1>1, <1>3, <1>5 DEF LeavingInv, ClosedMeansGone
  <1> QED BY <1>1, <1>6, <1>7, OperatorMoves

LEMMA ClaimStep == ASSUME LeavingInv, NEW w \in Offboarders, Claim(w) PROVE LeavingInv'
  <1> DEFINE taken == [i \in DOMAIN requests |->
                         IF i \in ClaimableRequests
                         THEN [requests[i] EXCEPT !.status = "exporting", !.stale = FALSE]
                         ELSE requests[i]]
             fresh == [at |-> "rows", read |-> Nothing, key |-> 0]
  <1>1. requests' = taken /\ pass' = [pass EXCEPT ![w] = fresh]
        /\ UNCHANGED <<tenant, data, bundles>>
    BY DEF Claim
  <1>2. ASSUME NEW i \in DOMAIN requests
        PROVE  /\ taken[i] \in Request
               /\ taken[i].status = "completed" => requests[i].status = "completed"
    <2>1. requests[i] \in Request
      BY DEF LeavingInv, StoredTyped
    <2>2. CASE i \in ClaimableRequests
      <3>1. taken[i] = [requests[i] EXCEPT !.status = "exporting", !.stale = FALSE]
        BY <2>2
      <3> QED BY <2>1, <3>1 DEF Request
    <2>3. CASE i \notin ClaimableRequests
      BY <2>1, <2>3
    <2> QED BY <2>2, <2>3
  <1> HIDE DEF taken
  <1>3. taken = [i \in DOMAIN requests |-> taken[i]]
    BY DEF taken
  <1>4. requests' \in Seq(Request) /\ DOMAIN requests' = DOMAIN requests
    BY <1>1, <1>2, <1>3, SamePlaces DEF LeavingInv, StoredTyped
  <1>5. fresh \in [at: Steps, read: [Exported -> SUBSET Content], key: Nat]
    BY DEF Steps, Nothing
  <1>6. StoredTyped'
    BY <1>1, <1>4, <1>5 DEF LeavingInv, StoredTyped
  <1>7. ClosedMeansGone'
    BY <1>1, <1>2, <1>4 DEF LeavingInv, ClosedMeansGone
  <1>8. pass'[w].at = "rows" /\ \A v \in Offboarders \ {w} : pass'[v] = pass[v]
    BY <1>1 DEF LeavingInv, StoredTyped
  <1>9. PurgedIsExported' /\ ReadsWhatIsThere' /\ UploadedIsSaved' /\ EmptiedIsGone' /\ TrailKept'
    BY <1>1, <1>6, <1>8, PassMoves DEF HasRead, Uploaded, Emptied, Exported, Purged
  <1> QED BY <1>6, <1>7, <1>9 DEF LeavingInv

\* A store is read: what was there is in hand from now on.
LEMMA ReadStep ==
    ASSUME LeavingInv, NEW w \in Offboarders, NEW at, NEW S \in SUBSET Exported,
           NEW next \in Steps, Read(w, at, S, next),
           next \notin Uploaded, \A t \in Purged : next \notin Emptied(t),
           \A t \in Exported \ S : next \in HasRead(t) => pass[w].at \in HasRead(t)
    PROVE  LeavingInv'
  <1> DEFINE reads == [t \in Exported |-> IF t \in S THEN data[t] ELSE pass[w].read[t]]
  <1>1. pass' = [pass EXCEPT ![w].read = reads, ![w].at = next]
        /\ UNCHANGED <<tenant, requests, data, bundles>>
    BY DEF Read
  <1>2. pass[w] \in [at: Steps, read: [Exported -> SUBSET Content], key: Nat]
        /\ \A t \in Exported : data[t] \in SUBSET Content
    BY DEF LeavingInv, StoredTyped, Stores
  <1>3. reads \in [Exported -> SUBSET Content]
    BY <1>2
  <1>4. pass'[w] = [pass[w] EXCEPT !.read = reads, !.at = next]
        /\ \A v \in Offboarders \ {w} : pass'[v] = pass[v]
    BY <1>1, <1>2 DEF LeavingInv, StoredTyped
  <1> HIDE DEF reads
  <1>5. pass'[w].at = next /\ pass'[w].read = reads
    BY <1>2, <1>4
  <1>6. pass' \in [Offboarders -> [at: Steps, read: [Exported -> SUBSET Content], key: Nat]]
    <2>1. pass'[w] \in [at: Steps, read: [Exported -> SUBSET Content], key: Nat]
      BY <1>2, <1>3, <1>4
    <2>2. pass' = [v \in Offboarders |-> pass'[v]]
      BY <1>1 DEF LeavingInv, StoredTyped
    <2> QED BY <1>4, <2>1, <2>2 DEF LeavingInv, StoredTyped
  <1>7. StoredTyped'
    BY <1>1, <1>6 DEF LeavingInv, StoredTyped
  <1>8. ClosedMeansGone'
    BY <1>1 DEF LeavingInv, ClosedMeansGone
  <1>9. ASSUME NEW t \in Exported, next \in HasRead(t), "old" \in data[t]
        PROVE  "old" \in reads[t]
    BY <1>2, <1>9 DEF LeavingInv, ReadsWhatIsThere, reads
  <1>10. PurgedIsExported' /\ ReadsWhatIsThere' /\ UploadedIsSaved' /\ EmptiedIsGone' /\ TrailKept'
    BY <1>1, <1>4, <1>5, <1>7, <1>9, PassMoves
  <1> QED BY <1>7, <1>8, <1>10 DEF LeavingInv

\* A bundle more: everything the pass found is saved, and what it did not find
\* was saved before.
LEMMA UploadStep == ASSUME LeavingInv, NEW w \in Offboarders, Upload(w) PROVE LeavingInv'
  <1>1. /\ pass[w].at = "upload" /\ bundles' = Append(bundles, pass[w].read)
        /\ pass' = [pass EXCEPT ![w].at = "exporting", ![w].key = Len(bundles) + 1]
        /\ UNCHANGED <<tenant, requests, data>>
    BY DEF Upload
  <1>2. /\ bundles \in Seq([Exported -> SUBSET Content]) /\ Len(bundles) + 1 \in Nat
        /\ pass[w].read \in [Exported -> SUBSET Content]
    BY DEF LeavingInv, StoredTyped
  <1>3. /\ bundles' \in Seq([Exported -> SUBSET Content])
        /\ Len(bundles) + 1 \in DOMAIN bundles'
        /\ bundles'[Len(bundles) + 1] = pass[w].read
        /\ \A i \in DOMAIN bundles : i \in DOMAIN bundles' /\ bundles'[i] = bundles[i]
    BY <1>1, <1>2
  <1>4. \A s \in Exported : Saved(s) => Saved(s)'
    BY <1>3 DEF Saved
  <1>5. \A s \in Exported : Saved(s)'
    <2> TAKE s \in Exported
    <2>1. CASE "old" \in data[s]
      <3>1. "old" \in pass[w].read[s]
        BY <1>1, <2>1 DEF LeavingInv, ReadsWhatIsThere, HasRead
      <3> QED BY <1>3, <3>1 DEF Saved
    <2>2. CASE "old" \notin data[s]
      BY <1>4, <2>2 DEF LeavingInv, PurgedIsExported, Saved
    <2> QED BY <2>1, <2>2
  <1>6. /\ pass'[w].at = "exporting" /\ pass'[w].read = pass[w].read
        /\ \A v \in Offboarders \ {w} : pass'[v] = pass[v]
    BY <1>1 DEF LeavingInv, StoredTyped
  <1>7. StoredTyped'
    <2>1. pass' \in [Offboarders -> [at: Steps, read: [Exported -> SUBSET Content],
                                 key: Nat]]
      BY <1>1, <1>2 DEF LeavingInv, StoredTyped, Steps
    <2> QED BY <1>1, <1>3, <2>1 DEF LeavingInv, StoredTyped
  <1>8. PurgedIsExported' /\ UploadedIsSaved'
    BY <1>5 DEF PurgedIsExported, UploadedIsSaved, Saved
  <1>9. ClosedMeansGone'
    BY <1>1 DEF LeavingInv, ClosedMeansGone
  <1>10. ReadsWhatIsThere'
    <2> SUFFICES ASSUME NEW v \in Offboarders, NEW s \in Exported, pass'[v].at \in HasRead(s),
                        "old" \in data[s]
                 PROVE  "old" \in pass'[v].read[s]
      BY <1>1 DEF ReadsWhatIsThere
    <2>1. CASE v = w
      BY <1>1, <1>6, <2>1 DEF LeavingInv, ReadsWhatIsThere, HasRead
    <2>2. CASE v # w
      BY <1>6, <2>2 DEF LeavingInv, ReadsWhatIsThere
    <2> QED BY <2>1, <2>2
  <1>11. EmptiedIsGone'
    <2>1. \A s \in Purged : "exporting" \notin Emptied(s)
      BY DEF Emptied, Purged
    <2> QED BY <1>1, <1>6, <2>1 DEF LeavingInv, EmptiedIsGone
  <1>12. TrailKept'
    BY <1>1 DEF LeavingInv, TrailKept
  <1> QED BY <1>7, <1>8, <1>9, <1>10, <1>11, <1>12 DEF LeavingInv

\* A pass goes from one step to another and touches nothing but its place.
LEMMA GoesTo ==
    ASSUME LeavingInv, NEW w \in Offboarders, NEW at \in Steps,
           pass' = [pass EXCEPT ![w].at = at]
    PROVE  /\ pass' \in [Offboarders -> [at: Steps, read: [Exported -> SUBSET Content],
                                     key: Nat]]
           /\ pass'[w].at = at /\ pass'[w].read = pass[w].read
           /\ \A v \in Offboarders \ {w} : pass'[v] = pass[v]
  BY DEF LeavingInv, StoredTyped

\* A pass is given up, by an exception or with its process.
LEMMA GiveUpStep ==
    ASSUME LeavingInv, NEW w \in Offboarders, StepFails(w) \/ Abandon(w) PROVE LeavingInv'
  <1>1. PICK at \in {"failing", "idle"} : pass' = [pass EXCEPT ![w].at = at]
    BY DEF StepFails, Abandon
  <1>2. UNCHANGED <<tenant, requests, data, bundles>>
    BY DEF StepFails, Abandon
  <1>3. at \in Steps
    BY DEF Steps
  <1>4. StoredTyped'
    BY <1>1, <1>2, <1>3, GoesTo DEF LeavingInv, StoredTyped
  <1>5. ClosedMeansGone'
    BY <1>2 DEF LeavingInv, ClosedMeansGone
  <1>6. /\ at \notin Uploaded /\ \A s \in Exported : at \notin HasRead(s)
        /\ \A s \in Purged : at \notin Emptied(s)
    BY DEF Uploaded, HasRead, Emptied, Purged, Exported
  <1>7. PurgedIsExported' /\ ReadsWhatIsThere' /\ UploadedIsSaved' /\ EmptiedIsGone' /\ TrailKept'
    <2>1. pass'[w].at = at /\ \A v \in Offboarders \ {w} : pass'[v] = pass[v]
      BY <1>1, <1>3, GoesTo
    <2> QED BY <1>2, <1>4, <1>6, <2>1, PassMoves
  <1> QED BY <1>4, <1>5, <1>7 DEF LeavingInv

\* A report, if it is not refused, is written to every request of the tenant.
LEMMA ReportStep ==
    ASSUME LeavingInv, NEW w \in Offboarders, NEW at \in Steps, NEW next \in Steps,
           NEW status \in {"exporting", "purging"} \cup Terminal, Report(w, at, status, next),
           next \in Uploaded => at \in Uploaded,
           \A s \in Exported : next \in HasRead(s) => at \in HasRead(s),
           \A s \in Purged : next \in Emptied(s) => at \in Emptied(s),
           status = "completed" => \A s \in Purged : at \in Emptied(s)
    PROVE  LeavingInv'
  <1>1. pass[w].at = at /\ UNCHANGED <<tenant, data, bundles>>
    BY DEF Report
  <1>2. PICK to \in {"failing", next} : pass' = [pass EXCEPT ![w].at = to]
    BY DEF Report
  <1>3. to \in Steps
    BY DEF Steps
  <1>4. requests' \in Seq(Request)
        /\ \A i \in DOMAIN requests' : requests'[i].status = "completed" =>
              \/ status = "completed"
              \/ i \in DOMAIN requests /\ requests[i].status = "completed"
    <2>1. CASE UNCHANGED requests
      BY <2>1 DEF LeavingInv, StoredTyped
    <2>2. CASE MarkStatus(status, pass[w].key)
      <3> DEFINE marked(i) == [status |-> status,
                               key |-> IF pass[w].key = 0 THEN requests[i].key ELSE pass[w].key,
                               stale |-> FALSE]
      <3>1. requests' = [i \in DOMAIN requests |-> marked(i)]
        BY <2>2 DEF MarkStatus
      <3>2. \A i \in DOMAIN requests : marked(i) \in Request /\ marked(i).status = status
        <4> TAKE i \in DOMAIN requests
        <4>1. requests[i] \in Request /\ pass[w].key \in Nat
          BY DEF LeavingInv, StoredTyped
        <4>2. (IF pass[w].key = 0 THEN requests[i].key ELSE pass[w].key) \in Nat
          BY <4>1 DEF Request
        <4> QED BY <4>2 DEF Request
      <3> HIDE DEF marked
      <3>3. requests' = [i \in DOMAIN requests |-> requests'[i]]
            /\ \A i \in DOMAIN requests : requests'[i] = marked(i)
        BY <3>1
      <3>4. requests' \in Seq(Request) /\ DOMAIN requests' = DOMAIN requests
        BY <3>2, <3>3, SamePlaces DEF LeavingInv, StoredTyped
      <3> QED BY <3>2, <3>3, <3>4
    <2> QED BY <2>1, <2>2 DEF Report
  <1>5. StoredTyped'
    BY <1>1, <1>2, <1>3, <1>4, GoesTo DEF LeavingInv, StoredTyped
  <1>6. status = "completed" =>
            (\A s \in Purged : "old" \notin data[s]) /\ {"old", "purged"} \subseteq data["audit"]
    BY <1>1 DEF LeavingInv, EmptiedIsGone, TrailKept, Purged
  <1>7. ClosedMeansGone'
    BY <1>1, <1>4, <1>6 DEF LeavingInv, ClosedMeansGone
  <1>8. /\ to \in Uploaded => at \in Uploaded
        /\ \A s \in Exported : to \in HasRead(s) => at \in HasRead(s)
        /\ \A s \in Purged : to \in Emptied(s) => at \in Emptied(s)
    BY DEF Uploaded, HasRead, Emptied, Purged, Exported
  <1>9. PurgedIsExported' /\ ReadsWhatIsThere' /\ UploadedIsSaved' /\ EmptiedIsGone' /\ TrailKept'
    <2>1. /\ pass'[w].at = to /\ pass'[w].read = pass[w].read
          /\ \A v \in Offboarders \ {w} : pass'[v] = pass[v]
      BY <1>2, <1>3, GoesTo
    <2>2. /\ \A s \in Exported : to \in HasRead(s) /\ "old" \in data[s] =>
                "old" \in pass[w].read[s]
          /\ to \in Uploaded => \A s \in Exported : Saved(s)
          /\ \A s \in Purged : to \in Emptied(s) => "old" \notin data[s]
      BY <1>1, <1>8 DEF LeavingInv, ReadsWhatIsThere, UploadedIsSaved, EmptiedIsGone
    <2> QED BY <1>1, <1>5, <2>1, <2>2, PassMoves
  <1> QED BY <1>5, <1>7, <1>9 DEF LeavingInv

\* A store is purged of what the tenant had, by a pass that has uploaded.
LEMMA PurgeStep ==
    ASSUME LeavingInv, NEW w \in Offboarders, NEW s \in Purged, NEW next \in Uploaded,
           data' \in [Stores -> SUBSET Content], "old" \notin data'[s], TrailKept',
           data["audit"] \subseteq data'["audit"],
           \A t \in Purged \ {s} : data'[t] = data[t], pass[w].at \in Uploaded,
           pass' = [pass EXCEPT ![w].at = next], UNCHANGED <<tenant, requests, bundles>>,
           \A t \in Purged \ {s} : next \in Emptied(t) => pass[w].at \in Emptied(t)
    PROVE  LeavingInv'
  <1>1. next \in Steps
    BY DEF Uploaded, Steps
  <1>2. \A t \in Stores : "old" \in data'[t] => "old" \in data[t]
    BY DEF LeavingInv, TrailKept, Stores, Exported, Purged
  <1>3. StoredTyped'
    BY <1>1, <1>2, GoesTo DEF LeavingInv, StoredTyped
  <1>4. \A t \in Exported : Saved(t) /\ Saved(t)'
    BY DEF LeavingInv, UploadedIsSaved, Saved
  <1>5. PurgedIsExported' /\ UploadedIsSaved'
    BY <1>4 DEF PurgedIsExported, UploadedIsSaved, Saved
  <1>6. ClosedMeansGone'
    BY <1>2 DEF LeavingInv, ClosedMeansGone
  <1>7. Exported \subseteq Stores /\ \A t \in Exported : Uploaded \subseteq HasRead(t)
    BY DEF Stores, HasRead
  <1>8. ReadsWhatIsThere'
    BY <1>1, <1>2, <1>7, GoesTo DEF LeavingInv, ReadsWhatIsThere
  <1>9. EmptiedIsGone'
    BY <1>1, <1>2, GoesTo DEF LeavingInv, EmptiedIsGone
  <1> QED BY <1>3, <1>5, <1>6, <1>8, <1>9 DEF LeavingInv

\* A bucket loses what was exported, which is all the tenant had in it.
LEMMA ObjectsStep ==
    ASSUME LeavingInv, NEW w \in Offboarders, NEW s \in {"artifacts", "attachments"},
           NEW at \in Uploaded, NEW next \in Uploaded, DeleteObjects(w, at, s, next),
           \A t \in Purged \ {s} : next \in Emptied(t) => at \in Emptied(t)
    PROVE  LeavingInv'
  <1>1. /\ pass[w].at = at /\ data' = [data EXCEPT ![s] = data[s] \ pass[w].read[s]]
        /\ pass' = [pass EXCEPT ![w].at = next] /\ UNCHANGED <<tenant, requests, bundles>>
    BY DEF DeleteObjects
  <1>2. s \in Purged /\ s \in Stores /\ "audit" \in Stores /\ "rows" \in Stores /\ s # "audit"
    BY DEF Stores, Exported, Purged
  <1>3. data' \in [Stores -> SUBSET Content] /\ \A t \in Stores \ {s} : data'[t] = data[t]
    BY <1>1, <1>2 DEF LeavingInv, StoredTyped
  <1>4. "old" \notin data'[s]
    <2>1. at \in HasRead(s) /\ s \in Exported
      BY DEF HasRead, Exported
    <2>2. "old" \in data[s] => "old" \in pass[w].read[s]
      BY <1>1, <2>1 DEF LeavingInv, ReadsWhatIsThere
    <2> QED BY <1>1, <1>2, <2>2 DEF LeavingInv, StoredTyped
  <1>5. TrailKept' /\ data["audit"] \subseteq data'["audit"]
    BY <1>2, <1>3 DEF LeavingInv, TrailKept
  <1> QED BY <1>1, <1>2, <1>3, <1>4, <1>5, PurgeStep DEF Stores

\* The steps of a pass, in the order of `run`.
LEMMA RunStep == ASSUME LeavingInv, NEW w \in Offboarders, Run(w) PROVE LeavingInv'
  <1>1. CASE \/ Read(w, "rows", {"rows", "audit"}, "artifacts")
             \/ Read(w, "artifacts", {"artifacts"}, "attachments")
             \/ Read(w, "attachments", {"attachments"}, "upload")
    <2>1. PICK at \in Exported, S \in SUBSET Exported,
               next \in {"artifacts", "attachments", "upload"} :
              /\ Read(w, at, S, next)
              /\ \A t \in Exported \ S : next \in HasRead(t) => at \in HasRead(t)
      BY <1>1 DEF Exported, HasRead, Uploaded
    <2>2. next \in Steps /\ next \notin Uploaded /\ \A t \in Purged : next \notin Emptied(t)
      BY DEF Steps, Uploaded, Emptied, Purged
    <2>3. pass[w].at = at
      BY <2>1 DEF Read
    <2> QED BY <2>1, <2>2, <2>3, ReadStep
  <1>2. CASE Upload(w)
    BY <1>2, UploadStep
  <1>3. CASE Report(w, "exporting", "exporting", "purging")
    <2>1. /\ {"exporting", "purging"} \subseteq Steps /\ "exporting" \in Uploaded
          /\ \A s \in Exported : "exporting" \in HasRead(s)
          /\ \A s \in Purged : "purging" \notin Emptied(s)
      BY DEF Steps, Uploaded, HasRead, Emptied, Purged, Exported
    <2> QED BY <1>3, <2>1, ReportStep
  <1>4. CASE Report(w, "purging", "purging", "purge")
    <2>1. /\ {"purging", "purge"} \subseteq Steps /\ "purging" \in Uploaded
          /\ \A s \in Exported : "purging" \in HasRead(s)
          /\ \A s \in Purged : "purge" \notin Emptied(s)
      BY DEF Steps, Uploaded, HasRead, Emptied, Purged, Exported
    <2> QED BY <1>4, <2>1, ReportStep
  <1>5. CASE PurgeRows(w)
    <2>1. /\ "rows" \in Purged /\ {"purge", "delete_artifacts"} \subseteq Uploaded
          /\ \A t \in Purged \ {"rows"} : "delete_artifacts" \notin Emptied(t)
      BY DEF Purged, Uploaded, Emptied
    <2> DEFINE trail == IF "old" \in data["rows"] THEN data["audit"] \cup {"purged"}
                        ELSE data["audit"]
    <2>2. /\ pass[w].at = "purge"
          /\ data' = [data EXCEPT !["audit"] = trail, !["rows"] = {}]
          /\ pass' = [pass EXCEPT ![w].at = "delete_artifacts"]
          /\ UNCHANGED <<tenant, requests, bundles>>
      BY <1>5 DEF PurgeRows
    <2>3. {"audit", "rows"} \subseteq Stores /\ trail \in SUBSET Content
          /\ data \in [Stores -> SUBSET Content]
      BY DEF LeavingInv, StoredTyped, Stores, Exported, Purged, Content
    <2>4. data["audit"] \subseteq trail /\ "old" \in trail /\ "purged" \in trail
      BY DEF LeavingInv, TrailKept
    <2> HIDE DEF trail
    <2>5. /\ data' \in [Stores -> SUBSET Content] /\ data'["rows"] = {} /\ data'["audit"] = trail
          /\ \A t \in Stores \ {"audit", "rows"} : data'[t] = data[t]
      BY <2>2, <2>3
    <2>6. TrailKept' /\ "old" \notin data'["rows"] /\ data["audit"] \subseteq data'["audit"]
          /\ \A t \in Purged \ {"rows"} : data'[t] = data[t]
      BY <2>4, <2>5 DEF TrailKept, Stores, Purged
    <2> QED BY <2>1, <2>2, <2>5, <2>6, PurgeStep
  <1>6. CASE DeleteObjects(w, "delete_artifacts", "artifacts", "delete_attachments")
    <2>1. /\ "artifacts" \in Exported
          /\ {"delete_artifacts", "delete_attachments"} \subseteq Uploaded
          /\ \A t \in Purged \ {"artifacts"} :
                "delete_attachments" \in Emptied(t) => "delete_artifacts" \in Emptied(t)
      BY DEF Purged, Exported, Uploaded, Emptied
    <2> QED BY <1>6, <2>1, ObjectsStep
  <1>7. CASE DeleteObjects(w, "delete_attachments", "attachments", "vectors")
    <2>1. /\ "attachments" \in Exported /\ {"delete_attachments", "vectors"} \subseteq Uploaded
          /\ \A t \in Purged \ {"attachments"} :
                "vectors" \in Emptied(t) => "delete_attachments" \in Emptied(t)
      BY DEF Purged, Exported, Uploaded, Emptied
    <2> QED BY <1>7, <2>1, ObjectsStep
  <1>8. CASE DeleteVectors(w)
    <2>1. /\ "vectors" \in Purged /\ {"vectors", "complete"} \subseteq Uploaded
          /\ \A t \in Purged \ {"vectors"} : "complete" \in Emptied(t) => "vectors" \in Emptied(t)
      BY DEF Purged, Uploaded, Emptied
    <2>2. /\ pass[w].at = "vectors" /\ data' = [data EXCEPT !["vectors"] = {}]
          /\ pass' = [pass EXCEPT ![w].at = "complete"]
          /\ UNCHANGED <<tenant, requests, bundles>>
      BY <1>8 DEF DeleteVectors
    <2>3. {"audit", "rows", "vectors"} \subseteq Stores
      BY DEF Stores, Exported, Purged
    <2>4. /\ data' \in [Stores -> SUBSET Content] /\ data'["vectors"] = {}
          /\ \A t \in Stores \ {"vectors"} : data'[t] = data[t]
      BY <2>2, <2>3 DEF LeavingInv, StoredTyped
    <2>5. TrailKept' /\ "old" \notin data'["vectors"] /\ data["audit"] \subseteq data'["audit"]
          /\ \A t \in Purged \ {"vectors"} : data'[t] = data[t]
      BY <2>3, <2>4 DEF LeavingInv, TrailKept, Stores
    <2>6. \A t \in Purged \ {"vectors"} : "complete" \in Emptied(t) => pass[w].at \in Emptied(t)
      BY <2>1, <2>2
    <2> QED BY <2>1, <2>2, <2>4, <2>5, <2>6, PurgeStep
  <1>9. CASE Report(w, "complete", "completed", "idle")
    <2>1. /\ {"complete", "idle"} \subseteq Steps /\ "idle" \notin Uploaded
          /\ \A s \in Exported : "idle" \notin HasRead(s)
          /\ \A s \in Purged : "idle" \notin Emptied(s) /\ "complete" \in Emptied(s)
          /\ "completed" \in Terminal
      BY DEF Steps, Uploaded, HasRead, Emptied, Purged, Exported, Terminal
    <2> QED BY <1>9, <2>1, ReportStep
  <1> QED BY <1>1, <1>2, <1>3, <1>4, <1>5, <1>6, <1>7, <1>8, <1>9 DEF Run

LEMMA FailedStep == ASSUME LeavingInv, NEW w \in Offboarders, ReportFailed(w) PROVE LeavingInv'
  <1>1. /\ {"failing", "idle"} \subseteq Steps /\ "idle" \notin Uploaded
        /\ \A s \in Exported : "idle" \notin HasRead(s)
        /\ \A s \in Purged : "idle" \notin Emptied(s)
        /\ "failed" \in Terminal
    BY DEF Steps, Uploaded, HasRead, Emptied, Purged, Exported, Terminal
  <1> QED BY <1>1, ReportStep DEF ReportFailed

\* The invariant, for any workers, requests and faults.
THEOREM LeavingInvariant == LeavingSpec => []LeavingInv
  <1>1. LeavingInit => LeavingInv
    <2> SUFFICES ASSUME LeavingInit PROVE LeavingInv
      OBVIOUS
    <2>1. StoredTyped
      BY DEF LeavingInit, StoredTyped, Steps, Nothing, Content
    <2>2. PurgedIsExported /\ ClosedMeansGone /\ TrailKept
      BY DEF LeavingInit, PurgedIsExported, ClosedMeansGone, TrailKept, Stores, Exported
    <2>3. /\ "idle" \notin Uploaded /\ \A s \in Exported : "idle" \notin HasRead(s)
          /\ \A s \in Purged : "idle" \notin Emptied(s)
      BY DEF Uploaded, HasRead, Emptied, Purged, Exported
    <2>4. ReadsWhatIsThere /\ UploadedIsSaved /\ EmptiedIsGone
      BY <2>3 DEF LeavingInit, ReadsWhatIsThere, UploadedIsSaved, EmptiedIsGone
    <2> QED BY <2>1, <2>2, <2>4 DEF LeavingInv
  <1>2. LeavingInv /\ [LeavingNext]_leavingVars => LeavingInv'
    <2> SUFFICES ASSUME LeavingInv, [LeavingNext]_leavingVars PROVE LeavingInv'
      OBVIOUS
    <2>1. CASE UNCHANGED leavingVars
      BY <2>1 DEF leavingVars, LeavingInv, StoredTyped, PurgedIsExported, ClosedMeansGone,
                  ReadsWhatIsThere, UploadedIsSaved, EmptiedIsGone, TrailKept, Saved
    <2> QED
      BY <2>1, FileStep, OperatorStep, LateStep, StaleStep, ClaimStep, RunStep, FailedStep,
         GiveUpStep DEF LeavingNext, Consume
  <1> QED BY <1>1, <1>2, PTL DEF LeavingSpec

\* What a purge removes of what the tenant had is in a bundle, whichever pass
\* died and however many work on the tenant (TenantOffboardingLane.run).
THEOREM PurgesExported == LeavingSpec => []PurgedIsExported
  <1>1. LeavingInv => PurgedIsExported
    BY DEF LeavingInv
  <1> QED BY <1>1, LeavingInvariant, PTL

\* A request is completed, and the tenant closed, only when every store but the
\* audit trail is empty of what the tenant had, and the trail is whole and holds
\* the record of the purge (purge_rows, mark_status, finalize_offboarding).
THEOREM ClosesGone == LeavingSpec => []ClosedMeansGone
  <1>1. LeavingInv => ClosedMeansGone
    BY DEF LeavingInv
  <1> QED BY <1>1, LeavingInvariant, PTL
=============================================================================

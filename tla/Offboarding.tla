----------------------------- MODULE Offboarding -----------------------------
(***************************************************************************)
(* A tenant leaves: an operator files a request and sets the tenant aside  *)
(* (application/provisioning.py, provisioning_repo.py), a worker exports   *)
(* everything the tenant has, then purges it store by store, and reports   *)
(* back (consumers/offboarding.py, persistence/offboarding.py); the        *)
(* operator closes the tenant once the worker says it is done.             *)
(*                                                                         *)
(* Each step of a pass is a transaction or a call of its own: the process  *)
(* may die, or the call raise, between any two.  A request untouched for   *)
(* half an hour may be claimed again, whether its worker is dead or only   *)
(* slow.  Every report goes to all requests the tenant ever filed.         *)
(*                                                                         *)
(* A store holds "old" data, there before the first request, and perhaps   *)
(* "late" data written by whoever was still at work afterwards.  The audit *)
(* trail is exported and never purged: the application may not delete from *)
(* it, and the purge adds its own record there.  The tenant is one of      *)
(* many; the others meet it in no shared state.                            *)
(*                                                                         *)
(* Operators marked Mutant are wrong versions of the definition they       *)
(* precede; no specification uses them.                                    *)
(***************************************************************************)
EXTENDS Naturals, Sequences, FiniteSets

CONSTANTS
    Offboarders,  \* processes that run the offboarding lane
    MaxRequests,  \* bound on the requests filed
    MaxSetbacks   \* bound on crashes, failed calls, slow passes and late writes

VARIABLES
    tenant,    \* platform.tenants.status
    filing,    \* an operator has filed a request and not set the status yet
    requests,  \* platform.tenant_offboarding_requests, in order of filing
    data,      \* what each store holds of the tenant
    bundles,   \* the uploaded bundles; a key is an index, 0 none
    pass,      \* each worker's pass over the tenant
    setbacks   \* how many faults have happened

leavingVars == <<tenant, filing, requests, data, bundles, pass, setbacks>>

\* The tables a tenant's rows may be selected from, and its objects.
Exported == {"rows", "audit", "artifacts", "attachments"}

\* What a pass empties.  Of the tables, those dw_app may delete from: all but
\* the audit trail.  Vectors are derived data: purged, never exported.
Purged == {"rows", "artifacts", "attachments", "vectors"}

Stores == Exported \cup Purged

Content == {"old", "late", "purged"}

Steps == {"idle", "rows", "artifacts", "attachments", "upload", "exporting", "purging",
          "purge", "delete_artifacts", "delete_attachments", "vectors", "complete", "failing"}

Terminal == {"completed", "failed"}

Request == [status: {"requested", "exporting", "purging"} \cup Terminal, key: Nat,
            stale: BOOLEAN]

LeavingTypeOK ==
    /\ tenant \in {"active", "locked", "offboarding", "offboarded"}
    /\ filing \in BOOLEAN
    /\ requests \in Seq(Request)
    /\ data \in [Stores -> SUBSET Content]
    /\ bundles \in Seq([Exported -> SUBSET Content])
    /\ pass \in [Offboarders -> [at: Steps, read: [Exported -> SUBSET Content], key: Nat]]
    /\ setbacks \in 0..MaxSetbacks

Nothing == [s \in Exported |-> {}]

\* A tenant with data everywhere.
LeavingInit ==
    /\ tenant = "active"
    /\ filing = FALSE
    /\ requests = <<>>
    /\ data = [s \in Stores |-> {"old"}]
    /\ bundles = <<>>
    /\ pass = [w \in Offboarders |-> [at |-> "idle", read |-> Nothing, key |-> 0]]
    /\ setbacks = 0

SetsBack == setbacks < MaxSetbacks /\ setbacks' = setbacks + 1

-----------------------------------------------------------------------------
(***************************************************************************)
(* The operator's side.                                                    *)
(***************************************************************************)

Unfinished == {i \in DOMAIN requests : requests[i].status \notin Terminal}

\* initiate_offboarding, first transaction: the unique index over unfinished
\* requests refuses a second one before anything else is touched.
FileRequest ==
    /\ ~filing /\ Unfinished = {} /\ Len(requests) < MaxRequests
    /\ requests' = Append(requests, [status |-> "requested", key |-> 0, stale |-> FALSE])
    /\ filing' = TRUE
    /\ UNCHANGED <<tenant, data, bundles, pass, setbacks>>

\* Its second transaction: the tenant is set aside.
SetAside ==
    /\ filing /\ filing' = FALSE
    /\ tenant' = "offboarding"
    /\ UNCHANGED <<requests, data, bundles, pass, setbacks>>

\* set_tenant_status writes whatever the tenant's status is.
SetTenantStatus(status) ==
    /\ tenant # status /\ tenant' = status
    /\ UNCHANGED <<filing, requests, data, bundles, pass, setbacks>>

Latest == requests[Len(requests)]

\* finalize_offboarding reads the latest request.
Finalize ==
    /\ requests # <<>> /\ Latest.status = "completed" /\ tenant # "offboarded"
    /\ tenant' = "offboarded"
    /\ UNCHANGED <<filing, requests, data, bundles, pass, setbacks>>

\* A request that was already past the access check, or a worker lane, writes.
LateWrite(s) ==
    /\ requests # <<>> /\ "late" \notin data[s] /\ SetsBack
    /\ data' = [data EXCEPT ![s] = @ \cup {"late"}]
    /\ UNCHANGED <<tenant, filing, requests, bundles, pass>>

-----------------------------------------------------------------------------
(***************************************************************************)
(* A worker's pass.                                                        *)
(***************************************************************************)

\* Half an hour without a report: sooner or later where nobody works on the
\* request, and a fault where a worker is merely slow.
GoesStale(i) ==
    /\ requests[i].status \in {"exporting", "purging"} /\ ~requests[i].stale
    /\ requests' = [requests EXCEPT ![i].stale = TRUE]
    /\ IF \A w \in Offboarders : pass[w].at = "idle" THEN UNCHANGED setbacks ELSE SetsBack
    /\ UNCHANGED <<tenant, filing, data, bundles, pass>>

\* Mutant: a pass that died is not taken up again.
ClaimableWhenNew == {i \in Unfinished : requests[i].status = "requested"}

\* claim_requested's predicate: new, or in hand for too long.
ClaimableRequests == {i \in Unfinished : requests[i].status = "requested" \/ requests[i].stale}

\* claim_requested: one UPDATE, so one of two workers gets a request.
Claim(w) ==
    /\ pass[w].at = "idle" /\ ClaimableRequests # {}
    /\ requests' = [i \in DOMAIN requests |->
                       IF i \in ClaimableRequests
                       THEN [requests[i] EXCEPT !.status = "exporting", !.stale = FALSE]
                       ELSE requests[i]]
    /\ pass' = [pass EXCEPT ![w] = [at |-> "rows", read |-> Nothing, key |-> 0]]
    /\ UNCHANGED <<tenant, filing, data, bundles, setbacks>>

\* Mutant: the attachments are listed under the other bucket's prefix.
ReadWrongPrefix(w, at, stores, next) ==
    /\ pass[w].at = at
    /\ pass' = [pass EXCEPT ![w].read = [s \in Exported |->
                               IF s \in stores \ {"attachments"} THEN data[s] ELSE @[s]],
                            ![w].at = next]
    /\ UNCHANGED <<tenant, filing, requests, data, bundles, setbacks>>

\* export_rows, the audit trail among them, then the objects of each bucket,
\* listed and fetched.
Read(w, at, stores, next) ==
    /\ pass[w].at = at
    /\ pass' = [pass EXCEPT ![w].read = [s \in Exported |->
                               IF s \in stores THEN data[s] ELSE @[s]],
                            ![w].at = next]
    /\ UNCHANGED <<tenant, filing, requests, data, bundles, setbacks>>

\* Mutant: a failed upload is swallowed.
UploadLost(w) ==
    /\ pass[w].at = "upload"
    /\ bundles' \in {bundles, Append(bundles, pass[w].read)}
    /\ pass' = [pass EXCEPT ![w].at = "exporting", ![w].key = Len(bundles) + 1]
    /\ UNCHANGED <<tenant, filing, requests, data, setbacks>>

\* The bundle goes under a key stamped with the time of the upload.
Upload(w) ==
    /\ pass[w].at = "upload"
    /\ bundles' = Append(bundles, pass[w].read)
    /\ pass' = [pass EXCEPT ![w].at = "exporting", ![w].key = Len(bundles) + 1]
    /\ UNCHANGED <<tenant, filing, requests, data, setbacks>>

\* mark_status: every request of the tenant.  The unique index lets one of
\* them be unfinished; with more the call raises.
Refused(status) == status \notin Terminal /\ Len(requests) > 1

MarkStatus(status, key) ==
    requests' = [i \in DOMAIN requests |->
                    [status |-> status, key |-> IF key = 0 THEN requests[i].key ELSE key,
                     stale |-> FALSE]]

Report(w, at, status, next) ==
    /\ pass[w].at = at
    /\ IF Refused(status)
       THEN /\ pass' = [pass EXCEPT ![w].at = "failing"]
            /\ UNCHANGED requests
       ELSE /\ MarkStatus(status, pass[w].key)
            /\ pass' = [pass EXCEPT ![w].at = next]
    /\ UNCHANGED <<tenant, filing, data, bundles, setbacks>>

\* purge_rows, in one transaction: the purge goes on record, which takes a
\* workspace of the tenant, then every row is deleted that may be.
PurgeRows(w) ==
    /\ pass[w].at = "purge"
    /\ data' = [data EXCEPT !["audit"] = IF "old" \in data["rows"] THEN @ \cup {"purged"} ELSE @,
                            !["rows"] = {}]
    /\ pass' = [pass EXCEPT ![w].at = "delete_artifacts"]
    /\ UNCHANGED <<tenant, filing, requests, bundles, setbacks>>

\* Of a bucket, the objects that were exported.
DeleteObjects(w, at, s, next) ==
    /\ pass[w].at = at
    /\ data' = [data EXCEPT ![s] = @ \ pass[w].read[s]]
    /\ pass' = [pass EXCEPT ![w].at = next]
    /\ UNCHANGED <<tenant, filing, requests, bundles, setbacks>>

\* Knowledge chunks and the memory ranker's points.
DeleteVectors(w) ==
    /\ pass[w].at = "vectors"
    /\ data' = [data EXCEPT !["vectors"] = {}]
    /\ pass' = [pass EXCEPT ![w].at = "complete"]
    /\ UNCHANGED <<tenant, filing, requests, bundles, setbacks>>

\* Any call of the pass raises.
StepFails(w) ==
    /\ pass[w].at \notin {"idle", "failing"} /\ SetsBack
    /\ pass' = [pass EXCEPT ![w].at = "failing"]
    /\ UNCHANGED <<tenant, filing, requests, data, bundles>>

\* The failure is recorded, or that fails too and is only logged.
ReportFailed(w) == Report(w, "failing", "failed", "idle")

\* The process dies, or the failure cannot be recorded.
Abandon(w) ==
    /\ pass[w].at # "idle" /\ SetsBack
    /\ pass' = [pass EXCEPT ![w].at = "idle"]
    /\ UNCHANGED <<tenant, filing, requests, data, bundles>>

\* run: the order of the steps is what makes a purge safe.
Run(w) ==
    \/ Read(w, "rows", {"rows", "audit"}, "artifacts")
    \/ Read(w, "artifacts", {"artifacts"}, "attachments")
    \/ Read(w, "attachments", {"attachments"}, "upload")
    \/ Upload(w)
    \/ Report(w, "exporting", "exporting", "purging")
    \/ Report(w, "purging", "purging", "purge")
    \/ PurgeRows(w)
    \/ DeleteObjects(w, "delete_artifacts", "artifacts", "delete_attachments")
    \/ DeleteObjects(w, "delete_attachments", "attachments", "vectors")
    \/ DeleteVectors(w)
    \/ Report(w, "complete", "completed", "idle")

\* One tick of the lane.
Consume(w) == Claim(w) \/ Run(w) \/ ReportFailed(w)

LeavingNext ==
    \/ FileRequest \/ SetAside \/ Finalize
    \/ \E status \in {"active", "locked"} : SetTenantStatus(status)
    \/ \E s \in Stores : LateWrite(s)
    \/ \E i \in DOMAIN requests : GoesStale(i)
    \/ \E w \in Offboarders : Consume(w) \/ StepFails(w) \/ Abandon(w)

LeavingSpec == LeavingInit /\ [][LeavingNext]_leavingVars

-----------------------------------------------------------------------------
(***************************************************************************)
(* Properties.                                                             *)
(***************************************************************************)

\* Whatever died, failed, was slow or was claimed twice, data the tenant had
\* when it asked to leave is gone from a store only once a bundle holds it.
PurgedIsExported ==
    \A s \in Exported :
        "old" \notin data[s] => \E i \in DOMAIN bundles : "old" \in bundles[i][s]

\* A request is reported complete, and the tenant closed, only when nothing the
\* tenant had when it asked to leave is left but its audit trail, and the trail
\* is whole and holds the record of the purge, however many passes died.
ClosedMeansGone ==
    (tenant = "offboarded" \/ \E i \in DOMAIN requests : requests[i].status = "completed") =>
        /\ \A s \in Purged : "old" \notin data[s]
        /\ {"old", "purged"} \subseteq data["audit"]

\* A filed request is settled: completed, or failed for a person to look at.
RequestSettles ==
    \A i \in 1..MaxRequests :
        (i \in DOMAIN requests /\ requests[i].status \notin Terminal) ~>
            (i \in DOMAIN requests /\ requests[i].status \in Terminal)

\* The claim the comments make of a resumed pass: the bundle a completed
\* request points to is whole.
CompletedBundleIsWhole ==
    \A i \in DOMAIN requests :
        requests[i].status = "completed" =>
            /\ requests[i].key > 0
            /\ \A s \in Exported : "old" \in bundles[requests[i].key][s]

-----------------------------------------------------------------------------
(***************************************************************************)
(* The inductive invariant.                                                *)
(***************************************************************************)

\* What is stored has its type; how many faults there were does not matter.
StoredTyped ==
    /\ requests \in Seq(Request)
    /\ data \in [Stores -> SUBSET Content]
    /\ bundles \in Seq([Exported -> SUBSET Content])
    /\ pass \in [Offboarders -> [at: Steps, read: [Exported -> SUBSET Content], key: Nat]]

Saved(s) == \E i \in DOMAIN bundles : "old" \in bundles[i][s]

\* The steps of a pass after its upload, and those after it has read a store.
Uploaded == {"exporting", "purging", "purge", "delete_artifacts", "delete_attachments",
             "vectors", "complete"}

HasRead(s) ==
    Uploaded \cup {"upload"}
        \cup (CASE s \in {"rows", "audit"} -> {"artifacts", "attachments"}
               [] s = "artifacts"   -> {"attachments"}
               [] s = "attachments" -> {})

\* The steps after a store was emptied.
Emptied(s) ==
    CASE s = "rows"        -> {"delete_artifacts", "delete_attachments", "vectors", "complete"}
      [] s = "artifacts"   -> {"delete_attachments", "vectors", "complete"}
      [] s = "attachments" -> {"vectors", "complete"}
      [] s = "vectors"     -> {"complete"}

\* A pass has read what is there to be purged, or somebody purged it before.
ReadsWhatIsThere ==
    \A w \in Offboarders : \A s \in Exported :
        pass[w].at \in HasRead(s) /\ "old" \in data[s] => "old" \in pass[w].read[s]

\* A pass that has uploaded left everything in some bundle.
UploadedIsSaved ==
    \A w \in Offboarders : pass[w].at \in Uploaded => \A s \in Exported : Saved(s)

\* What a pass has emptied stays empty of what the tenant had.
EmptiedIsGone ==
    \A w \in Offboarders : \A s \in Purged : pass[w].at \in Emptied(s) => "old" \notin data[s]

\* The trail loses nothing, and no row goes without the record of its purge.
TrailKept ==
    "old" \in data["audit"] /\ ("old" \notin data["rows"] => "purged" \in data["audit"])

LeavingInv ==
    /\ StoredTyped /\ PurgedIsExported /\ ClosedMeansGone
    /\ ReadsWhatIsThere /\ UploadedIsSaved /\ EmptiedIsGone /\ TrailKept
=============================================================================

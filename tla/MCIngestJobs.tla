---------------------------- MODULE MCIngestJobs ----------------------------
(* One uploaded file, two workers that compete for it, and renewals that    *)
(* raise.                                                                   *)
EXTENDS IngestJobs

CONSTANTS j1, w1, w2

MissedRenewals == {{"renewal"}}
=============================================================================

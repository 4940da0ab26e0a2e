--------------------------- MODULE MCRunLifecycle ---------------------------
(* Small instances of RunLifecycle for TLC: two turns on one thread (one    *)
(* streamed, one not) and the decide calls that race over their pauses.     *)
EXTENDS RunLifecycle

CONSTANTS r1, r2, c1, c2, t1

OneThread == [r \in Runs |-> t1]
NoFaults == {{}}
TurnFaults == {{}, {"crash", "store"}, FaultKinds}
=============================================================================

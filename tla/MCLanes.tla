------------------------------- MODULE MCLanes -------------------------------
(* The turns of a conversation, the worker's lanes and the access cache: five *)
(* parts of the system that share no variable and that all promise something  *)
(* about the future.  A behaviour picks its part and keeps to it, so the      *)
(* states of this model are the sum of theirs.                                *)
EXTENDS IngestJobs, Offboarding, TLC

CONSTANTS j1, w1, w2, p1, q1, q2, c1, t1, n1, r1, r2, d1, d2, MaxEdits

VARIABLES
    part,
    level, status, cache, dropping, lookups, edits,
    members, active, links, nonces, deliveries, claims, audits, copies, losses, strays, moves,
    runs, approvals, paused, turnPc, onRun, about, seen, turnEnv

JobFaults == {{}, {"crash", "store"}, {"crash", "store", "timeout"}, FaultKinds}

Look == INSTANCE AccessLookup WITH
    People <- {p1}, Requests <- {q1, q2}, Levels <- {"member"}

Del == INSTANCE ChannelDelivery WITH
    People <- {p1}, Chats <- {c1}, Tokens <- {t1}, Notes <- {n1}, Lanes <- {w1, w2},
    None <- NoJob, MaxAttempts <- 2, MaxLosses <- 1, MaxMoves <- 1

\* Two turns on one thread, two calls of decide, no faults.
Turn == INSTANCE RunLifecycle WITH
    Runs <- {r1, r2}, Streamed <- {r1}, Threads <- {t1}, ThreadOf <- [r \in {r1, r2} |-> t1],
    Calls <- {d1, d2}, Environments <- {{}}, NoOne <- NoJob, pc <- turnPc, env <- turnEnv

lookVars == <<level, status, cache, dropping, lookups, edits>>
delVars == <<members, active, links, nonces, deliveries, claims, audits, copies, losses,
             strays, moves>>
turnVars == <<runs, approvals, paused, turnPc, onRun, about, seen, turnEnv>>
laneVars == <<part, vars, leavingVars, lookVars, delVars, turnVars>>

LanesInit ==
    /\ part \in {"ingest", "offboarding", "look-ups", "delivery", "turns"}
    /\ Init /\ LeavingInit /\ Look!Init /\ Del!DeliveryInit /\ Turn!Init
    /\ part # "ingest" => env = {}

Ingesting(A) ==
    part = "ingest" /\ A /\ UNCHANGED <<part, leavingVars, lookVars, delVars, turnVars>>
Leaving(A) ==
    part = "offboarding" /\ A /\ UNCHANGED <<part, vars, lookVars, delVars, turnVars>>
LookingUp(A) ==
    part = "look-ups" /\ A /\ UNCHANGED <<part, vars, leavingVars, delVars, turnVars>>
Delivering(A) ==
    part = "delivery" /\ A /\ UNCHANGED <<part, vars, leavingVars, lookVars, turnVars>>
Conversing(A) ==
    part = "turns" /\ A /\ UNCHANGED <<part, vars, leavingVars, lookVars, delVars>>

LanesNext ==
    \/ Ingesting(Next)
    \/ Leaving(LeavingNext)
    \/ LookingUp(Look!Next)
    \/ Delivering(Del!DeliveryNext)
    \/ Conversing(Turn!Next)

\* A worker ticks each lane again and again, so a job that can be claimed is,
\* a pass that is under way goes on, a claimed delivery is settled; the clock
\* goes on, so a lease lapses, a stale claim grows old, a cache entry expires
\* and the retention sweep finds what waited too long; a request is answered,
\* and a turn goes on.
LanesSpec ==
    /\ LanesInit /\ [][LanesNext]_laneVars
    /\ \A w \in Workers : WF_laneVars(Ingesting(Work(w)))
    /\ \A j \in Jobs : /\ WF_laneVars(Ingesting(\E w \in Workers : ClaimNext(w, j)))
                       /\ WF_laneVars(Ingesting(Lapse(j)))
                       /\ WF_laneVars(Ingesting(BecomeDue(j)))
    /\ \A w \in Offboarders : WF_laneVars(Leaving(Consume(w)))
    /\ \A i \in 1..MaxRequests :
           WF_laneVars(Leaving(i \in DOMAIN requests /\ GoesStale(i)))
    /\ \A q \in {q1, q2} : WF_laneVars(LookingUp(Look!Serves(q)))
    /\ WF_laneVars(LookingUp(Look!Lapse(p1)))
    /\ \A w \in {w1, w2} : WF_laneVars(Delivering(Del!Proceed(w)))
    /\ \A k \in {n1, t1} : WF_laneVars(Delivering(Del!Expire(k)))
    /\ \A x \in {r1, r2, d1, d2} : WF_laneVars(Conversing(Turn!Progress(x)))

\* Access that has ended is at last not served any more (AccessLookup).
RevokedAccessEnds == Look!RevokedAccessEnds

\* A queued message to a chat is settled (ChannelDelivery).
DeliverySettles == Del!DeliverySettles

\* No turn stays running (RunLifecycle).
RunSettles == Turn!RunSettles
=============================================================================

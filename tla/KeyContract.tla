---------------------------- MODULE KeyContract ------------------------------
(***************************************************************************)
(* What an idempotency key promises a client, without saying how: one      *)
(* request at a time is let in under a key, and none once an answer is     *)
(* stored; only the request that is in acts, once; an answer is of a       *)
(* request that acted, stays, and is given to nobody but the same request  *)
(* sent again.  The promise is for requests that end within the age at     *)
(* which a reservation counts as abandoned.                                *)
(***************************************************************************)
CONSTANTS Requests, Keys, KeyOf, PrintOf

VARIABLES
    prompt,   \* whether every request ends in time
    owner,    \* the request let in under each key, as a set of at most one
    answer,   \* whose answer a key has stored, as a set of at most one
    acted,    \* the requests that had their effect
    told      \* whose answer a request was given, as a set of at most one

vars == <<prompt, owner, answer, acted, told>>

Init ==
    /\ prompt \in BOOLEAN
    /\ owner = [k \in Keys |-> {}] /\ answer = [k \in Keys |-> {}]
    /\ acted = {} /\ told = [x \in Requests |-> {}]

LetIn(x) ==
    /\ owner[KeyOf[x]] = {} /\ answer[KeyOf[x]] = {}
    /\ owner' = [owner EXCEPT ![KeyOf[x]] = {x}]
    /\ UNCHANGED <<answer, acted, told>>

Act(x) ==
    /\ owner[KeyOf[x]] = {x} /\ x \notin acted /\ acted' = acted \cup {x}
    /\ UNCHANGED <<owner, answer, told>>

\* The answer is stored and given.
Answer(x) ==
    /\ owner[KeyOf[x]] = {x} /\ x \in acted /\ answer[KeyOf[x]] = {} /\ told[x] = {}
    /\ owner' = [owner EXCEPT ![KeyOf[x]] = {}]
    /\ answer' = [answer EXCEPT ![KeyOf[x]] = {x}]
    /\ told' = [told EXCEPT ![x] = {x}]
    /\ UNCHANGED acted

\* The request is over without an answer, and the key is free.
Leave(x) ==
    /\ owner[KeyOf[x]] = {x} /\ owner' = [owner EXCEPT ![KeyOf[x]] = {}]
    /\ UNCHANGED <<answer, acted, told>>

Replay(x, y) ==
    /\ answer[KeyOf[x]] = {y} /\ PrintOf[y] = PrintOf[x] /\ told[x] = {}
    /\ told' = [told EXCEPT ![x] = {y}]
    /\ UNCHANGED <<owner, answer, acted>>

Next ==
    \/ \E x \in Requests : LetIn(x) \/ Act(x) \/ Answer(x) \/ Leave(x)
    \/ \E x, y \in Requests : Replay(x, y)

Spec == Init /\ [][prompt' = prompt /\ (prompt => Next)]_vars
=============================================================================

--------------------------- MODULE HttpIdempotency ---------------------------
(***************************************************************************)
(* The Idempotency-Key header: platform.idempotency_keys                   *)
(* (idempotency_store.py), the decision between run, replay and conflict   *)
(* (application/idempotency.py) and what wraps the handler of a route      *)
(* (dependencies/idempotency.py).                                          *)
(*                                                                         *)
(* A request presents one key; a retry is another request.  Every store    *)
(* call commits on its own, so a step is one statement of the store or the *)
(* handler's own transaction.  A request without a key, or refused for a   *)
(* key that is too long, touches no row and is left out.                   *)
(*                                                                         *)
(* Operators marked Mutant are wrong versions of the definition they       *)
(* precede, kept to show that the properties can fail; no specification    *)
(* uses them.                                                              *)
(***************************************************************************)
EXTENDS Naturals, FiniteSets

CONSTANTS
    Requests,      \* HTTP requests carrying a key
    Keys,          \* (tenant, key) pairs
    Prints,        \* fingerprints: method, path, workspace, body hash
    KeyOf,         \* the key of each request
    PrintOf,       \* the fingerprint of each request
    Environments,  \* the sets of faults the environment may exhibit
    NoOne          \* absence of a request

FaultKinds == {"crash",  \* the process dies with the request in it
               "store",  \* a statement of the store raises
               "slow"}   \* a request outlives STALE_RESERVATION

ASSUME RequestAssumption ==
    /\ KeyOf \in [Requests -> Keys]
    /\ PrintOf \in [Requests -> Prints]
    /\ NoOne \notin Requests
    /\ Environments \subseteq SUBSET FaultKinds

VARIABLES
    keys,   \* the rows; holder and during are history, not columns
    pc,     \* where each request stands
    got,    \* whose answer a request was given: its own or a replayed one
    acted,  \* the requests whose handler committed its effect
    env     \* the faults of this behaviour

vars == <<keys, pc, got, acted, env>>

Steps == {"idle", "select", "takeover", "handler", "record", "abandon", "ended"}

\* A row: open until a response is stored.  holder is the last request to claim
\* the key, during the requests under way when created_at was last stamped.
Rows == [state: {"absent", "open", "done"}, print: Prints \cup {NoOne},
         holder: Requests \cup {NoOne}, answer: Requests \cup {NoOne},
         stale: BOOLEAN, during: SUBSET Requests]

TypeOK ==
    /\ keys \in [Keys -> Rows]
    /\ pc \in [Requests -> Steps]
    /\ got \in [Requests -> Requests \cup {NoOne}]
    /\ acted \subseteq Requests
    /\ env \in Environments

Init ==
    /\ keys = [k \in Keys |-> [state |-> "absent", print |-> NoOne, holder |-> NoOne,
                               answer |-> NoOne, stale |-> FALSE, during |-> {}]]
    /\ pc = [x \in Requests |-> "idle"]
    /\ got = [x \in Requests |-> NoOne]
    /\ acted = {}
    /\ env \in Environments

Live(x) == pc[x] \notin {"idle", "ended"}
UnderWay == {x \in Requests : Live(x)}
Row(x) == keys[KeyOf[x]]

Goto(x, step) == pc' = [pc EXCEPT ![x] = step]
SetRow(x, row) == keys' = [keys EXCEPT ![KeyOf[x]] = row]

\* The reservation x makes of its key, stamped with the present time.
Reservation(x, print) ==
    [state |-> "open", print |-> print, holder |-> x, answer |-> NoOne,
     stale |-> FALSE, during |-> UnderWay \cup {x}]

-----------------------------------------------------------------------------

\* reserve, its INSERT ... ON CONFLICT DO NOTHING.
Insert(x) ==
    /\ pc[x] = "idle"
    /\ IF Row(x).state = "absent"
       THEN SetRow(x, Reservation(x, PrintOf[x])) /\ Goto(x, "handler")
       ELSE Goto(x, "select") /\ UNCHANGED keys
    /\ UNCHANGED <<got, acted, env>>

\* Mutant: the fingerprint of the row is not compared.
SelectAnyPrint(x) ==
    /\ pc[x] = "select"
    /\ \/ /\ Row(x).state = "done"
          /\ got' = [got EXCEPT ![x] = Row(x).answer]
          /\ Goto(x, "ended")
       \/ /\ Row(x).state = "open"
          /\ Goto(x, "takeover") /\ UNCHANGED got
       \/ /\ Row(x).state = "absent"
          /\ Goto(x, "ended") /\ UNCHANGED got
    /\ UNCHANGED <<keys, acted, env>>

\* reserve, its SELECT of the row that was in the way, and what claim makes of
\* it: a row gone meanwhile raises, another fingerprint is a conflict, a stored
\* response is replayed, and an open reservation may be taken over.
Select(x) ==
    /\ pc[x] = "select"
    /\ \/ /\ Row(x).state = "done" /\ Row(x).print = PrintOf[x]
          /\ got' = [got EXCEPT ![x] = Row(x).answer]
          /\ Goto(x, "ended")
       \/ /\ Row(x).state = "open" /\ Row(x).print = PrintOf[x]
          /\ Goto(x, "takeover") /\ UNCHANGED got
       \/ /\ Row(x).state = "absent" \/ Row(x).print # PrintOf[x]
          /\ Goto(x, "ended") /\ UNCHANGED got
    /\ UNCHANGED <<keys, acted, env>>

\* Mutant: take_over does not look at created_at.
OpenForTakeOver(x) == Row(x).state = "open"

\* take_over's predicate, decided by one UPDATE.
Abandoned(x) == Row(x).state = "open" /\ Row(x).stale

\* The row keeps its fingerprint, and is not compared with x's again.
TakeOver(x) ==
    /\ pc[x] = "takeover"
    /\ IF Abandoned(x)
       THEN SetRow(x, Reservation(x, Row(x).print)) /\ Goto(x, "handler")
       ELSE Goto(x, "ended") /\ UNCHANGED keys
    /\ UNCHANGED <<got, acted, env>>

\* The handler commits what it is for, or raises and has done nothing.
HandlerActs(x) ==
    /\ pc[x] = "handler"
    /\ acted' = acted \cup {x}
    /\ Goto(x, "record")
    /\ UNCHANGED <<keys, got, env>>

HandlerRaises(x) ==
    /\ pc[x] = "handler"
    /\ Goto(x, "abandon")
    /\ UNCHANGED <<keys, got, acted, env>>

\* record: the UPDATE finds an open row or changes nothing, and the client gets
\* the request's own answer either way.
Complete(x) ==
    /\ pc[x] = "record"
    /\ IF Row(x).state = "open"
       THEN SetRow(x, [state |-> "done", print |-> Row(x).print, holder |-> Row(x).holder,
                       answer |-> x, stale |-> Row(x).stale, during |-> Row(x).during])
       ELSE UNCHANGED keys
    /\ got' = [got EXCEPT ![x] = x]
    /\ Goto(x, "ended")
    /\ UNCHANGED <<acted, env>>

\* abandon_unless_recorded: the DELETE asks for the key and an open row only.
Release(x) ==
    /\ pc[x] = "abandon"
    /\ IF Row(x).state = "open"
       THEN SetRow(x, [state |-> "absent", print |-> NoOne, holder |-> Row(x).holder,
                       answer |-> NoOne, stale |-> FALSE, during |-> {}])
       ELSE UNCHANGED keys
    /\ Goto(x, "ended")
    /\ UNCHANGED <<got, acted, env>>

\* A statement of the store raises: in record the exit path still releases the
\* key, everywhere else the request is over.
StoreFails(x) ==
    /\ "store" \in env /\ pc[x] \in {"select", "takeover", "record", "abandon"}
    /\ Goto(x, IF pc[x] = "record" THEN "abandon" ELSE "ended")
    /\ UNCHANGED <<keys, got, acted, env>>

Crash(x) ==
    /\ "crash" \in env /\ Live(x)
    /\ Goto(x, "ended")
    /\ UNCHANGED <<keys, got, acted, env>>

\* STALE_RESERVATION passes for the reservation of k.  It is a large multiple of
\* the longest request, so unless a request is slow, every request that was
\* under way when the reservation was stamped is over by then.
Age(k) ==
    /\ keys[k].state = "open" /\ ~keys[k].stale
    /\ "slow" \in env \/ \A x \in keys[k].during : ~Live(x)
    /\ keys' = [keys EXCEPT ![k] =
                  [state |-> "open", print |-> keys[k].print, holder |-> keys[k].holder,
                   answer |-> NoOne, stale |-> TRUE, during |-> keys[k].during]]
    /\ UNCHANGED <<pc, got, acted, env>>

Next ==
    \/ \E x \in Requests :
          \/ Insert(x) \/ Select(x) \/ TakeOver(x)
          \/ HandlerActs(x) \/ HandlerRaises(x)
          \/ Complete(x) \/ Release(x)
          \/ StoreFails(x) \/ Crash(x)
    \/ \E k \in Keys : Age(k)

Spec == Init /\ [][Next]_vars

-----------------------------------------------------------------------------

Prompt == "slow" \notin env
Holding == {"handler", "record", "abandon"}

\* However requests crash and statements fail, two requests never run the
\* handler under one key at the same time: the reservation is a lock nobody
\* holds twice, takeover of a dead request's reservation included.
HandlerExclusive ==
    Prompt => \A x, y \in Requests :
        KeyOf[x] = KeyOf[y] /\ pc[x] \in Holding /\ pc[y] \in Holding => x = y

\* The stored answer of a key is never overwritten, reopened or deleted, not
\* even by a late completion or release of a request that was taken over.
AnswerIsFinal ==
    [][\A k \in Keys : keys[k].state = "done" => keys'[k] = keys[k]]_vars

\* A replayed answer is the answer to the same request: method, path, workspace
\* and body, though take_over never compares the fingerprint again.
ReplayAnswersTheSameRequest ==
    Prompt => \A x \in Requests : got[x] # NoOne => PrintOf[got[x]] = PrintOf[x]

\* Once a key's answer is stored, no handler acts under that key again.
SpentKeyNeverActs ==
    [][Prompt => \A x \in acted' \ acted : Row(x).state # "done"]_vars

\* The contract's view of a key and of a request.
Promise == INSTANCE KeyContract WITH
    prompt <- Prompt,
    owner <- [k \in Keys |-> {x \in Requests : KeyOf[x] = k /\ pc[x] \in Holding}],
    answer <- [k \in Keys |-> IF keys[k].state = "done" THEN {keys[k].answer} ELSE {}],
    told <- [x \in Requests |-> {got[x]} \ {NoOne}]

\* However requests crash and statements fail, a key lets in one request at a
\* time, takeovers included, and none once it has an answer; an answer is of a
\* request that acted, is never overwritten, reopened or deleted, and is only
\* given to the same method, path, workspace and body (claim, record, release).
KeepsPromise == Promise!Spec

\* Without faults a key is acted on at most once, however often it is retried
\* and however many attempts fail before one succeeds.
ActsOnce ==
    env = {} => \A x, y \in acted : KeyOf[x] = KeyOf[y] => x = y

\* "Never release a key this request did not reserve: that would free another
\* in-flight request's reservation": the request that last claimed a key finds
\* it reserved for as long as its handler runs.
InFlightKeepsItsKey ==
    \A x \in Requests : Row(x).holder = x /\ pc[x] \in {"handler", "record"} =>
        Row(x).state # "absent"
-----------------------------------------------------------------------------
(***************************************************************************)
(* Why the properties hold for prompt requests: a stale reservation only   *)
(* has dead requests around it, so whoever takes it over takes it from     *)
(* nobody, and reads the fingerprint it compared.                          *)
(***************************************************************************)

\* A request that was under way when a row was stamped has begun.
DuringStarted == \A k \in Keys : \A x \in keys[k].during : pc[x] # "idle"

\* A request that runs its handler has the open, fresh reservation of its key.
HoldersHold ==
    \A x \in Requests : pc[x] \in Holding =>
        /\ Row(x).state = "open" /\ ~Row(x).stale
        /\ Row(x).holder = x /\ x \in Row(x).during

\* A stale reservation has outlived the requests of its time.
StaleIsDead == \A k \in Keys : keys[k].stale => \A x \in keys[k].during : pc[x] = "ended"

\* A row has the fingerprint of its holder, and then of its answer.
PrintsAgree ==
    \A k \in Keys :
        /\ keys[k].state = "open" => /\ keys[k].holder \in Requests
                                     /\ keys[k].print = PrintOf[keys[k].holder]
        /\ keys[k].state = "done" => /\ keys[k].answer \in Requests
                                     /\ keys[k].print = PrintOf[keys[k].answer]

\* A request about to take over has compared the fingerprint of this very row,
\* unless the row was stamped after it began.
TakerAgrees ==
    \A x \in Requests :
        pc[x] = "takeover" /\ Row(x).state = "open" /\ x \notin Row(x).during =>
            Row(x).print = PrintOf[x]

\* A request records what it has done, does it once, and is answered at its end.
AnswersLast ==
    \A x \in Requests :
        /\ pc[x] = "record" => x \in acted
        /\ pc[x] \in {"idle", "select", "takeover", "handler"} => x \notin acted
        /\ pc[x] # "ended" => got[x] = NoOne

\* The inductive invariant.
KeyInv ==
    /\ DuringStarted /\ AnswersLast
    /\ Prompt => /\ HoldersHold /\ StaleIsDead /\ PrintsAgree /\ TakerAgrees
                 /\ ReplayAnswersTheSameRequest

\* Without faults, what a request has done is either about to be recorded or is
\* the stored answer of its key: nothing reopens a key that was acted on.
ActedIsSpent ==
    /\ ActsOnce
    /\ env = {} => \A x \in acted :
          pc[x] = "record" \/ (pc[x] = "ended" /\ Row(x).state = "done")
=============================================================================

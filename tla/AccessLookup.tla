---------------------------- MODULE AccessLookup -----------------------------
(***************************************************************************)
(* The access of a signed-in person, looked up on every request            *)
(* (membership_lookup.py) through a cache that fails open (adapters/       *)
(* cache.py, caching_lookup.py), while memberships and tenant settings     *)
(* change.  A route that changes them drops the workspace's cached entries *)
(* after its commit; an operator who locks the tenant or assigns its first *)
(* admin drops nothing.                                                    *)
(*                                                                         *)
(* A look-up that misses reads the database and stores what it read later, *)
(* so it may store what a change has just dropped.  What bounds that is    *)
(* the time to live: every entry lapses.                                   *)
(*                                                                         *)
(* An access is what the request may do: "none", or a level.  "unreadable" *)
(* is an entry of another version of the program.                          *)
(*                                                                         *)
(* Operators marked Mutant are wrong versions of the definition they       *)
(* precede; no specification uses them.                                    *)
(***************************************************************************)
EXTENDS Naturals, FiniteSets

CONSTANTS
    People,      \* who signs in
    Requests,    \* requests in flight
    Levels,      \* what a membership can carry
    MaxEdits     \* bound on the changes of a behaviour

VARIABLES
    level,    \* each person's membership, "none" for no row
    status,   \* of the tenant: "active" or "locked"
    cache,    \* the entry of each person, a set of at most one access
    dropping, \* a change is committed and its entries are not dropped yet
    lookups,  \* the requests in flight
    edits     \* how many changes have happened

vars == <<level, status, cache, dropping, lookups, edits>>

Accesses == Levels \cup {"none"}

TypeOK ==
    /\ level \in [People -> Accesses]
    /\ status \in {"active", "locked"}
    /\ cache \in [People -> SUBSET (Accesses \cup {"unreadable"})]
    /\ dropping \in BOOLEAN
    /\ lookups \in [Requests -> [at: {"idle", "miss", "fill", "served"}, who: People,
                               access: Accesses]]
    /\ edits \in 0..MaxEdits

Init ==
    /\ level \in [People -> Levels]
    /\ status = "active"
    /\ cache = [p \in People |-> {"unreadable"}]
    /\ dropping = FALSE
    /\ lookups \in [Requests -> [at: {"idle"}, who: People, access: {"none"}]]
    /\ edits = 0

\* _access_in: the membership of a tenant that is active.
Effective(p) == IF status = "active" THEN level[p] ELSE "none"

-----------------------------------------------------------------------------
(***************************************************************************)
(* A look-up.                                                              *)
(***************************************************************************)

\* The cache answers, a "no membership" included.
Hit(q, p) ==
    /\ lookups[q].at = "idle"
    /\ \E access \in cache[p] \ {"unreadable"} :
          lookups' = [lookups EXCEPT ![q] = [at |-> "served", who |-> p, access |-> access]]
    /\ UNCHANGED <<level, status, cache, dropping, edits>>

\* No entry, one this version cannot read, or a cache that is down.
Miss(q, p) ==
    /\ lookups[q].at = "idle"
    /\ lookups' = [lookups EXCEPT ![q] = [at |-> "miss", who |-> p, access |-> "none"]]
    /\ UNCHANGED <<level, status, cache, dropping, edits>>

FindAccess(q) ==
    /\ lookups[q].at = "miss"
    /\ lookups' = [lookups EXCEPT ![q].at = "fill", ![q].access = Effective(lookups[q].who)]
    /\ UNCHANGED <<level, status, cache, dropping, edits>>

\* cache.set, or nothing when the cache is down.
Fill(q) ==
    /\ lookups[q].at = "fill"
    /\ \E kept \in {cache[lookups[q].who], {lookups[q].access}} :
          cache' = [cache EXCEPT ![lookups[q].who] = kept]
    /\ lookups' = [lookups EXCEPT ![q].at = "served"]
    /\ UNCHANGED <<level, status, dropping, edits>>

Respond(q) ==
    /\ lookups[q].at = "served"
    /\ lookups' = [lookups EXCEPT ![q].at = "idle"]
    /\ UNCHANGED <<level, status, cache, dropping, edits>>

\* Mutant: a hit extends the life of an entry.
LapseUnread(p) ==
    /\ cache[p] # {} /\ \A q \in Requests : ~(lookups[q].who = p /\ lookups[q].at = "served")
    /\ cache' = [cache EXCEPT ![p] = {}]
    /\ UNCHANGED <<level, status, dropping, lookups, edits>>

\* The time to live of an entry ends, whether it is read or not.
Lapse(p) ==
    /\ cache[p] # {}
    /\ cache' = [cache EXCEPT ![p] = {}]
    /\ UNCHANGED <<level, status, dropping, lookups, edits>>

-----------------------------------------------------------------------------
(***************************************************************************)
(* Changes.                                                                *)
(***************************************************************************)

Happens == edits < MaxEdits /\ edits' = edits + 1

\* grant_member, revoke_member, set_memberships, set_permission_sets, ...
ChangeMember(p, to) ==
    /\ Happens /\ level[p] # to /\ ~dropping
    /\ level' = [level EXCEPT ![p] = to]
    /\ dropping' = TRUE
    /\ UNCHANGED <<status, cache, lookups>>

\* The route drops every entry of the workspace, or its process dies or the
\* cache is down and they stay.
DropCached ==
    /\ dropping /\ dropping' = FALSE
    /\ cache' \in {cache, [p \in People |-> {}]}
    /\ UNCHANGED <<level, status, lookups, edits>>

\* An operator's set_tenant_status drops nothing.
LockTenant ==
    /\ Happens
    /\ status' = IF status = "active" THEN "locked" ELSE "active"
    /\ UNCHANGED <<level, cache, dropping, lookups>>

Request(q) ==
    \/ \E p \in People : Hit(q, p) \/ Miss(q, p)
    \/ FindAccess(q) \/ Fill(q) \/ Respond(q)

Next ==
    \/ \E q \in Requests : Request(q)
    \/ \E p \in People : Lapse(p)
    \/ \E p \in People, to \in Accesses : ChangeMember(p, to)
    \/ DropCached \/ LockTenant

Spec == Init /\ [][Next]_vars

\* A look-up that began ends.
Serves(q) == FindAccess(q) \/ Fill(q) \/ Respond(q)

-----------------------------------------------------------------------------
(***************************************************************************)
(* Properties.                                                             *)
(***************************************************************************)

\* Access that is taken away is gone: however often an entry is read, dropped
\* or stored late by a look-up that raced the change, a person whose access
\* has ended is at last served none, for good.
RevokedAccessEnds ==
    \A p \in People :
        <>[](Effective(p) = "none") =>
            <>[](\A q \in Requests : lookups[q].at = "served" /\ lookups[q].who = p =>
                                        lookups[q].access = "none")
=============================================================================

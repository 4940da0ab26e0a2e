------------------------------ MODULE OrgChart -------------------------------
(* Who reports to whom (hierarchy.py, hierarchy_repo.py) and, with the        *)
(* tenant's settings (admin_console.py, admin_console_repo.py), who may see   *)
(* whose records (membership_lookup.py).                                      *)
(*                                                                            *)
(* `set_manager` asks three questions in three transactions and writes in a   *)
(* fourth, so two calls may pass each other.  The contexts that a request is  *)
(* served from a cache are AccessLookup's, the scopes of a member             *)
(* Memberships'.                                                              *)
(*                                                                            *)
(* Operators marked Mutant are wrong versions of the definition they precede; *)
(* no specification uses them.                                                *)
EXTENDS Naturals, FiniteSets

CONSTANTS
    Colleagues,  \* who may be a member of the workspace
    Leaders,     \* those whose scopes or role see every record
    Admins,      \* calls of set_manager that may be under way at a time
    NoManager

ASSUME ChartAssumption == NoManager \notin Colleagues

VARIABLES
    manager,    \* the link of each membership of the workspace
    asking,     \* what each call of set_manager has established
    raced,      \* history: a manager was set on the word of an older chart
    visibility  \* "open" or "restricted", a setting of the tenant

chartVars == <<manager, asking, raced, visibility>>

NotAsking == [at |-> "idle", user |-> NoManager, under |-> NoManager, stale |-> FALSE]
Calls == [at: {"idle", "member", "subtree", "write"}, user: Colleagues \cup {NoManager},
          under: Colleagues \cup {NoManager}, stale: BOOLEAN]

ChartTypeOK ==
    /\ DOMAIN manager \subseteq Colleagues
    /\ \A p \in DOMAIN manager : manager[p] \in Colleagues \cup {NoManager}
    /\ asking \in [Admins -> Calls] /\ raced \in BOOLEAN
    /\ visibility \in {"open", "restricted"}

ChartInit ==
    /\ manager = [p \in Colleagues |-> NoManager] /\ asking = [a \in Admins |-> NotAsking]
    /\ raced = FALSE /\ visibility = "open"

\* A set of members that nobody outside it reports into.
Closed(S) == \A p \in DOMAIN manager : manager[p] \in S => p \in S

\* Mutant: only those who report to the member directly.
SubtreeOfDepthOne(root) ==
    {p \in DOMAIN manager : root \in DOMAIN manager /\ (p = root \/ manager[p] = root)}

\* SUBTREE_QUERY: the member and everyone whose links chain back to it, members
\* of the workspace all of them; a link to somebody who has left leads nowhere.
SubtreeOf(root) ==
    {p \in DOMAIN manager :
        /\ root \in DOMAIN manager
        /\ \A S \in SUBSET DOMAIN manager : root \in S /\ Closed(S) => p \in S}

\* `_access_in`, the roll-up: whose records a member is shown.
VisibleOwners(p) ==
    IF visibility = "open" \/ p \in Leaders THEN Colleagues ELSE SubtreeOf(p)

-----------------------------------------------------------------------------
(* `HierarchyService.set_manager`.                                            *)

\* Clearing a link asks nothing.
SetManager(a, u, m) ==
    /\ asking[a] = NotAsking /\ m # u
    /\ asking' = [asking EXCEPT ![a] = [at |-> IF m = NoManager THEN "write" ELSE "member",
                                        user |-> u, under |-> m, stale |-> FALSE]]
    /\ UNCHANGED <<manager, raced, visibility>>

IsMember(a) ==
    /\ asking[a].at = "member"
    /\ asking' = [asking EXCEPT ![a] = IF asking[a].under \in DOMAIN manager
                                       THEN [@ EXCEPT !.at = "subtree"] ELSE NotAsking]
    /\ UNCHANGED <<manager, raced, visibility>>

\* The proposed manager must not report up to the member.
RefuseCycle(a) ==
    /\ asking[a].at = "subtree"
    /\ asking' = [asking EXCEPT ![a] = IF asking[a].under \in SubtreeOf(asking[a].user)
                                       THEN NotAsking ELSE [@ EXCEPT !.at = "write"]]
    /\ UNCHANGED <<manager, raced, visibility>>

\* The calls that are past their last question, once the chart has changed.
Outdated(changed) ==
    [b \in Admins |-> [asking[b] EXCEPT !.stale = @ \/ (changed /\ asking[b].at = "write")]]

\* One update, with its audit event; no such member and nothing is written.
WriteManager(a) ==
    LET c == asking[a]
        found == c.user \in DOMAIN manager
    IN  /\ c.at = "write"
        /\ manager' = IF found THEN [manager EXCEPT ![c.user] = c.under] ELSE manager
        /\ raced' = (raced \/ (found /\ c.stale))
        /\ asking' = [Outdated(found) EXCEPT ![a] = NotAsking]
        /\ UNCHANGED visibility

\* The membership is revoked: its own link goes with it, the links to it stay.
Part(p) ==
    /\ p \in DOMAIN manager /\ manager' = [q \in DOMAIN manager \ {p} |-> manager[q]]
    /\ UNCHANGED <<asking, raced, visibility>>

\* Invited or granted again: a new row, reporting to nobody.
Join(p) ==
    /\ p \in Colleagues \ DOMAIN manager
    /\ manager' = [q \in DOMAIN manager \cup {p} |-> IF q = p THEN NoManager ELSE manager[q]]
    /\ asking' = Outdated(TRUE)
    /\ UNCHANGED <<raced, visibility>>

-----------------------------------------------------------------------------
\* One of the settings; the others change nothing here.
UpdateTenantSettings(v) ==
    /\ visibility' = v /\ UNCHANGED <<manager, asking, raced>>

ChartNext ==
    \/ \E a \in Admins, u \in Colleagues, m \in Colleagues \cup {NoManager} : SetManager(a, u, m)
    \/ \E a \in Admins : IsMember(a) \/ RefuseCycle(a) \/ WriteManager(a)
    \/ \E p \in Colleagues : Part(p) \/ Join(p)
    \/ \E v \in {"open", "restricted"} : UpdateTenantSettings(v)

ChartSpec == ChartInit /\ [][ChartNext]_chartVars

-----------------------------------------------------------------------------
\* Nobody reports to themselves, directly or through others: among any members
\* there is one whose manager is not one of them.
NoCycle == \A C \in (SUBSET DOMAIN manager) \ {{}} : \E p \in C : manager[p] \notin C

\* As long as each assignment is written on the chart it was judged by, the chart
\* has no cycle, whoever leaves and comes back with links to them still in place;
\* so in a restricted tenant no two members see each other's records unless one
\* of them sees everybody's (`set_manager`, SUBTREE_QUERY, `_access_in`).
SightIsOneWay ==
    ~raced =>
        /\ NoCycle
        /\ visibility = "restricted" =>
              \A p, q \in DOMAIN manager \ Leaders :
                  p # q => ~(p \in VisibleOwners(q) /\ q \in VisibleOwners(p))

-----------------------------------------------------------------------------
(* The inductive invariant.                                                  *)

\* What a call has established still holds when it writes, unless the chart has
\* changed since by more than a departure.
JudgedStands ==
    \A a \in Admins : asking[a].at = "write" /\ ~asking[a].stale /\ asking[a].under # NoManager =>
        asking[a].under \notin SubtreeOf(asking[a].user)

ChartInv == ChartTypeOK /\ JudgedStands /\ (~raced => NoCycle)
=============================================================================

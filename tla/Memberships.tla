----------------------------- MODULE Memberships -----------------------------
(***************************************************************************)
(* Memberships of a workspace, every way the code writes one, and the      *)
(* separation of duties that the database enforces on each write: a rule   *)
(* forbids one person both of two sides; a tenant may waive a rule that    *)
(* can be waived, by two people, and take the waiver back when nobody      *)
(* relies on it (separation_of_duties.py, its repository, and the triggers *)
(* of migrations b9862fa13a80, 6b26771e549d and f381f1694395).             *)
(*                                                                         *)
(* Transactions are READ COMMITTED.  A membership write is two steps: the  *)
(* statement, at which the trigger reads the waivers and locks those it    *)
(* relies on FOR SHARE, and the commit.  Taking a waiver back is two       *)
(* steps: the UPDATE, which locks the waiver and counts the committed      *)
(* memberships that rely on it, and the commit.  A step waits for a lock   *)
(* by not being enabled.                                                   *)
(*                                                                         *)
(* A transaction over several workspaces takes the same locks for each; a  *)
(* person has one workspace here.  Reasons and audit rows are left out.    *)
(*                                                                         *)
(* Operators marked Mutant are wrong versions of the definition they       *)
(* precede; no specification uses them.                                    *)
(***************************************************************************)
EXTENDS Naturals, FiniteSets

CONSTANTS
    People,     \* who may be a member
    Roles,      \* role keys
    Sets,       \* permission set keys
    OrgAdmin,   \* the role an operator assigns
    Rules,      \* platform.sod_rules
    Waivable,   \* the rules a tenant may waive
    Left,       \* the scopes of one side of each rule
    Right,      \* the scopes of the other
    Catalogue,  \* the scopes of each role and set at first
    Revised,    \* scopes that a later catalogue may give to a key
    Platform    \* the scopes under "platform."

VARIABLES
    scopesOf,  \* platform.roles and platform.permission_sets
    rows,      \* platform.memberships; no roles is no row
    writes,    \* the uncommitted membership write of a person, at most one
    reads,     \* the roles an operator's grant_role read, before it writes
    waivers,   \* the open waiver of each rule
    revoking   \* the rules whose waiver an uncommitted transaction closes

membershipVars == <<scopesOf, rows, writes, reads, waivers, revoking>>

RoleKeys == Roles \cup Sets

Scopes == UNION {Catalogue[k] \cup Revised[k] : k \in RoleKeys}

MembershipRow == [roles: SUBSET Roles, sets: SUBSET Sets]

MembershipTypeOK ==
    /\ scopesOf \in [RoleKeys -> SUBSET Scopes]
    /\ rows \in [People -> MembershipRow]
    /\ writes \in [People -> SUBSET [row: MembershipRow, relies: SUBSET Rules]]
    /\ reads \in [People -> SUBSET [roles: SUBSET Roles]]
    /\ waivers \in [Rules -> [state: {"none", "proposed", "confirmed"}, by: SUBSET People]]
    /\ revoking \subseteq Rules

\* A role or a set is given scopes by both catalogues.
ASSUME MembershipAssumption ==
    /\ Catalogue \in [RoleKeys -> SUBSET Scopes] /\ Revised \in [RoleKeys -> SUBSET Scopes]
    /\ OrgAdmin \in Roles

NoRow == [roles |-> {}, sets |-> {}]

NoWaiver == [state |-> "none", by |-> {}]

MembershipInit ==
    /\ scopesOf = Catalogue
    /\ rows = [p \in People |-> NoRow]
    /\ writes = [p \in People |-> {}]
    /\ reads = [p \in People |-> {}]
    /\ waivers = [r \in Rules |-> NoWaiver]
    /\ revoking = {}

-----------------------------------------------------------------------------
(***************************************************************************)
(* The triggers.                                                           *)
(***************************************************************************)

HeldIn(catalogue, row) == UNION {catalogue[k] : k \in row.roles \cup row.sets}

\* sod_rule_broken: something of each side, by roles and sets together.
Broken(catalogue, row) ==
    {r \in Rules : /\ HeldIn(catalogue, row) \cap Left[r] # {}
                   /\ HeldIn(catalogue, row) \cap Right[r] # {}}

\* Mutant: a waiver counts from the moment it is proposed.
InForceProposed == {r \in Waivable : waivers[r].state \in {"proposed", "confirmed"}}

\* sod_violation: a waivable rule with a confirmed waiver that is not revoked.
InForce == {r \in Waivable : waivers[r].state = "confirmed"}

-----------------------------------------------------------------------------
(***************************************************************************)
(* Writing a membership.                                                   *)
(***************************************************************************)

\* The statement of a write: the row is locked, the trigger judges the new
\* row and shares the waivers it relies on.  A waiver being revoked has to
\* be waited for.
BeginWrite(p, row) ==
    /\ writes[p] = {}
    /\ Broken(scopesOf, row) \subseteq InForce
    /\ Broken(scopesOf, row) \cap revoking = {}
    /\ writes' = [writes EXCEPT ![p] = {[row |-> row, relies |-> Broken(scopesOf, row)]}]

\* Only a platform admin hands out what carries an administrative scope.
MayGrant(super, keys) == super \/ UNION {scopesOf[k] : k \in keys} \cap Platform = {}

\* GrantMembershipHandler: insert or replace the roles; sets stay.
GrantMembership(super, p, R) ==
    /\ R # {} /\ MayGrant(super, R)
    /\ BeginWrite(p, [roles |-> R, sets |-> rows[p].sets])
    /\ UNCHANGED <<scopesOf, rows, reads, waivers, revoking>>

\* RevokeMembershipHandler: no trigger stands in the way of a deletion.
RevokeMembership(p) ==
    /\ writes[p] = {} /\ rows[p] # NoRow
    /\ rows' = [rows EXCEPT ![p] = NoRow]
    /\ UNCHANGED <<scopesOf, writes, reads, waivers, revoking>>

Administrative == {k \in Roles : scopesOf[k] \cap Platform # {}}

\* plan_memberships: what was asked, plus the administrative roles held.
Planned(p, R) == (rows[p].roles \cap Administrative) \cup R

\* set_memberships, under FOR UPDATE.
SetMemberships(super, p, R) ==
    /\ rows[p] # NoRow /\ MayGrant(super, R)
    /\ Planned(p, R) # rows[p].roles
    /\ BeginWrite(p, IF Planned(p, R) = {} THEN NoRow
                ELSE [roles |-> Planned(p, R), sets |-> rows[p].sets])
    /\ UNCHANGED <<scopesOf, rows, reads, waivers, revoking>>

\* invite: refused for a person who is in the tenant.
Invite(super, p, R) ==
    /\ R # {} /\ MayGrant(super, R) /\ rows[p] = NoRow
    /\ BeginWrite(p, [roles |-> R, sets |-> {}])
    /\ UNCHANGED <<scopesOf, rows, reads, waivers, revoking>>

SetPermissionSets(super, p, S) ==
    /\ rows[p] # NoRow /\ MayGrant(super, S)
    /\ BeginWrite(p, [roles |-> rows[p].roles, sets |-> S])
    /\ UNCHANGED <<scopesOf, rows, reads, waivers, revoking>>

\* grant_role, an operator's: the roles are read without a lock ...
ReadRoles(p) ==
    /\ reads[p] = {}
    /\ reads' = [reads EXCEPT ![p] = {[roles |-> rows[p].roles]}]
    /\ UNCHANGED <<scopesOf, rows, writes, waivers, revoking>>

\* ... and written back with one more, over whatever is there by then; an
\* INSERT meets a row that came meanwhile, an UPDATE misses one that went.
WriteRole(p) ==
    /\ \E read \in reads[p] :
          IF OrgAdmin \in read.roles \/ (read.roles = {}) # (rows[p] = NoRow)
          THEN UNCHANGED writes
          ELSE BeginWrite(p, [roles |-> read.roles \cup {OrgAdmin}, sets |-> rows[p].sets])
    /\ reads' = [reads EXCEPT ![p] = {}]
    /\ UNCHANGED <<scopesOf, rows, waivers, revoking>>

CommitWrite(p) ==
    /\ \E w \in writes[p] : rows' = [rows EXCEPT ![p] = w.row]
    /\ writes' = [writes EXCEPT ![p] = {}]
    /\ UNCHANGED <<scopesOf, reads, waivers, revoking>>

\* The process dies, or the audit row is refused.
RollBack(p) ==
    /\ writes[p] # {}
    /\ writes' = [writes EXCEPT ![p] = {}]
    /\ UNCHANGED <<scopesOf, rows, reads, waivers, revoking>>

-----------------------------------------------------------------------------
(***************************************************************************)
(* Waivers.                                                                *)
(***************************************************************************)

\* waive: one open waiver per rule, of a rule that can be waived.
Waive(p, r) ==
    /\ r \in Waivable /\ waivers[r].state = "none"
    /\ waivers' = [waivers EXCEPT ![r] = [state |-> "proposed", by |-> {p}]]
    /\ UNCHANGED <<scopesOf, rows, writes, reads, revoking>>

\* confirm: by a second person, once.
Confirm(p, r) ==
    /\ waivers[r].state = "proposed" /\ p \notin waivers[r].by /\ r \notin revoking
    /\ waivers' = [waivers EXCEPT ![r].state = "confirmed", ![r].by = @ \cup {p}]
    /\ UNCHANGED <<scopesOf, rows, writes, reads, revoking>>

Shared(r) == \E p \in People : \E w \in writes[p] : r \in w.relies

\* revoke: waits for the writes that share the waiver, and is refused while a
\* membership relies on it.
Revoke(r) ==
    /\ waivers[r].state # "none" /\ r \notin revoking
    /\ ~Shared(r)
    /\ \A p \in People : r \notin Broken(scopesOf, rows[p])
    /\ revoking' = revoking \cup {r}
    /\ UNCHANGED <<scopesOf, rows, writes, reads, waivers>>

CommitRevoke(r) ==
    /\ r \in revoking /\ revoking' = revoking \ {r}
    /\ waivers' = [waivers EXCEPT ![r] = NoWaiver]
    /\ UNCHANGED <<scopesOf, rows, writes, reads>>

RollBackRevoke(r) ==
    /\ r \in revoking /\ revoking' = revoking \ {r}
    /\ UNCHANGED <<scopesOf, rows, writes, reads, waivers>>

\* A later catalogue gives a key other scopes: refused while a holder of the
\* key would break a rule.  It is a migration, run with no write under way.
ChangeScopes(k) ==
    LET changed == [scopesOf EXCEPT ![k] = Revised[k]]
    IN  /\ scopesOf[k] # Revised[k]
        /\ \A p \in People : writes[p] = {}
        /\ \A p \in People : k \in rows[p].roles \cup rows[p].sets =>
              Broken(changed, rows[p]) \subseteq InForce \ revoking
        /\ scopesOf' = changed
        /\ UNCHANGED <<rows, writes, reads, waivers, revoking>>

MembershipNext ==
    \/ \E p \in People, super \in BOOLEAN :
          \/ \E R \in SUBSET Roles : \/ GrantMembership(super, p, R)
                                     \/ SetMemberships(super, p, R)
                                     \/ Invite(super, p, R)
          \/ \E S \in SUBSET Sets : SetPermissionSets(super, p, S)
    \/ \E p \in People : \/ RevokeMembership(p) \/ ReadRoles(p) \/ WriteRole(p)
                         \/ CommitWrite(p) \/ RollBack(p)
    \/ \E p \in People, r \in Rules : Waive(p, r) \/ Confirm(p, r)
    \/ \E r \in Rules : Revoke(r) \/ CommitRevoke(r) \/ RollBackRevoke(r)
    \/ \E k \in RoleKeys : ChangeScopes(k)

MembershipSpec == MembershipInit /\ [][MembershipNext]_membershipVars

-----------------------------------------------------------------------------
(***************************************************************************)
(* Properties.                                                             *)
(***************************************************************************)

\* Nobody ever holds both sides of a rule unless the tenant has waived it and
\* a second person has confirmed that, however writes, waivers and revocations
\* overlap and whichever way the membership was written.
ConflictsAreWaived ==
    \A p \in People : \A r \in Broken(scopesOf, rows[p]) :
        r \in Waivable /\ waivers[r].state = "confirmed" /\ Cardinality(waivers[r].by) = 2

-----------------------------------------------------------------------------
(***************************************************************************)
(* The inductive invariant.                                                *)
(***************************************************************************)

\* What a membership, or a write under way, relies on is in force and nobody is
\* taking it back.
Stands(rules) == rules \subseteq InForce /\ rules \cap revoking = {}

RowsStand == \A p \in People : Stands(Broken(scopesOf, rows[p]))

\* A write still relies on what its statement locked.
WritesStand ==
    \A p \in People : \A w \in writes[p] :
        w.relies = Broken(scopesOf, w.row) /\ Stands(w.relies)

\* A waiver is proposed by one person and confirmed by a second.
TwoPeople ==
    \A r \in Rules :
        /\ waivers[r].state = "proposed" => \E p \in People : waivers[r].by = {p}
        /\ waivers[r].state = "confirmed" =>
              \E p, q \in People : p # q /\ waivers[r].by = {p, q}

DutiesInv == MembershipTypeOK /\ RowsStand /\ WritesStand /\ TwoPeople
=============================================================================

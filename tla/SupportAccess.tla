---------------------------- MODULE SupportAccess ----------------------------
(***************************************************************************)
(* Support grants: a customer's members ask for, approve, reject and       *)
(* revoke them (application/support_access.py), an operator assigns one to *)
(* a member of the support staff (provisioning.py), and every request of   *)
(* that person builds its access context from the grant.                   *)
(*                                                                         *)
(* A member's command takes its access context and reads the grant, and    *)
(* only later writes: the write is conditional on the status alone.  A     *)
(* staff request reads the staff list, the grant, the granter's scopes and *)
(* the tenant's plan in four transactions and appends its audit event in a *)
(* fifth, so what it acts on was never read at one moment.                 *)
(*                                                                         *)
(* A grant is of one workspace; labels, reasons, durations and codes are   *)
(* left out.  A clock is the action that makes a running grant expire.     *)
(*                                                                         *)
(* Operators marked Mutant are wrong versions of the definition they       *)
(* precede; no specification uses them.                                    *)
(***************************************************************************)
EXTENDS Naturals, FiniteSets

CONSTANTS
    Grants,        \* grants that can be asked for
    Members,       \* members of the customer's workspace
    Staff,         \* people who are or become support staff
    ScopeSets,     \* the scope sets of the catalog
    FirstHolds,    \* what each member's membership carries at first
    SupportGrant,  \* the scope "support.grant"
    SupportAsk,    \* the scope "support.request"
    MaxChanges     \* bound on the changes of members, plan and staff list

VARIABLES
    grants,   \* platform.support_grants
    holds,    \* the scopes each member's membership carries
    enabled,  \* the tenant is active and its plan has support_access
    listed,   \* platform.support_staff
    desk,     \* the command each member has in flight, a set of at most one
    calls,    \* the request each staff member has in flight
    unmet,    \* history: conditions that never held since that request began
    changes   \* how many changes have happened

supportVars == <<grants, holds, enabled, listed, desk, calls, unmet, changes>>

Status == {"none", "pending_approval", "pending_assignment", "active", "rejected", "revoked"}

\* A granter or a staff member that is not set yet is the empty set.
AtMostOne(S) == {{}} \cup {{x} : x \in S}

GrantScopes == UNION ScopeSets

Phases == {"idle", "grant", "granter", "plan", "record", "acting"}

Conditions == {"listed", "assigned", "live", "granter", "plan"}

GrantRows == [status: Status, scopes: SUBSET GrantScopes, granter: AtMostOne(Members),
              staff: AtMostOne(Staff), expired: BOOLEAN]

Commands == [op: {"request", "approve", "reject", "revoke"}, grant: Grants,
             scopes: SUBSET GrantScopes, granting: BOOLEAN]

SupportTypeOK ==
    /\ grants \in [Grants -> GrantRows]
    /\ holds \in [Members -> SUBSET (GrantScopes \cup {SupportGrant, SupportAsk})]
    /\ enabled \in BOOLEAN
    /\ listed \subseteq Staff
    /\ desk \in [Members -> AtMostOne(Commands)]
    /\ calls \in [Staff -> [phase: Phases, grant: Grants]]
    /\ unmet \in [Staff -> SUBSET Conditions]
    /\ changes \in 0..MaxChanges

SupportInit ==
    /\ grants = [g \in Grants |-> [status |-> "none", scopes |-> {}, granter |-> {},
                                   staff |-> {}, expired |-> FALSE]]
    /\ holds = FirstHolds
    /\ enabled = TRUE
    /\ listed = Staff
    /\ desk = [m \in Members |-> {}]
    /\ calls \in [Staff -> [phase: {"idle"}, grant: Grants]]
    /\ unmet = [s \in Staff |-> {}]
    /\ changes = 0

-----------------------------------------------------------------------------
(***************************************************************************)
(* What makes a grant usable (grant_effective_state, tenant_plan).         *)
(***************************************************************************)

GrantLive(g) == grants[g].status = "active" /\ ~grants[g].expired

GranterStands(g) ==
    \E m \in grants[g].granter : grants[g].scopes \cup {SupportGrant} \subseteq holds[m]

Met(c, s, g) ==
    CASE c = "listed"   -> s \in listed
      [] c = "assigned" -> grants[g].staff = {s}
      [] c = "live"     -> GrantLive(g)
      [] c = "granter"  -> GranterStands(g)
      [] c = "plan"     -> enabled

Fails(s) == {c \in Conditions : ~Met(c, s, calls[s].grant)}

\* What has failed all along is what had failed so far and fails after this
\* step too.
Watch == unmet' = [s \in Staff |-> unmet[s] \cap Fails(s)']

-----------------------------------------------------------------------------
(***************************************************************************)
(* The customer's commands, in two steps.                                  *)
(***************************************************************************)

\* Being able to grant beats being able to ask.
Side(m) == IF SupportGrant \in holds[m] THEN SupportGrant ELSE SupportAsk

HoldsAll(m, S) == S \subseteq holds[m]

Takes(m, command) ==
    /\ desk[m] = {} /\ desk' = [desk EXCEPT ![m] = {command}]
    /\ UNCHANGED <<grants, holds, enabled, listed, calls, changes>>
    /\ Watch

\* request: the context decides the side; a granter must hold what it stamps.
TakeRequest(m, g, S) ==
    LET granting == Side(m) = SupportGrant
    IN  /\ enabled /\ Side(m) \in holds[m]
        /\ granting => HoldsAll(m, S)
        /\ Takes(m, [op |-> "request", grant |-> g, scopes |-> S, granting |-> granting])

\* approve: refused unless the approver holds every scope the grant stamps.
TakeApprove(m, g) ==
    /\ enabled /\ Side(m) = SupportGrant
    /\ grants[g].status = "pending_approval"
    /\ HoldsAll(m, grants[g].scopes)
    /\ Takes(m, [op |-> "approve", grant |-> g, scopes |-> {}, granting |-> TRUE])

\* reject and revoke are never behind the plan's flag.
TakeReject(m, g) ==
    /\ Side(m) = SupportGrant
    /\ grants[g].status = "pending_approval"
    /\ Takes(m, [op |-> "reject", grant |-> g, scopes |-> {}, granting |-> TRUE])

Open == {"pending_approval", "pending_assignment", "active"}

TakeRevoke(m, g) ==
    /\ Side(m) = SupportGrant
    /\ grants[g].status \in Open
    /\ Takes(m, [op |-> "revoke", grant |-> g, scopes |-> {}, granting |-> TRUE])

\* Mutant: the write trusts the status that was read.
ExpectedAny(op) == Status

\* The statuses the UPDATE of a command asks for.
Expected(op) ==
    CASE op = "request" -> {"none"}
      [] op = "revoke"  -> Open
      [] OTHER          -> {"pending_approval"}

\* The row a command leaves.
Changed(row, m, command) ==
    CASE command.op = "request" ->
            [row EXCEPT !.status = IF command.granting THEN "pending_assignment"
                                                       ELSE "pending_approval",
                        !.scopes = command.scopes,
                        !.granter = IF command.granting THEN {m} ELSE {}]
      [] command.op = "approve" ->
            [row EXCEPT !.status = "pending_assignment", !.granter = {m}]
      [] command.op = "reject" -> [row EXCEPT !.status = "rejected"]
      [] command.op = "revoke" -> [row EXCEPT !.status = "revoked"]

\* _change: a grant moved by someone else meanwhile is refused.
Commit(m) ==
    /\ \E command \in desk[m] :
          LET g == command.grant
          IN  grants' = [grants EXCEPT ![g] =
                            IF @.status \in Expected(command.op) THEN Changed(@, m, command)
                                                                 ELSE @]
    /\ desk' = [desk EXCEPT ![m] = {}]
    /\ UNCHANGED <<holds, enabled, listed, calls, changes>>
    /\ Watch

-----------------------------------------------------------------------------
(***************************************************************************)
(* The operator, and what changes around the grants.                       *)
(***************************************************************************)

\* assign_support_grant: the grant is locked, the staff list is not.
Assign(g, s) ==
    /\ grants[g].status = "pending_assignment" /\ s \in listed
    /\ grants' = [grants EXCEPT ![g].status = "active", ![g].staff = {s}]
    /\ UNCHANGED <<holds, enabled, listed, desk, calls, changes>>
    /\ Watch

\* Time passes the end of a running grant.
Expire(g) ==
    /\ grants[g].status = "active" /\ ~grants[g].expired
    /\ grants' = [grants EXCEPT ![g].expired = TRUE]
    /\ UNCHANGED <<holds, enabled, listed, desk, calls, changes>>
    /\ Watch

Happens == changes < MaxChanges /\ changes' = changes + 1

\* A membership is edited: a member loses every scope, or is given the side
\* of a granter.
EditMember(m) ==
    /\ Happens
    /\ \E S \in {{}, {SupportGrant}, GrantScopes \cup {SupportGrant}} \ {holds[m]} :
          holds' = [holds EXCEPT ![m] = S]
    /\ UNCHANGED <<grants, enabled, listed, desk, calls>>
    /\ Watch

\* The tenant is locked or its plan edited, and back.
EditPlan ==
    /\ Happens /\ enabled' = ~enabled
    /\ UNCHANGED <<grants, holds, listed, desk, calls>>
    /\ Watch

AddStaff(s) ==
    /\ Happens /\ s \notin listed /\ listed' = listed \cup {s}
    /\ UNCHANGED <<grants, holds, enabled, desk, calls>>
    /\ Watch

RemoveStaff(s) ==
    /\ Happens /\ s \in listed /\ listed' = listed \ {s}
    /\ UNCHANGED <<grants, holds, enabled, desk, calls>>
    /\ Watch

-----------------------------------------------------------------------------
(***************************************************************************)
(* A staff request: get_access_context_or_support and build.               *)
(***************************************************************************)

GotoPhase(s, from, to) ==
    /\ calls[s].phase = from
    /\ calls' = [calls EXCEPT ![s].phase = to]
    /\ UNCHANGED <<grants, holds, enabled, listed, desk, changes>>
    /\ Watch

\* A refusal ends the request where it stands.
CheckStaff(s, g) ==
    /\ calls[s].phase = "idle" /\ s \in listed
    /\ calls' = [calls EXCEPT ![s] = [phase |-> "grant", grant |-> g]]
    /\ UNCHANGED <<grants, holds, enabled, listed, desk, changes>>
    /\ unmet' = [p \in Staff |-> IF p = s THEN Fails(s)' ELSE unmet[p] \cap Fails(p)']

\* Mutant: the status is read, the end of the grant is not.
ReadGrantEndless(s) ==
    LET g == calls[s].grant
    IN  GotoPhase(s, "grant",
             IF grants[g].staff = {s} /\ grants[g].status = "active" THEN "granter" ELSE "idle")

\* grant_for_staff, and the reading of its status and end that follows.
ReadGrant(s) ==
    LET g == calls[s].grant
    IN  GotoPhase(s, "grant", IF grants[g].staff = {s} /\ GrantLive(g) THEN "granter" ELSE "idle")

ReadGranter(s) ==
    GotoPhase(s, "granter", IF GranterStands(calls[s].grant) THEN "plan" ELSE "idle")

ReadPlan(s) == GotoPhase(s, "plan", IF enabled THEN "record" ELSE "idle")

\* The request is served once its audit event is in the customer's trail;
\* when the trail refuses it, so is the request.
RecordAccess(s) == GotoPhase(s, "record", "acting")

RecordFails(s) == GotoPhase(s, "record", "idle")

Finish(s) == GotoPhase(s, "acting", "idle")

SupportNext ==
    \/ \E m \in Members, g \in Grants, S \in ScopeSets : TakeRequest(m, g, S)
    \/ \E m \in Members, g \in Grants : TakeApprove(m, g) \/ TakeReject(m, g) \/ TakeRevoke(m, g)
    \/ \E m \in Members : Commit(m) \/ EditMember(m)
    \/ \E g \in Grants, s \in Staff : Assign(g, s) \/ CheckStaff(s, g)
    \/ \E g \in Grants : Expire(g)
    \/ EditPlan
    \/ \E s \in Staff : \/ AddStaff(s) \/ RemoveStaff(s) \/ ReadGrant(s) \/ ReadGranter(s)
                        \/ ReadPlan(s) \/ RecordAccess(s) \/ RecordFails(s) \/ Finish(s)

SupportSpec == SupportInit /\ [][SupportNext]_supportVars

-----------------------------------------------------------------------------
(***************************************************************************)
(* Properties.                                                             *)
(***************************************************************************)

\* Whoever acts under a grant was, at some moment of that very request, on the
\* staff list, named by the grant while it ran, under a granter who held all
\* it stamps, at a tenant with support access: nothing that ended before the
\* request began is ever used.  And somebody who could grant stands behind it.
AccessUnderGrant ==
    \A s \in Staff :
        calls[s].phase = "acting" =>
            /\ unmet[s] = {}
            /\ grants[calls[s].grant].staff = {s}
            /\ grants[calls[s].grant].granter # {}

\* The contract's phase of a grant, and who is inside.
PhaseOf(row) ==
    CASE row.status = "none"               -> "none"
      [] row.status = "pending_approval"   -> "asked"
      [] row.status = "pending_assignment" -> "agreed"
      [] row.status = "active" /\ ~row.expired -> "running"
      [] OTHER                             -> "over"

Contract == INSTANCE SupportContract WITH
    phase <- [g \in Grants |-> PhaseOf(grants[g])],
    owner <- [g \in Grants |-> grants[g].staff],
    inside <- [s \in Staff |-> IF calls[s].phase \in {"idle", "grant"} THEN {}
                                                                 ELSE {calls[s].grant}]

\* Commands that race, grants that end mid-request and staff who come and go
\* keep the customer's contract: a grant moves forward only, keeps its owner,
\* and admits nobody else and nobody once it is over.
KeepsContract == Contract!Spec
-----------------------------------------------------------------------------
(***************************************************************************)
(* The inductive invariant.                                                *)
(***************************************************************************)

\* What is stored has its type; what members hold is left to the first
\* memberships.
RowsTyped ==
    /\ grants \in [Grants -> GrantRows]
    /\ desk \in [Members -> AtMostOne(Commands)]
    /\ calls \in [Staff -> [phase: Phases, grant: Grants]]
    /\ unmet \in [Staff -> SUBSET Conditions]

\* A grant that was agreed to names its granter, and only one that was handed
\* out names staff or has an end.
RowsInOrder ==
    \A g \in Grants :
        /\ grants[g].status \in {"pending_assignment", "active"} => grants[g].granter # {}
        /\ grants[g].staff # {} =>
              grants[g].status \in {"active", "revoked"} /\ grants[g].granter # {}
        /\ grants[g].expired => grants[g].status \in {"active", "revoked"}

\* A request has seen each condition it has passed hold since it began.
Passed(s) ==
    /\ calls[s].phase # "idle" => "listed" \notin unmet[s]
    /\ calls[s].phase \in {"granter", "plan", "record", "acting"} =>
          /\ "assigned" \notin unmet[s] /\ "live" \notin unmet[s]
          /\ grants[calls[s].grant].staff = {s}
    /\ calls[s].phase \in {"plan", "record", "acting"} => "granter" \notin unmet[s]
    /\ calls[s].phase \in {"record", "acting"} => "plan" \notin unmet[s]

PassedWasMet == \A s \in Staff : Passed(s)

GrantInv == RowsTyped /\ RowsInOrder /\ PassedWasMet
=============================================================================

------------------------------ MODULE MCRequests -----------------------------
(* What stands between a request and its effect: the idempotency key it       *)
(* carries, the person behind it, the roles, grants and managers that let     *)
(* them in, and the operators who provision tenants.  The parts share no      *)
(* variable and each is explored alone: a behaviour picks its part and keeps  *)
(* to it, so the states of this model are the sum of theirs.                  *)
EXTENDS HttpIdempotency, SupportAccess, Memberships, SignIn, OrgChart, Provisioning, TLC

CONSTANTS
    x1, x2, x3, x4, k1, f1, f2,
    g1, m1, m2, s1, s2, p1, p2, i1, i2, i3, t1, t2, work, Work, other,
    makerChecker, makerPayer

VARIABLE part

\* Four requests that present one key: three sends of one request and one
\* different request that reuses its key.
OneKey == [x \in Requests |-> k1]
OneOdd == [x \in Requests |-> IF x = x4 THEN f2 ELSE f1]
KeyFaults == {{}, {"crash", "store"}, FaultKinds}

\* One member who may grant and one who may ask; one grant, two of the staff.
OneGranter == (m1 :> {"read", "support.grant"}) @@ (m2 :> {"support.request"})

\* Making and checking can be waived, making and paying cannot.
RoleScopes == [maker |-> {"make"}, org_admin |-> {"platform", "check"}, extra |-> {}]
LaterScopes == [RoleScopes EXCEPT !.extra = {"pay"}]
Making == [r \in Rules |-> {"make"}]
CheckingOrPaying == (makerChecker :> {"check"}) @@ (makerPayer :> {"pay"})

\* Two identities of one person, who spell their email differently, and one
\* without an email.
OnePerson == (i1 :> {work}) @@ (i2 :> {Work}) @@ (i3 :> {})
OneMailbox == [e \in Emails |-> work]

allVars == <<part, vars, supportVars, membershipVars, signInVars, chartVars, provisioningVars>>

RequestsInit ==
    /\ part \in {"keys", "support", "memberships", "sign-ins", "chart", "operators", "workspaces"}
    /\ Init /\ SupportInit /\ MembershipInit /\ SignInInit /\ ChartInit /\ ProvisioningInit
    /\ part # "keys" => env = {}
    /\ part \notin {"operators", "workspaces"} => operators = {p1, p2}

\* The parts other than p stay as they are.
Rest(p) ==
    /\ UNCHANGED part
    /\ IF p = "keys" THEN TRUE ELSE UNCHANGED vars
    /\ IF p = "support" THEN TRUE ELSE UNCHANGED supportVars
    /\ IF p = "memberships" THEN TRUE ELSE UNCHANGED membershipVars
    /\ IF p = "sign-ins" THEN TRUE ELSE UNCHANGED signInVars
    /\ IF p = "chart" THEN TRUE ELSE UNCHANGED chartVars
    /\ IF p = "operators" THEN TRUE ELSE UNCHANGED provisioningVars

KeySteps == part = "keys" /\ Next /\ Rest("keys")
SupportSteps == part = "support" /\ SupportNext /\ Rest("support")
MembershipSteps == part = "memberships" /\ MembershipNext /\ Rest("memberships")
SignInSteps == part = "sign-ins" /\ SignInNext /\ Rest("sign-ins")
ChartSteps == part = "chart" /\ ChartNext /\ Rest("chart")

\* Two operators at once while nobody opens or archives a workspace, and one at a
\* time while somebody does: no guard of an operator's call reads a workspace.
OperatorSteps == part = "operators" /\ OperatorsNext /\ Rest("operators")
WorkspaceSteps ==
    /\ part = "workspaces" /\ ProvisioningNext /\ Rest("operators")
    /\ Cardinality({p \in Persons : requests'[p] # NotRequesting}) <= 1

RequestsNext ==
    \/ KeySteps \/ SupportSteps \/ MembershipSteps \/ SignInSteps \/ ChartSteps
    \/ OperatorSteps \/ WorkspaceSteps

RequestsSpec == RequestsInit /\ [][RequestsNext]_allVars

\* No part tells its staff, people or admins apart.
Alike == Permutations({p1, p2}) \cup Permutations({s1, s2})
=============================================================================

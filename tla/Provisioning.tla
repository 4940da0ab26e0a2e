---------------------------- MODULE Provisioning -----------------------------
(* The platform operators' plane: who is one, and which tenants there are     *)
(* (provisioning.py, provisioning_repo.py, routes/v1/platform.py); and the    *)
(* workspaces an Org Admin opens in a tenant (admin_console.py).              *)
(*                                                                            *)
(* The door is one transaction (`get_provisioning_context`), the checks of a  *)
(* use case others, its write another, and the row of the provisioning audit  *)
(* one more; a request can die between any two.  Offboarding requests are     *)
(* Offboarding's, support staff and assignments SupportAccess's, the role of  *)
(* an Org Admin Memberships'.                                                 *)
(*                                                                            *)
(* Operators marked Mutant are wrong versions of the definition they precede; *)
(* no specification uses them.                                                *)
EXTENDS Naturals, FiniteSets

CONSTANTS
    Persons,  \* who has signed in
    Slugs,    \* what a tenant may be called
    Names,    \* what a workspace may be called, besides "main"
    Nothing

VARIABLES
    operators,  \* the allow-list
    tenants,    \* the status of each, by slug
    spaces,     \* their workspaces: "open" or "archived"
    requests,   \* what each person is asking for, and how far it is
    lastRow,    \* the last row of the audit about each person and each slug
    blurred     \* history: those whose last write lost its row, or crossed another

provisioningVars == <<operators, tenants, spaces, requests, lastRow, blurred>>

Deeds == {"create", "lock", "unlock", "rename", "add", "remove"}

ASSUME ProvisioningAssumption == Nothing \notin Deeds

NotRequesting == [at |-> "idle", deed |-> Nothing, on |-> Nothing]
OpenCalls == [at: {"idle", "check", "write", "audit"}, deed: Deeds \cup {Nothing},
             on: Persons \cup Slugs \cup {Nothing}]

ProvisioningTypeOK ==
    /\ operators \subseteq Persons
    /\ DOMAIN tenants \subseteq Slugs /\ \A s \in DOMAIN tenants : tenants[s] \in {"active", "locked"}
    /\ DOMAIN spaces \subseteq (DOMAIN tenants) \X (Names \cup {"main"})
    /\ \A w \in DOMAIN spaces : spaces[w] \in {"open", "archived"}
    /\ requests \in [Persons -> OpenCalls]
    /\ lastRow \in [Persons \cup Slugs -> Deeds \cup {Nothing}]
    /\ blurred \subseteq Persons \cup Slugs

\* The first operators are put on the list when the system is set up.
ProvisioningInit ==
    /\ operators \in (SUBSET Persons) \ {{}} /\ tenants = << >> /\ spaces = << >>
    /\ requests = [p \in Persons |-> NotRequesting]
    /\ lastRow = [x \in Persons \cup Slugs |-> Nothing] /\ blurred = {}

\* What the service refuses before it reads anything.
MayAsk(p, deed, on) ==
    /\ IF deed \in {"add", "remove"} THEN on \in Persons ELSE on \in Slugs
    /\ deed = "remove" => on # p

\* `get_provisioning_context`: nobody who is not on the list gets past it.
Enter(p, deed, on) ==
    /\ requests[p] = NotRequesting /\ p \in operators /\ MayAsk(p, deed, on)
    /\ requests' = [requests EXCEPT ![p] =
          [at |-> IF deed = "create" THEN "check" ELSE "write", deed |-> deed, on |-> on]]
    /\ UNCHANGED <<operators, tenants, spaces, lastRow, blurred>>

\* `slug_exists`, in a transaction of its own.
Check(p) ==
    /\ requests[p].at = "check"
    /\ requests' = [requests EXCEPT ![p] = IF requests[p].on \in DOMAIN tenants
                                           THEN NotRequesting ELSE [@ EXCEPT !.at = "write"]]
    /\ UNCHANGED <<operators, tenants, spaces, lastRow, blurred>>

\* No row changed and the answer is "unknown"; a slug that was taken meanwhile
\* breaks the unique index.
Refused(p) ==
    LET r == requests[p]
    IN  \/ r.deed = "create" /\ r.on \in DOMAIN tenants
        \/ r.deed \in {"lock", "unlock", "rename"} /\ r.on \notin DOMAIN tenants
        \/ r.deed = "remove" /\ r.on \notin operators

\* Mutant: whether a row changed is not asked, and the deed is recorded.
RefuseRecorded(p) ==
    /\ requests[p].at = "write" /\ Refused(p)
    /\ requests' = [requests EXCEPT ![p].at = "audit"]
    /\ UNCHANGED <<operators, tenants, spaces, lastRow, blurred>>

Refuse(p) ==
    /\ requests[p].at = "write" /\ Refused(p)
    /\ requests' = [requests EXCEPT ![p] = NotRequesting]
    /\ UNCHANGED <<operators, tenants, spaces, lastRow, blurred>>

\* A name says nothing of whether a tenant is open.
Settling == Deeds \ {"rename"}

\* Requests that have written what they ask of x and not yet their audit row.
Unrecorded(x) == {p \in Persons : /\ requests[p].at = "audit" /\ requests[p].on = x
                                  /\ requests[p].deed \in Settling}

Opened(w) == [v \in DOMAIN spaces \cup {w} |-> IF v = w THEN "open" ELSE spaces[v]]

\* One transaction: a new tenant comes with its main workspace and its plan.
Write(p) ==
    LET r == requests[p]
    IN  /\ r.at = "write" /\ ~Refused(p)
        /\ operators' = CASE r.deed = "add"    -> operators \cup {r.on}
                          [] r.deed = "remove" -> operators \ {r.on}
                          [] OTHER             -> operators
        /\ tenants' = CASE r.deed = "create" ->
                                [s \in DOMAIN tenants \cup {r.on} |->
                                    IF s = r.on THEN "active" ELSE tenants[s]]
                        [] r.deed = "lock"   -> [tenants EXCEPT ![r.on] = "locked"]
                        [] r.deed = "unlock" -> [tenants EXCEPT ![r.on] = "active"]
                        [] OTHER             -> tenants
        /\ spaces' = IF r.deed = "create" THEN Opened(<<r.on, "main">>) ELSE spaces
        /\ requests' = [requests EXCEPT ![p].at = "audit"]
        /\ blurred' = IF r.deed \notin Settling THEN blurred
                      ELSE IF Unrecorded(r.on) = {} THEN blurred \ {r.on} ELSE blurred \cup {r.on}
        /\ UNCHANGED lastRow

\* `_audit`.
RecordAudit(p) ==
    /\ requests[p].at = "audit"
    /\ requests' = [requests EXCEPT ![p] = NotRequesting]
    /\ lastRow' = IF requests[p].deed \in Settling
                  THEN [lastRow EXCEPT ![requests[p].on] = requests[p].deed] ELSE lastRow
    /\ UNCHANGED <<operators, tenants, spaces, blurred>>

\* The process dies, or the database refuses the audit row.
Die(p) ==
    /\ requests[p] # NotRequesting
    /\ requests' = [requests EXCEPT ![p] = NotRequesting]
    /\ blurred' = blurred \cup {x \in Persons \cup Slugs : p \in Unrecorded(x)}
    /\ UNCHANGED <<operators, tenants, spaces, lastRow>>

\* An Org Admin's calls.  A slug is unique in its tenant: the second insert is the
\* conflict.  A locked tenant gives nobody a context.
CreateWorkspace(s, n) ==
    /\ s \in DOMAIN tenants /\ tenants[s] = "active" /\ <<s, n>> \notin DOMAIN spaces
    /\ spaces' = Opened(<<s, n>>)
    /\ UNCHANGED <<operators, tenants, requests, lastRow, blurred>>

\* Once; nothing in the code reads the mark or takes it back, and the main
\* workspace may be archived like any other.
ArchiveWorkspace(w) ==
    /\ tenants[w[1]] = "active" /\ spaces[w] = "open"
    /\ spaces' = [spaces EXCEPT ![w] = "archived"]
    /\ UNCHANGED <<operators, tenants, requests, lastRow, blurred>>

OperatorsNext ==
    \/ \E p \in Persons, deed \in Deeds, on \in Persons \cup Slugs : Enter(p, deed, on)
    \/ \E p \in Persons : Check(p) \/ Refuse(p) \/ Write(p) \/ RecordAudit(p) \/ Die(p)

ProvisioningNext ==
    \/ \E s \in Slugs, n \in Names : CreateWorkspace(s, n)
    \/ \E w \in DOMAIN spaces : ArchiveWorkspace(w)
    \/ OperatorsNext

ProvisioningSpec == ProvisioningInit /\ [][ProvisioningNext]_provisioningVars

-----------------------------------------------------------------------------
\* What a row says of the person or the tenant it is about.
Says(deed, x) ==
    CASE deed = "add"                  -> x \in operators
      [] deed = "remove"               -> x \notin operators
      [] deed = "lock"                 -> x \in DOMAIN tenants /\ tenants[x] = "locked"
      [] deed \in {"create", "unlock"} -> x \in DOMAIN tenants /\ tenants[x] = "active"
      [] OTHER                         -> x \notin DOMAIN tenants

\* Who is an operator and which tenants are locked is what the last row of the
\* provisioning audit about them says, though the row is written in a transaction
\* after the deed's: once no request is between the two, and unless the last write
\* was made while another one's row was missing, or lost its own
\* (`ProvisioningService._audit`, `add_operator`, `remove_operator`,
\* `set_tenant_status`, `create_tenant`).
TrailTellsState ==
    \A x \in (Persons \cup Slugs) \ blurred : Unrecorded(x) = {} => Says(lastRow[x], x)

-----------------------------------------------------------------------------
(* The inductive invariant.                                                   *)

\* A request under way asks for what it may.
AsksMayBe ==
    \A p \in Persons : requests[p].at # "idle" =>
        requests[p].deed \in Deeds /\ MayAsk(p, requests[p].deed, requests[p].on)

\* Two rows are missing only where they crossed, and the one that is missing says
\* what is.
MissingRowsTell ==
    \A x \in (Persons \cup Slugs) \ blurred :
        /\ \A p, q \in Unrecorded(x) : p = q
        /\ \A p \in Unrecorded(x) : Says(requests[p].deed, x)

OperatorInv == ProvisioningTypeOK /\ AsksMayBe /\ MissingRowsTell /\ TrailTellsState
=============================================================================

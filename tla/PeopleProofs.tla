---------------------------- MODULE PeopleProofs -----------------------------
(* Theorems about the people of the platform: their roles (Memberships),      *)
(* their sign-ins (SignIn), whom they report to (OrgChart) and who provisions *)
(* tenants (Provisioning).  The four share no variable; each theorem is about *)
(* one of them, for every value of its constants.                             *)
EXTENDS Memberships, SignIn, OrgChart, Provisioning, FiniteSetTheorems, TLAPS

-----------------------------------------------------------------------------
(* Memberships: duties that conflict are held together only under a waiver.   *)

LEMMA EmptyHoldsNothing == Broken(scopesOf, NoRow) = {}
  <1>1. HeldIn(scopesOf, NoRow) = {}
    BY DEF HeldIn, NoRow
  <1> QED BY <1>1 DEF Broken

\* The statement of a write of a legal row (Begin) keeps every part.
LEMMA BeginStep ==
    ASSUME DutiesInv, NEW p \in People, NEW row \in MembershipRow, BeginWrite(p, row),
           reads' \in [People -> SUBSET [roles: SUBSET Roles]],
           UNCHANGED <<scopesOf, rows, waivers, revoking>>
    PROVE  DutiesInv'
  <1> DEFINE w == [row |-> row, relies |-> Broken(scopesOf, row)]
  <1>1. writes' = [writes EXCEPT ![p] = {w}] /\ Stands(Broken(scopesOf, row))
    BY DEF BeginWrite, Stands
  <1>2. w \in [row: MembershipRow, relies: SUBSET Rules]
    BY DEF Broken
  <1>3. MembershipTypeOK'
    BY <1>1, <1>2 DEF DutiesInv, MembershipTypeOK
  <1>4. RowsStand'
    BY DEF DutiesInv, RowsStand, Stands, InForce
  <1>5. WritesStand'
    <2> SUFFICES ASSUME NEW q \in People, NEW v \in writes'[q]
                 PROVE  v.relies = Broken(scopesOf, v.row) /\ Stands(v.relies)
      BY DEF WritesStand, Stands, InForce
    <2>1. CASE q = p
      BY <1>1, <2>1 DEF DutiesInv, MembershipTypeOK
    <2>2. CASE q # p
      BY <1>1, <2>2 DEF DutiesInv, MembershipTypeOK, WritesStand
    <2> QED BY <2>1, <2>2
  <1>6. TwoPeople'
    BY DEF DutiesInv, TwoPeople
  <1> QED BY <1>3, <1>4, <1>5, <1>6 DEF DutiesInv

\* The four use cases and the operator's grant_role write legal rows.
LEMMA StatementStep ==
    ASSUME DutiesInv, NEW p \in People, NEW super \in BOOLEAN,
           \/ \E R \in SUBSET Roles : \/ GrantMembership(super, p, R)
                                      \/ SetMemberships(super, p, R) \/ Invite(super, p, R)
           \/ \E S \in SUBSET Sets : SetPermissionSets(super, p, S)
    PROVE  DutiesInv'
  <1>1. rows[p] \in MembershipRow /\ UNCHANGED <<scopesOf, rows, reads, waivers, revoking>>
    BY DEF DutiesInv, MembershipTypeOK, GrantMembership, SetMemberships, Invite, SetPermissionSets
  <1>2. \A R \in SUBSET Roles : Planned(p, R) \subseteq Roles
    BY <1>1 DEF Planned, MembershipRow
  <1>3. PICK row \in MembershipRow : BeginWrite(p, row)
    <2>1. ASSUME NEW R \in SUBSET Roles, GrantMembership(super, p, R)
          PROVE  \E row \in MembershipRow : BeginWrite(p, row)
      <3>1. [roles |-> R, sets |-> rows[p].sets] \in MembershipRow
        BY <1>1 DEF MembershipRow
      <3> QED BY <2>1, <3>1 DEF GrantMembership
    <2>2. ASSUME NEW R \in SUBSET Roles, SetMemberships(super, p, R)
          PROVE  \E row \in MembershipRow : BeginWrite(p, row)
      <3>1. [roles |-> Planned(p, R), sets |-> rows[p].sets] \in MembershipRow /\ NoRow \in MembershipRow
        BY <1>1, <1>2 DEF MembershipRow, NoRow
      <3>2. PICK row : BeginWrite(p, row) /\ (row = NoRow
                           \/ row = [roles |-> Planned(p, R), sets |-> rows[p].sets])
        BY <2>2 DEF SetMemberships
      <3> QED BY <3>1, <3>2
    <2>3. ASSUME NEW R \in SUBSET Roles, Invite(super, p, R)
          PROVE  \E row \in MembershipRow : BeginWrite(p, row)
      <3>1. [roles |-> R, sets |-> {}] \in MembershipRow
        BY DEF MembershipRow
      <3> QED BY <2>3, <3>1 DEF Invite
    <2>4. ASSUME NEW S \in SUBSET Sets, SetPermissionSets(super, p, S)
          PROVE  \E row \in MembershipRow : BeginWrite(p, row)
      <3>1. [roles |-> rows[p].roles, sets |-> S] \in MembershipRow
        BY <1>1 DEF MembershipRow
      <3> QED BY <2>4, <3>1 DEF SetPermissionSets
    <2> QED BY <2>1, <2>2, <2>3, <2>4
  <1> QED BY <1>1, <1>3, BeginStep DEF DutiesInv, MembershipTypeOK

LEMMA WriteRoleStep ==
    ASSUME DutiesInv, NEW p \in People, WriteRole(p)
    PROVE  DutiesInv'
  <1>1. PICK read \in reads[p] :
            IF OrgAdmin \in read.roles \/ (read.roles = {}) # (rows[p] = NoRow)
            THEN UNCHANGED writes
            ELSE BeginWrite(p, [roles |-> read.roles \cup {OrgAdmin}, sets |-> rows[p].sets])
    BY DEF WriteRole
  <1>2. /\ reads' = [reads EXCEPT ![p] = {}]
        /\ UNCHANGED <<scopesOf, rows, waivers, revoking>>
    BY DEF WriteRole
  <1>3. reads' \in [People -> SUBSET [roles: SUBSET Roles]]
    BY <1>2 DEF DutiesInv, MembershipTypeOK
  <1>4. [roles |-> read.roles \cup {OrgAdmin}, sets |-> rows[p].sets] \in MembershipRow
    BY MembershipAssumption DEF DutiesInv, MembershipTypeOK, MembershipRow
  <1>5. CASE UNCHANGED writes
    BY <1>2, <1>3, <1>5
       DEF DutiesInv, MembershipTypeOK, RowsStand, WritesStand, TwoPeople, Stands, InForce
  <1>6. CASE BeginWrite(p, [roles |-> read.roles \cup {OrgAdmin}, sets |-> rows[p].sets])
    BY <1>2, <1>3, <1>4, <1>6, BeginStep
  <1> QED BY <1>1, <1>5, <1>6

\* A row that is written or deleted.
LEMMA CommitStep ==
    ASSUME DutiesInv, NEW p \in People, CommitWrite(p) \/ RevokeMembership(p)
    PROVE  DutiesInv'
  <1>1. PICK row \in MembershipRow : rows' = [rows EXCEPT ![p] = row] /\ Stands(Broken(scopesOf, row))
    <2>1. CASE CommitWrite(p)
      <3>1. PICK w \in writes[p] : rows' = [rows EXCEPT ![p] = w.row]
        BY <2>1 DEF CommitWrite
      <3>2. w.row \in MembershipRow /\ Stands(Broken(scopesOf, w.row))
        BY DEF DutiesInv, MembershipTypeOK, WritesStand
      <3> QED BY <3>1, <3>2
    <2>2. CASE RevokeMembership(p)
      <3>1. NoRow \in MembershipRow /\ Stands(Broken(scopesOf, NoRow))
        BY EmptyHoldsNothing DEF MembershipRow, NoRow, Stands
      <3> QED BY <2>2, <3>1 DEF RevokeMembership
    <2> QED BY <2>1, <2>2
  <1>2. UNCHANGED <<scopesOf, reads, waivers, revoking>>
    BY DEF CommitWrite, RevokeMembership
  <1>3. writes' = writes \/ writes' = [writes EXCEPT ![p] = {}]
    BY DEF CommitWrite, RevokeMembership
  <1>4. \A q \in People : writes'[q] \subseteq writes[q]
    BY <1>3 DEF DutiesInv, MembershipTypeOK
  <1>5. MembershipTypeOK'
    BY <1>1, <1>2, <1>3 DEF DutiesInv, MembershipTypeOK
  <1>6. RowsStand'
    <2> SUFFICES ASSUME NEW q \in People PROVE Stands(Broken(scopesOf, rows'[q]))
      BY <1>2 DEF RowsStand, Stands, InForce
    <2> QED BY <1>1 DEF DutiesInv, MembershipTypeOK, RowsStand
  <1>7. WritesStand'
    BY <1>2, <1>4 DEF DutiesInv, WritesStand, Stands, InForce
  <1>8. TwoPeople'
    BY <1>2 DEF DutiesInv, TwoPeople
  <1> QED BY <1>5, <1>6, <1>7, <1>8 DEF DutiesInv

LEMMA ReadStep ==
    ASSUME DutiesInv, NEW p \in People, ReadRoles(p) \/ RollBack(p)
    PROVE  DutiesInv'
  <1>1. UNCHANGED <<scopesOf, rows, waivers, revoking>>
    BY DEF ReadRoles, RollBack
  <1>2. \A q \in People : writes'[q] \subseteq writes[q]
    BY DEF ReadRoles, RollBack, DutiesInv, MembershipTypeOK
  <1>3. MembershipTypeOK'
    BY DEF ReadRoles, RollBack, DutiesInv, MembershipTypeOK, MembershipRow
  <1> QED
    BY <1>1, <1>2, <1>3 DEF DutiesInv, RowsStand, WritesStand, TwoPeople, Stands, InForce

\* Proposing and confirming only ever add to what is in force.
LEMMA WaiveStep ==
    ASSUME DutiesInv, NEW p \in People, NEW r \in Rules, Waive(p, r) \/ Confirm(p, r)
    PROVE  DutiesInv'
  <1>1. UNCHANGED <<scopesOf, rows, writes, reads, revoking>>
    BY DEF Waive, Confirm
  <1>2. MembershipTypeOK'
    BY DEF DutiesInv, MembershipTypeOK, Waive, Confirm
  <1>3. \A q \in Rules : waivers[q].state = "confirmed" => waivers'[q].state = "confirmed"
    BY DEF DutiesInv, MembershipTypeOK, Waive, Confirm
  <1>4. RowsStand'
    BY <1>1, <1>3 DEF DutiesInv, RowsStand, Stands, InForce, Broken
  <1>5. WritesStand'
    BY <1>1, <1>3 DEF DutiesInv, WritesStand, Stands, InForce, Broken
  <1>6. TwoPeople'
    BY DEF DutiesInv, MembershipTypeOK, TwoPeople, Waive, Confirm
  <1> QED BY <1>2, <1>4, <1>5, <1>6 DEF DutiesInv

\* A waiver is taken back only when nothing relies on it, and nothing comes to
\* rely on it while it is being taken back.
LEMMA RevokeStep ==
    ASSUME DutiesInv, NEW r \in Rules, Revoke(r) \/ CommitRevoke(r) \/ RollBackRevoke(r)
    PROVE  DutiesInv'
  <1>1. UNCHANGED <<scopesOf, rows, writes, reads>>
    BY DEF Revoke, CommitRevoke, RollBackRevoke
  <1>2. MembershipTypeOK'
    BY DEF DutiesInv, MembershipTypeOK, Revoke, CommitRevoke, RollBackRevoke, NoWaiver
  <1>3. /\ \A p \in People : Revoke(r) \/ CommitRevoke(r) => r \notin Broken(scopesOf, rows[p])
        /\ \A p \in People : \A w \in writes[p] : Revoke(r) \/ CommitRevoke(r) => r \notin w.relies
    BY DEF DutiesInv, RowsStand, WritesStand, Stands, Revoke, CommitRevoke, Shared
  <1>4. /\ \A q \in Rules \ {r} : waivers'[q] = waivers[q]
        /\ revoking' \subseteq revoking \cup {r}
        /\ Revoke(r) \/ CommitRevoke(r) \/ (waivers' = waivers /\ revoking' \subseteq revoking)
    BY DEF DutiesInv, MembershipTypeOK, Revoke, CommitRevoke, RollBackRevoke
  <1>5. RowsStand'
    BY <1>1, <1>3, <1>4 DEF DutiesInv, RowsStand, Stands, InForce, Broken
  <1>6. WritesStand'
    BY <1>1, <1>3, <1>4 DEF DutiesInv, WritesStand, Stands, InForce, Broken
  <1>7. TwoPeople'
    BY DEF DutiesInv, MembershipTypeOK, TwoPeople, Revoke, CommitRevoke, RollBackRevoke, NoWaiver
  <1> QED BY <1>2, <1>5, <1>6, <1>7 DEF DutiesInv

\* A later catalogue is judged against everybody who holds the key it changes.
LEMMA CatalogueStep ==
    ASSUME DutiesInv, NEW k \in RoleKeys, ChangeScopes(k)
    PROVE  DutiesInv'
  <1>1. /\ scopesOf' = [scopesOf EXCEPT ![k] = Revised[k]]
        /\ \A p \in People : writes[p] = {}
        /\ UNCHANGED <<rows, writes, reads, waivers, revoking>>
        /\ \A p \in People : k \in rows[p].roles \cup rows[p].sets =>
              Broken(scopesOf', rows[p]) \subseteq InForce \ revoking
    BY DEF ChangeScopes
  <1>2. MembershipTypeOK'
    BY <1>1, MembershipAssumption DEF DutiesInv, MembershipTypeOK
  <1>3. ASSUME NEW p \in People, k \notin rows[p].roles \cup rows[p].sets
        PROVE  Broken(scopesOf', rows[p]) = Broken(scopesOf, rows[p])
    <2>1. \A j \in rows[p].roles \cup rows[p].sets : scopesOf'[j] = scopesOf[j]
      BY <1>1, <1>3 DEF DutiesInv, MembershipTypeOK, MembershipRow, RoleKeys
    <2>2. HeldIn(scopesOf', rows[p]) = HeldIn(scopesOf, rows[p])
      BY <2>1 DEF HeldIn
    <2> QED BY <2>2 DEF Broken
  <1>4. RowsStand'
    <2> SUFFICES ASSUME NEW p \in People PROVE Stands(Broken(scopesOf', rows[p]))
      BY <1>1 DEF RowsStand, Stands, InForce
    <2>1. CASE k \in rows[p].roles \cup rows[p].sets
      BY <1>1, <2>1 DEF Stands
    <2>2. CASE k \notin rows[p].roles \cup rows[p].sets
      BY <1>3, <2>2 DEF DutiesInv, RowsStand
    <2> QED BY <2>1, <2>2
  <1>5. WritesStand' /\ TwoPeople'
    BY <1>1 DEF DutiesInv, WritesStand, TwoPeople
  <1> QED BY <1>2, <1>4, <1>5 DEF DutiesInv

\* The invariant, for any catalogue of any roles and permission sets.
THEOREM DutiesInvariant == MembershipSpec => []DutiesInv
  <1>1. MembershipInit => DutiesInv
    <2> SUFFICES ASSUME MembershipInit PROVE DutiesInv
      OBVIOUS
    <2>1. MembershipTypeOK
      BY MembershipAssumption DEF MembershipInit, MembershipTypeOK, MembershipRow, NoRow, NoWaiver
    <2>2. RowsStand
      BY EmptyHoldsNothing DEF MembershipInit, RowsStand, Stands
    <2>3. WritesStand /\ TwoPeople
      BY DEF MembershipInit, WritesStand, TwoPeople, NoWaiver
    <2> QED BY <2>1, <2>2, <2>3 DEF DutiesInv
  <1>2. DutiesInv /\ [MembershipNext]_membershipVars => DutiesInv'
    <2> SUFFICES ASSUME DutiesInv, [MembershipNext]_membershipVars PROVE DutiesInv'
      OBVIOUS
    <2>1. CASE UNCHANGED membershipVars
      BY <2>1 DEF membershipVars, DutiesInv, MembershipTypeOK, RowsStand, WritesStand, TwoPeople,
                  Stands, InForce
    <2> QED
      BY <2>1, StatementStep, WriteRoleStep, CommitStep, ReadStep, WaiveStep, RevokeStep,
         CatalogueStep DEF MembershipNext
  <1> QED BY <1>1, <1>2, PTL DEF MembershipSpec

\* Nobody holds both sides of a rule that two people have not waived
\* (sod_violation and the triggers that call it).
THEOREM ConflictsWaived == MembershipSpec => []ConflictsAreWaived
  <1>1. DutiesInv => ConflictsAreWaived
    <2> SUFFICES ASSUME DutiesInv, NEW p \in People, NEW r \in Broken(scopesOf, rows[p])
                 PROVE  /\ r \in Waivable /\ waivers[r].state = "confirmed"
                        /\ Cardinality(waivers[r].by) = 2
      BY DEF ConflictsAreWaived
    <2>1. r \in Rules /\ r \in Waivable /\ waivers[r].state = "confirmed"
      BY DEF DutiesInv, RowsStand, Stands, InForce, Broken
    <2>2. PICK a, b \in People : a # b /\ waivers[r].by = {a, b}
      BY <2>1 DEF DutiesInv, TwoPeople
    <2>3. IsFiniteSet({a}) /\ Cardinality({a}) = 1
      BY FS_Singleton
    <2>4. Cardinality({a} \cup {b}) = Cardinality({a}) + 1
      BY <2>2, <2>3, FS_AddElement
    <2>5. {a, b} = {a} \cup {b}
      OBVIOUS
    <2> QED BY <2>1, <2>2, <2>3, <2>4, <2>5
  <1> QED BY <1>1, DutiesInvariant, PTL

-----------------------------------------------------------------------------
(* OrgChart: nobody reports to themselves, and sight goes one way.           *)

\* The subtree of a member is the least closed set that it is in.
LEMMA SubtreeIsLeast ==
    ASSUME NEW r \in DOMAIN manager
    PROVE  /\ r \in SubtreeOf(r) /\ SubtreeOf(r) \subseteq DOMAIN manager
           /\ Closed(SubtreeOf(r))
           /\ \A S \in SUBSET DOMAIN manager : r \in S /\ Closed(S) => SubtreeOf(r) \subseteq S
  BY DEF SubtreeOf, Closed

\* Who is in the subtree of another member has its manager in it.
LEMMA ManagersInSubtree ==
    ASSUME NEW r \in DOMAIN manager, NEW x \in SubtreeOf(r), x # r
    PROVE  manager[x] \in SubtreeOf(r)
  <1> DEFINE S == SubtreeOf(r) \ {x}
  <1>1. SUFFICES ASSUME manager[x] \notin SubtreeOf(r) PROVE FALSE
    OBVIOUS
  <1>2. r \in S /\ S \in SUBSET DOMAIN manager
    BY SubtreeIsLeast
  <1>3. Closed(S)
    BY <1>1, SubtreeIsLeast DEF Closed
  <1>4. SubtreeOf(r) \subseteq S
    BY <1>2, <1>3, SubtreeIsLeast
  <1> QED BY <1>4

\* On a chart without cycles no two members are in each other's subtree.
LEMMA OneWay ==
    ASSUME NoCycle, NEW p \in DOMAIN manager, NEW q \in DOMAIN manager, p # q,
           p \in SubtreeOf(q), q \in SubtreeOf(p)
    PROVE  FALSE
  <1> DEFINE T == SubtreeOf(p)
  <1>1. SubtreeOf(q) = T
    BY SubtreeIsLeast
  <1>2. \A x \in T : manager[x] \in T
    BY <1>1, ManagersInSubtree
  <1>3. p \in T /\ T \subseteq DOMAIN manager
    BY SubtreeIsLeast
  <1> QED BY <1>2, <1>3 DEF NoCycle

\* Giving a member a manager outside its subtree makes no cycle.
LEMMA AssignKeeps ==
    ASSUME NoCycle, NEW u \in DOMAIN manager, NEW m, m \notin SubtreeOf(u),
           manager' = [manager EXCEPT ![u] = m]
    PROVE  NoCycle'
  <1> SUFFICES ASSUME NEW C \in SUBSET DOMAIN manager, C # {}, \A p \in C : manager'[p] \in C
               PROVE  FALSE
    BY DEF NoCycle
  <1>1. \A p \in C : p # u => manager[p] \in C
    OBVIOUS
  <1>2. CASE u \notin C
    BY <1>1, <1>2 DEF NoCycle
  <1>3. CASE u \in C
    <2>1. m \in C
      BY <1>3
    <2>2. PICK S \in SUBSET DOMAIN manager : u \in S /\ Closed(S) /\ m \notin S
      BY <2>1 DEF SubtreeOf
    <2> DEFINE B == C \ S
    <2>3. B \in SUBSET DOMAIN manager /\ m \in B
      BY <2>1, <2>2
    <2>4. \A p \in B : manager[p] \in B
      BY <1>1, <2>2 DEF Closed
    <2> QED BY <2>3, <2>4 DEF NoCycle
  <1> QED BY <1>2, <1>3

\* A departure puts nobody into a subtree.
LEMMA PartKeeps ==
    ASSUME NEW x \in DOMAIN manager, manager' = [q \in DOMAIN manager \ {x} |-> manager[q]],
           NEW u, NEW m, m \notin SubtreeOf(u)
    PROVE  m \notin SubtreeOf(u)'
  <1> SUFFICES ASSUME m \in SubtreeOf(u)' PROVE FALSE
    OBVIOUS
  <1>1. /\ DOMAIN manager' = DOMAIN manager \ {x} /\ m \in DOMAIN manager' /\ u \in DOMAIN manager'
        /\ \A S \in SUBSET DOMAIN manager' : u \in S /\ Closed(S)' => m \in S
    BY DEF SubtreeOf
  <1>2. PICK S \in SUBSET DOMAIN manager : u \in S /\ Closed(S) /\ m \notin S
    BY <1>1 DEF SubtreeOf
  <1> DEFINE B == S \ {x}
  <1>3. B \in SUBSET DOMAIN manager' /\ u \in B /\ m \notin B
    BY <1>1, <1>2
  <1>4. \A p \in DOMAIN manager' : manager'[p] \in B => p \in B
    BY <1>1, <1>2 DEF Closed
  <1>5. Closed(B)'
    BY <1>4 DEF Closed
  <1> QED BY <1>1, <1>3, <1>5

\* A departure or an arrival makes no cycle: who arrives reports to nobody.
LEMMA MembersKeep ==
    ASSUME ChartTypeOK, NoCycle, NEW x \in Colleagues, Part(x) \/ Join(x)
    PROVE  NoCycle'
  <1> SUFFICES ASSUME NEW C \in SUBSET DOMAIN manager', C # {}, \A p \in C : manager'[p] \in C
               PROVE  FALSE
    BY DEF NoCycle
  <1>1. CASE Part(x)
    <2>1. C \in SUBSET DOMAIN manager /\ \A p \in C : manager[p] \in C
      BY <1>1 DEF Part
    <2> QED BY <2>1 DEF NoCycle
  <1>2. CASE Join(x)
    <2>1. /\ DOMAIN manager' = DOMAIN manager \cup {x} /\ manager'[x] = NoManager
          /\ \A p \in DOMAIN manager : p # x => manager'[p] = manager[p]
          /\ x \notin DOMAIN manager
      BY <1>2 DEF Join
    <2>2. x \notin C
      BY <2>1, ChartAssumption DEF ChartTypeOK
    <2>3. C \in SUBSET DOMAIN manager /\ \A p \in C : manager[p] \in C
      BY <2>1, <2>2
    <2> QED BY <2>3 DEF NoCycle
  <1> QED BY <1>1, <1>2

LEMMA OutdatedTyped ==
    ASSUME asking \in [Admins -> Calls], NEW changed \in BOOLEAN
    PROVE  /\ Outdated(changed) \in [Admins -> Calls]
           /\ \A b \in Admins :
                 /\ Outdated(changed)[b].at = asking[b].at
                 /\ Outdated(changed)[b].user = asking[b].user
                 /\ Outdated(changed)[b].under = asking[b].under
                 /\ Outdated(changed)[b].stale =
                       (asking[b].stale \/ (changed /\ asking[b].at = "write"))
  <1> SUFFICES ASSUME NEW b \in Admins
               PROVE  /\ Outdated(changed)[b] \in Calls
                      /\ Outdated(changed)[b].at = asking[b].at
                      /\ Outdated(changed)[b].user = asking[b].user
                      /\ Outdated(changed)[b].under = asking[b].under
                      /\ Outdated(changed)[b].stale =
                            (asking[b].stale \/ (changed /\ asking[b].at = "write"))
    BY DEF Outdated
  <1> DEFINE flag == asking[b].stale \/ (changed /\ asking[b].at = "write")
  <1>1. Outdated(changed)[b] = [asking[b] EXCEPT !.stale = flag]
    BY DEF Outdated
  <1>2. flag \in BOOLEAN /\ asking[b] \in Calls
    BY DEF Calls
  <1> HIDE DEF flag
  <1>3. /\ [asking[b] EXCEPT !.stale = flag] \in Calls
        /\ [asking[b] EXCEPT !.stale = flag].at = asking[b].at
        /\ [asking[b] EXCEPT !.stale = flag].user = asking[b].user
        /\ [asking[b] EXCEPT !.stale = flag].under = asking[b].under
        /\ [asking[b] EXCEPT !.stale = flag].stale = flag
    BY <1>2 DEF Calls
  <1> QED BY <1>1, <1>3 DEF flag

LEMMA ChartStep == ChartInv /\ [ChartNext]_chartVars => ChartInv'
  <1> DEFINE Stands1(a) ==
        asking[a].at = "write" /\ ~asking[a].stale /\ asking[a].under # NoManager =>
            asking[a].under \notin SubtreeOf(asking[a].user)
  <1> SUFFICES ASSUME ChartInv, [ChartNext]_chartVars PROVE ChartInv'
    OBVIOUS
  <1>0. /\ ChartTypeOK /\ (\A a \in Admins : Stands1(a)) /\ (~raced => NoCycle)
        /\ NotAsking \in Calls
    BY DEF ChartInv, JudgedStands, NotAsking, Calls
  <1>1. ASSUME manager' = manager PROVE \A r : SubtreeOf(r)' = SubtreeOf(r)
    BY <1>1 DEF SubtreeOf, Closed
  <1>2. ASSUME NEW a \in Admins, NEW c \in Calls, asking' = [asking EXCEPT ![a] = c],
               c.at = "write" => \/ c.under = NoManager
                                 \/ c.under \notin SubtreeOf(c.user),
               UNCHANGED <<manager, raced, visibility>>
        PROVE  ChartInv'
    <2>1. ChartTypeOK'
      BY <1>0, <1>2 DEF ChartTypeOK
    <2>2. NoCycle' <=> NoCycle
      BY <1>2 DEF NoCycle
    <2>3. ASSUME NEW b \in Admins PROVE Stands1(b)'
      <3>1. CASE b = a
        <4>1. asking'[b] = c
          BY <1>0, <1>2, <3>1 DEF ChartTypeOK
        <4> QED BY <1>1, <1>2, <4>1
      <3>2. CASE b # a
        <4>1. asking'[b] = asking[b]
          BY <1>0, <1>2, <3>2 DEF ChartTypeOK
        <4> QED BY <1>0, <1>1, <1>2, <4>1
      <3> QED BY <3>1, <3>2
    <2> QED BY <1>0, <1>2, <2>1, <2>2, <2>3 DEF ChartInv, JudgedStands
  <1>3. ASSUME NEW a \in Admins, NEW u \in Colleagues, NEW m \in Colleagues \cup {NoManager},
               SetManager(a, u, m)
        PROVE  ChartInv'
    <2> DEFINE c == [at |-> IF m = NoManager THEN "write" ELSE "member", user |-> u, under |-> m,
                     stale |-> FALSE]
    <2>1. c \in Calls /\ (c.at = "write" => c.under = NoManager)
      BY DEF Calls
    <2>2. asking' = [asking EXCEPT ![a] = c] /\ UNCHANGED <<manager, raced, visibility>>
      BY <1>3 DEF SetManager
    <2> HIDE DEF c
    <2> QED BY <1>2, <2>1, <2>2
  <1>4. ASSUME NEW a \in Admins, IsMember(a) PROVE ChartInv'
    <2> DEFINE c == [asking[a] EXCEPT !.at = "subtree"]
    <2>1. c \in Calls /\ c.at # "write"
      BY <1>0 DEF ChartTypeOK, Calls
    <2>2. asking' = [asking EXCEPT ![a] = c] \/ asking' = [asking EXCEPT ![a] = NotAsking]
      BY <1>4 DEF IsMember
    <2>3. UNCHANGED <<manager, raced, visibility>> /\ NotAsking.at # "write"
      BY <1>4 DEF IsMember, NotAsking
    <2> HIDE DEF c
    <2> QED BY <1>0, <1>2, <2>1, <2>2, <2>3
  <1>5. ASSUME NEW a \in Admins, RefuseCycle(a) PROVE ChartInv'
    <2> DEFINE c == [asking[a] EXCEPT !.at = "write"]
    <2>1. c \in Calls /\ c.under = asking[a].under /\ c.user = asking[a].user
      BY <1>0 DEF ChartTypeOK, Calls
    <2>2. \/ asking' = [asking EXCEPT ![a] = c] /\ asking[a].under \notin SubtreeOf(asking[a].user)
          \/ asking' = [asking EXCEPT ![a] = NotAsking]
      BY <1>5 DEF RefuseCycle
    <2>3. UNCHANGED <<manager, raced, visibility>> /\ NotAsking.at # "write"
      BY <1>5 DEF RefuseCycle, NotAsking
    <2> HIDE DEF c
    <2> QED BY <1>0, <1>2, <2>1, <2>2, <2>3
  <1>6. ASSUME NEW a \in Admins, WriteManager(a) PROVE ChartInv'
    <2> DEFINE u == asking[a].user
               m == asking[a].under
    <2>0. PICK found \in BOOLEAN : found <=> u \in DOMAIN manager
      OBVIOUS
    <2>1. /\ asking[a].at = "write" /\ visibility' = visibility
          /\ manager' = IF found THEN [manager EXCEPT ![u] = m] ELSE manager
          /\ raced' = (raced \/ (found /\ asking[a].stale))
          /\ asking' = [Outdated(found) EXCEPT ![a] = NotAsking]
      BY <1>6, <2>0 DEF WriteManager, Outdated
    <2>2. m \in Colleagues \cup {NoManager} /\ asking[a].stale \in BOOLEAN
      BY <1>0 DEF ChartTypeOK, Calls
    <2>3. Outdated(found) \in [Admins -> Calls]
      BY <1>0, OutdatedTyped DEF ChartTypeOK
    <2>4. ChartTypeOK'
      <3>1. asking' \in [Admins -> Calls] /\ raced' \in BOOLEAN
        BY <1>0, <2>1, <2>2, <2>3 DEF ChartTypeOK
      <3>2. DOMAIN manager' = DOMAIN manager
        BY <2>1
      <3>3. \A p \in DOMAIN manager : manager'[p] = manager[p] \/ manager'[p] = m
        BY <2>1
      <3>4. \A p \in DOMAIN manager' : manager'[p] \in Colleagues \cup {NoManager}
        BY <1>0, <2>2, <3>2, <3>3 DEF ChartTypeOK
      <3> QED BY <1>0, <2>1, <3>1, <3>2, <3>4 DEF ChartTypeOK
    <2>5. ~raced' => NoCycle'
      <3>1. CASE ~found
        BY <1>0, <2>1, <3>1 DEF NoCycle
      <3>2. CASE found
        <4> SUFFICES ASSUME ~raced' PROVE NoCycle'
          OBVIOUS
        <4>1. NoCycle /\ ~asking[a].stale
          BY <1>0, <2>1, <3>2
        <4>2. m \notin SubtreeOf(u)
          <5>1. CASE m = NoManager
            BY <1>0, <5>1, ChartAssumption DEF SubtreeOf, ChartTypeOK
          <5>2. CASE m # NoManager
            BY <1>0, <2>1, <4>1, <5>2
          <5> QED BY <5>1, <5>2
        <4> QED BY <2>0, <2>1, <3>2, <4>1, <4>2, AssignKeeps
      <3> QED BY <3>1, <3>2
    <2>6. ASSUME NEW b \in Admins PROVE Stands1(b)'
      <3>1. CASE b = a
        <4>1. asking'[b] = NotAsking
          BY <2>1, <2>3, <3>1
        <4> QED BY <4>1 DEF NotAsking
      <3>2. CASE b # a
        <4>1. asking'[b] = Outdated(found)[b]
          BY <2>1, <2>3, <3>2
        <4>2. /\ asking'[b].at = asking[b].at /\ asking'[b].user = asking[b].user
              /\ asking'[b].under = asking[b].under
              /\ asking'[b].stale = (asking[b].stale \/ (found /\ asking[b].at = "write"))
          BY <1>0, <4>1, OutdatedTyped DEF ChartTypeOK
        <4>3. CASE found
          BY <4>2, <4>3
        <4>4. CASE ~found
          <5>1. SubtreeOf(asking[b].user)' = SubtreeOf(asking[b].user)
            BY <2>1, <4>2, <4>4 DEF SubtreeOf, Closed
          <5> QED BY <1>0, <4>2, <4>4, <5>1
        <4> QED BY <4>3, <4>4
      <3> QED BY <3>1, <3>2
    <2> QED BY <2>4, <2>5, <2>6 DEF ChartInv, JudgedStands
  <1>7. ASSUME NEW x \in Colleagues, Part(x) PROVE ChartInv'
    <2>1. /\ x \in DOMAIN manager /\ manager' = [q \in DOMAIN manager \ {x} |-> manager[q]]
          /\ UNCHANGED <<asking, raced, visibility>>
      BY <1>7 DEF Part
    <2>2. ChartTypeOK'
      BY <1>0, <2>1 DEF ChartTypeOK
    <2>3. ASSUME NEW b \in Admins PROVE Stands1(b)'
      BY <1>0, <2>1, PartKeeps
    <2> QED BY <1>0, <1>7, <2>1, <2>2, <2>3, MembersKeep DEF ChartInv, JudgedStands
  <1>8. ASSUME NEW x \in Colleagues, Join(x) PROVE ChartInv'
    <2>1. /\ x \notin DOMAIN manager /\ asking' = Outdated(TRUE) /\ UNCHANGED <<raced, visibility>>
          /\ manager' = [q \in DOMAIN manager \cup {x} |-> IF q = x THEN NoManager ELSE manager[q]]
      BY <1>8 DEF Join
    <2>2. asking' \in [Admins -> Calls] /\
          \A b \in Admins : asking'[b].at = asking[b].at /\
             asking'[b].stale = (asking[b].stale \/ asking[b].at = "write")
      BY <1>0, <2>1, OutdatedTyped DEF ChartTypeOK
    <2>3. ChartTypeOK'
      BY <1>0, <2>1, <2>2 DEF ChartTypeOK
    <2>4. JudgedStands'
      BY <2>2 DEF JudgedStands
    <2> QED BY <1>0, <1>8, <2>1, <2>3, <2>4, MembersKeep DEF ChartInv
  <1>9. ASSUME NEW v \in {"open", "restricted"}, UpdateTenantSettings(v) PROVE ChartInv'
    <2>1. UNCHANGED <<manager, asking, raced>> /\ visibility' = v
      BY <1>9 DEF UpdateTenantSettings
    <2> QED BY <1>0, <1>1, <2>1 DEF ChartInv, ChartTypeOK, JudgedStands, NoCycle
  <1>10. CASE UNCHANGED chartVars
    BY <1>0, <1>1, <1>10 DEF chartVars, ChartInv, ChartTypeOK, JudgedStands, NoCycle
  <1> QED
    BY <1>3, <1>4, <1>5, <1>6, <1>7, <1>8, <1>9, <1>10 DEF ChartNext

\* The chart, the calls that change it and what they have established stay in
\* order, in any workspace and for any number of admins at once.
THEOREM ChartInOrder == ChartSpec => []ChartInv
  <1>1. ChartInit => ChartInv
    <2> SUFFICES ASSUME ChartInit PROVE ChartInv
      OBVIOUS
    <2>1. ChartTypeOK
      BY DEF ChartInit, ChartTypeOK, NotAsking, Calls
    <2>2. JudgedStands
      BY DEF ChartInit, JudgedStands, NotAsking
    <2>3. NoCycle
      BY ChartAssumption DEF ChartInit, NoCycle
    <2> QED BY <2>1, <2>2, <2>3 DEF ChartInv
  <1> QED BY <1>1, ChartStep, PTL DEF ChartSpec

\* With every assignment written on the chart it was judged by, nobody reports to
\* themselves, and no two members of a restricted tenant see each other's records.
THEOREM SightOneWay == ChartSpec => []SightIsOneWay
  <1>1. ChartInv => SightIsOneWay
    <2> SUFFICES ASSUME ChartInv, ~raced, visibility = "restricted",
                        NEW p \in DOMAIN manager \ Leaders, NEW q \in DOMAIN manager \ Leaders,
                        p # q, p \in VisibleOwners(q), q \in VisibleOwners(p)
                 PROVE  FALSE
      BY DEF SightIsOneWay, ChartInv
    <2>1. p \in SubtreeOf(q) /\ q \in SubtreeOf(p)
      BY DEF VisibleOwners
    <2> QED BY <2>1, OneWay DEF ChartInv
  <1> QED BY <1>1, ChartInOrder, PTL

-----------------------------------------------------------------------------
(* SignIn: one mailbox is one user.                                          *)

\* A new row whose maker looked: it keeps the users apart, unless they were made
\* at once, and whoever fitted a user still does.
LEMMA InsertKeeps ==
    ASSUME SignInInv, NEW s \in Sessions, NEW u \in Ids, InsertUser(u, UserOf(s)),
           signing[s].at \in {"make", "insert"}, ~Taken(signing[s].email),
           \A i \in signing[s].who : WithSubject(i) = {}
    PROVE  /\ UsersAreApart' /\ DOMAIN users' = DOMAIN users \cup {u} /\ users'[u] = UserOf(s)
           /\ DOMAIN users' \subseteq Ids /\ \A v \in DOMAIN users' : users'[v] \in UserRows
           /\ \A v \in DOMAIN users : users'[v] = users[v]
           /\ u \notin DOMAIN users /\ \A v \in DOMAIN users' : users'[v].seen \subseteq DOMAIN users'
           /\ \A i \in Identities, v \in DOMAIN users : Fits(i, v) => Fits(i, v)'
  <1> DEFINE row == UserOf(s)
  <1>0. /\ UsersAreApart /\ SignInTypeOK /\ MakersLooked /\ OneIdentity /\ signing[s] \in SigningSteps
    BY DEF SignInInv, SignInTypeOK
  <1>1. /\ row \in UserRows /\ row.subject = signing[s].who /\ row.email = signing[s].email
        /\ row.seen = signing[s].seen
    BY <1>0 DEF UserOf, UserRows, SigningSteps
  <1> HIDE DEF row
  <1>2. /\ DOMAIN users' = DOMAIN users \cup {u} /\ users'[u] = row /\ u \notin DOMAIN users
        /\ \A v \in DOMAIN users : users'[v] = users[v]
    BY DEF InsertUser, row
  <1>3. row.seen \subseteq DOMAIN users /\ u \notin row.seen
    BY <1>0, <1>1, <1>2 DEF MakersLooked
  <1>4. ASSUME NEW v \in DOMAIN users
        PROVE  /\ row.email # {} /\ Lowered(row.email) = Lowered(users[v].email) =>
                     v \notin row.seen /\ row.email # users[v].email
               /\ row.subject # {} => row.subject # users[v].subject
               /\ u \notin users[v].seen
    <2>1. u \notin users[v].seen
      BY <1>0, <1>2 DEF MakersLooked
    <2>2. row.subject # {} => row.subject # users[v].subject
      BY <1>0, <1>1 DEF OneIdentity, WithSubject
    <2>3. row.email # {} => row.email # users[v].email
      BY <1>1 DEF Taken
    <2>4. row.email # {} /\ Lowered(row.email) = Lowered(users[v].email) => v \notin row.seen
      BY <1>0, <1>1 DEF MakersLooked, WithEmail
    <2> QED BY <2>1, <2>2, <2>3, <2>4
  <1>5. ASSUME NEW v \in DOMAIN users
        PROVE  /\ Lowered(users'[u].email) = Lowered(row.email)
               /\ Lowered(users'[v].email) = Lowered(users[v].email)
    BY <1>2
  <1>6. ASSUME NEW v \in DOMAIN users, NEW w \in DOMAIN users, v # w
        PROVE  /\ users'[v].email # {} /\ Lowered(users'[v].email) = Lowered(users'[w].email) =>
                     MadeAtOnce(v, w)'
               /\ users'[v].subject # {} => users'[v].subject # users'[w].subject
    <2>1. users'[v] = users[v] /\ users'[w] = users[w]
      BY <1>2
    <2>2. MadeAtOnce(v, w)' <=> MadeAtOnce(v, w)
      BY <2>1 DEF MadeAtOnce
    <2> QED BY <1>0, <1>5, <1>6, <2>1, <2>2 DEF UsersAreApart
  <1>7. ASSUME NEW v \in DOMAIN users
        PROVE  /\ row.email # {} /\ Lowered(row.email) = Lowered(users[v].email) =>
                     MadeAtOnce(u, v)' /\ MadeAtOnce(v, u)'
               /\ users[v].email # {} /\ Lowered(users[v].email) = Lowered(row.email) =>
                     MadeAtOnce(u, v)' /\ MadeAtOnce(v, u)'
    <2>1. users[v].email # {} /\ Lowered(users[v].email) = Lowered(row.email) => row.email # {}
      BY DEF Lowered
    <2> QED BY <1>2, <1>3, <1>4, <2>1 DEF MadeAtOnce
  <1>8. \A i \in row.subject : row.email = EmailOf[i]
    BY <1>0, <1>1 DEF OneIdentity
  <1>9. UsersAreApart'
    <2>1. ASSUME NEW v \in DOMAIN users', NEW w \in DOMAIN users', v # w
          PROVE  /\ users'[v].email # {} /\ Lowered(users'[v].email) = Lowered(users'[w].email) =>
                       MadeAtOnce(v, w)'
                 /\ users'[v].subject # {} => users'[v].subject # users'[w].subject
      <3>1. CASE v = u
        BY <1>2, <1>4, <1>5, <1>7, <2>1, <3>1
      <3>2. CASE w = u
        BY <1>2, <1>4, <1>5, <1>7, <2>1, <3>2
      <3>3. CASE v # u /\ w # u
        BY <1>2, <1>6, <2>1, <3>3
      <3> QED BY <3>1, <3>2, <3>3
    <2>2. \A v \in DOMAIN users' : \A i \in users'[v].subject : users'[v].email = EmailOf[i]
      BY <1>0, <1>2, <1>8 DEF UsersAreApart
    <2>3. \A v \in DOMAIN users' : Lowered(users'[v].email) = Lowered(users[v].email)'
      BY DEF Lowered
    <2> QED BY <2>1, <2>2, <2>3 DEF UsersAreApart, Lowered
  <1>10. \A v \in DOMAIN users' : users'[v].seen \subseteq DOMAIN users'
    BY <1>0, <1>2, <1>3 DEF MakersLooked
  <1>11. DOMAIN users' \subseteq Ids /\ \A v \in DOMAIN users' : users'[v] \in UserRows
    BY <1>0, <1>1, <1>2 DEF SignInTypeOK
  <1>12. \A i \in Identities, v \in DOMAIN users : Fits(i, v) => Fits(i, v)'
    BY <1>2 DEF Fits, Lowered
  <1> QED BY <1>2, <1>9, <1>10, <1>11, <1>12 DEF row

\* Mapping an identity to a user that fits it keeps every mapping fit.
LEMMA MapKeeps ==
    ASSUME mapped \in [Identities -> SUBSET Ids], NEW i \in Identities, NEW u \in DOMAIN users',
           DOMAIN users' \subseteq Ids, MapTo(i, u), Fits(i, u)',
           \A j \in Identities : mapped[j] # {} =>
              \E v \in DOMAIN users' : mapped[j] = {v} /\ Fits(j, v)'
    PROVE  /\ mapped' \in [Identities -> SUBSET Ids]
           /\ \A j \in Identities : mapped'[j] # {} =>
                 \E v \in DOMAIN users' : mapped'[j] = {v} /\ Fits(j, v)'
  <1>1. mapped' \in [Identities -> SUBSET Ids]
    BY DEF MapTo
  <1>2. ASSUME NEW j \in Identities
        PROVE  mapped'[j] = mapped[j] \/ (j = i /\ mapped'[j] = {u})
    BY DEF MapTo
  <1> QED BY <1>1, <1>2

LEMMA SignInStep == SignInInv /\ [SignInNext]_signInVars => SignInInv'
  <1> DEFINE Waits(s) == signing[s].at = "link" =>
                           \A i \in signing[s].who : Fits(i, signing[s].user)
             Maps == \A i \in Identities :
                       mapped[i] # {} => \E u \in DOMAIN users : mapped[i] = {u} /\ Fits(i, u)
             Looked(s) == /\ signing[s].seen \subseteq DOMAIN users
                          /\ signing[s].at \in {"make", "insert"} =>
                                signing[s].seen \cap WithEmail(signing[s].email) = {}
             Owns(c) == /\ \A i \in c.who : c.who = {i} /\ c.email = EmailOf[i]
                        /\ c.at \in {"look", "insert"} => c.who = {}
             Moved(s, at, u) == [signing[s] EXCEPT !.at = at, !.user = u, !.seen = DOMAIN users]
  <1> SUFFICES ASSUME SignInInv, [SignInNext]_signInVars PROVE SignInInv'
    OBVIOUS
  <1> USE SignInAssumption
  <1>0. /\ UsersAreApart /\ Maps /\ (\A s \in Sessions : Waits(s)) /\ NotSigning \in SigningSteps
        /\ DOMAIN users \subseteq Ids /\ (\A u \in DOMAIN users : users[u] \in UserRows)
        /\ mapped \in [Identities -> SUBSET Ids] /\ signing \in [Sessions -> SigningSteps]
        /\ members \subseteq Ids /\ (\A s \in Sessions : Owns(signing[s]) /\ Looked(s))
        /\ \A s \in Sessions : signing[s] \in SigningSteps /\ signing[s].who \subseteq Identities
        /\ \A u \in DOMAIN users : users[u].seen \subseteq DOMAIN users
        /\ NotSigning.at = "idle" /\ NotSigning.who = {} /\ NotSigning.seen = {}
    BY DEF SignInInv, SignInTypeOK, MappedFits, NotSigning, Starts, SigningSteps, OneIdentity,
       MakersLooked
  <1>1. ASSUME UNCHANGED <<users, mapped, members>>, NEW s \in Sessions, NEW c \in SigningSteps,
               signing' = [signing EXCEPT ![s] = c],
               Owns(c), c.at = "link" => \A i \in c.who : Fits(i, c.user),
               c.seen \subseteq DOMAIN users,
               c.at \in {"make", "insert"} => c.seen \cap WithEmail(c.email) = {}
        PROVE  SignInInv'
    <2>1. SignInTypeOK'
      BY <1>0, <1>1 DEF SignInTypeOK
    <2>2. UsersAreApart'
      BY <1>0, <1>1 DEF UsersAreApart, MadeAtOnce
    <2>3. Maps'
      BY <1>0, <1>1 DEF Fits
    <2>4. ASSUME NEW z \in Sessions PROVE Waits(z)'
      <3>1. CASE z = s
        <4>1. signing'[z] = c
          BY <1>0, <1>1, <3>1
        <4> QED BY <1>1, <4>1 DEF Fits
      <3>2. CASE z # s
        <4>1. signing'[z] = signing[z]
          BY <1>0, <1>1, <3>2
        <4> QED BY <1>0, <1>1, <4>1 DEF Fits
      <3> QED BY <3>1, <3>2
    <2>5. ASSUME NEW z \in Sessions PROVE Owns(signing'[z]) /\ Looked(z)'
      <3>1. \A e : WithEmail(e)' = WithEmail(e)
        BY <1>1 DEF WithEmail
      <3>2. CASE z = s
        <4>1. signing'[z] = c
          BY <1>0, <1>1, <3>2
        <4> QED BY <1>1, <3>1, <4>1
      <3>3. CASE z # s
        <4>1. signing'[z] = signing[z]
          BY <1>0, <1>1, <3>3
        <4> QED BY <1>0, <1>1, <3>1, <4>1
      <3> QED BY <3>2, <3>3
    <2>6. OneIdentity'
      BY <2>5 DEF OneIdentity
    <2>7. MakersLooked'
      BY <1>0, <1>1, <2>5 DEF MakersLooked
    <2> QED BY <2>1, <2>2, <2>3, <2>4, <2>6, <2>7 DEF SignInInv, MappedFits
  <1>g. ASSUME NEW s \in Sessions, NEW at \in {"link", "make", "insert"}, NEW u \in 0..MaxUsers,
               NEW c, c = Moved(s, at, u)
        PROVE  /\ c \in SigningSteps /\ c.at = at /\ c.user = u /\ c.who = signing[s].who
               /\ c.email = signing[s].email /\ c.seen = DOMAIN users
    <2>1. PICK z : z = signing[s]
      OBVIOUS
    <2>2. PICK seen \in SUBSET Ids : seen = DOMAIN users
      BY <1>0
    <2>3. z \in SigningSteps /\ c = [z EXCEPT !.at = at, !.user = u, !.seen = seen]
      BY <1>0, <1>g, <2>1, <2>2
    <2>4. /\ c \in SigningSteps /\ c.at = at /\ c.user = u /\ c.who = z.who
          /\ c.email = z.email /\ c.seen = seen
      BY <2>3 DEF SigningSteps
    <2> QED BY <2>1, <2>2, <2>4
  <1> HIDE DEF Moved
  <1>2. ASSUME NEW s \in Sessions, NEW i \in Identities, Present(s, i) PROVE SignInInv'
    <2> DEFINE c == Starts("resolve", {i}, EmailOf[i])
    <2>1. c \in SigningSteps /\ c.at = "resolve" /\ Owns(c) /\ c.seen = {}
      BY DEF Starts, SigningSteps
    <2>2. signing' = [signing EXCEPT ![s] = c] /\ UNCHANGED <<users, mapped, members>>
      BY <1>2 DEF Present
    <2> HIDE DEF c
    <2> QED BY <1>1, <2>1, <2>2
  <1>3. ASSUME NEW s \in Sessions, Resolve(s) PROVE SignInInv'
    <2>1. UNCHANGED <<users, mapped, members>>
      BY <1>3 DEF Resolve
    <2>2. PICK i \in signing[s].who :
             IF mapped[i] # {} THEN Ends(s)
             ELSE IF WithSubject(i) # {} THEN \E u \in WithSubject(i) : GotoStep(s, "link", u)
             ELSE IF WithEmail(EmailOf[i]) # {}
             THEN \E u \in WithEmail(EmailOf[i]) : GotoStep(s, "link", u)
             ELSE GotoStep(s, "make", 0)
      BY <1>3 DEF Resolve
    <2>3. i \in Identities /\ signing[s].who = {i} /\ signing[s].email = EmailOf[i]
      BY <1>0
    <2>4. ASSUME NEW at \in {"link", "make"}, NEW u \in 0..MaxUsers, GotoStep(s, at, u),
                 at = "link" => Fits(i, u), at = "make" => WithEmail(EmailOf[i]) = {}
          PROVE  SignInInv'
      <3>c. PICK c : c = Moved(s, at, u)
        OBVIOUS
      <3>1. /\ c \in SigningSteps /\ c.at = at /\ c.user = u /\ c.who = signing[s].who
            /\ c.email = signing[s].email /\ c.seen = DOMAIN users
        BY <1>g, <3>c
      <3>2. signing' = [signing EXCEPT ![s] = c]
        BY <2>4, <3>c DEF GotoStep, Moved
      <3>3. Owns(c)
        BY <2>3, <3>1
      <3>4. c.at = "link" => \A j \in c.who : Fits(j, c.user)
        BY <2>3, <2>4, <3>1
      <3>5. c.at \in {"make", "insert"} => c.seen \cap WithEmail(c.email) = {}
        BY <2>3, <2>4, <3>1
      <3> QED BY <1>1, <2>1, <3>1, <3>2, <3>3, <3>4, <3>5
    <2>5. ASSUME NEW u \in WithSubject(i) PROVE u \in 0..MaxUsers /\ Fits(i, u)
      BY <1>0 DEF WithSubject, Fits, UsersAreApart, Ids
    <2>6. ASSUME NEW u \in WithEmail(EmailOf[i]) PROVE u \in 0..MaxUsers /\ Fits(i, u)
      BY <1>0 DEF WithEmail, Fits, Ids
    <2>7. CASE Ends(s)
      BY <1>0, <1>1, <2>1, <2>7 DEF Ends
    <2>8. CASE \E u \in WithSubject(i) : GotoStep(s, "link", u)
      BY <2>4, <2>5, <2>8
    <2>9. CASE \E u \in WithEmail(EmailOf[i]) : GotoStep(s, "link", u)
      BY <2>4, <2>6, <2>9
    <2>10. CASE GotoStep(s, "make", 0) /\ WithEmail(EmailOf[i]) = {}
      BY <2>4, <2>10
    <2> QED BY <2>2, <2>7, <2>8, <2>9, <2>10
  \* A step that adds at most a user, maps at most one identity and ends a session.
  <1>4. ASSUME \A i \in Identities, v \in DOMAIN users : Fits(i, v) => Fits(i, v)',
               DOMAIN users \subseteq DOMAIN users', UsersAreApart',
               DOMAIN users' \subseteq Ids, \A v \in DOMAIN users' : users'[v] \in UserRows,
               \A v \in DOMAIN users' : users'[v].seen \subseteq DOMAIN users',
               \A v \in DOMAIN users : users'[v] = users[v],
               members' \subseteq Ids, mapped' \in [Identities -> SUBSET Ids], Maps',
               \/ signing' = signing
               \/ \E s \in Sessions : signing' = [signing EXCEPT ![s] = NotSigning]
        PROVE  SignInInv'
    <2>1. signing' \in [Sessions -> SigningSteps]
          /\ \A s \in Sessions : signing'[s] = signing[s] \/ signing'[s] = NotSigning
      BY <1>0, <1>4
    <2>2. SignInTypeOK'
      BY <1>4, <2>1 DEF SignInTypeOK
    <2>3. OneIdentity'
      BY <1>0, <2>1 DEF OneIdentity
    <2>5. ASSUME NEW s \in Sessions PROVE Looked(s)'
      <3>1. CASE signing'[s] = NotSigning
        BY <1>0, <3>1
      <3>2. CASE signing'[s] = signing[s]
        <4>1. signing[s].seen \subseteq DOMAIN users /\ signing'[s].seen = signing[s].seen
          BY <1>0, <3>2
        <4>2. \A v \in DOMAIN users : \A e : v \in WithEmail(e)' => v \in WithEmail(e)
          BY <1>4 DEF WithEmail, Lowered
        <4> QED BY <1>0, <1>4, <3>2, <4>1, <4>2
      <3> QED BY <2>1, <3>1, <3>2
    <2>6. MakersLooked'
      BY <1>4, <2>5 DEF MakersLooked
    <2>4. ASSUME NEW s \in Sessions PROVE Waits(s)'
      <3>1. CASE signing'[s] = NotSigning
        BY <1>0, <3>1
      <3>2. CASE signing'[s] = signing[s]
        <4>1. \A i \in signing[s].who : Fits(i, signing[s].user) => Fits(i, signing[s].user)'
          BY <1>0, <1>4, <3>2 DEF Fits
        <4> QED BY <1>0, <3>2, <4>1
      <3> QED BY <2>1, <3>1, <3>2
    <2> QED BY <1>4, <2>2, <2>3, <2>4, <2>6 DEF SignInInv, MappedFits
  <1>5. ASSUME users' = users
        PROVE  /\ \A i, v : Fits(i, v)' <=> Fits(i, v)
               /\ UsersAreApart' /\ DOMAIN users' = DOMAIN users
               /\ DOMAIN users' \subseteq Ids /\ \A v \in DOMAIN users' : users'[v] \in UserRows
               /\ \A v \in DOMAIN users' : users'[v].seen \subseteq DOMAIN users'
               /\ \A v \in DOMAIN users : users'[v] = users[v]
    BY <1>0, <1>5 DEF Fits, UsersAreApart, MadeAtOnce
  <1>6. ASSUME NEW s \in Sessions, Link(s) PROVE SignInInv'
    <2>1. PICK i \in signing[s].who : MapTo(i, signing[s].user)
      BY <1>6 DEF Link
    <2> DEFINE u == signing[s].user
    <2>2. /\ users' = users /\ members' = members /\ signing' = [signing EXCEPT ![s] = NotSigning]
      BY <1>6 DEF Link, Ends
    <2>a. signing[s].at = "link" /\ Waits(s) /\ i \in Identities
      BY <1>0, <1>6 DEF Link
    <2>b. Fits(i, u)
      BY <2>a
    <2>c. PICK w : w = u /\ Fits(i, w) /\ MapTo(i, w)
      BY <2>b, <2>1
    <2>3. w \in DOMAIN users' /\ Fits(i, w)'
      BY <2>c, <2>2 DEF Fits
    <2>4. \A j \in Identities : mapped[j] # {} =>
             \E v \in DOMAIN users' : mapped[j] = {v} /\ Fits(j, v)'
      BY <1>0, <1>5, <2>2
    <2>5. mapped' \in [Identities -> SUBSET Ids] /\ Maps'
      BY <1>0, <2>a, <2>c, <2>2, <2>3, <2>4, MapKeeps
    <2> QED BY <1>0, <1>4, <1>5, <2>2, <2>5
  <1>7. ASSUME NEW s \in Sessions, Make(s) PROVE SignInInv'
    <2>0. signing' = [signing EXCEPT ![s] = NotSigning]
      BY <1>7 DEF Make, Ends
    <2>1. PICK i \in signing[s].who :
          \/ /\ WithSubject(i) # {}
             /\ \E u \in WithSubject(i) : MapTo(i, u) /\ members' \in {members, members \cup {u}}
             /\ UNCHANGED users
          \/ /\ WithSubject(i) = {} /\ Taken(EmailOf[i])
             /\ UNCHANGED <<users, mapped, members>>
          \/ /\ WithSubject(i) = {} /\ ~Taken(EmailOf[i])
             /\ \E u \in Ids : /\ InsertUser(u, UserOf(s)) /\ MapTo(i, u)
                              /\ members' \in {members, members \cup {u}}
      BY <1>7 DEF Make
    <2>2. i \in Identities /\ signing[s].who = {i} /\ signing[s].email = EmailOf[i]
      BY <1>0
    <2>3. ASSUME NEW u \in WithSubject(i), MapTo(i, u), members' \in {members, members \cup {u}},
                 UNCHANGED users
          PROVE  SignInInv'
      <3>1. u \in DOMAIN users' /\ Fits(i, u)' /\ members' \subseteq Ids
        BY <1>0, <2>3 DEF WithSubject, Fits, UsersAreApart
      <3>2. \A j \in Identities : mapped[j] # {} =>
               \E v \in DOMAIN users' : mapped[j] = {v} /\ Fits(j, v)'
        BY <1>0, <1>5, <2>3
      <3>3. mapped' \in [Identities -> SUBSET Ids] /\ Maps'
        BY <1>0, <2>2, <2>3, <3>1, <3>2, MapKeeps
      <3> QED BY <1>0, <1>4, <1>5, <2>0, <2>3, <3>1, <3>3
    <2>4. CASE UNCHANGED <<users, mapped, members>>
      <3>1. Maps'
        BY <1>0, <1>5, <2>4
      <3> QED BY <1>0, <1>4, <1>5, <2>0, <2>4, <3>1
    <2>5. ASSUME NEW u \in Ids, InsertUser(u, UserOf(s)), MapTo(i, u),
                 members' \in {members, members \cup {u}},
                 WithSubject(i) = {}, ~Taken(EmailOf[i])
          PROVE  SignInInv'
      <3>1. signing[s].at = "make"
        BY <1>7 DEF Make
      <3>2. /\ UsersAreApart' /\ DOMAIN users' = DOMAIN users \cup {u} /\ users'[u] = UserOf(s)
            /\ DOMAIN users' \subseteq Ids /\ \A v \in DOMAIN users' : users'[v] \in UserRows
            /\ \A v \in DOMAIN users : users'[v] = users[v]
            /\ \A v \in DOMAIN users' : users'[v].seen \subseteq DOMAIN users'
            /\ \A j \in Identities, v \in DOMAIN users : Fits(j, v) => Fits(j, v)'
        BY <2>2, <2>5, <3>1, InsertKeeps
      <3>3. users'[u].email = EmailOf[i]
        BY <2>2, <3>2 DEF UserOf
      <3>4. Fits(i, u)' /\ members' \subseteq Ids /\ u \in DOMAIN users'
        BY <1>0, <2>5, <3>2, <3>3 DEF Fits
      <3>5. \A j \in Identities : mapped[j] # {} =>
               \E v \in DOMAIN users' : mapped[j] = {v} /\ Fits(j, v)'
        BY <1>0, <3>2
      <3>6. mapped' \in [Identities -> SUBSET Ids] /\ Maps'
        BY <1>0, <2>2, <2>5, <3>2, <3>4, <3>5, MapKeeps
      <3> QED BY <1>4, <2>0, <3>2, <3>4, <3>6
    <2> QED BY <2>1, <2>3, <2>4, <2>5
  <1>8. ASSUME NEW s \in Sessions, NEW e \in Emails, InviteEmail(s, e) PROVE SignInInv'
    <2> DEFINE c == Starts("look", {}, Lowered({e}))
    <2>1. c \in SigningSteps /\ c.at = "look" /\ Owns(c) /\ c.seen = {}
      BY DEF Starts, SigningSteps, Lowered
    <2>2. signing' = [signing EXCEPT ![s] = c] /\ UNCHANGED <<users, mapped, members>>
      BY <1>8 DEF InviteEmail
    <2> HIDE DEF c
    <2> QED BY <1>1, <2>1, <2>2
  <1>10. ASSUME NEW s \in Sessions, LookUp(s) PROVE SignInInv'
    <2>1. UNCHANGED <<users, mapped, members>>
      BY <1>10 DEF LookUp
    <2>2. CASE Ends(s)
      BY <1>0, <1>1, <2>1, <2>2 DEF Ends
    <2>3. CASE GotoStep(s, "insert", 0) /\ WithEmail(signing[s].email) = {}
      <3>c. PICK c : c = Moved(s, "insert", 0)
        OBVIOUS
      <3>0. signing[s].who = {} /\ 0 \in 0..MaxUsers
        BY <1>0, <1>10 DEF LookUp
      <3>1. /\ c \in SigningSteps /\ c.at = "insert" /\ c.who = signing[s].who
            /\ c.email = signing[s].email /\ c.seen = DOMAIN users
        BY <1>g, <3>c, <3>0
      <3>2. signing' = [signing EXCEPT ![s] = c]
        BY <2>3, <3>c DEF GotoStep, Moved
      <3>3. Owns(c) /\ c.seen \cap WithEmail(c.email) = {}
        BY <2>3, <3>0, <3>1
      <3> QED BY <1>1, <2>1, <3>1, <3>2, <3>3
    <2> QED BY <1>10, <2>2, <2>3 DEF LookUp
  <1>11. ASSUME NEW s \in Sessions, InsertInvited(s) PROVE SignInInv'
    <2>0. /\ signing[s].at = "insert" /\ signing' = [signing EXCEPT ![s] = NotSigning]
          /\ UNCHANGED <<mapped, members>>
      BY <1>11 DEF InsertInvited, Ends
    <2>1. CASE UNCHANGED users
      <3>1. Maps'
        BY <1>0, <1>5, <2>0, <2>1
      <3> QED BY <1>0, <1>4, <1>5, <2>0, <2>1, <3>1
    <2>2. ASSUME NEW u \in Ids, InsertUser(u, UserOf(s)), ~Taken(signing[s].email) PROVE SignInInv'
      <3>0. \A i \in signing[s].who : WithSubject(i) = {}
        BY <1>0, <2>0
      <3>1. /\ UsersAreApart' /\ DOMAIN users' = DOMAIN users \cup {u}
            /\ DOMAIN users' \subseteq Ids /\ \A v \in DOMAIN users' : users'[v] \in UserRows
            /\ \A v \in DOMAIN users : users'[v] = users[v]
            /\ \A v \in DOMAIN users' : users'[v].seen \subseteq DOMAIN users'
            /\ \A j \in Identities, v \in DOMAIN users : Fits(j, v) => Fits(j, v)'
        BY <2>0, <2>2, <3>0, InsertKeeps
      <3>2. Maps'
        BY <1>0, <2>0, <3>1
      <3> QED BY <1>0, <1>4, <2>0, <3>1, <3>2
    <2> QED BY <1>11, <2>1, <2>2 DEF InsertInvited
  <1>9. CASE UNCHANGED signInVars
    <2>1. Maps'
      BY <1>0, <1>5, <1>9 DEF signInVars
    <2> QED BY <1>0, <1>4, <1>5, <1>9, <2>1 DEF signInVars
  <1> QED BY <1>2, <1>3, <1>6, <1>7, <1>8, <1>9, <1>10, <1>11 DEF SignInNext

\* Whatever sign-ins and invitations overlap, the users stay apart but for those
\* made at once, and every identity is mapped to a user that bears its email.
THEOREM SignInsInOrder == SignInSpec => []SignInInv
  <1>1. SignInInit => SignInInv
    <2> SUFFICES ASSUME SignInInit PROVE SignInInv
      OBVIOUS
    <2>1. DOMAIN users = {} /\ mapped = [i \in Identities |-> {}] /\ members = {}
      BY DEF SignInInit
    <2>2. /\ NotSigning \in SigningSteps /\ NotSigning.at = "idle" /\ NotSigning.who = {}
          /\ NotSigning.seen = {} /\ \A s \in Sessions : signing[s] = NotSigning
          /\ signing = [s \in Sessions |-> NotSigning]
      BY SignInAssumption DEF SignInInit, NotSigning, Starts, SigningSteps
    <2>3. SignInTypeOK
      BY <2>1, <2>2 DEF SignInTypeOK
    <2> QED BY <2>1, <2>2, <2>3 DEF SignInInv, UsersAreApart, MakersLooked, OneIdentity, MappedFits
  <1> QED BY <1>1, SignInStep, PTL DEF SignInSpec

\* Two identities with one mailbox, and whoever was invited under it, are one
\* user, unless two of them overlapped and spelled it differently (`bootstrap`,
\* `_resolve_user`, `invite`).
THEOREM OneEmailOneUser == SignInSpec => []SamePersonSameUser
  <1>1. SignInInv => SamePersonSameUser
    <2> SUFFICES ASSUME SignInInv, NEW i \in Identities, NEW m \in mapped[i]
                 PROVE  /\ \A u \in WithEmail(EmailOf[i]) : u = m \/ MadeAtOnce(u, m)
                        /\ \A j \in Identities : \A n \in mapped[j] :
                              Lowered(EmailOf[i]) = Lowered(EmailOf[j]) /\ EmailOf[i] # {} =>
                                 m = n \/ MadeAtOnce(m, n)
      BY DEF SamePersonSameUser
    <2>1. ASSUME NEW j \in Identities, NEW n \in mapped[j]
          PROVE  /\ n \in DOMAIN users
                 /\ EmailOf[j] # {} => Lowered(users[n].email) = Lowered(EmailOf[j])
      BY DEF SignInInv, MappedFits, Fits
    <2>2. \A u, v \in DOMAIN users :
             u # v /\ users[u].email # {} /\ Lowered(users[u].email) = Lowered(users[v].email) =>
                MadeAtOnce(u, v)
      BY DEF SignInInv, UsersAreApart
    <2>3. \A e : Lowered(e) = {} <=> e = {}
      BY DEF Lowered
    <2>4. ASSUME NEW u \in WithEmail(EmailOf[i]) PROVE u = m \/ MadeAtOnce(u, m)
      <3>1. u \in DOMAIN users /\ EmailOf[i] # {} /\ Lowered(users[u].email) = Lowered(EmailOf[i])
        BY DEF WithEmail
      <3> QED BY <2>1, <2>2, <2>3, <3>1
    <2>5. ASSUME NEW j \in Identities, NEW n \in mapped[j], EmailOf[i] # {},
                 Lowered(EmailOf[i]) = Lowered(EmailOf[j])
          PROVE  m = n \/ MadeAtOnce(m, n)
      <3>1. EmailOf[j] # {}
        BY <2>3, <2>5
      <3>2. /\ m \in DOMAIN users /\ n \in DOMAIN users
            /\ Lowered(users[m].email) = Lowered(users[n].email)
            /\ users[m].email # {}
        BY <2>1, <2>3, <2>5, <3>1
      <3> QED BY <2>2, <3>2
    <2> QED BY <2>4, <2>5
  <1> QED BY <1>1, SignInsInOrder, PTL

-----------------------------------------------------------------------------
(* Provisioning: the trail tells who is an operator and what is locked.      *)

\* What the requests ask, and whose rows are missing, when only p's moves.
LEMMA OneRequestMoves ==
    ASSUME requests \in [Persons -> OpenCalls], AsksMayBe, NEW p \in Persons,
           NEW c \in OpenCalls, requests' = [requests EXCEPT ![p] = c],
           c.at # "idle" => c.deed \in Deeds /\ MayAsk(p, c.deed, c.on)
    PROVE  /\ requests' \in [Persons -> OpenCalls] /\ AsksMayBe'
           /\ \A q \in Persons : requests'[q] = IF q = p THEN c ELSE requests[q]
           /\ \A x : \A q \in Persons \ {p} : q \in Unrecorded(x)' <=> q \in Unrecorded(x)
           /\ \A x : p \in Unrecorded(x)' <=> c.at = "audit" /\ c.on = x /\ c.deed \in Settling
  <1>1. requests' \in [Persons -> OpenCalls]
    OBVIOUS
  <1>2. \A q \in Persons : requests'[q] = IF q = p THEN c ELSE requests[q]
    OBVIOUS
  <1>3. AsksMayBe'
    BY <1>2 DEF AsksMayBe, MayAsk
  <1> QED BY <1>1, <1>2, <1>3 DEF Unrecorded

LEMMA OperatorStep == OperatorInv /\ [ProvisioningNext]_provisioningVars => OperatorInv'
  <1> DEFINE Places == (DOMAIN tenants) \X (Names \cup {"main"})
             Tenants == /\ DOMAIN tenants \subseteq Slugs
                        /\ \A s \in DOMAIN tenants : tenants[s] \in {"active", "locked"}
             Spaces == /\ DOMAIN spaces \subseteq Places
                       /\ \A w \in DOMAIN spaces : spaces[w] \in {"open", "archived"}
             Subjects == Persons \cup Slugs
  <1> SUFFICES ASSUME OperatorInv, [ProvisioningNext]_provisioningVars PROVE OperatorInv'
    OBVIOUS
  <1>0. /\ operators \subseteq Persons /\ Tenants /\ Spaces
        /\ requests \in [Persons -> OpenCalls]
        /\ lastRow \in [Subjects -> Deeds \cup {Nothing}] /\ blurred \subseteq Subjects
        /\ AsksMayBe /\ MissingRowsTell /\ TrailTellsState
    BY DEF OperatorInv, ProvisioningTypeOK
  <1>n. NotRequesting \in OpenCalls /\ NotRequesting.at = "idle"
    BY DEF NotRequesting, OpenCalls
  <1>q. \A x : \A q \in Unrecorded(x) : q \in Persons
    BY DEF Unrecorded
  <1>m. ASSUME NEW p \in Persons, requests[p].at # "idle"
        PROVE  /\ requests[p].deed \in Deeds /\ MayAsk(p, requests[p].deed, requests[p].on)
               /\ requests[p].on \in Subjects
    BY <1>0, <1>m DEF AsksMayBe, MayAsk
  \* The request of p moves on, or is over, with nothing written and no row missing.
  <1>1. ASSUME NEW p \in Persons, NEW c \in OpenCalls, requests' = [requests EXCEPT ![p] = c],
               c.at # "idle" => c.deed \in Deeds /\ MayAsk(p, c.deed, c.on),
               requests[p].at # "audit", c.at # "audit",
               UNCHANGED <<operators, tenants, spaces, lastRow, blurred>>
        PROVE  OperatorInv'
    <2>1. /\ requests' \in [Persons -> OpenCalls] /\ AsksMayBe'
          /\ \A q \in Persons : requests'[q] = IF q = p THEN c ELSE requests[q]
          /\ \A x : \A q \in Persons \ {p} : q \in Unrecorded(x)' <=> q \in Unrecorded(x)
          /\ \A x : p \notin Unrecorded(x)'
      BY <1>0, <1>1, OneRequestMoves
    <2>2. \A x : p \notin Unrecorded(x)
      BY <1>1 DEF Unrecorded
    <2>3. \A x : Unrecorded(x)' = Unrecorded(x)
      BY <2>1, <2>2 DEF Unrecorded
    <2>4. \A x, deed : Says(deed, x)' <=> Says(deed, x)
      BY <1>1 DEF Says
    <2>5. \A x : \A q \in Unrecorded(x) : requests'[q] = requests[q]
      BY <2>1, <2>2, <1>q
    <2>6. MissingRowsTell'
      BY <1>0, <1>1, <2>3, <2>4, <2>5 DEF MissingRowsTell
    <2>7. TrailTellsState'
      BY <1>0, <1>1, <2>3, <2>4 DEF TrailTellsState
    <2>8. ProvisioningTypeOK'
      BY <1>0, <1>1, <2>1 DEF ProvisioningTypeOK
    <2> QED BY <2>1, <2>6, <2>7, <2>8 DEF OperatorInv
  <1>2. ASSUME NEW p \in Persons, NEW deed \in Deeds, NEW on \in Subjects, Enter(p, deed, on)
        PROVE  OperatorInv'
    <2> DEFINE c == [at |-> IF deed = "create" THEN "check" ELSE "write", deed |-> deed, on |-> on]
    <2>1. c \in OpenCalls /\ c.deed = deed /\ c.on = on /\ c.at # "audit"
      BY DEF OpenCalls
    <2>2. /\ requests' = [requests EXCEPT ![p] = c] /\ MayAsk(p, deed, on)
          /\ requests[p].at # "audit"
          /\ UNCHANGED <<operators, tenants, spaces, lastRow, blurred>>
      BY <1>2, <1>n DEF Enter
    <2> HIDE DEF c
    <2> QED BY <1>1, <2>1, <2>2
  \* A request that moves on keeps what it asks.
  <1>3. ASSUME NEW p \in Persons, requests[p].at # "idle", NEW at \in {"write", "audit"},
               NEW c, c = [requests[p] EXCEPT !.at = at]
        PROVE  /\ c \in OpenCalls /\ c.at = at /\ c.deed = requests[p].deed
               /\ c.on = requests[p].on /\ c.deed \in Deeds /\ MayAsk(p, c.deed, c.on)
    <2>1. requests[p] \in OpenCalls
      BY <1>0
    <2>2. c \in OpenCalls /\ c.at = at /\ c.deed = requests[p].deed /\ c.on = requests[p].on
      BY <1>3, <2>1 DEF OpenCalls
    <2> QED BY <1>3, <1>m, <2>2
  <1>4. ASSUME NEW p \in Persons, Check(p) PROVE OperatorInv'
    <2> DEFINE c == [requests[p] EXCEPT !.at = "write"]
    <2>1. /\ requests[p].at = "check" /\ UNCHANGED <<operators, tenants, spaces, lastRow, blurred>>
          /\ \/ requests' = [requests EXCEPT ![p] = NotRequesting]
             \/ requests' = [requests EXCEPT ![p] = c]
      BY <1>4 DEF Check
    <2>2. c \in OpenCalls /\ c.at = "write" /\ c.deed \in Deeds /\ MayAsk(p, c.deed, c.on)
      BY <1>3, <2>1
    <2> HIDE DEF c
    <2> QED BY <1>1, <1>n, <2>1, <2>2
  <1>5. ASSUME NEW p \in Persons, Refuse(p) PROVE OperatorInv'
    BY <1>1, <1>5, <1>n DEF Refuse
  \* The row of p is written, or lost.
  <1>6. ASSUME NEW p \in Persons, RecordAudit(p) \/ Die(p) PROVE OperatorInv'
    <2>0. requests' = [requests EXCEPT ![p] = NotRequesting]
      BY <1>6 DEF RecordAudit, Die
    <2>1. /\ requests' \in [Persons -> OpenCalls] /\ AsksMayBe'
          /\ \A q \in Persons : requests'[q] = IF q = p THEN NotRequesting ELSE requests[q]
          /\ \A x : \A q \in Persons \ {p} : q \in Unrecorded(x)' <=> q \in Unrecorded(x)
          /\ \A x : p \notin Unrecorded(x)'
      BY <1>0, <1>n, <2>0, OneRequestMoves
    <2>2. \A x : Unrecorded(x)' = Unrecorded(x) \ {p}
      BY <2>1 DEF Unrecorded
    <2>3. \A x, deed : Says(deed, x)' <=> Says(deed, x)
      BY <1>6 DEF Says, RecordAudit, Die
    <2>4. \A x : \A q \in Unrecorded(x)' : requests'[q] = requests[q]
      BY <2>1, <2>2, <1>q
    <2>5. blurred \subseteq blurred' /\ blurred' \subseteq Subjects
      BY <1>0, <1>6 DEF RecordAudit, Die
    <2>6. MissingRowsTell'
      BY <1>0, <2>2, <2>3, <2>4, <2>5 DEF MissingRowsTell
    <2>7. lastRow' \in [Subjects -> Deeds \cup {Nothing}]
      BY <1>0, <1>6 DEF RecordAudit, Die, Settling
    <2>8. ASSUME NEW x \in Subjects \ blurred', Unrecorded(x)' = {} PROVE Says(lastRow'[x], x)
      <3>1. CASE p \in Unrecorded(x)
        <4>1. RecordAudit(p)
          BY <1>6, <2>8, <3>1 DEF Die
        <4>2. requests[p].on = x /\ requests[p].deed \in Settling
          BY <3>1 DEF Unrecorded
        <4>3. lastRow'[x] = requests[p].deed
          BY <1>0, <4>1, <4>2 DEF RecordAudit
        <4>4. Says(requests[p].deed, x)
          BY <1>0, <2>5, <3>1 DEF MissingRowsTell
        <4> QED BY <4>3, <4>4
      <3>2. CASE p \notin Unrecorded(x)
        <4>1. Unrecorded(x) = {}
          BY <2>2, <2>8, <3>2
        <4>2. Says(lastRow[x], x)
          BY <1>0, <2>5, <4>1 DEF TrailTellsState
        <4>3. lastRow'[x] = lastRow[x]
          BY <1>0, <1>6, <3>2 DEF RecordAudit, Die, Unrecorded
        <4> QED BY <4>2, <4>3
      <3> QED BY <3>1, <3>2
    <2>9. TrailTellsState'
      BY <2>3, <2>8 DEF TrailTellsState
    <2>10. ProvisioningTypeOK'
      BY <1>0, <1>6, <2>1, <2>5, <2>7 DEF ProvisioningTypeOK, RecordAudit, Die
    <2> QED BY <2>1, <2>6, <2>9, <2>10 DEF OperatorInv
  <1>7. ASSUME UNCHANGED <<operators, tenants, requests, lastRow, blurred>>, Spaces'
        PROVE  OperatorInv'
    <2>1. ProvisioningTypeOK' /\ AsksMayBe'
      BY <1>0, <1>7 DEF ProvisioningTypeOK, AsksMayBe, MayAsk
    <2>2. \A x : Unrecorded(x)' = Unrecorded(x)
      BY <1>7 DEF Unrecorded
    <2>3. \A x, deed : Says(deed, x)' <=> Says(deed, x)
      BY <1>7 DEF Says
    <2>4. MissingRowsTell' /\ TrailTellsState'
      BY <1>0, <1>7, <2>2, <2>3 DEF MissingRowsTell, TrailTellsState
    <2> QED BY <2>1, <2>4 DEF OperatorInv
  <1>8. ASSUME NEW s \in Slugs, NEW n \in Names, CreateWorkspace(s, n) PROVE OperatorInv'
    <2>1. Spaces'
      BY <1>0, <1>8 DEF CreateWorkspace, Opened
    <2> QED BY <1>7, <1>8, <2>1 DEF CreateWorkspace
  <1>9. ASSUME NEW w \in DOMAIN spaces, ArchiveWorkspace(w) PROVE OperatorInv'
    <2>1. Spaces'
      BY <1>0, <1>9 DEF ArchiveWorkspace
    <2> QED BY <1>7, <1>9, <2>1 DEF ArchiveWorkspace
  <1>10. ASSUME NEW p \in Persons, Write(p) PROVE OperatorInv'
    <2> DEFINE r == requests[p]
    <2>c. PICK c : c = [requests[p] EXCEPT !.at = "audit"]
      OBVIOUS
    <2>1. r \in OpenCalls /\ r.at = "write" /\ r.at # "idle" /\ r.at # "audit"
      BY <1>0, <1>10 DEF Write
    <2>2. r.deed \in Deeds /\ MayAsk(p, r.deed, r.on) /\ r.on \in Subjects
      BY <1>m, <2>1
    <2>3. /\ c \in OpenCalls /\ c.at = "audit" /\ c.deed = r.deed /\ c.on = r.on
          /\ c.deed \in Deeds /\ MayAsk(p, c.deed, c.on)
      BY <1>3, <2>1, <2>c
    <2>4. requests' = [requests EXCEPT ![p] = c]
      BY <1>10, <2>c DEF Write
    <2>5. /\ requests' \in [Persons -> OpenCalls] /\ AsksMayBe'
          /\ \A q \in Persons : requests'[q] = IF q = p THEN c ELSE requests[q]
          /\ \A x : \A q \in Persons \ {p} : q \in Unrecorded(x)' <=> q \in Unrecorded(x)
          /\ \A x : p \in Unrecorded(x)' <=> c.at = "audit" /\ c.on = x /\ c.deed \in Settling
      BY <1>0, <2>3, <2>4, OneRequestMoves
    <2>6. \A x : p \notin Unrecorded(x)
      BY <2>1 DEF Unrecorded
    <2>7. \A x : Unrecorded(x)' = IF r.on = x /\ r.deed \in Settling
                                  THEN Unrecorded(x) \cup {p} ELSE Unrecorded(x)
      BY <2>3, <2>5, <2>6 DEF Unrecorded
    <2>8. \A x : \A q \in Unrecorded(x) : requests'[q] = requests[q]
      BY <2>5, <2>6, <1>q
    <2>9. operators' \subseteq Persons
      BY <1>0, <1>10, <2>2 DEF Write, MayAsk
    <2>10. /\ Tenants' /\ DOMAIN tenants \subseteq DOMAIN tenants'
           /\ (r.deed = "create" => r.on \in DOMAIN tenants' /\ r.on \in Slugs)
           /\ \A x : x # r.on \/ r.deed \notin Settling =>
                /\ x \in DOMAIN tenants' <=> x \in DOMAIN tenants
                /\ x \in DOMAIN tenants => tenants'[x] = tenants[x]
           /\ r.deed \in {"create", "unlock"} => r.on \in DOMAIN tenants' /\ tenants'[r.on] = "active"
           /\ r.deed = "lock" => r.on \in DOMAIN tenants' /\ tenants'[r.on] = "locked"
      <3>1. CASE r.deed = "create"
        <4>1. r.on \in Slugs /\ r.deed \in Settling
          BY <2>2, <3>1 DEF MayAsk, Settling
        <4>2. tenants' = [s \in DOMAIN tenants \cup {r.on} |->
                            IF s = r.on THEN "active" ELSE tenants[s]]
          BY <1>10, <3>1 DEF Write
        <4> QED BY <1>0, <3>1, <4>1, <4>2
      <3>2. CASE r.deed = "lock"
        <4>1. /\ tenants' = [tenants EXCEPT ![r.on] = "locked"] /\ r.on \in DOMAIN tenants
              /\ r.deed \in Settling
          BY <1>10, <2>2, <3>2 DEF Write, Refused, Settling
        <4> QED BY <1>0, <3>2, <4>1
      <3>3. CASE r.deed = "unlock"
        <4>1. /\ tenants' = [tenants EXCEPT ![r.on] = "active"] /\ r.on \in DOMAIN tenants
              /\ r.deed \in Settling
          BY <1>10, <2>2, <3>3 DEF Write, Refused, Settling
        <4> QED BY <1>0, <3>3, <4>1
      <3>4. CASE r.deed \notin {"create", "lock", "unlock"}
        <4>1. tenants' = tenants
          BY <1>10, <3>4 DEF Write
        <4> QED BY <1>0, <3>4, <4>1
      <3> QED BY <3>1, <3>2, <3>3, <3>4
    <2>11. Spaces'
      <3>1. CASE r.deed = "create"
        <4>1. spaces' = [v \in DOMAIN spaces \cup {<<r.on, "main">>} |->
                           IF v = <<r.on, "main">> THEN "open" ELSE spaces[v]]
          BY <1>10, <3>1 DEF Write, Opened
        <4>2. <<r.on, "main">> \in (DOMAIN tenants') \X (Names \cup {"main"})
          BY <2>10, <3>1
        <4>3. Places \subseteq (DOMAIN tenants') \X (Names \cup {"main"})
          BY <2>10
        <4> QED BY <1>0, <4>1, <4>2, <4>3
      <3>2. CASE r.deed # "create"
        <4>1. spaces' = spaces
          BY <1>10, <3>2 DEF Write
        <4>2. Places \subseteq (DOMAIN tenants') \X (Names \cup {"main"})
          BY <2>10
        <4> QED BY <1>0, <4>1, <4>2
      <3> QED BY <3>1, <3>2
    <2>12. \A x : x # r.on \/ r.deed \notin Settling => (x \in operators' <=> x \in operators)
      BY <1>10, <2>2 DEF Write, Settling, Deeds
    <2>13. ASSUME NEW x, x # r.on \/ r.deed \notin Settling
           PROVE  /\ Unrecorded(x)' = Unrecorded(x)
                  /\ x \in blurred' <=> x \in blurred
                  /\ \A deed : Says(deed, x)' <=> Says(deed, x)
      <3>1. x \in blurred' <=> x \in blurred
        BY <1>10, <2>13 DEF Write
      <3>2. /\ x \in operators' <=> x \in operators
            /\ x \in DOMAIN tenants' <=> x \in DOMAIN tenants
            /\ x \in DOMAIN tenants => tenants'[x] = tenants[x]
        BY <2>10, <2>12, <2>13
      <3>3. \A deed : Says(deed, x)' <=> Says(deed, x)
        BY <3>2 DEF Says
      <3> QED BY <2>7, <2>13, <3>1, <3>3
    <2>14. PICK on, d : on = r.on /\ d = r.deed
      OBVIOUS
    <2>15. ASSUME d \in Settling, on \notin blurred'
           PROVE  Unrecorded(on) = {} /\ Says(d, on)'
      <3>1. Unrecorded(on) = {}
        BY <1>10, <2>15, <2>14 DEF Write
      <3>2. /\ d = "add" => on \in operators'
            /\ d = "remove" => on \notin operators'
        BY <1>10, <2>14 DEF Write
      <3>3. d \in {"create", "lock", "unlock", "add", "remove"}
        BY <2>15 DEF Settling, Deeds
      <3>4. /\ d \in {"create", "unlock"} => on \in DOMAIN tenants' /\ tenants'[on] = "active"
            /\ d = "lock" => on \in DOMAIN tenants' /\ tenants'[on] = "locked"
        BY <2>10, <2>14
      <3>5. Says(d, on)'
        BY <3>2, <3>3, <3>4 DEF Says
      <3> QED BY <3>1, <3>5
    <2>16. blurred' \subseteq Subjects
      BY <1>0, <1>10, <2>2 DEF Write
    <2>17. lastRow' = lastRow
      BY <1>10 DEF Write
    <2>18. ASSUME NEW x \in Subjects \ blurred'
           PROVE  /\ \A q, t \in Unrecorded(x)' : q = t
                  /\ \A q \in Unrecorded(x)' : Says(requests[q].deed, x)'
                  /\ Unrecorded(x)' = {} => Says(lastRow[x], x)'
      <3>1. CASE x = on /\ d \in Settling
        <4>1. Unrecorded(x) = {} /\ Says(d, x)'
          BY <2>15, <2>14, <2>18, <3>1
        <4>2. Unrecorded(x)' = {p}
          BY <2>7, <2>14, <3>1, <4>1
        <4>3. requests'[p].deed = d
          BY <2>3, <2>5, <2>14
        <4> QED BY <4>1, <4>2, <4>3
      <3>2. CASE x # on \/ d \notin Settling
        <4>1. /\ Unrecorded(x)' = Unrecorded(x) /\ x \notin blurred
              /\ \A deed : Says(deed, x)' <=> Says(deed, x)
          BY <2>13, <2>14, <2>18, <3>2
        <4> QED BY <1>0, <2>8, <2>17, <4>1 DEF MissingRowsTell, TrailTellsState
      <3> QED BY <3>1, <3>2
    <2>19. MissingRowsTell' /\ TrailTellsState'
      BY <2>18 DEF MissingRowsTell, TrailTellsState
    <2>20. ProvisioningTypeOK'
      BY <1>0, <2>5, <2>9, <2>10, <2>11, <2>16, <2>17 DEF ProvisioningTypeOK
    <2> QED BY <2>5, <2>19, <2>20 DEF OperatorInv
  <1>11. CASE UNCHANGED provisioningVars
    <2>1. Spaces'
      BY <1>0, <1>11 DEF provisioningVars
    <2> QED BY <1>7, <1>11, <2>1 DEF provisioningVars
  <1> QED BY <1>2, <1>4, <1>5, <1>6, <1>8, <1>9, <1>10, <1>11 DEF ProvisioningNext, OperatorsNext

LEMMA OperatorsInOrder == ProvisioningSpec => []OperatorInv
  <1>1. ProvisioningInit => OperatorInv
    <2> SUFFICES ASSUME ProvisioningInit PROVE OperatorInv
      OBVIOUS
    <2>1. /\ operators \subseteq Persons /\ DOMAIN tenants = {} /\ DOMAIN spaces = {}
          /\ requests = [p \in Persons |-> NotRequesting]
          /\ lastRow = [x \in Persons \cup Slugs |-> Nothing] /\ blurred = {}
      BY DEF ProvisioningInit
    <2>2. NotRequesting \in OpenCalls /\ NotRequesting.at = "idle"
      BY DEF NotRequesting, OpenCalls
    <2>3. ProvisioningTypeOK
      BY <2>1, <2>2 DEF ProvisioningTypeOK
    <2>4. AsksMayBe
      BY <2>1, <2>2 DEF AsksMayBe
    <2>5. \A x : Unrecorded(x) = {}
      BY <2>1, <2>2 DEF Unrecorded
    <2>6. \A x : Says(Nothing, x)
      BY <2>1, ProvisioningAssumption DEF Says, Deeds
    <2> QED BY <2>1, <2>3, <2>4, <2>5, <2>6 DEF OperatorInv, MissingRowsTell, TrailTellsState
  <1> QED BY <1>1, OperatorStep, PTL DEF ProvisioningSpec

\* The trail of the platform's operators says who is one of them and which tenants
\* are locked, though each row is written after the deed it is about and any of them
\* may be lost (`ProvisioningService._audit`): for any number of operators, of
\* tenants and of requests that cross.
THEOREM TrailTells == ProvisioningSpec => []TrailTellsState
  <1>1. OperatorInv => TrailTellsState
    BY DEF OperatorInv
  <1> QED BY <1>1, OperatorsInOrder, PTL
=============================================================================

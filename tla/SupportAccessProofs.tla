------------------------- MODULE SupportAccessProofs -------------------------
(* Theorems about SupportAccess, for any grants, members, staff and scopes:   *)
(* staff act only under a grant that was in force during their request, and   *)
(* the grants implement SupportContract.                                      *)
EXTENDS SupportAccess, TLAPS

\* How a commit moves a row (`_change`): not at all, or forward along one of the
\* commands, and it never touches who it is handed to or its end.
LEMMA CommitMoves ==
    ASSUME RowsTyped, NEW m \in Members, Commit(m)
    PROVE  \/ grants' = grants
           \/ \E g \in Grants :
                 /\ \A h \in Grants \ {g} : grants'[h] = grants[h]
                 /\ grants'[g].staff = grants[g].staff /\ grants'[g].expired = grants[g].expired
                 /\ \/ /\ grants[g].status = "none" /\ grants'[g].status = "pending_approval"
                    \/ /\ grants[g].status = "none" /\ grants'[g].status = "pending_assignment"
                       /\ grants'[g].granter = {m}
                    \/ /\ grants[g].status = "pending_approval"
                       /\ grants'[g].status = "pending_assignment" /\ grants'[g].granter = {m}
                    \/ /\ grants[g].status = "pending_approval" /\ grants'[g].status = "rejected"
                       /\ grants'[g].granter = grants[g].granter
                    \/ /\ grants[g].status \in Open /\ grants'[g].status = "revoked"
                       /\ grants'[g].granter = grants[g].granter
  <1>1. PICK command \in desk[m] :
            grants' = [grants EXCEPT ![command.grant] =
                          IF @.status \in Expected(command.op) THEN Changed(@, m, command) ELSE @]
    BY DEF Commit
  <1>2. command \in Commands
    BY DEF RowsTyped, AtMostOne
  <1> DEFINE g == command.grant
  <1>3. g \in Grants /\ grants[g] \in GrantRows
    BY <1>2 DEF Commands, RowsTyped
  <1>4. CASE grants[g].status \notin Expected(command.op)
    BY <1>1, <1>3, <1>4 DEF RowsTyped
  <1>5. CASE grants[g].status \in Expected(command.op)
    <2>1. grants' = [grants EXCEPT ![g] = Changed(grants[g], m, command)]
      BY <1>1, <1>5
    <2>2. grants'[g] = Changed(grants[g], m, command)
          /\ \A h \in Grants \ {g} : grants'[h] = grants[h]
      BY <2>1, <1>3 DEF RowsTyped
    <2>3. CASE command.op = "request"
      <3>1. grants[g].status = "none"
        BY <1>5, <2>3 DEF Expected
      <3>2. CASE command.granting
        <4>1. grants'[g] = [grants[g] EXCEPT !.status = "pending_assignment",
                                             !.scopes = command.scopes, !.granter = {m}]
          BY <2>2, <2>3, <3>2 DEF Changed
        <4> QED BY <1>3, <2>2, <3>1, <4>1 DEF GrantRows
      <3>3. CASE ~command.granting
        <4>1. grants'[g] = [grants[g] EXCEPT !.status = "pending_approval",
                                             !.scopes = command.scopes, !.granter = {}]
          BY <2>2, <2>3, <3>3 DEF Changed
        <4> QED BY <1>3, <2>2, <3>1, <4>1 DEF GrantRows
      <3> QED BY <3>2, <3>3
    <2>4. CASE command.op = "approve"
      BY <1>3, <1>5, <2>2, <2>4 DEF Changed, Expected, GrantRows
    <2>5. CASE command.op = "reject"
      BY <1>3, <1>5, <2>2, <2>5 DEF Changed, Expected, GrantRows
    <2>6. CASE command.op = "revoke"
      BY <1>3, <1>5, <2>2, <2>6 DEF Changed, Expected, GrantRows
    <2> QED BY <1>2, <2>3, <2>4, <2>5, <2>6 DEF Commands
  <1> QED BY <1>4, <1>5

\* The row a command leaves is a row.
LEMMA ChangedTyped ==
    ASSUME NEW row \in GrantRows, NEW m \in Members, NEW command \in Commands
    PROVE  Changed(row, m, command) \in GrantRows
  <1> USE DEF GrantRows, Commands, Status, AtMostOne
  <1>1. CASE command.op = "request" BY <1>1 DEF Changed
  <1>2. CASE command.op = "approve" BY <1>2 DEF Changed
  <1>3. CASE command.op = "reject" BY <1>3 DEF Changed
  <1>4. CASE command.op = "revoke" BY <1>4 DEF Changed
  <1> QED BY <1>1, <1>2, <1>3, <1>4

\* A step of a staff request after its first: it moves one call, and what was
\* unmet can only be met.
LEMMA GotoMoves ==
    ASSUME RowsTyped, NEW s \in Staff, NEW from \in Phases, NEW to \in Phases,
           GotoPhase(s, from, to)
    PROVE  /\ RowsTyped' /\ calls[s].phase = from /\ calls'[s].phase = to
           /\ \A p \in Staff : calls'[p].grant = calls[p].grant
           /\ \A p \in Staff \ {s} : calls'[p] = calls[p]
           /\ UNCHANGED <<grants, holds, enabled, listed>>
           /\ \A p \in Staff : unmet'[p] = unmet[p] \cap Fails(p)'
  <1>1. calls' = [calls EXCEPT ![s].phase = to] /\ calls[s].phase = from
        /\ UNCHANGED <<grants, holds, enabled, listed, desk, changes>>
    BY DEF GotoPhase
  <1>2. unmet' = [p \in Staff |-> unmet[p] \cap Fails(p)']
    BY DEF GotoPhase, Watch
  <1>3. unmet' \in [Staff -> SUBSET Conditions]
    BY <1>2 DEF RowsTyped
  <1>4. calls' \in [Staff -> [phase: Phases, grant: Grants]]
    BY <1>1 DEF RowsTyped
  <1> QED BY <1>1, <1>2, <1>3, <1>4 DEF RowsTyped

\* A step that is not of a staff request leaves the calls alone, and what was
\* unmet can only be met.
LEMMA WatchTyped ==
    ASSUME RowsTyped, Watch
    PROVE  /\ unmet' \in [Staff -> SUBSET Conditions]
           /\ \A p \in Staff : unmet'[p] \subseteq unmet[p]
  BY DEF RowsTyped, Watch

LEMMA TypedStep == RowsTyped /\ [SupportNext]_supportVars => RowsTyped'
  <1> SUFFICES ASSUME RowsTyped, [SupportNext]_supportVars PROVE RowsTyped'
    OBVIOUS
  <1>1. ASSUME NEW m \in Members, NEW command \in Commands, Takes(m, command) PROVE RowsTyped'
    <2>1. unmet' \in [Staff -> SUBSET Conditions]
      BY <1>1, WatchTyped DEF Takes
    <2> QED BY <1>1, <2>1 DEF Takes, RowsTyped, AtMostOne
  <1>2. ASSUME NEW m \in Members, NEW g \in Grants, NEW S \in ScopeSets, TakeRequest(m, g, S)
        PROVE  RowsTyped'
    <2>1. PICK b \in BOOLEAN :
              Takes(m, [op |-> "request", grant |-> g, scopes |-> S, granting |-> b])
      BY <1>2 DEF TakeRequest
    <2>2. [op |-> "request", grant |-> g, scopes |-> S, granting |-> b] \in Commands
      BY DEF Commands, GrantScopes
    <2> QED BY <1>1, <2>1, <2>2
  <1>3. ASSUME NEW m \in Members, NEW g \in Grants,
               TakeApprove(m, g) \/ TakeReject(m, g) \/ TakeRevoke(m, g)
        PROVE  RowsTyped'
    <2>1. PICK op \in {"approve", "reject", "revoke"} :
              Takes(m, [op |-> op, grant |-> g, scopes |-> {}, granting |-> TRUE])
      BY <1>3 DEF TakeApprove, TakeReject, TakeRevoke
    <2>2. [op |-> op, grant |-> g, scopes |-> {}, granting |-> TRUE] \in Commands
      BY DEF Commands
    <2> QED BY <1>1, <2>1, <2>2
  <1>4. ASSUME NEW m \in Members, Commit(m) PROVE RowsTyped'
    <2>1. unmet' \in [Staff -> SUBSET Conditions]
      BY <1>4, WatchTyped DEF Commit
    <2>2. PICK command \in desk[m] :
              grants' = [grants EXCEPT ![command.grant] =
                            IF @.status \in Expected(command.op) THEN Changed(@, m, command)
                                                                 ELSE @]
      BY <1>4 DEF Commit
    <2>3. command \in Commands /\ command.grant \in Grants
      BY DEF RowsTyped, AtMostOne, Commands
    <2>4. Changed(grants[command.grant], m, command) \in GrantRows
      BY <2>3, ChangedTyped DEF RowsTyped
    <2>5. grants' \in [Grants -> GrantRows]
      BY <2>2, <2>3, <2>4 DEF RowsTyped
    <2> QED BY <1>4, <2>1, <2>5 DEF Commit, RowsTyped, AtMostOne
  <1>5. ASSUME NEW g \in Grants, NEW s \in Staff, Assign(g, s) PROVE RowsTyped'
    <2>1. unmet' \in [Staff -> SUBSET Conditions]
      BY <1>5, WatchTyped DEF Assign
    <2>2. grants' = [grants EXCEPT ![g].status = "active", ![g].staff = {s}]
          /\ UNCHANGED <<desk, calls>>
      BY <1>5 DEF Assign
    <2>3. [grants[g] EXCEPT !.status = "active", !.staff = {s}] \in GrantRows
      BY DEF RowsTyped, GrantRows, Status, AtMostOne
    <2>4. grants' \in [Grants -> GrantRows]
      BY <2>2, <2>3 DEF RowsTyped
    <2> QED BY <2>1, <2>2, <2>4 DEF RowsTyped
  <1>6. ASSUME NEW g \in Grants, Expire(g) PROVE RowsTyped'
    <2>1. unmet' \in [Staff -> SUBSET Conditions]
      BY <1>6, WatchTyped DEF Expire
    <2> QED BY <1>6, <2>1 DEF Expire, RowsTyped, GrantRows
  <1>7. ASSUME UNCHANGED <<grants, desk, calls>>, Watch PROVE RowsTyped'
    BY <1>7, WatchTyped DEF RowsTyped
  <1>8. ASSUME NEW g \in Grants, NEW s \in Staff, CheckStaff(s, g) PROVE RowsTyped'
    <2>1. calls' \in [Staff -> [phase: Phases, grant: Grants]]
      BY <1>8 DEF CheckStaff, RowsTyped, Phases
    <2>2. unmet' = [p \in Staff |-> IF p = s THEN Fails(s)' ELSE unmet[p] \cap Fails(p)']
      BY <1>8 DEF CheckStaff
    <2>3. unmet' \in [Staff -> SUBSET Conditions]
      BY <2>2 DEF RowsTyped, Fails
    <2> QED BY <1>8, <2>1, <2>3 DEF CheckStaff, RowsTyped
  <1>9. ASSUME NEW s \in Staff, NEW from \in Phases, NEW to \in Phases, GotoPhase(s, from, to)
        PROVE  RowsTyped'
    BY <1>9, GotoMoves
  <1>10. ASSUME NEW s \in Staff, ReadGrant(s) \/ ReadGranter(s) \/ ReadPlan(s)
                                 \/ RecordAccess(s) \/ RecordFails(s) \/ Finish(s)
         PROVE  RowsTyped'
    BY <1>10, <1>9 DEF ReadGrant, ReadGranter, ReadPlan, RecordAccess, RecordFails, Finish, Phases
  <1>11. CASE UNCHANGED supportVars
    BY <1>11 DEF supportVars, RowsTyped
  <1>12. ASSUME NEW m \in Members, EditMember(m) PROVE RowsTyped'
    BY <1>7, <1>12 DEF EditMember
  <1>13. ASSUME EditPlan PROVE RowsTyped'
    BY <1>7, <1>13 DEF EditPlan
  <1>14. ASSUME NEW s \in Staff, AddStaff(s) \/ RemoveStaff(s) PROVE RowsTyped'
    BY <1>7, <1>14 DEF AddStaff, RemoveStaff
  <1> QED
    BY <1>2, <1>3, <1>4, <1>5, <1>6, <1>8, <1>10, <1>11, <1>12, <1>13, <1>14 DEF SupportNext

\* Rows move forward: a grant that names staff is handed out or revoked.
LEMMA RowsStep == RowsTyped /\ RowsInOrder /\ [SupportNext]_supportVars => RowsInOrder'
  <1> SUFFICES ASSUME RowsTyped, RowsInOrder, [SupportNext]_supportVars PROVE RowsInOrder'
    OBVIOUS
  <1>1. CASE UNCHANGED grants
    BY <1>1 DEF RowsInOrder
  <1>2. ASSUME NEW m \in Members, Commit(m) PROVE RowsInOrder'
    BY <1>2, CommitMoves DEF RowsInOrder, Open
  <1>3. ASSUME NEW g \in Grants, NEW s \in Staff, Assign(g, s) PROVE RowsInOrder'
    BY <1>3 DEF Assign, RowsInOrder, RowsTyped, GrantRows
  <1>4. ASSUME NEW g \in Grants, Expire(g) PROVE RowsInOrder'
    BY <1>4 DEF Expire, RowsInOrder, RowsTyped, GrantRows
  <1> QED
    BY <1>1, <1>2, <1>3, <1>4
       DEF SupportNext, supportVars, TakeRequest, TakeApprove, TakeReject, TakeRevoke, Takes, EditMember,
           EditPlan, AddStaff, RemoveStaff, CheckStaff, ReadGrant, ReadGranter, ReadPlan,
           RecordAccess, RecordFails, Finish, GotoPhase

\* Who a grant is handed to does not change under a request that relies on it.
LEMMA StaffKept ==
    ASSUME RowsTyped, RowsInOrder, [SupportNext]_supportVars, NEW g \in Grants, grants[g].staff # {}
    PROVE  grants'[g].staff = grants[g].staff
  <1>1. CASE UNCHANGED grants
    BY <1>1
  <1>2. ASSUME NEW m \in Members, Commit(m) PROVE grants'[g].staff = grants[g].staff
    BY <1>2, CommitMoves
  <1>3. ASSUME NEW h \in Grants, NEW s \in Staff, Assign(h, s)
        PROVE  grants'[g].staff = grants[g].staff
    BY <1>3 DEF Assign, RowsInOrder, RowsTyped
  <1>4. ASSUME NEW h \in Grants, Expire(h) PROVE grants'[g].staff = grants[g].staff
    BY <1>4 DEF Expire, RowsTyped, GrantRows
  <1> QED
    BY <1>1, <1>2, <1>3, <1>4
       DEF SupportNext, supportVars, TakeRequest, TakeApprove, TakeReject, TakeRevoke, Takes, EditMember,
           EditPlan, AddStaff, RemoveStaff, CheckStaff, ReadGrant, ReadGranter, ReadPlan,
           RecordAccess, RecordFails, Finish, GotoPhase

\* A request that somebody else's step leaves where it is keeps what it has seen.
LEMMA OthersKept ==
    ASSUME GrantInv, [SupportNext]_supportVars, NEW p \in Staff, calls'[p] = calls[p],
           unmet'[p] \subseteq unmet[p]
    PROVE  Passed(p)'
  <1>1. Passed(p) /\ calls[p].grant \in Grants
    BY DEF GrantInv, PassedWasMet, RowsTyped
  <1>2. grants[calls[p].grant].staff = {p} => grants'[calls[p].grant].staff = {p}
    BY <1>1, StaffKept DEF GrantInv
  <1> QED BY <1>1, <1>2 DEF Passed

LEMMA PassedStep == GrantInv /\ [SupportNext]_supportVars => PassedWasMet'
  <1> SUFFICES ASSUME GrantInv, [SupportNext]_supportVars PROVE PassedWasMet'
    OBVIOUS
  <1>1. ASSUME UNCHANGED calls, Watch PROVE PassedWasMet'
    BY <1>1, OthersKept, WatchTyped DEF PassedWasMet, GrantInv
  <1>2. CASE UNCHANGED supportVars
    BY <1>2, OthersKept DEF PassedWasMet, supportVars
  <1>3. ASSUME NEW g \in Grants, NEW s \in Staff, CheckStaff(s, g) PROVE PassedWasMet'
    <2>1. unmet' = [p \in Staff |-> IF p = s THEN Fails(s)' ELSE unmet[p] \cap Fails(p)']
          /\ calls' = [calls EXCEPT ![s] = [phase |-> "grant", grant |-> g]]
          /\ s \in listed /\ listed' = listed
      BY <1>3 DEF CheckStaff
    <2>2. "listed" \notin unmet'[s]
      BY <2>1 DEF Fails, Met
    <2>3. Passed(s)'
      BY <2>1, <2>2 DEF Passed, GrantInv, RowsTyped
    <2>4. ASSUME NEW p \in Staff, p # s PROVE Passed(p)'
      BY <2>1, <2>4, OthersKept DEF GrantInv, RowsTyped
    <2> QED BY <2>3, <2>4 DEF PassedWasMet
  <1>4. ASSUME NEW s \in Staff, NEW from \in Phases, NEW to \in Phases, GotoPhase(s, from, to),
               Passed(s)'
        PROVE  PassedWasMet'
    <2>1. ASSUME NEW p \in Staff, p # s PROVE Passed(p)'
      BY <1>4, <2>1, GotoMoves, OthersKept DEF GrantInv
    <2> QED BY <1>4, <2>1 DEF PassedWasMet
  <1>5. ASSUME NEW s \in Staff, ReadGrant(s) PROVE PassedWasMet'
    <2> DEFINE to == IF grants[calls[s].grant].staff = {s} /\ GrantLive(calls[s].grant)
                     THEN "granter" ELSE "idle"
    <2>1. GotoPhase(s, "grant", to) /\ "grant" \in Phases /\ to \in Phases
      BY <1>5 DEF ReadGrant, Phases
    <2> HIDE DEF to
    <2>2. /\ calls[s].phase = "grant" /\ calls'[s].phase = to
          /\ calls'[s].grant = calls[s].grant /\ UNCHANGED <<grants, holds, enabled, listed>>
          /\ unmet'[s] = unmet[s] \cap Fails(s)'
      BY <2>1, GotoMoves DEF GrantInv
    <2>3. "listed" \notin unmet'[s]
      BY <2>2 DEF GrantInv, PassedWasMet, Passed
    <2>4. CASE to = "granter"
      <3>1. grants[calls[s].grant].staff = {s} /\ GrantLive(calls[s].grant)
        BY <2>4 DEF to
      <3>2. "assigned" \notin Fails(s)' /\ "live" \notin Fails(s)'
        BY <2>2, <3>1 DEF Fails, Met, GrantLive
      <3>3. Passed(s)'
        BY <2>2, <2>3, <2>4, <3>1, <3>2 DEF Passed
      <3> QED BY <1>4, <2>1, <3>3
    <2>5. CASE to = "idle"
      <3>1. Passed(s)'
        BY <2>2, <2>5 DEF Passed
      <3> QED BY <1>4, <2>1, <3>1
    <2> QED BY <2>4, <2>5 DEF to
  <1>6. ASSUME NEW s \in Staff, ReadGranter(s) PROVE PassedWasMet'
    <2> DEFINE to == IF GranterStands(calls[s].grant) THEN "plan" ELSE "idle"
    <2>1. GotoPhase(s, "granter", to) /\ "granter" \in Phases /\ to \in Phases
      BY <1>6 DEF ReadGranter, Phases
    <2> HIDE DEF to
    <2>2. /\ calls[s].phase = "granter" /\ calls'[s].phase = to
          /\ calls'[s].grant = calls[s].grant /\ UNCHANGED <<grants, holds, enabled, listed>>
          /\ unmet'[s] = unmet[s] \cap Fails(s)'
      BY <2>1, GotoMoves DEF GrantInv
    <2>3. Passed(s)
      BY DEF GrantInv, PassedWasMet
    <2>4. CASE to = "plan"
      <3>1. GranterStands(calls[s].grant)
        BY <2>4 DEF to
      <3>2. "granter" \notin Fails(s)'
        BY <2>2, <3>1 DEF Fails, Met, GranterStands
      <3>3. Passed(s)'
        BY <2>2, <2>3, <2>4, <3>2 DEF Passed
      <3> QED BY <1>4, <2>1, <3>3
    <2>5. CASE to = "idle"
      <3>1. Passed(s)'
        BY <2>2, <2>5 DEF Passed
      <3> QED BY <1>4, <2>1, <3>1
    <2> QED BY <2>4, <2>5 DEF to
  <1>7. ASSUME NEW s \in Staff, ReadPlan(s) PROVE PassedWasMet'
    <2> DEFINE to == IF enabled THEN "record" ELSE "idle"
    <2>1. GotoPhase(s, "plan", to) /\ "plan" \in Phases /\ to \in Phases
      BY <1>7 DEF ReadPlan, Phases
    <2> HIDE DEF to
    <2>2. /\ calls[s].phase = "plan" /\ calls'[s].phase = to
          /\ calls'[s].grant = calls[s].grant /\ UNCHANGED <<grants, holds, enabled, listed>>
          /\ unmet'[s] = unmet[s] \cap Fails(s)'
      BY <2>1, GotoMoves DEF GrantInv
    <2>3. Passed(s)
      BY DEF GrantInv, PassedWasMet
    <2>4. CASE to = "record"
      <3>1. "plan" \notin Fails(s)'
        BY <2>2, <2>4 DEF Fails, Met, to
      <3>2. Passed(s)'
        BY <2>2, <2>3, <2>4, <3>1 DEF Passed
      <3> QED BY <1>4, <2>1, <3>2
    <2>5. CASE to = "idle"
      <3>1. Passed(s)'
        BY <2>2, <2>5 DEF Passed
      <3> QED BY <1>4, <2>1, <3>1
    <2> QED BY <2>4, <2>5 DEF to
  <1>8. ASSUME NEW s \in Staff, RecordAccess(s) PROVE PassedWasMet'
    <2>1. GotoPhase(s, "record", "acting") /\ "record" \in Phases /\ "acting" \in Phases
      BY <1>8 DEF RecordAccess, Phases
    <2>2. /\ calls[s].phase = "record" /\ calls'[s].phase = "acting"
          /\ calls'[s].grant = calls[s].grant /\ UNCHANGED grants
          /\ unmet'[s] \subseteq unmet[s]
      BY <2>1, GotoMoves DEF GrantInv
    <2>3. Passed(s)'
      BY <2>2 DEF Passed, GrantInv, PassedWasMet
    <2> QED BY <1>4, <2>1, <2>3
  <1>9. ASSUME NEW s \in Staff, RecordFails(s) \/ Finish(s) PROVE PassedWasMet'
    <2>1. PICK from \in Phases : GotoPhase(s, from, "idle")
      BY <1>9 DEF RecordFails, Finish, Phases
    <2>2. calls'[s].phase = "idle" /\ "idle" \in Phases
      BY <2>1, GotoMoves DEF GrantInv, Phases
    <2>3. Passed(s)'
      BY <2>2 DEF Passed
    <2> QED BY <1>4, <2>1, <2>2, <2>3
  <1> QED
    BY <1>1, <1>2, <1>3, <1>5, <1>6, <1>7, <1>8, <1>9
       DEF SupportNext, TakeRequest, TakeApprove, TakeReject, TakeRevoke, Takes, Commit, EditMember,
           EditPlan, AddStaff, RemoveStaff, Assign, Expire

\* The invariant, for any constants.
THEOREM GrantsInvariant == SupportSpec => []GrantInv
  <1>1. SupportInit => GrantInv
    <2> SUFFICES ASSUME SupportInit PROVE GrantInv
      OBVIOUS
    <2>1. RowsTyped
      BY DEF SupportInit, RowsTyped, GrantRows, Status, AtMostOne, Phases
    <2>2. RowsInOrder
      BY DEF SupportInit, RowsInOrder
    <2>3. PassedWasMet
      BY DEF SupportInit, PassedWasMet, Passed
    <2> QED BY <2>1, <2>2, <2>3 DEF GrantInv
  <1>2. GrantInv /\ [SupportNext]_supportVars => GrantInv'
    BY TypedStep, RowsStep, PassedStep DEF GrantInv
  <1> QED BY <1>1, <1>2, PTL DEF SupportSpec

\* Staff act only under a grant that was in force, handed to them and stood
\* behind at some moment of that very request (get_access_context_or_support).
THEOREM ActsUnderGrant == SupportSpec => []AccessUnderGrant
  <1>1. ASSUME GrantInv, NEW s \in Staff, calls[s].phase = "acting"
        PROVE  /\ unmet[s] = {} /\ grants[calls[s].grant].staff = {s}
               /\ grants[calls[s].grant].granter # {}
    <2>1. Passed(s) /\ calls[s].grant \in Grants /\ unmet[s] \subseteq Conditions
      BY <1>1 DEF GrantInv, RowsTyped, PassedWasMet
    <2>2. unmet[s] = {} /\ grants[calls[s].grant].staff = {s}
      BY <1>1, <2>1 DEF Passed, Conditions
    <2>3. grants[calls[s].grant].granter # {}
      BY <1>1, <2>1, <2>2 DEF GrantInv, RowsInOrder
    <2> QED BY <2>2, <2>3
  <1>2. GrantInv => AccessUnderGrant
    BY <1>1 DEF AccessUnderGrant
  <1> QED BY <1>2, GrantsInvariant, PTL

\* A step of the rows alone: with the calls as they were, the contract sees at
\* most one grant move one phase on.
LEMMA RowsImplement ==
    ASSUME GrantInv, UNCHANGED calls, NEW g \in Grants,
           grants' \in [Grants -> GrantRows],
           \A h \in Grants \ {g} : grants'[h] = grants[h],
           grants'[g].staff = grants[g].staff,
           PhaseOf(grants'[g]) # PhaseOf(grants[g]) =>
               \/ PhaseOf(grants[g]) = "none" /\ PhaseOf(grants'[g]) \in {"asked", "agreed"}
               \/ PhaseOf(grants[g]) = "asked" /\ PhaseOf(grants'[g]) = "agreed"
               \/ PhaseOf(grants[g]) \in {"asked", "agreed", "running"}
                  /\ PhaseOf(grants'[g]) = "over"
    PROVE  [Contract!Next]_(Contract!vars)
  <1> DEFINE phase == [h \in Grants |-> PhaseOf(grants[h])]
             to == PhaseOf(grants'[g])
  <1>1. phase' = [phase EXCEPT ![g] = to]
    BY DEF PhaseOf
  <1>2. [h \in Grants |-> grants'[h].staff] = [h \in Grants |-> grants[h].staff]
    OBVIOUS
  <1>3. CASE to = phase[g]
    <2>1. phase' = phase
      BY <1>1, <1>3
    <2> QED BY <1>2, <2>1 DEF Contract!vars
  <1>4. CASE phase[g] = "none" /\ to \in {"asked", "agreed"}
    <2>1. Contract!Ask(g)
      BY <1>1, <1>2, <1>4 DEF Contract!Ask, Contract!Moves
    <2> QED BY <2>1 DEF Contract!Next
  <1>5. CASE phase[g] = "asked" /\ to = "agreed"
    <2>1. Contract!Agree(g)
      BY <1>1, <1>2, <1>5 DEF Contract!Agree, Contract!Moves
    <2> QED BY <2>1 DEF Contract!Next
  <1>6. CASE phase[g] \in {"asked", "agreed", "running"} /\ to = "over"
    <2>1. Contract!End(g)
      BY <1>1, <1>2, <1>6 DEF Contract!End, Contract!Moves
    <2> QED BY <2>1 DEF Contract!Next
  <1> QED BY <1>3, <1>4, <1>5, <1>6

\* A step of one call: the contract sees its person come in, leave, or nothing.
LEMMA CallImplements ==
    ASSUME GrantInv, UNCHANGED grants, NEW s \in Staff,
           calls' \in [Staff -> [phase: Phases, grant: Grants]],
           \A p \in Staff \ {s} : calls'[p] = calls[p],
           calls[s].phase \notin {"idle", "grant"} /\ calls'[s].phase \notin {"idle", "grant"}
               => calls'[s].grant = calls[s].grant,
           calls[s].phase \in {"idle", "grant"} /\ calls'[s].phase \notin {"idle", "grant"}
               => grants[calls'[s].grant].staff = {s} /\ GrantLive(calls'[s].grant)
    PROVE  [Contract!Next]_(Contract!vars)
  <1> DEFINE Within(p) == IF calls[p].phase \in {"idle", "grant"} THEN {} ELSE {calls[p].grant}
             inside == [p \in Staff |-> Within(p)]
  <1>1. UNCHANGED <<[h \in Grants |-> PhaseOf(grants[h])], [h \in Grants |-> grants[h].staff]>>
    BY DEF PhaseOf
  <1>2. inside' = [inside EXCEPT ![s] = Within(s)']
    OBVIOUS
  <1>3. CASE Within(s)' = Within(s)
    <2>1. inside' = inside
      BY <1>2, <1>3
    <2> QED BY <1>1, <2>1 DEF Contract!vars
  <1>4. CASE Within(s) # {} /\ Within(s)' = {}
    <2>1. Contract!Leave(s)
      BY <1>1, <1>2, <1>4 DEF Contract!Leave
    <2> QED BY <2>1 DEF Contract!Next
  <1>5. CASE Within(s) = {} /\ Within(s)' # {}
    <2>1. calls[s].phase \in {"idle", "grant"} /\ calls'[s].phase \notin {"idle", "grant"}
      BY <1>5
    <2>2. PICK g \in Grants : g = calls'[s].grant
      OBVIOUS
    <2>3. Within(s)' = {g}
      BY <2>1, <2>2
    <2>4. grants[g].staff = {s} /\ PhaseOf(grants[g]) = "running"
      BY <2>1, <2>2 DEF GrantLive, PhaseOf
    <2>5. Contract!Admit(s, g)
      BY <1>1, <1>2, <1>5, <2>3, <2>4 DEF Contract!Admit
    <2> QED BY <2>5 DEF Contract!Next
  <1> QED BY <1>3, <1>4, <1>5

\* Every step of support access is a step of the contract or none.
LEMMA StepImplements == GrantInv /\ [SupportNext]_supportVars => [Contract!Next]_(Contract!vars)
  <1> SUFFICES ASSUME GrantInv, [SupportNext]_supportVars PROVE [Contract!Next]_(Contract!vars)
    OBVIOUS
  <1>1. RowsTyped'
    BY TypedStep DEF GrantInv
  <1>2. CASE UNCHANGED <<grants, calls>>
    <2>1. UNCHANGED <<[h \in Grants |-> PhaseOf(grants[h])],
                      [h \in Grants |-> grants[h].staff]>>
      BY <1>2 DEF PhaseOf
    <2> QED BY <1>2, <2>1 DEF Contract!vars
  <1>3. ASSUME NEW m \in Members, Commit(m) PROVE [Contract!Next]_(Contract!vars)
    <2>1. UNCHANGED calls
      BY <1>3 DEF Commit
    <2>2. CASE grants' = grants
      BY <1>2, <2>1, <2>2
    <2>3. CASE grants' # grants
      <3>1. PICK g \in Grants :
                /\ \A h \in Grants \ {g} : grants'[h] = grants[h]
                /\ grants'[g].staff = grants[g].staff /\ grants'[g].expired = grants[g].expired
                /\ \/ /\ grants[g].status = "none"
                      /\ grants'[g].status \in {"pending_approval", "pending_assignment"}
                   \/ /\ grants[g].status = "pending_approval"
                      /\ grants'[g].status \in {"pending_assignment", "rejected"}
                   \/ grants[g].status \in Open /\ grants'[g].status = "revoked"
        BY <1>3, <2>3, CommitMoves DEF GrantInv
      <3>2. PhaseOf(grants'[g]) # PhaseOf(grants[g]) =>
               \/ PhaseOf(grants[g]) = "none" /\ PhaseOf(grants'[g]) \in {"asked", "agreed"}
               \/ PhaseOf(grants[g]) = "asked" /\ PhaseOf(grants'[g]) = "agreed"
               \/ PhaseOf(grants[g]) \in {"asked", "agreed", "running"}
                  /\ PhaseOf(grants'[g]) = "over"
        BY <3>1 DEF PhaseOf, Open
      <3> QED BY <1>1, <2>1, <3>1, <3>2, RowsImplement DEF RowsTyped
    <2> QED BY <2>2, <2>3
  <1>4. ASSUME NEW g \in Grants, NEW s \in Staff, Assign(g, s)
        PROVE  [Contract!Next]_(Contract!vars)
    <2>1. /\ grants[g].status = "pending_assignment" /\ UNCHANGED calls
          /\ grants' = [grants EXCEPT ![g].status = "active", ![g].staff = {s}]
      BY <1>4 DEF Assign
    <2>2. grants \in [Grants -> GrantRows] /\ ~grants[g].expired
      BY <2>1 DEF GrantInv, RowsTyped, RowsInOrder, GrantRows
    <2>3. /\ grants'[g].status = "active" /\ grants'[g].staff = {s} /\ ~grants'[g].expired
          /\ \A h \in Grants \ {g} : grants'[h] = grants[h]
      BY <2>1, <2>2 DEF GrantRows
    <2>4. PhaseOf(grants[g]) = "agreed" /\ PhaseOf(grants'[g]) = "running"
      BY <2>1, <2>3 DEF PhaseOf
    <2>5. [h \in Grants |-> PhaseOf(grants[h])]'
              = [[h \in Grants |-> PhaseOf(grants[h])] EXCEPT ![g] = "running"]
      BY <2>3, <2>4
    <2>6. [h \in Grants |-> grants[h].staff]'
              = [[h \in Grants |-> grants[h].staff] EXCEPT ![g] = {s}]
      BY <2>3
    <2>7. Contract!Hand(g, s)
      BY <2>1, <2>4, <2>5, <2>6 DEF Contract!Hand, Contract!Moves
    <2> QED BY <2>7 DEF Contract!Next
  <1>5. ASSUME NEW g \in Grants, Expire(g) PROVE [Contract!Next]_(Contract!vars)
    <2>1. /\ grants[g].status = "active" /\ ~grants[g].expired /\ UNCHANGED calls
          /\ grants' = [grants EXCEPT ![g].expired = TRUE]
      BY <1>5 DEF Expire
    <2>2. /\ grants'[g].status = "active" /\ grants'[g].expired
          /\ grants'[g].staff = grants[g].staff
          /\ \A h \in Grants \ {g} : grants'[h] = grants[h]
      BY <2>1 DEF GrantInv, RowsTyped, GrantRows
    <2>3. PhaseOf(grants[g]) = "running" /\ PhaseOf(grants'[g]) = "over"
      BY <2>1, <2>2 DEF PhaseOf
    <2> QED BY <1>1, <2>1, <2>2, <2>3, RowsImplement DEF RowsTyped
  <1>6. ASSUME NEW g \in Grants, NEW s \in Staff, CheckStaff(s, g)
        PROVE  [Contract!Next]_(Contract!vars)
    <2>1. /\ UNCHANGED grants /\ calls[s].phase = "idle" /\ calls'[s].phase = "grant"
          /\ \A p \in Staff \ {s} : calls'[p] = calls[p]
      BY <1>6 DEF CheckStaff, GrantInv, RowsTyped
    <2> QED BY <1>1, <2>1, CallImplements DEF RowsTyped
  <1>7. ASSUME NEW s \in Staff, ReadGrant(s) PROVE [Contract!Next]_(Contract!vars)
    <2>1. PICK to \in Phases :
              /\ GotoPhase(s, "grant", to) /\ "grant" \in Phases
              /\ to # "idle" => grants[calls[s].grant].staff = {s} /\ GrantLive(calls[s].grant)
      BY <1>7 DEF ReadGrant, Phases
    <2>2. /\ calls[s].phase = "grant" /\ calls'[s].phase = to
          /\ calls'[s].grant = calls[s].grant /\ UNCHANGED grants
          /\ \A p \in Staff \ {s} : calls'[p] = calls[p]
      BY <2>1, GotoMoves DEF GrantInv
    <2> QED BY <1>1, <2>1, <2>2, CallImplements DEF RowsTyped
  <1>8. ASSUME NEW s \in Staff, ReadGranter(s) \/ ReadPlan(s) \/ RecordAccess(s)
                                \/ RecordFails(s) \/ Finish(s)
        PROVE  [Contract!Next]_(Contract!vars)
    <2>1. PICK from \in {"granter", "plan", "record", "acting"}, to \in Phases :
              GotoPhase(s, from, to)
      BY <1>8 DEF ReadGranter, ReadPlan, RecordAccess, RecordFails, Finish, Phases
    <2>2. from \in Phases
      BY DEF Phases
    <2>3. /\ calls[s].phase = from /\ calls'[s].grant = calls[s].grant /\ UNCHANGED grants
          /\ \A p \in Staff \ {s} : calls'[p] = calls[p]
      BY <2>1, <2>2, GotoMoves DEF GrantInv
    <2> QED BY <1>1, <2>3, CallImplements DEF RowsTyped
  <1> QED
    BY <1>2, <1>3, <1>4, <1>5, <1>6, <1>7, <1>8
       DEF SupportNext, supportVars, TakeRequest, TakeApprove, TakeReject, TakeRevoke, Takes, EditMember,
           EditPlan, AddStaff, RemoveStaff

\* Support access implements the customer's contract: a grant only moves forward
\* and keeps its owner, and lets in nobody else and nobody once it is over,
\* whatever commands race and whoever comes and goes.
THEOREM ImplementsContract == SupportSpec => KeepsContract
  <1>1. SupportInit => Contract!Init
    BY DEF SupportInit, Contract!Init, PhaseOf
  <1> QED BY <1>1, StepImplements, GrantsInvariant, PTL DEF SupportSpec, KeepsContract, Contract!Spec
=============================================================================

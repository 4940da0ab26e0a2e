------------------------ MODULE ChatDecisionsProofs ------------------------
(* Theorems about ChatDecisions, for any number of approvals, people, views, *)
(* messages and deliveries, and any limit on wrong tries.                    *)
EXTENDS ChatDecisions, FiniteSetTheorems, TLAPS

LEMMA InitOrder == Init => TypeOK /\ CodeInv
  <1> SUFFICES ASSUME Init PROVE TypeOK /\ CodeInv
    OBVIOUS
  <1> USE ChatAssumption DEF Init, NoReceipt
  <1>1. TypeOK
    BY DEF TypeOK, Requests, Receipts, CodeRows, Sayings
  <1>2. PendingIsFirst /\ CodesHaveReceipts /\ LockedAtTheLimit
    BY DEF PendingIsFirst, CodesHaveReceipts, LockedAtTheLimit
  <1>3. DeliveriesHoldTheirs /\ MeantIsTyped
    BY DEF DeliveriesHoldTheirs, MeantIsTyped
  <1>4. UsedMeansDecided /\ OneOpenCode /\ DecidesWhatWasMeant
    BY DEF UsedMeansDecided, OneOpenCode, Open, DecidesWhatWasMeant
  <1> QED BY <1>1, <1>2, <1>3, <1>4 DEF CodeInv

\* Writing one field of a row leaves a row.
LEMMA SubjectField == ASSUME NEW r \in Receipts, NEW n \in Nat
                      PROVE  [r EXCEPT !.subject = n] \in Receipts
  BY DEF Receipts

LEMMA DigitsField == ASSUME NEW r \in Receipts, NEW x \in Digits
                     PROVE  [r EXCEPT !.digits = x] \in Receipts
  BY DEF Receipts

LEMMA StateField == ASSUME NEW r \in CodeRows, NEW s \in Closed
                    PROVE  [r EXCEPT !.state = s] \in CodeRows
  BY DEF CodeRows

LEMMA ExpiredField == ASSUME NEW r \in CodeRows PROVE [r EXCEPT !.expired = TRUE] \in CodeRows
  BY DEF CodeRows

\* What the INSERT of a code does to the codes: nothing, or v's code opens and the
\* ones the UPDATE saw are open no longer.
LEMMA RecordEffect ==
    ASSUME TypeOK, NEW v \in Views, RecordView(v)
    PROVE  \/ /\ OpenIndexAllows(v) /\ receipts' = receipts
              /\ codes'[v] = [state |-> "open", expired |-> FALSE, tries |-> 0]
              /\ \A w \in Views : w # v /\ w \in over[v] /\ Open(w) =>
                    codes'[w] = [codes[w] EXCEPT !.state = "reissued"]
              /\ \A w \in Views : w # v /\ ~(w \in over[v] /\ Open(w)) => codes'[w] = codes[w]
              /\ codes' = [w \in Views |-> codes'[w]]
           \/ receipts' = [receipts EXCEPT ![v] = NoReceipt] /\ codes' = codes
  <1>1. CASE OpenIndexAllows(v)
    BY <1>1 DEF RecordView
  <1>2. CASE ~OpenIndexAllows(v)
    BY <1>2 DEF RecordView
  <1> QED BY <1>1, <1>2

LEMMA TypeStep ==
    TypeOK /\ PendingIsFirst /\ CodesHaveReceipts /\ LockedAtTheLimit /\ DeliveriesHoldTheirs
      /\ [Next]_vars => TypeOK'
  <1> SUFFICES ASSUME TypeOK, PendingIsFirst, CodesHaveReceipts, LockedAtTheLimit,
                      DeliveriesHoldTheirs, [Next]_vars
               PROVE  TypeOK'
    OBVIOUS
  <1> USE ChatAssumption DEF TypeOK, GotoV, GotoD, Finish, requestVars, viewVars, chatVars
  <1>1. ASSUME NEW v \in Views, NEW p \in People, NEW a \in Approvals, View(v, p, a) PROVE TypeOK'
    <2>1. [person |-> p, approval |-> a, version |-> requests[a].version, subject |-> 0,
           digits |-> NoOne] \in Receipts
      BY DEF Receipts, Requests
    <2> QED BY <1>1, <2>1 DEF View
  <1>2. ASSUME NEW v \in Views, ReadSubject(v) PROVE TypeOK'
    <2>1. subject[receipts[v].approval] \in Nat
      BY <1>2 DEF ReadSubject, CodesHaveReceipts
    <2>2. [receipts[v] EXCEPT !.subject = subject[receipts[v].approval]] \in Receipts
      BY <2>1, SubjectField
    <2> QED BY <1>2, <2>2 DEF ReadSubject
  <1>3. ASSUME NEW v \in Views, NEW x \in Digits, FreshCode(v, x) PROVE TypeOK'
    <2>1. [receipts[v] EXCEPT !.digits = x] \in Receipts
      BY DigitsField
    <2> QED BY <1>3, <2>1 DEF FreshCode
  <1>4. ASSUME NEW v \in Views, RevokeOpen(v) PROVE TypeOK'
    BY <1>4 DEF RevokeOpen
  <1>5. ASSUME NEW v \in Views, RecordView(v) PROVE TypeOK'
    <2>1. NoReceipt \in Receipts
      BY DEF NoReceipt, Receipts
    <2>2. [state |-> "open", expired |-> FALSE, tries |-> 0] \in CodeRows
      BY DEF CodeRows
    <2>3. \A w \in Views : [codes[w] EXCEPT !.state = "reissued"] \in CodeRows
      BY StateField DEF Closed
    <2>4. codes' \in [Views -> CodeRows]
      <3>1. ASSUME NEW w \in Views PROVE codes'[w] \in CodeRows
        <4>1. CASE w = v
          BY <1>5, <2>2, <4>1, RecordEffect
        <4>2. CASE w # v
          <5>1. \/ codes'[w] = [codes[w] EXCEPT !.state = "reissued"]
                \/ codes'[w] = codes[w]
            BY <1>5, <4>2, RecordEffect
          <5> QED BY <2>3, <5>1
        <4> QED BY <4>1, <4>2
      <3>2. codes' = [w \in Views |-> codes'[w]]
        BY <1>5, RecordEffect
      <3> QED BY <3>1, <3>2
    <2>5. receipts' \in [Views -> Receipts]
      BY <1>5, <2>1 DEF RecordView
    <2> QED BY <1>5, <2>4, <2>5 DEF RecordView
  <1>6. ASSUME NEW v \in Views, Expire(v) PROVE TypeOK'
    <2>1. [codes[v] EXCEPT !.expired = TRUE] \in CodeRows
      BY ExpiredField
    <2> QED BY <1>6, <2>1 DEF Expire
  <1>7. ASSUME NEW d \in Deliveries, NEW m \in Messages, Skip(d, m) PROVE TypeOK'
    BY <1>7 DEF Skip
  <1>8. ASSUME NEW d \in Deliveries, NEW m \in Messages, NEW p \in People, NEW x \in Digits,
               NEW v \in Views \cup {NoOne}, Claim(d, m, p, x, v)
        PROVE  TypeOK'
    <2>1. [person |-> p, digits |-> x, meant |-> v] \in Sayings
      BY DEF Sayings
    <2> QED BY <1>8, <2>1 DEF Claim
  <1>9. ASSUME NEW d \in Deliveries, MatchCode(d) PROVE TypeOK'
    BY <1>9 DEF MatchCode, Named
  <1>10. ASSUME NEW d \in Deliveries, SelectOpen(d) PROVE TypeOK'
    BY <1>10 DEF SelectOpen
  <1>11. ASSUME NEW d \in Deliveries, RecordWrongTry(d) PROVE TypeOK'
    <2>1. ASSUME NEW v \in Views, v \in Counted(d)
          PROVE  [state |-> AfterWrongTry(codes[v].tries + 1), expired |-> codes[v].expired,
                  tries |-> codes[v].tries + 1] \in CodeRows
      <3>1. codes[v].tries \in 0..MaxWrongTries /\ codes[v].expired \in BOOLEAN
        BY DEF CodeRows
      <3>2. codes[v].tries # MaxWrongTries
        BY <2>1 DEF Counted, Open, LockedAtTheLimit
      <3>3. codes[v].tries + 1 \in 0..MaxWrongTries
        BY <3>1, <3>2
      <3> QED BY <3>1, <3>3 DEF CodeRows, AfterWrongTry, Closed
    <2>2. codes' \in [Views -> CodeRows]
      BY <1>11, <2>1 DEF RecordWrongTry
    <2> QED BY <1>11, <2>2 DEF RecordWrongTry
  <1>12. ASSUME NEW d \in Deliveries, CodedApproval(d) \/ CheckSubject(d) \/ GiveUp(d) PROVE TypeOK'
    BY <1>12 DEF CodedApproval, CheckSubject, GiveUp
  <1>13. ASSUME NEW d \in Deliveries, Decide(d) PROVE TypeOK'
    <2>1. code[d] \in Views /\ receipts[code[d]].approval \in Approvals
            /\ receipts[code[d]].version = 1
      BY <1>13 DEF Decide, DeliveriesHoldTheirs, CodesHaveReceipts
    <2>2. CASE Admits(d)
      <3>1. [codes[code[d]] EXCEPT !.state = "used"] \in CodeRows
        BY <2>1, StateField DEF Closed
      <3>2. [status |-> "decided", version |-> requests[receipts[code[d]].approval].version + 1,
             by |-> code[d]] \in Requests
        BY <2>1, <2>2 DEF Admits, Requests
      <3>3. codes' \in [Views -> CodeRows]
        BY <1>13, <2>1, <2>2, <3>1 DEF Decide
      <3>4. requests' \in [Approvals -> Requests]
        BY <1>13, <2>1, <2>2, <3>2 DEF Decide, Decided
      <3> QED BY <1>13, <2>1, <2>2, <3>3, <3>4 DEF Decide
    <2>3. CASE ~Admits(d)
      BY <1>13, <2>3 DEF Decide
    <2> QED BY <2>2, <2>3
  <1>14. ASSUME NEW d \in Deliveries, Settle(d) PROVE TypeOK'
    BY <1>14 DEF Settle
  <1>15. ASSUME NEW a \in Approvals, DecideOnWeb(a) PROVE TypeOK'
    <2>1. [status |-> "decided", version |-> requests[a].version + 1, by |-> Web] \in Requests
      BY <1>15 DEF DecideOnWeb, PendingIsFirst, Requests
    <2> QED BY <1>15, <2>1 DEF DecideOnWeb, Decided
  <1>16. ASSUME NEW a \in Approvals, EditSubject(a) PROVE TypeOK'
    BY <1>16 DEF EditSubject
  <1>17. CASE UNCHANGED vars
    BY <1>17 DEF vars
  <1> QED
    BY <1>1, <1>2, <1>3, <1>4, <1>5, <1>6, <1>7, <1>8, <1>9, <1>10, <1>11, <1>12, <1>13, <1>14,
       <1>15, <1>16, <1>17 DEF Next

\* A wrong try touches open codes only, and leaves each open or locked.
LEMMA TryEffect ==
    ASSUME TypeOK, NEW d \in Deliveries, RecordWrongTry(d), NEW v \in Views
    PROVE  \/ codes'[v] = codes[v]
           \/ /\ Open(v)
              /\ codes'[v] = [state |-> AfterWrongTry(codes[v].tries + 1),
                              expired |-> codes[v].expired, tries |-> codes[v].tries + 1]
  <1>1. CASE v \in Counted(d)
    BY <1>1 DEF RecordWrongTry, Counted
  <1>2. CASE v \notin Counted(d)
    BY <1>2 DEF RecordWrongTry
  <1> QED BY <1>1, <1>2

\* Decide writes nothing, or spends a usable code on the request of its receipt,
\* which nobody has decided.
LEMMA SpendEffect ==
    ASSUME TypeOK, PendingIsFirst, CodesHaveReceipts, DeliveriesHoldTheirs,
           NEW d \in Deliveries, Decide(d)
    PROVE  \/ UNCHANGED <<codes, requests>>
           \/ \E v \in Views, a \in Approvals :
                 /\ v = code[d] /\ a = receipts[v].approval /\ Usable(v)
                 /\ requests[a].by = NoOne /\ requests[a].version = 1
                 /\ codes' = [codes EXCEPT ![v].state = "used"]
                 /\ requests' = [requests EXCEPT ![a] =
                                   [status |-> "decided", version |-> requests[a].version + 1,
                                    by |-> v]]
  <1>1. code[d] \in Views /\ receipts[code[d]].approval \in Approvals
          /\ receipts[code[d]].version = 1
    BY DEF Decide, DeliveriesHoldTheirs, CodesHaveReceipts
  <1>2. CASE Admits(d)
    <2>1. Usable(code[d]) /\ requests[receipts[code[d]].approval].version = 1
      BY <1>1, <1>2 DEF Admits
    <2>2. requests[receipts[code[d]].approval].by = NoOne
      BY <1>1, <2>1 DEF PendingIsFirst
    <2> QED BY <1>1, <1>2, <2>1, <2>2 DEF Decide, Decided
  <1>3. CASE ~Admits(d)
    BY <1>3 DEF Decide
  <1> QED BY <1>2, <1>3

-----------------------------------------------------------------------------
\* What one step may do to a code that is a row: its receipt stands, it stays a
\* row, it does not become usable or open again, and once closed it is frozen.
Fate(v) ==
    codes[v].state # "none" =>
        /\ receipts'[v] = receipts[v]
        /\ codes'[v].state # "none"
        /\ Open(v)' => Open(v)
        /\ Usable(v)' => Usable(v)
        /\ codes[v].state \in Closed => codes'[v] = codes[v]

LEMMA CodeFate ==
    TypeOK /\ PendingIsFirst /\ CodesHaveReceipts /\ DeliveriesHoldTheirs /\ [Next]_vars
      => \A v \in Views : Fate(v)
  <1> SUFFICES ASSUME TypeOK, PendingIsFirst, CodesHaveReceipts, DeliveriesHoldTheirs,
                      [Next]_vars, NEW w \in Views, codes[w].state # "none"
               PROVE  Fate(w)
    BY DEF Fate
  <1>0. vpc[w] = "ended" /\ codes[w] \in CodeRows
    BY DEF CodesHaveReceipts, TypeOK
  <1>1. ASSUME codes'[w] = codes[w], receipts'[w] = receipts[w] PROVE Fate(w)
    BY <1>1 DEF Fate, Open, Usable
  <1>2. ASSUME NEW v \in Views, NEW p \in People, NEW a \in Approvals, View(v, p, a) PROVE Fate(w)
    BY <1>0, <1>1, <1>2 DEF View, TypeOK
  <1>3. ASSUME NEW v \in Views, ReadSubject(v) PROVE Fate(w)
    BY <1>0, <1>1, <1>3 DEF ReadSubject, TypeOK
  <1>4. ASSUME NEW v \in Views, NEW x \in Digits, FreshCode(v, x) PROVE Fate(w)
    BY <1>0, <1>1, <1>4 DEF FreshCode, TypeOK
  <1>5. ASSUME NEW v \in Views, RecordView(v) PROVE Fate(w)
    <2>1. v # w
      BY <1>0, <1>5 DEF RecordView
    <2>2. receipts'[w] = receipts[w]
      BY <1>5, <2>1, RecordEffect DEF TypeOK
    <2>3. CASE codes'[w] = codes[w]
      BY <1>1, <2>2, <2>3
    <2>4. CASE Open(w) /\ codes'[w] = [codes[w] EXCEPT !.state = "reissued"]
      <3>1. codes'[w].state = "reissued"
        BY <1>0, <2>4 DEF CodeRows
      <3> QED BY <2>2, <2>4, <3>1 DEF Fate, Open, Usable, Closed
    <2> QED BY <1>5, <2>1, <2>3, <2>4, RecordEffect
  <1>6. ASSUME NEW v \in Views, Expire(v) PROVE Fate(w)
    <2>1. CASE w # v
      BY <1>1, <1>6, <2>1 DEF Expire, viewVars, TypeOK
    <2>2. CASE w = v
      <3>1. codes'[w] = [codes[w] EXCEPT !.expired = TRUE] /\ Open(w) /\ receipts' = receipts
        BY <1>6, <2>2 DEF Expire, viewVars, TypeOK, Usable
      <3>2. codes'[w].state = "open" /\ codes'[w].expired = TRUE
        BY <1>0, <3>1 DEF CodeRows, Open
      <3> QED BY <3>1, <3>2 DEF Fate, Open, Usable, Closed
    <2> QED BY <2>1, <2>2
  <1>7. ASSUME NEW d \in Deliveries, RecordWrongTry(d) PROVE Fate(w)
    <2>1. receipts' = receipts
      BY <1>7 DEF RecordWrongTry, viewVars
    <2>2. CASE codes'[w] = codes[w]
      BY <1>1, <2>1, <2>2
    <2>3. CASE Open(w) /\ codes'[w] = [state |-> AfterWrongTry(codes[w].tries + 1),
                                       expired |-> codes[w].expired, tries |-> codes[w].tries + 1]
      BY <2>1, <2>3 DEF Fate, Open, Usable, Closed, AfterWrongTry
    <2> QED BY <1>7, <2>2, <2>3, TryEffect
  <1>8. ASSUME NEW d \in Deliveries, Decide(d) PROVE Fate(w)
    <2>1. receipts' = receipts
      BY <1>8 DEF Decide, viewVars
    <2>2. CASE codes'[w] = codes[w]
      BY <1>1, <2>1, <2>2
    <2>3. CASE codes'[w] # codes[w]
      <3>1. Usable(w) /\ codes'[w] = [codes[w] EXCEPT !.state = "used"]
        BY <1>8, <2>3, SpendEffect DEF TypeOK
      <3>2. codes'[w].state = "used"
        BY <1>0, <3>1 DEF CodeRows
      <3> QED BY <2>1, <3>1, <3>2 DEF Fate, Open, Usable, Closed
    <2> QED BY <2>2, <2>3
  <1>9. CASE UNCHANGED <<codes, receipts>>
    BY <1>1, <1>9
  <1>10. ASSUME NEW v \in Views, RevokeOpen(v) PROVE UNCHANGED <<codes, receipts>>
    BY <1>10 DEF RevokeOpen
  <1>11. ASSUME NEW d \in Deliveries, NEW m \in Messages, Skip(d, m)
         PROVE  UNCHANGED <<codes, receipts>>
    BY <1>11 DEF Skip, viewVars
  <1>12. ASSUME NEW d \in Deliveries, NEW m \in Messages, NEW p \in People, NEW x \in Digits,
                NEW v \in Views \cup {NoOne}, Claim(d, m, p, x, v)
         PROVE  UNCHANGED <<codes, receipts>>
    BY <1>12 DEF Claim, viewVars
  <1>13. ASSUME NEW d \in Deliveries,
                \/ MatchCode(d) \/ SelectOpen(d) \/ CodedApproval(d) \/ CheckSubject(d)
                \/ GiveUp(d) \/ Settle(d)
         PROVE  UNCHANGED <<codes, receipts>>
    BY <1>13 DEF MatchCode, SelectOpen, CodedApproval, CheckSubject, GiveUp, Settle, viewVars
  <1>14. ASSUME NEW a \in Approvals, DecideOnWeb(a) \/ EditSubject(a)
         PROVE  UNCHANGED <<codes, receipts>>
    BY <1>14 DEF DecideOnWeb, EditSubject, viewVars
  <1>15. CASE UNCHANGED vars
    BY <1>9, <1>15 DEF vars
  <1> QED
    BY <1>2, <1>3, <1>4, <1>5, <1>6, <1>7, <1>8, <1>9, <1>10, <1>11, <1>12, <1>13, <1>14, <1>15
       DEF Next

-----------------------------------------------------------------------------
\* Who writes what: the steps that may change each group of variables.
LEMMA WhoWrites ==
    ASSUME [Next]_vars
    PROVE  /\ \/ requests' = requests
              \/ \E d \in Deliveries : Decide(d)
              \/ \E a \in Approvals : DecideOnWeb(a)
           /\ \/ codes' = codes
              \/ \E v \in Views : RecordView(v) \/ Expire(v)
              \/ \E d \in Deliveries : RecordWrongTry(d) \/ Decide(d)
           /\ \/ UNCHANGED <<receipts, vpc, over>>
              \/ \E v \in Views, p \in People, a \in Approvals : View(v, p, a)
              \/ \E v \in Views, x \in Digits : FreshCode(v, x)
              \/ \E v \in Views : ReadSubject(v) \/ RevokeOpen(v) \/ RecordView(v)
           /\ \/ UNCHANGED <<said, ledger, carries, dpc, code>>
              \/ \E d \in Deliveries, m \in Messages :
                    \/ Skip(d, m)
                    \/ \E p \in People, x \in Digits, v \in Views \cup {NoOne} :
                          Claim(d, m, p, x, v)
              \/ \E d \in Deliveries :
                    \/ MatchCode(d) \/ SelectOpen(d) \/ RecordWrongTry(d) \/ CodedApproval(d)
                    \/ CheckSubject(d) \/ Decide(d) \/ GiveUp(d) \/ Settle(d)
  <1> USE DEF requestVars, viewVars, chatVars
  <1>1. CASE \E v \in Views, p \in People, a \in Approvals : View(v, p, a)
    BY <1>1 DEF View
  <1>2. CASE \E v \in Views, x \in Digits : FreshCode(v, x)
    BY <1>2 DEF FreshCode
  <1>3. CASE \E v \in Views : ReadSubject(v) \/ RevokeOpen(v) \/ RecordView(v) \/ Expire(v)
    BY <1>3 DEF ReadSubject, RevokeOpen, RecordView, Expire
  <1>4. CASE \E d \in Deliveries, m \in Messages :
                \/ Skip(d, m)
                \/ \E p \in People, x \in Digits, v \in Views \cup {NoOne} : Claim(d, m, p, x, v)
    BY <1>4 DEF Skip, Claim
  <1>5. CASE \E d \in Deliveries :
                \/ MatchCode(d) \/ SelectOpen(d) \/ RecordWrongTry(d) \/ CodedApproval(d)
                \/ CheckSubject(d) \/ Decide(d) \/ GiveUp(d) \/ Settle(d)
    BY <1>5 DEF MatchCode, SelectOpen, RecordWrongTry, CodedApproval, CheckSubject, Decide,
                GiveUp, Settle
  <1>6. CASE \E a \in Approvals : DecideOnWeb(a) \/ EditSubject(a)
    BY <1>6 DEF DecideOnWeb, EditSubject
  <1>7. CASE UNCHANGED vars
    BY <1>7 DEF vars
  <1> QED BY <1>1, <1>2, <1>3, <1>4, <1>5, <1>6, <1>7 DEF Next

LEMMA PendingStep == TypeOK /\ CodeInv /\ [Next]_vars => PendingIsFirst'
  <1> SUFFICES ASSUME TypeOK, CodeInv, [Next]_vars PROVE PendingIsFirst'
    OBVIOUS
  <1>1. CASE requests' = requests
    BY <1>1 DEF CodeInv, PendingIsFirst
  <1>2. ASSUME NEW d \in Deliveries, Decide(d) PROVE PendingIsFirst'
    <2>1. PendingIsFirst /\ CodesHaveReceipts /\ DeliveriesHoldTheirs
      BY DEF CodeInv
    <2>2. CASE requests' = requests
      BY <1>1, <2>2
    <2>3. CASE requests' # requests
      <3>1. PICK v \in Views, a \in Approvals :
               /\ requests[a].version = 1
               /\ requests' = [requests EXCEPT ![a] =
                                 [status |-> "decided", version |-> requests[a].version + 1,
                                  by |-> v]]
        BY <1>2, <2>1, <2>3, SpendEffect
      <3> QED BY <2>1, <3>1 DEF PendingIsFirst, TypeOK
    <2> QED BY <2>2, <2>3
  <1>3. ASSUME NEW a \in Approvals, DecideOnWeb(a) PROVE PendingIsFirst'
    BY <1>3 DEF DecideOnWeb, Decided, CodeInv, PendingIsFirst, TypeOK
  <1> QED BY <1>1, <1>2, <1>3, WhoWrites

LEMMA LockStep == TypeOK /\ CodeInv /\ [Next]_vars => LockedAtTheLimit'
  <1> SUFFICES ASSUME TypeOK, CodeInv, [Next]_vars, NEW w \in Views
               PROVE  codes'[w].state = "locked" <=> codes'[w].tries = MaxWrongTries
    BY DEF LockedAtTheLimit
  <1> USE ChatAssumption
  <1>1. /\ codes[w] \in CodeRows /\ codes[w].tries \in Nat
        /\ codes[w].state = "locked" <=> codes[w].tries = MaxWrongTries
    BY DEF TypeOK, CodeRows, CodeInv, LockedAtTheLimit
  <1>2. CASE codes'[w] = codes[w]
    BY <1>1, <1>2
  <1>3. ASSUME NEW v \in Views, RecordView(v), codes'[w] # codes[w]
        PROVE  codes'[w].state # "locked" /\ codes'[w].tries # MaxWrongTries
    <2>1. CASE w = v
      BY <1>3, <2>1, RecordEffect
    <2>2. CASE w # v
      <3>1. Open(w) /\ codes'[w] = [codes[w] EXCEPT !.state = "reissued"]
        BY <1>3, <2>2, RecordEffect
      <3>2. codes'[w].state = "reissued" /\ codes'[w].tries = codes[w].tries
        BY <1>1, <3>1 DEF CodeRows
      <3> QED BY <1>1, <3>1, <3>2 DEF Open
    <2> QED BY <2>1, <2>2
  <1>4. ASSUME NEW v \in Views, Expire(v), codes'[w] # codes[w]
        PROVE  codes'[w].state = codes[w].state /\ codes'[w].tries = codes[w].tries
    <2>1. codes'[w] = [codes[w] EXCEPT !.expired = TRUE]
      BY <1>4 DEF Expire, TypeOK
    <2> QED BY <1>1, <2>1 DEF CodeRows
  <1>5. ASSUME NEW d \in Deliveries, RecordWrongTry(d), codes'[w] # codes[w]
        PROVE  codes'[w].state = "locked" <=> codes'[w].tries = MaxWrongTries
    <2>1. /\ Open(w)
          /\ codes'[w] = [state |-> AfterWrongTry(codes[w].tries + 1),
                          expired |-> codes[w].expired, tries |-> codes[w].tries + 1]
      BY <1>5, TryEffect
    <2>2. codes[w].tries \in 0..MaxWrongTries /\ codes[w].tries # MaxWrongTries
      BY <1>1, <2>1 DEF Open, CodeRows
    <2> QED BY <2>1, <2>2 DEF AfterWrongTry
  <1>6. ASSUME NEW d \in Deliveries, Decide(d), codes'[w] # codes[w]
        PROVE  codes'[w].state # "locked" /\ codes'[w].tries # MaxWrongTries
    <2>0. codes \in [Views -> CodeRows] /\ PendingIsFirst /\ CodesHaveReceipts
            /\ DeliveriesHoldTheirs
      BY DEF TypeOK, CodeInv
    <2>3. codes' # codes
      BY <1>6
    <2>4. PICK v \in Views : Usable(v) /\ codes' = [codes EXCEPT ![v].state = "used"]
      BY <1>6, <2>0, <2>3, SpendEffect, Zenon
    <2>5. v = w
      BY <1>6, <2>0, <2>4
    <2>1. Usable(w) /\ codes'[w] = [codes[w] EXCEPT !.state = "used"]
      BY <2>0, <2>4, <2>5
    <2>2. codes'[w].state = "used" /\ codes'[w].tries = codes[w].tries
      BY <1>1, <2>1 DEF CodeRows
    <2> QED BY <1>1, <2>1, <2>2 DEF Usable, Open
  <1> QED BY <1>1, <1>2, <1>3, <1>4, <1>5, <1>6, WhoWrites

\* A step makes a row of one code at most: the one of the view that ends with it.
LEMMA NewCode ==
    ASSUME TypeOK, CodeInv, [Next]_vars, NEW w \in Views, codes[w].state = "none",
           codes'[w].state # "none"
    PROVE  RecordView(w) /\ OpenIndexAllows(w) /\ receipts' = receipts
  <1>1. \E v \in Views : RecordView(v) \/ Expire(v)
    <2>1. codes' # codes /\ ~Open(w)
      BY DEF Open
    <2>2. ASSUME NEW d \in Deliveries, RecordWrongTry(d) PROVE FALSE
      BY <2>1, <2>2, TryEffect
    <2>3. ASSUME NEW d \in Deliveries, Decide(d) PROVE FALSE
      <3>1. PICK v \in Views : Usable(v) /\ codes' = [codes EXCEPT ![v].state = "used"]
        BY <2>1, <2>3, SpendEffect, Zenon DEF CodeInv
      <3> QED BY <2>1, <3>1 DEF Usable, TypeOK
    <2> QED BY <2>1, <2>2, <2>3, WhoWrites
  <1>2. ASSUME NEW v \in Views, Expire(v) PROVE FALSE
    BY <1>2 DEF Expire, Usable, Open, TypeOK
  <1>3. PICK v \in Views : RecordView(v)
    BY <1>1, <1>2
  <1>4. v = w
    BY <1>3, RecordEffect DEF Open
  <1> QED BY <1>3, <1>4, RecordEffect

LEMMA ReceiptStep == TypeOK /\ CodeInv /\ [Next]_vars => CodesHaveReceipts'
  <1> DEFINE Made(v) == /\ receipts[v].person \in People
                        /\ receipts[v].approval \in Approvals
                        /\ receipts[v].version = 1
             Row(v) == codes[v].state # "none"
             Busy(v) == vpc[v] \notin {"idle", "ended"}
  <1> SUFFICES ASSUME TypeOK, CodeInv, [Next]_vars, NEW w \in Views
               PROVE  /\ Row(w)' => vpc'[w] = "ended"
                      /\ Busy(w)' \/ Row(w)' => Made(w)'
    BY DEF CodesHaveReceipts
  <1> USE DEF GotoV
  <1>1. (Row(w) => vpc[w] = "ended") /\ (Busy(w) \/ Row(w) => Made(w))
    BY DEF CodeInv, CodesHaveReceipts
  <1>2. Fate(w)
    BY CodeFate DEF CodeInv
  <1>3. vpc \in [Views -> {"idle", "read", "viewed", "drawn", "revoking", "ended"}]
          /\ receipts \in [Views -> Receipts] /\ receipts[w] \in Receipts
    BY DEF TypeOK
  <1>4. CASE UNCHANGED <<receipts, vpc>>
    <2>1. Row(w)' => Row(w)
      BY <1>3, <1>4, NewCode DEF RecordView
    <2> QED BY <1>1, <1>4, <2>1
  <1>5. ASSUME NEW v \in Views, NEW p \in People, NEW a \in Approvals, View(v, p, a)
        PROVE  (Row(w)' => vpc'[w] = "ended") /\ (Busy(w)' \/ Row(w)' => Made(w)')
    <2>1. requests[a].version = 1
      BY <1>5 DEF View, CodeInv, PendingIsFirst
    <2> QED BY <1>1, <1>3, <1>5, <2>1 DEF View
  <1>6. ASSUME NEW v \in Views, NEW x \in Digits, FreshCode(v, x)
        PROVE  (Row(w)' => vpc'[w] = "ended") /\ (Busy(w)' \/ Row(w)' => Made(w)')
    <2>1. receipts'[w] = receipts[w] \/ receipts'[w] = [receipts[w] EXCEPT !.digits = x]
      BY <1>3, <1>6 DEF FreshCode
    <2>2. Made(w) => Made(w)'
      BY <1>3, <2>1 DEF Receipts
    <2> QED BY <1>1, <1>3, <1>6, <2>2 DEF FreshCode
  <1>7. ASSUME NEW v \in Views, ReadSubject(v)
        PROVE  (Row(w)' => vpc'[w] = "ended") /\ (Busy(w)' \/ Row(w)' => Made(w)')
    <2>1. \/ receipts'[w] = receipts[w]
          \/ receipts'[w] = [receipts[w] EXCEPT !.subject = subject[receipts[w].approval]]
      BY <1>3, <1>7 DEF ReadSubject
    <2>2. Made(w) => Made(w)'
      BY <1>3, <2>1 DEF Receipts
    <2> QED BY <1>1, <1>3, <1>7, <2>2 DEF ReadSubject
  <1>8. ASSUME NEW v \in Views, RevokeOpen(v)
        PROVE  (Row(w)' => vpc'[w] = "ended") /\ (Busy(w)' \/ Row(w)' => Made(w)')
    BY <1>1, <1>3, <1>8 DEF RevokeOpen
  <1>9. ASSUME NEW v \in Views, RecordView(v)
        PROVE  (Row(w)' => vpc'[w] = "ended") /\ (Busy(w)' \/ Row(w)' => Made(w)')
    <2>1. CASE w = v
      <3>1. vpc[w] = "revoking" /\ vpc'[w] = "ended" /\ ~Row(w)
        BY <1>1, <1>3, <1>9, <2>1 DEF RecordView
      <3>2. Row(w)' => receipts' = receipts
        BY <3>1, NewCode
      <3> QED BY <1>1, <3>1, <3>2
    <2>2. CASE w # v
      <3>1. vpc'[w] = vpc[w] /\ receipts'[w] = receipts[w]
        BY <1>3, <1>9, <2>2, RecordEffect DEF RecordView
      <3>2. Row(w)' => Row(w)
        BY <1>9, <2>2, RecordEffect DEF Open
      <3> QED BY <1>1, <3>1, <3>2
    <2> QED BY <2>1, <2>2
  <1> QED BY <1>4, <1>5, <1>6, <1>7, <1>8, <1>9, WhoWrites

LEMMA DeliveryStep == TypeOK /\ CodeInv /\ [Next]_vars => DeliveriesHoldTheirs'
  <1> DEFINE Holds(e) ==
        /\ dpc[e] = "idle" => code[e] = NoOne /\ carries[e] = NoOne
        /\ dpc[e] = "claimed" => carries[e] \in Messages
        /\ dpc[e] \in {"matched", "pending", "checked"} => code[e] \in Views
        /\ code[e] \in Views => codes[code[e]].state # "none" /\ carries[e] \in Messages
        /\ carries[e] \in Messages => ledger[carries[e]] # "new"
  <1> SUFFICES ASSUME TypeOK, CodeInv, [Next]_vars, NEW e \in Deliveries PROVE Holds(e)'
    BY DEF DeliveriesHoldTheirs
  <1> USE ChatAssumption DEF GotoD, Finish
  <1>1. Holds(e)
    BY DEF CodeInv, DeliveriesHoldTheirs
  <1>2. \A v \in Views : codes[v].state # "none" => codes'[v].state # "none"
    BY CodeFate DEF CodeInv, Fate
  <1>3. CASE UNCHANGED <<said, ledger, carries, dpc, code>>
    BY <1>1, <1>2, <1>3
  <1>4. ASSUME NEW d \in Deliveries, NEW m \in Messages, Skip(d, m) PROVE Holds(e)'
    BY <1>1, <1>2, <1>4 DEF Skip, TypeOK
  <1>5. ASSUME NEW d \in Deliveries, NEW m \in Messages, NEW p \in People, NEW x \in Digits,
               NEW v \in Views \cup {NoOne}, Claim(d, m, p, x, v)
        PROVE  Holds(e)'
    <2>1. code' = code /\ codes' = codes /\ ledger' = [ledger EXCEPT ![m] = "processing"]
          /\ carries' = [carries EXCEPT ![d] = m] /\ dpc' = [dpc EXCEPT ![d] = "claimed"]
          /\ dpc[d] = "idle"
      BY <1>5 DEF Claim
    <2>2. CASE e = d
      BY <1>1, <2>1, <2>2 DEF TypeOK
    <2>3. CASE e # d
      BY <1>1, <2>1, <2>3 DEF TypeOK
    <2> QED BY <2>2, <2>3
  <1>6. ASSUME NEW d \in Deliveries, MatchCode(d) PROVE Holds(e)'
    <2>1. \A v \in Named(d) : v \in Views /\ codes[v].state # "none"
      BY DEF Named, UsableMatches, Matching
    <2>2. carries[d] \in Messages
      BY <1>6 DEF MatchCode, CodeInv, DeliveriesHoldTheirs
    <2> QED BY <1>1, <1>6, <2>1, <2>2 DEF MatchCode, TypeOK
  <1>7. ASSUME NEW d \in Deliveries, SelectOpen(d) PROVE Holds(e)'
    BY <1>1, <1>7 DEF SelectOpen, TypeOK
  <1>8. ASSUME NEW d \in Deliveries, RecordWrongTry(d) PROVE Holds(e)'
    BY <1>1, <1>2, <1>8 DEF RecordWrongTry, TypeOK
  <1>9. ASSUME NEW d \in Deliveries, CodedApproval(d) \/ CheckSubject(d) \/ GiveUp(d)
        PROVE  Holds(e)'
    BY <1>1, <1>9 DEF CodedApproval, CheckSubject, GiveUp, TypeOK
  <1>10. ASSUME NEW d \in Deliveries, Decide(d) PROVE Holds(e)'
    BY <1>1, <1>2, <1>10 DEF Decide, TypeOK
  <1>11. ASSUME NEW d \in Deliveries, Settle(d) PROVE Holds(e)'
    BY <1>1, <1>11 DEF Settle, TypeOK
  <1> QED BY <1>3, <1>4, <1>5, <1>6, <1>7, <1>8, <1>9, <1>10, <1>11, WhoWrites

LEMMA MeantStep == TypeOK /\ CodeInv /\ [Next]_vars => MeantIsTyped'
  <1> DEFINE Bears(v, x) == /\ codes'[v].state # "none"
                             /\ receipts'[v].person = x.person
                             /\ receipts'[v].digits = x.digits
  <1> SUFFICES ASSUME TypeOK, CodeInv, [Next]_vars, NEW m \in Messages, said'[m].meant \in Views
               PROVE  Bears(said'[m].meant, said'[m])
    BY DEF MeantIsTyped
  <1>1. \A v \in Views : codes[v].state # "none" =>
            codes'[v].state # "none" /\ receipts'[v] = receipts[v]
    BY CodeFate DEF CodeInv, Fate
  <1>2. CASE said'[m] = said[m]
    BY <1>1, <1>2 DEF CodeInv, MeantIsTyped
  <1>3. ASSUME NEW d \in Deliveries, NEW n \in Messages, NEW p \in People, NEW x \in Digits,
               NEW v \in Views \cup {NoOne}, Claim(d, n, p, x, v), said'[m] # said[m]
        PROVE  Bears(said'[m].meant, said'[m])
    <2>1. said'[m] = [person |-> p, digits |-> x, meant |-> v]
      BY <1>3 DEF Claim, TypeOK
    <2>2. v \in Views /\ v # NoOne
      BY <2>1, ChatAssumption
    <2>3. codes[v].state # "none" /\ receipts[v].person = p /\ receipts[v].digits = x
      BY <1>3, <2>2 DEF Claim, Typed
    <2> QED BY <1>1, <2>1, <2>2, <2>3
  <1>4. ASSUME NEW d \in Deliveries, NEW n \in Messages, Skip(d, n) PROVE said' = said
    BY <1>4 DEF Skip
  <1>5. ASSUME NEW d \in Deliveries,
               \/ MatchCode(d) \/ SelectOpen(d) \/ RecordWrongTry(d) \/ CodedApproval(d)
               \/ CheckSubject(d) \/ Decide(d) \/ GiveUp(d) \/ Settle(d)
        PROVE  said' = said
    BY <1>5 DEF MatchCode, SelectOpen, RecordWrongTry, CodedApproval, CheckSubject, Decide,
                GiveUp, Settle
  <1> QED BY <1>2, <1>3, <1>4, <1>5, WhoWrites

LEMMA UsedStep == TypeOK /\ CodeInv /\ [Next]_vars => UsedMeansDecided'
  <1> DEFINE DecidedBy(w) == \E a \in Approvals : receipts[w].approval = a /\ requests[a].by = w
  <1> SUFFICES ASSUME TypeOK, CodeInv, [Next]_vars, NEW w \in Views
               PROVE  codes'[w].state = "used" <=> DecidedBy(w)'
    BY DEF UsedMeansDecided
  <1> USE ChatAssumption
  <1>1. codes[w].state = "used" <=> DecidedBy(w)
    BY DEF CodeInv, UsedMeansDecided
  <1>2. Fate(w)
    BY CodeFate DEF CodeInv
  <1>3. codes \in [Views -> CodeRows] /\ codes[w] \in CodeRows /\ PendingIsFirst
          /\ CodesHaveReceipts /\ DeliveriesHoldTheirs
    BY DEF TypeOK, CodeInv
  <1>4. ASSUME NEW d \in Deliveries, Decide(d) PROVE codes'[w].state = "used" <=> DecidedBy(w)'
    <2>1. receipts' = receipts
      BY <1>4 DEF Decide, viewVars
    <2>2. CASE UNCHANGED <<codes, requests>>
      BY <1>1, <2>1, <2>2
    <2>3. ASSUME NEW v \in Views, NEW a \in Approvals, a = receipts[v].approval,
                 requests[a].by = NoOne, codes' = [codes EXCEPT ![v].state = "used"],
                 requests' = [requests EXCEPT ![a] =
                                [status |-> "decided", version |-> requests[a].version + 1,
                                 by |-> v]]
          PROVE  codes'[w].state = "used" <=> DecidedBy(w)'
      <3>1. requests'[a].by = v /\ \A b \in Approvals : b # a => requests'[b] = requests[b]
        BY <2>3 DEF TypeOK
      <3>2. CASE w = v
        <4>1. codes'[w].state = "used"
          BY <1>3, <2>3, <3>2 DEF CodeRows
        <4> QED BY <2>1, <2>3, <3>1, <3>2, <4>1
      <3>3. CASE w # v
        <4>1. codes'[w] = codes[w]
          BY <1>3, <2>3, <3>3
        <4>2. DecidedBy(w)' <=> DecidedBy(w)
          BY <2>1, <2>3, <3>1, <3>3
        <4> QED BY <1>1, <4>1, <4>2
      <3> QED BY <3>2, <3>3
    <2> QED BY <1>3, <1>4, <2>2, <2>3, SpendEffect
  <1>5. ASSUME NEW a \in Approvals, DecideOnWeb(a)
        PROVE  codes'[w].state = "used" <=> DecidedBy(w)'
    <2>1. /\ UNCHANGED <<codes, receipts>>
          /\ requests'[a].by = Web /\ \A b \in Approvals : b # a => requests'[b] = requests[b]
      BY <1>5 DEF DecideOnWeb, Decided, viewVars, TypeOK
    <2>2. requests[a].by = NoOne
      BY <1>3, <1>5 DEF DecideOnWeb, PendingIsFirst
    <2> QED BY <1>1, <2>1, <2>2
  <1>6. ASSUME requests' = requests, ~\E d \in Deliveries : Decide(d)
        PROVE  codes'[w].state = "used" <=> DecidedBy(w)'
    <2>1. codes'[w].state = "used" => codes[w].state = "used"
      <3>1. ASSUME NEW v \in Views, RecordView(v), codes'[w].state = "used"
            PROVE  codes[w].state = "used"
        <4>1. [codes[w] EXCEPT !.state = "reissued"].state # "used"
          BY <1>3 DEF CodeRows
        <4>2. CASE w = v
          <5>1. codes[w].state = "none"
            BY <1>3, <3>1, <4>2 DEF RecordView, CodesHaveReceipts
          <5>2. codes'[w].state = "open" \/ codes'[w] = codes[w]
            BY <3>1, <4>2, RecordEffect
          <5> QED BY <3>1, <5>1, <5>2
        <4>3. CASE w # v
          BY <3>1, <4>1, <4>3, RecordEffect
        <4> QED BY <4>2, <4>3
      <3>2. ASSUME NEW v \in Views, Expire(v), codes'[w].state = "used"
            PROVE  codes[w].state = "used"
        <4>1. codes'[w] = codes[w] \/ codes'[w] = [codes[w] EXCEPT !.expired = TRUE]
          BY <1>3, <3>2 DEF Expire
        <4> QED BY <1>3, <3>2, <4>1 DEF CodeRows
      <3>3. ASSUME NEW d \in Deliveries, RecordWrongTry(d), codes'[w].state = "used"
            PROVE  codes[w].state = "used"
        <4>1. AfterWrongTry(codes[w].tries + 1) # "used"
          BY DEF AfterWrongTry
        <4>2. \/ codes'[w] = codes[w]
              \/ codes'[w] = [state |-> AfterWrongTry(codes[w].tries + 1),
                              expired |-> codes[w].expired, tries |-> codes[w].tries + 1]
          BY <3>3, TryEffect
        <4> QED BY <3>3, <4>1, <4>2
      <3> QED BY <1>6, <3>1, <3>2, <3>3, WhoWrites
    <2>2. CASE codes[w].state = "used"
      BY <1>1, <1>2, <1>6, <2>2 DEF Fate, Closed
    <2>3. CASE codes[w].state # "used"
      <3>1. SUFFICES ASSUME NEW a \in Approvals, receipts'[w].approval = a, requests[a].by = w
                     PROVE  FALSE
        BY <1>6, <2>1, <2>3
      <3>2. receipts'[w].approval # receipts[w].approval
        BY <1>1, <2>3, <3>1
      <3>3. ASSUME NEW v \in Views, NEW p \in People, NEW b \in Approvals, View(v, p, b)
            PROVE  FALSE
        <4>1. requests[b].by = NoOne
          BY <1>3, <3>3 DEF View, PendingIsFirst
        <4>2. v = w /\ receipts'[w].approval = b
          BY <3>2, <3>3 DEF View, TypeOK
        <4> QED BY <3>1, <4>1, <4>2
      <3>4. ASSUME NEW v \in Views, NEW x \in Digits, FreshCode(v, x) PROVE FALSE
        <4>1. receipts'[w] = receipts[w] \/ receipts'[w] = [receipts[w] EXCEPT !.digits = x]
          BY <3>4 DEF FreshCode, TypeOK
        <4> QED BY <3>2, <4>1 DEF TypeOK, Receipts
      <3>5. ASSUME NEW v \in Views, ReadSubject(v) PROVE FALSE
        <4>1. \/ receipts'[w] = receipts[w]
              \/ receipts'[w] = [receipts[w] EXCEPT !.subject = subject[receipts[w].approval]]
          BY <3>5 DEF ReadSubject, TypeOK
        <4> QED BY <3>2, <4>1 DEF TypeOK, Receipts
      <3>6. ASSUME NEW v \in Views, RecordView(v) PROVE FALSE
        <4>1. receipts'[w] = receipts[w] \/ receipts'[w] = NoReceipt
          BY <3>6, RecordEffect DEF TypeOK
        <4> QED BY <3>1, <3>2, <4>1 DEF NoReceipt
      <3>7. ASSUME NEW v \in Views, RevokeOpen(v) PROVE FALSE
        BY <3>2, <3>7 DEF RevokeOpen
      <3> QED BY <3>2, <3>3, <3>4, <3>5, <3>6, <3>7, WhoWrites
    <2> QED BY <2>2, <2>3
  <1> QED BY <1>4, <1>5, <1>6, WhoWrites

LEMMA OpenStep == TypeOK /\ CodeInv /\ [Next]_vars => OneOpenCode'
  <1> SUFFICES ASSUME TypeOK, CodeInv, [Next]_vars, NEW v \in Views, NEW w \in Views,
                      Open(v)', Open(w)', SameCard(v, w)', v # w
               PROVE  FALSE
    BY DEF OneOpenCode
  <1>1. Fate(v) /\ Fate(w)
    BY CodeFate DEF CodeInv
  <1>2. CASE codes[v].state # "none" /\ codes[w].state # "none"
    <2>1. Open(v) /\ Open(w) /\ SameCard(v, w)
      BY <1>1, <1>2 DEF Fate, SameCard
    <2> QED BY <2>1 DEF CodeInv, OneOpenCode
  <1>3. ASSUME NEW x \in Views, NEW y \in Views, x # y, Open(x)', Open(y)', SameCard(x, y)',
               codes[x].state = "none", Fate(y)
        PROVE  FALSE
    <2>1. RecordView(x) /\ OpenIndexAllows(x) /\ receipts' = receipts
      BY <1>3, NewCode DEF Open
    <2>2. Open(y)
      <3>1. CASE codes[y].state = "none"
        <4>1. codes'[y].state # "none"
          BY <1>3 DEF Open
        <4>2. RecordView(y)
          BY <3>1, <4>1, NewCode
        <4>3. vpc'[x] = "ended" /\ vpc'[x] = vpc[x] /\ vpc[x] = "revoking"
          BY <1>3, <2>1, <4>2 DEF RecordView, GotoV, TypeOK
        <4> QED BY <4>3
      <3>2. CASE codes[y].state # "none"
        BY <1>3, <3>2 DEF Fate
      <3> QED BY <3>1, <3>2
    <2>3. y \in over[x]
      BY <1>3, <2>1, <2>2 DEF OpenIndexAllows, SameCard
    <2>4. codes'[y] = [codes[y] EXCEPT !.state = "reissued"] \/ codes' = codes
      BY <1>3, <2>1, <2>2, <2>3, RecordEffect
    <2>5. codes'[y] = [codes[y] EXCEPT !.state = "reissued"]
      BY <1>3, <2>4 DEF Open
    <2>6. codes'[y].state = "reissued"
      BY <2>5 DEF TypeOK, CodeRows
    <2> QED BY <1>3, <2>6 DEF Open
  <1> QED BY <1>1, <1>2, <1>3 DEF SameCard

LEMMA AsMeantStep == TypeOK /\ CodeInv /\ [Next]_vars => DecidesWhatWasMeant'
  <1> SUFFICES ASSUME TypeOK, CodeInv, [Next]_vars, NEW e \in Deliveries, NEW v \in Views,
                      code'[e] # NoOne, Message(e)'.meant = v, Usable(v)'
               PROVE  code'[e] = v
    BY DEF DecidesWhatWasMeant
  <1> USE ChatAssumption DEF GotoD, Finish
  <1>1. DeliveriesHoldTheirs /\ MeantIsTyped /\ DecidesWhatWasMeant
    BY DEF CodeInv
  <1>2. codes[v].state # "none" => Usable(v)
    BY CodeFate DEF CodeInv, Fate
  <1>3. ASSUME code'[e] = code[e], carries'[e] = carries[e], said'[carries[e]] = said[carries[e]]
        PROVE  code'[e] = v
    <2>1. code[e] \in Views /\ carries[e] \in Messages /\ said[carries[e]].meant = v
      BY <1>1, <1>3 DEF Message, DeliveriesHoldTheirs, TypeOK
    <2>2. Usable(v)
      BY <1>1, <1>2, <2>1 DEF MeantIsTyped
    <2> QED BY <1>1, <1>3, <2>1, <2>2 DEF DecidesWhatWasMeant, Message
  <1>4. CASE UNCHANGED <<said, ledger, carries, dpc, code>>
    BY <1>3, <1>4
  <1>5. ASSUME NEW d \in Deliveries, NEW m \in Messages, Skip(d, m) PROVE code'[e] = v
    BY <1>3, <1>5 DEF Skip
  <1>6. ASSUME NEW d \in Deliveries, NEW m \in Messages, NEW p \in People, NEW x \in Digits,
               NEW u \in Views \cup {NoOne}, Claim(d, m, p, x, u)
        PROVE  code'[e] = v
    <2>1. e # d
      BY <1>1, <1>6 DEF Claim, DeliveriesHoldTheirs
    <2>2. code[e] \in Views /\ carries[e] \in Messages /\ carries[e] # m
      BY <1>1, <1>6 DEF Claim, NeverSeen, DeliveriesHoldTheirs, TypeOK
    <2> QED BY <1>3, <1>6, <2>1, <2>2 DEF Claim, TypeOK
  <1>7. ASSUME NEW d \in Deliveries, MatchCode(d) PROVE code'[e] = v
    <2>1. CASE code'[e] = code[e]
      BY <1>3, <1>7, <2>1 DEF MatchCode
    <2>2. CASE code'[e] # code[e]
      <3>1. e = d /\ code'[e] \in Named(d) /\ UNCHANGED <<said, carries>>
        BY <1>7, <2>2 DEF MatchCode, TypeOK
      <3>2. carries[d] \in Messages /\ said[carries[d]].meant = v
        BY <1>1, <1>7, <3>1 DEF MatchCode, DeliveriesHoldTheirs, Message
      <3>3. v \in UsableMatches(d)
        BY <1>1, <1>2, <3>2 DEF MeantIsTyped, UsableMatches, Matching, Message
      <3> QED BY <3>1, <3>3 DEF Named
    <2> QED BY <2>1, <2>2
  <1>8. ASSUME NEW d \in Deliveries,
               \/ SelectOpen(d) \/ RecordWrongTry(d) \/ CodedApproval(d) \/ CheckSubject(d)
               \/ Decide(d) \/ GiveUp(d) \/ Settle(d)
        PROVE  code'[e] = v
    <2>1. UNCHANGED <<said, carries>> /\ code' \in {code, [code EXCEPT ![d] = NoOne]}
      BY <1>8 DEF SelectOpen, RecordWrongTry, CodedApproval, CheckSubject, Decide, GiveUp, Settle
    <2>2. code'[e] = code[e]
      BY <2>1 DEF TypeOK
    <2> QED BY <1>3, <2>1, <2>2
  <1> QED BY <1>4, <1>5, <1>6, <1>7, <1>8, WhoWrites

-----------------------------------------------------------------------------
\* The codes, their receipts, the requests they decide and the messages that
\* carry them stay in order, whatever calls overlap and whichever of them stop.
THEOREM CodesInOrder == Spec => [](TypeOK /\ CodeInv)
  <1>1. TypeOK /\ CodeInv /\ [Next]_vars => TypeOK' /\ CodeInv'
    BY TypeStep, PendingStep, ReceiptStep, LockStep, DeliveryStep, MeantStep, UsedStep, OpenStep,
       AsMeantStep DEF CodeInv
  <1> QED BY InitOrder, <1>1, PTL DEF Spec

\* Every variable of the tables, the views and the deliveries keeps its type;
\* in particular no request is ever decided a second time.
THEOREM TypeCorrect == Spec => []TypeOK
  BY CodesInOrder, PTL

\* A code is used exactly if it decided the approval that its view showed.
THEOREM UsedDecided == Spec => []UsedMeansDecided
  <1>1. CodeInv => UsedMeansDecided
    BY DEF CodeInv
  <1> QED BY CodesInOrder, <1>1, PTL

\* The revocation and the index of _record_view leave one open code per approval
\* and person.
THEOREM OneOpen == Spec => []OneOpenCode
  <1>1. CodeInv => OneOpenCode
    BY DEF CodeInv
  <1> QED BY CodesInOrder, <1>1, PTL

\* No delivery decides with another code while the one its sender meant is usable.
THEOREM AsMeant == Spec => []DecidesWhatWasMeant
  <1>1. CodeInv => DecidesWhatWasMeant
    BY DEF CodeInv
  <1> QED BY CodesInOrder, <1>1, PTL

\* A code that was used, locked or replaced never changes again.
THEOREM ClosedFinal == Spec => ClosedIsFinal
  <1>1. TypeOK /\ CodeInv /\ [Next]_vars =>
          [\A v \in Views : codes[v].state \in Closed => codes'[v] = codes[v]]_vars
    BY CodeFate DEF CodeInv, Fate, Closed
  <1> QED BY CodesInOrder, <1>1, PTL DEF Spec, ClosedIsFinal

-----------------------------------------------------------------------------
Uncounted == {"claimed", "wrong", "counting"}

\* A step claims one message for one delivery, or changes no message's words and
\* no delivery's message, forgets no claim and puts no try off again.
LEMMA ClaimOrWane ==
    ASSUME TypeOK, CodeInv, [Next]_vars
    PROVE  \/ \E d \in Deliveries, m \in Messages, p \in People, x \in Digits,
                 v \in Views \cup {NoOne} : Claim(d, m, p, x, v)
           \/ /\ said' = said /\ carries' = carries
              /\ \A m \in Messages : ledger[m] # "new" => ledger'[m] # "new"
              /\ \A e \in Deliveries : dpc'[e] \in Uncounted => dpc[e] \in Uncounted
  <1> DEFINE Wane == /\ said' = said /\ carries' = carries
                     /\ \A m \in Messages : ledger[m] # "new" => ledger'[m] # "new"
                     /\ \A e \in Deliveries : dpc'[e] \in Uncounted => dpc[e] \in Uncounted
  <1> USE DEF Uncounted, GotoD, Finish
  <1>1. CASE UNCHANGED <<said, ledger, carries, dpc, code>>
    BY <1>1
  <1>2. ASSUME NEW d \in Deliveries, NEW m \in Messages, Skip(d, m) PROVE Wane
    BY <1>2 DEF Skip, TypeOK
  <1>3. ASSUME NEW d \in Deliveries, MatchCode(d) PROVE Wane
    BY <1>3 DEF MatchCode, TypeOK
  <1>4. ASSUME NEW d \in Deliveries, SelectOpen(d) \/ RecordWrongTry(d) PROVE Wane
    BY <1>4 DEF SelectOpen, RecordWrongTry, TypeOK
  <1>5. ASSUME NEW d \in Deliveries, CodedApproval(d) \/ CheckSubject(d) \/ Decide(d) \/ GiveUp(d)
        PROVE  Wane
    BY <1>5 DEF CodedApproval, CheckSubject, Decide, GiveUp, TypeOK
  <1>6. ASSUME NEW d \in Deliveries, Settle(d) PROVE Wane
    <2>1. carries[d] \in Messages \cup {NoOne}
      BY DEF TypeOK
    <2> QED BY <1>6, <2>1 DEF Settle, TypeOK
  <1> QED BY <1>1, <1>2, <1>3, <1>4, <1>5, <1>6, WhoWrites

\* What a claim writes, and that nobody carried its message before.
LEMMA ClaimEffect ==
    ASSUME TypeOK, CodeInv, NEW d \in Deliveries, NEW m \in Messages, NEW p \in People,
           NEW x \in Digits, NEW v \in Views \cup {NoOne}, Claim(d, m, p, x, v)
    PROVE  /\ ledger[m] = "new" /\ dpc[d] = "idle" /\ dpc'[d] = "claimed"
           /\ ledger'[m] = "processing"
           /\ carries'[d] = m /\ \A e \in Deliveries : carries[e] # m
           /\ \A e \in Deliveries \ {d} : carries'[e] = carries[e] /\ dpc'[e] = dpc[e]
           /\ \A n \in Messages \ {m} : said'[n] = said[n] /\ ledger'[n] = ledger[n]
           /\ UNCHANGED <<targets, codes, receipts>>
  <1>1. \A e \in Deliveries : carries[e] # m
    BY DEF Claim, NeverSeen, CodeInv, DeliveriesHoldTheirs
  <1> QED BY <1>1 DEF Claim, NeverSeen, GotoD, TypeOK, viewVars

LEMMA OneDeliveryStep == TypeOK /\ CodeInv /\ OneDelivery /\ [Next]_vars => OneDelivery'
  <1> SUFFICES ASSUME TypeOK, CodeInv, OneDelivery, [Next]_vars PROVE OneDelivery'
    OBVIOUS
  <1>1. ASSUME NEW d \in Deliveries, NEW m \in Messages, NEW p \in People, NEW x \in Digits,
               NEW v \in Views \cup {NoOne}, Claim(d, m, p, x, v)
        PROVE  OneDelivery'
    BY <1>1, ClaimEffect DEF OneDelivery
  <1>2. CASE carries' = carries
    BY <1>2 DEF OneDelivery
  <1> QED BY <1>1, <1>2, ClaimOrWane

LEMMA CountsStep == TypeOK /\ CodeInv /\ CountsItsOwn /\ [Next]_vars => CountsItsOwn'
  <1> DEFINE Own(e) ==
        /\ dpc[e] \in {"wrong", "counting"} => carries[e] \in Messages /\ Message(e).meant = NoOne
        /\ targets[e] # {} => dpc[e] = "counting"
        /\ \A v \in targets[e] :
              codes[v].state # "none" /\ receipts[v].person = Message(e).person
  <1> SUFFICES ASSUME TypeOK, CodeInv, CountsItsOwn, [Next]_vars, NEW e \in Deliveries
               PROVE  Own(e)'
    BY DEF CountsItsOwn
  <1>1. Own(e) /\ targets[e] \subseteq Views /\ carries[e] \in Messages \cup {NoOne}
    BY DEF CountsItsOwn, TypeOK
  <1>2. \A v \in Views : codes[v].state # "none" =>
            codes'[v].state # "none" /\ receipts'[v] = receipts[v]
    BY CodeFate DEF CodeInv, Fate
  <1>3. ASSUME Message(e)' = Message(e), carries'[e] = carries[e], dpc'[e] = dpc[e],
               targets'[e] = targets[e]
        PROVE  Own(e)'
    BY <1>1, <1>2, <1>3
  <1>4. ASSUME dpc'[e] \notin {"wrong", "counting"}, targets'[e] = {} PROVE Own(e)'
    BY <1>4
  <1>5. ASSUME NEW d \in Deliveries, NEW m \in Messages, NEW p \in People, NEW x \in Digits,
               NEW v \in Views \cup {NoOne}, Claim(d, m, p, x, v)
        PROVE  Own(e)'
    <2>1. CASE e = d
      <3>1. dpc'[e] = "claimed" /\ dpc[e] = "idle" /\ targets' = targets
        BY <1>5, <2>1, ClaimEffect
      <3> QED BY <1>1, <1>4, <3>1
    <2>2. CASE e # d
      <3>1. /\ carries'[e] = carries[e] /\ dpc'[e] = dpc[e] /\ targets' = targets
            /\ carries[e] # m
            /\ \A n \in Messages \ {m} : said'[n] = said[n]
        BY <1>5, <2>2, ClaimEffect
      <3>2. CASE carries[e] \in Messages
        BY <1>3, <3>1, <3>2 DEF Message
      <3>3. CASE carries[e] \notin Messages
        <4>1. dpc'[e] \notin {"wrong", "counting"}
          BY <1>1, <3>1, <3>3
        <4>2. targets'[e] = {}
          BY <1>1, <3>1, <4>1
        <4> QED BY <1>4, <4>1, <4>2
      <3> QED BY <3>2, <3>3
    <2> QED BY <2>1, <2>2
  <1>6. ASSUME NEW d \in Deliveries, MatchCode(d) PROVE Own(e)'
    <2>1. said' = said /\ carries' = carries /\ targets' = targets /\ dpc[d] = "claimed"
      BY <1>6 DEF MatchCode
    <2>2. CASE e # d
      <3>1. dpc'[e] = dpc[e]
        BY <1>6, <2>2 DEF MatchCode, GotoD, TypeOK
      <3> QED BY <1>3, <2>1, <3>1 DEF Message
    <2>3. CASE e = d /\ dpc'[e] \in {"wrong", "counting"}
      <3>1. Matching(d) = {} /\ carries[d] \in Messages
        BY <1>6, <2>3 DEF MatchCode, GotoD, TypeOK, CodeInv, DeliveriesHoldTheirs
      <3>2. said[carries[d]].meant \in Views \cup {NoOne}
        BY <3>1 DEF TypeOK, Sayings
      <3>3. said[carries[d]].meant \notin Views
        BY <3>1 DEF CodeInv, MeantIsTyped, Matching, Message
      <3>4. targets[e] = {}
        BY <1>1, <2>1, <2>3
      <3> QED BY <2>1, <2>3, <3>1, <3>2, <3>3, <3>4 DEF Message
    <2>4. CASE e = d /\ dpc'[e] \notin {"wrong", "counting"}
      BY <1>1, <1>4, <2>1, <2>4
    <2> QED BY <2>2, <2>3, <2>4
  <1>7. ASSUME NEW d \in Deliveries, SelectOpen(d) PROVE Own(e)'
    <2>1. /\ UNCHANGED <<said, carries, codes, receipts>> /\ dpc[d] = "wrong"
          /\ dpc' = [dpc EXCEPT ![d] = "counting"]
          /\ targets' = [targets EXCEPT ![d] =
                           {v \in Views : Usable(v) /\ receipts[v].person = Message(d).person}]
      BY <1>7 DEF SelectOpen, GotoD, viewVars
    <2>2. CASE e # d
      BY <1>3, <2>1, <2>2 DEF Message, TypeOK
    <2>3. CASE e = d
      <3>1. /\ dpc'[e] = "counting"
            /\ targets'[e] = {v \in Views : Usable(v) /\ receipts[v].person = Message(e).person}
        BY <2>1, <2>3 DEF TypeOK
      <3>2. \A v \in targets'[e] : codes[v].state # "none"
        BY <3>1 DEF Usable, Open
      <3> QED BY <1>1, <2>1, <2>3, <3>1, <3>2 DEF Message
    <2> QED BY <2>2, <2>3
  <1>8. ASSUME NEW d \in Deliveries,
               \/ RecordWrongTry(d) \/ CodedApproval(d) \/ CheckSubject(d) \/ Decide(d) \/ GiveUp(d)
        PROVE  Own(e)'
    <2>1. UNCHANGED <<said, carries>>
      BY <1>8 DEF RecordWrongTry, CodedApproval, CheckSubject, Decide, GiveUp
    <2>2. CASE e # d
      <3>1. dpc'[e] = dpc[e] /\ targets'[e] = targets[e]
        BY <1>8, <2>2 DEF RecordWrongTry, CodedApproval, CheckSubject, Decide, GiveUp, GotoD,
                          Finish, TypeOK
      <3> QED BY <1>3, <2>1, <3>1 DEF Message
    <2>3. CASE e = d /\ Finish(d)
      BY <1>4, <2>3 DEF Finish, GotoD, TypeOK
    <2>4. CASE e = d /\ ~Finish(d)
      <3>1. dpc[e] \in {"matched", "pending"} /\ dpc'[e] \in {"pending", "checked"}
              /\ targets' = targets
        BY <1>8, <2>4 DEF RecordWrongTry, CodedApproval, CheckSubject, Decide, GiveUp, GotoD, TypeOK
      <3> QED BY <1>1, <1>4, <3>1
    <2> QED BY <2>2, <2>3, <2>4
  <1>9. ASSUME NEW d \in Deliveries, \/ Settle(d)
                                     \/ \E m \in Messages : Skip(d, m)
        PROVE  Own(e)'
    <2>1. UNCHANGED <<said, carries, targets>> /\ dpc[d] \in {"settle", "idle"}
            /\ dpc' = [dpc EXCEPT ![d] = "ended"]
      BY <1>9 DEF Settle, Skip, GotoD
    <2>2. CASE e # d
      BY <1>3, <2>1, <2>2 DEF Message, TypeOK
    <2>3. CASE e = d
      BY <1>1, <1>4, <2>1, <2>3 DEF TypeOK
    <2> QED BY <2>2, <2>3
  <1>10. CASE UNCHANGED <<said, carries, dpc, targets>>
    BY <1>3, <1>10 DEF Message
  <1>11. ASSUME NEW v \in Views, NEW p \in People, NEW a \in Approvals, View(v, p, a)
         PROVE  UNCHANGED <<said, carries, dpc, targets>>
    BY <1>11 DEF View, chatVars
  <1>12. ASSUME NEW v \in Views, NEW x \in Digits, FreshCode(v, x)
         PROVE  UNCHANGED <<said, carries, dpc, targets>>
    BY <1>12 DEF FreshCode, chatVars
  <1>13. ASSUME NEW v \in Views, ReadSubject(v) \/ RevokeOpen(v) \/ RecordView(v) \/ Expire(v)
         PROVE  UNCHANGED <<said, carries, dpc, targets>>
    BY <1>13 DEF ReadSubject, RevokeOpen, RecordView, Expire, chatVars
  <1>14. ASSUME NEW a \in Approvals, DecideOnWeb(a) \/ EditSubject(a)
         PROVE  UNCHANGED <<said, carries, dpc, targets>>
    BY <1>14 DEF DecideOnWeb, EditSubject, chatVars
  <1>15. CASE UNCHANGED vars
    BY <1>10, <1>15 DEF vars
  <1> QED
    BY <1>5, <1>6, <1>7, <1>8, <1>9, <1>10, <1>11, <1>12, <1>13, <1>14, <1>15 DEF Next

\* The spent messages of a person are finitely many and are never taken back.
LEMMA SpentGrow ==
    ASSUME TypeOK, CodeInv, [Next]_vars, NEW p
    PROVE  /\ IsFiniteSet(SpentMessages(p)) /\ IsFiniteSet(SpentMessages(p)')
           /\ SpentMessages(p) \subseteq SpentMessages(p)'
           /\ Cardinality(SpentMessages(p)) \in Nat /\ Cardinality(SpentMessages(p)') \in Nat
           /\ Cardinality(SpentMessages(p)) <= Cardinality(SpentMessages(p)')
  <1>1. SpentMessages(p) \subseteq Messages /\ SpentMessages(p)' \subseteq Messages
    BY DEF SpentMessages, WrongMessages
  <1>2. IsFiniteSet(SpentMessages(p)) /\ IsFiniteSet(SpentMessages(p)')
    BY <1>1, ChatAssumption, FS_Subset
  <1>3. SpentMessages(p) \subseteq SpentMessages(p)'
    <2> SUFFICES ASSUME NEW m \in SpentMessages(p) PROVE m \in SpentMessages(p)'
      OBVIOUS
    <2>1. /\ m \in Messages /\ said[m].person = p /\ said[m].meant = NoOne /\ ledger[m] # "new"
          /\ \A e \in Deliveries : ~(carries[e] = m /\ dpc[e] \in Uncounted)
      BY DEF SpentMessages, WrongMessages, Uncounted
    <2>2. /\ said'[m] = said[m] /\ ledger'[m] # "new"
          /\ \A e \in Deliveries : ~(carries'[e] = m /\ dpc'[e] \in Uncounted)
      <3>1. ASSUME NEW d \in Deliveries, NEW n \in Messages, NEW q \in People, NEW x \in Digits,
                   NEW v \in Views \cup {NoOne}, Claim(d, n, q, x, v)
            PROVE  /\ said'[m] = said[m] /\ ledger'[m] # "new"
                   /\ \A e \in Deliveries : ~(carries'[e] = m /\ dpc'[e] \in Uncounted)
        BY <2>1, <3>1, ClaimEffect
      <3> QED BY <2>1, <3>1, ClaimOrWane
    <2> QED BY <2>1, <2>2 DEF SpentMessages, WrongMessages, Uncounted
  <1> QED BY <1>2, <1>3, FS_CardinalityType, FS_Subset

\* Counting a try spends the message that made it.
LEMMA TrySpends ==
    ASSUME TypeOK, CodeInv, OneDelivery, CountsItsOwn, [Next]_vars, NEW d \in Deliveries,
           RecordWrongTry(d), NEW p, p = Message(d).person
    PROVE  Cardinality(SpentMessages(p)) + 1 <= Cardinality(SpentMessages(p)')
  <1> DEFINE m == carries[d]
  <1>1. dpc[d] = "counting" /\ dpc'[d] = "settle" /\ UNCHANGED <<said, ledger, carries>>
    BY DEF RecordWrongTry, Finish, GotoD, TypeOK
  <1>2. m \in Messages /\ said[m].meant = NoOne /\ said[m].person = p /\ ledger[m] # "new"
    BY <1>1 DEF CountsItsOwn, Message, CodeInv, DeliveriesHoldTheirs
  <1>3. m \notin SpentMessages(p)
    BY <1>1 DEF SpentMessages
  <1>4. \A e \in Deliveries : carries[e] = m => e = d
    BY <1>2 DEF OneDelivery
  <1>5. m \in SpentMessages(p)'
    BY <1>1, <1>2, <1>4 DEF SpentMessages, WrongMessages
  <1>6. /\ IsFiniteSet(SpentMessages(p)) /\ IsFiniteSet(SpentMessages(p)')
        /\ SpentMessages(p) \subseteq SpentMessages(p)'
    BY SpentGrow
  <1>7. /\ IsFiniteSet(SpentMessages(p) \cup {m})
        /\ Cardinality(SpentMessages(p) \cup {m}) = Cardinality(SpentMessages(p)) + 1
    BY <1>3, <1>6, FS_AddElement
  <1>8. SpentMessages(p) \cup {m} \subseteq SpentMessages(p)'
    BY <1>5, <1>6
  <1> QED BY <1>6, <1>7, <1>8, FS_Subset

\* A code's wrong tries stand, or start at none, or rise by one with a delivery
\* that selected the code.
LEMMA TriesEffect ==
    ASSUME TypeOK, CodeInv, [Next]_vars, NEW w \in Views
    PROVE  \/ codes'[w].tries = codes[w].tries
           \/ codes'[w].tries = 0
           \/ /\ codes'[w].tries = codes[w].tries + 1
              /\ \E d \in Deliveries : RecordWrongTry(d) /\ w \in targets[d]
  <1>1. codes \in [Views -> CodeRows] /\ codes[w] \in CodeRows
    BY DEF TypeOK
  <1>2. ASSUME NEW v \in Views, RecordView(v)
        PROVE  codes'[w].tries = codes[w].tries \/ codes'[w].tries = 0
    <2>1. [codes[w] EXCEPT !.state = "reissued"].tries = codes[w].tries
      BY <1>1 DEF CodeRows
    <2>2. CASE w = v
      BY <1>2, <2>2, RecordEffect
    <2>3. CASE w # v
      BY <1>2, <2>1, <2>3, RecordEffect
    <2> QED BY <2>2, <2>3
  <1>3. ASSUME NEW v \in Views, Expire(v) PROVE codes'[w].tries = codes[w].tries
    <2>1. codes'[w] = codes[w] \/ codes'[w] = [codes[w] EXCEPT !.expired = TRUE]
      BY <1>1, <1>3 DEF Expire
    <2> QED BY <1>1, <2>1 DEF CodeRows
  <1>4. ASSUME NEW d \in Deliveries, Decide(d) PROVE codes'[w].tries = codes[w].tries
    <2>1. codes'[w] = codes[w] \/ codes'[w] = [codes[w] EXCEPT !.state = "used"]
      BY <1>1, <1>4 DEF Decide
    <2> QED BY <1>1, <2>1 DEF CodeRows
  <1>5. ASSUME NEW d \in Deliveries, RecordWrongTry(d), codes'[w].tries # codes[w].tries
        PROVE  codes'[w].tries = codes[w].tries + 1 /\ w \in targets[d]
    <2>1. CASE w \in Counted(d)
      BY <1>5, <2>1 DEF RecordWrongTry, Counted
    <2>2. CASE w \notin Counted(d)
      BY <1>5, <2>2 DEF RecordWrongTry
    <2> QED BY <2>1, <2>2
  <1> QED BY <1>2, <1>3, <1>4, <1>5, WhoWrites

LEMMA TriesStep == TypeOK /\ CodeInv /\ TriesInv /\ [Next]_vars => TriesAreSpent'
  <1> SUFFICES ASSUME TypeOK, CodeInv, TriesInv, [Next]_vars, NEW w \in Views
               PROVE  /\ codes'[w].state = "none" => codes'[w].tries = 0
                      /\ codes'[w].tries <= Cardinality(SpentMessages(receipts[w].person)')
    BY DEF TriesAreSpent
  <1>1. /\ OneDelivery /\ CountsItsOwn /\ codes[w].tries \in Nat
        /\ codes[w].state = "none" => codes[w].tries = 0
        /\ codes[w].tries <= Cardinality(SpentMessages(receipts[w].person))
    BY DEF TriesInv, TriesAreSpent, TypeOK, CodeRows
  <1>2. codes[w].state # "none" => codes'[w].state # "none" /\ receipts'[w] = receipts[w]
    BY CodeFate DEF CodeInv, Fate
  <1>3. ASSUME NEW d \in Deliveries, RecordWrongTry(d), w \in targets[d]
        PROVE  codes[w].state # "none" /\ receipts[w].person = Message(d).person
    BY <1>1, <1>3 DEF CountsItsOwn
  <1>4. PICK p : p = receipts'[w].person
    OBVIOUS
  <1>5. SpentMessages(receipts[w].person)' = SpentMessages(p)'
    BY <1>4 DEF SpentMessages, WrongMessages
  <1>6. /\ Cardinality(SpentMessages(p)) \in Nat /\ Cardinality(SpentMessages(p)') \in Nat
        /\ Cardinality(SpentMessages(p)) <= Cardinality(SpentMessages(p)')
    BY SpentGrow
  <1>7. CASE codes[w].state = "none"
    <2>1. codes'[w].tries = 0
      BY <1>1, <1>3, <1>7, TriesEffect
    <2> QED BY <1>5, <1>6, <2>1
  <1>8. CASE codes[w].state # "none"
    <2>1. receipts[w].person = p /\ codes'[w].state # "none"
      BY <1>2, <1>4, <1>8
    <2>2. codes[w].tries <= Cardinality(SpentMessages(p))
      BY <1>1, <2>1
    <2>3. CASE codes'[w].tries = codes[w].tries \/ codes'[w].tries = 0
      BY <1>1, <1>5, <1>6, <2>1, <2>2, <2>3
    <2>4. ASSUME NEW d \in Deliveries, RecordWrongTry(d), w \in targets[d],
                 codes'[w].tries = codes[w].tries + 1
          PROVE  codes'[w].tries <= Cardinality(SpentMessages(p)')
      <3>1. Cardinality(SpentMessages(p)) + 1 <= Cardinality(SpentMessages(p)')
        BY <1>1, <1>3, <2>1, <2>4, TrySpends
      <3> QED BY <1>1, <1>6, <2>2, <2>4, <3>1
    <2> QED BY <1>5, <2>1, <2>3, <2>4, TriesEffect
  <1> QED BY <1>7, <1>8

\* A message is carried by one delivery, a delivery counts tries against codes of its
\* own sender, and a code has no more wrong tries than its owner has spent messages.
THEOREM TriesInOrder == Spec => []TriesInv
  <1>1. Init => TriesInv
    <2> SUFFICES ASSUME Init PROVE TriesInv
      OBVIOUS
    <2>1. OneDelivery /\ CountsItsOwn
      BY ChatAssumption DEF Init, OneDelivery, CountsItsOwn
    <2>2. ASSUME NEW v \in Views
          PROVE  codes[v].tries = 0 /\ 0 <= Cardinality(SpentMessages(receipts[v].person))
      <3>1. IsFiniteSet(SpentMessages(receipts[v].person))
        BY ChatAssumption, FS_Subset DEF SpentMessages, WrongMessages
      <3>2. Cardinality(SpentMessages(receipts[v].person)) \in Nat
        BY <3>1, FS_CardinalityType
      <3> QED BY <3>2 DEF Init
    <2> QED BY <2>1, <2>2 DEF TriesInv, TriesAreSpent
  <1>2. TypeOK /\ CodeInv /\ TriesInv /\ [Next]_vars => TriesInv'
    BY OneDeliveryStep, CountsStep, TriesStep DEF TriesInv
  <1> QED BY CodesInOrder, <1>1, <1>2, PTL DEF Spec

\* A wrong try is counted once, for one message of the code's owner, and
\* MAX_WRONG_TRIES of them lock the code, in any number of deliveries at once.
THEOREM TriesLock == Spec => []WrongTriesLock
  <1>1. TypeOK /\ CodeInv /\ TriesInv => WrongTriesLock
    <2> SUFFICES ASSUME TypeOK, CodeInv, TriesInv, NEW v \in Views
                 PROVE  codes[v].tries <= Cardinality(WrongMessages(receipts[v].person))
      BY DEF WrongTriesLock, CodeInv, LockedAtTheLimit
    <2> DEFINE S == SpentMessages(receipts[v].person)
               T == WrongMessages(receipts[v].person)
    <2>1. S \subseteq T /\ IsFiniteSet(T)
      BY ChatAssumption, FS_Subset DEF SpentMessages, WrongMessages
    <2>2. Cardinality(S) <= Cardinality(T) /\ IsFiniteSet(S)
      BY <2>1, FS_Subset
    <2>3. Cardinality(S) \in Nat /\ Cardinality(T) \in Nat
      BY <2>1, <2>2, FS_CardinalityType
    <2>4. codes[v].tries \in Nat /\ codes[v].tries <= Cardinality(S)
      BY DEF TypeOK, CodeRows, TriesInv, TriesAreSpent
    <2> HIDE DEF S, T
    <2>5. codes[v].tries <= Cardinality(T)
      BY <2>2, <2>3, <2>4
    <2> QED BY <2>5 DEF T
  <1> QED BY CodesInOrder, TriesInOrder, <1>1, PTL

-----------------------------------------------------------------------------
(* ChatDecisions implements CodeContract.                                    *)

LEMMA TheirsStep == TypeOK /\ CodeInv /\ CodesAreTheirs /\ [Next]_vars => CodesAreTheirs'
  <1> SUFFICES ASSUME TypeOK, CodeInv, CodesAreTheirs, [Next]_vars PROVE CodesAreTheirs'
    OBVIOUS
  <1> USE ChatAssumption DEF GotoD, GotoV, Finish
  <1>1. \A v \in Views : codes[v].state # "none" =>
            codes'[v].state # "none" /\ receipts'[v] = receipts[v]
    BY CodeFate DEF CodeInv, Fate
  <1>2. ASSUME NEW e \in Deliveries, code'[e] \in Views
        PROVE  receipts'[code'[e]].person = Message(e)'.person
    <2>1. ASSUME code'[e] = code[e], carries'[e] = carries[e],
                 said'[carries[e]] = said[carries[e]]
          PROVE  receipts'[code'[e]].person = Message(e)'.person
      BY <1>1, <1>2, <2>1 DEF CodeInv, DeliveriesHoldTheirs, CodesAreTheirs, Message
    <2>2. ASSUME NEW d \in Deliveries, NEW m \in Messages, Skip(d, m)
          PROVE  receipts'[code'[e]].person = Message(e)'.person
      BY <2>1, <2>2 DEF Skip
    <2>3. ASSUME NEW d \in Deliveries, NEW m \in Messages, NEW p \in People, NEW x \in Digits,
                 NEW u \in Views \cup {NoOne}, Claim(d, m, p, x, u)
          PROVE  receipts'[code'[e]].person = Message(e)'.person
      <3>1. code'[e] = code[e] /\ code[e] \in Views
        BY <1>2, <2>3 DEF Claim
      <3>2. dpc[e] # "idle" /\ carries[e] \in Messages
        BY <3>1 DEF CodeInv, DeliveriesHoldTheirs
      <3>3. carries'[e] = carries[e] /\ said'[carries[e]] = said[carries[e]]
        BY <2>3, <3>2, ClaimEffect
      <3> QED BY <2>1, <3>1, <3>3
    <2>4. ASSUME NEW d \in Deliveries, MatchCode(d)
          PROVE  receipts'[code'[e]].person = Message(e)'.person
      <3>1. CASE code'[e] = code[e]
        BY <2>1, <2>4, <3>1 DEF MatchCode
      <3>2. CASE code'[e] # code[e]
        <4>1. e = d /\ code'[e] \in Named(d) /\ UNCHANGED <<said, carries, receipts>>
          BY <2>4, <3>2 DEF MatchCode, TypeOK, viewVars
        <4> QED BY <4>1 DEF Named, UsableMatches, Matching, Message
      <3> QED BY <3>1, <3>2
    <2>5. ASSUME NEW d \in Deliveries,
                 \/ SelectOpen(d) \/ RecordWrongTry(d) \/ CodedApproval(d) \/ CheckSubject(d)
                 \/ Decide(d) \/ GiveUp(d) \/ Settle(d)
          PROVE  receipts'[code'[e]].person = Message(e)'.person
      <3>1. UNCHANGED <<said, carries>> /\ code' \in {code, [code EXCEPT ![d] = NoOne]}
        BY <2>5 DEF SelectOpen, RecordWrongTry, CodedApproval, CheckSubject, Decide, GiveUp, Settle
      <3>2. code'[e] = code[e]
        BY <1>2, <3>1 DEF TypeOK
      <3> QED BY <2>1, <3>1, <3>2
    <2>6. CASE UNCHANGED <<said, ledger, carries, dpc, code>>
      BY <2>1, <2>6
    <2> QED BY <2>2, <2>3, <2>4, <2>5, <2>6, WhoWrites
  <1>3. ASSUME NEW v \in Views
        PROVE  /\ over'[v] # {} => vpc'[v] = "revoking"
               /\ \A w \in Views : w \in over'[v] => codes'[w].state # "none" /\ SameCard(v, w)'
    <2> DEFINE Mine == /\ over'[v] # {} => vpc'[v] = "revoking"
                       /\ \A w \in Views : w \in over'[v] =>
                             codes'[w].state # "none" /\ SameCard(v, w)'
    <2>1. over[v] \subseteq Views
      BY DEF TypeOK
    <2>2. ASSUME over'[v] = {} PROVE Mine
      BY <2>2
    <2>3. ASSUME over'[v] = over[v], vpc'[v] = vpc[v], receipts'[v] = receipts[v] PROVE Mine
      BY <1>1, <2>1, <2>3 DEF CodesAreTheirs, SameCard
    <2>4. vpc[v] # "revoking" => over[v] = {}
      BY DEF CodesAreTheirs
    <2>5. ASSUME NEW u \in Views, NEW p \in People, NEW a \in Approvals, View(u, p, a) PROVE Mine
      BY <2>2, <2>3, <2>4, <2>5 DEF View, TypeOK
    <2>6. ASSUME NEW u \in Views, NEW x \in Digits, FreshCode(u, x) PROVE Mine
      BY <2>2, <2>3, <2>4, <2>6 DEF FreshCode, TypeOK
    <2>7. ASSUME NEW u \in Views, ReadSubject(u) PROVE Mine
      BY <2>2, <2>3, <2>4, <2>7 DEF ReadSubject, TypeOK
    <2>8. ASSUME NEW u \in Views, RevokeOpen(u) PROVE Mine
      <3>1. CASE u # v
        BY <2>3, <2>8, <3>1 DEF RevokeOpen, TypeOK
      <3>2. CASE u = v
        <4>1. /\ over'[v] = {w \in Views : Open(w) /\ SameCard(v, w)} /\ vpc'[v] = "revoking"
              /\ UNCHANGED <<codes, receipts>>
          BY <2>8, <3>2 DEF RevokeOpen, TypeOK
        <4> QED BY <4>1 DEF Open, SameCard
      <3> QED BY <3>1, <3>2
    <2>9. ASSUME NEW u \in Views, RecordView(u) PROVE Mine
      <3>1. CASE u # v
        <4>1. over'[v] = over[v] /\ vpc'[v] = vpc[v]
          BY <2>9, <3>1 DEF RecordView, TypeOK
        <4>2. receipts'[v] = receipts[v]
          BY <2>9, <3>1, RecordEffect DEF TypeOK
        <4> QED BY <2>3, <4>1, <4>2
      <3>2. CASE u = v
        BY <2>2, <2>9, <3>2 DEF RecordView, TypeOK
      <3> QED BY <3>1, <3>2
    <2>10. CASE UNCHANGED <<receipts, vpc, over>>
      BY <2>3, <2>10
    <2> QED BY <2>5, <2>6, <2>7, <2>8, <2>9, <2>10, WhoWrites
  <1>4. ASSUME NEW m \in Messages, ledger'[m] = "new" PROVE said'[m].person = NoOne
    <2>1. ASSUME NEW d \in Deliveries, NEW n \in Messages, NEW p \in People, NEW x \in Digits,
                 NEW u \in Views \cup {NoOne}, Claim(d, n, p, x, u)
          PROVE  ledger[m] = "new" /\ said'[m] = said[m]
      BY <1>4, <2>1, ClaimEffect
    <2>2. ledger[m] = "new" /\ said'[m] = said[m]
      BY <1>4, <2>1, ClaimOrWane
    <2> QED BY <2>2 DEF CodesAreTheirs
  <1> QED BY <1>2, <1>3, <1>4 DEF CodesAreTheirs

\* A delivery acts with a code of its sender alone, and a view revokes codes of its own
\* card alone, though the matching and the acting are different transactions.
THEOREM TheirsOnly == Spec => []CodesAreTheirs
  <1>1. Init => CodesAreTheirs
    BY ChatAssumption DEF Init, CodesAreTheirs
  <1> QED BY CodesInOrder, <1>1, TheirsStep, PTL DEF Spec

\* What the contract sees of the tables.
Life == [v \in Views |-> IF Open(v) THEN (IF codes[v].expired THEN "expired" ELSE "usable")
                         ELSE codes[v].state]
Owner == [v \in Views |-> IF codes[v].state = "none" THEN {} ELSE {receipts[v].person}]
Topic == [v \in Views |-> IF codes[v].state = "none" THEN {} ELSE {receipts[v].approval}]
Tries == [v \in Views |-> codes[v].tries]
Sender == [m \in Messages |-> {said[m].person} \ {NoOne}]
Meant == [m \in Messages |-> {said[m].meant} \ {NoOne}]
Busy == {m \in Messages : \E d \in Deliveries : carries[d] = m /\ dpc[d] \in Acting}
Outcome == [a \in Approvals |-> {requests[a].by} \ {NoOne}]

\* Codes that are rows keep their owner and topic; no step but an INSERT adds one.
LEMMA OwnersStand ==
    ASSUME TypeOK, CodeInv, [Next]_vars,
           \A v \in Views : codes[v].state = "none" => codes'[v].state = "none"
    PROVE  Owner' = Owner /\ Topic' = Topic
  <1>1. \A v \in Views : /\ codes[v].state = "none" <=> codes'[v].state = "none"
                         /\ codes[v].state # "none" => receipts'[v] = receipts[v]
    BY CodeFate DEF CodeInv, Fate
  <1>2. \A v \in Views : Owner'[v] = Owner[v] /\ Topic'[v] = Topic[v]
    BY <1>1 DEF Owner, Topic
  <1> QED BY <1>2 DEF Owner, Topic

LEMMA CodesStand ==
    ASSUME TypeOK, CodeInv, [Next]_vars, codes' = codes
    PROVE  UNCHANGED <<Life, Owner, Topic, Tries>>
  <1>1. Life' = Life /\ Tries' = Tries
    BY DEF Life, Tries, Open
  <1> QED BY <1>1, OwnersStand

\* A delivery that may still act carries a message, and when it is done with it
\* nobody acts on that message any more.
LEMMA BusyLeaves ==
    ASSUME TypeOK, CodeInv, TriesInv, NEW d \in Deliveries, dpc[d] \in Acting,
           GotoD(d, "settle"), carries' = carries
    PROVE  carries[d] \in Messages /\ carries[d] \in Busy /\ Busy' = Busy \ {carries[d]}
  <1>1. carries[d] \in Messages
    <2>1. dpc[d] \in {"wrong", "counting"} => carries[d] \in Messages
      BY DEF TriesInv, CountsItsOwn
    <2>2. dpc[d] \in {"claimed", "matched", "pending", "checked"} => carries[d] \in Messages
      BY DEF CodeInv, DeliveriesHoldTheirs
    <2> QED BY <2>1, <2>2 DEF Acting
  <1>2. \A e \in Deliveries : carries[e] = carries[d] => e = d
    BY <1>1 DEF TriesInv, OneDelivery
  <1>3. dpc'[d] \notin Acting /\ \A e \in Deliveries \ {d} : dpc'[e] = dpc[e]
    BY DEF GotoD, TypeOK, Acting
  <1> QED BY <1>1, <1>2, <1>3 DEF Busy

LEMMA BusyStands ==
    ASSUME TypeOK, NEW d \in Deliveries, NEW step, GotoD(d, step), carries' = carries,
           dpc[d] \in Acting <=> step \in Acting
    PROVE  Busy' = Busy
  <1>1. dpc'[d] = step /\ \A e \in Deliveries \ {d} : dpc'[e] = dpc[e]
    BY DEF GotoD, TypeOK
  <1>2. \A e \in Deliveries : dpc'[e] \in Acting <=> dpc[e] \in Acting
    BY <1>1
  <1> QED BY <1>2 DEF Busy

\* The INSERT of a code, when the index allows it, issues it.
LEMMA CodeIssued ==
    ASSUME TypeOK, CodeInv, TriesInv, CodesAreTheirs, [Next]_vars, NEW v \in Views,
           RecordView(v), codes' # codes
    PROVE  Codebook!Next
  <1>1. /\ vpc[v] = "revoking" /\ codes[v].state = "none" /\ codes[v].tries = 0
        /\ receipts[v].person \in People /\ receipts[v].approval \in Approvals
    BY DEF RecordView, CodeInv, CodesHaveReceipts, TriesInv, TriesAreSpent
  <1>2. PICK p \in People, a \in Approvals : p = receipts[v].person /\ a = receipts[v].approval
    BY <1>1
  <1>3. /\ OpenIndexAllows(v) /\ receipts' = receipts
        /\ codes'[v] = [state |-> "open", expired |-> FALSE, tries |-> 0]
        /\ \A w \in Views : w # v /\ w \in over[v] /\ Open(w) =>
              codes'[w] = [codes[w] EXCEPT !.state = "reissued"]
        /\ \A w \in Views : w # v /\ ~(w \in over[v] /\ Open(w)) => codes'[w] = codes[w]
    BY RecordEffect
  <1>4. UNCHANGED <<requests, said, carries, dpc>>
    BY DEF RecordView, requestVars, chatVars
  <1>5. UNCHANGED <<Sender, Meant, Busy, Outcome>>
    BY <1>4 DEF Sender, Meant, Busy, Outcome
  <1>6. \A w \in Views : w # v =>
          (w \in over[v] /\ Open(w) <=> Open(w) /\ Owner[w] = {p} /\ Topic[w] = {a})
    BY <1>2, <1>3 DEF OpenIndexAllows, CodesAreTheirs, SameCard, Open, Owner, Topic
  <1>7. \A w \in Views : /\ w # v => codes'[w].tries = codes[w].tries
                         /\ w # v => (codes'[w].state = "none" <=> codes[w].state = "none")
                         /\ w # v /\ w \in over[v] /\ Open(w) => codes'[w].state = "reissued"
    <2> SUFFICES ASSUME NEW w \in Views, w # v
                 PROVE  /\ codes'[w].tries = codes[w].tries
                        /\ codes'[w].state = "none" <=> codes[w].state = "none"
                        /\ w \in over[v] /\ Open(w) => codes'[w].state = "reissued"
      OBVIOUS
    <2>1. CASE w \in over[v] /\ Open(w)
      <3>1. codes[w] \in CodeRows /\ codes'[w] = [codes[w] EXCEPT !.state = "reissued"]
        BY <1>3, <2>1 DEF TypeOK
      <3>2. codes'[w].state = "reissued" /\ codes'[w].tries = codes[w].tries
        BY <3>1 DEF CodeRows
      <3> QED BY <2>1, <3>2 DEF Open
    <2>2. CASE ~(w \in over[v] /\ Open(w))
      BY <1>3, <2>2
    <2> QED BY <2>1, <2>2
  <1>8. Tries' = Tries
    <2>1. \A w \in Views : Tries'[w] = Tries[w]
      BY <1>1, <1>3, <1>7 DEF Tries
    <2> QED BY <2>1 DEF Tries
  <1>9. Owner' = [Owner EXCEPT ![v] = {p}] /\ Topic' = [Topic EXCEPT ![v] = {a}]
    <2>1. /\ Owner'[v] = {p} /\ \A w \in Views \ {v} : Owner'[w] = Owner[w]
          /\ Topic'[v] = {a} /\ \A w \in Views \ {v} : Topic'[w] = Topic[w]
      BY <1>2, <1>3, <1>7 DEF Owner, Topic
    <2> QED BY <2>1 DEF Owner, Topic
  <1>10. Life' = [w \in Views |-> IF w = v THEN "usable"
                                  ELSE IF Codebook!Open(w) /\ Owner[w] = {p} /\ Topic[w] = {a}
                                       THEN "reissued" ELSE Life[w]]
    <2>1. \A w \in Views : Codebook!Open(w) <=> Open(w)
      BY DEF Codebook!Open, Open, TypeOK, CodeRows, Closed
    <2>2. Life'[v] = "usable"
      BY <1>3 DEF Life, Open
    <2>3. ASSUME NEW w \in Views, w # v, w \in over[v], Open(w) PROVE Life'[w] = "reissued"
      BY <1>7, <2>3 DEF Life, Open
    <2>4. ASSUME NEW w \in Views, w # v, ~(w \in over[v] /\ Open(w)) PROVE Life'[w] = Life[w]
      BY <1>3, <2>4 DEF Life, Open
    <2> QED BY <1>6, <2>1, <2>2, <2>3, <2>4 DEF Life
  <1>11. Life[v] = "none"
    BY <1>1 DEF Life, Open
  <1>12. Codebook!Issue(v, p, a)
    BY <1>5, <1>8, <1>9, <1>10, <1>11
       DEF Codebook!Issue, Life, Owner, Topic, Tries, Sender, Meant, Busy, Outcome
  <1> QED BY <1>12 DEF Codebook!Next

LEMMA CodeExpires ==
    ASSUME TypeOK, CodeInv, [Next]_vars, NEW v \in Views, Expire(v)
    PROVE  Codebook!Next
  <1>1. /\ Usable(v) /\ codes'[v] = [codes[v] EXCEPT !.expired = TRUE]
        /\ \A w \in Views \ {v} : codes'[w] = codes[w]
        /\ UNCHANGED <<requests, said, carries, dpc>>
    BY DEF Expire, TypeOK, requestVars, chatVars
  <1>2. codes'[v].state = "open" /\ codes'[v].expired = TRUE /\ codes'[v].tries = codes[v].tries
    BY <1>1 DEF TypeOK, CodeRows, Usable, Open
  <1>3. Owner' = Owner /\ Topic' = Topic
    BY <1>1, <1>2, OwnersStand DEF Usable, Open
  <1>4. UNCHANGED <<Sender, Meant, Busy, Outcome>>
    BY <1>1 DEF Sender, Meant, Busy, Outcome
  <1>5. Tries' = Tries
    <2>1. \A w \in Views : Tries'[w] = Tries[w]
      BY <1>1, <1>2 DEF Tries
    <2> QED BY <2>1 DEF Tries
  <1>6. Life[v] = "usable" /\ Life' = [Life EXCEPT ![v] = "expired"]
    <2>1. Life[v] = "usable" /\ Life'[v] = "expired"
      BY <1>1, <1>2 DEF Life, Usable, Open
    <2>2. \A w \in Views \ {v} : Life'[w] = Life[w]
      BY <1>1 DEF Life, Open
    <2> QED BY <2>1, <2>2 DEF Life
  <1>7. Codebook!Expire(v)
    BY <1>3, <1>4, <1>5, <1>6
       DEF Codebook!Expire, Life, Owner, Topic, Tries, Sender, Meant, Busy, Outcome
  <1> QED BY <1>7 DEF Codebook!Next

\* The claim of a message is the one time it is heard.
LEMMA MessageHeard ==
    ASSUME TypeOK, CodeInv, CodesAreTheirs, [Next]_vars, NEW d \in Deliveries,
           NEW m \in Messages, NEW p \in People, NEW x \in Digits,
           NEW v \in Views \cup {NoOne}, Claim(d, m, p, x, v)
    PROVE  Codebook!Next
  <1> USE ChatAssumption
  <1>1. /\ said'[m] = [person |-> p, digits |-> x, meant |-> v] /\ said[m].person = NoOne
        /\ UNCHANGED <<codes, requests>> /\ Typed(p, x, v)
    BY DEF Claim, NeverSeen, TypeOK, CodesAreTheirs, requestVars
  <1>2. UNCHANGED <<Life, Owner, Topic, Tries>>
    BY <1>1, CodesStand
  <1>3. Outcome' = Outcome
    BY <1>1 DEF Outcome
  <1>4. PICK V \in SUBSET Views : V = {v} \ {NoOne}
    OBVIOUS
  <1>5. /\ carries'[d] = m /\ dpc'[d] = "claimed" /\ dpc[d] = "idle"
        /\ \A e \in Deliveries : carries[e] # m
        /\ \A e \in Deliveries \ {d} : carries'[e] = carries[e] /\ dpc'[e] = dpc[e]
        /\ \A n \in Messages \ {m} : said'[n] = said[n]
    BY ClaimEffect
  <1>6. Sender[m] = {} /\ Sender' = [Sender EXCEPT ![m] = {p}]
    <2>1. Sender[m] = {} /\ Sender'[m] = {p}
      BY <1>1 DEF Sender
    <2>2. \A n \in Messages \ {m} : Sender'[n] = Sender[n]
      BY <1>5 DEF Sender
    <2> QED BY <2>1, <2>2 DEF Sender
  <1>7. Meant' = [Meant EXCEPT ![m] = V]
    <2>1. Meant'[m] = V
      BY <1>1, <1>4 DEF Meant
    <2>2. \A n \in Messages \ {m} : Meant'[n] = Meant[n]
      BY <1>5 DEF Meant
    <2> QED BY <2>1, <2>2 DEF Meant
  <1>8. Busy' = Busy \cup {m}
    <2>1. carries[d] \notin Messages
      BY <1>5 DEF CodeInv, DeliveriesHoldTheirs
    <2> QED BY <1>5, <2>1 DEF Busy, Acting
  <1>9. \A w \in V : V = {w} /\ Owner[w] = {p}
    BY <1>1, <1>4 DEF Typed, Owner
  <1>10. Codebook!Hear(m, p, V)
    BY <1>2, <1>3, <1>6, <1>7, <1>8, <1>9
       DEF Codebook!Hear, Codebook!codeVars, Life, Owner, Topic, Tries, Sender, Meant, Busy, Outcome
  <1> QED BY <1>10 DEF Codebook!Next

\* The UPDATE of record_wrong_try counts one try against the open codes it selected.
LEMMA TryStrikes ==
    ASSUME TypeOK, CodeInv, TriesInv, [Next]_vars, NEW d \in Deliveries, RecordWrongTry(d)
    PROVE  Codebook!Next
  <1> USE ChatAssumption
  <1>1. /\ dpc[d] = "counting" /\ GotoD(d, "settle")
        /\ UNCHANGED <<said, carries, requests>>
    BY DEF RecordWrongTry, Finish, requestVars
  <1>2. PICK m \in Messages : m = carries[d] /\ m \in Busy /\ Busy' = Busy \ {m}
    BY <1>1, BusyLeaves DEF Acting
  <1>3. PICK S \in SUBSET Views : S = Counted(d)
    BY DEF Counted, TypeOK
  <1>4. /\ \A v \in S : codes'[v] = [state |-> AfterWrongTry(codes[v].tries + 1),
                                      expired |-> codes[v].expired, tries |-> codes[v].tries + 1]
        /\ \A v \in Views \ S : codes'[v] = codes[v]
    BY <1>3 DEF RecordWrongTry
  <1>5. \A v \in S : Open(v) /\ receipts[v].person = said[m].person
    BY <1>2, <1>3 DEF Counted, TriesInv, CountsItsOwn, Message
  <1>6. \A v \in Views : codes[v].tries \in Nat /\ (Open(v) => codes[v].tries < MaxWrongTries)
    <2> SUFFICES ASSUME NEW v \in Views
                 PROVE  codes[v].tries \in Nat /\ (Open(v) => codes[v].tries < MaxWrongTries)
      OBVIOUS
    <2>1. codes[v].tries \in 0..MaxWrongTries
      BY DEF TypeOK, CodeRows
    <2>2. Open(v) => codes[v].tries # MaxWrongTries
      BY DEF Open, CodeInv, LockedAtTheLimit
    <2> QED BY <2>1, <2>2
  <1>7. \A v \in S : /\ codes'[v].tries = codes[v].tries + 1 /\ codes'[v].expired = codes[v].expired
                     /\ codes[v].tries + 1 = MaxWrongTries => codes'[v].state = "locked"
                     /\ codes[v].tries + 1 # MaxWrongTries => codes'[v].state = "open"
    <2> SUFFICES ASSUME NEW v \in S
                 PROVE  /\ codes'[v].tries = codes[v].tries + 1 /\ codes'[v].expired = codes[v].expired
                        /\ codes[v].tries + 1 = MaxWrongTries => codes'[v].state = "locked"
                        /\ codes[v].tries + 1 # MaxWrongTries => codes'[v].state = "open"
      OBVIOUS
    <2>1. PICK k \in Nat : k = codes[v].tries /\ k < MaxWrongTries
      BY <1>5, <1>6
    <2>2. /\ k + 1 = MaxWrongTries => AfterWrongTry(k + 1) = "locked"
          /\ k + 1 # MaxWrongTries => AfterWrongTry(k + 1) = "open"
      BY <2>1 DEF AfterWrongTry
    <2>3. codes'[v] = [state |-> AfterWrongTry(k + 1), expired |-> codes[v].expired,
                       tries |-> k + 1]
      BY <1>4, <2>1
    <2> QED BY <2>1, <2>2, <2>3
  <1>8. Meant[m] = {} /\ UNCHANGED <<Sender, Meant, Outcome>>
    BY <1>1, <1>2 DEF TriesInv, CountsItsOwn, Message, Sender, Meant, Outcome
  <1>9. Owner' = Owner /\ Topic' = Topic
    BY <1>4, <1>5, OwnersStand DEF Open
  <1>10. \A v \in S : Codebook!Open(v) /\ Owner[v] = Sender[m]
    <2>1. ASSUME NEW v \in S PROVE Life[v] \in {"usable", "expired"}
      BY <1>5 DEF Life
    <2>2. ASSUME NEW v \in S PROVE Owner[v] = Sender[m]
      <3>1. receipts[v].person \in People
        BY <1>5 DEF Open, CodeInv, CodesHaveReceipts
      <3> QED BY <1>5, <3>1 DEF Open, Owner, Sender
    <2> QED BY <2>1, <2>2 DEF Codebook!Open, Life
  <1>11. Tries' = [v \in Views |-> IF v \in S THEN Tries[v] + 1 ELSE Tries[v]]
    <2>1. \A v \in Views : Tries'[v] = IF v \in S THEN Tries[v] + 1 ELSE Tries[v]
      BY <1>4, <1>7 DEF Tries
    <2> QED BY <2>1 DEF Tries
  <1>12. Life' = [v \in Views |-> IF v \in S /\ Tries[v] + 1 = MaxWrongTries THEN "locked"
                                  ELSE Life[v]]
    <2>1. ASSUME NEW v \in S, Tries[v] + 1 = MaxWrongTries PROVE Life'[v] = "locked"
      BY <1>7, <2>1 DEF Life, Open, Tries
    <2>2. ASSUME NEW v \in S, Tries[v] + 1 # MaxWrongTries PROVE Life'[v] = Life[v]
      BY <1>5, <1>7, <2>2 DEF Life, Open, Tries
    <2>3. ASSUME NEW v \in Views \ S PROVE Life'[v] = Life[v]
      BY <1>4 DEF Life, Open
    <2> QED BY <2>1, <2>2, <2>3 DEF Life
  <1>13. Codebook!Strike(m, S)
    BY <1>2, <1>8, <1>9, <1>10, <1>11, <1>12
       DEF Codebook!Strike, Life, Owner, Topic, Tries, Sender, Meant, Busy, Outcome
  <1> QED BY <1>13 DEF Codebook!Next

\* The unit of work of decide spends the code that the message named.
LEMMA CodeSpent ==
    ASSUME TypeOK, CodeInv, TriesInv, CodesAreTheirs, [Next]_vars, NEW d \in Deliveries,
           Decide(d), ~UNCHANGED <<codes, requests>>
    PROVE  Codebook!Next
  <1> USE ChatAssumption
  <1>1. /\ dpc[d] = "checked" /\ GotoD(d, "settle") /\ UNCHANGED <<said, carries>>
    BY DEF Decide, Finish
  <1>2. PICK m \in Messages : m = carries[d] /\ m \in Busy /\ Busy' = Busy \ {m}
    BY <1>1, BusyLeaves DEF Acting
  <1>3. PICK v \in Views, a \in Approvals :
           /\ v = code[d] /\ a = receipts[v].approval /\ Usable(v) /\ requests[a].by = NoOne
           /\ codes' = [codes EXCEPT ![v].state = "used"]
           /\ requests' = [requests EXCEPT ![a] =
                             [status |-> "decided", version |-> requests[a].version + 1,
                              by |-> v]]
    <2>1. PendingIsFirst /\ CodesHaveReceipts /\ DeliveriesHoldTheirs
      BY DEF CodeInv
    <2> QED BY <2>1, SpendEffect
  <1>4. /\ codes'[v] = [codes[v] EXCEPT !.state = "used"] /\ codes[v] \in CodeRows
        /\ \A w \in Views \ {v} : codes'[w] = codes[w]
    BY <1>3 DEF TypeOK
  <1>5. codes'[v].state = "used" /\ codes'[v].tries = codes[v].tries
    BY <1>4 DEF CodeRows
  <1>6. receipts[v].person \in People /\ receipts[v].person = said[m].person
    BY <1>2, <1>3 DEF CodesAreTheirs, Message, CodeInv, CodesHaveReceipts, Usable, Open
  <1>7. Owner' = Owner /\ Topic' = Topic
    BY <1>3, <1>4, OwnersStand DEF Usable, Open
  <1>8. Sender' = Sender /\ Meant' = Meant
    BY <1>1 DEF Sender, Meant
  <1>9. Tries' = Tries
    <2>1. \A w \in Views : Tries'[w] = Tries[w]
      BY <1>4, <1>5 DEF Tries
    <2> QED BY <2>1 DEF Tries
  <1>10. Life[v] = "usable" /\ Life' = [Life EXCEPT ![v] = "used"]
    <2>1. Life[v] = "usable" /\ Life'[v] = "used"
      BY <1>3, <1>5 DEF Life, Usable, Open
    <2>2. \A w \in Views \ {v} : Life'[w] = Life[w]
      BY <1>4 DEF Life, Open
    <2> QED BY <2>1, <2>2 DEF Life
  <1>11. Outcome[a] = {} /\ Outcome' = [Outcome EXCEPT ![a] = {v}]
    <2>1. requests'[a].by = v /\ \A b \in Approvals \ {a} : requests'[b] = requests[b]
      BY <1>3 DEF TypeOK
    <2>2. Outcome[a] = {} /\ Outcome'[a] = {v}
      BY <1>3, <2>1 DEF Outcome
    <2>3. \A b \in Approvals \ {a} : Outcome'[b] = Outcome[b]
      BY <2>1 DEF Outcome
    <2> QED BY <2>2, <2>3 DEF Outcome
  <1>12. Owner[v] = Sender[m] /\ Topic[v] = {a}
    BY <1>3, <1>6 DEF Owner, Sender, Topic, Usable, Open
  <1>13. \A w \in Meant[m] : Life[w] = "usable" => w = v
    <2> SUFFICES ASSUME NEW w \in Meant[m], Life[w] = "usable" PROVE w = v
      OBVIOUS
    <2>1. w = said[m].meant /\ w \in Views
      BY DEF Meant, TypeOK, Sayings
    <2>2. Usable(w)
      BY <2>1 DEF Life, Usable, Open, TypeOK, CodeRows, Closed
    <2> QED BY <1>2, <1>3, <2>1, <2>2 DEF CodeInv, DecidesWhatWasMeant, Message
  <1>14. Codebook!Spend(m, v, a)
    BY <1>2, <1>7, <1>8, <1>9, <1>10, <1>11, <1>12, <1>13
       DEF Codebook!Spend, Life, Owner, Topic, Tries, Sender, Meant, Busy, Outcome
  <1> QED BY <1>14 DEF Codebook!Next

\* A command that ends with nothing written drops its message.
LEMMA MessageDropped ==
    ASSUME TypeOK, CodeInv, TriesInv, [Next]_vars, NEW d \in Deliveries, dpc[d] \in Acting,
           GotoD(d, "settle"), UNCHANGED <<codes, requests, said, carries>>
    PROVE  Codebook!Next
  <1>1. PICK m \in Messages : m \in Busy /\ Busy' = Busy \ {m}
    BY BusyLeaves
  <1>2. UNCHANGED <<Life, Owner, Topic, Tries, Sender, Meant, Outcome>>
    BY CodesStand DEF Sender, Meant, Outcome
  <1>3. Codebook!Drop(m)
    BY <1>1, <1>2
       DEF Codebook!Drop, Codebook!codeVars, Life, Owner, Topic, Tries, Sender, Meant, Busy, Outcome
  <1> QED BY <1>3 DEF Codebook!Next

LEMMA WebDecides ==
    ASSUME TypeOK, CodeInv, [Next]_vars, NEW a \in Approvals, DecideOnWeb(a)
    PROVE  Codebook!Next
  <1> USE ChatAssumption
  <1>1. /\ requests[a].by = NoOne /\ requests'[a].by = Web
        /\ \A b \in Approvals \ {a} : requests'[b] = requests[b]
        /\ UNCHANGED <<codes, said, carries, dpc>>
    BY DEF DecideOnWeb, Decided, CodeInv, PendingIsFirst, TypeOK, chatVars
  <1>2. Outcome[a] = {} /\ Outcome' = [Outcome EXCEPT ![a] = {Web}]
    <2>1. Outcome[a] = {} /\ Outcome'[a] = {Web}
      BY <1>1 DEF Outcome
    <2>2. \A b \in Approvals \ {a} : Outcome'[b] = Outcome[b]
      BY <1>1 DEF Outcome
    <2> QED BY <2>1, <2>2 DEF Outcome
  <1>3. UNCHANGED <<Life, Owner, Topic, Tries, Sender, Meant, Busy>>
    BY <1>1, CodesStand DEF Sender, Meant, Busy
  <1>4. Codebook!DecideOnWeb(a)
    BY <1>2, <1>3 DEF Codebook!DecideOnWeb, Codebook!codeVars, Life, Owner, Topic, Tries, Sender,
                      Meant, Busy, Outcome
  <1> QED BY <1>4 DEF Codebook!Next

LEMMA StepKeepsCodes ==
    ASSUME TypeOK, CodeInv, TriesInv, CodesAreTheirs, [Next]_vars
    PROVE  Codebook!Next \/ UNCHANGED <<Life, Owner, Topic, Tries, Sender, Meant, Busy, Outcome>>
  <1> DEFINE Kept == Codebook!Next
                       \/ UNCHANGED <<Life, Owner, Topic, Tries, Sender, Meant, Busy, Outcome>>
  <1>1. ASSUME UNCHANGED <<codes, requests, said>>, Busy' = Busy PROVE Kept
    <2>1. UNCHANGED <<Life, Owner, Topic, Tries, Sender, Meant, Outcome>>
      BY <1>1, CodesStand DEF Sender, Meant, Outcome
    <2> QED BY <1>1, <2>1
  <1>2. ASSUME UNCHANGED <<codes, requests, said, carries, dpc>> PROVE Kept
    BY <1>1, <1>2 DEF Busy
  <1>3. ASSUME NEW d \in Deliveries, NEW step, GotoD(d, step),
               dpc[d] \in Acting <=> step \in Acting, UNCHANGED <<codes, requests, said, carries>>
        PROVE  Kept
    BY <1>1, <1>3, BusyStands
  <1>4. ASSUME NEW v \in Views, NEW p \in People, NEW a \in Approvals, View(v, p, a) PROVE Kept
    BY <1>2, <1>4 DEF View, requestVars, chatVars
  <1>5. ASSUME NEW v \in Views, NEW x \in Digits, FreshCode(v, x) PROVE Kept
    BY <1>2, <1>5 DEF FreshCode, requestVars, chatVars
  <1>6. ASSUME NEW v \in Views, ReadSubject(v) \/ RevokeOpen(v) PROVE Kept
    BY <1>2, <1>6 DEF ReadSubject, RevokeOpen, requestVars, chatVars
  <1>7. ASSUME NEW v \in Views, RecordView(v) PROVE Kept
    <2>1. CASE codes' # codes
      BY <1>7, <2>1, CodeIssued
    <2>2. CASE codes' = codes
      BY <1>2, <1>7, <2>2 DEF RecordView, requestVars, chatVars
    <2> QED BY <2>1, <2>2
  <1>8. ASSUME NEW v \in Views, Expire(v) PROVE Kept
    BY <1>8, CodeExpires
  <1>9. ASSUME NEW d \in Deliveries, NEW m \in Messages, Skip(d, m) PROVE Kept
    BY <1>3, <1>9 DEF Skip, requestVars, Acting
  <1>10. ASSUME NEW d \in Deliveries, NEW m \in Messages, NEW p \in People, NEW x \in Digits,
                NEW v \in Views \cup {NoOne}, Claim(d, m, p, x, v)
         PROVE  Kept
    BY <1>10, MessageHeard
  <1>11. ASSUME NEW d \in Deliveries, MatchCode(d) PROVE Kept
    <2>1. dpc[d] \in Acting /\ UNCHANGED <<codes, requests, said, carries>>
      BY <1>11 DEF MatchCode, Acting, requestVars
    <2>2. CASE GotoD(d, "settle")
      BY <2>1, <2>2, MessageDropped
    <2>3. CASE GotoD(d, "wrong") \/ GotoD(d, "matched")
      BY <1>3, <2>1, <2>3 DEF Acting
    <2> QED BY <1>11, <2>2, <2>3 DEF MatchCode
  <1>12. ASSUME NEW d \in Deliveries, SelectOpen(d) PROVE Kept
    BY <1>3, <1>12 DEF SelectOpen, requestVars, Acting
  <1>13. ASSUME NEW d \in Deliveries, RecordWrongTry(d) PROVE Kept
    BY <1>13, TryStrikes
  <1>14. ASSUME NEW d \in Deliveries, CodedApproval(d) \/ CheckSubject(d) PROVE Kept
    <2>1. dpc[d] \in Acting /\ UNCHANGED <<codes, requests, said, carries>>
      BY <1>14 DEF CodedApproval, CheckSubject, Acting, requestVars
    <2>2. CASE GotoD(d, "settle")
      BY <2>1, <2>2, MessageDropped
    <2>3. CASE GotoD(d, "pending") \/ GotoD(d, "checked")
      BY <1>3, <2>1, <2>3 DEF Acting
    <2> QED BY <1>14, <2>2, <2>3 DEF CodedApproval, CheckSubject, Finish
  <1>15. ASSUME NEW d \in Deliveries, Decide(d) PROVE Kept
    <2>1. CASE UNCHANGED <<codes, requests>>
      BY <1>15, <2>1, MessageDropped DEF Decide, Finish, Acting
    <2>2. CASE ~UNCHANGED <<codes, requests>>
      BY <1>15, <2>2, CodeSpent
    <2> QED BY <2>1, <2>2
  <1>16. ASSUME NEW d \in Deliveries, GiveUp(d) PROVE Kept
    BY <1>16, MessageDropped DEF GiveUp, Finish, requestVars
  <1>17. ASSUME NEW d \in Deliveries, Settle(d) PROVE Kept
    BY <1>3, <1>17 DEF Settle, requestVars, Acting
  <1>18. ASSUME NEW a \in Approvals, DecideOnWeb(a) PROVE Kept
    BY <1>18, WebDecides
  <1>19. ASSUME NEW a \in Approvals, EditSubject(a) PROVE Kept
    BY <1>2, <1>19 DEF EditSubject, chatVars
  <1>20. CASE UNCHANGED vars
    BY <1>2, <1>20 DEF vars
  <1> HIDE DEF Kept
  <1>21. Kept
    BY <1>4, <1>5, <1>6, <1>7, <1>8, <1>9, <1>10, <1>11, <1>12, <1>13, <1>14, <1>15, <1>16, <1>17,
       <1>18, <1>19, <1>20 DEF Next, Kept
  <1> QED BY <1>21 DEF Kept

\* The views of the portal, the inbound messages and decide implement CodeContract:
\* one open code per card, every message acted on once, with a code of its sender and
\* the one that was meant while that is usable, and every approval decided once,
\* whatever calls overlap and wherever each of them stops.
THEOREM ImplementsCodes == Spec => KeepsCodes
  <1>1. Init => Codebook!Init
    <2> SUFFICES ASSUME Init PROVE Codebook!Init
      OBVIOUS
    <2>1. \A v \in Views : codes[v].state = "none" /\ codes[v].tries = 0 /\ ~Open(v)
      BY DEF Init, Open
    <2>2. \A m \in Messages : {said[m].person} \ {NoOne} = {} /\ {said[m].meant} \ {NoOne} = {}
      BY DEF Init
    <2>3. \A a \in Approvals : {requests[a].by} \ {NoOne} = {}
      BY DEF Init
    <2>4. \A d \in Deliveries : dpc[d] \notin Acting
      BY DEF Init, Acting
    <2> QED BY <2>1, <2>2, <2>3, <2>4 DEF Codebook!Init
  <1>2. TypeOK /\ CodeInv /\ TriesInv /\ CodesAreTheirs /\ [Next]_vars
          => [Codebook!Next]_(Codebook!vars)
    <2> SUFFICES ASSUME TypeOK, CodeInv, TriesInv, CodesAreTheirs, [Next]_vars
                 PROVE  [Codebook!Next]_(Codebook!vars)
      OBVIOUS
    <2>1. UNCHANGED <<Life, Owner, Topic, Tries, Sender, Meant, Busy, Outcome>>
            => UNCHANGED Codebook!vars
      BY DEF Codebook!vars, Life, Owner, Topic, Tries, Sender, Meant, Busy, Outcome
    <2> QED BY <2>1, StepKeepsCodes
  <1> QED
    BY <1>1, <1>2, CodesInOrder, TriesInOrder, TheirsOnly, PTL DEF Spec, KeepsCodes, Codebook!Spec

=============================================================================

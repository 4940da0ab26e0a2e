----------------------- MODULE HttpIdempotencyProofs -----------------------
(* Theorems about HttpIdempotency, for any requests, keys and fingerprints. *)
EXTENDS HttpIdempotency, TLAPS

LEMMA TypeStep == TypeOK /\ [Next]_vars => TypeOK'
  <1> SUFFICES ASSUME TypeOK, [Next]_vars PROVE TypeOK'
    OBVIOUS
  <1> USE RequestAssumption DEF TypeOK, Goto, Steps
  <1>1. ASSUME NEW x \in Requests, NEW row \in Rows, SetRow(x, row)
        PROVE  keys' \in [Keys -> Rows]
    BY <1>1 DEF SetRow
  <1>2. ASSUME NEW x \in Requests, NEW print \in Prints \cup {NoOne}
        PROVE  Reservation(x, print) \in Rows
    BY <1>2 DEF Reservation, Rows, UnderWay
  <1>3. \A x \in Requests : Row(x) \in Rows
    BY DEF Row
  <1>4. ASSUME NEW x \in Requests, Insert(x) PROVE TypeOK'
    <2>1. CASE Row(x).state = "absent"
      BY <1>1, <1>2, <1>4, <2>1 DEF Insert
    <2>2. CASE Row(x).state # "absent"
      BY <1>4, <2>2 DEF Insert
    <2> QED BY <2>1, <2>2
  <1>5. ASSUME NEW x \in Requests, Select(x) PROVE TypeOK'
    <2>1. Row(x).answer \in Requests \cup {NoOne}
      BY <1>3 DEF Rows
    <2> QED BY <1>5, <2>1 DEF Select
  <1>6. ASSUME NEW x \in Requests, TakeOver(x) PROVE TypeOK'
    <2>1. Row(x).print \in Prints \cup {NoOne}
      BY <1>3 DEF Rows
    <2>2. CASE Abandoned(x)
      BY <1>1, <1>2, <1>6, <2>1, <2>2 DEF TakeOver
    <2>3. CASE ~Abandoned(x)
      BY <1>6, <2>3 DEF TakeOver
    <2> QED BY <2>2, <2>3
  <1>7. ASSUME NEW x \in Requests, HandlerActs(x) \/ HandlerRaises(x) PROVE TypeOK'
    BY <1>7 DEF HandlerActs, HandlerRaises
  <1>8. ASSUME NEW x \in Requests, Complete(x) PROVE TypeOK'
    <2>1. CASE Row(x).state = "open"
      <3>1. [state |-> "done", print |-> Row(x).print, holder |-> Row(x).holder, answer |-> x,
             stale |-> Row(x).stale, during |-> Row(x).during] \in Rows
        BY <1>3 DEF Rows
      <3> QED BY <1>1, <1>8, <2>1, <3>1 DEF Complete
    <2>2. CASE Row(x).state # "open"
      BY <1>8, <2>2 DEF Complete
    <2> QED BY <2>1, <2>2
  <1>9. ASSUME NEW x \in Requests, Release(x) PROVE TypeOK'
    <2>1. CASE Row(x).state = "open"
      <3>1. [state |-> "absent", print |-> NoOne, holder |-> Row(x).holder, answer |-> NoOne,
             stale |-> FALSE, during |-> {}] \in Rows
        BY <1>3 DEF Rows
      <3> QED BY <1>1, <1>9, <2>1, <3>1 DEF Release
    <2>2. CASE Row(x).state # "open"
      BY <1>9, <2>2 DEF Release
    <2> QED BY <2>1, <2>2
  <1>10. ASSUME NEW x \in Requests, StoreFails(x) \/ Crash(x) PROVE TypeOK'
    BY <1>10 DEF StoreFails, Crash
  <1>11. ASSUME NEW k \in Keys, Age(k) PROVE TypeOK'
    BY <1>11 DEF Age, Rows
  <1>12. CASE UNCHANGED vars
    BY <1>12 DEF vars
  <1> QED
    BY <1>4, <1>5, <1>6, <1>7, <1>8, <1>9, <1>10, <1>11, <1>12 DEF Next

\* The variables keep their types.
THEOREM TypeCorrect == Spec => []TypeOK
  <1>1. Init => TypeOK
    BY DEF Init, TypeOK, Rows, Steps
  <1> QED BY <1>1, TypeStep, PTL DEF Spec

\* No step of any request or of the clock writes a row that has its answer: a
\* completion or release that comes late finds completed_at set.
THEOREM AnswerFinal == Spec => AnswerIsFinal
  <1>1. ASSUME TypeOK, [Next]_vars, NEW k \in Keys, keys[k].state = "done"
        PROVE  keys'[k] = keys[k]
    <2>1. ASSUME NEW x \in Requests, Insert(x) \/ TakeOver(x) \/ Complete(x) \/ Release(x)
          PROVE  keys'[k] = keys[k]
      BY <1>1, <2>1 DEF Insert, TakeOver, Abandoned, Complete, Release, SetRow, Row, TypeOK
    <2>2. ASSUME NEW x \in Requests, Select(x) \/ HandlerActs(x) \/ HandlerRaises(x)
                                     \/ StoreFails(x) \/ Crash(x)
          PROVE  keys'[k] = keys[k]
      BY <2>2 DEF Select, HandlerActs, HandlerRaises, StoreFails, Crash
    <2>3. ASSUME NEW j \in Keys, Age(j) PROVE keys'[k] = keys[k]
      BY <1>1, <2>3 DEF Age, TypeOK
    <2> QED BY <1>1, <2>1, <2>2, <2>3 DEF Next, vars
  <1>2. TypeOK /\ [Next]_vars =>
          [\A k \in Keys : keys[k].state = "done" => keys'[k] = keys[k]]_vars
    BY <1>1
  <1> QED BY <1>2, TypeCorrect, PTL DEF Spec, AnswerIsFinal

\* Every step keeps a request's effect and answer in their order.
LEMMA LastStep == TypeOK /\ AnswersLast /\ [Next]_vars => AnswersLast'
  <1> SUFFICES ASSUME TypeOK, AnswersLast, [Next]_vars PROVE AnswersLast'
    OBVIOUS
  <1> USE RequestAssumption DEF TypeOK, Goto, AnswersLast
  <1>1. ASSUME NEW x \in Requests, Insert(x) \/ TakeOver(x) PROVE AnswersLast'
    BY <1>1 DEF Insert, TakeOver
  <1>2. ASSUME NEW x \in Requests, Select(x) PROVE AnswersLast'
    BY <1>2 DEF Select
  <1>3. ASSUME NEW x \in Requests, HandlerActs(x) PROVE AnswersLast'
    BY <1>3 DEF HandlerActs
  <1>4. ASSUME NEW x \in Requests, HandlerRaises(x) \/ Release(x) PROVE AnswersLast'
    BY <1>4 DEF HandlerRaises, Release
  <1>5. ASSUME NEW x \in Requests, Complete(x) PROVE AnswersLast'
    BY <1>5 DEF Complete
  <1>6. ASSUME NEW x \in Requests, StoreFails(x) \/ Crash(x) PROVE AnswersLast'
    BY <1>6 DEF StoreFails, Crash, Live
  <1>7. ASSUME NEW k \in Keys, Age(k) PROVE AnswersLast'
    BY <1>7 DEF Age
  <1>8. CASE UNCHANGED vars
    BY <1>8 DEF vars
  <1> QED BY <1>1, <1>2, <1>3, <1>4, <1>5, <1>6, <1>7, <1>8 DEF Next

\* A request that only moves, and holds afterwards only what it held before,
\* keeps the invariant.
LEMMA MoveStep ==
    ASSUME TypeOK, KeyInv, NEW x \in Requests, NEW step \in Steps \ {"idle"}, Goto(x, step),
           UNCHANGED <<keys, env>>, pc[x] # "ended",
           step \in Holding => pc[x] \in Holding,
           step = "takeover" => Row(x).print = PrintOf[x],
           Prompt => ReplayAnswersTheSameRequest', AnswersLast'
    PROVE  KeyInv'
  <1> USE RequestAssumption DEF TypeOK, Goto, Row
  <1>1. DuringStarted'
    BY DEF KeyInv, DuringStarted
  <1>2. ASSUME Prompt PROVE HoldersHold' /\ StaleIsDead' /\ PrintsAgree' /\ TakerAgrees'
    <2>1. HoldersHold'
      BY <1>2 DEF KeyInv, HoldersHold
    <2>2. StaleIsDead'
      BY <1>2 DEF KeyInv, StaleIsDead
    <2>3. PrintsAgree'
      BY <1>2 DEF KeyInv, PrintsAgree
    <2>4. TakerAgrees'
      BY <1>2 DEF KeyInv, TakerAgrees
    <2> QED BY <2>1, <2>2, <2>3, <2>4
  <1>3. Prompt' = Prompt
    BY DEF Prompt
  <1> QED BY <1>1, <1>2, <1>3 DEF KeyInv

\* A request that stamps the row of its key with its own fingerprint keeps the
\* invariant, when nobody holds that key.
LEMMA ClaimStep ==
    ASSUME TypeOK, KeyInv, AnswersLast', NEW x \in Requests, NEW print \in Prints \cup {NoOne},
           SetRow(x, Reservation(x, print)), Goto(x, "handler"), UNCHANGED <<got, env>>,
           pc[x] # "ended",
           Prompt => /\ print = PrintOf[x]
                     /\ \A y \in Requests : KeyOf[y] = KeyOf[x] => pc[y] \notin Holding
    PROVE  KeyInv'
  <1> USE RequestAssumption DEF TypeOK, Goto
  <1> DEFINE k == KeyOf[x]
  <1>1. /\ keys'[k] = [state |-> "open", print |-> print, holder |-> x, answer |-> NoOne,
                       stale |-> FALSE, during |-> UnderWay \cup {x}]
        /\ \A j \in Keys : j # k => keys'[j] = keys[j]
    BY DEF SetRow, Reservation
  <1>2. pc'[x] = "handler" /\ \A y \in Requests : y # x => pc'[y] = pc[y]
    OBVIOUS
  <1>3. DuringStarted'
    <2>1. ASSUME NEW y \in UnderWay \cup {x} PROVE pc'[y] # "idle"
      BY <1>2 DEF UnderWay, Live
    <2> QED BY <1>1, <1>2, <2>1 DEF KeyInv, DuringStarted, Rows
  <1>4. ASSUME Prompt PROVE HoldersHold'
    <2>1. \A y \in Requests : y # x /\ pc[y] \in Holding => KeyOf[y] \in Keys \ {k}
      BY <1>4
    <2>2. \A y \in Requests : y # x /\ pc[y] \in Holding => Row(y)' = Row(y)
      BY <1>1, <2>1 DEF Row
    <2>3. /\ Row(x)'.state = "open" /\ ~Row(x)'.stale
          /\ Row(x)'.holder = x /\ x \in Row(x)'.during
      BY <1>1 DEF Row
    <2> QED BY <1>2, <1>4, <2>2, <2>3 DEF KeyInv, HoldersHold
  <1>5. ASSUME Prompt PROVE StaleIsDead'
    BY <1>1, <1>2, <1>5 DEF KeyInv, StaleIsDead, Rows
  <1>6. ASSUME Prompt PROVE PrintsAgree'
    BY <1>1, <1>6 DEF KeyInv, PrintsAgree
  <1>7. ASSUME Prompt PROVE TakerAgrees'
    <2> SUFFICES ASSUME NEW y \in Requests, pc'[y] = "takeover", Row(y)'.state = "open",
                        y \notin Row(y)'.during
                 PROVE  Row(y)'.print = PrintOf[y]
      BY DEF TakerAgrees
    <2>1. y # x /\ pc[y] = "takeover"
      BY <1>2
    <2>2. KeyOf[y] # k
      BY <1>1, <2>1 DEF Row, UnderWay, Live
    <2>3. Row(y)' = Row(y)
      BY <1>1, <2>2 DEF Row
    <2> QED BY <1>7, <2>1, <2>3 DEF KeyInv, TakerAgrees
  <1>8. ASSUME Prompt PROVE ReplayAnswersTheSameRequest'
    BY <1>8 DEF KeyInv, ReplayAnswersTheSameRequest, Prompt
  <1> QED BY <1>3, <1>4, <1>5, <1>6, <1>7, <1>8 DEF KeyInv, Prompt

\* A holder that settles the row of its key and ends keeps the invariant.
LEMMA SettleStep ==
    ASSUME TypeOK, KeyInv, AnswersLast', NEW x \in Requests, Complete(x) \/ Release(x)
    PROVE  KeyInv'
  <1> USE RequestAssumption DEF TypeOK, Goto
  <1> DEFINE k == KeyOf[x]
  <1>1. /\ pc[x] \in Holding /\ env' = env
        /\ pc'[x] = "ended" /\ \A y \in Requests : y # x => pc'[y] = pc[y]
    BY DEF Complete, Release, Holding
  <1>2. /\ \A j \in Keys : j # k => keys'[j] = keys[j]
        /\ keys'[k].during \subseteq keys[k].during
        /\ keys'[k].stale => keys[k].stale
        /\ keys'[k].state = "open" => keys'[k] = keys[k]
    BY DEF Complete, Release, SetRow, Row
  <1>3. DuringStarted'
    BY <1>1, <1>2 DEF KeyInv, DuringStarted, Rows
  <1>4. ASSUME Prompt PROVE HoldersHold'
    <2> SUFFICES ASSUME NEW y \in Requests, pc'[y] \in Holding
                 PROVE  /\ Row(y)'.state = "open" /\ ~Row(y)'.stale
                        /\ Row(y)'.holder = y /\ y \in Row(y)'.during
      BY DEF HoldersHold
    <2>1. y # x /\ pc[y] \in Holding
      BY <1>1 DEF Holding
    <2>2. Row(y).holder = y /\ Row(x).holder = x
      BY <1>1, <1>4, <2>1 DEF KeyInv, HoldersHold
    <2>3. KeyOf[y] # k
      BY <2>1, <2>2 DEF Row
    <2> QED BY <1>2, <1>4, <2>1, <2>3 DEF KeyInv, HoldersHold, Row
  <1>5. ASSUME Prompt PROVE StaleIsDead'
    BY <1>1, <1>2, <1>5 DEF KeyInv, StaleIsDead, Rows
  <1>6. ASSUME Prompt PROVE PrintsAgree'
    <2>1. keys[k].print = PrintOf[x]
      BY <1>1, <1>6 DEF KeyInv, HoldersHold, PrintsAgree, Row
    <2>2. keys'[k].state = "done" => keys'[k].answer \in Requests
                                     /\ keys'[k].print = PrintOf[keys'[k].answer]
      BY <1>6, <2>1 DEF Complete, Release, SetRow, Row, KeyInv, PrintsAgree
    <2> QED BY <1>2, <1>6, <2>2 DEF KeyInv, PrintsAgree
  <1>7. ASSUME Prompt PROVE TakerAgrees'
    BY <1>1, <1>2, <1>7 DEF KeyInv, TakerAgrees, Row
  <1>8. ASSUME Prompt PROVE ReplayAnswersTheSameRequest'
    BY <1>8 DEF KeyInv, ReplayAnswersTheSameRequest, Prompt, Complete, Release
  <1> QED BY <1>1, <1>3, <1>4, <1>5, <1>6, <1>7, <1>8 DEF KeyInv, Prompt

LEMMA KeyStep == TypeOK /\ KeyInv /\ [Next]_vars => KeyInv'
  <1> SUFFICES ASSUME TypeOK, KeyInv, [Next]_vars PROVE KeyInv'
    OBVIOUS
  <1> USE RequestAssumption
  <1>1. \A x \in Requests : Row(x) \in Rows
    BY DEF Row, TypeOK
  <1>0. AnswersLast'
    BY LastStep DEF KeyInv
  <1>2. UNCHANGED <<got, env>> => (Prompt => ReplayAnswersTheSameRequest')
    BY DEF KeyInv, ReplayAnswersTheSameRequest, Prompt
  <1>3. ASSUME NEW x \in Requests, Insert(x) PROVE KeyInv'
    <2>1. CASE Row(x).state = "absent"
      <3>1. Prompt => \A y \in Requests : KeyOf[y] = KeyOf[x] => pc[y] \notin Holding
        BY <2>1 DEF KeyInv, HoldersHold, Row
      <3> QED BY <1>0, <1>3, <2>1, <3>1, ClaimStep DEF Insert
    <2>2. CASE Row(x).state # "absent"
      BY <1>0, <1>2, <1>3, <2>2, MoveStep DEF Insert, Steps, Holding
    <2> QED BY <2>1, <2>2
  <1>4. ASSUME NEW x \in Requests, Select(x) PROVE KeyInv'
    <2>1. Prompt => ReplayAnswersTheSameRequest'
      BY <1>1, <1>4 DEF Select, KeyInv, ReplayAnswersTheSameRequest, PrintsAgree, Prompt, Row, TypeOK
    <2> QED BY <1>0, <1>4, <2>1, MoveStep DEF Select, Steps, Holding
  <1>5. ASSUME NEW x \in Requests, TakeOver(x) PROVE KeyInv'
    <2>1. CASE Abandoned(x)
      <3>1. Prompt => \A y \in Requests : KeyOf[y] = KeyOf[x] => pc[y] \notin Holding
        BY <2>1 DEF Abandoned, KeyInv, HoldersHold, Row
      <3>2. Prompt => x \notin Row(x).during
        BY <1>5, <2>1 DEF TakeOver, Abandoned, KeyInv, StaleIsDead, Row
      <3>3. Prompt => Row(x).print = PrintOf[x]
        BY <1>5, <2>1, <3>2 DEF TakeOver, Abandoned, KeyInv, TakerAgrees
      <3>4. Row(x).print \in Prints \cup {NoOne}
        BY <1>1 DEF Rows
      <3> QED BY <1>0, <1>5, <2>1, <3>1, <3>3, <3>4, ClaimStep DEF TakeOver
    <2>2. CASE ~Abandoned(x)
      BY <1>0, <1>2, <1>5, <2>2, MoveStep DEF TakeOver, Steps, Holding
    <2> QED BY <2>1, <2>2
  <1>6. ASSUME NEW x \in Requests, HandlerActs(x) \/ HandlerRaises(x) PROVE KeyInv'
    BY <1>0, <1>2, <1>6, MoveStep DEF HandlerActs, HandlerRaises, Steps, Holding
  <1>7. ASSUME NEW x \in Requests, Complete(x) \/ Release(x) PROVE KeyInv'
    BY <1>0, <1>7, SettleStep
  <1>8. ASSUME NEW x \in Requests, StoreFails(x) \/ Crash(x) PROVE KeyInv'
    BY <1>0, <1>2, <1>8, MoveStep DEF StoreFails, Crash, Live, Steps, Holding
  <1>9. ASSUME NEW k \in Keys, Age(k) PROVE KeyInv'
    <2>1. /\ \A j \in Keys : j # k => keys'[j] = keys[j]
          /\ keys'[k].state = keys[k].state /\ keys'[k].print = keys[k].print
          /\ keys'[k].holder = keys[k].holder /\ keys'[k].during = keys[k].during
          /\ keys[k].state = "open" /\ UNCHANGED <<pc, got, env>>
      BY <1>9 DEF Age, TypeOK
    <2>2. DuringStarted'
      BY <2>1 DEF KeyInv, DuringStarted
    <2>3. ASSUME Prompt PROVE \A x \in keys[k].during : pc[x] = "ended"
      BY <1>9, <2>3 DEF Age, Prompt, Live, KeyInv, DuringStarted
    <2>4. ASSUME Prompt PROVE HoldersHold'
      <3>1. \A x \in Requests : KeyOf[x] = k => pc[x] \notin Holding
        BY <2>3, <2>4 DEF KeyInv, HoldersHold, Holding, Row
      <3> QED BY <2>1, <2>4, <3>1 DEF KeyInv, HoldersHold, Row
    <2>5. ASSUME Prompt PROVE StaleIsDead'
      BY <2>1, <2>3, <2>5 DEF KeyInv, StaleIsDead
    <2>6. ASSUME Prompt PROVE PrintsAgree' /\ TakerAgrees'
      BY <2>1, <2>6 DEF KeyInv, PrintsAgree, TakerAgrees, Row
    <2> QED BY <1>0, <1>2, <2>1, <2>2, <2>4, <2>5, <2>6 DEF KeyInv, Prompt
  <1>10. CASE UNCHANGED vars
    BY <1>0, <1>10 DEF vars, KeyInv, DuringStarted, HoldersHold, StaleIsDead, PrintsAgree, TakerAgrees,
       ReplayAnswersTheSameRequest, Prompt, Row
  <1> QED
    BY <1>3, <1>4, <1>5, <1>6, <1>7, <1>8, <1>9, <1>10 DEF Next

\* The invariant behind the theorems below.
THEOREM KeysInOrder == Spec => [](TypeOK /\ KeyInv)
  <1>1. Init => KeyInv
    BY RequestAssumption DEF Init, KeyInv, AnswersLast, DuringStarted, HoldersHold, StaleIsDead, PrintsAgree,
       TakerAgrees, ReplayAnswersTheSameRequest, Row, Holding
  <1> QED BY <1>1, KeyStep, TypeCorrect, PTL DEF Spec

\* Two handlers never run under one key while no request outlives
\* STALE_RESERVATION, whatever crashes and whatever statement fails.
THEOREM HandlersExclusive == Spec => []HandlerExclusive
  <1>1. KeyInv => HandlerExclusive
    BY DEF KeyInv, HoldersHold, HandlerExclusive, Row
  <1> QED BY <1>1, KeysInOrder, PTL

\* A replayed answer answers the same method, path, workspace and body.
THEOREM ReplaySame == Spec => []ReplayAnswersTheSameRequest
  <1>1. KeyInv => ReplayAnswersTheSameRequest
    BY DEF KeyInv, ReplayAnswersTheSameRequest
  <1> QED BY <1>1, KeysInOrder, PTL

\* Under a key whose answer is stored no handler acts again.
THEOREM SpentKey == Spec => SpentKeyNeverActs
  <1>1. TypeOK /\ KeyInv /\ [Next]_vars =>
          [Prompt => \A x \in acted' \ acted : Row(x).state # "done"]_vars
    <2> SUFFICES ASSUME TypeOK, KeyInv, [Next]_vars, Prompt, NEW x \in acted' \ acted
                 PROVE  Row(x).state # "done"
      OBVIOUS
    <2>1. x \in Requests /\ pc[x] = "handler"
      BY DEF Next, vars, Insert, Select, TakeOver, HandlerActs, HandlerRaises, Complete, Release,
         StoreFails, Crash, Age
    <2> QED BY <2>1 DEF KeyInv, HoldersHold, Holding
  <1> QED BY <1>1, KeysInOrder, PTL DEF Spec, SpentKeyNeverActs

\* Every step keeps what was done recorded, or about to be.
LEMMA ActedStep ==
    ASSUME TypeOK, KeyInv, ActedIsSpent, [Next]_vars
    PROVE  ActedIsSpent'
  <1> USE RequestAssumption DEF TypeOK, Goto
  <1>0. ASSUME env' = {} PROVE env = {} /\ HoldersHold /\ Prompt
    BY <1>0 DEF Next, vars, Insert, Select, TakeOver, HandlerActs, HandlerRaises, Complete, Release,
       StoreFails, Crash, Age, KeyInv, Prompt
  <1> SUFFICES ASSUME env' = {}, NEW x \in acted'
               PROVE  /\ (pc[x] = "record" \/ (pc[x] = "ended" /\ Row(x).state = "done"))'
                      /\ \A y \in acted' : KeyOf[x] = KeyOf[y] => x = y
    BY DEF ActedIsSpent, ActsOnce
  <1> DEFINE Spent(y) == pc[y] = "record" \/ (pc[y] = "ended" /\ Row(y).state = "done")
  <1>1. /\ env = {} /\ HoldersHold
        /\ \A y \in acted : Spent(y)
        /\ \A y, z \in acted : KeyOf[y] = KeyOf[z] => y = z
    BY <1>0 DEF ActedIsSpent, ActsOnce
  <1>2. \A y, z \in Requests :
           KeyOf[y] = KeyOf[z] /\ pc[y] \in Holding /\ pc[z] \in Holding => y = z
    BY <1>1 DEF HoldersHold, Row
  <1>3. ASSUME NEW y \in Requests, HandlerActs(y)
        PROVE  Spent(x)' /\ \A z \in acted' : KeyOf[x] = KeyOf[z] => x = z
    <2>1. \A z \in acted : KeyOf[z] = KeyOf[y] => z = y
      BY <1>1, <1>2, <1>3 DEF HandlerActs, HoldersHold, Holding, Row
    <2>2. Spent(x)'
      <3>1. pc'[y] = "record"
        BY <1>3 DEF HandlerActs
      <3>2. CASE x # y
        BY <1>1, <1>3, <3>2 DEF HandlerActs, Row
      <3>3. CASE x = y
        BY <3>1, <3>3
      <3> QED BY <3>2, <3>3
    <2>3. acted' = acted \cup {y}
      BY <1>3 DEF HandlerActs
    <2> QED BY <1>1, <2>1, <2>2, <2>3
  <1>4. ASSUME acted' = acted, Spent(x)'
        PROVE  Spent(x)' /\ \A z \in acted' : KeyOf[x] = KeyOf[z] => x = z
    BY <1>1, <1>4
  <1>5. ASSUME NEW y \in Requests, Insert(y) \/ Select(y) \/ TakeOver(y)
        PROVE  acted' = acted /\ Spent(x)'
    <2>1. acted' = acted /\ x \in acted /\ Spent(x) /\ pc[y] \in {"idle", "select", "takeover"}
      BY <1>1, <1>5 DEF Insert, Select, TakeOver
    <2>2. pc'[x] = pc[x]
      BY <1>5, <2>1 DEF Insert, Select, TakeOver
    <2>3. Row(x).state = "done" => Row(x)' = Row(x)
      BY <1>5, <2>1 DEF Insert, Select, TakeOver, Abandoned, Row, SetRow
    <2> QED BY <2>1, <2>2, <2>3
  <1>6. ASSUME NEW y \in Requests, Complete(y) PROVE acted' = acted /\ Spent(x)'
    <2>1. acted' = acted /\ x \in acted /\ Spent(x) /\ pc[y] = "record"
      BY <1>1, <1>6 DEF Complete
    <2>2. CASE x = y
      <3>1. Row(x).state = "open"
        BY <1>1, <2>1, <2>2 DEF HoldersHold, Holding
      <3> QED BY <1>6, <2>1, <2>2, <3>1 DEF Complete, SetRow, Row
    <2>3. CASE x # y
      <3>1. pc'[x] = pc[x]
        BY <1>6, <2>1, <2>3 DEF Complete
      <3>2. Row(x).state = "done" => Row(x)' = Row(x)
        BY <1>6, <2>1 DEF Complete, Row, SetRow
      <3> QED BY <2>1, <3>1, <3>2
    <2> QED BY <2>2, <2>3
  <1>7. ASSUME NEW y \in Requests, Release(y) \/ HandlerRaises(y)
        PROVE  acted' = acted /\ Spent(x)'
    <2>1. acted' = acted /\ x \in acted /\ Spent(x) /\ pc[y] \in {"abandon", "handler"}
      BY <1>1, <1>7 DEF Release, HandlerRaises
    <2>2. pc'[x] = pc[x]
      BY <1>7, <2>1 DEF Release, HandlerRaises
    <2>3. Row(x).state = "done" => Row(x)' = Row(x)
      BY <1>7, <2>1 DEF Release, HandlerRaises, Row, SetRow
    <2> QED BY <2>1, <2>2, <2>3
  <1>8. ASSUME NEW y \in Requests, StoreFails(y) \/ Crash(y) PROVE FALSE
    BY <1>1, <1>8 DEF StoreFails, Crash
  <1>9. ASSUME NEW k \in Keys, Age(k) PROVE acted' = acted /\ Spent(x)'
    BY <1>1, <1>9 DEF Age, Row
  <1>10. CASE UNCHANGED vars
    BY <1>1, <1>10 DEF vars, Row
  <1> QED
    BY <1>3, <1>4, <1>5, <1>6, <1>7, <1>8, <1>9, <1>10 DEF Next

\* Without faults a key is acted on at most once, however many requests carry it
\* and however many handlers raise before one commits.
THEOREM ActedOnce == Spec => []ActsOnce
  <1>1. Init => ActedIsSpent
    BY DEF Init, ActedIsSpent, ActsOnce
  <1>2. TypeOK /\ KeyInv /\ ActedIsSpent /\ [Next]_vars => ActedIsSpent'
    BY ActedStep
  <1>3. ActedIsSpent => ActsOnce
    BY DEF ActedIsSpent
  <1> QED BY <1>1, <1>2, <1>3, KeysInOrder, PTL DEF Spec

-----------------------------------------------------------------------------
(* HttpIdempotency implements KeyContract.                                   *)

\* What the contract sees of the rows and of the requests.
Owner == [k \in Keys |-> {x \in Requests : KeyOf[x] = k /\ pc[x] \in Holding}]
Stored == [k \in Keys |-> IF keys[k].state = "done" THEN {keys[k].answer} ELSE {}]
Told == [x \in Requests |-> {got[x]} \ {NoOne}]

\* A key has at most one owner, and none beside a stored answer.
LEMMA OwnersApart ==
    ASSUME KeyInv, Prompt, NEW x \in Requests
    PROVE  /\ pc[x] \in Holding => Owner[KeyOf[x]] = {x} /\ Stored[KeyOf[x]] = {}
           /\ Row(x).state # "open" \/ Row(x).stale => Owner[KeyOf[x]] = {}
  <1>1. KeyOf[x] \in Keys
    BY RequestAssumption
  <1>2. /\ \A y \in Requests : pc[y] \in Holding => Row(y).holder = y
        /\ \A y \in Requests : pc[y] \in Holding => Row(y).state = "open" /\ ~Row(y).stale
    BY DEF KeyInv, HoldersHold
  <1> QED BY <1>1, <1>2 DEF Owner, Stored, Row

\* A step of one request, with the others where they were.
LEMMA OwnerMoves ==
    ASSUME TypeOK, NEW x \in Requests, NEW step \in Steps, Goto(x, step), KeyInv, Prompt
    PROVE  /\ (step \in Holding <=> pc[x] \in Holding) => Owner' = Owner
           /\ step \notin Holding /\ pc[x] \in Holding =>
                 Owner' = [Owner EXCEPT ![KeyOf[x]] = {}]
           /\ step \in Holding /\ Owner[KeyOf[x]] = {} =>
                 Owner' = [Owner EXCEPT ![KeyOf[x]] = {x}]
  <1>1. KeyOf[x] \in Keys
    BY RequestAssumption
  <1>2. pc'[x] = step /\ \A y \in Requests : y # x => pc'[y] = pc[y]
    BY DEF TypeOK, Goto
  <1>3. ASSUME NEW k \in Keys, k # KeyOf[x] PROVE Owner'[k] = Owner[k]
    BY <1>2, <1>3 DEF Owner
  <1>4. ASSUME step \in Holding <=> pc[x] \in Holding PROVE Owner' = Owner
    BY <1>2, <1>4 DEF Owner
  <1>5. ASSUME step \notin Holding, pc[x] \in Holding PROVE Owner'[KeyOf[x]] = {}
    <2>1. Owner[KeyOf[x]] = {x}
      BY <1>5, OwnersApart
    <2> QED BY <1>1, <1>2, <1>5, <2>1 DEF Owner
  <1>6. ASSUME step \in Holding, Owner[KeyOf[x]] = {} PROVE Owner'[KeyOf[x]] = {x}
    BY <1>1, <1>2, <1>6 DEF Owner
  <1>7. Owner' = [k \in Keys |-> Owner'[k]] /\ Owner = [k \in Keys |-> Owner[k]]
    BY DEF Owner
  <1> QED BY <1>1, <1>3, <1>4, <1>5, <1>6, <1>7

\* A row that is written and has no answer before or after.
LEMMA StoredSame ==
    ASSUME NEW k \in Keys, \A j \in Keys \ {k} : keys'[j] = keys[j],
           keys[k].state # "done", keys'[k].state # "done"
    PROVE  Stored' = Stored
  BY DEF Stored

\* Every step of a request or of the clock is one step of the contract or none.
LEMMA StepKeepsPromise ==
    ASSUME TypeOK, KeyInv, [Next]_vars, Prompt
    PROVE  Promise!Next \/ UNCHANGED <<Owner, Stored, acted, Told>>
  <1> USE RequestAssumption
  <1>1. /\ \A x \in Requests : KeyOf[x] \in Keys
        /\ pc \in [Requests -> Steps] /\ got \in [Requests -> Requests \cup {NoOne}]
        /\ keys \in [Keys -> Rows]
    BY DEF TypeOK
  <1>2. \A x \in Requests : /\ pc[x] = "record" => x \in acted
                            /\ pc[x] = "handler" => x \notin acted
                            /\ pc[x] # "ended" => got[x] = NoOne
    BY DEF KeyInv, AnswersLast
  <1>3. ASSUME NEW x \in Requests, pc[x] \notin Holding, Goto(x, "handler"),
               Row(x).state = "absent" \/ (Row(x).state = "open" /\ Row(x).stale),
               NEW print, SetRow(x, Reservation(x, print)), UNCHANGED <<got, acted>>
        PROVE  Promise!Next
    <2>1. Owner[KeyOf[x]] = {} /\ Stored[KeyOf[x]] = {}
      BY <1>1, <1>3, OwnersApart DEF Stored, Row
    <2>2. Owner' = [Owner EXCEPT ![KeyOf[x]] = {x}]
      BY <1>3, <2>1, OwnerMoves DEF Steps, Holding
    <2>3. Stored' = Stored
      BY <1>1, <1>3, StoredSame DEF SetRow, Reservation, Row
    <2>4. Told' = Told
      BY <1>3 DEF Told
    <2>5. Promise!LetIn(x)
      BY <1>3, <2>1, <2>2, <2>3, <2>4 DEF Promise!LetIn, Owner, Stored, Told
    <2> QED BY <2>5 DEF Promise!Next
  <1>4. ASSUME NEW x \in Requests, Insert(x)
        PROVE  Promise!Next \/ UNCHANGED <<Owner, Stored, acted, Told>>
    <2>1. CASE Row(x).state = "absent"
      BY <1>3, <1>4, <2>1 DEF Insert, Holding
    <2>2. CASE Row(x).state # "absent"
      <3>1. Owner' = Owner
        BY <1>4, <2>2, OwnerMoves DEF Insert, Steps, Holding
      <3> QED BY <1>4, <2>2, <3>1 DEF Insert, Stored, Told
    <2> QED BY <2>1, <2>2
  <1>5. ASSUME NEW x \in Requests, TakeOver(x)
        PROVE  Promise!Next \/ UNCHANGED <<Owner, Stored, acted, Told>>
    <2>1. CASE Abandoned(x)
      BY <1>3, <1>5, <2>1 DEF TakeOver, Abandoned, Holding
    <2>2. CASE ~Abandoned(x)
      <3>1. Owner' = Owner
        BY <1>5, <2>2, OwnerMoves DEF TakeOver, Steps, Holding
      <3> QED BY <1>5, <2>2, <3>1 DEF TakeOver, Stored, Told
    <2> QED BY <2>1, <2>2
  <1>6. ASSUME NEW x \in Requests, Select(x)
        PROVE  Promise!Next \/ UNCHANGED <<Owner, Stored, acted, Told>>
    <2>1. Owner' = Owner /\ Stored' = Stored /\ acted' = acted
      <3>1. PICK step \in Steps \ Holding : Goto(x, step)
        BY <1>6 DEF Select, Steps, Holding
      <3>2. Owner' = Owner
        BY <1>6, <3>1, OwnerMoves DEF Select, Holding
      <3> QED BY <1>6, <3>2 DEF Select, Stored
    <2>2. CASE got' = got
      BY <2>1, <2>2 DEF Told
    <2>3. CASE /\ Row(x).state = "done" /\ Row(x).print = PrintOf[x]
               /\ got' = [got EXCEPT ![x] = Row(x).answer]
      <3>1. PICK y \in Requests : y = Row(x).answer /\ PrintOf[y] = PrintOf[x]
        BY <1>1, <2>3 DEF KeyInv, PrintsAgree, Row
      <3>2. Stored[KeyOf[x]] = {y} /\ Told[x] = {}
        BY <1>1, <1>2, <1>6, <2>3, <3>1 DEF Stored, Told, Row, Select
      <3>3. Told' = [Told EXCEPT ![x] = {y}]
        BY <1>1, <2>3, <3>1 DEF Told
      <3>4. Promise!Replay(x, y)
        BY <2>1, <3>1, <3>2, <3>3 DEF Promise!Replay, Owner, Stored, Told
      <3> QED BY <3>4 DEF Promise!Next
    <2> QED BY <1>6, <2>2, <2>3 DEF Select
  <1>7. ASSUME NEW x \in Requests, HandlerActs(x) PROVE Promise!Next
    <2>1. Owner' = Owner
      BY <1>7, OwnerMoves DEF HandlerActs, Steps, Holding
    <2>2. Owner[KeyOf[x]] = {x}
      BY <1>7, OwnersApart DEF HandlerActs, Holding
    <2>3. Stored' = Stored /\ Told' = Told
      BY <1>7 DEF HandlerActs, Stored, Told
    <2>4. x \notin acted /\ acted' = acted \cup {x}
      BY <1>2, <1>7 DEF HandlerActs
    <2>5. Promise!Act(x)
      BY <2>1, <2>2, <2>3, <2>4 DEF Promise!Act, Owner, Stored, Told
    <2> QED BY <2>5 DEF Promise!Next
  <1>8. ASSUME NEW x \in Requests, Complete(x) PROVE Promise!Next
    <2>1. Owner[KeyOf[x]] = {x} /\ Stored[KeyOf[x]] = {} /\ Row(x).state = "open"
      BY <1>8, OwnersApart DEF Complete, Holding, KeyInv, HoldersHold
    <2>2. Owner' = [Owner EXCEPT ![KeyOf[x]] = {}]
      BY <1>8, OwnerMoves DEF Complete, Steps, Holding
    <2>3. Stored' = [Stored EXCEPT ![KeyOf[x]] = {x}]
      <3>1. /\ keys'[KeyOf[x]].state = "done" /\ keys'[KeyOf[x]].answer = x
            /\ \A k \in Keys \ {KeyOf[x]} : keys'[k] = keys[k]
        BY <1>1, <1>8, <2>1 DEF Complete, SetRow
      <3> QED BY <1>1, <3>1 DEF Stored
    <2>4. Told[x] = {} /\ Told' = [Told EXCEPT ![x] = {x}]
      BY <1>1, <1>2, <1>8 DEF Complete, Told
    <2>5. x \in acted /\ acted' = acted
      BY <1>2, <1>8 DEF Complete
    <2>6. Promise!Answer(x)
      BY <2>1, <2>2, <2>3, <2>4, <2>5 DEF Promise!Answer, Owner, Stored, Told
    <2> QED BY <2>6 DEF Promise!Next
  <1>9. ASSUME NEW x \in Requests, pc[x] \in Holding, Goto(x, "ended"),
               UNCHANGED <<Stored, acted, got>>
        PROVE  Promise!Next
    <2>1. Owner[KeyOf[x]] = {x}
      BY <1>9, OwnersApart
    <2>2. Owner' = [Owner EXCEPT ![KeyOf[x]] = {}]
      BY <1>9, OwnerMoves DEF Steps, Holding
    <2>3. Told' = Told
      BY <1>9 DEF Told
    <2>4. Promise!Leave(x)
      BY <1>9, <2>1, <2>2, <2>3 DEF Promise!Leave, Owner, Stored, Told
    <2> QED BY <2>4 DEF Promise!Next
  <1>10. ASSUME NEW x \in Requests, Release(x) PROVE Promise!Next
    <2>1. Row(x).state = "open"
      BY <1>10 DEF Release, Holding, KeyInv, HoldersHold
    <2>2. /\ keys'[KeyOf[x]].state = "absent" /\ keys[KeyOf[x]].state = "open"
          /\ \A k \in Keys \ {KeyOf[x]} : keys'[k] = keys[k]
      BY <1>1, <1>10, <2>1 DEF Release, SetRow, Row
    <2>3. Stored' = Stored
      BY <1>1, <2>2, StoredSame
    <2> QED BY <1>9, <1>10, <2>3 DEF Release, Holding
  <1>11. ASSUME NEW x \in Requests, HandlerRaises(x) \/ StoreFails(x) \/ Crash(x)
         PROVE  Promise!Next \/ UNCHANGED <<Owner, Stored, acted, Told>>
    <2>1. Stored' = Stored /\ UNCHANGED <<acted, got>> /\ Told' = Told
      BY <1>11 DEF HandlerRaises, StoreFails, Crash, Stored, Told
    <2>2. PICK step \in {"abandon", "ended"} : Goto(x, step)
      BY <1>11 DEF HandlerRaises, StoreFails, Crash
    <2>3. step = "abandon" => pc[x] \in Holding
      BY <1>1, <1>11, <2>2 DEF HandlerRaises, StoreFails, Crash, Goto, Holding
    <2>4. CASE step = "ended" /\ pc[x] \in Holding
      BY <1>9, <2>1, <2>2, <2>4
    <2>5. CASE step \in Holding <=> pc[x] \in Holding
      <3>1. Owner' = Owner
        BY <2>2, <2>5, OwnerMoves DEF Steps
      <3> QED BY <2>1, <3>1
    <2> QED BY <2>2, <2>3, <2>4, <2>5 DEF Holding
  <1>12. ASSUME NEW k \in Keys, Age(k) PROVE UNCHANGED <<Owner, Stored, acted, Told>>
    <2>1. UNCHANGED <<Owner, acted, Told>>
      BY <1>12 DEF Age, Owner, Told
    <2>2. Stored' = Stored
      BY <1>1, <1>12, StoredSame DEF Age
    <2> QED BY <2>1, <2>2
  <1>13. CASE UNCHANGED vars
    BY <1>13 DEF vars, Owner, Stored, Told
  <1> QED BY <1>4, <1>5, <1>6, <1>7, <1>8, <1>10, <1>11, <1>12, <1>13 DEF Next

\* The store, the claim and the exit path of a request implement KeyContract: one
\* request at a time is in under a key and none once it is answered, only that
\* request acts, and a replay is of the same method, path, workspace and body,
\* whatever crashes and whatever statement fails.
THEOREM ImplementsPromise == Spec => KeepsPromise
  <1>1. Init => Promise!Init
    BY DEF Init, Promise!Init, Prompt, Holding
  <1>2. [Next]_vars => Prompt' = Prompt
    BY DEF Next, vars, Insert, Select, TakeOver, HandlerActs, HandlerRaises, Complete, Release,
       StoreFails, Crash, Age, Prompt
  <1>3. TypeOK /\ KeyInv /\ [Next]_vars =>
           [Prompt' = Prompt /\ (Prompt => Promise!Next)]_(Promise!vars)
    <2> SUFFICES ASSUME TypeOK, KeyInv, [Next]_vars
                 PROVE  [Prompt' = Prompt /\ (Prompt => Promise!Next)]_(Promise!vars)
      OBVIOUS
    <2>1. UNCHANGED <<Owner, Stored, acted, Told>> /\ Prompt' = Prompt => UNCHANGED Promise!vars
      BY DEF Promise!vars, Owner, Stored, Told
    <2> QED BY <1>2, <2>1, StepKeepsPromise
  <1> QED BY <1>1, <1>3, KeysInOrder, PTL DEF Spec, KeepsPromise, Promise!Spec
=============================================================================

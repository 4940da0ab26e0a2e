---------------------------- MODULE ChatDecisions ----------------------------
(***************************************************************************)
(* Deciding an approval in a chat: the portal view that issues a           *)
(* single-use code (approval_codes.py), the chat message that spends it    *)
(* (inbound.py, channel_decisions.py) and the tables underneath            *)
(* (persistence/approval_codes.py, persistence/channel_inbound.py).        *)
(*                                                                         *)
(* A view is one call of ApprovalViewService.view with issue_code; it      *)
(* issues at most one code, so the code and its receipt bear its name.  A  *)
(* delivery is one arrival of a chat update, and a message may be          *)
(* delivered more than once.  A step is one transaction, or one question   *)
(* to another context.  The unit of work of decide is one step: it writes  *)
(* nothing before its last statements, and their conditions are judged on  *)
(* the rows as they are then.  A call whose process dies takes no further  *)
(* step.                                                                   *)
(*                                                                         *)
(* Operators marked Mutant are wrong versions of the definition they       *)
(* precede, kept to show that the properties can fail; no specification    *)
(* uses them.                                                              *)
(***************************************************************************)
EXTENDS Naturals, FiniteSets

CONSTANTS
    Approvals,      \* approval requests of one workspace, or of several
    People,         \* deciders with a linked chat
    RequestedBy,    \* who asked for each approval
    Views,          \* calls of view; also the codes and receipts they make
    Digits,         \* what a code may read
    Messages,       \* chat messages, by the channel's message id
    Deliveries,     \* arrivals of an update
    MaxWrongTries,  \* MAX_WRONG_TRIES
    MaxEdits,       \* bound on the changes of each approval's subject
    Web,            \* the decider of a decision taken on the portal
    NoOne           \* absence of a view, a person or digits

ASSUME ChatAssumption ==
    /\ DOMAIN RequestedBy = Approvals
    /\ MaxWrongTries \in Nat \ {0}
    /\ MaxEdits \in [Approvals -> Nat]
    /\ NoOne \notin Approvals \cup Views \cup People \cup Digits \cup Messages
    /\ Web \notin Views /\ Web # NoOne
    /\ IsFiniteSet(Messages)

VARIABLES
    requests,  \* approval_requests: status, version, and the code that decided
    subject,   \* the version of what each approval is about, kept elsewhere
    receipts,  \* what each view saw and drew; a row once its code is one
    codes,     \* approval_decision_codes: state, expired, failed_attempts
    over,      \* the open codes that a view's UPDATE saw and revokes
    vpc,       \* where each view stands
    said,      \* what each message says, and which code its sender meant
    ledger,    \* channel_inbound_messages
    carries,   \* the message each delivery brought
    dpc,       \* where each delivery stands
    code,      \* the code a delivery has matched
    targets    \* the open codes a wrong try is to be counted against

requestVars == <<requests, subject>>
viewVars == <<receipts, over, vpc>>
chatVars == <<said, ledger, carries, dpc, code, targets>>
vars == <<requests, subject, receipts, codes, over, vpc, said, ledger, carries,
          dpc, code, targets>>

Closed == {"used", "locked", "reissued"}

Requests == [status: {"pending", "decided"}, version: 1..2, by: Views \cup {Web, NoOne}]
Receipts == [person: People \cup {NoOne}, approval: Approvals \cup {NoOne}, version: 0..2,
             subject: Nat, digits: Digits \cup {NoOne}]
CodeRows == [state: {"none", "open"} \cup Closed, expired: BOOLEAN, tries: 0..MaxWrongTries]
Sayings == [person: People \cup {NoOne}, digits: Digits \cup {NoOne}, meant: Views \cup {NoOne}]

TypeOK ==
    /\ requests \in [Approvals -> Requests]
    /\ subject \in [Approvals -> Nat]
    /\ receipts \in [Views -> Receipts]
    /\ codes \in [Views -> CodeRows]
    /\ over \in [Views -> SUBSET Views]
    /\ vpc \in [Views -> {"idle", "read", "viewed", "drawn", "revoking", "ended"}]
    /\ said \in [Messages -> Sayings]
    /\ ledger \in [Messages -> {"new", "processing", "settled"}]
    /\ carries \in [Deliveries -> Messages \cup {NoOne}]
    /\ dpc \in [Deliveries -> {"idle", "claimed", "wrong", "counting", "matched", "pending",
                               "checked", "settle", "ended"}]
    /\ code \in [Deliveries -> Views \cup {NoOne}]
    /\ targets \in [Deliveries -> SUBSET Views]

NoReceipt == [person |-> NoOne, approval |-> NoOne, version |-> 0, subject |-> 0,
              digits |-> NoOne]

Init ==
    /\ requests = [a \in Approvals |-> [status |-> "pending", version |-> 1, by |-> NoOne]]
    /\ subject = [a \in Approvals |-> 0]
    /\ receipts = [v \in Views |-> NoReceipt]
    /\ codes = [v \in Views |-> [state |-> "none", expired |-> FALSE, tries |-> 0]]
    /\ over = [v \in Views |-> {}]
    /\ vpc = [v \in Views |-> "idle"]
    /\ said = [m \in Messages |-> [person |-> NoOne, digits |-> NoOne, meant |-> NoOne]]
    /\ ledger = [m \in Messages |-> "new"]
    /\ carries = [d \in Deliveries |-> NoOne]
    /\ dpc = [d \in Deliveries |-> "idle"]
    /\ code = [d \in Deliveries |-> NoOne]
    /\ targets = [d \in Deliveries |-> {}]

\* The steps of a delivery that may still act.
Acting == {"claimed", "wrong", "counting", "matched", "pending", "checked"}

GotoV(v, step) == vpc' = [vpc EXCEPT ![v] = step]
GotoD(d, step) == dpc' = [dpc EXCEPT ![d] = step]

\* The command is over, whatever came of it.
Finish(d) ==
    /\ GotoD(d, "settle")
    /\ code' = [code EXCEPT ![d] = NoOne]
    /\ targets' = [targets EXCEPT ![d] = {}]

Open(v) == codes[v].state = "open"
Usable(v) == Open(v) /\ ~codes[v].expired
SameCard(v, w) == /\ receipts[v].person = receipts[w].person
                  /\ receipts[v].approval = receipts[w].approval

-----------------------------------------------------------------------------
(***************************************************************************)
(* The portal: ApprovalViewService.view.                                   *)
(***************************************************************************)

\* _visible, and _unavailable's questions about the request it read: pending, and
\* not the viewer's own.  A view that gets no code (no scope, no linked chat, no
\* comment, a subject without versions) concerns nobody.
View(v, p, a) ==
    /\ vpc[v] = "idle"
    /\ requests[a].status = "pending" /\ RequestedBy[a] # p
    /\ receipts' = [receipts EXCEPT ![v] =
                      [person |-> p, approval |-> a, version |-> requests[a].version,
                       subject |-> 0, digits |-> NoOne]]
    /\ GotoV(v, "read")
    /\ UNCHANGED <<requestVars, codes, over, chatVars>>

\* version_of, which another context answers.
ReadSubject(v) ==
    /\ vpc[v] = "read"
    /\ receipts' = [receipts EXCEPT ![v].subject = subject[receipts[v].approval]]
    /\ GotoV(v, "viewed")
    /\ UNCHANGED <<requestVars, codes, over, chatVars>>

\* _fresh_code: digits that none of the person's usable codes shares now.
FreshCode(v, x) ==
    /\ vpc[v] = "viewed"
    /\ \A w \in Views : Usable(w) /\ receipts[w].person = receipts[v].person =>
                            receipts[w].digits # x
    /\ receipts' = [receipts EXCEPT ![v].digits = x]
    /\ GotoV(v, "drawn")
    /\ UNCHANGED <<requestVars, codes, over, chatVars>>

\* _record_view, its UPDATE: the open codes it sees are the ones it revokes.  It
\* locks their rows until the commit; whatever closes one of them before then may
\* as well have done so before the UPDATE.
RevokeOpen(v) ==
    /\ vpc[v] = "drawn"
    /\ over' = [over EXCEPT ![v] = {w \in Views : Open(w) /\ SameCard(v, w)}]
    /\ GotoV(v, "revoking")
    /\ UNCHANGED <<requestVars, receipts, codes, chatVars>>

\* uq_approval_decision_codes_open, as the INSERT of v's code meets it.
OpenIndexAllows(v) == \A w \in Views : Open(w) /\ SameCard(v, w) => w \in over[v]

\* _record_view, its INSERT and commit, or the IntegrityError that undoes it.
RecordView(v) ==
    /\ vpc[v] = "revoking"
    /\ IF OpenIndexAllows(v)
       THEN /\ codes' = [w \in Views |->
                           IF w = v THEN [state |-> "open", expired |-> FALSE, tries |-> 0]
                           ELSE IF w \in over[v] /\ Open(w)
                                THEN [codes[w] EXCEPT !.state = "reissued"]
                                ELSE codes[w]]
            /\ UNCHANGED receipts
       ELSE receipts' = [receipts EXCEPT ![v] = NoReceipt] /\ UNCHANGED codes
    /\ over' = [over EXCEPT ![v] = {}]
    /\ GotoV(v, "ended")
    /\ UNCHANGED <<requestVars, chatVars>>

\* expires_at passes, by the database's clock.
Expire(v) ==
    /\ Usable(v)
    /\ codes' = [codes EXCEPT ![v].expired = TRUE]
    /\ UNCHANGED <<requestVars, viewVars, chatVars>>

-----------------------------------------------------------------------------
(***************************************************************************)
(* The chat: a message is sent, arrives, is claimed and is dispatched.     *)
(***************************************************************************)

Message(d) == said[carries[d]]

\* Mutant: the claim lets a message through again once it is settled.
ClaimUnlessProcessing(m) == ledger[m] # "processing"

\* The primary key of channel_inbound_messages lets the first claim through.
NeverSeen(m) == ledger[m] = "new"

\* A person has typed x: the digits of a code v that the portal showed them, or
\* a guess.
Typed(p, x, v) ==
    v # NoOne => codes[v].state # "none" /\ receipts[v].person = p /\ receipts[v].digits = x

\* A chat update with message m arrives.  route claims the message id and
\* commits, before anything is done about it; m says what it said the first time.
Claim(d, m, p, x, v) ==
    /\ dpc[d] = "idle" /\ NeverSeen(m) /\ Typed(p, x, v)
    /\ said' = [said EXCEPT ![m] =
                  IF ledger[m] = "new" THEN [person |-> p, digits |-> x, meant |-> v] ELSE @]
    /\ ledger' = [ledger EXCEPT ![m] = "processing"]
    /\ carries' = [carries EXCEPT ![d] = m]
    /\ GotoD(d, "claimed")
    /\ UNCHANGED <<requestVars, codes, viewVars, code, targets>>

\* A message delivered again is skipped.
Skip(d, m) ==
    /\ dpc[d] = "idle" /\ ~NeverSeen(m)
    /\ GotoD(d, "ended")
    /\ UNCHANGED <<requestVars, codes, viewVars, said, ledger, carries, code, targets>>

Matching(d) == {v \in Views : /\ codes[v].state # "none"
                              /\ receipts[v].person = Message(d).person
                              /\ receipts[v].digits = Message(d).digits}

UsableMatches(d) == {v \in Matching(d) : Usable(v)}

\* Mutant: of two usable codes that share the digits, one is taken.
AnyUsable(d) == UsableMatches(d)

\* The code the digits name: the only usable one that matches.
Named(d) == {v \in Views : UsableMatches(d) = {v}}

\* codes_of: no match is a wrong try, one usable match goes on, and every other
\* case is refused and audited.
MatchCode(d) ==
    /\ dpc[d] = "claimed"
    /\ \/ /\ Matching(d) = {}
          /\ GotoD(d, "wrong") /\ UNCHANGED code
       \/ \E v \in Named(d) : code' = [code EXCEPT ![d] = v] /\ GotoD(d, "matched")
       \/ /\ Matching(d) # {} /\ Named(d) = {}
          /\ GotoD(d, "settle") /\ UNCHANGED code
    /\ UNCHANGED <<requestVars, codes, viewVars, said, ledger, carries, targets>>

\* record_wrong_try, its SELECT.
SelectOpen(d) ==
    /\ dpc[d] = "wrong"
    /\ targets' = [targets EXCEPT ![d] = {v \in Views : /\ Usable(v)
                                                        /\ receipts[v].person = Message(d).person}]
    /\ GotoD(d, "counting")
    /\ UNCHANGED <<requestVars, codes, viewVars, said, ledger, carries, code>>

\* The targets the UPDATE still finds open.
Counted(d) == {v \in targets[d] : Open(v)}

\* The state of a code with that many wrong tries.
AfterWrongTry(tries) == IF tries >= MaxWrongTries THEN "locked" ELSE "open"

\* record_wrong_try, its UPDATEs: counted on the row as it is, not as selected.
RecordWrongTry(d) ==
    /\ dpc[d] = "counting"
    /\ codes' = [v \in Views |->
                   IF v \in Counted(d)
                   THEN [state |-> AfterWrongTry(codes[v].tries + 1),
                         expired |-> codes[v].expired, tries |-> codes[v].tries + 1]
                   ELSE codes[v]]
    /\ Finish(d)
    /\ UNCHANGED <<requestVars, viewVars, said, ledger, carries>>

\* coded_approval: still pending, not the sender's own, and at the version that
\* the view saw; otherwise refused.
AsViewed(d) ==
    LET a == receipts[code[d]].approval IN
    /\ requests[a].status = "pending"
    /\ RequestedBy[a] # Message(d).person
    /\ requests[a].version = receipts[code[d]].version

CodedApproval(d) ==
    /\ dpc[d] = "matched"
    /\ IF AsViewed(d) THEN GotoD(d, "pending") /\ UNCHANGED <<code, targets>>
                      ELSE Finish(d)
    /\ UNCHANGED <<requestVars, codes, viewVars, said, ledger, carries>>

\* access_for, then version_of once more.
CheckSubject(d) ==
    /\ dpc[d] = "pending"
    /\ IF subject[receipts[code[d]].approval] = receipts[code[d]].subject
       THEN GotoD(d, "checked") /\ UNCHANGED <<code, targets>>
       ELSE Finish(d)
    /\ UNCHANGED <<requestVars, codes, viewVars, said, ledger, carries>>

Decided(a, by) ==
    [requests EXCEPT ![a] = [status |-> "decided", version |-> requests[a].version + 1, by |-> by]]

\* admit and save: the versions agree, the code is usable.
Admits(d) ==
    /\ requests[receipts[code[d]].approval].version = receipts[code[d]].version
    /\ Usable(code[d])

\* decide's unit of work: consume the code and write the decision, or neither.
\* The run it then resumes has no say in either.
Decide(d) ==
    /\ dpc[d] = "checked"
    /\ IF Admits(d)
       THEN /\ codes' = [codes EXCEPT ![code[d]].state = "used"]
            /\ requests' = Decided(receipts[code[d]].approval, code[d])
       ELSE UNCHANGED <<codes, requests>>
    /\ Finish(d)
    /\ UNCHANGED <<subject, viewVars, said, ledger, carries>>

\* Every other way a command ends: no workspace to act in, no membership, a
\* refusal of decide (the scope, the stamp, a strict type's rules, a run that is
\* not waiting), or an exception, which route settles as failed.
GiveUp(d) ==
    /\ dpc[d] \in Acting
    /\ Finish(d)
    /\ UNCHANGED <<requestVars, codes, viewVars, said, ledger, carries>>

\* settle moves a processing row only.
Settle(d) ==
    /\ dpc[d] = "settle"
    /\ ledger' = [ledger EXCEPT ![carries[d]] = IF @ = "processing" THEN "settled" ELSE @]
    /\ GotoD(d, "ended")
    /\ UNCHANGED <<requestVars, codes, viewVars, said, carries, code, targets>>

-----------------------------------------------------------------------------
(***************************************************************************)
(* The rest of the world.                                                  *)
(***************************************************************************)

\* Somebody decides on the portal: the same decide, without a code.
DecideOnWeb(a) ==
    /\ requests[a].status = "pending"
    /\ requests' = Decided(a, Web)
    /\ UNCHANGED <<subject, codes, viewVars, chatVars>>

\* The context that owns the subject changes it.
EditSubject(a) ==
    /\ subject[a] < MaxEdits[a]
    /\ subject' = [subject EXCEPT ![a] = @ + 1]
    /\ UNCHANGED <<requests, codes, viewVars, chatVars>>

Next ==
    \/ \E v \in Views :
          \/ \E p \in People, a \in Approvals : View(v, p, a)
          \/ \E x \in Digits : FreshCode(v, x)
          \/ ReadSubject(v) \/ RevokeOpen(v) \/ RecordView(v) \/ Expire(v)
    \/ \E d \in Deliveries :
          \/ \E m \in Messages :
                \/ Skip(d, m)
                \/ \E p \in People, x \in Digits, v \in Views \cup {NoOne} : Claim(d, m, p, x, v)
          \/ MatchCode(d)
          \/ SelectOpen(d) \/ RecordWrongTry(d)
          \/ CodedApproval(d) \/ CheckSubject(d) \/ Decide(d)
          \/ GiveUp(d) \/ Settle(d)
    \/ \E a \in Approvals : DecideOnWeb(a) \/ EditSubject(a)

Spec == Init /\ [][Next]_vars
-----------------------------------------------------------------------------

\* A code buys one decision: it is used exactly if it is what decided its
\* approval, though the digits are read, the request is read and the code is
\* consumed at different times, others decide meanwhile, and any step may fail.
UsedMeansDecided ==
    \A v \in Views : codes[v].state = "used" <=>
        \E a \in Approvals : receipts[v].approval = a /\ requests[a].by = v

\* A code that was used, locked or replaced never comes back and never changes,
\* not even by a wrong try or a new view that selected it while it was open.
ClosedIsFinal ==
    [][\A v \in Views : codes[v].state \in Closed => codes'[v] = codes[v]]_vars

\* At most one open code per approval and person, however many views of theirs
\* issue one at the same time.
OneOpenCode ==
    \A v, w \in Views : Open(v) /\ Open(w) /\ SameCard(v, w) => v = w

\* While the code that the sender meant is usable, no other code is decided
\* with: two views that drew at once may share digits, and then neither is.
DecidesWhatWasMeant ==
    \A d \in Deliveries, v \in Views :
        code[d] # NoOne /\ Message(d).meant = v /\ Usable(v) => code[d] = v

\* The contract's view of codes, messages and approvals.
Codebook == INSTANCE CodeContract WITH
    Codes <- Views,
    Limit <- MaxWrongTries,
    life <- [v \in Views |-> IF Open(v) THEN (IF codes[v].expired THEN "expired" ELSE "usable")
                             ELSE codes[v].state],
    owner <- [v \in Views |-> IF codes[v].state = "none" THEN {} ELSE {receipts[v].person}],
    topic <- [v \in Views |-> IF codes[v].state = "none" THEN {} ELSE {receipts[v].approval}],
    tries <- [v \in Views |-> codes[v].tries],
    sender <- [m \in Messages |-> {said[m].person} \ {NoOne}],
    meant <- [m \in Messages |-> {said[m].meant} \ {NoOne}],
    busy <- {m \in Messages : \E d \in Deliveries : carries[d] = m /\ dpc[d] \in Acting},
    outcome <- [a \in Approvals |-> {requests[a].by} \ {NoOne}]

\* However views, deliveries, redeliveries and decisions on the portal overlap
\* and wherever they stop, the codes keep their contract: one open code per card,
\* every message acted on once, with a code of its sender and the one that was
\* meant while that is usable, and an approval decided once.
KeepsCodes == Codebook!Spec

\* Messages of p that have been claimed and match none of the codes p has.
WrongMessages(p) ==
    {m \in Messages : said[m].person = p /\ said[m].meant = NoOne /\ ledger[m] # "new"}

\* The wrong tries counted against a code are distinct messages of its owner:
\* an update delivered again does not spend another try; and the code is locked
\* exactly when they are MAX_WRONG_TRIES, with messages counted side by side.
WrongTriesLock ==
    \A v \in Views :
        /\ codes[v].tries <= Cardinality(WrongMessages(receipts[v].person))
        /\ codes[v].state = "locked" <=> codes[v].tries = MaxWrongTries

\* "The subject changed after the view: the versions on the receipt differ:
\* refused": what is decided is the version that was viewed.
DecidesTheVersionViewed ==
    [][\A v \in Views : Open(v) /\ codes'[v].state = "used" =>
        subject[receipts[v].approval] = receipts[v].subject]_vars

-----------------------------------------------------------------------------
(***************************************************************************)
(* What holds between the steps: the parts of the inductive invariant.     *)
(***************************************************************************)

\* A request leaves version 1 when, and only when, it is decided.
PendingIsFirst ==
    \A a \in Approvals :
        \/ requests[a].status = "pending" /\ requests[a].version = 1 /\ requests[a].by = NoOne
        \/ requests[a].status = "decided" /\ requests[a].version = 2

\* A code is a row once its view has ended, and then its receipt is complete.
CodesHaveReceipts ==
    \A v \in Views :
        /\ codes[v].state # "none" => vpc[v] = "ended"
        /\ vpc[v] \notin {"idle", "ended"} \/ codes[v].state # "none" =>
              /\ receipts[v].person \in People
              /\ receipts[v].approval \in Approvals
              /\ receipts[v].version = 1

\* MAX_WRONG_TRIES wrong tries lock a code, and nothing else does.
LockedAtTheLimit ==
    \A v \in Views : codes[v].state = "locked" <=> codes[v].tries = MaxWrongTries

\* A delivery works on a message it claimed, and decides with a code that is a row.
DeliveriesHoldTheirs ==
    \A d \in Deliveries :
        /\ dpc[d] = "idle" => code[d] = NoOne /\ carries[d] = NoOne
        /\ dpc[d] = "claimed" => carries[d] \in Messages
        /\ dpc[d] \in {"matched", "pending", "checked"} => code[d] \in Views
        /\ code[d] \in Views => codes[code[d]].state # "none" /\ carries[d] \in Messages
        /\ carries[d] \in Messages => ledger[carries[d]] # "new"

\* A message that means a code bears the digits of that code and comes from its owner.
MeantIsTyped ==
    \A m \in Messages : said[m].meant \in Views =>
        LET v == said[m].meant IN
        /\ codes[v].state # "none"
        /\ receipts[v].person = said[m].person
        /\ receipts[v].digits = said[m].digits

CodeInv ==
    /\ PendingIsFirst /\ CodesHaveReceipts /\ LockedAtTheLimit /\ DeliveriesHoldTheirs
    /\ MeantIsTyped /\ UsedMeansDecided /\ OneOpenCode /\ DecidesWhatWasMeant

\* A delivery decides with a code of its message's sender, a view revokes codes of
\* its own card, and a message that nobody claimed has no sender yet.
CodesAreTheirs ==
    /\ \A d \in Deliveries : code[d] \in Views => receipts[code[d]].person = Message(d).person
    /\ \A v \in Views : over[v] # {} => vpc[v] = "revoking"
    /\ \A v, w \in Views : w \in over[v] => codes[w].state # "none" /\ SameCard(v, w)
    /\ \A m \in Messages : ledger[m] = "new" => said[m].person = NoOne

\* Of a message the first claim alone makes a delivery that carries it.
OneDelivery ==
    \A d, e \in Deliveries : carries[d] \in Messages /\ carries[d] = carries[e] => d = e

\* A delivery that counts a wrong try carries a message that meant no code, and
\* the codes it selected are codes of the sender.
CountsItsOwn ==
    \A d \in Deliveries :
        /\ dpc[d] \in {"wrong", "counting"} => carries[d] \in Messages /\ Message(d).meant = NoOne
        /\ targets[d] # {} => dpc[d] = "counting"
        /\ \A v \in targets[d] :
              codes[v].state # "none" /\ receipts[v].person = Message(d).person

\* Wrong messages of p whose deliveries can no longer count a try.
SpentMessages(p) ==
    {m \in WrongMessages(p) :
        ~\E d \in Deliveries : carries[d] = m /\ dpc[d] \in {"claimed", "wrong", "counting"}}

\* A code has no more wrong tries than its owner has spent messages, and none
\* before it is a row.
TriesAreSpent ==
    \A v \in Views :
        /\ codes[v].state = "none" => codes[v].tries = 0
        /\ codes[v].tries <= Cardinality(SpentMessages(receipts[v].person))

TriesInv == OneDelivery /\ CountsItsOwn /\ TriesAreSpent

=============================================================================

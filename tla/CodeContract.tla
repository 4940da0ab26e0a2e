---------------------------- MODULE CodeContract -----------------------------
(***************************************************************************)
(* What a decision code promises, without saying how: of the codes about   *)
(* one approval a person has one that is not closed, and a closed code     *)
(* never comes back; a message is acted on once, however often it arrives, *)
(* and either decides with a code of its sender, never with another than   *)
(* the one that was meant while that one is good, or counts one wrong try, *)
(* or does nothing; the limit of tries locks a code; an approval is        *)
(* decided once.                                                           *)
(***************************************************************************)
EXTENDS Naturals

CONSTANTS Codes, Approvals, People, Messages, Limit, Web

VARIABLES
    life,     \* of a code: none, usable, expired, used, locked or reissued
    owner,    \* whose a code is, as a set of at most one
    topic,    \* the approval it is about, as a set of at most one
    tries,    \* the wrong tries counted against it
    sender,   \* who sent a message, as a set of at most one
    meant,    \* the code its sender meant, as a set of at most one
    busy,     \* the messages that are being acted on
    outcome   \* what decided an approval, as a set of at most one

codeVars == <<life, owner, topic, tries>>
vars == <<life, owner, topic, tries, sender, meant, busy, outcome>>

Init ==
    /\ life = [v \in Codes |-> "none"] /\ tries = [v \in Codes |-> 0]
    /\ owner = [v \in Codes |-> {}] /\ topic = [v \in Codes |-> {}]
    /\ sender = [m \in Messages |-> {}] /\ meant = [m \in Messages |-> {}]
    /\ busy = {} /\ outcome = [a \in Approvals |-> {}]

Open(v) == life[v] \in {"usable", "expired"}

\* A code is issued, and the one before it on the same card is good no more.
Issue(v, p, a) ==
    /\ life[v] = "none"
    /\ life' = [w \in Codes |-> IF w = v THEN "usable"
                                ELSE IF Open(w) /\ owner[w] = {p} /\ topic[w] = {a} THEN "reissued"
                                ELSE life[w]]
    /\ owner' = [owner EXCEPT ![v] = {p}] /\ topic' = [topic EXCEPT ![v] = {a}]
    /\ UNCHANGED <<tries, sender, meant, busy, outcome>>

Expire(v) ==
    /\ life[v] = "usable" /\ life' = [life EXCEPT ![v] = "expired"]
    /\ UNCHANGED <<owner, topic, tries, sender, meant, busy, outcome>>

\* A message is heard: its sender means a code of theirs, or none.
Hear(m, p, V) ==
    /\ sender[m] = {} /\ \A v \in V : V = {v} /\ owner[v] = {p}
    /\ sender' = [sender EXCEPT ![m] = {p}] /\ meant' = [meant EXCEPT ![m] = V]
    /\ busy' = busy \cup {m}
    /\ UNCHANGED <<codeVars, outcome>>

\* A wrong try counts against codes of the sender, once each.
Strike(m, S) ==
    /\ m \in busy /\ meant[m] = {} /\ \A v \in S : Open(v) /\ owner[v] = sender[m]
    /\ tries' = [v \in Codes |-> IF v \in S THEN tries[v] + 1 ELSE tries[v]]
    /\ life' = [v \in Codes |-> IF v \in S /\ tries[v] + 1 = Limit THEN "locked" ELSE life[v]]
    /\ busy' = busy \ {m}
    /\ UNCHANGED <<owner, topic, sender, meant, outcome>>

\* A message decides with a code of its sender.
Spend(m, v, a) ==
    /\ m \in busy /\ life[v] = "usable" /\ owner[v] = sender[m] /\ topic[v] = {a}
    /\ \A w \in meant[m] : life[w] = "usable" => w = v
    /\ outcome[a] = {} /\ outcome' = [outcome EXCEPT ![a] = {v}]
    /\ life' = [life EXCEPT ![v] = "used"] /\ busy' = busy \ {m}
    /\ UNCHANGED <<owner, topic, tries, sender, meant>>

\* A message comes to nothing.
Drop(m) == m \in busy /\ busy' = busy \ {m} /\ UNCHANGED <<codeVars, sender, meant, outcome>>

DecideOnWeb(a) ==
    /\ outcome[a] = {} /\ outcome' = [outcome EXCEPT ![a] = {Web}]
    /\ UNCHANGED <<codeVars, sender, meant, busy>>

Next ==
    \/ \E v \in Codes, p \in People, a \in Approvals : Issue(v, p, a)
    \/ \E v \in Codes : Expire(v)
    \/ \E m \in Messages, p \in People, V \in SUBSET Codes : Hear(m, p, V)
    \/ \E m \in Messages, S \in SUBSET Codes : Strike(m, S)
    \/ \E m \in Messages, v \in Codes, a \in Approvals : Spend(m, v, a)
    \/ \E m \in Messages : Drop(m)
    \/ \E a \in Approvals : DecideOnWeb(a)

Spec == Init /\ [][Next]_vars
=============================================================================

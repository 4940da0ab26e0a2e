-------------------------- MODULE MCChatDecisions --------------------------
(* Two approvals, two views that issue codes for one or for both, and two   *)
(* deliveries, of two messages or of one message twice.                     *)
EXTENDS ChatDecisions, TLC

CONSTANTS a1, a2, p1, p2, v1, v2, x1, x2, m1, m2, d1, d2

AskedByOther == [a \in Approvals |-> p2]
OneEdit == [a \in Approvals |-> IF a = a1 THEN 1 ELSE 0]
Alike == Permutations(Views) \cup Permutations(Digits) \cup Permutations(Messages)
            \cup Permutations(Deliveries)
=============================================================================

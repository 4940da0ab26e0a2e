--------------------------- MODULE MCMemoryOutbox ---------------------------
(* Two corroborated answers about two subjects and one of them, a restricted *)
(* one about the other that needs a review, and a fact without provenance.   *)
EXTENDS MemoryOutbox

CONSTANTS a, b, r, bare, w1, w2, date, here, there

CitedDocuments == [c \in Candidates |-> IF c = bare THEN 0 ELSE 2]
Labels == [c \in Candidates |-> IF c = r THEN "restricted" ELSE "internal"]
About == [c \in Candidates |->
            CASE c = a -> {here} [] c = b -> {here, there} [] OTHER -> {there}]
Questions == [c \in Candidates |-> IF c = bare THEN NoKey ELSE date]
=============================================================================

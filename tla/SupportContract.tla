--------------------------- MODULE SupportContract ---------------------------
(***************************************************************************)
(* What support access promises a customer, without saying how: a grant is *)
(* asked for, agreed to, handed to one person and ended, in that order and *)
(* never back, and nobody is let in except the one person it was handed    *)
(* to, while it runs.  Somebody already inside when it ends may finish the *)
(* request they are in ("Takes effect at the next request").               *)
(***************************************************************************)
CONSTANTS Grants, Staff

VARIABLES
    phase,   \* "none", "asked", "agreed", "running" or "over"
    owner,   \* the person a grant was handed to, as a set of at most one
    inside   \* the grants each person's open request was let in under

vars == <<phase, owner, inside>>

Init ==
    /\ phase = [g \in Grants |-> "none"]
    /\ owner = [g \in Grants |-> {}]
    /\ inside = [s \in Staff |-> {}]

Moves(g, from, to) ==
    /\ phase[g] \in from
    /\ phase' = [phase EXCEPT ![g] = to]

\* A member asks; a member who may grant agrees at once.
Ask(g) ==
    /\ Moves(g, {"none"}, "asked") \/ Moves(g, {"none"}, "agreed")
    /\ UNCHANGED <<owner, inside>>

Agree(g) ==
    /\ Moves(g, {"asked"}, "agreed")
    /\ UNCHANGED <<owner, inside>>

Hand(g, s) ==
    /\ Moves(g, {"agreed"}, "running")
    /\ owner' = [owner EXCEPT ![g] = {s}]
    /\ UNCHANGED inside

End(g) ==
    /\ Moves(g, {"asked", "agreed", "running"}, "over")
    /\ UNCHANGED <<owner, inside>>

Admit(s, g) ==
    /\ inside[s] = {} /\ phase[g] = "running" /\ owner[g] = {s}
    /\ inside' = [inside EXCEPT ![s] = {g}]
    /\ UNCHANGED <<phase, owner>>

Leave(s) ==
    /\ inside[s] # {}
    /\ inside' = [inside EXCEPT ![s] = {}]
    /\ UNCHANGED <<phase, owner>>

Next ==
    \/ \E g \in Grants : Ask(g) \/ Agree(g) \/ End(g)
    \/ \E g \in Grants, s \in Staff : Hand(g, s) \/ Admit(s, g)
    \/ \E s \in Staff : Leave(s)

Spec == Init /\ [][Next]_vars
=============================================================================

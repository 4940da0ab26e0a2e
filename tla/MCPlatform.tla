----------------------------- MODULE MCPlatform ------------------------------
(* The parts of the platform, each explored alone: a behaviour picks its part *)
(* and keeps to it, so the states of this model are the sum of theirs and not *)
(* the product.  Nothing is lost, as the parts share no variable.             *)
EXTENDS Platform, TLC

CONSTANTS s1, s2, p1, p2, t1, t2, c1, n1, r1, r2, tool, loop1, loop2

VARIABLE part

-----------------------------------------------------------------------------
(* The instance: two people over one chat, and two lanes; two texts under one *)
(* key, two passes of the pipeline, and the sweeps.                           *)
Overlaps == {{"fault", "overlap"}, {"fault"}}

\* A tool that reads, one that writes and may be retried, one that sends.
Effects == [look |-> "none", note |-> "internal", mail |-> "external"]

\* A run with a tool that calls the model as well, and another of the same day.
TwoLoops == (r1 :> loop1) @@ (r2 :> loop2)
OneTool == (r1 :> {tool}) @@ (r2 :> {})

\* Everything in webhook mode, everything polling, and a local process with less.
Hooked == Flags \ {"slow beat"}
SettingChoices == {Hooked, Hooked \ {"webhook mode"}, {"database"}}

\* A memory, whether this run may be told of it, whether it answers the question;
\* two memories to choose from, and one answer replaced by another.
Memory(told, asks, sure) == [told |-> told, asks |-> asks, confidence |-> sure]
TwoPlans == {<<Memory(TRUE, FALSE, 2), Memory(TRUE, FALSE, 1)>>,
             <<Memory(FALSE, TRUE, 1), Memory(TRUE, TRUE, 1)>>}

-----------------------------------------------------------------------------
MCInit ==
    /\ part \in {"delivery", "knowledge", "tool calls", "model calls", "deployment", "listings",
                 "checkpoints", "partitions", "sandbox", "compaction", "recall"}
    /\ Init
    /\ part # "knowledge" => env = {"fault"}
    /\ part # "listings" => walk.query = t1
    /\ part # "partitions" => term = 100
    /\ part # "recall" => plan[1].asks

MCNext ==
    /\ UNCHANGED part
    /\ \/ part = "delivery" /\ Delivering
       \/ part = "knowledge" /\ Library
       \/ part = "tool calls" /\ ToolSteps
       \/ part = "model calls" /\ ModelSteps
       \/ part = "deployment" /\ Deployment
       \/ part = "listings" /\ Pages
       \/ part = "checkpoints" /\ Saves
       \/ part = "partitions" /\ AuditLog
       \/ part = "sandbox" /\ Sandbox
       \/ part = "compaction" /\ Compacting
       \/ part = "recall" /\ Recalling

MCSpec == MCInit /\ [][MCNext]_<<part, vars>>

\* No part tells its two lanes, staff, people, tokens, sessions, versions, texts
\* or passes apart; the parts use the same three pairs of values for them.
Alike == Permutations({p1, p2}) \cup Permutations({s1, s2}) \cup Permutations({t1, t2})
=============================================================================

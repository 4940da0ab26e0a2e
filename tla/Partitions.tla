----------------------------- MODULE Partitions ------------------------------
(* The audit log in monthly partitions (partition_maintenance.py and          *)
(* sql/0013_partition_maintenance.sql): the pass that makes the partitions of *)
(* the months to come, takes rows out of the DEFAULT one where they landed    *)
(* there, and drops the months whose term is over (retention_policy.py,       *)
(* AuditRetention).                                                           *)
(*                                                                            *)
(* A month has two halves, so that a row is young or old within its month;    *)
(* what a row says is left out, and rows of one half are one.                 *)
(*                                                                            *)
(* Operators marked Mutant are wrong versions of the definition they precede; *)
(* no specification uses them.                                                *)
EXTENDS Integers, FiniteSets

CONSTANTS
    MonthsAhead,  \* partitions made in advance
    Terms,        \* how long rows are kept, in half months; Forever is never
    Forever,
    MaxHalf       \* bound on the clock, in half months

ASSUME LogAssumption == {MonthsAhead, MaxHalf} \cup Terms \subseteq Nat

VARIABLES
    half,     \* the half month it is
    term,     \* what the policy file says, and enforces
    parts,    \* months that have a partition
    kept,     \* half months with rows in their partition
    default,  \* half months with rows in the DEFAULT partition
    passes,   \* history: months in which the partitions were made
    early     \* history: rows that were dropped before their term

logVars == <<half, term, parts, kept, default, passes, early>>

Month(h) == h \div 2
Months == 0..(Month(MaxHalf) + MonthsAhead)
Halves(m) == {2 * m, 2 * m + 1}

LogTypeOK ==
    /\ half \in 0..MaxHalf /\ term \in Terms /\ parts \subseteq Months
    /\ kept \subseteq 0..half /\ default \subseteq 0..half
    /\ passes \subseteq Months /\ early \subseteq 0..half

\* Before the job existed every row landed in the DEFAULT partition.
LogInit ==
    /\ half = 0 /\ term \in Terms
    /\ parts = {} /\ kept = {} /\ default = {} /\ passes = {} /\ early = {}

HalfPasses ==
    /\ half < MaxHalf /\ half' = half + 1
    /\ UNCHANGED <<term, parts, kept, default, passes, early>>

\* An audit event goes where its month is.
AppendEvent ==
    /\ IF Month(half) \in parts THEN kept' = kept \cup {half} /\ UNCHANGED default
                                ELSE default' = default \cup {half} /\ UNCHANGED kept
    /\ UNCHANGED <<half, term, parts, passes, early>>

\* Mutant: the loop begins with the month after this one.
AheadFromNext == (Month(half) + 1)..(Month(half) + MonthsAhead)

Ahead == Month(half)..(Month(half) + MonthsAhead)

\* `ensure_time_partitions`: the rows of a month that is made are moved into it;
\* other months the DEFAULT partition keeps.
CreateAhead ==
    LET made == Ahead \ parts
        moved == {h \in default : Month(h) \in made}
    IN  /\ parts' = parts \cup made
        /\ kept' = kept \cup moved /\ default' = default \ moved
        /\ passes' = passes \cup {Month(half)}
        /\ UNCHANGED <<half, term, early>>

\* The whole month is older than the term.
MonthIsOver(m) == 2 * (m + 1) <= half - term

\* `drop_expired_partitions`, in a transaction of its own: a term that is not
\* written, or not enforced, drops nothing, and the DEFAULT partition stays.
DropExpired ==
    LET over == {m \in parts : MonthIsOver(m)}
        gone == {h \in kept : Month(h) \in over}
    IN  /\ term # Forever /\ over # {}
        /\ parts' = parts \ over /\ kept' = kept \ gone
        /\ early' = early \cup {h \in gone : half - h < term}
        /\ UNCHANGED <<half, term, default, passes>>

\* The term is changed with a new version of the policy file.
ChangeTerm(t) ==
    /\ t # term /\ term' = t
    /\ UNCHANGED <<half, parts, kept, default, passes, early>>

LogNext ==
    \/ HalfPasses \/ AppendEvent \/ CreateAhead \/ DropExpired
    \/ \E t \in Terms : ChangeTerm(t)

LogSpec == LogInit /\ [][LogNext]_logVars

-----------------------------------------------------------------------------
\* No audit row is dropped before the term that is in force, and none stays in
\* the partition that is never dropped if the pass was made in its month or in
\* one of the months before that the pass looks ahead from
\* (`_ensure_one_partition`, `drop_expired_partitions`).
AuditKept ==
    /\ early = {}
    /\ \A h \in default : passes \cap ((Month(h) - MonthsAhead)..Month(h)) = {}

-----------------------------------------------------------------------------
(* The inductive invariant.                                                   *)

\* The DEFAULT partition has rows only of months without one of their own.
DefaultIsRest == \A h \in default : Month(h) \notin parts

\* What a pass made is there at least until its month is over.
MadeStays ==
    \A p \in passes :
        /\ p <= Month(half)
        /\ \A m \in p..(p + MonthsAhead) : m >= Month(half) => m \in parts

LogInv == LogTypeOK /\ DefaultIsRest /\ MadeStays /\ AuditKept
=============================================================================

----------------------------- MODULE Compaction ------------------------------
(* Replacing the older turns of a long run by a summary                       *)
(* (adapters/context_compaction.py, `abefore_model`).                         *)
(*                                                                            *)
(* The messages of a thread are numbered as they are said.  The history the   *)
(* model is shown is one summary of the messages up to `cut`, if any was made, *)
(* and the messages after it.  Whether to compact, and where to cut, is the    *)
(* library's choice; it never cuts between a call and its results.  Texts are *)
(* left out: a message is a number of tokens, and a summary is the messages   *)
(* it has been made from.  The two prompts have one size.                     *)
(*                                                                            *)
(* Operators marked Mutant are wrong versions of the definition they precede; *)
(* no specification uses them.                                                *)
EXTENDS Naturals, Sequences, FiniteSets, FiniteSetsExt

CONSTANTS
    Budget,        \* max_input_tokens of the summary route
    Frame,         \* tokens of a prompt around its messages
    Sizes,         \* tokens of a result
    SummarySizes,  \* tokens of a summary
    FoldCeiling,   \* what a run may spend, a model call costing 1
    MaxResults,    \* bound on the results of one call
    MaxSaid,       \* bound on the messages of the thread
    MaxStrikes     \* bound on failures, empty summaries and cancellations

VARIABLES
    said,      \* the messages of the thread, kept or not
    cut,       \* how many of them the summary stands for
    summary,
    phase,
    work,      \* the local variables of `abefore_model`
    asked,     \* the messages and tokens of the last request for a summary
    charged,   \* the run's ledger
    removals,  \* messages that an audit event says were removed
    strikes

ASSUME FoldAssumption == {FoldCeiling, MaxResults, MaxSaid, MaxStrikes} \subseteq Nat

foldVars == <<said, cut, summary, phase, work, asked, charged, removals, strikes>>

\* `lost` is history: what the summariser was given and answered with nothing.
NoSummary == [of |-> {}, lost |-> {}, size |-> 0]
NoWork == [anchor |-> NoSummary, next |-> 0, to |-> 0]
NoRequest == [of |-> {}, size |-> 0]
Stumbles == strikes < MaxStrikes /\ strikes' = strikes + 1

FoldTypeOK ==
    /\ said \in Seq([kind: {"person", "answer", "call", "result"}, size: Sizes \cup {1}])
    /\ Len(said) <= MaxSaid + MaxResults /\ cut \in 0..Len(said)
    /\ phase \in {"person", "hook", "chunk", "ask", "record", "apply", "model", "tools", "stopped"}
    /\ \A s \in {summary, work.anchor} :
           s.of \cup s.lost \subseteq 1..Len(said) /\ s.size \in SummarySizes \cup {0}
    /\ work.next \in 0..(Len(said) + 1) /\ work.to \in 0..Len(said)
    /\ asked.of \cup removals \subseteq 1..Len(said)
    /\ charged \in 0..FoldCeiling /\ strikes \in 0..MaxStrikes

FoldInit ==
    /\ said = << >> /\ cut = 0 /\ summary = NoSummary /\ phase = "person" /\ work = NoWork
    /\ asked = NoRequest /\ charged = 0 /\ removals = {} /\ strikes = 0

TokensOf(ids) == MapThenSumSet(LAMBDA i : said[i].size, ids)
IsResult(i) == i \in DOMAIN said /\ said[i].kind = "result"
Says(kind, size) == said' = Append(said, [kind |-> kind, size |-> size])

-----------------------------------------------------------------------------
(* The turn around it.                                                        *)

\* A person writes; a run of its own answers, with a ledger of its own.
PersonAsks ==
    /\ phase \in {"person", "stopped"} /\ Len(said) < MaxSaid
    /\ Says("person", 1) /\ phase' = "hook" /\ charged' = 0
    /\ UNCHANGED <<cut, summary, work, asked, removals, strikes>>

\* The model answers, or calls a tool; a run at its ceiling stops.
ModelAnswers ==
    /\ phase = "model"
    /\ \/ /\ charged < FoldCeiling /\ Len(said) < MaxSaid /\ charged' = charged + 1
          /\ \/ Says("answer", 1) /\ phase' = "person"
             \/ Says("call", 1) /\ phase' = "tools"
       \/ charged >= FoldCeiling /\ phase' = "stopped" /\ UNCHANGED <<said, charged>>
    /\ UNCHANGED <<cut, summary, work, asked, removals, strikes>>

\* Results of a call; when the last is in, the model's turn comes again.
Result(size) ==
    LET since == Len(said) - Max({i \in DOMAIN said : said[i].kind = "call"})
    IN  /\ phase = "tools" /\ since < MaxResults /\ Says("result", size)
        /\ phase' \in IF since + 1 < MaxResults THEN {"tools", "hook"} ELSE {"hook"}
        /\ UNCHANGED <<cut, summary, work, asked, charged, removals, strikes>>

-----------------------------------------------------------------------------
(* `abefore_model`.                                                           *)

\* `_units`: where a unit that begins within a span may end.
UnitEnds(from, to) == {j \in from..to : j = to \/ ~IsResult(j + 1)}
UnitOf(i, to) == {i} \cup {j \in i..to : \A n \in (i + 1)..j : IsResult(n)}

\* `_render`: the prompt, and the running summary where there is one.
Rendered(anchor) == Frame + anchor.size

\* Too short to compact, or only the previous summary would go.
TooShort ==
    /\ phase = "hook" /\ phase' = "model"
    /\ UNCHANGED <<said, cut, summary, work, asked, charged, removals, strikes>>

\* The library cuts after message k.
BeginFold(k) ==
    /\ phase = "hook" /\ ~IsResult(k + 1)
    /\ LET heads == {i \in (cut + 1)..k : ~IsResult(i)}
           tooLarge == \E i \in heads : TokensOf(UnitOf(i, k)) > Budget - Frame
       IN  IF tooLarge THEN phase' = "model" /\ UNCHANGED work
           ELSE /\ phase' = "chunk"
                /\ work' = [anchor |-> summary, next |-> cut + 1, to |-> k]
    /\ UNCHANGED <<said, cut, summary, asked, charged, removals, strikes>>

\* As many units as fit beside the running summary; the ceiling is asked before
\* every call, and over it the run stops.
Chunk ==
    LET fits == {j \in UnitEnds(work.next, work.to) :
                     Rendered(work.anchor) + TokensOf(work.next..j) <= Budget}
    IN  /\ phase = "chunk"
        /\ phase' = CASE fits = {} -> "model"
                      [] fits # {} /\ charged >= FoldCeiling -> "stopped"
                      [] OTHER -> "ask"
        /\ asked' = IF phase' # "ask" THEN asked
                    ELSE [of |-> work.next..Max(fits),
                          size |-> Rendered(work.anchor) + TokensOf(work.next..Max(fits))]
        /\ UNCHANGED <<said, cut, summary, work, charged, removals, strikes>>

\* The running summary after an answer: an empty one leaves no summary.
Folded(size) ==
    LET all == work.anchor.of \cup asked.of
    IN  IF size = 0 THEN [of |-> {}, lost |-> work.anchor.lost \cup all, size |-> 0]
        ELSE [of |-> all, lost |-> work.anchor.lost, size |-> size]

\* The summary arrives, is charged, and is the anchor of the next chunk.
Summarised(size) ==
    /\ phase = "ask" /\ charged' = charged + 1
    /\ work' = [work EXCEPT !.anchor = Folded(size), !.next = Max(asked.of) + 1]
    /\ phase' = IF work'.next > work.to THEN "record" ELSE "chunk"
    /\ IF size = 0 THEN Stumbles ELSE UNCHANGED strikes
    /\ UNCHANGED <<said, cut, summary, asked, removals>>

\* Mutant: the chunks that were summarised before the failure are kept.
SummaryFailsHalfway ==
    /\ phase = "ask" /\ Stumbles /\ phase' = IF work.anchor.of = {} THEN "model" ELSE "record"
    /\ UNCHANGED <<said, cut, summary, work, asked, charged, removals>>

\* The summariser fails: the history stays as it was.
SummaryFails ==
    /\ phase = "ask" /\ Stumbles /\ phase' = "model"
    /\ UNCHANGED <<said, cut, summary, work, asked, charged, removals>>

\* `_record`: no record, no removal.
RecordRemoval ==
    /\ phase = "record"
    /\ \/ /\ removals' = removals \cup (cut + 1)..work.to /\ phase' = "apply"
          /\ UNCHANGED strikes
       \/ Stumbles /\ phase' = "model" /\ UNCHANGED removals
    /\ UNCHANGED <<said, cut, summary, work, asked, charged>>

\* The update of the thread's state.
Apply ==
    /\ phase = "apply" /\ cut' = work.to /\ summary' = work.anchor /\ phase' = "model"
    /\ UNCHANGED <<said, work, asked, charged, removals, strikes>>

\* The caller goes away during any of it: the thread is as it was last saved.
CallerLeaves ==
    /\ phase \in {"ask", "record", "apply"} /\ Stumbles /\ phase' = "person"
    /\ UNCHANGED <<said, cut, summary, work, asked, charged, removals>>

FoldNext ==
    \/ PersonAsks \/ ModelAnswers \/ \E n \in Sizes : Result(n)
    \/ TooShort \/ \E k \in (cut + 1)..(Len(said) - 1) : BeginFold(k)
    \/ Chunk \/ \E n \in SummarySizes \cup {0} : Summarised(n)
    \/ SummaryFails \/ RecordRemoval \/ Apply \/ CallerLeaves

FoldSpec == FoldInit /\ [][FoldNext]_foldVars

-----------------------------------------------------------------------------
\* However often a thread is compacted, in however many chunks, and whatever
\* fails on the way: the summary stands for every message that is gone, apart
\* from what an empty answer of the summariser dropped; each of them is on the
\* audit trail; no call is kept apart from its results, neither in the history
\* nor in a request; and no request is larger than the route takes
\* (`abefore_model`, `_units`, `_anchor_and_rest`).
SummaryIsWhole ==
    /\ summary.of \cup summary.lost = 1..cut
    /\ 1..cut \subseteq removals
    /\ ~IsResult(cut + 1)
    /\ asked.of # {} => ~IsResult(Min(asked.of)) /\ asked.size <= Budget
    /\ phase = "ask" => ~IsResult(Max(asked.of) + 1)

-----------------------------------------------------------------------------
(* The inductive invariant.                                                   *)

Summaries == [of: SUBSET Nat, lost: SUBSET Nat, size: SummarySizes \cup {0}]
Folding == {"chunk", "ask", "record", "apply"}

\* A thread begins with a person, and its last message is never summarised.
ThreadInOrder ==
    /\ said \in Seq([kind: {"person", "answer", "call", "result"}, size: Sizes \cup {1}])
    /\ phase \in {"person", "hook", "chunk", "ask", "record", "apply", "model", "tools", "stopped"}
    /\ said = << >> => phase = "person"
    /\ cut \in Nat /\ (cut = 0 \/ cut < Len(said))
    /\ ~IsResult(1) /\ ~IsResult(cut + 1)

\* The summary and the audit trail reach as far as the cut.
SummaryCovers ==
    /\ summary \in Summaries /\ summary.of \cup summary.lost = 1..cut
    /\ 1..cut \subseteq removals

\* A fold has summarised everything before its next message, and ends between
\* two units.
WorkCovers ==
    phase \in Folding =>
        /\ work \in [anchor: Summaries, next: Nat, to: Nat]
        /\ cut < work.to /\ work.to < Len(said) /\ ~IsResult(work.to + 1)
        /\ 1 <= work.next /\ work.next <= work.to + 1
        /\ work.anchor.of \cup work.anchor.lost = 1..(work.next - 1)
        /\ phase \in {"chunk", "ask"} => work.next <= work.to /\ ~IsResult(work.next)
        /\ phase \in {"record", "apply"} => work.next = work.to + 1
        /\ phase = "apply" => 1..work.to \subseteq removals

\* The last request is a run of whole units, and fits; while it is out it is the
\* next one of the fold.
RequestFits ==
    /\ asked.of # {} =>
           /\ asked.size <= Budget
           /\ \E a, b \in 1..Len(said) : a <= b /\ asked.of = a..b /\ ~IsResult(a)
    /\ phase = "ask" =>
           \E b \in work.next..work.to : asked.of = work.next..b /\ ~IsResult(b + 1)

FoldInv == ThreadInOrder /\ SummaryCovers /\ WorkCovers /\ RequestFits

\* A call is one of the messages the bound is on, its results follow it; a
\* request for a summary is within the ceiling.
CallsFit ==
    /\ \A i \in DOMAIN said : said[i].kind = "call" => i <= MaxSaid
    /\ phase = "tools" => \E i \in DOMAIN said : said[i].kind = "call"
    /\ phase = "ask" => charged < FoldCeiling

ThreadFits == FoldTypeOK /\ CallsFit
=============================================================================

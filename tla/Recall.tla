------------------------------- MODULE Recall --------------------------------
(* What a run is told of what its worker remembers: the rows a query chooses, *)
(* put in order by a vector store that is written and purged after the rows   *)
(* have committed (dw_memory service.py `recall`, ranking.py,                 *)
(* adapters/qdrant_ranker.py, retention.py; the worker's consumers/memory.py; *)
(* adapters/recalled_memory.py).                                              *)
(*                                                                            *)
(* A memory is numbered in the order of creation.  Tenant, workspace, worker, *)
(* clearance and subject are one flag: whether this run may be told.  How     *)
(* facts come to be written is MemoryOutbox; here a write is one commit and   *)
(* what its handler does after it.  The store's similarity is any order.      *)
(*                                                                            *)
(* Operators marked Mutant are wrong versions of the definition they precede; *)
(* no specification uses them.                                                *)
EXTENDS Naturals, Sequences, FiniteSets, Functions

CONSTANTS
    Plans,        \* what is written in turn: memories this run may be told or not,
                  \* that answer the one question or not, and how sure they are
    Handlers,     \* workers that deliver memory events
    Limit,        \* DEFAULT_RECALL_LIMIT
    Pool,         \* RANKING_POOL
    MaxOutages    \* bound on failures of the stores and on crashes

\* A query that will be ranked reads no less than is told.
ASSUME RecallAssumption ==
    /\ Plans \subseteq Seq([told: BOOLEAN, asks: BOOLEAN, confidence: Nat])
    /\ {Limit, Pool, MaxOutages} \subseteq Nat /\ Limit <= Pool

VARIABLES
    plan,         \* the one of the plans that is followed
    items,        \* memory.items, in order of creation
    vectors,      \* the memories with a point in the vector store
    handler,      \* where each handler stands after its commit
    expiry,       \* the memories a retention pass has deleted and not yet purged
    recall,       \* the call of `recall` that is under way
    leftover,     \* history: points whose purge failed or was overtaken
    outages

recallVars == <<plan, items, vectors, handler, expiry, recall, leftover, outages>>

Ids == DOMAIN items
Live == {i \in Ids : items[i].valid = "live"}
AtRest == [at |-> "idle", item |-> 0, closes |-> {}, open |-> FALSE]
NoRecall == [at |-> "idle", found |-> << >>, could |-> {}, ranks |-> FALSE, known |-> {}]
Outage == outages < MaxOutages /\ outages' = outages + 1

RecallTypeOK ==
    /\ items \in Seq([valid: {"live", "closed", "gone"}, kind: Range(plan)])
    /\ plan \in Plans /\ Len(items) <= Len(plan)
    /\ vectors \cup expiry \cup leftover \subseteq Ids
    /\ \A h \in Handlers :
           /\ handler[h].at \in {"idle", "purge", "index"}
           /\ handler[h].item \in Ids \cup {0} /\ handler[h].closes \subseteq Ids
    /\ recall.at \in {"idle", "ranking", "told"} /\ Range(recall.found) \subseteq Ids
    /\ outages \in 0..MaxOutages

RecallInit ==
    /\ plan \in Plans /\ items = << >> /\ vectors = {} /\ handler = [h \in Handlers |-> AtRest]
    /\ expiry = {} /\ recall = NoRecall /\ leftover = {} /\ outages = 0

-----------------------------------------------------------------------------
(* Writing: the handlers of the worker, after the transaction.                *)

\* A memory is committed, closing the live answers to its question.
Commit(h) ==
    LET kind == plan[Len(items) + 1]
        closes == {i \in Live : kind.asks /\ items[i].kind.asks}
        new == [valid |-> "live", kind |-> kind]
    IN  /\ handler[h].at = "idle" /\ Len(items) < Len(plan)
        /\ items' = Append([i \in Ids |-> IF i \in closes THEN [items[i] EXCEPT !.valid = "closed"]
                                          ELSE items[i]], new)
        /\ handler' = [handler EXCEPT ![h] = [at |-> "purge", item |-> Len(items) + 1,
                                              closes |-> closes, open |-> TRUE]]
        /\ UNCHANGED <<plan, vectors, expiry, recall, leftover, outages>>

\* A redelivery is answered with the row as it is now.
Redelivered(h, i) ==
    /\ handler[h].at = "idle" /\ items[i].valid # "gone"
    /\ handler' = [handler EXCEPT ![h] = [at |-> "index", item |-> i, closes |-> {},
                                          open |-> items[i].valid = "live"]]
    /\ UNCHANGED <<plan, items, vectors, expiry, recall, leftover, outages>>

\* `_purge_vectors`: a store that is down is logged, and nobody tries again.
PurgeClosed(h) ==
    /\ handler[h].at = "purge" /\ handler' = [handler EXCEPT ![h].at = "index"]
    /\ \/ vectors' = vectors \ handler[h].closes /\ UNCHANGED <<leftover, outages>>
       \/ /\ Outage /\ UNCHANGED vectors
          /\ leftover' = leftover \cup (handler[h].closes \cap vectors)
    /\ UNCHANGED <<plan, items, expiry, recall>>

\* Mutant: a redelivery indexes what it is answered with.
IndexAnyway(h) == TRUE

\* The guard of both handlers: the row they were answered with was not closed.
MayIndex(h) == handler[h].open

\* `index`: by now the row may have been closed or deleted, and its purge done.
Index(h) ==
    LET i == handler[h].item
    IN  /\ handler[h].at = "index" /\ handler' = [handler EXCEPT ![h] = AtRest]
        /\ \/ /\ vectors' = IF MayIndex(h) THEN vectors \cup {i} ELSE vectors
              /\ leftover' = IF handler[h].open /\ i \notin Live THEN leftover \cup {i} ELSE leftover
              /\ UNCHANGED outages
           \/ Outage /\ UNCHANGED <<vectors, leftover>>
        /\ UNCHANGED <<plan, items, expiry, recall>>

\* The worker dies: the redelivery finds the memory decided and purges nothing.
Crash(h) ==
    /\ handler[h].at # "idle" /\ Outage /\ handler' = [handler EXCEPT ![h] = AtRest]
    /\ leftover' = leftover \cup (handler[h].closes \cap vectors)
    /\ UNCHANGED <<plan, items, vectors, expiry, recall>>

-----------------------------------------------------------------------------
(* Retention.                                                                 *)

\* `_delete_batch`: rows past their term, live or closed.
ExpireItems(due) ==
    /\ expiry = {} /\ due # {} /\ \A i \in due : items[i].valid # "gone"
    /\ items' = [i \in Ids |-> IF i \in due THEN [items[i] EXCEPT !.valid = "gone"] ELSE items[i]]
    /\ expiry' = due
    /\ UNCHANGED <<plan, vectors, handler, recall, leftover, outages>>

\* `_purge_vectors`; the next pass selects by row and never sees these again.
PurgeExpired ==
    /\ expiry # {} /\ expiry' = {}
    /\ \/ vectors' = vectors \ expiry /\ UNCHANGED <<leftover, outages>>
       \/ Outage /\ leftover' = leftover \cup (expiry \cap vectors) /\ UNCHANGED vectors
    /\ UNCHANGED <<plan, items, handler, recall>>

-----------------------------------------------------------------------------
(* Reading.                                                                   *)

\* How many of S there are, up to n.
AtMost(S, n) == IF Cardinality(S) < n THEN Cardinality(S) ELSE n

\* The first n of S in an order, as a sequence.
First(S, n, Ahead(_, _)) ==
    {s \in [1..AtMost(S, n) -> S] :
        /\ IsInjective(s)
        /\ \A l, m \in DOMAIN s : l < m => Ahead(s[l], s[m])
        /\ \A i \in S \ Range(s), m \in DOMAIN s : Ahead(s[m], i)}

\* The order of the query: confidence, then recency.
Before(i, j) ==
    \/ items[i].kind.confidence > items[j].kind.confidence
    \/ items[i].kind.confidence = items[j].kind.confidence /\ i > j

\* The query of `recall`, which reads wider when something will reorder it.
Query(ranks) ==
    LET could == {i \in Live : items[i].kind.told}
    IN  /\ recall = NoRecall
        /\ \E rows \in First(could, IF ranks THEN Pool ELSE Limit, Before) :
               recall' = [at |-> "ranking", found |-> rows, could |-> could, ranks |-> ranks,
                          known |-> {}]
        /\ UNCHANGED <<plan, items, vectors, handler, expiry, leftover, outages>>

\* A run that is about no record, and a query that fails: nothing is recalled.
RecallNothing ==
    /\ recall = NoRecall /\ recall' = [NoRecall EXCEPT !.at = "told"]
    /\ UNCHANGED <<plan, items, vectors, handler, expiry, leftover, outages>>

\* The sort key of `rank_by`: what the order does not have comes after it.
Place(order, i) == IF i \in Range(order) THEN CHOOSE m \in DOMAIN order : order[m] = i
                   ELSE Len(order) + 1

\* `rank_by`: a stable sort of what the query found.
RankedAhead(order, i, j) ==
    \/ Place(order, i) < Place(order, j)
    \/ Place(order, i) = Place(order, j) /\ Place(recall.found, i) < Place(recall.found, j)

\* `nearest`: the points among what was found, in some order; nothing without a
\* ranker, or from one that fails.
Nearest ==
    LET known == vectors \cap Range(recall.found)
    IN  {<< >>} \cup IF recall.ranks
                    THEN {s \in [1..Cardinality(known) -> known] : IsInjective(s)}
                    ELSE {}

\* `_ordered`, by the points there are by now, and the cap.
Ordered ==
    /\ recall.at = "ranking"
    /\ \E order \in Nearest :
           LET Ahead(i, j) == RankedAhead(order, i, j)
           IN  \E told \in First(Range(recall.found), Limit, Ahead) :
                   recall' = [recall EXCEPT !.at = "told", !.known = Range(order), !.found = told]
    /\ UNCHANGED <<plan, items, vectors, handler, expiry, leftover, outages>>

Told ==
    /\ recall.at = "told" /\ recall' = NoRecall
    /\ UNCHANGED <<plan, items, vectors, handler, expiry, leftover, outages>>

RecallNext ==
    \/ \E h \in Handlers :
           \/ \E i \in Ids : Redelivered(h, i)
           \/ Commit(h) \/ PurgeClosed(h) \/ Index(h) \/ Crash(h)
    \/ \E due \in SUBSET Ids : ExpireItems(due)
    \/ PurgeExpired
    \/ \E ranks \in BOOLEAN : Query(ranks)
    \/ RecallNothing \/ Ordered \/ Told

RecallSpec == RecallInit /\ [][RecallNext]_recallVars

-----------------------------------------------------------------------------
\* A point is the embedding of a memory that is live, unless its purge is still
\* to come or failed, or its memory was closed between the commit and the
\* indexing (`build_memory_handler`, `_purge_vectors`).
PointsExplained ==
    \A i \in vectors \ leftover :
        i \in Live \cup expiry \cup UNION {handler[h].closes : h \in Handlers}

\* An answer holds what the run could be told when it asked, each memory once,
\* as many as fit, with those the store did not order in the order of the query,
\* so that no state of the store hides a fact or shows another (`recall`,
\* `rank_by`).
AnswerIsWhole ==
    recall.at = "told" /\ recall.could # {} =>
        LET told == recall.found
        IN  /\ IsInjective(told) /\ Range(told) \subseteq recall.could
            /\ Len(told) = AtMost(recall.could, Limit)
            /\ \A m, n \in DOMAIN told :
                   m < n /\ told[m] \notin recall.known => told[n] \notin recall.known
            /\ \A i \in recall.could \ Range(told), j \in Range(told) \ recall.known :
                   Before(j, i) \/ i \in recall.known

RecallIsExact == PointsExplained /\ AnswerIsWhole

-----------------------------------------------------------------------------
(* The inductive invariant.                                                   *)

\* A handler that is under way has a row; what it closed is not live again, and
\* a point of that is left over once its purge is done.
HandlersKeepUp ==
    /\ handler \in [Handlers -> [at: {"idle", "purge", "index"}, item: Nat, closes: SUBSET Ids,
                                 open: BOOLEAN]]
    /\ \A h \in Handlers :
          /\ IF handler[h].at = "idle" THEN handler[h] = AtRest ELSE handler[h].item \in Ids
          /\ handler[h].closes \cap Live = {}
          /\ handler[h].at = "index" => handler[h].closes \cap vectors \subseteq leftover

\* What was found is the beginning of what could be told.
FoundIsFirst ==
    /\ recall.could \subseteq Ids
    /\ recall.at = "ranking" =>
          /\ recall \in [at: {"ranking"}, found: Seq(Ids), could: SUBSET Ids, ranks: BOOLEAN,
                         known: {{}}]
          /\ recall.found \in First(recall.could, IF recall.ranks THEN Pool ELSE Limit, Before)

RecallInv == RecallTypeOK /\ HandlersKeepUp /\ FoundIsFirst /\ RecallIsExact
=============================================================================

------------------------------ MODULE Listings -------------------------------
(***************************************************************************)
(* A listing read page by page while its table changes (pagination.py,     *)
(* keyset.py and the five listings built on them: approvals, audit,        *)
(* feedback, documents, memories).  The rows come in through the feedback  *)
(* form, which stores a report's screenshots before it writes the row      *)
(* (routes/v1/feedback.py).                                                *)
(*                                                                         *)
(* A row's sort value is the database's clock at the start of the          *)
(* transaction that inserts it, so rows tie and rows are committed out of  *)
(* order; ids are random.  The cursor is the position and the query it was *)
(* issued for; its encoding is left out.  A row leaves a listing when it   *)
(* is decided, superseded, deleted or swept.                               *)
(*                                                                         *)
(* Operators marked Mutant are wrong versions of the definition they       *)
(* precede; no specification uses them.                                    *)
(***************************************************************************)
EXTENDS Naturals, FiniteSets

CONSTANTS
    ReportIds,  \* row ids, numbers; their order has nothing to do with time
    Queries,    \* an endpoint and its filters; a row is in one listing
    MaxImages,  \* screenshots of one report
    PageSizes,  \* the limits a client may ask for
    MaxClock    \* bound on the clock

ASSUME ListingAssumption ==
    /\ ReportIds \subseteq Nat /\ IsFiniteSet(ReportIds)
    /\ MaxImages \in Nat /\ MaxClock \in Nat \ {0} /\ PageSizes \subseteq Nat \ {0}

VARIABLES
    clock,    \* the database's clock
    forms,    \* reports that are being submitted
    objects,  \* screenshots in the bucket
    table,    \* the rows that are committed
    gone,     \* rows that have left their listing
    walk      \* the client's way through a listing

listingVars == <<clock, forms, objects, table, gone, walk>>

Form == [at: {"storing", "writing"}, stored: 0..MaxImages, stamp: 0..MaxClock, query: Queries]
Entry == [stamp: 1..MaxClock, query: Queries]
Nowhere == [stamp |-> 0, id |-> 0]

ListingTypeOK ==
    /\ clock \in 1..MaxClock
    /\ DOMAIN forms \subseteq ReportIds /\ \A i \in DOMAIN forms : forms[i] \in Form
    /\ objects \subseteq ReportIds \X (1..MaxImages)
    /\ DOMAIN table \subseteq ReportIds /\ \A i \in DOMAIN table : table[i] \in Entry
    /\ gone \subseteq ReportIds
    /\ walk.at \in {"first", "more", "done"} /\ walk.query \in Queries
    /\ walk.steady \cup walk.seen \cup walk.twice \subseteq ReportIds

\* A walk remembers where the last page ended, what it was given, and, for the
\* properties, the rows that have been in its listing since it began.
Fresh(q) == [at |-> "first", query |-> q, after |-> Nowhere, steady |-> {}, seen |-> {},
             twice |-> {}]

ListingInit ==
    /\ clock = 1 /\ forms = << >> /\ objects = {} /\ table = << >> /\ gone = {}
    /\ walk \in {Fresh(q) : q \in Queries}

Without(f, i) == [j \in DOMAIN f \ {i} |-> f[j]]
With(f, i, v) == [j \in DOMAIN f \cup {i} |-> IF j = i THEN v ELSE f[j]]

-----------------------------------------------------------------------------
(***************************************************************************)
(* Submitting a report.                                                    *)
(***************************************************************************)

\* The screenshots are all read and judged before the first is stored.
Submit(i, q) ==
    /\ i \notin DOMAIN forms \cup DOMAIN table \cup gone
    /\ forms' = With(forms, i, [at |-> "storing", stored |-> 0, stamp |-> 0, query |-> q])
    /\ UNCHANGED <<clock, objects, table, gone, walk>>

Store(i) ==
    /\ forms[i].at = "storing" /\ forms[i].stored < MaxImages
    /\ objects' = objects \cup {<<i, forms[i].stored + 1>>}
    /\ forms' = [forms EXCEPT ![i].stored = @ + 1]
    /\ UNCHANGED <<clock, table, gone, walk>>

\* _store_all: what was stored is removed, as far as that succeeds, and the
\* request fails.
StoreFails(i) ==
    /\ forms[i].at = "storing" /\ forms[i].stored < MaxImages
    /\ \E kept \in SUBSET {<<i, n>> : n \in 1..forms[i].stored} :
          objects' = (objects \ ({i} \X (1..MaxImages))) \cup kept
    /\ forms' = Without(forms, i) /\ gone' = gone \cup {i}
    /\ UNCHANGED <<clock, table, walk>>

\* The transaction begins once every object is stored: the report and its
\* attachment rows, one commit.
WriteReport(i) ==
    /\ forms[i].at = "storing" /\ forms[i].stored = MaxImages
    /\ forms' = [forms EXCEPT ![i].at = "writing", ![i].stamp = clock]
    /\ UNCHANGED <<clock, objects, table, gone, walk>>

CommitReport(i) ==
    /\ forms[i].at = "writing"
    /\ table' = With(table, i, [stamp |-> forms[i].stamp, query |-> forms[i].query])
    /\ forms' = Without(forms, i)
    /\ UNCHANGED <<clock, objects, gone, walk>>

\* The process dies or the transaction is refused: the objects are left over.
Abandon(i) ==
    /\ forms' = Without(forms, i) /\ gone' = gone \cup {i}
    /\ UNCHANGED <<clock, objects, table, walk>>

\* A row no longer matches its listing.
Leave(i) ==
    /\ i \in DOMAIN table /\ table' = Without(table, i) /\ gone' = gone \cup {i}
    /\ walk' = [walk EXCEPT !.steady = @ \ {i}]
    /\ UNCHANGED <<clock, forms, objects>>

ClockTick ==
    /\ clock < MaxClock /\ clock' = clock + 1
    /\ UNCHANGED <<forms, objects, table, gone, walk>>

-----------------------------------------------------------------------------
(***************************************************************************)
(* Reading it.                                                             *)
(***************************************************************************)

Position(i) == [stamp |-> table[i].stamp, id |-> i]

\* newest_first: by the sort value, ties by the id, both descending.
Newer(a, b) == a.stamp > b.stamp \/ (a.stamp = b.stamp /\ a.id > b.id)

\* Mutant: the cursor remembers the sort value only.
AfterPositionByStamp(q, after) ==
    {i \in DOMAIN table : table[i].query = q
                          /\ (after = Nowhere \/ after.stamp > table[i].stamp)}

\* after_position: strictly past the row the last page ended on.
AfterPosition(q, after) ==
    {i \in DOMAIN table : table[i].query = q
                          /\ (after = Nowhere \/ Newer(after, Position(i)))}

\* The first n rows of a set, in the order of the listing.
Foremost(n, S) == {i \in S : Cardinality({j \in S : Newer(Position(j), Position(i))}) < n}

\* build_page: one row more than asked for tells whether there is another page,
\* and the last row kept is where that one resumes.
Page(q, after, limit) ==
    LET fetched == Foremost(limit + 1, AfterPosition(q, after))
        kept == Foremost(limit, fetched)
    IN  [items |-> kept,
         next |-> IF Cardinality(fetched) > limit
                  THEN Position(CHOOSE i \in kept : \A j \in kept \ {i} :
                                    Newer(Position(j), Position(i)))
                  ELSE Nowhere]

\* One call: no cursor on the first page, the last one's after that.  The page
\* size may change between two calls.
ListPage(limit) ==
    /\ walk.at # "done"
    /\ LET page == Page(walk.query, walk.after, limit)
       IN  walk' = [walk EXCEPT
               !.at = IF page.next = Nowhere THEN "done" ELSE "more",
               !.after = page.next,
               !.steady = IF walk.at = "first"
                          THEN {i \in DOMAIN table : table[i].query = walk.query} ELSE @,
               !.seen = @ \cup page.items,
               !.twice = @ \cup (walk.seen \cap page.items)]
    /\ UNCHANGED <<clock, forms, objects, table, gone>>

\* Another query: the fingerprint refuses the cursor of the old one, and the
\* client begins again.
ChangeQuery(q) ==
    /\ q # walk.query /\ walk' = Fresh(q)
    /\ UNCHANGED <<clock, forms, objects, table, gone>>

ListingNext ==
    \/ ClockTick
    \/ \E i \in ReportIds, q \in Queries : Submit(i, q)
    \/ \E i \in DOMAIN forms : \/ Store(i) \/ StoreFails(i) \/ WriteReport(i)
                              \/ CommitReport(i) \/ Abandon(i)
    \/ \E i \in ReportIds : Leave(i)
    \/ \E limit \in PageSizes : ListPage(limit)
    \/ \E q \in Queries : ChangeQuery(q)

ListingSpec == ListingInit /\ [][ListingNext]_listingVars

-----------------------------------------------------------------------------
(***************************************************************************)
(* Properties.                                                             *)
(***************************************************************************)

\* A client that follows the cursors to the end has been given every row that
\* was in the listing all the while, whatever was inserted, committed late or
\* taken out meanwhile, no row twice, and none without its screenshots: an
\* object may be left over from a report that failed, never the other way round
\* (build_page, after_position, newest_first, _store_all).
PagesAreExact ==
    /\ walk.twice = {}
    /\ walk.at = "done" => walk.steady \subseteq walk.seen
    /\ \A i \in walk.seen : {i} \X (1..MaxImages) \subseteq objects

-----------------------------------------------------------------------------
(***************************************************************************)
(* The inductive invariant.                                                *)
(***************************************************************************)

\* A form is no row yet, its screenshots so far are stored, and its stamp is a
\* time once the transaction has begun.
FormsInOrder ==
    \A i \in DOMAIN forms :
        /\ i \notin DOMAIN table \cup gone
        /\ {i} \X (1..forms[i].stored) \subseteq objects
        /\ forms[i].at = "writing" => forms[i].stored = MaxImages /\ forms[i].stamp > 0

\* What is or was listed keeps its screenshots, and what has left stays away.
RowsInOrder ==
    /\ DOMAIN table \cap gone = {} /\ walk.seen \subseteq DOMAIN table \cup gone
    /\ \A i \in DOMAIN table \cup walk.seen : {i} \X (1..MaxImages) \subseteq objects

\* The cursor divides the rows that were there all the while: those before it
\* were given, those after it were not.
CursorDivides ==
    /\ walk \in [at: {"first", "more", "done"}, query: Queries,
                 after: [stamp: Nat, id: Nat], steady: SUBSET ReportIds,
                 seen: SUBSET ReportIds, twice: SUBSET ReportIds]
    /\ walk.twice = {}
    /\ \A i \in walk.steady : i \in DOMAIN table /\ table[i].query = walk.query
    /\ walk.at = "first" => walk.seen = {} /\ walk.steady = {} /\ walk.after = Nowhere
    /\ walk.at = "more" =>
           /\ walk.after.stamp > 0
           /\ \A i \in walk.steady \ walk.seen : Newer(walk.after, Position(i))
           /\ \A i \in walk.seen \cap DOMAIN table : ~Newer(walk.after, Position(i))
    /\ walk.at = "done" => walk.steady \subseteq walk.seen

ListingInv == ListingTypeOK /\ FormsInOrder /\ RowsInOrder /\ CursorDivides
=============================================================================

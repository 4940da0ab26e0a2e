------------------------------ MODULE Knowledge ------------------------------
(***************************************************************************)
(* The knowledge plane: one logical document (a doc_key), its versions,    *)
(* and the two stores that hold them.  The rows and chunks are in          *)
(* Postgres, the points that search reads in the vector index.             *)
(* KnowledgeGateway.ingest_document (gateway.py) writes the one in a       *)
(* transaction and then the other in several calls; soft_delete_document   *)
(* does the same the other way round; SqlKnowledgeRetention (retention.py) *)
(* removes what was deleted long enough ago, points first; evidence that a *)
(* memory cites (adapters/evidence_store.py) holds a document back.        *)
(*                                                                         *)
(* A pass is one attempt of the worker's ingest job.  Where a call raises  *)
(* or the process dies the job is queued again and the next attempt starts *)
(* from the top.  A text stands for the chunks it is split into; two texts *)
(* share chunk ids as far as the shorter one goes, so that an upsert may   *)
(* or may not overwrite what another text left.                            *)
(*                                                                         *)
(* Operators marked Mutant are wrong versions of the definition they       *)
(* precede; no specification uses them.                                    *)
(***************************************************************************)
EXTENDS Naturals, FiniteSets

CONSTANTS
    Versions,      \* the versions of the document, each a row id
    Texts,         \* what a file can say
    Passes,        \* ingest calls that can run at once
    Nil,           \* absence of a version or a text
    Environments,  \* what a behaviour may meet, see Disturbances
    MaxCrashes,    \* bound on calls that raise and processes that die
    MaxTurns       \* bound on uploads, deletions and citations

Disturbances == {"fault",    \* a call raises or the process dies
                 "overlap"}  \* two users of the document at once

ASSUME LibraryAssumption == {MaxCrashes, MaxTurns} \subseteq Nat

VARIABLES
    documents,  \* knowledge.documents: status, is_current, past the grace
    chunks,     \* knowledge.chunks: the text of each version, none or one
    stored,     \* the object store's copy of each version
    points,     \* the vector index: <<text, is_deleted>> of each version
    evidence,   \* the versions that evidence cites
    pass,       \* the ingest calls
    erasing,    \* soft deletes committed in Postgres, not yet in the index
    sweep,      \* the retention pass
    whole,      \* the versions whose latest ingest job succeeded
    crossed,    \* the versions written again after a sweep had chosen them
    crashes,    \* how many faults have happened
    turns,      \* how often people and memories have used the document
    env         \* the disturbances of this behaviour

libraryVars == <<documents, chunks, stored, points, evidence, pass, erasing, sweep, whole, crashes,
                 turns, crossed, env>>

DocumentRows == [status: {"absent", "active", "superseded", "deleted"}, current: BOOLEAN,
                 expired: BOOLEAN]

AtMostOne(S) == {T \in SUBSET S : Cardinality(T) <= 1}

\* version and text are the command's, superseded what the transaction returned.
PassStates == [at: {"idle", "queued", "put", "write", "hide", "drop", "embed", "upsert"},
               version: Versions \cup {Nil}, text: Texts \cup {Nil},
               superseded: SUBSET Versions]

LibraryTypeOK ==
    /\ documents \in [Versions -> DocumentRows]
    /\ chunks \in [Versions -> AtMostOne(Texts)]
    /\ stored \in [Versions -> AtMostOne(Texts)]
    /\ points \in [Versions -> SUBSET (Texts \X BOOLEAN)]
    /\ evidence \subseteq Versions
    /\ pass \in [Passes -> PassStates]
    /\ erasing \subseteq Versions
    /\ sweep \in [at: {"idle", "vectors", "rows"}, doomed: SUBSET Versions,
                  left: SUBSET Versions]
    /\ whole \subseteq Versions
    /\ crossed \subseteq Versions
    /\ crashes \in 0..MaxCrashes
    /\ turns \in 0..MaxTurns
    /\ env \in Environments

Absent == [status |-> "absent", current |-> FALSE, expired |-> FALSE]
NoPass == [at |-> "idle", version |-> Nil, text |-> Nil, superseded |-> {}]
NoSweep == [at |-> "idle", doomed |-> {}, left |-> {}]

LibraryInit ==
    /\ documents = [v \in Versions |-> Absent]
    /\ chunks = [v \in Versions |-> {}]
    /\ stored = [v \in Versions |-> {}]
    /\ points = [v \in Versions |-> {}]
    /\ evidence = {}
    /\ pass = [p \in Passes |-> NoPass]
    /\ erasing = {}
    /\ sweep = NoSweep
    /\ whole = {}
    /\ crossed = {}
    /\ crashes = 0
    /\ turns = 0
    /\ env \in Environments

Quiet == (\A p \in Passes : pass[p].at = "idle") /\ erasing = {} /\ sweep.at = "idle"

\* Somebody else may use the document now.
MayOverlap == Quiet \/ "overlap" \in env

TakesTurn == turns < MaxTurns /\ turns' = turns + 1

Crashes == "fault" \in env /\ crashes < MaxCrashes /\ crashes' = crashes + 1

-----------------------------------------------------------------------------
(***************************************************************************)
(* The vector index.                                                       *)
(***************************************************************************)

\* tombstone_document: the points there are get the mark.
Tombstone(v) == points' = [points EXCEPT ![v] = {<<pt[1], TRUE>> : pt \in @}]

\* delete_document.
DeletePoints(v) == points' = [points EXCEPT ![v] = {}]

\* upsert: the text's points, unmarked; those of another text may be
\* overwritten.
UpsertPoints(v, text) ==
    \E kept \in SUBSET {pt \in points[v] : pt[1] # text} :
        points' = [points EXCEPT ![v] = kept \cup {<<text, FALSE>>}]

\* search: never a point that is marked.
Found(v) == {pt[1] : pt \in {q \in points[v] : ~q[2]}}

-----------------------------------------------------------------------------
(***************************************************************************)
(* ingest_document.                                                        *)
(***************************************************************************)

GotoStage(p, step) == pass' = [pass EXCEPT ![p].at = step]

\* The upload is queued: an ingest job for one version and one text.
Enqueue(p, v, t) ==
    /\ TakesTurn
    /\ pass[p].at = "idle" /\ MayOverlap
    /\ pass' = [pass EXCEPT ![p] = [at |-> "queued", version |-> v, text |-> t,
                                    superseded |-> {}]]
    /\ UNCHANGED <<documents, chunks, stored, points, evidence, erasing, sweep, whole, crashes,
                   crossed, env>>

\* The worker takes the job up.
TakeUp(p) ==
    /\ pass[p].at = "queued"
    /\ GotoStage(p, "put")
    /\ whole' = whole \ {pass[p].version}
    /\ UNCHANGED <<documents, chunks, stored, points, evidence, erasing, sweep, crashes, turns,
                   crossed, env>>

PutObject(p) ==
    /\ pass[p].at = "put"
    /\ stored' = [stored EXCEPT ![pass[p].version] = {pass[p].text}]
    /\ GotoStage(p, "write")
    /\ UNCHANGED <<documents, chunks, points, evidence, erasing, sweep, whole, crashes, turns,
                   crossed, env>>

\* The transaction: the other current versions are superseded, this one is
\* active and current whatever it was, and its chunks are replaced.
WriteRows(p) ==
    /\ pass[p].at = "write" /\ pass[p].version \notin evidence
    /\ LET v == pass[p].version
           old == {u \in Versions \ {v} : documents[u].current}
       IN
       /\ documents' = [u \in Versions |->
                      IF u = v THEN [status |-> "active", current |-> TRUE, expired |-> FALSE]
                      ELSE IF u \in old
                           THEN [documents[u] EXCEPT !.status = "superseded", !.current = FALSE]
                           ELSE documents[u]]
       /\ chunks' = [chunks EXCEPT ![v] = {pass[p].text}]
       /\ pass' = [pass EXCEPT ![p].at = "hide", ![p].superseded = old]
       /\ crossed' = crossed \cup ({v} \cap sweep.doomed)
    /\ UNCHANGED <<stored, points, evidence, erasing, sweep, whole, crashes, turns, env>>

\* Evidence cites a chunk of this version, so its chunks cannot be deleted:
\* the transaction is rolled back and the job is put off.
WriteRefused(p) ==
    /\ pass[p].at = "write" /\ pass[p].version \in evidence
    /\ GotoStage(p, "queued")
    /\ UNCHANGED <<documents, chunks, stored, points, evidence, erasing, sweep, whole, crashes,
                   turns, crossed, env>>

\* The superseded versions one by one.
HideSuperseded(p) ==
    /\ pass[p].at = "hide"
    /\ \/ \E u \in pass[p].superseded :
              /\ Tombstone(u)
              /\ pass' = [pass EXCEPT ![p].superseded = @ \ {u}]
       \/ /\ pass[p].superseded = {}
          /\ GotoStage(p, "drop")
          /\ UNCHANGED points
    /\ UNCHANGED <<documents, chunks, stored, evidence, erasing, sweep, whole, crashes, turns,
                   crossed, env>>

\* This version's own points are rebuilt.
DropPoints(p) ==
    /\ pass[p].at = "drop"
    /\ DeletePoints(pass[p].version)
    /\ GotoStage(p, "embed")
    /\ UNCHANGED <<documents, chunks, stored, evidence, erasing, sweep, whole, crashes, turns,
                   crossed, env>>

Embed(p) ==
    /\ pass[p].at = "embed"
    /\ GotoStage(p, "upsert")
    /\ UNCHANGED <<documents, chunks, stored, points, evidence, erasing, sweep, whole, crashes,
                   turns, crossed, env>>

\* The points are written and the job is done.
Upsert(p) ==
    /\ pass[p].at = "upsert"
    /\ UpsertPoints(pass[p].version, pass[p].text)
    /\ pass' = [pass EXCEPT ![p] = NoPass]
    /\ whole' = whole \cup {pass[p].version}
    /\ UNCHANGED <<documents, chunks, stored, evidence, erasing, sweep, crashes, turns, crossed,
                   env>>

\* A call raises, or the process dies: the next attempt starts from the top.
PassFails(p) ==
    /\ pass[p].at \notin {"idle", "queued"} /\ Crashes
    /\ pass' = [pass EXCEPT ![p].at = "queued", ![p].superseded = {}]
    /\ UNCHANGED <<documents, chunks, stored, points, evidence, erasing, sweep, whole, turns,
                   crossed, env>>

\* The job is out of attempts.
GiveUpPass(p) ==
    /\ pass[p].at = "queued"
    /\ pass' = [pass EXCEPT ![p] = NoPass]
    /\ UNCHANGED <<documents, chunks, stored, points, evidence, erasing, sweep, whole, crashes,
                   turns, crossed, env>>

Ingest(p) ==
    \/ TakeUp(p) \/ PutObject(p) \/ WriteRows(p) \/ WriteRefused(p) \/ HideSuperseded(p)
    \/ DropPoints(p) \/ Embed(p) \/ Upsert(p) \/ PassFails(p) \/ GiveUpPass(p)

-----------------------------------------------------------------------------
(***************************************************************************)
(* soft_delete_document, evidence, retention.                              *)
(***************************************************************************)

\* The rows first, in a transaction.
SoftDelete(v) ==
    /\ TakesTurn
    /\ MayOverlap /\ v \notin erasing /\ documents[v].status # "absent"
    /\ documents' = [documents EXCEPT ![v] = [status |-> "deleted", current |-> FALSE,
                                              expired |-> FALSE]]
    /\ erasing' = erasing \cup {v}
    /\ UNCHANGED <<chunks, stored, points, evidence, pass, sweep, whole, crashes, crossed, env>>

\* Then the points, unless that call fails; the caller hears of it.
Erase(v) ==
    /\ v \in erasing
    /\ erasing' = erasing \ {v}
    /\ \/ Tombstone(v) /\ UNCHANGED crashes
       \/ Crashes /\ UNCHANGED points
    /\ UNCHANGED <<documents, chunks, stored, evidence, pass, sweep, whole, turns, crossed, env>>

\* SqlEvidenceStore.record: a memory cites a chunk that is there.
Cite(v) ==
    /\ TakesTurn
    /\ chunks[v] # {}
    /\ evidence' = evidence \cup {v}
    /\ UNCHANGED <<documents, chunks, stored, points, pass, erasing, sweep, whole, crashes,
                   crossed, env>>

\* _delete_orphan_evidence: no memory cites it any more.
Uncite(v) ==
    /\ evidence' = evidence \ {v}
    /\ UNCHANGED <<documents, chunks, stored, points, pass, erasing, sweep, whole, crashes, turns,
                   crossed, env>>

\* The grace is over.  It is days, and outlasts every call under way.
GraceEnds(v) ==
    /\ documents[v].status = "deleted" /\ v \notin erasing
    /\ \A p \in Passes : pass[p].at # "idle" => pass[p].version # v
    /\ documents' = [documents EXCEPT ![v].expired = TRUE]
    /\ UNCHANGED <<chunks, stored, points, evidence, pass, erasing, sweep, whole, crashes,
                   turns, crossed, env>>

\* _candidates: past the grace and not cited.
Candidates ==
    /\ sweep.at = "idle" /\ MayOverlap
    /\ LET doomed == {v \in Versions : documents[v].expired /\ v \notin evidence} IN
       /\ doomed # {}
       /\ sweep' = [at |-> "vectors", doomed |-> doomed, left |-> doomed]
    /\ UNCHANGED <<documents, chunks, stored, points, evidence, pass, erasing, whole, crashes,
                   turns, crossed, env>>

\* The points of the candidates, one by one.
SweepVectors ==
    /\ sweep.at = "vectors"
    /\ \/ \E v \in sweep.left :
              /\ DeletePoints(v)
              /\ sweep' = [sweep EXCEPT !.left = @ \ {v}]
       \/ /\ sweep.left = {}
          /\ sweep' = [sweep EXCEPT !.at = "rows"]
          /\ UNCHANGED points
    /\ UNCHANGED <<documents, chunks, stored, evidence, pass, erasing, whole, crashes, turns,
                   crossed, env>>

\* Mutant: the rows are deleted while the points are still being dropped.
DeleteRowsFirst ==
    /\ sweep.at \in {"vectors", "rows"}
    /\ LET gone == sweep.doomed \ evidence IN
       /\ documents' = [v \in Versions |-> IF v \in gone THEN Absent ELSE documents[v]]
       /\ chunks' = [v \in Versions |-> IF v \in gone THEN {} ELSE chunks[v]]
       /\ whole' = whole \ gone
    /\ sweep' = NoSweep
    /\ UNCHANGED <<stored, points, evidence, pass, erasing, crashes, turns, crossed, env>>

\* _delete: the candidates that nobody has cited meanwhile; the chunks cascade.
DeleteRows ==
    /\ sweep.at = "rows"
    /\ LET gone == sweep.doomed \ evidence IN
       /\ documents' = [v \in Versions |-> IF v \in gone THEN Absent ELSE documents[v]]
       /\ chunks' = [v \in Versions |-> IF v \in gone THEN {} ELSE chunks[v]]
       /\ whole' = whole \ gone
    /\ sweep' = NoSweep
    /\ UNCHANGED <<stored, points, evidence, pass, erasing, crashes, turns, crossed, env>>

\* A call raises or the worker dies; the next sweep starts over.
PurgeFails ==
    /\ sweep.at # "idle" /\ Crashes
    /\ sweep' = NoSweep
    /\ UNCHANGED <<documents, chunks, stored, points, evidence, pass, erasing, whole, turns,
                   crossed, env>>

LibraryNext ==
    \/ \E p \in Passes : Ingest(p) \/ \E v \in Versions, t \in Texts : Enqueue(p, v, t)
    \/ \E v \in Versions : SoftDelete(v) \/ Erase(v) \/ Cite(v) \/ Uncite(v) \/ GraceEnds(v)
    \/ Candidates \/ SweepVectors \/ DeleteRows \/ PurgeFails

LibrarySpec == LibraryInit /\ [][LibraryNext]_libraryVars

-----------------------------------------------------------------------------
(***************************************************************************)
(* Properties.                                                             *)
(***************************************************************************)

\* read_document: the chunks of an active document.
Read(v) == IF documents[v].status = "active" THEN chunks[v] ELSE {}

\* The two stores agree about every version whose last ingest succeeded: what
\* search finds of the current version is what a full read of it returns,
\* though the writes were a transaction and four calls, and any number of
\* attempts died between them.
StoresAgree ==
    Quiet /\ "overlap" \notin env =>
        \A v \in whole : documents[v].current => Found(v) = Read(v) /\ Found(v) = stored[v]

\* A document whose row is gone has no points left, and one that evidence
\* cites still has its chunks, wherever the sweep was cut off and whatever was
\* ingested, deleted or cited while it ran.  The one exception is a document
\* ingested again between a sweep's choice and its deletion: _delete asks
\* again about citations and not about the status.
PurgedIsGone ==
    \A v \in Versions :
        /\ documents[v].status = "absent" /\ v \notin crossed => points[v] = {}
        /\ v \in evidence => chunks[v] # {}

\* "Superseded versions are kept but tombstoned so search skips them."
SupersededIsHidden ==
    Quiet /\ "overlap" \notin env =>
        \A v \in Versions : documents[v].status = "superseded" => Found(v) = {}
-----------------------------------------------------------------------------
(***************************************************************************)
(* The inductive invariant.                                                *)
(***************************************************************************)

\* The stages of a pass whose rows are committed, and of those the ones whose
\* points are dropped.
Written == {"hide", "drop", "embed", "upsert"}
Dropped == {"embed", "upsert"}

\* A pass has a version and a text until it is over.
PassesHaveVersions ==
    \A p \in Passes : IF pass[p].at = "idle" THEN pass[p] = NoPass
                      ELSE pass[p].version \in Versions /\ pass[p].text \in Texts

\* No pass has written a document that is past its grace, nor one that a sweep
\* has chosen unless it crossed the sweep.
SweptAlone ==
    \A p \in Passes : pass[p].at \in Written =>
        /\ ~documents[pass[p].version].expired
        /\ pass[p].version \in sweep.doomed => pass[p].version \in crossed

\* A sweep has dropped the points of what it has left behind it.
SweptIsEmpty ==
    /\ sweep.at = "idle" => sweep.doomed = {}
    /\ sweep.left \subseteq sweep.doomed
    /\ sweep.at = "rows" => sweep.left = {}
    /\ \A v \in sweep.doomed \ (sweep.left \cup crossed) : points[v] = {}

\* The rows that a pass has committed stay while it writes the points.
WrittenIsThere ==
    \A p \in Passes : pass[p].at \in Written /\ pass[p].version \notin crossed =>
        documents[pass[p].version].status # "absent"

\* The current version is neither deleted nor superseded.
CurrentIsActive ==
    \A v \in Versions : documents[v].current =>
        documents[v].status = "active" /\ ~documents[v].expired

\* Without overlap, one pass, one deletion or one sweep is under way.
OneAtATime ==
    /\ \A p, q \in Passes : pass[p].at # "idle" /\ pass[q].at # "idle" => p = q
    /\ (\E p \in Passes : pass[p].at # "idle") => erasing = {} /\ sweep.at = "idle"
    /\ erasing # {} => sweep.at = "idle"
    /\ \A u, v \in erasing : u = v

\* What a pass has done so far is what its stage says.
StageIsDone(p) ==
    LET v == pass[p].version
        own == {pass[p].text}
    IN  /\ \A u \in pass[p].superseded : ~documents[u].current
        /\ pass[p].at \notin {"idle", "queued"} => v \notin whole
        /\ pass[p].at \in Written \cup {"write"} => stored[v] = own
        /\ pass[p].at \in Written => documents[v].current /\ chunks[v] = own
        /\ pass[p].at \in Dropped => points[v] = {}

\* Nothing that is current will be taken out of the index.
DoomedIsOld == \A v \in erasing \cup sweep.doomed : ~documents[v].current

\* The two stores agree about what is whole and current, at any moment.
WholeAgrees ==
    \A v \in whole : documents[v].current => Found(v) = Read(v) /\ Found(v) = stored[v]

LibraryInv ==
    /\ LibraryTypeOK /\ PassesHaveVersions /\ SweptAlone /\ SweptIsEmpty /\ WrittenIsThere
    /\ CurrentIsActive /\ PurgedIsGone
    /\ "overlap" \notin env =>
           /\ OneAtATime /\ DoomedIsOld /\ WholeAgrees
           /\ \A p \in Passes : StageIsDone(p)
=============================================================================

# A TLA+ model of the digital-worker platform

The repository is the backbone of a multi-tenant product of AI "digital workers".
FastAPI processes (`apps/api`), an asynchronous worker (`apps/worker`) and a document
container (`apps/docgen`) share one PostgreSQL database, a vector index, an object store
and a cache. Hardly any lock in memory matters: the guarantees rest on the order of
transactions, on conditional `UPDATE`s, on unique indexes and triggers, while several
processes run the same code and may die between any two statements. Those orders are
what this project models.

## 1. Inventory

`PROJECT.json` lists every component with its files.

| component | state | operations | what is hard | what makes it correct |
|---|---|---|---|---|
| worker runs (`run_store`, `langgraph_runner`) | `worker_runs` rows, a graph checkpoint per thread, tasks in memory | `create` (insert, look for a parked run, reap a stale one, insert again), `start`, `stream`, `resume`, `cancel_thread`, `_handle_outcome`, `_fail` | turns sent together; a status is written without looking at the old one; the approval row is committed before the run is parked on it | one unfinished run and one driver of the graph per thread; no run stays running |
| approval flow (`approval_flow`, `repositories`) | `approval_requests`, `approval_decisions` | `decide`: read, check, optimistic save, commit, resume | two deciders; a decision that overtakes the pause; `resume` carries no interrupt id | one decision per request, given to the pause it is about |
| codes and chat decisions (`approval_codes`, `channel_decisions`) | view receipts, decision codes | `view`, `_fresh_code`, `record_view`, `decide`, `record_wrong_try`, `admit`, `consume` | digits matched, request read and code consumed at different times | a code buys one decision, of what its sender meant; wrong tries lock it |
| inbound messages (`inbound`, `channel_inbound`) | queue of webhook updates, ledger of message ids | queue, drain, poll, `claim`, dispatch, `settle`, prune | updates delivered twice; two kinds of readers; two terms of retention | a message acts once, or is known to have come to nothing |
| HTTP idempotency | `idempotency_keys` | `reserve`, `take_over`, `complete`, `release` | retries together; an owner thought dead; an answer that cannot be stored | one handler, one answer, replayed to the same request only |
| support access | `support_grants`, the staff list | ask, approve, reject, revoke, assign, expire; the context of a staff request | judged in five reads, written on the status alone | nobody is let in except under a grant in force, as the customer was told |
| memberships and waivers | memberships, roles, permission sets, `sod_waivers` | every write of a membership, the trigger, propose / confirm / revoke a waiver | READ COMMITTED; a waiver revoked while it is relied on | both sides of a rule only under a confirmed waiver |
| access look-up | the membership cache | look up, invalidate, expire | a look-up stores what a change just dropped | ended access is at last not served |
| sign-in, invitations | users, external identities | `bootstrap`, invite | two identities of one email at once, spelled differently | one mailbox is one user |
| org chart | manager links, the visibility setting | `set_manager`, join, leave | three questions and a write in four transactions | no cycle, sight goes one way |
| tenant provisioning | operators, tenants, workspaces | create, lock, rename, add / remove operator, open / archive | the door, the check, the write and the audit are apart | the audit tells who is an operator and which tenant is locked |
| tenant offboarding | offboarding requests, five stores, bundles | file, claim, export, purge, report, close | a pass that dies and is run again from the top | purged means exported; complete means gone, but for the audit trail |
| ingest jobs | `ingest_jobs` with leases | `enqueue`, `claim_next`, `renew_lease`, `mark_done`, `mark_failed`, heartbeat, timeout | killed or stalled workers | one worker per job, every job ends |
| knowledge gateway | documents, chunks, index points, citations | ingest, supersede, soft delete, sweep | two stores and no common transaction; retries | the index holds what the rows hold; purged is gone |
| outbox and memory | `outbox_events`, candidates, items, index points | `claim_batch`, `propose`, `settle_review`, superseding, expiry, `recall` | claims that skip what is locked; overlapping answers; retries out of order | one live answer to a question, closed only for a later one; the index follows the rows; the backlog drains |
| channel delivery and linking | links, nonces, `channel_deliveries` | connect, redeem, unlink, queue, claim, send, settle, expire | a crash after the send; the person leaves or moves meanwhile | one outcome per message; every message is settled |
| tool executor | the calls of a step, `tool_executions` | gate, card, resume, authorise, replay, act, record | one approval and several calls; look-up and record are apart | gated acts were shown to a person; acts are on record |
| model calls | allowance, run ledger, breaker, meters | check, call with retries and a fallback, charge, meter | check before, charge after; a ledger per process; shared breaker; recorders that fail | the ceiling holds in each process up to what is in the air; every paid answer is accounted |
| checkpoints | checkpoints and pending writes of a thread | put, put writes, load, sweep | the sweep selects and deletes apart | a resumed run finds its state |
| context compaction | the messages shown to the model | compact in chunks, audit, remove | one chunk fails; cancel after the audit | the summary holds everything that was removed |
| audit log partitions | monthly partitions and DEFAULT | append, create ahead, drop | months without a pass; both ends of a term | no row dropped before its term |
| document sandbox | session directories, marks, processes | queue, run, sweep, upload, download, release | the sweep of one command among the others; processes left behind | a command keeps its directory; nothing of its group outlives its answer |
| listings and feedback | rows, cursors, attachments | submit, page | ties, rows that leave between pages | a walk shows each row once |
| worker loop, API shell | settings, routes, lanes | validate, wire, start, signal, stop | each process has settings of its own | what people say to the bot is heard once |

Interaction: a person signs in (SignIn), is given an access context (AccessLookup,
Memberships, OrgChart, or SupportAccess for staff), and sends a turn under an idempotency
key. The turn starts a run; its graph calls models (ModelCalls) and tools (ToolCalls),
keeps its state in Checkpoints and its history short by Compaction, and may pause: then
`_handle_outcome` raises an approval request, which a person decides on the portal, or
from a chat (ChannelDelivery, ChatDecisions); the decision resumes the run. Uploads
become ingest jobs, whose work is Knowledge; everything else that must happen later is
announced on the outbox and drained by the worker (MemoryOutbox, Recall). Operators
provision tenants and offboard them.

## 2. The modules

Each component module has its state, `Init`, one action per transaction, call or return,
`Next`, its specification and its properties. The operators marked *Mutant* are wrong
versions kept to show that a property can fail; no specification uses them. `MCx` modules
hold the constants of the TLC instances, `xProofs` the theorems.

**Turns and decisions**

* **RunLifecycle** - `runs` (status, approval, whether it is past the stale age),
  `approvals` (named by the activity that raised them, since an activity invokes the
  graph once), `paused` (who left the thread's checkpoint interrupted, and how many
  interrupts), and for each activity its step and what it has read. A run id is also
  the `start` or `stream` call that owns it; members of `Calls` are `decide` calls.
  `create` is `Claim`, `WaitingApprovalForThread`, `ReapStaleThread`, `Reinsert`;
  `decide` is `ReadRequest`, `ResumableRun`/`RefuseRun`, `Decide`, `Resume`;
  the graph is `EnterGraph` and one of `GraphReturns` (with 0, 1 or 2 interrupts) and
  `GraphRaises`; then `SettleStream`, `CreateApproval(Fails)`, `Park`, `Conclude`,
  `Audited`. The graph is external: it ends, interrupts or raises. The partial unique
  index of `worker_runs` is `IndexAllows`, evaluated by every insert *and* by every
  status write, because `set_status` may bring a row back to an unfinished status.
* **TurnContract** - abstract: what a conversation promises while nothing worse happens
  than crashes and failing statements. One unfinished turn and one driver at a time; a
  question the graph stopped with becomes one request, is decided once, and the graph is
  entered again only by whoever decided it. `RunLifecycle!KeepsTurns` is its `Spec` under
  the mapping of unfinished rows to `open`, of activities in the graph to `inside`, of a
  checkpoint with one interrupt to `question`, and of requests to `asked` and `decided`.
* **ChatDecisions** - requests, subject versions, receipts and codes (named by the view
  that issued them), messages, the inbound ledger, and the steps of views and
  deliveries. A person types the digits of a code they were shown, or a guess.
* **CodeContract** - abstract: what a decision code promises. One open code per person and
  approval; a message is heard once and then decides with a code of its sender, never with
  another than the one that was meant while that one is good, or counts one wrong try, or
  does nothing; an approval is decided once. `ChatDecisions!KeepsCodes` is its `Spec`: a
  row is a code once it is committed, a message is `busy` while the delivery that claimed
  it may still act, and digits, receipts' versions and the subject are not seen at all.
* **ToolCalls** - one step of a run with several calls, each a task. The middleware lets
  one gated call of a step ask and defers the others; a resumed run runs the step again.
  A call's arguments are abstracted to its tool, so two calls of one tool have one key.
* **ModelCalls** - runs, the agent loop and the tools that call the gateway, the run's
  ledger, one provider's breaker, the tenant's total and the meters. Everything between two
  awaits is one step. The ledger is a dictionary of one process: `ResumeRun` finds it,
  `ResumeElsewhere` finds what an earlier stay left there, or nothing; `here` is what the
  run was charged in its present stay, `stays` how many there were.
* **Checkpoints** - the saved state of one thread and the sweep; the order in which the
  graph library calls the store is external.
* **Compaction** - messages as sizes, a summary as the set of messages it was made from;
  one pass summarises chunk by chunk, writes the audit row, and then removes.

**Requests and people**

* **HttpIdempotency** - one row per key and, for each request, where it stands and
  what it answered. `during` records who was under way when a reservation was stamped;
  it states that a request ends within `STALE_RESERVATION` (five minutes against the
  request timeouts), which the environment "slow" gives up.
* **KeyContract** - abstract: what a key promises a client. One request at a time is let
  in, none once an answer is stored; only the one that is in acts; an answer is of a
  request that acted, stays, and is given to nobody but the same request sent again.
  `HttpIdempotency!KeepsPromise` is its `Spec`: a handler, a record or an exit path under
  way is the owner of its key, a finished row is the answer.
* **SupportContract** - abstract: a grant is asked for, agreed to, handed to one person,
  runs and is over, never back; only that person is let in, while it runs.
  **SupportAccess** - the detailed grants, the members' commands (context, read, write
  on the status alone) and a staff request's five reads and its audit row. It refines
  the contract: `KeepsContract` is `SupportContract!Spec` under the mapping of a grant's
  status and expiry to a phase and of an admitted request to `inside`.
* **Memberships** - every way a membership is written, with the trigger's reads and
  `FOR SHARE` locks at the statement and the commit as a second step; waivers proposed,
  confirmed and revoked; roles whose scopes change.
* **SignIn**, **AccessLookup**, **OrgChart**, **Provisioning** - `bootstrap` and `invite` in
  their statements, where a look-up compares emails in lower case and the unique constraint
  as they were spelled; the cache-aside look-up; `set_manager` in its four transactions; the
  operators' plane with its audit in a second transaction. `seen` in a user's row, `raced`
  and `blurred` are histories that name the overlap a property has to except.
* **Listings** - a feedback form that stores its attachments first, rows stamped with the
  start of their transaction and committed out of order, and a client walking pages.

**The worker**

* **Processes** - the API and the workers, each started with settings of its own: what the
  API mounts, which lanes a worker registers, signals, ends and restarts. On top of them a
  message's way to the bot: Zalo offers it, and offers it again when its answer was lost;
  the webhook queues it or a poll reads it, never both for one copy (`hooked` is Zalo's own
  switch, set by `scripts/zalo_webhook.py`); a drain takes a batch, the router claims the
  message's id and acts; the sweep forgets claims and updates on their two terms. How long
  Zalo goes on offering is a constant: with the day an update may wait it is no longer than
  a claim is kept, which `channel_inbound.py` counts on.
* **IngestJobs** - job rows with a lease that is held or lapsed, workers with a
  heartbeat. `Lapse` strikes a beating worker only in the environment "stall".
* **Knowledge** - one logical document, its versions, rows and points, ingest passes that
  overlap and die anywhere, soft delete, citations and the sweep.
* **MemoryOutbox** - events with their stamp and attempts, candidates' rows, approvals,
  items, and for each worker the batch it still has to deliver. An event is stamped by its
  producer before it commits, so it may appear with a stamp older than those that are there;
  `overtaken` remembers the events a younger one was claimed ahead of for that reason, or
  because another claim had them locked. A tick is `LockBatch` (the `SELECT ... FOR UPDATE
  SKIP LOCKED`), `CommitClaim`, then for each event the handler and `MarkProcessed` or
  `RecordFailure`; `propose` is `ReadCandidate`, `InsertCandidate` and, when it stores,
  `CommitItem`; `settle_review` runs under the row's lock, so it is `SettleReview` and
  `CommitItem`. Between `StoreItem` and `CommitItem` lies what READ COMMITTED hides: `sees`
  is the set of answers the `UPDATE` found (`SameQuestion`: the same key and a subject in
  common, which is not transitive), `raced` remembers who overlapped whom. No producer of
  `memory.candidate_proposed` exists in the repository yet; `ProposeCandidate` is external.
* **Recall** - the points written and purged after the commit, retention, and `recall`
  with and without a ranking. What a query returns is stated by its order (`First`: as many
  as fit, each ahead of the next, none left out that belongs ahead), not by a sort.
* **ChannelDelivery** - nonces and links, queued deliveries, lanes that claim, ask again,
  send and settle; `losses` counts sends whose commit was lost.
* **Offboarding** - the requests of one tenant, the pass store by store over data that is
  old or late, bundles, stale claims, reports to every request of the tenant. The audit
  trail is exported and not purged: the purge adds its own record to it, in the transaction
  of the deletes, and the trail leaves with its partitions.
* **Partitions**, **DocSandbox** - the audit log by half months; the container's queue,
  session directories, marks, sweep, the processes of a command's group (`alive`) and those
  that made a session of their own (`away`).

**Compositions.** `Platform` is the interleaving of eleven parts, from ChannelDelivery to
Recall: its state is theirs, its step a step of one of them. `MCPlatform` explores it part
by part: a behaviour picks its part in the initial state and keeps to it, so the state space
is the sum of the parts and not their product; that nothing is lost by it, since the parts
share no variable, is the theorem `PlatformIsItsParts`. `MCRequests` and `MCLanes` are
composed in the same way (AccessLookup and a second instance of ChannelDelivery and
RunLifecycle are instantiated); `MCRequests` explores two operators at once without the Org
Admins' workspaces, and one operator at a time beside them, as no guard of an operator's
call reads a workspace. Because components are extended together, `Init`, `Next`,
`vars` and `Spec` carry the component's name (`ToolInit`, `ListingSpec`), and a run and a
theorem speak of the same definitions. Where components do meet (a decision and its run, a
job and its pass, an event and its handler) they are in one module.

In the first four components (runs, keys, jobs, chat) faults are an environment: a set of
kinds chosen in `Init`. A property that needs a kind to be absent says so. The other
modules have one bounded counter of faults.

## 3. What the runs check

| run | shows | bounds |
|---|---|---|
| `run_safety` | one unfinished run per thread, each pause resumed by its own decision, every pending card decidable, and the whole of `TurnContract` kept | two turns of one thread, one streamed, two decide calls; no faults, crashes and failing statements, or all five kinds |
| `run_parked` | *finding 1* | the same |
| `requests` | keys keep `KeyContract` (one owner, one answer, replayed to the same request only), one effect without faults; staff act only under a grant and support access implements its contract; conflicts are waived; one mailbox, one user; no cycle in the chart; the provisioning audit tells the state | one key, three sends of one request and one odd one; one grant, two members, two staff, two changes of standing; two people, two roles, a permission set, two rules of which one can be waived; two sessions and three identities with two spellings of one email, four users; three members and two admins; two operators, one tenant |
| `idempotency_slow` | *finding 2* | the keys of `requests`, slow requests |
| `lanes` | one worker per job; purged means exported, complete means gone; and, under fairness, jobs, offboarding requests, deliveries and turns settle and ended access is not served for ever | one job, two workers, three attempts, three faults; two offboarding requests, two workers, one setback; one person, two look-ups, two edits; one delivery to one chat, two lanes, two attempts; two turns and two decide calls without faults |
| `ingest_beat` | *finding 3* | two workers, renewals that fail |
| `chat` | codes keep `CodeContract` (one open code per card, a message acted on once and with the code its sender meant, an approval decided once); wrong tries lock, each counted once | two approvals, one person, two views, two digits, two messages and two deliveries; two wrong tries, one edit |
| `chat_subject` | *finding 4* | the same |
| `memory` | nothing is closed for an answer that never came, one live answer unless two writes overlapped, the later answer wins unless the older was retried or overtaken, the backlog empties again and again | two corroborated answers, about one subject and about two, a restricted one about the other, a fact without provenance; three events, two workers, batches of two, two attempts, one fault or late commit |
| `platform` | one outcome per chat message; index and rows agree; purged documents are gone; gated acts were shown, acts are on record; the ceiling holds and spend is accounted; what is said to the bot is heard once; pages are exact; a resumed run finds its state; audit rows are kept for their term; commands keep apart; summaries are whole | in `MCPlatform`: two of whatever races, one or two faults each; one API and two workers, each in webhook mode, polling, or local, one message offered twice, three days |
| `offboarding_bundle` | *finding 5* | the offboarding of `lanes` |
| `knowledge_superseded` | *finding 6* | the knowledge part of `platform` |

Why the bounds are enough to meet the hazards: keys, jobs, threads, grants and documents
share no row with each other, so one of each loses nothing; every race in the code is
between two actors. Two turns give a conflict, a reap and a re-insert; two decide calls a
race for one request and a decision of the next one while the first call still parks it.
Four requests are an owner, a taker, a racing taker and an impostor. Two workers are an
owner that was given up and its successor, who may be given up in turn. Two views can be
of one approval or of two with the same digits. `MaxWrongTries` is 2 instead of 5: the
count only has to be reached by messages side by side. Three members let a cycle be longer
than two. Three events are two answers and a review decision, or three answers; a batch of
two leaves the third for the other worker; two attempts are one redelivery; two subjects and
an answer about both make `SameQuestion` intransitive. Two offers of one message are a
redelivery, and in three days a claim and an update both outlive their terms. A run may be
resumed in two other processes, and six answers let it pass its ceiling in each.
Symmetry is used only in runs without temporal properties, except `requests` and `chat`,
where the refinements are safety properties and treat requests, staff, views and messages
alike. Deadlock is
not checked: in every module all calls may be over.

**Findings.** Each is a statement of the repository that the code does not keep.

1. `run_parked`. When a graph that was resumed interrupts again, `_create_approval`
   commits the new request while the run row still says `waiting_approval` from the
   first pause. Another call can decide it, resume and complete the run; then the first
   call's unconditional `set_status` writes `waiting_approval` back. The thread refuses
   every new turn and no pending request exists.
2. `idempotency_slow`. `release` removes any unanswered row of the key. The reservation
   it frees may be the one of the request that took the key over.
3. `ingest_beat`. `_beat` has no handler around `renew_lease`; the comment on
   `DEFAULT_HEARTBEAT_SECONDS` counts on surviving two misses.
4. `chat_subject`. The subject is compared before `approval_flow.decide` opens its
   transaction; ADR 0007 promises a refusal when the subject changed after the view.
5. `offboarding_bundle`. The bundle's key is made of the clock, so a pass that is run
   again does not overwrite it, as the comments say, but writes a second bundle with what
   the first pass has left, and reports that one.
6. `knowledge_superseded`. The versions to hide are what this attempt's `UPDATE` returned;
   a retry after a crash between the commit and the tombstones finds none, and the old
   version stays searchable.

**Known gaps of the code that properties step around** (and say so).

*Turns.* A process that dies between the commit of a decision and `resume` leaves the run
waiting on a decided request; a cancelled run, or one whose audit failed, can leave a
pending card that `decide` then refuses; reaping a run that is merely slow lets two calls
into one graph. Two calls under one key in one step both pass `find_succeeded` and both
act. The daily allowance is check-then-act. The breaker lets every concurrent call through
when it is half open, where `resilience.py` speaks of one trial; an answer that does not
parse is not charged. A summariser that answers with nothing leaves an empty summary.

*Requests.* Two operators can remove each other, and so empty the list; two calls of
`set_manager` can close a cycle; a provisioning audit row is lost with its request, and the
rows of two requests may arrive the other way round (`TrailTellsState`); two sign-ins, or a
sign-in and an invitation, that overlap and spell one email differently make two users
(`SamePersonSameUser`), since the look-ups compare `lower(email)` and `users_email_key` does
not; memberships written before the rules they break are left as they are (migration
`f381f1694395`, lines 22-26), and `ChangeScopes` assumes that no membership is being
written; a second offboarding request of a tenant always ends failed, though
`provisioning_repo.py` (206-208) speaks of a later retry; a listing misses a row that
commits after its place was passed; `set_tenant_status` can re-activate a tenant that is
being offboarded. Two wrong tries of one person update the same codes in no fixed order, so
the database may break a deadlock.

*The worker.* A job timeout can strike after `mark_done` committed, and `mark_done` and
`mark_failed` are not fenced by the attempt as `renew_lease` is. Two workers that store
answers to one question at once leave both live (`OneLiveAnswer`); an answer about two
subjects is closed by one about either, and the other subject is left without one; a
redelivered event comes after later ones, and so does one that a second claim passed over or
that committed late, so an older fact can close a newer answer (`LaterAnswerWins`); an
`UndeliverableEventError` is recorded as any other failure, so a malformed event is claimed
until its attempts run out, although `consumers/memory.py` says it is not retried. A point
indexed after its memory was closed stays until the tenant leaves; it is never told. A
message is sent again when the commit after the send is lost. Rows of a month that no
partition pass saw stay in DEFAULT. A document ingested again between the sweep's choice and
its deletion loses its new rows and keeps its new points, which `retention.py` (12-17) says
cannot be (`PurgedIsGone` excepts such versions and no other). A run that is resumed in
another process, or after a restart, starts with an empty ledger there, and so with a whole
ceiling (`CeilingHolds` counts the processes). The first of two commands of one session to
end, or to fail to start, removes the mark of both; a process that made a session of its own
is not killed with its command, though `runner.py` (220-223) speaks of everything it started
and `test_sandbox_image.py` (185-186) of nothing left alive; the sandbox records a command
after it has run, and the client's deadline takes no account of the queue. A webhook secret
without a bot token queues updates nobody drains; `DW_API_ZALO_UPDATES_MODE` and
`DW_WORKER_ZALO_UPDATES_MODE` give one bot two kinds of readers, though the settings speak
of one; a worker that holds a message it has taken while its claim is swept acts on it twice
(`HeardOnce`), and what a worker had taken when it died is not read again; a lane that hangs
does not show in the heartbeat file.

## 4. Fairness

`RunLifecycle!FairSpec` is weak fairness of `Progress(x)` for each activity: the event
loop goes on scheduling a call that was started, transactions return, graphs end (they
have a recursion limit and a budget). Nothing makes a person send a turn or decide.
`IngestJobs!FairSpec` is weak fairness of a worker's own steps, of some worker claiming
a claimable job (the lane ticks for ever), and of the clock (`Lapse`, `BecomeDue`).
`LanesSpec` states these two for their parts and adds: weak fairness of the worker's pass
in Offboarding (`Consume`) and of the clock that makes a claim stale; of a look-up being
answered and of a cache entry lapsing (every entry has a time to live); of a claimed
delivery going on (`Proceed`) and of the retention sweep that fails what waited too long.
`MemoryOutbox!FairSpec` is weak fairness of `Work(w)`, a worker's next step in which
nothing goes wrong: the loop calls the outbox consumer on every interval until shutdown,
and a tick that was begun goes on. Faults are bounded in number; no fairness holds for
faults, proposals, edits or decisions.

## 5. Proofs

Eight modules hold theorems, about every component but AccessLookup. They hold for any sets
of runs, threads, calls, requests, keys, jobs, workers, people, documents, sessions,
messages, rows and settings, and for any bounds. Each proof has the same shape: an inductive
invariant that is defined with its component, a lemma per part of it or per kind of step, a
theorem `Spec => []Inv`, and the properties as corollaries. TLC checked each invariant on
the run's instance before it was proved.

| proof module | properties | inductive invariant |
|---|---|---|
| RunLifecycleProofs | `TypeOK`, `OneUnfinishedPerThread`, `DecisionIsFinal`, `GraphExclusive`, `ResumesItsOwnPause`, `PendingIsDecidable`, the refinement `Spec => KeepsTurns` | `TokenInv`, `PauseInv`, `DriveInv` |
| HttpIdempotencyProofs | `TypeOK`, `AnswerIsFinal`, `HandlerExclusive`, `ReplayAnswersTheSameRequest`, `SpentKeyNeverActs`, `ActsOnce`, the refinement `Spec => KeepsPromise` | `KeyInv`, `ActedIsSpent` |
| ChatDecisionsProofs | `TypeOK`, `UsedMeansDecided`, `OneOpenCode`, `DecidesWhatWasMeant`, `ClosedIsFinal`, `WrongTriesLock`, the refinement `Spec => KeepsCodes` | `CodeInv`, `TriesInv`, `CodesAreTheirs` |
| MemoryOutboxProofs | `TypeOK`, `WritesOnce`, `ClosedByLater`, `OneLiveAnswer`, `SettledAsDecided`, `LaterAnswerWins` | `MemoryInv`, `OrderInv` |
| SupportAccessProofs | `AccessUnderGrant`, the refinement `SupportSpec => KeepsContract` | `GrantInv` |
| PeopleProofs | Memberships: `ConflictsAreWaived`; OrgChart: `SightIsOneWay`; SignIn: `SamePersonSameUser`; Provisioning: `TrailTellsState` | `DutiesInv`, `ChartInv`, `SignInInv`, `OperatorInv` |
| LanesProofs | IngestJobs: `TypeOK`, `ExclusiveWork`, `DoneIsFinal`; Offboarding: `PurgedIsExported`, `ClosedMeansGone` | `LeaseInv`, `LeavingInv` |
| PlatformProofs | ToolCalls: `GatedActsWereShown`, `ActsAreOnRecord`; ChannelDelivery: `OneOutcome`; ModelCalls: `CeilingHolds`, `SpendIsAccounted`; Processes: `HeardOnce`; Checkpoints: `ResumeFindsItsState`; Partitions: `AuditKept`; DocSandbox: `CommandsKeepApart`; Knowledge: `StoresAgree`, `PurgedIsGone`; Compaction: `SummaryIsWhole`; Listings: `PagesAreExact`; Recall: `RecallIsExact`; Platform: `PartsTypeOK`, `IndexMatchesRows` | `CallInv`, `DeliveryInv`, `CostInv`, `AccountInv`, `DeploymentInv`, `SaveInv`, `LogInv`, `BoxInv`, `LibraryInv`, `FoldInv`, `ThreadFits`, `ListingInv`, `RecallInv` |

Most invariants are `TypeOK`, the property, and what the property lacks to be inductive.
What that is, component by component:

* **RunLifecycle.** Nothing in the state at one step says that a second call cannot enter
  the graph. `TokenInv` says it: the right to drive a run's graph is a token, held by the
  creator while the row is running, handed to the request when it is raised, to the decide
  call that wins the optimistic save, and to the request that call raises next. Under
  crashes and failing statements it is never held twice. Where an audit failure or a cancel
  breaks the token, only the row invariants are claimed. `PauseInv` ties the checkpoint to
  the token: a pending request of an unfinished run is about the one interrupt that the
  checkpoint holds, and so is what a decide call is about to hand to `resume`. That is why
  a `resume` without an interrupt id still meets its own question. For the refinement
  `DriveInv` adds that a driver's checkpoint holds no question and that who goes to resume
  is the decider. Each kind of step then has a lemma that names the step of the contract it
  is (`TurnOpens`, `TurnCloses`, `DriverEnters`, `GraphLeaves`, `QuestionRaised`,
  `RequestDecided`); that nobody was in the graph *before* somebody enters it follows from
  the entrant being alone *after* the step.
* **HttpIdempotency.** A handler holds the open fresh reservation; a stale one has only
  dead requests around it; a taker has compared the fingerprint of the very row it takes.
  `ActedIsSpent`: without faults, whoever has acted is about to record it or is the stored
  answer, so nothing reopens the key. The refinement needs one fact more, that a request is
  answered last (`AnswersLast`): who records has acted, and nobody under way was told.
* **ChatDecisions.** Pending requests are at version 1 (so the version on a receipt
  identifies the undecided request), codes have complete receipts, deliveries hold codes
  that are rows, and what was meant was typed. `TriesInv` counts: a message is carried by
  one delivery, and a code has no more wrong tries than its owner has messages whose
  deliveries can count no more. For the refinement `CodesAreTheirs` adds that the code a
  delivery matched, and the codes a view's `UPDATE` saw, are those of the same person in
  every later transaction. Each writing step has a lemma that names its step of the
  contract (`CodeIssued`, `MessageHeard`, `TryStrikes`, `CodeSpent`, `MessageDropped`);
  the matching, the checks and a view that loses to the index are stutters.
* **MemoryOutbox.** At the commit nothing but history says that the candidate has no memory
  yet. `StampsApart` makes a worker be on one event at a time; `StoresUnstored` says that a
  storing transaction is alone on its candidate and what it found there; `SeesAnswers` that
  every live answer it did not see was committed by a transaction it overlapped;
  `DoneHasEffect` that a handler which returned has acted. A closed answer has its successor
  because both are in one commit. `OrderInv`: a claim takes the oldest that is not locked,
  so an older event that was not overtaken is, on its first claim, in the same batch as a
  younger one, ahead of it, or shares none with it. `OlderIsStoredFirst` has the premise
  `MaxAttempts > 1`, and needs it: with one attempt an event in a batch cannot be claimed
  again, a second worker passes it by, and TLC finds the order lost. `settings.py` allows
  that value (`outbox_max_attempts`, `ge=1`; the default is 3).
* **SupportAccess.** Rows only move forward (a grant that names staff is active or revoked,
  and has a granter), and a request has seen every condition it has passed hold since it
  began, although no two of them need have held together. The refinement has one lemma for
  steps of rows and one for steps of calls; revoking a grant that has expired already is a
  stutter of the contract.
* **Memberships.** What a committed row, *or a write that has not committed yet*, relies on
  is in force and nobody is taking it back. The second half is what the `FOR SHARE` lock
  buys.
* **OrgChart.** What a call established still holds when it writes, unless the chart
  changed by more than a departure. A subtree is the least set that holds its root and is
  closed under reports; with that, a link to somebody outside the subtree closes no cycle,
  and no induction over the chart is needed.
* **SignIn.** Users are apart by subject, and by mailbox unless neither maker had seen the
  other and they are spelled apart; whoever is about to insert saw nobody with its email;
  and an identity is mapped, or about to be linked, to a user that bears its mailbox.
  **Provisioning.** Of somebody whose rows did not cross, one row at most is missing, and
  that one says what is.
* **IngestJobs.** A busy worker's row is held, beaten for and at its attempt, or it has just
  marked it done. **Offboarding.** A pass has read whatever is still there of the old data;
  the audit trail is never shortened; a pass that has uploaded left all of it in *some*
  bundle (its own, or that of the pass that purged before); what a pass has emptied stays
  empty. That it is some bundle and not the one the request points to is finding 5.
* **ToolCalls.** A call that waits is the first of its step that has to, whoever decides has
  seen its card, where a call stands tells how often it was tried, and nothing is past the
  gate that was not let through.
* **ChannelDelivery.** A claim holds a pending row, alone; what it goes by was true of the
  recipient while it was open; an arrived copy that is not recorded belongs to this attempt.
* **ModelCalls.** The bound is inductive only with the answers that may still come: what a
  run was charged plus `MaxCost` for every attempt in the air stays below `Ceiling + MaxCost
  * (1 + 3 * tools)`, in each stay in a process. A call that is let through the ceiling adds
  at most what one tool may add, or the loop's one. `SpendIsAccounted` compares sums over
  the runs of a day. A sum is stated as a number of units (`Total`: how many pairs of a run
  and an amount below its charge there are), so that charging one run adds that many pairs
  and the sums follow from cardinalities of finite sets, without an induction.
* **Processes.** Nothing is said of who reads: a copy came while Zalo offered its message, a
  claim is no older than the first offer, so when a claim is swept every copy has been taken
  or swept before it, and Zalo offers no more. **Checkpoints.** A run
  is at the newest checkpoint, and no sweep that began before has read its key; slot 0 is
  the task's own. **Partitions.** DEFAULT has rows only of months without a partition, and
  what a pass made is there until its month is over. **DocSandbox.** A running command's
  session is marked unless another command of it has ended or could not start; only the end
  of a command finds out that a process of its group does not die.
* **Knowledge.** Without overlap one pass, one deletion or one sweep is under way, the stage
  of a pass says what it has done, and the two stores agree about what is whole at *every*
  moment; with overlap, a sweep is alone with what it has chosen, its points are gone before
  its rows are, and rows that a pass has written stay while it writes points.
* **Compaction.** Summary and trail reach as far as the cut, a fold in progress has covered
  everything before its next message, and every boundary is between two units. That sizes
  stay within their bounds is `ThreadFits`: what the next call is given still fits.
* **Listings.** The cursor divides the rows that were there all the while: what is before it
  was given, what is after it was not. The lemma about a page (all that is left, or all up
  to the row where it ends) rests on a finite set of positions having a newest and an oldest
  member, which is proved from the well-foundedness of the strict subsets of a finite set.
* **Recall.** A handler closes only what is not live, and a point of it that is left once
  its purge is over is left over (`HandlersKeepUp`); what the query has found is first among
  what the run could be told (`FoundIsFirst`). The ranking by the vector store then decides
  the order and never the membership, unless there is more than fits.
* **Platform.** A step of the interleaving is a step of one part and a stutter of every
  other, so the interleaving implements the specification of each part, and what is proved
  of a part holds of the whole.

The named assumptions say that the constant functions have their types, that bounds are
natural numbers, that the "nobody" value is a member of nothing and that environments are
sets of fault kinds. The ones with more in them: candidates (`MemoryAssumption`), rows
(`ListingAssumption`), the runs of a day and the tools of a run (`CostAssumption`) are
finitely many; the catalogues name scopes for every key and the operator's role is a role
(`MembershipAssumption`); a caller belongs to one run (`CostAssumption`); the autonomy
levels include "unset" (`ToolAssumption`); a delivery has at least one attempt
(`DeliveryAssumption`); page sizes are not zero (`ListingAssumption`); lower case is
idempotent (`SignInAssumption`); Zalo stops offering a message, with the time an update may
wait, before its claim is swept (`DeploymentAssumption`, which TLC and the proof both need);
the pool that is ranked is no smaller than the answer (`RecallAssumption`). TLC evaluates
all of them.

Only model-checked: liveness (`RunSettles`, `JobSettles`, `BacklogDrains`, `RequestSettles`,
`RevokedAccessEnds`, `DeliverySettles`), since fairness and ENABLED are out of the prover's
reach. Every other property of a passing run is a theorem.

The properties that a run checks and a theorem proves are paired under `theorems` in
`PROJECT.json`.

## 6. Not modelled, and further work

Left out on purpose: what a graph or a model computes, prompts, schemas, formatting and
replies; row-level security and the access filters of search (a tenant sees its own rows;
every model is of one tenant); parsing, chunking and embedding, which are one step that may
fail; the rate limiter and token verification; the heartbeat file and its probe
(`health.py`), which watch the worker's loop and not its lanes; `/start` and `/stop`, which
do not pass the router (they are `Redeem` and `Unlink` of ChannelDelivery); a process death
that loses a run's meter, and that the meter resolves the model profile without the tenant
(`langchain_usage.py:138`), so that a tenant's own route is priced by the default one;
events with equal stamps; candidates that do not parse are modelled (`Malformed`) and absent
from the run's instance; the evaluation harness, observability, scaffolding scripts and the
web interface, which keep no state the product depends on. `SupportAccess.recheck` is never
called under `src/`, and nothing there subscribes to `run_events`; `archived_at` of a
workspace is written and never read by a door.

What could be added: an abstract handler that acts once per event for `MemoryOutbox`, with
its refinement proved as the four here are; and the step properties behind the invariants
as action theorems (a tool call's record is never overwritten, a settled delivery stays
settled).

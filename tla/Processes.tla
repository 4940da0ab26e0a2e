----------------------------- MODULE Processes -------------------------------
(* The processes of a deployment and what people say to its bot.  The API     *)
(* mounts the routes its settings allow; a worker registers a lane for        *)
(* whatever infrastructure it has and runs it until it is told to stop        *)
(* (apps/api settings.py, main.py, bootstrap/wiring.py; apps/worker           *)
(* settings.py, main.py).  Each process reads its settings when it starts,    *)
(* its own variable first and the shared one after it: no two of them need    *)
(* agree, and a restart may change them.  A message reaches a worker through  *)
(* the webhook and the queue behind it, or through a poll                     *)
(* (routes/v1/zalo.py, consumers/zalo_webhook.py, consumers/zalo_poll.py),    *)
(* and is claimed in the ledger before anything acts on it                    *)
(* (persistence/channel_inbound.py, inbound.py).  Zalo is external: it keeps  *)
(* a message until a reader took it, and offers it again when the answer was  *)
(* lost.  Time is in days.                                                    *)
(*                                                                            *)
(* Operators marked Mutant are wrong versions of the definition they precede; *)
(* no specification uses them.                                                *)
EXTENDS Naturals, FiniteSets

CONSTANTS
    Workers,           \* the worker processes that may run
    Settings,          \* what the environment of a process may set
    Said,              \* what people say to the bot
    Batch,             \* BATCH of the drain
    UpdateRetention,   \* INBOUND_UPDATE_RETENTION
    MessageRetention,  \* INBOUND_MESSAGE_RETENTION
    OffersFor,         \* how long Zalo goes on offering a message
    MaxOffers,         \* bound on the times it offers one
    MaxDay             \* bound on the days

VARIABLES
    api,      \* "down" or "up"
    routes,   \* the routers the API has mounted
    worker,   \* each worker: "down", "up" or "stopping"
    lanes,    \* each worker's registry
    hooked,   \* Zalo has a webhook for the bot
    unread,   \* what Zalo has and no reader took
    offers,   \* how often it offered each message
    since,    \* the day it offered it first
    inbox,    \* platform.channel_inbound_updates
    batch,    \* what each worker took and has not handled yet
    claimed,  \* platform.channel_inbound_messages
    acted,    \* how often each message was acted on
    unheard,  \* messages a copy of which came to nothing
    outlived, \* messages a worker held a copy of when their claim was swept
    today

deploymentVars == <<api, routes, worker, lanes, hooked, unread, offers, since, inbox, batch, claimed,
                    acted, unheard, outlived, today>>
processVars == <<api, routes, worker, lanes>>
zaloVars == <<hooked, unread, offers, since>>

\* What an environment may set; a flag that is not set is the default.
Flags == {"deployed", "database", "provisioner", "s3", "qdrant", "oidc", "issuer", "dev secret",
          "model", "embedding", "tasks none", "cors", "https", "bot token", "link secret",
          "webhook secret", "webhook mode", "slow beat"}

\* Zalo stops offering a message while its claim is still kept, with the time an
\* update may wait between them: the seven days are meant to outlast that.
ASSUME DeploymentAssumption ==
    /\ Settings \subseteq SUBSET Flags
    /\ {Batch, UpdateRetention, MessageRetention, OffersFor, MaxOffers, MaxDay} \subseteq Nat
    /\ MaxDay > 0 /\ OffersFor + UpdateRetention <= MessageRetention

\* What a deployed profile needs before its API serves anybody.
ApiNeeds == {"oidc", "issuer", "database", "model", "tasks none", "embedding", "qdrant", "cors",
             "https"}

ApiValid(c) ==
    /\ "deployed" \in c => /\ ApiNeeds \subseteq c
                           /\ "webhook mode" \in c => "webhook secret" \in c
    /\ "oidc" \in c => "issuer" \in c

\* The lease has to outlive the gap between two beats in every profile.
WorkerValid(c) ==
    /\ "slow beat" \notin c
    /\ "deployed" \in c => {"database", "embedding", "qdrant"} \subseteq c

PollEnabled(c) == "webhook mode" \notin c /\ {"bot token", "link secret"} \subseteq c
DrainEnabled(c) == {"webhook mode", "bot token", "link secret"} \subseteq c
SendEnabled(c) == "bot token" \in c
LinkEnabled(c) == {"bot token", "link secret"} \subseteq c
WebhookEnabled(c) == {"webhook mode", "webhook secret"} \subseteq c

\* The container the routers read from: without a database nothing but the
\* stateless part is wired, without object storage no run can be.
Wired(c) ==
    IF "database" \notin c THEN {"stateless"}
    ELSE {"stateless", "platform services"} \cup
         {w \in {"zalo linking", "zalo inbox", "provisioning", "agent runtime"} :
            CASE w = "zalo linking"  -> LinkEnabled(c)
              [] w = "zalo inbox"    -> WebhookEnabled(c)
              [] w = "provisioning"  -> "provisioner" \in c
              [] w = "agent runtime" -> "s3" \in c}

Mounted(c) ==
    {"core"} \cup {r \in {"zalo", "zalo webhook", "platform", "dev", "dev session"} :
        CASE r = "zalo"         -> "zalo linking" \in Wired(c)
          [] r = "zalo webhook" -> WebhookEnabled(c) /\ "zalo inbox" \in Wired(c)
          [] r = "platform"     -> "provisioning" \in Wired(c)
          [] r = "dev"          -> "deployed" \notin c
          [] r = "dev session"  -> c \cap {"deployed", "oidc"} = {} /\ "dev secret" \in c}

\* The sweeps, and the outbox: every one of them needs only the database.
Housekeeping == {"outbox", "retention", "retention_knowledge", "partitions",
                 "checkpoint_retention", "spend_guard_retention", "notifications_retention",
                 "channel_link_nonces_retention", "channel_inbound_messages_retention",
                 "channel_deliveries_retention", "approval_codes_retention"}

\* The lanes of the channels and of the object store.
Channels(c) ==
    {l \in {"channel_delivery", "zalo_link_poll", "zalo_webhook_drain", "offboarding", "ingest"} :
        CASE l = "channel_delivery"        -> SendEnabled(c)
          [] l = "zalo_link_poll"          -> PollEnabled(c)
          [] l = "zalo_webhook_drain"      -> DrainEnabled(c)
          [] l \in {"offboarding", "ingest"} -> "s3" \in c}

\* The platform owns no queue with a stale claim to reap, so no reaper lane.
BuildRegistry(c) == IF "database" \in c THEN Housekeeping \cup Channels(c) ELSE {}

DeploymentInit ==
    /\ api = "down" /\ routes = {}
    /\ worker = [w \in Workers |-> "down"] /\ lanes = [w \in Workers |-> {}]
    /\ hooked = FALSE /\ unread = Said
    /\ offers = [m \in Said |-> 0] /\ since = [m \in Said |-> 0]
    /\ inbox = {} /\ batch = [w \in Workers |-> {}] /\ claimed = {}
    /\ acted = [m \in Said |-> 0] /\ unheard = {} /\ outlived = {}
    /\ today = 1

-----------------------------------------------------------------------------
(* The processes.                                                             *)

chatVars == <<zaloVars, inbox, batch, claimed, acted, unheard, outlived, today>>

\* `create_app`: the settings are checked, the container is wired, the routers
\* are mounted.  Settings that are refused leave the process down.
StartApi(c) ==
    /\ api = "down" /\ ApiValid(c)
    /\ api' = "up" /\ routes' = Mounted(c)
    /\ UNCHANGED <<worker, lanes, chatVars>>

RestartApi ==
    /\ api = "up" /\ api' = "down" /\ routes' = {}
    /\ UNCHANGED <<worker, lanes, chatVars>>

\* `main` and the head of `run_worker`: one task per lane.
StartWorker(w, c) ==
    /\ worker[w] = "down" /\ WorkerValid(c)
    /\ worker' = [worker EXCEPT ![w] = "up"]
    /\ lanes' = [lanes EXCEPT ![w] = BuildRegistry(c)]
    /\ UNCHANGED <<api, routes, chatVars>>

\* SIGINT or SIGTERM sets the event, and the tasks are cancelled.
Signal(w) ==
    /\ worker[w] = "up" /\ worker' = [worker EXCEPT ![w] = "stopping"]
    /\ UNCHANGED <<api, routes, lanes, chatVars>>

\* A cancelled tick goes on to its next await; no other one begins.
HasLane(w, lane) == worker[w] = "up" /\ lane \in lanes[w]

\* `gather` returns, or the process dies.  What the worker has taken goes with
\* its lane; nobody is handed it again.
EndWorker(w) ==
    /\ worker[w] \in {"up", "stopping"} /\ worker' = [worker EXCEPT ![w] = "down"]
    /\ lanes' = [lanes EXCEPT ![w] = {}]
    /\ unheard' = unheard \cup {u.msg : u \in batch[w]}
    /\ batch' = [batch EXCEPT ![w] = {}]
    /\ UNCHANGED <<api, routes, zaloVars, inbox, claimed, acted, outlived, today>>

-----------------------------------------------------------------------------
(* What people say.                                                           *)

\* `zalo_webhook.py set`, over the API's settings, and `delete`.
SetWebhook(c) ==
    /\ {"bot token", "webhook mode", "webhook secret", "https"} \subseteq c
    /\ hooked' = TRUE
    /\ UNCHANGED <<processVars, unread, offers, since, inbox, batch, claimed, acted, unheard,
                   outlived, today>>

DeleteWebhook(c) ==
    /\ "bot token" \in c
    /\ hooked' = FALSE
    /\ UNCHANGED <<processVars, unread, offers, since, inbox, batch, claimed, acted, unheard,
                   outlived, today>>

\* Zalo offers what it has: a message nobody was offered yet, or one whose last
\* answer was lost, for as long as it goes on.
Offers(m) ==
    /\ m \in unread /\ offers[m] < MaxOffers
    /\ offers[m] > 0 => today <= since[m] + OffersFor
    /\ offers' = [offers EXCEPT ![m] = @ + 1]
    /\ since' = [since EXCEPT ![m] = IF offers[m] = 0 THEN today ELSE @]

\* The message as it is on its way: a copy for each time it was offered.
Copy(m) == [msg |-> m, n |-> offers[m] + 1, at |-> today]

\* The webhook route: the update is queued and answered; Zalo has the answer,
\* or will offer it again.
Post(m, answered) ==
    /\ hooked /\ "zalo webhook" \in routes /\ Offers(m)
    /\ inbox' = inbox \cup {Copy(m)}
    /\ unread' = IF answered THEN unread \ {m} ELSE unread
    /\ UNCHANGED <<processVars, hooked, batch, claimed, acted, unheard, outlived, today>>

\* The tick of the poll lane: `getUpdates` acknowledges what it reads, and fails
\* while there is a webhook.  What it reads is lost when the answer is.
Poll(w, m, arrives) ==
    /\ HasLane(w, "zalo_link_poll") /\ batch[w] = {} /\ ~hooked /\ Offers(m)
    /\ unread' = unread \ {m}
    /\ IF arrives
       THEN batch' = [batch EXCEPT ![w] = {Copy(m)}] /\ UNCHANGED unheard
       ELSE unheard' = unheard \cup {m} /\ UNCHANGED batch
    /\ UNCHANGED <<processVars, hooked, inbox, claimed, acted, outlived, today>>

\* The tick of the drain: the oldest updates are deleted and returned, fewer than
\* it asked for where another drain is deleting some of them.
Take(w, some) ==
    /\ HasLane(w, "zalo_webhook_drain") /\ batch[w] = {}
    /\ some # {} /\ Cardinality(some) <= Batch
    /\ \A u \in some, v \in inbox \ some : u.at <= v.at
    /\ inbox' = inbox \ some
    /\ batch' = [batch EXCEPT ![w] = some]
    /\ UNCHANGED <<processVars, zaloVars, claimed, acted, unheard, outlived, today>>

\* A batch is handled oldest first.
IsNext(w, u) == \A v \in batch[w] : u.at <= v.at

\* The router claims the message once and hands it to its command, whatever comes
\* of that; one that was claimed before is skipped.
RouteMessage(w, u) ==
    /\ worker[w] \in {"up", "stopping"} /\ IsNext(w, u)
    /\ IF \E e \in claimed : e.msg = u.msg
       THEN UNCHANGED <<claimed, acted>>
       ELSE /\ claimed' = claimed \cup {[msg |-> u.msg, at |-> today]}
            /\ acted' = [acted EXCEPT ![u.msg] = @ + 1]
    /\ batch' = [batch EXCEPT ![w] = @ \ {u}]
    /\ UNCHANGED <<processVars, zaloVars, inbox, unheard, outlived, today>>

\* The handler raises before the claim, or the chat is not linked: that update
\* comes to nothing, and the rest of the batch is handled.
Fails(w, u) ==
    /\ worker[w] \in {"up", "stopping"} /\ IsNext(w, u)
    /\ unheard' = unheard \cup {u.msg}
    /\ batch' = [batch EXCEPT ![w] = @ \ {u}]
    /\ UNCHANGED <<processVars, zaloVars, inbox, claimed, acted, outlived, today>>

\* Mutant: the claims are swept and the updates are left to the drain.
PruneClaimsOnly(w) ==
    LET old == {e \in claimed : e.at + MessageRetention < today}
    IN  /\ HasLane(w, "channel_inbound_messages_retention")
        /\ claimed' = claimed \ old
        /\ outlived' = outlived \cup
               {e.msg : e \in {d \in old : \E v \in Workers : \E u \in batch[v] : u.msg = d.msg}}
        /\ UNCHANGED <<processVars, zaloVars, inbox, batch, acted, unheard, today>>

\* `SqlChannelInboundRetention.prune`: both deletes are one transaction.
PruneInbound(w) ==
    LET old == {e \in claimed : e.at + MessageRetention < today}
        stale == {u \in inbox : u.at + UpdateRetention < today}
    IN  /\ HasLane(w, "channel_inbound_messages_retention")
        /\ claimed' = claimed \ old
        /\ inbox' = inbox \ stale
        /\ unheard' = unheard \cup {u.msg : u \in stale}
        /\ outlived' = outlived \cup
               {e.msg : e \in {d \in old : \E v \in Workers : \E u \in batch[v] : u.msg = d.msg}}
        /\ UNCHANGED <<processVars, zaloVars, batch, acted, today>>

NextDay ==
    /\ today < MaxDay /\ today' = today + 1
    /\ UNCHANGED <<processVars, zaloVars, inbox, batch, claimed, acted, unheard, outlived>>

DeploymentNext ==
    \/ RestartApi \/ NextDay
    \/ \E c \in Settings : StartApi(c) \/ SetWebhook(c) \/ DeleteWebhook(c)
    \/ \E m \in Said, answered \in BOOLEAN : Post(m, answered)
    \/ \E w \in Workers :
           \/ Signal(w) \/ EndWorker(w) \/ PruneInbound(w)
           \/ \E c \in Settings : StartWorker(w, c)
           \/ \E m \in Said, arrives \in BOOLEAN : Poll(w, m, arrives)
           \/ \E some \in SUBSET inbox : Take(w, some)
           \/ \E u \in batch[w] : RouteMessage(w, u) \/ Fails(w, u)

DeploymentSpec == DeploymentInit /\ [][DeploymentNext]_deploymentVars

-----------------------------------------------------------------------------
Copies == [msg: Said, n: 1..MaxOffers, at: 1..MaxDay]

DeploymentTypeOK ==
    /\ api \in {"down", "up"}
    /\ routes \subseteq {"core", "zalo", "zalo webhook", "platform", "dev", "dev session"}
    /\ worker \in [Workers -> {"down", "up", "stopping"}]
    /\ lanes \in [Workers -> SUBSET (BuildRegistry(Flags) \cup {"zalo_link_poll"})]
    /\ hooked \in BOOLEAN /\ unread \subseteq Said
    /\ offers \in [Said -> 0..MaxOffers] /\ since \in [Said -> 0..MaxDay]
    /\ inbox \subseteq Copies /\ batch \in [Workers -> SUBSET Copies]
    /\ claimed \subseteq [msg: Said, at: 1..MaxDay]
    /\ acted \in [Said -> Nat] /\ unheard \subseteq Said /\ outlived \subseteq Said
    /\ today \in 1..MaxDay

\* The copies of a message that a reader has still to handle.
Waiting(m) == {u \in inbox \cup UNION {batch[w] : w \in Workers} : u.msg = m}

\* Whichever readers the settings make, a poll beside a webhook, two workers that
\* drain or poll, one mode after the other: what a person said is acted on once,
\* though Zalo offers it again and the claims are swept, unless a worker held a
\* copy of it all the time its claim was kept; and it is with Zalo, in the queue
\* or with a worker until it was acted on or a copy of it came to nothing
\* (`zalo_webhook`, `SqlChannelUpdateQueue.take`, `InboundRouter.route`,
\* `SqlChannelInboundRetention.prune`).
HeardOnce ==
    \A m \in Said :
        /\ acted[m] <= 1 \/ m \in outlived
        /\ m \in unread \/ Waiting(m) # {} \/ acted[m] > 0 \/ m \in unheard

-----------------------------------------------------------------------------
(* The inductive invariant.                                                   *)

\* A copy came while Zalo offered its message, and none was offered before.
CopiesInTime ==
    \A m \in Said : \A u \in Waiting(m) :
        /\ offers[m] > 0 /\ u.at <= today
        /\ since[m] <= u.at /\ u.at <= since[m] + OffersFor

\* A claim was made while or after Zalo offered its message, and is an act on it.
ClaimsInTime ==
    /\ \A m \in Said : since[m] <= today
    /\ \A e \in claimed : /\ offers[e.msg] > 0 /\ acted[e.msg] > 0
                          /\ since[e.msg] <= e.at /\ e.at <= today

\* What was acted on is claimed, or Zalo has stopped offering it and no copy is left.
ActedIsClaimed ==
    \A m \in Said \ outlived :
        acted[m] > 0 => \/ \E e \in claimed : e.msg = m
                        \/ /\ offers[m] > 0 /\ since[m] + OffersFor < today
                           /\ Waiting(m) = {}

DeploymentInv ==
    DeploymentTypeOK /\ CopiesInTime /\ ClaimsInTime /\ ActedIsClaimed /\ HeardOnce
=============================================================================

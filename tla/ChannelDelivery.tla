--------------------------- MODULE ChannelDelivery ---------------------------
(***************************************************************************)
(* Messages to a person's chat.  A person links a chat with a one-time     *)
(* token (adapters/zalo_link.py, persistence/zalo_link_repo.py); a         *)
(* notification to a linked person queues a delivery in the transaction    *)
(* that writes it (platform.deliver_notification); the worker's lane       *)
(* claims a delivery under a row lock, asks again whether the person may   *)
(* have it and where, sends, and commits the outcome                       *)
(* (consumers/channel_delivery.py, persistence/channel_deliveries.py);     *)
(* the retention sweep fails what waited too long.                         *)
(*                                                                         *)
(* The process may die, or its connection drop, between any two steps of a *)
(* claim: the row is then as it was, and what the chat received it keeps.  *)
(* A notification to several people is one key for each of them.  The      *)
(* backoff is not modelled: a row put off is due at some later moment.     *)
(*                                                                         *)
(* Operators marked Mutant are wrong versions of the definition they       *)
(* precede; no specification uses them.                                    *)
(***************************************************************************)
EXTENDS Naturals

CONSTANTS
    People,
    Chats,
    Tokens,       \* one-time connect tokens
    Notes,        \* source keys of the notifications
    Lanes,        \* processes that run the delivery lane
    None,
    MaxAttempts,  \* MAX_ATTEMPTS, 5
    MaxLosses,    \* bound on deaths and dropped connections
    MaxMoves      \* bound on changes of memberships and of the tenant

ASSUME DeliveryAssumption == MaxAttempts \in Nat \ {0} /\ MaxMoves \in Nat

VARIABLES
    members,     \* who is a member of the workspace
    active,      \* the tenant's status is active
    links,       \* platform.external_identities of the channel: <<person, chat>>
    nonces,      \* platform.channel_link_nonces
    deliveries,  \* platform.channel_deliveries, by source key
    claims,      \* each lane's open claim
    audits,      \* how many outcomes of each delivery were audited
    copies,      \* how many copies of each reached a chat
    losses,      \* how often the claim of each was lost
    strays,      \* the deliveries sent to someone they were not for
    moves

deliveryVars == <<members, active, links, nonces, deliveries, claims, audits, copies, losses,
                  strays, moves>>

Keys == Notes \cup Tokens

Settled == {"sent", "failed", "cancelled"}

Nonces == [user: People \cup {None}, state: {"unissued", "open", "used", "expired"}]

DeliveryRows == [to: People \cup {None},
                 status: {"none", "inbox", "pending", "pruned"} \cup Settled,
                 attempts: 0..MaxAttempts]

Outcomes == {"sent", "unreachable", "error", "not_member", "unlinked"}

\* chat and outcome are what the lane holds in memory.  wasMember and seen are
\* what was true of the recipient at some moment since the claim.
Claims == [at: {"idle", "member", "address", "send", "settle"}, key: Keys \cup {None},
           chat: Chats \cup {None}, outcome: Outcomes \cup {None},
           wasMember: BOOLEAN, seen: SUBSET Chats]

DeliveryTypeOK ==
    /\ members \subseteq People /\ active \in BOOLEAN
    /\ links \subseteq People \X Chats
    /\ nonces \in [Tokens -> Nonces]
    /\ deliveries \in [Keys -> DeliveryRows]
    /\ claims \in [Lanes -> Claims]
    /\ audits \in [Keys -> Nat] /\ copies \in [Keys -> Nat] /\ losses \in [Keys -> Nat]
    /\ strays \subseteq Keys
    /\ moves \in 0..MaxMoves

NotSending == [at |-> "idle", key |-> None, chat |-> None, outcome |-> None,
               wasMember |-> FALSE, seen |-> {}]

DeliveryInit ==
    /\ members = People /\ active = TRUE
    /\ links = {}
    /\ nonces = [t \in Tokens |-> [user |-> None, state |-> "unissued"]]
    /\ deliveries = [k \in Keys |-> [to |-> None, status |-> "none", attempts |-> 0]]
    /\ claims = [l \in Lanes |-> NotSending]
    /\ audits = [k \in Keys |-> 0]
    /\ copies = [k \in Keys |-> 0]
    /\ losses = [k \in Keys |-> 0]
    /\ strays = {}
    /\ moves = 0

Linked(p) == \E c \in Chats : <<p, c>> \in links

May(p) == active /\ p \in members

\* What the open claims witness of a change to links, members or active.
Witness ==
    claims' = [l \in Lanes |->
        IF claims[l].at = "idle" THEN claims[l]
        ELSE LET p == deliveries[claims[l].key].to IN
             [claims[l] EXCEPT !.wasMember = @ \/ (active' /\ p \in members'),
                               !.seen = @ \cup {c \in Chats : <<p, c>> \in links'}]]

-----------------------------------------------------------------------------
(***************************************************************************)
(* Linking.                                                                *)
(***************************************************************************)

\* ZaloLinking.connect and issue_nonce.
Connect(p, t) ==
    /\ nonces[t].state = "unissued"
    /\ nonces' = [nonces EXCEPT ![t] = [user |-> p, state |-> "open"]]
    /\ UNCHANGED <<members, active, links, deliveries, claims, audits, copies, losses, strays,
                   moves>>

\* deliver_notification: to a member, once for a source key; queued for the
\* chat only where the person has one.
Deliver(k, p) ==
    deliveries' = IF p \in members /\ deliveries[k].status = "none"
                  THEN [deliveries EXCEPT ![k].to = p,
                                          ![k].status = IF Linked(p) THEN "pending" ELSE "inbox"]
                  ELSE deliveries

\* _link: both sides are cleared, then the pair is written.
Link(p, c) ==
    links' = {pair \in links : pair[1] # p /\ pair[2] # c} \cup {<<p, c>>}

\* redeem, one transaction: the nonce is consumed, the person is told while
\* the old link still stands, the link is written.  A person without a
\* membership cannot be told, and nothing happens.
Redeem(t, c) ==
    /\ nonces[t].state = "open" /\ nonces[t].user \in members
    /\ nonces' = [nonces EXCEPT ![t].state = "used"]
    /\ Deliver(t, nonces[t].user)
    /\ Link(nonces[t].user, c)
    /\ UNCHANGED <<members, active, audits, copies, losses, strays, moves>>
    /\ Witness

\* The token's quarter of an hour is over; the sweep then deletes the nonce.
TokenExpires(t) ==
    /\ nonces[t].state = "open"
    /\ nonces' = [nonces EXCEPT ![t] = [user |-> None, state |-> "expired"]]
    /\ UNCHANGED <<members, active, links, deliveries, claims, audits, copies, losses, strays,
                   moves>>

\* unlink_by_zalo, unlink_by_user.  The notice goes to the inbox only: the link
\* is deleted before it is written.
Unlink(p) ==
    /\ Linked(p)
    /\ links' = {pair \in links : pair[1] # p}
    /\ UNCHANGED <<members, active, nonces, deliveries, audits, copies, losses, strays, moves>>
    /\ Witness

\* Somebody joins or leaves the workspace.
ChangeMember(p) ==
    /\ moves < MaxMoves /\ moves' = moves + 1
    /\ members' = (members \ {p}) \cup ({p} \ members)
    /\ UNCHANGED <<active, links>>
    /\ Witness
    /\ UNCHANGED <<nonces, deliveries, audits, copies, losses, strays>>

\* The tenant is locked or opened.
ChangeTenant ==
    /\ moves < MaxMoves /\ moves' = moves + 1
    /\ active' = ~active
    /\ UNCHANGED <<members, links>>
    /\ Witness
    /\ UNCHANGED <<nonces, deliveries, audits, copies, losses, strays>>

-----------------------------------------------------------------------------
(***************************************************************************)
(* Sending.                                                                *)
(***************************************************************************)

\* A sender addresses a person; sending again under the key is a no-op.
Notify(n, p) ==
    /\ Deliver(n, p) /\ deliveries' # deliveries
    /\ UNCHANGED <<members, active, links, nonces, claims, audits, copies, losses, strays,
                   moves>>

Locked(k) == \E l \in Lanes : claims[l].at # "idle" /\ claims[l].key = k

Opened(k) ==
    [NotSending EXCEPT !.at = "member", !.key = k, !.wasMember = May(deliveries[k].to),
                       !.seen = {c \in Chats : <<deliveries[k].to, c>> \in links}]

\* Mutant: the due row is read without a lock.
ClaimUnlocked(l, k) ==
    /\ claims[l].at = "idle" /\ deliveries[k].status = "pending"
    /\ claims' = [claims EXCEPT ![l] = Opened(k)]
    /\ UNCHANGED <<members, active, links, nonces, deliveries, audits, copies, losses, strays,
                   moves>>

\* claim_next: a pending row nobody holds, locked until the transaction ends.
Claim(l, k) ==
    /\ claims[l].at = "idle" /\ deliveries[k].status = "pending" /\ ~Locked(k)
    /\ claims' = [claims EXCEPT ![l] = Opened(k)]
    /\ UNCHANGED <<members, active, links, nonces, deliveries, audits, copies, losses, strays,
                   moves>>

\* recipient_may_receive.
CheckMember(l) ==
    /\ claims[l].at = "member"
    /\ claims' = IF May(deliveries[claims[l].key].to)
                 THEN [claims EXCEPT ![l].at = "address"]
                 ELSE [claims EXCEPT ![l].at = "settle", ![l].outcome = "not_member"]
    /\ UNCHANGED <<members, active, links, nonces, deliveries, audits, copies, losses, strays,
                   moves>>

\* address_of (zalo_id_for), read at send time.
ReadAddress(l) ==
    /\ claims[l].at = "address"
    /\ LET p == deliveries[claims[l].key].to IN
       \/ \E c \in Chats : /\ <<p, c>> \in links
                           /\ claims' = [claims EXCEPT ![l].at = "send", ![l].chat = c]
       \/ /\ ~Linked(p)
          /\ claims' = [claims EXCEPT ![l].at = "settle", ![l].outcome = "unlinked"]
    /\ UNCHANGED <<members, active, links, nonces, deliveries, audits, copies, losses, strays,
                   moves>>

\* send_message: accepted, refused for good, or an error - which may hide a
\* message that arrived.
Send(l) ==
    /\ claims[l].at = "send"
    /\ LET k == claims[l].key IN
       \E outcome \in {"sent", "unreachable", "error"} : \E arrived \in BOOLEAN :
           /\ outcome = "sent" => arrived
           /\ outcome = "unreachable" => ~arrived
           /\ claims' = [claims EXCEPT ![l].at = "settle", ![l].outcome = outcome]
           /\ copies' = [copies EXCEPT ![k] = IF arrived THEN @ + 1 ELSE @]
           /\ strays' = IF arrived /\ ~(claims[l].wasMember /\ claims[l].chat \in claims[l].seen)
                        THEN strays \cup {k} ELSE strays
    /\ UNCHANGED <<members, active, links, nonces, deliveries, audits, losses, moves>>

\* _settle writes a row that is still pending; the audit row is written beside
\* it, for an outcome and not for a retry.
Write(k, status, attempts) ==
    /\ deliveries' = IF deliveries[k].status = "pending"
                     THEN [deliveries EXCEPT ![k].status = status, ![k].attempts = attempts]
                     ELSE deliveries
    /\ audits' = IF status \in Settled THEN [audits EXCEPT ![k] = @ + 1] ELSE audits

\* Mutant: a chat that cannot be reached is put off, and the attempt is not
\* counted.
SettleUncounted(l) ==
    /\ claims[l].at = "settle"
    /\ LET k == claims[l].key
           made == deliveries[k].attempts + 1
       IN
       CASE claims[l].outcome = "sent"        -> Write(k, "sent", made)
         [] claims[l].outcome = "unreachable" -> Write(k, "pending", deliveries[k].attempts)
         [] claims[l].outcome = "error"       ->
                Write(k, IF made >= MaxAttempts THEN "failed" ELSE "pending", made)
         [] OTHER                             -> Write(k, "cancelled", deliveries[k].attempts)
    /\ claims' = [claims EXCEPT ![l] = NotSending]
    /\ UNCHANGED <<members, active, links, nonces, copies, losses, strays, moves>>

\* mark_sent, mark_failed, retry_later, mark_cancelled, and the commit.
Settle(l) ==
    /\ claims[l].at = "settle"
    /\ LET k == claims[l].key
           made == deliveries[k].attempts + 1
       IN
       CASE claims[l].outcome = "sent"        -> Write(k, "sent", made)
         [] claims[l].outcome = "unreachable" -> Write(k, "failed", made)
         [] claims[l].outcome = "error"       ->
                Write(k, IF made >= MaxAttempts THEN "failed" ELSE "pending", made)
         [] OTHER                             -> Write(k, "cancelled", deliveries[k].attempts)
    /\ claims' = [claims EXCEPT ![l] = NotSending]
    /\ UNCHANGED <<members, active, links, nonces, copies, losses, strays, moves>>

\* The transaction is lost before its commit and the row is as it was.
Lose(l) ==
    /\ claims[l].at # "idle" /\ \A k \in Keys : losses[k] < MaxLosses
    /\ losses' = [losses EXCEPT ![claims[l].key] = @ + 1]
    /\ claims' = [claims EXCEPT ![l] = NotSending]
    /\ UNCHANGED <<members, active, links, nonces, deliveries, audits, copies, strays, moves>>

\* expire_pending_channel_deliveries: waits for the lock, then fails what is
\* still pending.
Expire(k) ==
    /\ deliveries[k].status = "pending" /\ ~Locked(k)
    /\ Write(k, "failed", deliveries[k].attempts)
    /\ UNCHANGED <<members, active, links, nonces, claims, copies, losses, strays, moves>>

\* prune_channel_deliveries: after 90 days, never a pending row.
Prune(k) ==
    /\ deliveries[k].status \in Settled
    /\ deliveries' = [deliveries EXCEPT ![k] = [to |-> None, status |-> "pruned", attempts |-> 0]]
    /\ UNCHANGED <<members, active, links, nonces, claims, audits, copies, losses, strays,
                   moves>>

\* What a lane does with the row it holds.
Proceed(l) == CheckMember(l) \/ ReadAddress(l) \/ Send(l) \/ Settle(l)

DeliveryNext ==
    \/ \E p \in People, t \in Tokens : Connect(p, t)
    \/ \E t \in Tokens, c \in Chats : Redeem(t, c)
    \/ \E t \in Tokens : TokenExpires(t)
    \/ \E p \in People : Unlink(p) \/ ChangeMember(p)
    \/ ChangeTenant
    \/ \E n \in Notes, p \in People : Notify(n, p)
    \/ \E l \in Lanes, k \in Keys : Claim(l, k)
    \/ \E l \in Lanes : Proceed(l) \/ Lose(l)
    \/ \E k \in Keys : Expire(k) \/ Prune(k)

DeliverySpec == DeliveryInit /\ [][DeliveryNext]_deliveryVars

-----------------------------------------------------------------------------
(***************************************************************************)
(* Properties.                                                             *)
(***************************************************************************)

\* A copy goes to a chat that was linked to the recipient, and the recipient
\* was a member of an active tenant, at some moment of the claim: neither is
\* remembered from the time the notification was written.
SentToRecipient == strays = {}

\* A delivery has one outcome and one audit row for it, whatever lane, second
\* lane and sweep do about it at once; what is called sent did arrive; a
\* person gets a second copy only for an attempt that was recorded as an error
\* or for a claim that was lost; and nobody else gets one.
OneOutcome ==
    /\ SentToRecipient
    /\ \A k \in Keys :
          /\ audits[k] = IF deliveries[k].status \in Settled \cup {"pruned"} THEN 1 ELSE 0
          /\ deliveries[k].status = "sent" => copies[k] > 0
          /\ deliveries[k].status # "pruned" /\ ~Locked(k) =>
                copies[k] <= deliveries[k].attempts + losses[k]

\* A queued delivery is settled, also where no lane runs at all.
DeliverySettles ==
    \A k \in Keys : deliveries[k].status = "pending" ~> deliveries[k].status \in Settled

-----------------------------------------------------------------------------
(***************************************************************************)
(* The inductive invariant.                                                *)
(***************************************************************************)

\* A claim holds a pending row, alone.
HeldAlone ==
    \A l \in Lanes : claims[l].at # "idle" =>
        /\ claims[l].key \in Keys /\ deliveries[claims[l].key].status = "pending"
        /\ \A m \in Lanes : claims[m].at # "idle" /\ claims[m].key = claims[l].key => m = l

\* A row that may still be sent has an attempt left.
AttemptLeft ==
    \A k \in Keys :
        deliveries[k].status \in {"none", "pending"} => deliveries[k].attempts < MaxAttempts

\* What a claim goes by was true of the recipient while it was open.
Witnessed ==
    \A l \in Lanes : claims[l].at # "idle" =>
        LET p == deliveries[claims[l].key].to
        IN  /\ claims[l].at \in {"address", "send"} \/ May(p) => claims[l].wasMember
            /\ \A c \in Chats : <<p, c>> \in links => c \in claims[l].seen
            /\ claims[l].at = "send" => claims[l].chat \in claims[l].seen

\* A copy that has arrived and is not yet recorded is the one of this attempt.
CopiesCounted ==
    \A l \in Lanes : claims[l].at # "idle" =>
        LET k == claims[l].key
            sent == claims[l].at = "settle" /\ claims[l].outcome \in {"sent", "error"}
        IN  /\ copies[k] <= deliveries[k].attempts + losses[k] + (IF sent THEN 1 ELSE 0)
            /\ claims[l].at = "settle" /\ claims[l].outcome = "sent" => copies[k] > 0

DeliveryInv ==
    DeliveryTypeOK /\ HeldAlone /\ AttemptLeft /\ Witnessed /\ CopiesCounted /\ OneOutcome
=============================================================================

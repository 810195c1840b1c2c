---------------------------- MODULE DirectMessages ----------------------------
(***************************************************************************)
(* The direct messages of one node: the rows of direct_messages and        *)
(* conversations, the senders' keys they are decrypted with, the gossip    *)
(* handler that stores incoming mail, the background tasks that retry mail *)
(* whose key was missing, and the API calls that run beside them.          *)
(*                                                                         *)
(* Abstractions.  A message is a model value with a sender, an addressee   *)
(* and the sender's key it was encrypted with; it can be read by its       *)
(* addressee with exactly that key.  A message that is corrupt has a key   *)
(* nobody ever had.  Bodies, previews and time stamps are left out, so the *)
(* order in which a retry goes through its messages is not fixed.  Each    *)
(* with_repositories closure runs under the connection mutex and is one    *)
(* step.  Messages come from the network in any order, repeatedly or never.*)
(***************************************************************************)
EXTENDS Integers, FiniteSets

CONSTANTS
    Me,        \* the local peer
    Peer,      \* the other peers
    Mail,      \* the messages: those of others, and those that Me may send
    From, To,  \* From[m], To[m]: sender and addressee of message m
    Key,       \* X25519 public keys
    KeyOf,     \* KeyOf[m]: the sender's key that m was encrypted with
    Profiles,  \* the <<peer, key>> of the profile updates that may arrive
    Codes,     \* the <<peer, nullable key>> of the friend codes, and of the
               \* peer views in thread snapshots, that may be registered
    Worker,    \* bound: as many retry tasks may run at once
    MaxUnread, \* bound: an unread counter stays there once it is reached
    Restarts   \* whether the node may restart

\* A nullable column is the set of its value: {} is NULL, {v} is v.
Nullable(S) == {{}} \union {{v} : v \in S}

ASSUME MailAssumption ==
    /\ Me \notin Peer
    /\ From \in [Mail -> Peer \union {Me}]
    /\ To \in [Mail -> Peer \union {Me}]
    /\ \A m \in Mail : From[m] # To[m]
    /\ KeyOf \in [Mail -> Key]
    /\ Profiles \subseteq Peer \X Key
    /\ Codes \subseteq Peer \X Nullable(Key)
    /\ MaxUnread \in Nat \ {0}
    /\ Restarts \in BOOLEAN

VARIABLES
    known,    \* the peers that have a row in table peers
    key,      \* key[p]: column x25519_pubkey of peer p
    mail,     \* mail[m]: column decrypt_status of message m, or "absent"
    read,     \* the messages whose column read_at is set
    unread,   \* unread[c]: column unread_count of conversation c, or no row
    seen,     \* the messages in the deduplication cache of the ingest loop
    handling, \* the message that the ingest loop is working on
    retry,    \* retry[w]: the retry tasks that are running
    outbox    \* the messages encrypted by the API handler and not yet stored

store == <<known, key, mail, read, unread>>
tasks == <<seen, handling, retry, outbox>>
vars == <<store, tasks>>

\* derive_conversation_id: the id depends on the two ends, in either order.
Conversation == {{From[m], To[m]} : m \in Mail} \union {{Me, p} : p \in Peer}

Conv(m) == {From[m], To[m]}

\* What receive_dm finds out about a message, and "counted" after it.
Verdict == {"locked", "garbled", "readable", "counted"}

Task == [step : {"idle", "listing", "looking"} \union Verdict,
         peer : Peer \union {Me},
         todo : SUBSET Mail,
         current : Nullable(Mail)]

TaskFor(p, step) == [step |-> step, peer |-> p, todo |-> {}, current |-> {}]

Idle == TaskFor(Me, "idle")

TypeOK ==
    /\ known \subseteq Peer
    /\ key \in [Peer -> Nullable(Key)]
    /\ mail \in [Mail -> {"absent", "pending", "decrypted", "failed"}]
    /\ read \subseteq Mail
    /\ unread \in [Conversation -> Nullable(0..MaxUnread)]
    /\ seen \subseteq Mail
    /\ handling \in Nullable([mail : Mail, step : Verdict])
    /\ retry \in [Worker -> Task]
    /\ outbox \subseteq Mail

Init ==
    /\ known = {}
    /\ key = [p \in Peer |-> {}]
    /\ mail = [m \in Mail |-> "absent"]
    /\ read = {}
    /\ unread = [c \in Conversation |-> {}]
    /\ seen = {}
    /\ handling = {}
    /\ retry = [w \in Worker |-> Idle]
    /\ outbox = {}

Stored == {m \in Mail : mail[m] # "absent"}

Incoming == {m \in Mail : From[m] # Me}

\* The foreign keys of a message row; the local peer's own row always exists.
EndsKnown(m) == Conv(m) \ {Me} \subseteq known

\* Mutant: a message that arrives again replaces its row.
Upsert(m, status) == [mail EXCEPT ![m] = status]

\* DirectMessageRepository::create: ON CONFLICT(id) DO NOTHING.
Create(m, status) ==
    [mail EXCEPT ![m] = IF m \in Stored THEN @ ELSE status]

\* ConversationRepository::record_outgoing_message.
RecordOutgoing(c) == [unread EXCEPT ![c] = IF @ = {} THEN {0} ELSE @]

\* ConversationRepository::record_incoming_message.
RecordIncoming(c) ==
    [unread EXCEPT ![c] = IF @ = {} THEN {1}
                          ELSE {IF n < MaxUnread THEN n + 1 ELSE n : n \in @}]

\* receive_dm: the key is looked up in one closure; only the addressee can
\* decrypt, and only with the key that the sender used.
Outcome(m) ==
    CASE key[From[m]] = {} -> "locked"
      [] To[m] = Me /\ key[From[m]] = {KeyOf[m]} -> "readable"
      [] OTHER -> "garbled"

-----------------------------------------------------------------------------
(* The gossip handler: one message at a time.                              *)

\* A message in the cache is dropped, whatever became of it before.
ReceiveMail(m) ==
    /\ m \in Incoming \ seen
    /\ handling = {}
    /\ seen' = seen \union {m}
    /\ handling' = {[mail |-> m, step |-> Outcome(m)]}
    /\ UNCHANGED <<store, retry, outbox>>

\* The conversation is updated before the message is stored.  A foreign key
\* that breaks, here and below, is logged and ends the handler.
CountMail(m) ==
    /\ handling = {[mail |-> m, step |-> "readable"]}
    /\ IF From[m] \in known
       THEN /\ unread' = RecordIncoming(Conv(m))
            /\ handling' = {[mail |-> m, step |-> "counted"]}
       ELSE unread' = unread /\ handling' = {}
    /\ UNCHANGED <<known, key, mail, read, seen, retry, outbox>>

StoreDecrypted(m) ==
    /\ handling = {[mail |-> m, step |-> "counted"]}
    /\ mail' = IF EndsKnown(m) THEN Create(m, "decrypted") ELSE mail
    /\ handling' = {}
    /\ UNCHANGED <<known, key, read, unread, seen, retry, outbox>>

\* Mutant: locked mail is stored and not counted.
StoreUncounted(m) ==
    /\ handling = {[mail |-> m, step |-> "locked"]}
    /\ mail' = IF EndsKnown(m) THEN Create(m, "pending") ELSE mail
    /\ unread' = IF EndsKnown(m) THEN RecordOutgoing(Conv(m)) ELSE unread
    /\ handling' = {}
    /\ UNCHANGED <<known, key, read, seen, retry, outbox>>

\* Mail without a key is stored and counted in one closure.
StorePending(m) ==
    /\ handling = {[mail |-> m, step |-> "locked"]}
    /\ mail' = IF EndsKnown(m) THEN Create(m, "pending") ELSE mail
    /\ unread' = IF EndsKnown(m) THEN RecordIncoming(Conv(m)) ELSE unread
    /\ handling' = {}
    /\ UNCHANGED <<known, key, read, seen, retry, outbox>>

\* Mutant: a status that no query knows is written.
StoreUnknown(m) ==
    /\ handling = {[mail |-> m, step |-> "garbled"]}
    /\ mail' = IF EndsKnown(m) THEN Create(m, "error") ELSE mail
    /\ handling' = {}
    /\ UNCHANGED <<known, key, read, unread, seen, retry, outbox>>

StoreFailed(m) ==
    /\ handling = {[mail |-> m, step |-> "garbled"]}
    /\ mail' = IF EndsKnown(m) THEN Create(m, "failed") ELSE mail
    /\ handling' = {}
    /\ UNCHANGED <<known, key, read, unread, seen, retry, outbox>>

\* Mutant: mail is only retried when the sender had no key before.
ReceiveFirstKey(p, k, w) ==
    /\ <<p, k>> \in Profiles
    /\ handling = {}
    /\ retry[w] = Idle
    /\ key' = IF p \in known THEN [key EXCEPT ![p] = {k}] ELSE key
    /\ retry' = [retry EXCEPT
          ![w] = IF key[p] = {} THEN TaskFor(p, "listing") ELSE @]
    /\ UNCHANGED <<known, mail, read, unread, seen, handling, outbox>>

\* The profile of an unknown peer is ignored; a retry is spawned all the same.
ReceiveProfile(p, k, w) ==
    /\ <<p, k>> \in Profiles
    /\ handling = {}
    /\ retry[w] = Idle
    /\ key' = IF p \in known THEN [key EXCEPT ![p] = {k}] ELSE key
    /\ retry' = [retry EXCEPT ![w] = TaskFor(p, "listing")]
    /\ UNCHANGED <<known, mail, read, unread, seen, handling, outbox>>

-----------------------------------------------------------------------------
(* retry_pending_for_sender, on a blocking thread of its own.              *)

ListPending(w) ==
    /\ retry[w].step = "listing"
    /\ retry' = [retry EXCEPT
          ![w].step = "looking",
          ![w].todo = {m \in Mail : mail[m] = "pending" /\ From[m] = retry[w].peer}]
    /\ UNCHANGED <<store, seen, handling, outbox>>

\* Mail whose key is still missing stays pending.
LookAgain(w, m) ==
    /\ retry[w].step = "looking"
    /\ m \in retry[w].todo
    /\ retry' = [retry EXCEPT
          ![w].todo = @ \ {m},
          ![w].step = IF Outcome(m) = "locked" THEN @ ELSE Outcome(m),
          ![w].current = IF Outcome(m) = "locked" THEN {} ELSE {m}]
    /\ UNCHANGED <<store, seen, handling, outbox>>

CountAgain(w, m) ==
    /\ retry[w].step = "readable"
    /\ retry[w].current = {m}
    /\ IF From[m] \in known
       THEN /\ unread' = RecordIncoming(Conv(m))
            /\ retry' = [retry EXCEPT ![w].step = "counted"]
       ELSE unread' = unread /\ retry' = [retry EXCEPT ![w] = Idle]
    /\ UNCHANGED <<known, key, mail, read, seen, handling, outbox>>

\* update_decrypt_status, whatever the status is by now.
Settle(w, m) ==
    /\ retry[w].step \in {"counted", "garbled"}
    /\ retry[w].current = {m}
    /\ mail' = [mail EXCEPT
          ![m] = IF retry[w].step = "counted" THEN "decrypted" ELSE "failed"]
    /\ retry' = [retry EXCEPT ![w].step = "looking", ![w].current = {}]
    /\ UNCHANGED <<known, key, read, unread, seen, handling, outbox>>

EndRetry(w) ==
    /\ retry[w].step = "looking"
    /\ retry[w].todo = {}
    /\ retry' = [retry EXCEPT ![w] = Idle]
    /\ UNCHANGED <<store, seen, handling, outbox>>

-----------------------------------------------------------------------------
(* The API, and the other writers of table peers.                          *)

\* The upsert replaces the key, with none if the code does not carry it.
LearnPeer(p, k) ==
    /\ <<p, k>> \in Codes
    /\ known' = known \union {p}
    /\ key' = [key EXCEPT ![p] = k]
    /\ UNCHANGED <<mail, read, unread, tasks>>

\* The rows that keep the row of p from being deleted.
Referenced(p) == unread[{Me, p}] # {} \/ \E m \in Stored : p \in Conv(m)

\* Mutant: the connection does not enforce foreign keys.
DeletePeer(p) ==
    /\ p \in known
    /\ known' = known \ {p}
    /\ key' = [key EXCEPT ![p] = {}]
    /\ UNCHANGED <<mail, read, unread, tasks>>

Unfollow(p) ==
    /\ p \in known
    /\ ~Referenced(p)
    /\ known' = known \ {p}
    /\ key' = [key EXCEPT ![p] = {}]
    /\ UNCHANGED <<mail, read, unread, tasks>>

\* send_dm reads the addressee's key in one closure and stores in another.
PrepareSend(m) ==
    /\ From[m] = Me
    /\ m \notin Stored \union outbox
    /\ key[To[m]] # {}
    /\ outbox' = outbox \union {m}
    /\ UNCHANGED <<store, seen, handling, retry>>

StoreSent(m) ==
    /\ m \in outbox
    /\ mail' = IF EndsKnown(m) THEN Create(m, "decrypted") ELSE mail
    /\ unread' = IF EndsKnown(m) THEN RecordOutgoing(Conv(m)) ELSE unread
    /\ outbox' = outbox \ {m}
    /\ UNCHANGED <<known, key, read, seen, handling, retry>>

\* The counter of the conversation is left as it is.
MarkRead(m) ==
    /\ m \in Stored
    /\ read' = read \union {m}
    /\ UNCHANGED <<known, key, mail, unread, tasks>>

\* The messages to us are marked, and the counter of the conversation reset.
OpenConversation(p) ==
    /\ read' = read \union {m \in Stored : From[m] = p /\ To[m] = Me}
    /\ unread' = [unread EXCEPT ![{Me, p}] = IF @ = {} THEN {} ELSE {0}]
    /\ UNCHANGED <<known, key, mail, tasks>>

\* The database survives, the cache and everything in flight does not.
Restart ==
    /\ Restarts
    /\ seen' = {}
    /\ handling' = {}
    /\ retry' = [w \in Worker |-> Idle]
    /\ outbox' = {}
    /\ UNCHANGED store

-----------------------------------------------------------------------------
Ingest ==
    \/ \E m \in Mail :
          \/ ReceiveMail(m) \/ CountMail(m)
          \/ StoreDecrypted(m) \/ StorePending(m) \/ StoreFailed(m)
    \/ \E p \in Peer, k \in Key, w \in Worker : ReceiveProfile(p, k, w)

Retry(w) ==
    \/ ListPending(w)
    \/ \E m \in Mail : LookAgain(w, m) \/ CountAgain(w, m) \/ Settle(w, m)
    \/ EndRetry(w)

Api ==
    \/ \E p \in Peer, k \in Nullable(Key) : LearnPeer(p, k)
    \/ \E p \in Peer : Unfollow(p) \/ OpenConversation(p)
    \/ \E m \in Mail : PrepareSend(m) \/ StoreSent(m) \/ MarkRead(m)

Next == Ingest \/ (\E w \in Worker : Retry(w)) \/ Api \/ Restart

Spec == Init /\ [][Next]_vars

\* The handler goes on while the node runs.  A peer announces its profile again
\* and again, and the node does not crash at the same step of a retry for ever.
Fairness ==
    /\ \A m \in Incoming :
          /\ WF_vars(CountMail(m))
          /\ WF_vars(StoreDecrypted(m) \/ StorePending(m) \/ StoreFailed(m))
          /\ SF_vars(\E w \in Worker : LookAgain(w, m))
          /\ SF_vars(\E w \in Worker : CountAgain(w, m))
          /\ SF_vars(\E w \in Worker : Settle(w, m))
    /\ \A w \in Worker : SF_vars(ListPending(w)) /\ WF_vars(EndRetry(w))
    /\ \A p \in Peer : SF_vars(\E k \in Key, w \in Worker : ReceiveProfile(p, k, w))

LiveSpec == Spec /\ Fairness

-----------------------------------------------------------------------------
(* Properties.                                                             *)

\* The foreign keys hold although a handler looks a peer up in one closure and
\* stores in another: the peers of a stored message and of a conversation of
\* ours have their row, so no unfollow in between leaves a dangling message.
ReferencesHold ==
    /\ \A m \in Stored : EndsKnown(m)
    /\ \A p \in Peer : unread[{Me, p}] # {} => p \in known

\* Mail that cannot be read yet is visible as unread: its conversation exists
\* and its counter is not zero, whatever other messages, retries, replies and
\* opened conversations happen around it.
PendingMailIsSurfaced ==
    \A m \in Mail \ read : mail[m] = "pending" => unread[Conv(m)] \notin {{}, {0}}

\* Only messages to or from the local user are ever shown as decrypted; the
\* peer topic delivers those of friends to each other as well.
OnlyMyMailIsDecrypted ==
    \A m \in Mail : mail[m] = "decrypted" => Me \in Conv(m)

\* A message that is stored stays stored and stays read, and never becomes
\* pending again, when it is delivered again or retried twice.
StoredMailIsStable ==
    [][\A m \in Mail :
          /\ m \in Stored => m \in Stored'
          /\ mail'[m] = "pending" => mail[m] \in {"absent", "pending"}
          /\ m \in read => m \in read'
      ]_vars

\* The messages that the handler or a retry has counted and is about to store.
Noticed ==
    {m \in Mail :
        \/ [mail |-> m, step |-> "counted"] \in handling
        \/ \E w \in Worker : retry[w].step = "counted" /\ m \in retry[w].current}

\* The conversations whose counter is not zero.
Badges == {c \in Conversation : unread[c] \notin {{}, {0}}}

\* The store implements the mailbox of module Mailbox: a message is shown in
\* clear only after its conversation was counted, by the handler or by a retry,
\* whatever the handler, other retries, unfollows and restarts do in between;
\* locked mail is stored and counted at once; and only opening a conversation
\* takes its count away.
Mbox == INSTANCE Mailbox WITH
    status <- mail, badge <- Badges, noticed <- Noticed

ImplementsMailbox == Mbox!Spec

\* Pending mail does not stay pending once its sender's key is there to stay
\* and profile updates keep arriving, through crashes in the middle of retries.
PendingIsResolved ==
    \A m \in Incoming :
        <>[](key[From[m]] # {}) => (mail[m] = "pending" ~> mail[m] # "pending")

\* What retry_pending_for_sender and create promise: a message counts as unread
\* once, so no counter exceeds the messages that the conversation received.
CountedOnce ==
    \A c \in Conversation : \A n \in unread[c] :
        n <= Cardinality({m \in Incoming \intersect (Stored \union seen) : Conv(m) = c})

\* What DmIngestError::MissingKey promises: mail whose handler is through is
\* stored, with its sender's key or without.
HandledMailIsStored ==
    \A m \in seen : handling = {} => m \in Stored

-----------------------------------------------------------------------------
(* What the proofs rest on.                                                *)

\* What the handler works on came from others; what is being counted or has
\* been counted is addressed to us; a retry works on messages of others that are
\* stored.
TasksAreSound ==
    /\ \A h \in handling :
          /\ From[h.mail] # Me
          /\ h.step \in {"readable", "counted"} => To[h.mail] = Me
    /\ \A w \in Worker :
          /\ retry[w].todo \union retry[w].current \subseteq Stored \intersect Incoming
          /\ retry[w].step \in {"readable", "counted"} =>
                \A m \in retry[w].current : To[m] = Me
    /\ \A m \in outbox : From[m] = Me

OnlyIncomingIsPending == \A m \in Mail : mail[m] = "pending" => From[m] # Me

IInv ==
    /\ TypeOK
    /\ ReferencesHold
    /\ PendingMailIsSurfaced
    /\ OnlyMyMailIsDecrypted
    /\ TasksAreSound
    /\ OnlyIncomingIsPending
=============================================================================

------------------------ MODULE DirectMessagesProofs ------------------------
(***************************************************************************)
(* Proofs about DirectMessages for any peers, messages, keys, friend codes *)
(* and number of concurrent retries.                                       *)
(***************************************************************************)
EXTENDS DirectMessages, TLAPS

Status == {"absent", "pending", "decrypted", "failed"}

Counter == Nullable(0..MaxUnread)

-----------------------------------------------------------------------------
(* What the repository operations do.                                      *)

\* A counter that is increased is never zero, and stays in its range.
LEMMA Increase ==
    ASSUME NEW S \in Counter, S # {}
    PROVE  LET T == {IF n < MaxUnread THEN n + 1 ELSE n : n \in S}
           IN  T \in Counter /\ T \notin {{}, {0}}
<1> USE MailAssumption DEF MailAssumption
<1>1. PICK n \in 0..MaxUnread : S = {n}
    BY DEF Counter, Nullable
<1>2. DEFINE k == IF n < MaxUnread THEN n + 1 ELSE n
<1>3. {IF i < MaxUnread THEN i + 1 ELSE i : i \in S} = {k}
    BY <1>1
<1>4. k \in 0..MaxUnread /\ k # 0
    OBVIOUS
<1>5. QED
    BY <1>3, <1>4 DEF Counter, Nullable

LEMMA RecordIncomingFacts ==
    ASSUME TypeOK, NEW c \in Conversation
    PROVE  /\ RecordIncoming(c) \in [Conversation -> Counter]
           /\ RecordIncoming(c)[c] \notin {{}, {0}}
           /\ \A d \in Conversation \ {c} : RecordIncoming(c)[d] = unread[d]
<1>1. unread \in [Conversation -> Counter]
    BY DEF TypeOK, Counter
<1>2. {1} \in Counter
    BY MailAssumption DEF MailAssumption, Counter, Nullable
<1>3. CASE unread[c] = {}
    BY <1>1, <1>2, <1>3 DEF RecordIncoming
<1>4. CASE unread[c] # {}
    <2> DEFINE T == {IF n < MaxUnread THEN n + 1 ELSE n : n \in unread[c]}
    <2>1. T \in Counter /\ T \notin {{}, {0}}
        BY <1>1, <1>4, Increase
    <2>2. RecordIncoming(c) = [unread EXCEPT ![c] = T]
        BY <1>1, <1>4 DEF RecordIncoming
    <2> HIDE DEF T
    <2>3. QED
        BY <1>1, <2>1, <2>2
<1>5. QED
    BY <1>3, <1>4

LEMMA RecordOutgoingFacts ==
    ASSUME TypeOK, NEW c \in Conversation
    PROVE  /\ RecordOutgoing(c) \in [Conversation -> Counter]
           /\ RecordOutgoing(c)[c] # {}
           /\ \A d \in Conversation : unread[d] # {} => RecordOutgoing(c)[d] = unread[d]
           /\ \A d \in Conversation \ {c} : RecordOutgoing(c)[d] = unread[d]
<1>1. unread \in [Conversation -> Counter]
    BY DEF TypeOK, Counter
<1>2. {0} \in Counter
    BY MailAssumption DEF MailAssumption, Counter, Nullable
<1>3. QED
    BY <1>1, <1>2 DEF RecordOutgoing

LEMMA CreateFacts ==
    ASSUME TypeOK, NEW m \in Mail, NEW s \in Status
    PROVE  /\ Create(m, s) \in [Mail -> Status]
           /\ \A x \in Mail :
                 \/ Create(m, s)[x] = mail[x]
                 \/ /\ x = m
                    /\ mail[x] = "absent"
                    /\ Create(m, s)[x] = s
BY DEF TypeOK, Create, Stored, Status

LEMMA ConversationTypes ==
    /\ \A m \in Mail : Conv(m) \in Conversation
    /\ \A p \in Peer : {Me, p} \in Conversation
BY DEF Conversation, Conv

-----------------------------------------------------------------------------
(* Type correctness.                                                       *)

LEMMA OutcomeType == \A m : Outcome(m) \in {"locked", "garbled", "readable"}
BY DEF Outcome

LEMMA TaskFields ==
    ASSUME TypeOK, NEW w \in Worker
    PROVE  /\ retry[w] = [step |-> retry[w].step, peer |-> retry[w].peer,
                          todo |-> retry[w].todo, current |-> retry[w].current]
           /\ retry[w].step \in {"idle", "listing", "looking"} \union Verdict
           /\ retry[w].peer \in Peer \union {Me}
           /\ retry[w].todo \in SUBSET Mail
           /\ retry[w].current \in Nullable(Mail)
BY DEF TypeOK, Task

\* A step of retry w that leaves the other tasks alone keeps their type.
LEMMA RetryType ==
    ASSUME TypeOK, NEW w \in Worker,
           NEW s \in {"idle", "listing", "looking"} \union Verdict,
           NEW p \in Peer \union {Me}, NEW t \in SUBSET Mail,
           NEW c \in Nullable(Mail),
           retry' = [retry EXCEPT
              ![w] = [step |-> s, peer |-> p, todo |-> t, current |-> c]]
    PROVE  retry' \in [Worker -> Task]
BY DEF TypeOK, Task

LEMMA IngestType == TypeOK /\ Ingest => TypeOK'
<1> SUFFICES ASSUME TypeOK, Ingest PROVE TypeOK'
    OBVIOUS
<1> USE DEF Status
<1>1. ASSUME NEW m \in Mail, ReceiveMail(m) PROVE TypeOK'
    <2>1. [mail |-> m, step |-> Outcome(m)] \in [mail : Mail, step : Verdict]
        BY OutcomeType DEF Verdict
    <2>2. handling' \in Nullable([mail : Mail, step : Verdict])
        BY <1>1, <2>1 DEF ReceiveMail, Nullable
    <2>3. QED
        BY <1>1, <2>2 DEF ReceiveMail, TypeOK, store
<1>2. ASSUME NEW m \in Mail, CountMail(m) PROVE TypeOK'
    <2>1. unread' \in [Conversation -> Counter]
        BY <1>2, RecordIncomingFacts, ConversationTypes DEF CountMail, TypeOK, Counter
    <2>2. [mail |-> m, step |-> "counted"] \in [mail : Mail, step : Verdict]
        BY DEF Verdict
    <2>3. handling' \in Nullable([mail : Mail, step : Verdict])
        BY <1>2, <2>2 DEF CountMail, Nullable
    <2>4. QED
        BY <1>2, <2>1, <2>3 DEF CountMail, TypeOK, Counter
<1>3. {} \in Nullable([mail : Mail, step : Verdict])
    BY DEF Nullable
<1>4. ASSUME NEW m \in Mail,
             StoreDecrypted(m) \/ StorePending(m) \/ StoreFailed(m)
      PROVE  TypeOK'
    <2>1. mail' \in [Mail -> Status]
        BY <1>4, CreateFacts DEF StoreDecrypted, StorePending, StoreFailed, TypeOK
    <2>2. unread' \in [Conversation -> Counter]
        BY <1>4, RecordIncomingFacts, ConversationTypes
        DEF StoreDecrypted, StorePending, StoreFailed, TypeOK, Counter
    <2>3. QED
        BY <1>3, <1>4, <2>1, <2>2
        DEF StoreDecrypted, StorePending, StoreFailed, TypeOK, Counter
<1>5. ASSUME NEW p \in Peer, NEW k \in Key, NEW w \in Worker, ReceiveProfile(p, k, w)
      PROVE  TypeOK'
    <2>1. key' \in [Peer -> Nullable(Key)]
        BY <1>5 DEF ReceiveProfile, TypeOK, Nullable
    <2>2. retry' = [retry EXCEPT
             ![w] = [step |-> "listing", peer |-> p, todo |-> {}, current |-> {}]]
        BY <1>5 DEF ReceiveProfile, TaskFor
    <2>3. {} \in SUBSET Mail /\ {} \in Nullable(Mail)
        BY DEF Nullable
    <2>4. retry' \in [Worker -> Task]
        BY <2>2, <2>3, RetryType
    <2>5. QED
        BY <1>5, <2>1, <2>4 DEF ReceiveProfile, TypeOK
<1>6. QED
    BY <1>1, <1>2, <1>4, <1>5 DEF Ingest

LEMMA RetryStepType == ASSUME TypeOK, NEW w \in Worker, Retry(w) PROVE TypeOK'
<1> DEFINE r == retry[w]
<1>1. /\ r = [step |-> r.step, peer |-> r.peer, todo |-> r.todo, current |-> r.current]
      /\ r.step \in {"idle", "listing", "looking"} \union Verdict
      /\ r.peer \in Peer \union {Me}
      /\ r.todo \in SUBSET Mail
      /\ r.current \in Nullable(Mail)
    BY TaskFields
<1>2. retry \in [Worker -> Task]
    BY DEF TypeOK
<1>3. {} \in Nullable(Mail) /\ \A m \in Mail : {m} \in Nullable(Mail)
    BY DEF Nullable
<1>4. CASE ListPending(w)
    <2> DEFINE t == {m \in Mail : mail[m] = "pending" /\ From[m] = retry[w].peer}
    <2>1. retry' = [retry EXCEPT ![w].step = "looking", ![w].todo = t]
        BY <1>4 DEF ListPending
    <2>2. t \in SUBSET Mail
        OBVIOUS
    <2>3. retry' \in [Worker -> Task]
        <3> HIDE DEF t
        <3>1. QED
            BY <1>2, <2>1, <2>2 DEF Task
    <2>4. QED
        BY <1>4, <2>3 DEF ListPending, TypeOK, store
<1>5. ASSUME NEW m \in Mail, LookAgain(w, m) PROVE TypeOK'
    <2> DEFINE s == IF Outcome(m) = "locked" THEN r.step ELSE Outcome(m)
               c == IF Outcome(m) = "locked" THEN {} ELSE {m}
    <2>1. retry' = [retry EXCEPT ![w].todo = r.todo \ {m},
                                 ![w].step = s, ![w].current = c]
        BY <1>5 DEF LookAgain
    <2>2. s \in {"idle", "listing", "looking"} \union Verdict /\ c \in Nullable(Mail)
        BY <1>1, <1>3, OutcomeType DEF Verdict
    <2>3. retry' \in [Worker -> Task]
        <3> HIDE DEF s, c
        <3>1. QED
            BY <1>1, <1>2, <2>1, <2>2 DEF Task
    <2>4. QED
        BY <1>5, <2>3 DEF LookAgain, TypeOK, store
<1>6. ASSUME NEW m \in Mail, CountAgain(w, m) PROVE TypeOK'
    <2>1. unread' \in [Conversation -> Counter]
        BY <1>6, RecordIncomingFacts, ConversationTypes DEF CountAgain, TypeOK, Counter
    <2>2. Idle \in Task /\ [r EXCEPT !.step = "counted"] \in Task
        BY <1>1, <1>3 DEF Idle, TaskFor, Task, Verdict
    <2>3. retry' \in [Worker -> Task]
        BY <1>2, <1>6, <2>2 DEF CountAgain
    <2>4. QED
        BY <1>6, <2>1, <2>3 DEF CountAgain, TypeOK, Counter
<1>7. ASSUME NEW m \in Mail, Settle(w, m) PROVE TypeOK'
    <2>1. retry' = [retry EXCEPT ![w] =
             [step |-> "looking", peer |-> r.peer, todo |-> r.todo, current |-> {}]]
        BY <1>1, <1>2, <1>7 DEF Settle, Task
    <2>2. retry' \in [Worker -> Task]
        BY <1>1, <1>3, <2>1, RetryType
    <2>3. QED
        BY <1>7, <2>2 DEF Settle, TypeOK
<1>8. CASE EndRetry(w)
    <2>1. Idle \in Task
        BY <1>3 DEF Idle, TaskFor, Task
    <2>2. QED
        BY <1>2, <1>8, <2>1 DEF EndRetry, TypeOK, store
<1>9. QED
    BY <1>4, <1>5, <1>6, <1>7, <1>8 DEF Retry

LEMMA ApiType == TypeOK /\ Api => TypeOK'
<1> SUFFICES ASSUME TypeOK, Api PROVE TypeOK'
    OBVIOUS
<1>1. ASSUME NEW p \in Peer, NEW k \in Nullable(Key), LearnPeer(p, k) PROVE TypeOK'
    BY <1>1 DEF LearnPeer, TypeOK, tasks
<1>2. ASSUME NEW p \in Peer, Unfollow(p) PROVE TypeOK'
    <2>1. {} \in Nullable(Key)
        BY DEF Nullable
    <2>2. QED
        BY <1>2, <2>1 DEF Unfollow, TypeOK, tasks
<1>3. ASSUME NEW p \in Peer, OpenConversation(p) PROVE TypeOK'
    <2>1. {} \in Counter /\ {0} \in Counter
        BY MailAssumption DEF MailAssumption, Counter, Nullable
    <2>2. unread' \in [Conversation -> Counter]
        BY <1>3, <2>1 DEF OpenConversation, TypeOK, Counter
    <2>3. QED
        BY <1>3, <2>2 DEF OpenConversation, TypeOK, tasks, Stored, Counter
<1>4. ASSUME NEW m \in Mail, PrepareSend(m) PROVE TypeOK'
    BY <1>4 DEF PrepareSend, TypeOK, store
<1>5. ASSUME NEW m \in Mail, StoreSent(m) PROVE TypeOK'
    <2>1. mail' \in [Mail -> Status]
        BY <1>5, CreateFacts DEF StoreSent, TypeOK, Status
    <2>2. unread' \in [Conversation -> Counter]
        BY <1>5, RecordOutgoingFacts, ConversationTypes DEF StoreSent, TypeOK, Counter
    <2>3. QED
        BY <1>5, <2>1, <2>2 DEF StoreSent, TypeOK, Status, Counter
<1>6. ASSUME NEW m \in Mail, MarkRead(m) PROVE TypeOK'
    BY <1>6 DEF MarkRead, TypeOK, tasks
<1>7. QED
    BY <1>1, <1>2, <1>3, <1>4, <1>5, <1>6 DEF Api

LEMMA MailTypeStep == TypeOK /\ [Next]_vars => TypeOK'
<1> SUFFICES ASSUME TypeOK, [Next]_vars PROVE TypeOK'
    OBVIOUS
<1>1. CASE UNCHANGED vars
    BY <1>1 DEF TypeOK, vars, store, tasks
<1>2. CASE Restart
    <2>1. Idle \in Task /\ {} \in Nullable([mail : Mail, step : Verdict])
        BY DEF Idle, TaskFor, Task, Nullable
    <2>2. QED
        BY <1>2, <2>1 DEF Restart, TypeOK, store
<1>3. QED
    BY <1>1, <1>2, IngestType, RetryStepType, ApiType DEF Next

-----------------------------------------------------------------------------
(* The inductive invariant, one part at a time.                            *)

\* How a step may change the status of a message.
LEMMA MailStep ==
    ASSUME TypeOK, TasksAreSound, [Next]_vars, NEW m \in Mail
    PROVE  \/ mail'[m] = mail[m]
           \/ /\ mail[m] = "absent" /\ mail'[m] = "decrypted" /\ EndsKnown(m)
              /\ Me \in Conv(m) /\ UNCHANGED known
           \/ /\ mail[m] = "absent" /\ mail'[m] = "failed" /\ EndsKnown(m)
              /\ UNCHANGED known
           \/ /\ mail[m] = "absent" /\ StorePending(m) /\ EndsKnown(m)
              /\ mail'[m] = "pending"
           \/ mail[m] # "absent" /\ mail'[m] = "failed" /\ UNCHANGED known
           \/ /\ mail[m] # "absent" /\ mail'[m] = "decrypted" /\ To[m] = Me
              /\ UNCHANGED known
<1>1. CASE UNCHANGED mail
    BY <1>1
<1>2. ASSUME NEW x \in Mail, StoreDecrypted(x)
      PROVE  \/ mail'[m] = mail[m]
             \/ /\ mail[m] = "absent" /\ mail'[m] = "decrypted" /\ EndsKnown(m)
                /\ Me \in Conv(m) /\ UNCHANGED known
    <2>1. To[x] = Me
        BY <1>2 DEF StoreDecrypted, TasksAreSound
    <2>2. QED
        BY <1>2, <2>1, CreateFacts DEF StoreDecrypted, Conv, Status
<1>3. ASSUME NEW x \in Mail, StorePending(x)
      PROVE  \/ mail'[m] = mail[m]
             \/ /\ mail[m] = "absent" /\ StorePending(m) /\ EndsKnown(m)
                /\ mail'[m] = "pending"
    <2>1. \/ mail' = Create(x, "pending") /\ EndsKnown(x)
          \/ UNCHANGED mail
        BY <1>3 DEF StorePending
    <2>2. QED
        BY <1>3, <2>1, CreateFacts DEF Status
<1>4. ASSUME NEW x \in Mail, StoreFailed(x)
      PROVE  \/ mail'[m] = mail[m]
             \/ /\ mail[m] = "absent" /\ mail'[m] = "failed" /\ EndsKnown(m)
                /\ UNCHANGED known
    BY <1>4, CreateFacts DEF StoreFailed, Status
<1>5. ASSUME NEW w \in Worker, NEW x \in Mail, Settle(w, x)
      PROVE  \/ mail'[m] = mail[m]
             \/ mail[m] # "absent" /\ mail'[m] = "failed" /\ UNCHANGED known
             \/ /\ mail[m] # "absent" /\ mail'[m] = "decrypted" /\ To[m] = Me
                /\ UNCHANGED known
    <2>1. x \in Stored /\ (retry[w].step = "counted" => To[x] = Me)
        BY <1>5 DEF Settle, TasksAreSound
    <2>2. QED
        BY <1>5, <2>1 DEF Settle, Stored, TypeOK
<1>6. ASSUME NEW x \in Mail, StoreSent(x)
      PROVE  \/ mail'[m] = mail[m]
             \/ /\ mail[m] = "absent" /\ mail'[m] = "decrypted" /\ EndsKnown(m)
                /\ Me \in Conv(m) /\ UNCHANGED known
    <2>1. From[x] = Me
        BY <1>6 DEF StoreSent, TasksAreSound
    <2>2. QED
        BY <1>6, <2>1, CreateFacts DEF StoreSent, Conv, Status
<1>7. \/ UNCHANGED mail
      \/ \E x \in Mail : StoreDecrypted(x) \/ StorePending(x) \/ StoreFailed(x)
      \/ \E w \in Worker, x \in Mail : Settle(w, x)
      \/ \E x \in Mail : StoreSent(x)
    BY DEF Next, Ingest, Retry, Api, ReceiveMail, CountMail, ReceiveProfile,
       ListPending, LookAgain, CountAgain, EndRetry, LearnPeer, Unfollow,
       PrepareSend, MarkRead, OpenConversation, Restart, vars, store
<1>8. QED
    BY <1>1, <1>2, <1>3, <1>4, <1>5, <1>6, <1>7

\* Which steps change the counters, and how.
LEMMA UnreadStep ==
    ASSUME TypeOK, TasksAreSound, [Next]_vars
    PROVE  \/ UNCHANGED unread
           \/ \E x \in Mail : /\ unread' = RecordIncoming(Conv(x))
                              /\ EndsKnown(x)
                              /\ UNCHANGED <<known, read>>
           \/ \E x \in Mail : /\ unread' = RecordOutgoing(Conv(x))
                              /\ EndsKnown(x)
                              /\ UNCHANGED <<known, read>>
           \/ \E p \in Peer : OpenConversation(p)
<1>1. ASSUME NEW x \in Mail, CountMail(x), unread' # unread
      PROVE  unread' = RecordIncoming(Conv(x)) /\ EndsKnown(x)
             /\ UNCHANGED <<known, read>>
    <2>1. To[x] = Me
        BY <1>1 DEF CountMail, TasksAreSound
    <2>2. QED
        BY <1>1, <2>1 DEF CountMail, EndsKnown, Conv
<1>2. ASSUME NEW x \in Mail, StorePending(x), unread' # unread
      PROVE  unread' = RecordIncoming(Conv(x)) /\ EndsKnown(x)
             /\ UNCHANGED <<known, read>>
    BY <1>2 DEF StorePending
<1>3. ASSUME NEW w \in Worker, NEW x \in Mail, CountAgain(w, x), unread' # unread
      PROVE  unread' = RecordIncoming(Conv(x)) /\ EndsKnown(x)
             /\ UNCHANGED <<known, read>>
    <2>1. To[x] = Me
        BY <1>3 DEF CountAgain, TasksAreSound
    <2>2. QED
        BY <1>3, <2>1 DEF CountAgain, EndsKnown, Conv
<1>4. ASSUME NEW x \in Mail, StoreSent(x), unread' # unread
      PROVE  unread' = RecordOutgoing(Conv(x)) /\ EndsKnown(x)
             /\ UNCHANGED <<known, read>>
    BY <1>4 DEF StoreSent
<1>5. \/ UNCHANGED unread
      \/ \E x \in Mail : CountMail(x) \/ StorePending(x) \/ StoreSent(x)
      \/ \E w \in Worker, x \in Mail : CountAgain(w, x)
      \/ \E p \in Peer : OpenConversation(p)
    BY DEF Next, Ingest, Retry, Api, ReceiveMail, StoreDecrypted, StoreFailed,
       ReceiveProfile, ListPending, LookAgain, Settle, EndRetry, LearnPeer,
       Unfollow, PrepareSend, MarkRead, Restart, vars, store
<1>6. QED
    BY <1>1, <1>2, <1>3, <1>4, <1>5

\* A row that is referenced is not deleted.
LEMMA KnownStep ==
    ASSUME TypeOK, [Next]_vars, NEW p \in known, Referenced(p)
    PROVE  p \in known'
<1>1. \/ UNCHANGED known
      \/ \E q \in Peer, k \in Nullable(Key) : LearnPeer(q, k)
      \/ \E q \in Peer : Unfollow(q)
    BY DEF Next, Ingest, Retry, Api, ReceiveMail, CountMail, StoreDecrypted,
       StorePending, StoreFailed, ReceiveProfile, ListPending, LookAgain,
       CountAgain, Settle, EndRetry, PrepareSend, StoreSent, MarkRead,
       OpenConversation, Restart, vars, store
<1>2. QED
    BY <1>1 DEF LearnPeer, Unfollow

LEMMA ReferencesStep ==
    ASSUME TypeOK, ReferencesHold, TasksAreSound, [Next]_vars
    PROVE  ReferencesHold'
<1>1. ASSUME NEW m \in Stored' PROVE EndsKnown(m)'
    <2>1. m \in Mail
        BY DEF Stored
    <2>2. CASE m \in Stored
        <3>1. \A p \in Conv(m) \ {Me} : p \in known /\ Referenced(p)
            BY <2>2 DEF ReferencesHold, EndsKnown, Referenced
        <3>2. QED
            BY <3>1, KnownStep DEF EndsKnown, Conv
    <2>3. CASE m \notin Stored
        <3>1. mail[m] = "absent" /\ mail'[m] # "absent"
            BY <1>1, <2>1, <2>3 DEF Stored
        <3>2. EndsKnown(m) /\ UNCHANGED known
            BY <2>1, <3>1, MailStep DEF StorePending
        <3>3. QED
            BY <3>2 DEF EndsKnown, Conv
    <2>4. QED
        BY <2>2, <2>3
<1>2. ASSUME NEW p \in Peer, unread'[{Me, p}] # {} PROVE p \in known'
    <2>1. p # Me /\ {Me, p} \in Conversation
        BY MailAssumption, ConversationTypes DEF MailAssumption
    <2>2. CASE unread[{Me, p}] # {}
        BY <2>2, KnownStep DEF ReferencesHold, Referenced
    <2>3. CASE unread[{Me, p}] = {}
        <3>1. unread'[{Me, p}] = unread[{Me, p}] \/ ~UNCHANGED unread
            OBVIOUS
        <3>2. ASSUME NEW q \in Peer, OpenConversation(q) PROVE FALSE
            BY <1>2, <2>1, <2>3, <3>2 DEF OpenConversation, TypeOK
        <3>3. PICK x \in Mail : /\ \/ unread' = RecordIncoming(Conv(x))
                                   \/ unread' = RecordOutgoing(Conv(x))
                                /\ EndsKnown(x)
                                /\ UNCHANGED known
            BY <1>2, <2>3, <3>1, <3>2, UnreadStep
        <3>4. Conv(x) = {Me, p}
            <4> DEFINE c == Conv(x)
                       d == {Me, p}
            <4>1. c \in Conversation /\ d \in Conversation
                BY <2>1, ConversationTypes
            <4>2. unread'[d] # unread[d]
                BY <1>2, <2>3
            <4> HIDE DEF c, d
            <4>3. unread' = RecordIncoming(c) \/ unread' = RecordOutgoing(c)
                BY <3>3 DEF c
            <4>4. c = d
                BY <4>1, <4>2, <4>3, RecordIncomingFacts, RecordOutgoingFacts
            <4>5. QED
                BY <4>4 DEF c, d
        <3>5. QED
            BY <2>1, <3>3, <3>4 DEF EndsKnown
    <2>4. QED
        BY <2>2, <2>3
<1>3. QED
    BY <1>1, <1>2 DEF ReferencesHold

LEMMA SurfacedStep ==
    ASSUME TypeOK, PendingMailIsSurfaced, OnlyIncomingIsPending, TasksAreSound,
           [Next]_vars
    PROVE  PendingMailIsSurfaced'
<1> SUFFICES ASSUME NEW m \in Mail, m \notin read', mail'[m] = "pending"
             PROVE  unread'[Conv(m)] \notin {{}, {0}}
    BY DEF PendingMailIsSurfaced, Conv
<1>1. Conv(m) \in Conversation
    BY ConversationTypes
<1>2. CASE mail[m] # "pending"
    <2>1. StorePending(m) /\ EndsKnown(m)
        BY <1>2, MailStep
    <2>2. QED
        BY <1>1, <2>1, RecordIncomingFacts DEF StorePending
<1>3. CASE mail[m] = "pending"
    <2>1. m \notin read
        BY DEF Next, Ingest, Retry, Api, ReceiveMail, CountMail, StoreDecrypted,
           StorePending, StoreFailed, ReceiveProfile, ListPending, LookAgain,
           CountAgain, Settle, EndRetry, LearnPeer, Unfollow, PrepareSend,
           StoreSent, MarkRead, OpenConversation, Restart, vars, store
    <2>2. unread[Conv(m)] \notin {{}, {0}}
        BY <1>3, <2>1 DEF PendingMailIsSurfaced
    <2>3. ASSUME NEW p \in Peer, OpenConversation(p), Conv(m) = {Me, p} PROVE FALSE
        <3>1. From[m] = p /\ To[m] = Me
            <4>1. From[m] # Me /\ p # Me
                BY <1>3, MailAssumption DEF OnlyIncomingIsPending, MailAssumption
            <4>2. From[m] # To[m]
                BY MailAssumption DEF MailAssumption
            <4>3. QED
                BY <2>3, <4>1, <4>2 DEF Conv
        <3>2. m \in Stored
            BY <1>3 DEF Stored
        <3>3. QED
            BY <2>3, <3>1, <3>2 DEF OpenConversation
    <2>4. ASSUME NEW p \in Peer, OpenConversation(p)
          PROVE  unread'[Conv(m)] = unread[Conv(m)]
        BY <1>1, <2>3, <2>4, ConversationTypes DEF OpenConversation, TypeOK
    <2>5. ASSUME NEW x \in Mail, unread' = RecordIncoming(Conv(x))
          PROVE  unread'[Conv(m)] \notin {{}, {0}}
        <3>1. Conv(x) \in Conversation
            BY ConversationTypes
        <3>2. QED
            BY <1>1, <2>2, <2>5, <3>1, RecordIncomingFacts
    <2>6. ASSUME NEW x \in Mail, unread' = RecordOutgoing(Conv(x))
          PROVE  unread'[Conv(m)] = unread[Conv(m)]
        <3>1. Conv(x) \in Conversation
            BY ConversationTypes
        <3>2. QED
            BY <1>1, <2>2, <2>6, <3>1, RecordOutgoingFacts
    <2>7. QED
        BY <2>2, <2>4, <2>5, <2>6, UnreadStep
<1>4. QED
    BY <1>2, <1>3

LEMMA MineStep ==
    ASSUME TypeOK, OnlyMyMailIsDecrypted, TasksAreSound, [Next]_vars
    PROVE  OnlyMyMailIsDecrypted'
<1> SUFFICES ASSUME NEW m \in Mail, mail'[m] = "decrypted" PROVE Me \in Conv(m)
    BY DEF OnlyMyMailIsDecrypted, Conv
<1>1. QED
    BY MailStep DEF OnlyMyMailIsDecrypted, Conv

LEMMA IncomingStep ==
    ASSUME TypeOK, OnlyIncomingIsPending, TasksAreSound, [Next]_vars
    PROVE  OnlyIncomingIsPending'
<1> SUFFICES ASSUME NEW m \in Mail, mail'[m] = "pending" PROVE From[m] # Me
    BY DEF OnlyIncomingIsPending
<1>1. CASE StorePending(m)
    BY <1>1 DEF StorePending, TasksAreSound
<1>2. CASE mail[m] = "pending"
    BY <1>2 DEF OnlyIncomingIsPending
<1>3. QED
    BY <1>1, <1>2, MailStep

\* What a task is doing changes only in ways that fit the message.
LEMMA TasksStep ==
    ASSUME TypeOK, TasksAreSound, OnlyIncomingIsPending, [Next]_vars
    PROVE  TasksAreSound'
<1>1. Stored \subseteq Stored'
    BY MailStep DEF Stored
<1>2. ASSUME NEW h \in handling'
      PROVE  From[h.mail] # Me /\ (h.step \in {"readable", "counted"} => To[h.mail] = Me)
    <2>1. CASE h \in handling
        BY <2>1 DEF TasksAreSound
    <2>2. CASE h \notin handling
        <3>1. \E m \in Mail : ReceiveMail(m) \/ CountMail(m)
            BY <1>2, <2>2 DEF Next, Ingest, Retry, Api, StoreDecrypted, StorePending,
               StoreFailed, ReceiveProfile, ListPending, LookAgain, CountAgain,
               Settle, EndRetry, LearnPeer, Unfollow, PrepareSend, StoreSent,
               MarkRead, OpenConversation, Restart, vars, store, tasks
        <3>2. ASSUME NEW m \in Mail, ReceiveMail(m)
              PROVE  From[h.mail] # Me
                     /\ (h.step \in {"readable", "counted"} => To[h.mail] = Me)
            <4>1. h.mail = m /\ h.step = Outcome(m)
                BY <1>2, <3>2 DEF ReceiveMail
            <4>2. From[m] # Me
                BY <3>2 DEF ReceiveMail, Incoming
            <4>3. QED
                BY <4>1, <4>2 DEF Outcome
        <3>3. ASSUME NEW m \in Mail, CountMail(m)
              PROVE  From[h.mail] # Me
                     /\ (h.step \in {"readable", "counted"} => To[h.mail] = Me)
            BY <1>2, <3>3 DEF CountMail, TasksAreSound
        <3>4. QED
            BY <3>1, <3>2, <3>3
    <2>3. QED
        BY <2>1, <2>2
<1>3. ASSUME NEW w \in Worker
      PROVE  /\ retry'[w].todo \union retry'[w].current \subseteq Stored' \intersect Incoming
             /\ retry'[w].step \in {"readable", "counted"} =>
                   \A m \in retry'[w].current : To[m] = Me
    <2>1. /\ retry[w].todo \union retry[w].current \subseteq Stored \intersect Incoming
          /\ retry[w].step \in {"readable", "counted"} =>
                \A m \in retry[w].current : To[m] = Me
        BY DEF TasksAreSound
    <2>2. CASE retry'[w] = retry[w]
        BY <1>1, <2>1, <2>2
    <2>3. CASE retry'[w] \in {TaskFor(p, s) : p \in Peer \union {Me},
                                            s \in {"idle", "listing"}}
        BY <2>3 DEF TaskFor
    <2>4. CASE ListPending(w)
        <3>1. /\ retry'[w].step = "looking"
              /\ retry'[w].todo = {m \in Mail : mail[m] = "pending"
                                               /\ From[m] = retry[w].peer}
              /\ retry'[w].current = retry[w].current
            BY <2>4 DEF ListPending, TypeOK, Task
        <3>2. retry'[w].todo \subseteq Stored \intersect Incoming
            BY <3>1 DEF OnlyIncomingIsPending, Stored, Incoming
        <3>3. QED
            BY <1>1, <2>1, <3>1, <3>2
    <2>5. ASSUME NEW m \in Mail, LookAgain(w, m)
          PROVE  /\ retry'[w].todo \union retry'[w].current \subseteq Stored' \intersect Incoming
                 /\ retry'[w].step \in {"readable", "counted"} =>
                       \A x \in retry'[w].current : To[x] = Me
        <3>1. retry'[w].todo = retry[w].todo \ {m} /\ m \in retry[w].todo
            BY <2>5 DEF LookAgain, TypeOK, Task
        <3>2. CASE Outcome(m) = "locked"
            <4>1. retry'[w].step = "looking" /\ retry'[w].current = {}
                BY <2>5, <3>2 DEF LookAgain, TypeOK, Task
            <4>2. QED
                BY <1>1, <2>1, <3>1, <4>1
        <3>3. CASE Outcome(m) # "locked"
            <4>1. retry'[w].step = Outcome(m) /\ retry'[w].current = {m}
                BY <2>5, <3>3 DEF LookAgain, TypeOK, Task
            <4>2. Outcome(m) \in {"readable", "counted"} => To[m] = Me
                BY DEF Outcome
            <4>3. QED
                BY <1>1, <2>1, <3>1, <4>1, <4>2
        <3>4. QED
            BY <3>2, <3>3
    <2>6. ASSUME NEW m \in Mail, CountAgain(w, m), retry'[w] # Idle
          PROVE  /\ retry'[w].todo \union retry'[w].current \subseteq Stored' \intersect Incoming
                 /\ retry'[w].step \in {"readable", "counted"} =>
                       \A x \in retry'[w].current : To[x] = Me
        <3>1. /\ retry[w].step = "readable"
              /\ retry'[w].todo = retry[w].todo
              /\ retry'[w].current = retry[w].current
            BY <2>6 DEF CountAgain, TypeOK, Task
        <3>2. QED
            BY <1>1, <2>1, <3>1
    <2>7. ASSUME NEW m \in Mail, Settle(w, m)
          PROVE  /\ retry'[w].todo \union retry'[w].current \subseteq Stored' \intersect Incoming
                 /\ retry'[w].step \in {"readable", "counted"} =>
                       \A x \in retry'[w].current : To[x] = Me
        <3>1. retry'[w].todo = retry[w].todo /\ retry'[w].current = {}
            BY <2>7 DEF Settle, TypeOK, Task
        <3>2. QED
            BY <1>1, <2>1, <3>1
    <2>8. \/ retry'[w] = retry[w]
          \/ ListPending(w)
          \/ \E m \in Mail : LookAgain(w, m) \/ CountAgain(w, m) \/ Settle(w, m)
          \/ retry'[w] = Idle
          \/ \E p \in Peer : retry'[w] = TaskFor(p, "listing")
        <3>1. CASE UNCHANGED retry
            BY <3>1
        <3>2. ASSUME NEW v \in Worker, Retry(v)
              PROVE  \/ retry'[w] = retry[w]
                     \/ ListPending(w)
                     \/ \E m \in Mail : LookAgain(w, m) \/ CountAgain(w, m) \/ Settle(w, m)
                     \/ retry'[w] = Idle
            <4>1. CASE v = w
                BY <3>2, <4>1 DEF Retry, EndRetry, TypeOK
            <4>2. CASE v # w
                BY <3>2, <4>2 DEF Retry, ListPending, LookAgain, CountAgain, Settle,
                   EndRetry, TypeOK
            <4>3. QED
                BY <4>1, <4>2
        <3>3. ASSUME NEW p \in Peer, NEW k \in Key, NEW v \in Worker,
                     ReceiveProfile(p, k, v)
              PROVE  retry'[w] = retry[w] \/ retry'[w] = TaskFor(p, "listing")
            BY <3>3 DEF ReceiveProfile, TypeOK
        <3>4. CASE Restart
            BY <3>4 DEF Restart
        <3>5. \/ UNCHANGED retry
              \/ \E v \in Worker : Retry(v)
              \/ \E p \in Peer, k \in Key, v \in Worker : ReceiveProfile(p, k, v)
              \/ Restart
            BY DEF Next, Ingest, Api, ReceiveMail, CountMail, StoreDecrypted,
               StorePending, StoreFailed, LearnPeer, Unfollow, PrepareSend,
               StoreSent, MarkRead, OpenConversation, vars, tasks
        <3>6. QED
            BY <3>1, <3>2, <3>3, <3>4, <3>5
    <2>9. QED
        BY <2>2, <2>3, <2>4, <2>5, <2>6, <2>7, <2>8 DEF Idle
<1>4. ASSUME NEW m \in outbox' PROVE From[m] = Me
    <2>1. \/ outbox' \subseteq outbox
          \/ \E x \in Mail : PrepareSend(x)
        BY DEF Next, Ingest, Retry, Api, ReceiveMail, CountMail, StoreDecrypted,
           StorePending, StoreFailed, ReceiveProfile, ListPending, LookAgain,
           CountAgain, Settle, EndRetry, LearnPeer, Unfollow, StoreSent,
           MarkRead, OpenConversation, Restart, vars, tasks
    <2>2. QED
        BY <1>4, <2>1 DEF PrepareSend, TasksAreSound
<1>5. QED
    BY <1>2, <1>3, <1>4 DEF TasksAreSound

-----------------------------------------------------------------------------
(* The theorems.                                                           *)

\* The strengthened invariant holds in every reachable state: the properties
\* depend on each other, and on what the handler and the retries remember.
THEOREM MailInvariant == Spec => []IInv
<1>1. Init => IInv
    <2>1. ASSUME Init PROVE TypeOK
        BY <2>1, MailAssumption DEF Init, TypeOK, Nullable, Idle, TaskFor, Task,
           MailAssumption
    <2>2. ASSUME Init PROVE Stored = {}
        BY <2>2 DEF Init, Stored
    <2>3. ASSUME Init PROVE ReferencesHold
        BY <2>3, <2>2, ConversationTypes DEF Init, ReferencesHold
    <2>4. ASSUME Init PROVE PendingMailIsSurfaced /\ OnlyMyMailIsDecrypted
        BY <2>4 DEF Init, PendingMailIsSurfaced, OnlyMyMailIsDecrypted
    <2>5. ASSUME Init PROVE TasksAreSound
        <3>1. /\ handling = {} /\ outbox = {}
              /\ \A w \in Worker : retry[w] = Idle
            BY <2>5 DEF Init
        <3>2. Idle.todo = {} /\ Idle.current = {}
            BY DEF Idle, TaskFor
        <3>3. QED
            BY <3>1, <3>2 DEF TasksAreSound
    <2>6. ASSUME Init PROVE OnlyIncomingIsPending
        BY <2>6 DEF Init, OnlyIncomingIsPending
    <2>7. QED
        BY <2>1, <2>3, <2>4, <2>5, <2>6 DEF IInv
<1>2. IInv /\ [Next]_vars => IInv'
    BY MailTypeStep, ReferencesStep, SurfacedStep, MineStep, TasksStep,
       IncomingStep DEF IInv
<1>3. QED
    BY <1>1, <1>2, PTL DEF Spec

\* Every variable of the direct-message store keeps its type.
THEOREM MailTypeCorrect == Spec => []TypeOK
BY MailInvariant, PTL DEF IInv

\* No unfollow leaves a message or a conversation whose peer has no row.
THEOREM References == Spec => []ReferencesHold
BY MailInvariant, PTL DEF IInv

\* Mail that cannot be read yet is always visible as unread.
THEOREM PendingSurfaced == Spec => []PendingMailIsSurfaced
BY MailInvariant, PTL DEF IInv

\* Mail between two other peers is never shown as decrypted.
THEOREM MineDecrypted == Spec => []OnlyMyMailIsDecrypted
BY MailInvariant, PTL DEF IInv

LEMMA StableStep ==
    ASSUME IInv, [Next]_vars, NEW m \in Mail
    PROVE  /\ m \in Stored => m \in Stored'
           /\ mail'[m] = "pending" => mail[m] \in {"absent", "pending"}
           /\ m \in read => m \in read'
<1>1. TypeOK /\ TasksAreSound
    BY DEF IInv
<1>2. read \subseteq read'
    BY DEF Next, Ingest, Retry, Api, ReceiveMail, CountMail, StoreDecrypted,
       StorePending, StoreFailed, ReceiveProfile, ListPending, LookAgain,
       CountAgain, Settle, EndRetry, LearnPeer, Unfollow, PrepareSend,
       StoreSent, MarkRead, OpenConversation, Restart, vars, store
<1>3. QED
    BY <1>1, <1>2, MailStep DEF Stored

\* Redelivery, retries and restarts never undo what is stored: no message is
\* lost, becomes unread again or becomes pending again.
THEOREM StoredStable == Spec => StoredMailIsStable
<1>1. IInv /\ [Next]_vars =>
         [\A m \in Mail :
             /\ m \in Stored => m \in Stored'
             /\ mail'[m] = "pending" => mail[m] \in {"absent", "pending"}
             /\ m \in read => m \in read']_vars
    BY StableStep
<1>2. QED
    BY <1>1, MailInvariant, PTL DEF Spec, StoredMailIsStable

-----------------------------------------------------------------------------
(* The store implements the mailbox.                                       *)

\* Counting a message lights the badge of its conversation and no other.
LEMMA CountingLights ==
    ASSUME TypeOK, NEW c \in Conversation, unread' = RecordIncoming(c)
    PROVE  Badges' = Badges \union {c}
BY RecordIncomingFacts DEF Badges

\* A message of our own lights no badge.
LEMMA SendingIsSilent ==
    ASSUME TypeOK, NEW c \in Conversation, unread' = RecordOutgoing(c)
    PROVE  Badges' = Badges
<1>1. unread[c] = {} => unread'[c] = {0}
    BY DEF RecordOutgoing, TypeOK
<1>2. QED
    BY <1>1, RecordOutgoingFacts DEF Badges

\* What retry w has counted and not yet settled.
CountedBy(w) == IF retry[w].step = "counted" THEN retry[w].current ELSE {}

LEMMA NoticedByTasks ==
    Noticed = {m \in Mail : \/ [mail |-> m, step |-> "counted"] \in handling
                            \/ \E w \in Worker : m \in CountedBy(w)}
BY DEF Noticed, CountedBy

LEMMA SameNoticed ==
    ASSUME UNCHANGED handling, \A w \in Worker : CountedBy(w)' = CountedBy(w)
    PROVE  Noticed' = Noticed
<1>1. Noticed' = {m \in Mail : \/ [mail |-> m, step |-> "counted"] \in handling'
                               \/ \E w \in Worker : m \in CountedBy(w)'}
    BY DEF Noticed, CountedBy
<1>2. QED
    BY <1>1, NoticedByTasks

\* What the handler does about the messages it has not counted.
LEMMA HandlerUnnoticed ==
    ASSUME UNCHANGED retry,
           \A h \in handling \union handling' : h.step # "counted"
    PROVE  Noticed' = Noticed
BY DEF Noticed

LEMMA ReceiveMaps ==
    ASSUME IInv, NEW m \in Mail, ReceiveMail(m)
    PROVE  UNCHANGED Mbox!vars
<1>1. \A h \in handling \union handling' : h.step # "counted"
    BY OutcomeType DEF ReceiveMail
<1>2. Noticed' = Noticed
    BY <1>1, HandlerUnnoticed DEF ReceiveMail
<1>3. QED
    BY <1>2 DEF ReceiveMail, store, Mbox!vars, Badges

LEMMA CountMailMaps ==
    ASSUME IInv, NEW m \in Mail, CountMail(m)
    PROVE  Mbox!Next \/ UNCHANGED Mbox!vars
<1> USE DEF CountMail
<1>1. TypeOK /\ To[m] = Me
    BY DEF IInv, TasksAreSound
<1>2. CASE From[m] \in known
    <2>1. Badges' = Badges \union {Conv(m)}
        BY <1>1, <1>2, CountingLights, ConversationTypes
    <2>2. Noticed' = Noticed \union {m}
        BY <1>2 DEF Noticed
    <2>3. Mbox!Notice(m)
        BY <1>1, <2>1, <2>2 DEF Mbox!Notice, Mbox!Conv, Conv
    <2>4. QED
        BY <2>3 DEF Mbox!Next
<1>3. CASE From[m] \notin known
    <2>1. Noticed' = Noticed
        BY <1>3, HandlerUnnoticed
    <2>2. QED
        BY <1>3, <2>1 DEF Mbox!vars, Badges
<1>4. QED
    BY <1>2, <1>3

\* The handler has counted what it stores in clear.
LEMMA StoreDecryptedMaps ==
    ASSUME IInv, NEW m \in Mail, StoreDecrypted(m)
    PROVE  Mbox!Next \/ UNCHANGED Mbox!vars
<1>1. m \in Noticed /\ Noticed' \in {Noticed, Noticed \ {m}}
    BY DEF StoreDecrypted, Noticed
<1>2. Badges' = Badges
    BY DEF StoreDecrypted, Badges
<1>3. CASE mail' = [mail EXCEPT ![m] = "decrypted"]
    <2>1. Mbox!Reveal(m)
        BY <1>1, <1>2, <1>3 DEF StoreDecrypted, Mbox!Reveal, Mbox!Show
    <2>2. QED
        BY <2>1 DEF Mbox!Next
<1>4. CASE UNCHANGED mail
    <2>1. \E S \in SUBSET Mail : Noticed' = Noticed \ S
        <3>1. Noticed' = Noticed \ {} \/ Noticed' = Noticed \ {m}
            BY <1>1
        <3>2. QED
            BY <3>1
    <2>2. \E S \in SUBSET Mail : Mbox!Forget(S)
        BY <1>2, <1>4, <2>1 DEF StoreDecrypted, Mbox!Forget
    <2>3. QED
        BY <2>2 DEF Mbox!Next
<1>5. mail' = [mail EXCEPT ![m] = "decrypted"] \/ UNCHANGED mail
    BY DEF StoreDecrypted, Create, IInv, TypeOK
<1>6. QED
    BY <1>3, <1>4, <1>5

LEMMA StorePendingMaps ==
    ASSUME IInv, NEW m \in Mail, StorePending(m)
    PROVE  Mbox!Next \/ UNCHANGED Mbox!vars
<1>1. TypeOK /\ From[m] # Me
    BY DEF StorePending, IInv, TasksAreSound
<1>2. Noticed' = Noticed
    BY HandlerUnnoticed DEF StorePending
<1>3. CASE ~EndsKnown(m)
    BY <1>2, <1>3 DEF StorePending, Mbox!vars, Badges
<1>4. CASE EndsKnown(m)
    <2>1. Badges' = Badges \union {Conv(m)}
        BY <1>1, <1>4, CountingLights, ConversationTypes DEF StorePending
    <2>2. CASE m \in Stored
        <3>1. UNCHANGED mail
            BY <1>1, <1>4, <2>2 DEF StorePending, Create, TypeOK
        <3>2. Mbox!Remind(m)
            BY <1>1, <1>2, <2>1, <2>2, <3>1
            DEF StorePending, Mbox!Remind, Mbox!Conv, Mbox!Present, Conv, Stored
        <3>3. QED
            BY <3>2 DEF Mbox!Next
    <2>3. CASE m \notin Stored
        <3>1. mail' = [mail EXCEPT ![m] = "pending"]
            BY <1>4, <2>3 DEF StorePending, Create
        <3>2. Mbox!Conceal(m)
            BY <1>1, <1>2, <2>1, <2>3, <3>1
            DEF StorePending, Mbox!Conceal, Mbox!Show, Mbox!Conv, Mbox!Present,
                Conv, Stored
        <3>3. QED
            BY <3>2 DEF Mbox!Next
    <2>4. QED
        BY <2>2, <2>3
<1>5. QED
    BY <1>3, <1>4

LEMMA StoreFailedMaps ==
    ASSUME IInv, NEW m \in Mail, StoreFailed(m)
    PROVE  Mbox!Next \/ UNCHANGED Mbox!vars
<1>1. From[m] # Me
    BY DEF StoreFailed, IInv, TasksAreSound
<1>2. Noticed' = Noticed /\ Badges' = Badges
    BY HandlerUnnoticed DEF StoreFailed, Badges
<1>3. mail' = [mail EXCEPT ![m] = "failed"] \/ UNCHANGED mail
    BY DEF StoreFailed, Create, IInv, TypeOK
<1>4. Mbox!Fail(m) \/ UNCHANGED Mbox!vars
    BY <1>1, <1>2, <1>3 DEF StoreFailed, Mbox!Fail, Mbox!Show, Mbox!vars
<1>5. QED
    BY <1>4 DEF Mbox!Next

\* What a retry does before and after it counts a message.
LEMMA UncountedRetry ==
    ASSUME NEW w \in Worker, UNCHANGED handling,
           retry[w].step # "counted", retry'[w].step # "counted",
           \A v \in Worker \ {w} : retry'[v] = retry[v]
    PROVE  Noticed' = Noticed
<1>1. \A v \in Worker : CountedBy(v)' = CountedBy(v)
    BY DEF CountedBy
<1>2. QED
    BY <1>1, SameNoticed

\* A profile starts a retry, which has counted nothing yet.
LEMMA ReceiveProfileMaps ==
    ASSUME IInv, NEW p \in Peer, NEW k \in Key, NEW w \in Worker,
           ReceiveProfile(p, k, w)
    PROVE  UNCHANGED Mbox!vars
<1>1. retry[w].step # "counted" /\ retry'[w].step # "counted"
    BY DEF ReceiveProfile, Idle, TaskFor, IInv, TypeOK
<1>2. \A v \in Worker \ {w} : retry'[v] = retry[v]
    BY DEF ReceiveProfile, IInv, TypeOK
<1>3. Noticed' = Noticed
    BY <1>1, <1>2, UncountedRetry DEF ReceiveProfile
<1>4. QED
    BY <1>3 DEF ReceiveProfile, Mbox!vars, Badges

LEMMA IdleRetryMaps ==
    ASSUME IInv, NEW w \in Worker,
           \/ ListPending(w)
           \/ \E m \in Mail : LookAgain(w, m)
           \/ EndRetry(w)
    PROVE  UNCHANGED Mbox!vars
<1>1. CASE ListPending(w)
    <2>1. retry[w].step # "counted" /\ retry'[w].step # "counted"
          /\ \A v \in Worker \ {w} : retry'[v] = retry[v]
        BY <1>1 DEF ListPending, IInv, TypeOK, Task
    <2>2. Noticed' = Noticed
        BY <1>1, <2>1, UncountedRetry DEF ListPending
    <2>3. QED
        BY <1>1, <2>2 DEF ListPending, store, Mbox!vars, Badges
<1>2. ASSUME NEW m \in Mail, LookAgain(w, m) PROVE UNCHANGED Mbox!vars
    <2>1. retry[w].step # "counted" /\ retry'[w].step # "counted"
          /\ \A v \in Worker \ {w} : retry'[v] = retry[v]
        BY <1>2, OutcomeType DEF LookAgain, IInv, TypeOK, Task
    <2>2. Noticed' = Noticed
        BY <1>2, <2>1, UncountedRetry DEF LookAgain
    <2>3. QED
        BY <1>2, <2>2 DEF LookAgain, store, Mbox!vars, Badges
<1>3. CASE EndRetry(w)
    <2>1. Idle.step # "counted"
        BY DEF Idle, TaskFor
    <2>2. Noticed' = Noticed
        BY <1>3, <2>1, UncountedRetry DEF EndRetry, IInv, TypeOK
    <2>3. QED
        BY <1>3, <2>2 DEF EndRetry, store, Mbox!vars, Badges
<1>4. QED
    BY <1>1, <1>2, <1>3

LEMMA CountAgainMaps ==
    ASSUME IInv, NEW w \in Worker, NEW m \in Mail, CountAgain(w, m)
    PROVE  Mbox!Next \/ UNCHANGED Mbox!vars
<1>1. TypeOK /\ To[m] = Me
    BY DEF CountAgain, IInv, TasksAreSound
<1>2. CASE From[m] \in known
    <2>1. Badges' = Badges \union {Conv(m)}
        BY <1>1, <1>2, CountingLights, ConversationTypes DEF CountAgain
    <2>2. /\ retry[w].step # "counted"
          /\ retry'[w].step = "counted" /\ retry'[w].current = {m}
          /\ \A v \in Worker \ {w} : retry'[v] = retry[v]
        BY <1>1, <1>2 DEF CountAgain, TypeOK, Task
    <2>3. Noticed' = Noticed \union {m}
        BY <2>2 DEF CountAgain, Noticed
    <2>4. Mbox!Notice(m)
        BY <1>1, <2>1, <2>3 DEF CountAgain, Mbox!Notice, Mbox!Conv, Conv
    <2>5. QED
        BY <2>4 DEF Mbox!Next
<1>3. CASE From[m] \notin known
    <2>1. Idle.step # "counted"
        BY DEF Idle, TaskFor
    <2>2. Noticed' = Noticed
        BY <1>3, <2>1, UncountedRetry DEF CountAgain, IInv, TypeOK
    <2>3. QED
        BY <1>3, <2>2 DEF CountAgain, Mbox!vars, Badges
<1>4. QED
    BY <1>2, <1>3

\* A retry shows what it has counted; what it finds garbled is from others.
LEMMA SettleMaps ==
    ASSUME IInv, NEW w \in Worker, NEW m \in Mail, Settle(w, m)
    PROVE  Mbox!Next
<1>1. TypeOK /\ From[m] # Me
    BY DEF Settle, IInv, TasksAreSound, Incoming
<1>2. retry'[w].step # "counted" /\ \A v \in Worker \ {w} : retry'[v] = retry[v]
    BY <1>1 DEF Settle, TypeOK, Task
<1>3. Badges' = Badges
    BY DEF Settle, Badges
<1>4. CASE retry[w].step = "counted"
    <2>1. m \in Noticed /\ Noticed' \in {Noticed, Noticed \ {m}}
        BY <1>2, <1>4 DEF Settle, Noticed
    <2>2. Mbox!Reveal(m)
        BY <1>3, <1>4, <2>1 DEF Settle, Mbox!Reveal, Mbox!Show
    <2>3. QED
        BY <2>2 DEF Mbox!Next
<1>5. CASE retry[w].step = "garbled"
    <2>1. Noticed' = Noticed
        BY <1>2, <1>5, UncountedRetry DEF Settle
    <2>2. Mbox!Fail(m)
        BY <1>1, <1>3, <1>5, <2>1 DEF Settle, Mbox!Fail, Mbox!Show
    <2>3. QED
        BY <2>2 DEF Mbox!Next
<1>6. QED
    BY <1>4, <1>5 DEF Settle

LEMMA ApiMaps ==
    ASSUME IInv, Api
    PROVE  Mbox!Next \/ UNCHANGED Mbox!vars
<1>1. ASSUME NEW p \in Peer, NEW k \in Nullable(Key), LearnPeer(p, k) \/ Unfollow(p)
      PROVE  UNCHANGED Mbox!vars
    BY <1>1 DEF LearnPeer, Unfollow, tasks, Mbox!vars, Badges, Noticed
<1>2. ASSUME NEW m \in Mail, PrepareSend(m) PROVE UNCHANGED Mbox!vars
    BY <1>2 DEF PrepareSend, store, Mbox!vars, Badges, Noticed
<1>3. ASSUME NEW m \in Mail, StoreSent(m) PROVE Mbox!Next \/ UNCHANGED Mbox!vars
    <2>1. TypeOK /\ From[m] = Me
        BY <1>3 DEF StoreSent, IInv, TasksAreSound
    <2>2. Noticed' = Noticed
        BY <1>3 DEF StoreSent, Noticed
    <2>3. Badges' = Badges
        <3>1. unread' = RecordOutgoing(Conv(m)) \/ UNCHANGED unread
            BY <1>3 DEF StoreSent
        <3>2. CASE UNCHANGED unread
            BY <3>2 DEF Badges
        <3>3. QED
            BY <2>1, <3>1, <3>2, SendingIsSilent, ConversationTypes
    <2>4. CASE EndsKnown(m) /\ m \notin Stored
        <3>1. mail' = [mail EXCEPT ![m] = "decrypted"]
            BY <1>3, <2>4 DEF StoreSent, Create
        <3>2. Mbox!Send(m)
            BY <1>3, <2>1, <2>2, <2>3, <2>4, <3>1
            DEF StoreSent, Mbox!Send, Mbox!Show, Mbox!Present, Stored
        <3>3. QED
            BY <3>2 DEF Mbox!Next
    <2>5. CASE ~(EndsKnown(m) /\ m \notin Stored)
        <3>1. UNCHANGED mail
            BY <1>3, <2>1, <2>5 DEF StoreSent, Create, TypeOK
        <3>2. QED
            BY <1>3, <2>2, <2>3, <3>1 DEF StoreSent, Mbox!vars
    <2>6. QED
        BY <2>4, <2>5
<1>4. ASSUME NEW m \in Mail, MarkRead(m) PROVE Mbox!Next
    <2>1. Noticed' = Noticed /\ Badges' = Badges
        BY <1>4 DEF MarkRead, tasks, Noticed, Badges
    <2>2. Mbox!MarkRead(m)
        BY <1>4, <2>1 DEF MarkRead, Mbox!MarkRead, Mbox!Present, Stored
    <2>3. QED
        BY <2>2 DEF Mbox!Next
<1>5. ASSUME NEW p \in Peer, OpenConversation(p) PROVE Mbox!Next
    <2>1. Noticed' = Noticed
        BY <1>5 DEF OpenConversation, tasks, Noticed
    <2>2. /\ unread'[{Me, p}] \in {{}, {0}}
          /\ \A c \in Conversation \ {{Me, p}} : unread'[c] = unread[c]
        BY <1>5, ConversationTypes DEF OpenConversation, IInv, TypeOK
    <2>3. Badges' = Badges \ {{Me, p}}
        BY <2>2 DEF Badges
    <2>4. Mbox!Open(p)
        BY <1>5, <2>1, <2>3 DEF OpenConversation, Mbox!Open, Mbox!Present, Stored
    <2>5. QED
        BY <2>4 DEF Mbox!Next
<1>6. {} \in Nullable(Key)
    BY DEF Nullable
<1>7. QED
    BY <1>1, <1>2, <1>3, <1>4, <1>5, <1>6 DEF Api

\* Whatever was announced and not shown is forgotten by a crash.
LEMMA RestartMaps ==
    ASSUME IInv, Restart
    PROVE  Mbox!Next
<1>1. \A w \in Worker : retry'[w].step # "counted"
    BY DEF Restart, Idle, TaskFor
<1>2. Noticed' = Noticed \ Mail
    BY <1>1 DEF Restart, Noticed
<1>3. Mbox!Forget(Mail)
    BY <1>2 DEF Restart, store, Mbox!Forget, Badges
<1>4. QED
    BY <1>3 DEF Mbox!Next

LEMMA MailboxStep ==
    ASSUME IInv, [Next]_vars
    PROVE  [Mbox!Next]_(Mbox!vars)
<1>1. CASE UNCHANGED vars
    BY <1>1 DEF vars, store, tasks, Mbox!vars, Badges, Noticed
<1>2. CASE Ingest
    BY <1>2, ReceiveMaps, CountMailMaps, StoreDecryptedMaps, StorePendingMaps,
       StoreFailedMaps, ReceiveProfileMaps DEF Ingest
<1>3. ASSUME NEW w \in Worker, Retry(w) PROVE [Mbox!Next]_(Mbox!vars)
    BY <1>3, IdleRetryMaps, CountAgainMaps, SettleMaps DEF Retry
<1>4. QED
    BY <1>1, <1>2, <1>3, ApiMaps, RestartMaps DEF Next

\* The handler, the retries and the API together keep what the mailbox
\* promises: every step of the store is a step of Mailbox or changes nothing
\* that the user sees.
THEOREM MailboxKept == Spec => ImplementsMailbox
<1>1. Init => Mbox!Init
    <2> SUFFICES ASSUME Init PROVE Mbox!Init
        OBVIOUS
    <2>1. Badges = {}
        BY DEF Init, Badges
    <2>2. Noticed = {}
        BY DEF Init, Noticed, Idle, TaskFor
    <2>3. QED
        BY <2>1, <2>2 DEF Init, Mbox!Init
<1>2. IInv /\ [Next]_vars => [Mbox!Next]_(Mbox!vars)
    BY MailboxStep
<1>3. QED
    BY <1>1, <1>2, MailInvariant, PTL DEF Spec, Mbox!Spec, ImplementsMailbox

-----------------------------------------------------------------------------
(* The mailbox promises enough.                                            *)

\* What the mailbox keeps, whatever implements it.
Promise ==
    /\ mail \in [Mail -> Status]
    /\ Noticed \subseteq {m \in Mail : To[m] = Me}
    /\ OnlyIncomingIsPending
    /\ OnlyMyMailIsDecrypted
    /\ PendingMailIsSurfaced

LEMMA SurfacedByBadge ==
    PendingMailIsSurfaced <=>
        \A m \in Mail \ read : mail[m] = "pending" => Conv(m) \in Badges
BY ConversationTypes DEF PendingMailIsSurfaced, Badges

LEMMA SurfacedByBadgeNext ==
    ASSUME \A m \in Mail \ read' : mail'[m] = "pending" => Conv(m) \in Badges'
    PROVE  PendingMailIsSurfaced'
BY DEF PendingMailIsSurfaced, Badges, Conv

LEMMA PromiseStep ==
    ASSUME Promise, [Mbox!Next]_(Mbox!vars)
    PROVE  /\ Promise'
           /\ \A m \in Mail :
                 /\ m \in Stored => m \in Stored'
                 /\ mail'[m] = "pending" => mail[m] \in {"absent", "pending"}
                 /\ m \in read => m \in read'
<1> DEFINE Stable ==
        \A m \in Mail :
            /\ m \in Stored => m \in Stored'
            /\ mail'[m] = "pending" => mail[m] \in {"absent", "pending"}
            /\ m \in read => m \in read'
<1> USE DEF Status
<1>1. /\ mail \in [Mail -> Status]
      /\ Noticed \subseteq {m \in Mail : To[m] = Me}
      /\ \A m \in Mail : mail[m] = "pending" => From[m] # Me
      /\ \A m \in Mail : mail[m] = "decrypted" => Me \in {From[m], To[m]}
      /\ \A m \in Mail \ read : mail[m] = "pending" => {From[m], To[m]} \in Badges
    BY SurfacedByBadge DEF Promise, OnlyIncomingIsPending, OnlyMyMailIsDecrypted, Conv
<1>2. ASSUME /\ mail' \in [Mail -> Status]
             /\ Noticed' \subseteq {m \in Mail : To[m] = Me}
             /\ \A m \in Mail : mail'[m] = "pending" => From[m] # Me
             /\ \A m \in Mail : mail'[m] = "decrypted" => Me \in {From[m], To[m]}
             /\ \A m \in Mail \ read' : mail'[m] = "pending" => {From[m], To[m]} \in Badges'
             /\ \A m \in Mail : mail[m] # "absent" => mail'[m] # "absent"
             /\ \A m \in Mail : mail'[m] = "pending" => mail[m] \in {"absent", "pending"}
             /\ read \subseteq read'
      PROVE  Promise' /\ Stable
    <2>1. PendingMailIsSurfaced'
        BY <1>2, SurfacedByBadgeNext DEF Conv
    <2>2. QED
        BY <1>2, <2>1 DEF Promise, OnlyIncomingIsPending, OnlyMyMailIsDecrypted, Conv,
           Stored
<1>3. CASE UNCHANGED Mbox!vars
    BY <1>1, <1>2, <1>3 DEF Mbox!vars
<1>4. ASSUME NEW m \in Mail, Mbox!Send(m) \/ Mbox!Reveal(m) PROVE Promise' /\ Stable
    <2>1. mail' = [mail EXCEPT ![m] = "decrypted"] /\ Noticed' \subseteq Noticed
          /\ UNCHANGED <<read, Badges>>
        BY <1>4 DEF Mbox!Send, Mbox!Reveal, Mbox!Show
    <2>2. Me \in {From[m], To[m]}
        BY <1>1, <1>4 DEF Mbox!Send, Mbox!Reveal
    <2>3. QED
        BY <1>1, <1>2, <2>1, <2>2
<1>5. ASSUME NEW m \in Mail, Mbox!Notice(m) \/ Mbox!Remind(m) PROVE Promise' /\ Stable
    <2>1. UNCHANGED <<mail, read>> /\ Badges \subseteq Badges'
          /\ Noticed' \subseteq Noticed \union {x \in Mail : To[x] = Me}
        BY <1>5 DEF Mbox!Notice, Mbox!Remind
    <2>2. QED
        BY <1>1, <1>2, <2>1
<1>6. ASSUME NEW m \in Mail, Mbox!Conceal(m) PROVE Promise' /\ Stable
    <2>1. /\ From[m] # Me /\ mail[m] = "absent"
          /\ mail' = [mail EXCEPT ![m] = "pending"]
          /\ Badges' = Badges \union {{From[m], To[m]}}
          /\ UNCHANGED <<read, Noticed>>
        BY <1>6 DEF Mbox!Conceal, Mbox!Show, Mbox!Present, Mbox!Conv
    <2>2. QED
        BY <1>1, <1>2, <2>1
<1>7. ASSUME NEW m \in Mail, Mbox!Fail(m) PROVE Promise' /\ Stable
    <2>1. mail' = [mail EXCEPT ![m] = "failed"] /\ UNCHANGED <<read, Badges, Noticed>>
        BY <1>7 DEF Mbox!Fail, Mbox!Show
    <2>2. QED
        BY <1>1, <1>2, <2>1
<1>8. ASSUME NEW S \in SUBSET Mail, Mbox!Forget(S) PROVE Promise' /\ Stable
    BY <1>1, <1>2, <1>8 DEF Mbox!Forget
<1>9. ASSUME NEW m \in Mail, Mbox!MarkRead(m) PROVE Promise' /\ Stable
    BY <1>1, <1>2, <1>9 DEF Mbox!MarkRead
<1>10. ASSUME NEW p \in Peer, Mbox!Open(p) PROVE Promise' /\ Stable
    <2>1. /\ read' = read \union {m \in Mail : /\ mail[m] # "absent"
                                               /\ From[m] = p /\ To[m] = Me}
          /\ Badges' = Badges \ {{Me, p}}
          /\ UNCHANGED <<mail, Noticed>>
        BY <1>10 DEF Mbox!Open, Mbox!Present
    <2>2. ASSUME NEW m \in Mail \ read', mail[m] = "pending"
          PROVE  {From[m], To[m]} \in Badges'
        <3>1. {From[m], To[m]} \in Badges /\ From[m] # Me
            BY <1>1, <2>1, <2>2
        <3>2. {From[m], To[m]} # {Me, p}
            BY <2>1, <2>2, <3>1
        <3>3. QED
            BY <2>1, <3>1, <3>2
    <2>3. QED
        BY <1>1, <1>2, <2>1, <2>2
<1>11. QED
    BY <1>3, <1>4, <1>5, <1>6, <1>7, <1>8, <1>9, <1>10 DEF Mbox!Next

\* Whatever implements the mailbox surfaces mail that is locked, shows no mail
\* of others in clear and keeps what it stored: these three properties follow
\* from the abstract specification alone.
THEOREM MailboxSuffices ==
    ImplementsMailbox =>
        []PendingMailIsSurfaced /\ []OnlyMyMailIsDecrypted /\ StoredMailIsStable
<1>1. Mbox!Init => Promise
    <2> SUFFICES ASSUME Mbox!Init PROVE Promise
        OBVIOUS
    <2>1. mail = [m \in Mail |-> "absent"] /\ Noticed = {}
        BY DEF Mbox!Init
    <2>2. QED
        BY <2>1 DEF Promise, Status, OnlyIncomingIsPending, OnlyMyMailIsDecrypted,
           PendingMailIsSurfaced
<1>2. Promise /\ [Mbox!Next]_(Mbox!vars) => Promise'
    BY PromiseStep
<1>3. Promise /\ [Mbox!Next]_(Mbox!vars) =>
         [\A m \in Mail :
             /\ m \in Stored => m \in Stored'
             /\ mail'[m] = "pending" => mail[m] \in {"absent", "pending"}
             /\ m \in read => m \in read']_vars
    BY PromiseStep
<1>4. Promise => PendingMailIsSurfaced /\ OnlyMyMailIsDecrypted
    BY DEF Promise
<1>5. QED
    BY <1>1, <1>2, <1>3, <1>4, PTL DEF ImplementsMailbox, Mbox!Spec, StoredMailIsStable

-----------------------------------------------------------------------------
(* Retries get through, and drop nothing that they listed.                 *)

\* Who changes the task of a retry.
LEMMA RetrySteps ==
    ASSUME TypeOK, [Next]_vars, NEW w \in Worker
    PROVE  \/ retry'[w] = retry[w]
           \/ Retry(w)
           \/ retry[w] = Idle /\ \E p \in Peer : retry'[w] = TaskFor(p, "listing")
           \/ Restart /\ retry'[w] = Idle
<1>1. CASE UNCHANGED retry
    BY <1>1
<1>2. ASSUME NEW v \in Worker, Retry(v) PROVE retry'[w] = retry[w] \/ Retry(w)
    <2>1. v # w => retry'[w] = retry[w]
        BY <1>2 DEF Retry, ListPending, LookAgain, CountAgain, Settle, EndRetry, TypeOK
    <2>2. QED
        BY <1>2, <2>1
<1>3. ASSUME NEW p \in Peer, NEW k \in Key, NEW v \in Worker, ReceiveProfile(p, k, v)
      PROVE  \/ retry'[w] = retry[w]
             \/ retry[w] = Idle /\ retry'[w] = TaskFor(p, "listing")
    BY <1>3 DEF ReceiveProfile, TypeOK
<1>4. CASE Restart
    BY <1>4 DEF Restart
<1>5. \/ UNCHANGED retry
      \/ \E v \in Worker : Retry(v)
      \/ \E p \in Peer, k \in Key, v \in Worker : ReceiveProfile(p, k, v)
      \/ Restart
    BY DEF Next, Ingest, Api, ReceiveMail, CountMail, StoreDecrypted,
       StorePending, StoreFailed, LearnPeer, Unfollow, PrepareSend,
       StoreSent, MarkRead, OpenConversation, vars, tasks
<1>6. QED
    BY <1>1, <1>2, <1>3, <1>4, <1>5

\* What the steps of a retry do to its own task.
LEMMA ListPendingTask ==
    ASSUME TypeOK, NEW w \in Worker, ListPending(w)
    PROVE  /\ retry[w].step = "listing" /\ retry'[w].step = "looking"
           /\ retry'[w].current = retry[w].current
BY DEF ListPending, TypeOK, Task

LEMMA LookAgainTask ==
    ASSUME TypeOK, NEW w \in Worker, NEW m \in Mail, LookAgain(w, m)
    PROVE  /\ retry[w].step = "looking" /\ m \in retry[w].todo
           /\ retry'[w].todo = retry[w].todo \ {m}
           /\ Outcome(m) = "locked" => /\ retry'[w].step = "looking"
                                       /\ retry'[w].current = {}
           /\ Outcome(m) # "locked" => /\ retry'[w].step = Outcome(m)
                                       /\ retry'[w].current = {m}
BY DEF LookAgain, TypeOK, Task

\* The sender of a message that is retried has a row: its message refers to it.
LEMMA CountAgainTask ==
    ASSUME IInv, NEW w \in Worker, NEW m \in Mail, CountAgain(w, m)
    PROVE  /\ retry[w].step = "readable" /\ retry'[w].step = "counted"
           /\ retry'[w].todo = retry[w].todo
           /\ retry'[w].current = retry[w].current
<1>1. m \in Stored /\ From[m] # Me
    BY DEF CountAgain, IInv, TasksAreSound, Incoming
<1>2. From[m] \in known
    BY <1>1 DEF IInv, ReferencesHold, EndsKnown, Conv
<1>3. QED
    BY <1>2 DEF CountAgain, IInv, TypeOK, Task

LEMMA SettleTask ==
    ASSUME TypeOK, NEW w \in Worker, NEW m \in Mail, Settle(w, m)
    PROVE  /\ retry[w].step \in {"counted", "garbled"}
           /\ retry[w].current = {m}
           /\ retry'[w].step = "looking"
           /\ retry'[w].todo = retry[w].todo
           /\ retry'[w].current = {}
           /\ mail'[m] # "pending"
BY DEF Settle, TypeOK, Task

LEMMA EndRetryTask ==
    ASSUME TypeOK, NEW w \in Worker, EndRetry(w)
    PROVE  retry[w].step = "looking" /\ retry[w].todo = {} /\ retry'[w] = Idle
BY DEF EndRetry, TypeOK

\* A retry that has not listed yet has nothing to do, and one that is between
\* two messages has none in hand.
HandsAreFree ==
    \A w \in Worker :
        /\ retry[w].step \in {"idle", "listing"} => retry[w].todo = {}
        /\ retry[w].step \in {"idle", "listing", "looking"} => retry[w].current = {}

LEMMA HandsAreFreeStep ==
    ASSUME IInv, HandsAreFree, [Next]_vars
    PROVE  HandsAreFree'
<1> SUFFICES ASSUME NEW w \in Worker
             PROVE  /\ retry'[w].step \in {"idle", "listing"} => retry'[w].todo = {}
                    /\ retry'[w].step \in {"idle", "listing", "looking"}
                          => retry'[w].current = {}
    BY DEF HandsAreFree
<1> DEFINE Goal == /\ retry'[w].step \in {"idle", "listing"} => retry'[w].todo = {}
                   /\ retry'[w].step \in {"idle", "listing", "looking"}
                         => retry'[w].current = {}
<1>1. TypeOK
    BY DEF IInv
<1>2. /\ retry[w].step \in {"idle", "listing"} => retry[w].todo = {}
      /\ retry[w].step \in {"idle", "listing", "looking"} => retry[w].current = {}
    BY DEF HandsAreFree
<1>3. CASE ListPending(w)
    BY <1>1, <1>2, <1>3, ListPendingTask
<1>4. ASSUME NEW m \in Mail, LookAgain(w, m) PROVE Goal
    BY <1>1, <1>4, LookAgainTask, OutcomeType
<1>5. ASSUME NEW m \in Mail, CountAgain(w, m) PROVE Goal
    BY <1>5, CountAgainTask
<1>6. ASSUME NEW m \in Mail, Settle(w, m) PROVE Goal
    BY <1>1, <1>6, SettleTask
<1>7. \A p : \A s : TaskFor(p, s).todo = {} /\ TaskFor(p, s).current = {}
    BY DEF TaskFor
<1>8. Idle.todo = {} /\ Idle.current = {}
    BY DEF Idle, TaskFor
<1>9. QED
    BY <1>1, <1>2, <1>3, <1>4, <1>5, <1>6, <1>7, <1>8, RetrySteps, EndRetryTask DEF Retry

\* What a retry has listed and not dealt with.
Taken(w) == retry[w].todo \union retry[w].current

\* A retry lets go of a message only when it is not pending any more or its key
\* is missing again, or with a restart.
NothingIsDropped ==
    [][\A w \in Worker : \A m \in Taken(w) :
          \/ m \in Taken(w)'
          \/ mail'[m] # "pending"
          \/ key[From[m]] = {}
          \/ Restart]_vars

LEMMA DropStep ==
    ASSUME IInv, HandsAreFree, [Next]_vars, NEW w \in Worker, NEW m \in Taken(w)
    PROVE  m \in Taken(w)' \/ mail'[m] # "pending" \/ key[From[m]] = {} \/ Restart
<1> DEFINE Goal == m \in Taken(w)' \/ mail'[m] # "pending" \/ key[From[m]] = {} \/ Restart
<1>1. TypeOK /\ m \in retry[w].todo \union retry[w].current
    BY DEF IInv, Taken
<1>2. /\ retry[w].step \in {"idle", "listing"} => retry[w].todo = {}
      /\ retry[w].step \in {"idle", "listing", "looking"} => retry[w].current = {}
    BY DEF HandsAreFree
<1>3. CASE retry'[w] = retry[w]
    BY <1>1, <1>3 DEF Taken
<1>4. CASE ListPending(w)
    BY <1>1, <1>2, <1>4, ListPendingTask
<1>5. ASSUME NEW x \in Mail, LookAgain(w, x) PROVE Goal
    <2>1. Outcome(x) = "locked" => key[From[x]] = {}
        BY DEF Outcome
    <2>2. retry[w].current = {} /\ m \in retry[w].todo
        BY <1>1, <1>2, <1>5, LookAgainTask
    <2>3. QED
        BY <1>1, <1>5, <2>1, <2>2, LookAgainTask DEF Taken
<1>6. ASSUME NEW x \in Mail, CountAgain(w, x) PROVE Goal
    BY <1>1, <1>6, CountAgainTask DEF Taken
<1>7. ASSUME NEW x \in Mail, Settle(w, x) PROVE Goal
    BY <1>1, <1>7, SettleTask DEF Taken
<1>8. CASE EndRetry(w)
    BY <1>1, <1>2, <1>8, EndRetryTask
<1>9. Idle.step = "idle"
    BY DEF Idle, TaskFor
<1>10. CASE retry[w] = Idle
    BY <1>1, <1>2, <1>9, <1>10
<1>11. QED
    BY <1>1, <1>3, <1>4, <1>5, <1>6, <1>7, <1>8, <1>10, RetrySteps DEF Retry

\* How far a retry is with the message in hand.
Left == [s \in {"idle", "listing", "looking"} \union Verdict |->
            CASE s = "readable" -> 2
              [] s \in {"counted", "garbled"} -> 1
              [] OTHER -> 0]

\* A retry lists once, then goes through its list, each message in at most three
\* steps, and ends.
GetsOn(w) ==
    \/ retry'[w] = Idle
    \/ retry[w].step = "listing" /\ retry'[w].step = "looking"
    \/ /\ retry'[w].step # "listing"
       /\ \/ retry'[w].todo \subseteq retry[w].todo /\ retry'[w].todo # retry[w].todo
          \/ /\ retry'[w].todo = retry[w].todo
             /\ Left[retry'[w].step] < Left[retry[w].step]

LEMMA GetsOnStep ==
    ASSUME IInv, [Next]_vars, NEW w \in Worker, retry[w] # Idle,
           Retry(w) \/ retry'[w] # retry[w]
    PROVE  GetsOn(w)
<1>1. TypeOK
    BY DEF IInv
<1>2. /\ Left["readable"] = 2 /\ Left["counted"] = 1 /\ Left["garbled"] = 1
      /\ Left["looking"] = 0
    BY DEF Left, Verdict
<1>3. CASE ListPending(w)
    BY <1>1, <1>3, ListPendingTask DEF GetsOn
<1>4. ASSUME NEW m \in Mail, LookAgain(w, m) PROVE GetsOn(w)
    BY <1>1, <1>4, LookAgainTask, OutcomeType DEF GetsOn
<1>5. ASSUME NEW m \in Mail, CountAgain(w, m) PROVE GetsOn(w)
    <2>1. Left[retry'[w].step] < Left[retry[w].step]
        BY <1>2, <1>5, CountAgainTask
    <2>2. QED
        BY <1>5, <2>1, CountAgainTask DEF GetsOn
<1>6. ASSUME NEW m \in Mail, Settle(w, m) PROVE GetsOn(w)
    <2>1. Left[retry'[w].step] < Left[retry[w].step]
        BY <1>1, <1>2, <1>6, SettleTask
    <2>2. QED
        BY <1>1, <1>6, <2>1, SettleTask DEF GetsOn
<1>7. CASE EndRetry(w)
    BY <1>1, <1>7, EndRetryTask DEF GetsOn
<1>8. CASE Restart /\ retry'[w] = Idle
    BY <1>8 DEF GetsOn
<1>9. QED
    BY <1>1, <1>3, <1>4, <1>5, <1>6, <1>7, <1>8, RetrySteps DEF Retry

LEMMA HandsStayFree == Spec => []HandsAreFree
<1>1. Init => HandsAreFree
    BY DEF Init, HandsAreFree, Idle, TaskFor
<1>2. QED
    BY <1>1, HandsAreFreeStep, MailInvariant, PTL DEF Spec

\* A retry goes through all that it listed.  In particular it never breaks off:
\* the foreign key that ends receive_dm cannot fail in a retry, because the
\* message that is retried keeps its sender from being deleted.
THEOREM RetriesDropNothing == Spec => NothingIsDropped
<1>1. IInv /\ HandsAreFree /\ [Next]_vars =>
         [\A w \in Worker : \A m \in Taken(w) :
             \/ m \in Taken(w)'
             \/ mail'[m] # "pending"
             \/ key[From[m]] = {}
             \/ Restart]_vars
    BY DropStep
<1>2. QED
    BY <1>1, MailInvariant, HandsStayFree, PTL DEF Spec, NothingIsDropped

\* Every step of a retry brings it closer to its end, and neither the handler
\* nor another retry nor the API ever sets it back.
THEOREM RetriesWearOut ==
    Spec => [][\A w \in Worker :
                 retry[w] # Idle /\ (Retry(w) \/ retry'[w] # retry[w]) => GetsOn(w)]_vars
<1>1. IInv /\ [Next]_vars =>
         [\A w \in Worker :
             retry[w] # Idle /\ (Retry(w) \/ retry'[w] # retry[w]) => GetsOn(w)]_vars
    BY GetsOnStep
<1>2. QED
    BY <1>1, MailInvariant, PTL DEF Spec
=============================================================================

------------------------------ MODULE RelayProofs ------------------------------
(***************************************************************************)
(* Proofs about Relay for any nodes, posts and networks, and any numbers   *)
(* of publications and restarts.                                           *)
(***************************************************************************)
EXTENDS Relay, TLAPS

\* Every reaction on its way was made by the user.
SentReactionsAreGenuine ==
    \A n \in Node, m \in ReactionUpdate :
        m \in outbox[n] \/ <<n, m>> \in net => m \in log

\* What was passed on since the start of the node is in its cache.
RelayedIsSeen == \A n \in Node, i \in Ids : relays[n][i] # 0 => i \in seen[n]

IInv ==
    /\ TypeOK
    /\ SentReactionsAreGenuine
    /\ ReactionsAreGenuine
    /\ RelayedIsSeen
    /\ RelayedOnce

-----------------------------------------------------------------------------
(* Messages and their ids.                                                 *)

\* The kinds of messages are told apart by their kind.
LEMMA Kinds ==
    /\ \A m \in PostUpdate : m.kind = "post" /\ m.post \in Post
    /\ \A m \in ReactionUpdate :
           m.kind = "reaction" /\ m.removal \in BOOLEAN /\ m.number \in Number
    /\ \A m \in ProfileUpdate : m.kind = "profile" /\ m.number \in Number
    /\ \A m \in Message : Id(m) \in Ids
BY DEF PostUpdate, ReactionUpdate, ProfileUpdate, Ids

LEMMA Numbers == news \in 0..MaxNews /\ news < MaxNews => news + 1 \in Number
BY RelayAssumption DEF RelayAssumption, Number

LEMMA Sent ==
    ASSUME TypeOK, NEW n \in Node, NEW m \in Message, Publish(n, m)
    PROVE  /\ news' \in 0..MaxNews
           /\ outbox' \in [Node -> SUBSET Message]
BY RelayAssumption DEF TypeOK, Publish, RelayAssumption

LEMMA InitInv == Init => IInv
<1> SUFFICES ASSUME Init PROVE IInv
    OBVIOUS
<1>1. TypeOK
    BY RelayAssumption DEF Init, TypeOK, RelayAssumption
<1>2. SentReactionsAreGenuine /\ ReactionsAreGenuine /\ RelayedIsSeen /\ RelayedOnce
    BY DEF Init, SentReactionsAreGenuine, ReactionsAreGenuine, RelayedIsSeen,
       RelayedOnce
<1>3. QED
    BY <1>1, <1>2 DEF IInv

-----------------------------------------------------------------------------
(* Publications.                                                           *)

LEMMA CreateStep ==
    ASSUME IInv, NEW p \in Post, CreatePost(p)
    PROVE  IInv'
<1> DEFINE m == [kind |-> "post", post |-> p]
<1>1. m \in Message /\ m \notin ReactionUpdate
    BY Kinds DEF Message, PostUpdate
<1>2. Author[p] \in Node
    BY RelayAssumption DEF RelayAssumption
<1>3. Publish(Author[p], m)
    BY DEF CreatePost
<1> HIDE DEF m
<1>4. TypeOK'
    <2>1. posts' \in [Node -> SUBSET Post] /\ linked' \in [Node -> SUBSET Post]
        BY <1>2 DEF CreatePost, IInv, TypeOK
    <2>2. QED
        BY <1>1, <1>2, <1>3, <2>1, Sent DEF CreatePost, IInv, TypeOK
<1>5. SentReactionsAreGenuine'
    BY <1>1, <1>2, <1>3 DEF CreatePost, Publish, IInv, TypeOK, SentReactionsAreGenuine
<1>6. ReactionsAreGenuine'
    BY <1>2 DEF CreatePost, IInv, TypeOK, ReactionsAreGenuine
<1>7. RelayedIsSeen' /\ RelayedOnce'
    BY DEF CreatePost, IInv, RelayedIsSeen, RelayedOnce
<1>8. QED
    BY <1>4, <1>5, <1>6, <1>7 DEF IInv

LEMMA ReactStep ==
    ASSUME IInv, NEW removal \in BOOLEAN, React(removal)
    PROVE  IInv'
<1> DEFINE m == [kind |-> "reaction", removal |-> removal, number |-> news + 1]
<1>1. Publish(Reactor, m) /\ log' = log \union {m}
    BY DEF React
<1>2. news + 1 \in Number /\ news + 1 \in 0..MaxNews
    BY <1>1, Numbers DEF Publish, IInv, TypeOK, Number
<1>3. m \in ReactionUpdate
    BY <1>2 DEF ReactionUpdate
<1>4. m \in Message
    BY <1>3 DEF Message
<1>5. Reactor \in Node
    BY RelayAssumption DEF RelayAssumption
<1>6. ~removal => m = [kind |-> "reaction", removal |-> FALSE, number |-> news + 1]
    OBVIOUS
<1> HIDE DEF m
<1>7. TypeOK'
    <2>1. reaction' \in [Node -> 0..MaxNews]
        BY <1>2, <1>5, RelayAssumption DEF React, IInv, TypeOK, RelayAssumption
    <2>2. QED
        BY <1>1, <1>3, <1>4, <1>5, <2>1, Sent DEF React, IInv, TypeOK
<1>8. SentReactionsAreGenuine'
    BY <1>1, <1>5 DEF React, Publish, IInv, TypeOK, SentReactionsAreGenuine
<1>9. ReactionsAreGenuine'
    <2> SUFFICES ASSUME NEW k \in Node, reaction'[k] # 0
                 PROVE  /\ Liked \in posts'[k]
                        /\ [kind |-> "reaction", removal |-> FALSE,
                            number |-> reaction'[k]] \in log'
        BY DEF ReactionsAreGenuine
    <2>1. CASE reaction'[k] = reaction[k]
        BY <1>1, <2>1 DEF React, IInv, ReactionsAreGenuine
    <2>2. CASE reaction'[k] # reaction[k]
        <3>1. k = Reactor /\ ~removal /\ reaction'[k] = news + 1
            BY <2>2 DEF React, IInv, TypeOK
        <3>2. QED
            BY <1>1, <1>6, <3>1 DEF React
    <2>3. QED
        BY <2>1, <2>2
<1>10. RelayedIsSeen' /\ RelayedOnce'
    BY DEF React, IInv, RelayedIsSeen, RelayedOnce
<1>11. QED
    BY <1>7, <1>8, <1>9, <1>10 DEF IInv

LEMMA ProfileStep ==
    ASSUME IInv, UpdateProfile
    PROVE  IInv'
<1> DEFINE m == [kind |-> "profile", number |-> news + 1]
<1>1. Publish(Owner, m)
    BY DEF UpdateProfile
<1>2. news + 1 \in Number /\ news + 1 \in 0..MaxNews
    BY <1>1, Numbers DEF Publish, IInv, TypeOK, Number
<1>3. m \in Message /\ m \notin ReactionUpdate
    BY <1>2, Kinds DEF Message, ProfileUpdate
<1>4. Owner \in Node
    BY RelayAssumption DEF RelayAssumption
<1> HIDE DEF m
<1>5. TypeOK'
    <2>1. profile' \in [Node -> 0..MaxNews]
        BY <1>2, <1>4 DEF UpdateProfile, IInv, TypeOK
    <2>2. QED
        BY <1>1, <1>3, <1>4, <2>1, Sent DEF UpdateProfile, IInv, TypeOK
<1>6. SentReactionsAreGenuine'
    BY <1>1, <1>3, <1>4 DEF UpdateProfile, Publish, IInv, TypeOK, SentReactionsAreGenuine
<1>7. ReactionsAreGenuine' /\ RelayedIsSeen' /\ RelayedOnce'
    BY DEF UpdateProfile, IInv, ReactionsAreGenuine, RelayedIsSeen, RelayedOnce
<1>8. QED
    BY <1>5, <1>6, <1>7 DEF IInv

-----------------------------------------------------------------------------
(* The loops, and restarts.                                                *)

LEMMA BroadcastStep ==
    ASSUME IInv, NEW n \in Node, NEW m \in outbox[n], Broadcast(n, m)
    PROVE  IInv'
<1> USE DEF tables
<1>1. m \in Message /\ Reach[n] \subseteq Node
    BY RelayAssumption DEF IInv, TypeOK, RelayAssumption
<1>2. TypeOK'
    BY <1>1 DEF Broadcast, IInv, TypeOK
<1>3. SentReactionsAreGenuine'
    <2> SUFFICES ASSUME NEW k \in Node, NEW q \in ReactionUpdate,
                        q \in outbox'[k] \/ <<k, q>> \in net'
                 PROVE  q \in log
        BY DEF SentReactionsAreGenuine, Broadcast
    <2>1. q \in outbox[k] \/ <<k, q>> \in net \/ q = m
        BY DEF Broadcast, IInv, TypeOK
    <2>2. QED
        BY <2>1 DEF IInv, SentReactionsAreGenuine
<1>4. ReactionsAreGenuine' /\ RelayedIsSeen' /\ RelayedOnce'
    BY DEF Broadcast, IInv, ReactionsAreGenuine, RelayedIsSeen, RelayedOnce
<1>5. QED
    BY <1>2, <1>3, <1>4 DEF IInv

LEMMA ReceiveStep ==
    ASSUME IInv, NEW n \in Node, NEW m \in Message, <<n, m>> \in net, Receive(n, m)
    PROVE  IInv'
<1>1. Id(m) \in Ids
    BY Kinds
<1>2. seen' = [seen EXCEPT ![n] = @ \union {Id(m)}]
    BY DEF Receive, MarkSeen
<1>3. /\ outbox' = outbox \/ outbox' = [outbox EXCEPT ![n] = @ \union {m}]
      /\ \/ relays' = relays
         \/ /\ Id(m) \notin seen[n]
            /\ relays' = [relays EXCEPT ![n][Id(m)] = IF @ = 0 THEN 1 ELSE 2]
      /\ net' \subseteq net
      /\ UNCHANGED <<news, log, restarts>>
    BY DEF Receive, Fresh
<1>5. /\ posts' \in [Node -> SUBSET Post] /\ linked' \in [Node -> SUBSET Post]
      /\ reaction' \in [Node -> 0..MaxNews] /\ profile' \in [Node -> 0..MaxNews]
      /\ ReactionsAreGenuine'
    <2>1. CASE m.kind = "post" /\ ApplyPost(n, m.post)
        <3>1. m.post \in Post
            BY <2>1, Kinds DEF Message
        <3>2. /\ posts' \in [Node -> SUBSET Post] /\ linked' \in [Node -> SUBSET Post]
              /\ \A k \in Node : posts[k] \subseteq posts'[k]
              /\ UNCHANGED <<reaction, profile>>
            BY <2>1, <3>1 DEF ApplyPost, IInv, TypeOK
        <3>3. QED
            BY <1>3, <3>2 DEF IInv, TypeOK, ReactionsAreGenuine
    <2>2. CASE m.kind = "reaction" /\ ApplyReaction(n, m)
        <3>1. m \in ReactionUpdate /\ m.number \in 0..MaxNews
            BY <2>2, Kinds DEF Message, Number
        <3>2. m \in log
            BY <3>1 DEF IInv, SentReactionsAreGenuine
        <3>3. ~m.removal => m = [kind |-> "reaction", removal |-> FALSE,
                                 number |-> m.number]
            BY <3>1 DEF ReactionUpdate
        <3>4. reaction' \in [Node -> 0..MaxNews]
            BY <2>2, <3>1, RelayAssumption DEF ApplyReaction, IInv, TypeOK, RelayAssumption
        <3>5. ReactionsAreGenuine'
            <4> SUFFICES ASSUME NEW k \in Node, reaction'[k] # 0
                         PROVE  /\ Liked \in posts[k]
                                /\ [kind |-> "reaction", removal |-> FALSE,
                                    number |-> reaction'[k]] \in log
                BY <1>3, <2>2 DEF ReactionsAreGenuine, ApplyReaction
            <4>1. CASE reaction'[k] = reaction[k]
                BY <4>1 DEF IInv, ReactionsAreGenuine
            <4>2. CASE reaction'[k] # reaction[k]
                <5>1. k = n /\ ~m.removal /\ Liked \in posts[n] /\ reaction'[k] = m.number
                    BY <2>2, <4>2 DEF ApplyReaction, IInv, TypeOK
                <5>2. QED
                    BY <3>2, <3>3, <5>1
            <4>3. QED
                BY <4>1, <4>2
        <3>6. QED
            BY <2>2, <3>4, <3>5 DEF ApplyReaction, IInv, TypeOK
    <2>3. CASE m.kind = "profile" /\ ApplyProfile(n, m)
        <3>1. m.number \in 0..MaxNews
            BY <2>3, Kinds DEF Message, Number
        <3>2. QED
            BY <1>3, <2>3, <3>1 DEF ApplyProfile, IInv, TypeOK, ReactionsAreGenuine
    <2>4. QED
        BY <2>1, <2>2, <2>3 DEF Receive
<1>6. relays' \in [Node -> [Ids -> 0..2]]
    <2>1. CASE relays' = relays
        BY <2>1 DEF IInv, TypeOK
    <2>2. CASE relays' # relays
        <3> DEFINE c == IF relays[n][Id(m)] = 0 THEN 1 ELSE 2
        <3>1. c \in 0..2
            OBVIOUS
        <3>2. relays' = [relays EXCEPT ![n] = [relays[n] EXCEPT ![Id(m)] = c]]
            BY <1>3, <2>2
        <3> HIDE DEF c
        <3>3. [relays[n] EXCEPT ![Id(m)] = c] \in [Ids -> 0..2]
            BY <1>1, <3>1 DEF IInv, TypeOK
        <3>4. QED
            BY <3>2, <3>3 DEF IInv, TypeOK
    <2>3. QED
        BY <2>1, <2>2
<1>7. TypeOK'
    <2>1. seen' \in [Node -> SUBSET Ids]
        BY <1>1, <1>2 DEF IInv, TypeOK
    <2>2. outbox' \in [Node -> SUBSET Message]
        BY <1>3 DEF IInv, TypeOK
    <2>3. QED
        BY <1>3, <1>5, <1>6, <2>1, <2>2 DEF IInv, TypeOK
<1>8. SentReactionsAreGenuine'
    BY <1>3 DEF IInv, TypeOK, SentReactionsAreGenuine
<1>9. RelayedIsSeen'
    <2> SUFFICES ASSUME NEW k \in Node, NEW i \in Ids, relays'[k][i] # 0
                 PROVE  i \in seen'[k]
        BY DEF RelayedIsSeen
    <2>1. relays[k][i] # 0 \/ (k = n /\ i = Id(m))
        BY <1>1, <1>3 DEF IInv, TypeOK
    <2>2. seen[k] \subseteq seen'[k] /\ Id(m) \in seen'[n]
        BY <1>2 DEF IInv, TypeOK
    <2>3. QED
        BY <2>1, <2>2 DEF IInv, RelayedIsSeen
<1>10. RelayedOnce'
    <2> SUFFICES ASSUME NEW k \in Node, NEW i \in Ids PROVE relays'[k][i] <= 1
        BY DEF RelayedOnce
    <2>1. CASE relays'[k][i] = relays[k][i]
        BY <2>1 DEF IInv, RelayedOnce
    <2>2. CASE relays'[k][i] # relays[k][i]
        <3>1. k = n /\ i = Id(m) /\ Id(m) \notin seen[n]
            BY <1>1, <1>3, <2>2 DEF IInv, TypeOK
        <3>2. relays[n][Id(m)] = 0
            BY <1>1, <3>1 DEF IInv, RelayedIsSeen
        <3>3. QED
            BY <1>1, <1>3, <3>1, <3>2 DEF IInv, TypeOK
    <2>3. QED
        BY <2>1, <2>2
<1>11. QED
    BY <1>5, <1>7, <1>8, <1>9, <1>10 DEF IInv

LEMMA RestartStep ==
    ASSUME IInv, NEW n \in Node, Restart(n)
    PROVE  IInv'
<1> USE DEF tables
<1>1. net' \subseteq net
    BY DEF Restart
<1>2. TypeOK'
    BY <1>1, RelayAssumption DEF Restart, IInv, TypeOK, RelayAssumption
<1>3. SentReactionsAreGenuine'
    BY <1>1 DEF Restart, IInv, TypeOK, SentReactionsAreGenuine
<1>4. ReactionsAreGenuine'
    BY DEF Restart, IInv, ReactionsAreGenuine
<1>5. RelayedIsSeen' /\ RelayedOnce'
    BY DEF Restart, IInv, TypeOK, RelayedIsSeen, RelayedOnce
<1>6. QED
    BY <1>2, <1>3, <1>4, <1>5 DEF IInv

LEMMA NextInv == IInv /\ [Next]_vars => IInv'
<1> SUFFICES ASSUME IInv, [Next]_vars PROVE IInv'
    OBVIOUS
<1>1. CASE UNCHANGED vars
    BY <1>1 DEF vars, tables, IInv, TypeOK, SentReactionsAreGenuine,
       ReactionsAreGenuine, RelayedIsSeen, RelayedOnce
<1>2. CASE Input
    BY <1>2, CreateStep, ReactStep, ProfileStep DEF Input
<1>3. CASE Work
    <2>1. ASSUME NEW d \in net, Receive(d[1], d[2]) PROVE IInv'
        <3>1. d = <<d[1], d[2]>> /\ d[1] \in Node /\ d[2] \in Message
            BY DEF IInv, TypeOK
        <3>2. QED
            BY <2>1, <3>1, ReceiveStep
    <2>2. QED
        BY <1>3, <2>1, BroadcastStep DEF Work
<1>4. QED
    BY <1>1, <1>2, <1>3, RestartStep DEF Next

LEMMA Invariance == Spec => []IInv
<1>1. QED
    BY InitInv, NextInv, PTL DEF Spec

\* The tables, caches and channels hold what their declarations say.
THEOREM TypeCorrect == Spec => []TypeOK
<1>1. IInv => TypeOK
    BY DEF IInv
<1>2. QED
    BY <1>1, Invariance, PTL

\* A node shows only reactions that the user made, to posts that it stores.
THEOREM ReactionsAreAlwaysGenuine == Spec => []ReactionsAreGenuine
<1>1. IInv => ReactionsAreGenuine
    BY DEF IInv
<1>2. QED
    BY <1>1, Invariance, PTL

\* Between two starts no node passes on two messages with one id.
THEOREM AlwaysRelayedOnce == Spec => []RelayedOnce
<1>1. IInv => RelayedOnce
    BY DEF IInv
<1>2. QED
    BY <1>1, Invariance, PTL

-----------------------------------------------------------------------------
(* Nobody is left out.  What a node knows is known to each node that it     *)
(* reaches, or is still on the way there: on the network, or in the outbox  *)
(* from which the node will broadcast it.                                   *)

OnItsWay(n, k, i) ==
    \/ \E m \in Message : <<k, m>> \in net /\ Id(m) = i
    \/ \E m \in outbox[n] : Id(m) = i

\* What a node has marked as seen it has also applied.
SeenIsKnown == \A n \in Node, i \in Unconditional : i \in seen[n] => Knows(n, i)

NewsKeepsMoving ==
    \A n \in Node : \A k \in Reach[n], i \in Unconditional :
        Knows(n, i) => Knows(k, i) \/ OnItsWay(n, k, i)

Spread == restarts = 0 => SeenIsKnown /\ NewsKeepsMoving

\* An id is that of a post, of a profile or of one direction of the reaction.
LEMMA IdKinds ==
    \A i \in Ids :
        \/ i.kind = "post" /\ i.post \in Post /\ i = [kind |-> "post", post |-> i.post]
        \/ i.kind = "profile" /\ i = [kind |-> "profile"]
        \/ /\ i.kind = "reaction" /\ i.removal \in BOOLEAN
           /\ i = [kind |-> "reaction", removal |-> i.removal]
<1> SUFFICES ASSUME NEW m \in Message
             PROVE  LET i == Id(m) IN
                    \/ i.kind = "post" /\ i.post \in Post /\ i = [kind |-> "post", post |-> i.post]
                    \/ i.kind = "profile" /\ i = [kind |-> "profile"]
                    \/ /\ i.kind = "reaction" /\ i.removal \in BOOLEAN
                       /\ i = [kind |-> "reaction", removal |-> i.removal]
    BY DEF Ids
<1>1. CASE m \in PostUpdate
    BY <1>1 DEF PostUpdate, Id
<1>2. CASE m \in ReactionUpdate
    BY <1>2 DEF ReactionUpdate, Id
<1>3. CASE m \in ProfileUpdate
    BY <1>3 DEF ProfileUpdate, Id
<1>4. QED
    BY <1>1, <1>2, <1>3 DEF Message

\* A publication puts what is new to its node into the outbox of that node.
LEMMA PublishSpreads ==
    ASSUME IInv, Spread, NEW n \in Node, NEW m \in Message, Publish(n, m),
           UNCHANGED <<seen, net, restarts>>,
           \A k \in Node, i \in Unconditional :
               /\ Knows(k, i) => Knows(k, i)'
               /\ Knows(k, i)' => Knows(k, i) \/ (k = n /\ i = Id(m))
    PROVE  Spread'
<1> SUFFICES ASSUME restarts = 0
             PROVE  SeenIsKnown' /\ NewsKeepsMoving'
    BY DEF Spread
<1>1. SeenIsKnown'
    BY DEF Spread, SeenIsKnown, Unconditional
<1>2. NewsKeepsMoving'
    <2> SUFFICES ASSUME NEW a \in Node, NEW k \in Reach[a], NEW i \in Unconditional,
                        Knows(a, i)'
                 PROVE  Knows(k, i)' \/ OnItsWay(a, k, i)'
        BY DEF NewsKeepsMoving, Unconditional
    <2>1. k \in Node
        BY RelayAssumption DEF RelayAssumption
    <2>2. outbox[a] \subseteq outbox'[a] /\ m \in outbox'[n]
        BY DEF Publish, IInv, TypeOK
    <2>3. CASE Knows(a, i)
        BY <2>1, <2>2, <2>3 DEF Spread, NewsKeepsMoving, OnItsWay
    <2>4. CASE ~Knows(a, i)
        BY <2>2, <2>4 DEF OnItsWay
    <2>5. QED
        BY <2>3, <2>4
<1>3. QED
    BY <1>1, <1>2

LEMMA CreateSpreads ==
    ASSUME IInv, Spread, NEW p \in Post, CreatePost(p)
    PROVE  Spread'
<1> DEFINE m == [kind |-> "post", post |-> p]
           n == Author[p]
<1>1. m \in Message /\ Id(m) = m
    BY DEF Message, PostUpdate, Id
<1>2. n \in Node
    BY RelayAssumption DEF RelayAssumption
<1>3. Publish(n, m) /\ UNCHANGED <<seen, net, restarts>>
    BY DEF CreatePost
<1>4. ASSUME NEW k \in Node, NEW i \in Unconditional
      PROVE  /\ Knows(k, i) => Knows(k, i)'
             /\ Knows(k, i)' => Knows(k, i) \/ (k = n /\ i = Id(m))
    <2>1. i.kind = "post" => i = [kind |-> "post", post |-> i.post]
        BY IdKinds DEF Unconditional
    <2>2. /\ posts[k] \subseteq posts'[k]
          /\ \A q \in posts'[k] : q \in posts[k] \/ (k = n /\ q = p)
        BY <1>2 DEF CreatePost, IInv, TypeOK
    <2>3. QED
        BY <1>1, <2>1, <2>2 DEF Knows, CreatePost
<1> HIDE DEF m, n
<1>5. QED
    BY <1>1, <1>2, <1>3, <1>4, PublishSpreads

LEMMA ReactSpreads ==
    ASSUME IInv, Spread, NEW removal \in BOOLEAN, React(removal)
    PROVE  Spread'
<1> DEFINE m == [kind |-> "reaction", removal |-> removal, number |-> news + 1]
<1>1. Publish(Reactor, m) /\ UNCHANGED <<seen, net, restarts>>
    BY DEF React
<1>2. news + 1 \in Number
    BY <1>1, Numbers DEF Publish, IInv, TypeOK
<1>3. m \in Message /\ Id(m) = [kind |-> "reaction", removal |-> removal]
    BY <1>2 DEF Message, ReactionUpdate, Id
<1>4. Reactor \in Node
    BY RelayAssumption DEF RelayAssumption
<1>5. ASSUME NEW k \in Node, NEW i \in Unconditional
      PROVE  /\ Knows(k, i) => Knows(k, i)'
             /\ Knows(k, i)' => Knows(k, i) \/ (k = Reactor /\ i = Id(m))
    <2>1. i.kind = "reaction" => i = [kind |-> "reaction", removal |-> TRUE]
        BY IdKinds DEF Unconditional
    <2>2. log' = log \union {m} /\ UNCHANGED <<posts, seen>>
        BY DEF React
    <2>3. (\E q \in log' : q.removal) => (\E q \in log : q.removal) \/ removal
        BY <2>2
    <2>4. (\E q \in log : q.removal) => (\E q \in log' : q.removal)
        BY <2>2
    <2> HIDE DEF m
    <2>5. QED
        BY <1>3, <2>1, <2>2, <2>3, <2>4 DEF Knows
<1> HIDE DEF m
<1>6. QED
    BY <1>1, <1>3, <1>4, <1>5, PublishSpreads

LEMMA ProfileSpreads ==
    ASSUME IInv, Spread, UpdateProfile
    PROVE  Spread'
<1> DEFINE m == [kind |-> "profile", number |-> news + 1]
<1>1. Publish(Owner, m) /\ UNCHANGED <<seen, net, restarts>>
    BY DEF UpdateProfile
<1>2. news + 1 \in Number
    BY <1>1, Numbers DEF Publish, IInv, TypeOK
<1>3. m \in Message /\ Id(m) = [kind |-> "profile"]
    BY <1>2 DEF Message, ProfileUpdate, Id
<1>4. Owner \in Node
    BY RelayAssumption DEF RelayAssumption
<1>5. ASSUME NEW k \in Node, NEW i \in Unconditional
      PROVE  /\ Knows(k, i) => Knows(k, i)'
             /\ Knows(k, i)' => Knows(k, i) \/ (k = Owner /\ i = Id(m))
    <2>1. UNCHANGED <<posts, log, seen>>
        BY DEF UpdateProfile
    <2>2. QED
        BY <2>1 DEF Knows
<1> HIDE DEF m
<1>6. QED
    BY <1>1, <1>3, <1>4, <1>5, PublishSpreads

\* A broadcast takes a message out of the outbox and on its way to everybody
\* whom the node reaches.
LEMMA BroadcastSpreads ==
    ASSUME IInv, Spread, NEW n \in Node, NEW m \in outbox[n], Broadcast(n, m)
    PROVE  Spread'
<1> SUFFICES ASSUME restarts = 0
             PROVE  SeenIsKnown' /\ NewsKeepsMoving'
    BY DEF Spread, Broadcast
<1>1. UNCHANGED <<posts, seen, log>>
    BY DEF Broadcast, tables
<1>2. SeenIsKnown'
    BY <1>1 DEF Spread, SeenIsKnown, Knows, Unconditional
<1>3. NewsKeepsMoving'
    <2> SUFFICES ASSUME NEW a \in Node, NEW k \in Reach[a], NEW i \in Unconditional,
                        Knows(a, i)
                 PROVE  Knows(k, i) \/ OnItsWay(a, k, i)'
        BY <1>1 DEF NewsKeepsMoving, Knows, Unconditional
    <2>1. Knows(k, i) \/ OnItsWay(a, k, i)
        BY DEF Spread, NewsKeepsMoving
    <2>2. net \subseteq net' /\ \A b \in Reach[n] : <<b, m>> \in net'
        BY DEF Broadcast
    <2>3. \A q \in outbox[a] : q \in outbox'[a] \/ (a = n /\ q = m)
        BY DEF Broadcast, IInv, TypeOK
    <2>4. m \in Message
        BY DEF IInv, TypeOK
    <2>5. QED
        BY <2>1, <2>2, <2>3, <2>4 DEF OnItsWay
<1>4. QED
    BY <1>2, <1>3

\* What a node receives it knows from then on; what is new to it goes into its
\* outbox.
LEMMA ReceiveSpreads ==
    ASSUME IInv, Spread, NEW n \in Node, NEW m \in Message, <<n, m>> \in net, Receive(n, m)
    PROVE  Spread'
<1> SUFFICES ASSUME restarts = 0
             PROVE  SeenIsKnown' /\ NewsKeepsMoving'
    BY DEF Spread, Receive
<1>1. seen' = [seen EXCEPT ![n] = @ \union {Id(m)}] /\ log' = log
    BY DEF Receive, MarkSeen
<1>2. Id(m) \in Ids
    BY Kinds
<1>3. /\ \A k \in Node : posts[k] \subseteq posts'[k]
      /\ \A k \in Node : \A p \in posts'[k] :
             p \in posts[k] \/ (k = n /\ m = [kind |-> "post", post |-> p])
      /\ m.kind = "post" => m.post \in posts'[n]
    <2>1. m.kind = "post" => m.post \in Post /\ m = [kind |-> "post", post |-> m.post]
        BY Kinds DEF Message, PostUpdate
    <2>2. m.kind = "post" => posts' = [posts EXCEPT ![n] = @ \union {m.post}]
        BY DEF Receive, ApplyPost
    <2>3. m.kind # "post" => posts' = posts
        BY DEF Receive, ApplyReaction, ApplyProfile
    <2>4. QED
        BY <2>1, <2>2, <2>3 DEF IInv, TypeOK
<1>4. /\ m.kind = "post" => Id(m) = m
      /\ m.kind = "reaction" => Id(m) = [kind |-> "reaction", removal |-> m.removal]
      /\ Id(m).kind = m.kind
    BY Kinds DEF Id, Message
<1>5. ASSUME NEW k \in Node, NEW i \in Unconditional
      PROVE  /\ Knows(k, i) => Knows(k, i)'
             /\ Knows(k, i)' => Knows(k, i) \/ (k = n /\ i = Id(m))
             /\ k = n /\ i = Id(m) => Knows(k, i)'
    <2>1. \/ i.kind = "post" /\ i = [kind |-> "post", post |-> i.post]
          \/ i.kind = "reaction"
        BY IdKinds DEF Unconditional
    <2>2. seen[k] \subseteq seen'[k] /\ (\A j \in seen'[k] : j \in seen[k] \/ (k = n /\ j = Id(m)))
          /\ Id(m) \in seen'[n]
        BY <1>1 DEF IInv, TypeOK
    <2>3. CASE i.kind = "post"
        BY <1>3, <1>4, <2>1, <2>3 DEF Knows
    <2>4. CASE i.kind = "reaction"
        BY <1>1, <2>2, <2>4 DEF Knows
    <2>5. QED
        BY <2>1, <2>3, <2>4
<1>6. SeenIsKnown'
    BY <1>1, <1>5 DEF Spread, SeenIsKnown, Unconditional, IInv, TypeOK
<1>7. NewsKeepsMoving'
    <2> SUFFICES ASSUME NEW a \in Node, NEW k \in Reach[a], NEW i \in Unconditional,
                        Knows(a, i)'
                 PROVE  Knows(k, i)' \/ OnItsWay(a, k, i)'
        BY DEF NewsKeepsMoving, Unconditional
    <2>1. k \in Node
        BY RelayAssumption DEF RelayAssumption
    <2>2. CASE Knows(a, i)
        <3>1. outbox[a] \subseteq outbox'[a]
            BY DEF Receive, IInv, TypeOK
        <3>2. net' = net \ {<<n, m>>}
            BY DEF Receive
        <3>3. Knows(k, i) \/ OnItsWay(a, k, i)
            BY <2>2 DEF Spread, NewsKeepsMoving
        <3>4. QED
            BY <1>5, <2>1, <3>1, <3>2, <3>3 DEF OnItsWay
    <2>3. CASE ~Knows(a, i)
        <3>1. a = n /\ i = Id(m)
            BY <1>5, <2>3
        <3>2. Fresh(n, m)
            BY <2>3, <3>1 DEF Spread, SeenIsKnown, Fresh
        <3>3. Applies(n, m)
            BY <1>4, <3>1 DEF Applies, Unconditional
        <3>4. m \in outbox'[n]
            BY <3>2, <3>3 DEF Receive, IInv, TypeOK
        <3>5. QED
            BY <3>1, <3>4 DEF OnItsWay
    <2>4. QED
        BY <2>2, <2>3
<1>8. QED
    BY <1>6, <1>7

LEMMA SpreadInvariant == Spec => []Spread
<1>1. Init => Spread
    <2> SUFFICES ASSUME Init PROVE SeenIsKnown /\ NewsKeepsMoving
        BY DEF Spread
    <2>1. ASSUME NEW n \in Node, NEW i \in Unconditional PROVE i \notin seen[n] /\ ~Knows(n, i)
        BY DEF Init, Knows
    <2>2. QED
        BY <2>1 DEF SeenIsKnown, NewsKeepsMoving
<1>2. IInv /\ Spread /\ [Next]_vars => Spread'
    <2> SUFFICES ASSUME IInv, Spread, [Next]_vars PROVE Spread'
        OBVIOUS
    <2>1. CASE UNCHANGED vars
        BY <2>1 DEF vars, tables, Spread, SeenIsKnown, NewsKeepsMoving, Knows, OnItsWay,
           Unconditional
    <2>2. CASE Input
        BY <2>2, CreateSpreads, ReactSpreads, ProfileSpreads DEF Input
    <2>3. CASE Work
        <3>1. ASSUME NEW d \in net, Receive(d[1], d[2]) PROVE Spread'
            <4>1. d = <<d[1], d[2]>> /\ d[1] \in Node /\ d[2] \in Message
                BY DEF IInv, TypeOK
            <4>2. QED
                BY <3>1, <4>1, ReceiveSpreads
        <3>2. QED
            BY <2>3, <3>1, BroadcastSpreads DEF Work
    <2>4. CASE \E n \in Node : Restart(n)
        <3>1. restarts' = restarts + 1 /\ restarts \in Nat
            BY <2>4, RelayAssumption DEF Restart, IInv, TypeOK, RelayAssumption
        <3>2. QED
            BY <3>1 DEF Spread
    <2>5. QED
        BY <2>1, <2>2, <2>3, <2>4 DEF Next
<1>3. QED
    BY <1>1, <1>2, Invariance, PTL DEF Spec

\* As long as no node restarts, a silent network is one in which every node
\* stores the posts without parents, and has heard of the removals, of all
\* those from which there is a way to it.  Of updates of the profile, and of
\* what a node may be unable to apply, it says nothing.
THEOREM NewsAlwaysGetsRound == Spec => []NewsGotRound
<1>1. IInv /\ Spread => NewsGotRound
    <2> SUFFICES ASSUME IInv, Spread, restarts = 0, Silent,
                        NEW n \in Node, NEW k \in Reachable(n), NEW i \in Unconditional,
                        Knows(n, i)
                 PROVE  Knows(k, i)
        BY DEF NewsGotRound
    <2> DEFINE S == {a \in Node : Knows(a, i)}
    <2>1. n \in S /\ S \in SUBSET Node
        OBVIOUS
    <2>2. ASSUME NEW a \in S PROVE Reach[a] \subseteq S
        <3>1. Reach[a] \subseteq Node
            BY RelayAssumption DEF RelayAssumption
        <3>2. \A b \in Reach[a] : ~OnItsWay(a, b, i)
            BY DEF OnItsWay, Silent
        <3>3. QED
            BY <3>1, <3>2 DEF Spread, NewsKeepsMoving
    <2>3. k \in S
        BY <2>1, <2>2 DEF Reachable
    <2>4. QED
        BY <2>3
<1>2. QED
    BY <1>1, Invariance, SpreadInvariant, PTL

-----------------------------------------------------------------------------
(* No storm goes on for ever.  Each step of the loops uses something up that *)
(* only the users and restarts can bring back: first what the nodes have not *)
(* seen yet, then what they have to send, then what is on its way.  With     *)
(* finitely many nodes and publications there is no endless chain of such    *)
(* steps, so that the fairness of the loops is enough for StormsEnd.         *)

Unseen == {d \in Node \X Ids : d[2] \notin seen[d[1]]}

Unsent == {d \in Node \X Message : d[2] \in outbox[d[1]]}

Smaller(S, T) == S \subseteq T /\ S # T

WearsOut ==
    \/ Smaller(Unseen', Unseen)
    \/ Unseen' = Unseen /\ Smaller(Unsent', Unsent)
    \/ Unseen' = Unseen /\ Unsent' = Unsent /\ Smaller(net', net)

LEMMA EachWorkWears ==
    ASSUME IInv, Work
    PROVE  WearsOut
<1>1. ASSUME NEW n \in Node, NEW m \in outbox[n], Broadcast(n, m) PROVE WearsOut
    <2>1. Unseen' = Unseen
        BY <1>1 DEF Unseen, Broadcast
    <2>2. outbox' = [outbox EXCEPT ![n] = @ \ {m}] /\ m \in Message
        BY <1>1 DEF Broadcast, IInv, TypeOK
    <2>3. Unsent' \subseteq Unsent
        BY <2>2 DEF Unsent, IInv, TypeOK
    <2>4. <<n, m>> \in Unsent /\ <<n, m>> \notin Unsent'
        BY <2>2 DEF Unsent, IInv, TypeOK
    <2>5. QED
        BY <2>1, <2>3, <2>4 DEF WearsOut, Smaller
<1>2. ASSUME NEW n \in Node, NEW m \in Message, <<n, m>> \in net, Receive(n, m)
      PROVE  WearsOut
    <2>1. seen' = [seen EXCEPT ![n] = @ \union {Id(m)}] /\ Id(m) \in Ids
        BY <1>2, Kinds DEF Receive, MarkSeen
    <2>2. Unseen' \subseteq Unseen
        BY <2>1 DEF Unseen, IInv, TypeOK
    <2>3. CASE Fresh(n, m)
        <3>1. <<n, Id(m)>> \in Unseen /\ <<n, Id(m)>> \notin Unseen'
            BY <2>1, <2>3 DEF Fresh, Unseen, IInv, TypeOK
        <3>2. QED
            BY <2>2, <3>1 DEF WearsOut, Smaller
    <2>4. CASE ~Fresh(n, m)
        <3>1. seen' = seen
            BY <2>1, <2>4 DEF Fresh, IInv, TypeOK
        <3>2. outbox' = outbox /\ net' = net \ {<<n, m>>}
            BY <1>2, <2>4 DEF Receive
        <3>3. Unseen' = Unseen /\ Unsent' = Unsent
            BY <3>1, <3>2 DEF Unseen, Unsent
        <3>4. QED
            BY <1>2, <3>2, <3>3 DEF WearsOut, Smaller
    <2>5. QED
        BY <2>3, <2>4
<1>3. ASSUME NEW d \in net, Receive(d[1], d[2]) PROVE WearsOut
    <2>1. d = <<d[1], d[2]>> /\ d[1] \in Node /\ d[2] \in Message
        BY DEF IInv, TypeOK
    <2>2. QED
        BY <1>2, <1>3, <2>1
<1>4. QED
    BY <1>1, <1>3 DEF Work

\* A broadcast empties the outbox; a message that was received either is the
\* first of its id that the node sees, or it is gone without a trace.
THEOREM WorkWearsOut == Spec => [][Work => WearsOut]_vars
<1>1. IInv /\ [Next]_vars => [Work => WearsOut]_vars
    BY EachWorkWears
<1>2. QED
    BY <1>1, Invariance, PTL DEF Spec

=============================================================================

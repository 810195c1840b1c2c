--------------------------------- MODULE Relay ---------------------------------
(***************************************************************************)
(* How news travels from node to node: every node applies the posts,       *)
(* reactions and profile updates that it receives and passes each message  *)
(* on once, as far as its cache of seen message ids can tell.              *)
(*                                                                         *)
(* One user reacts to one post, and one user changes his profile; the      *)
(* nodes have the thread and the rows of both users.  A message is its     *)
(* kind and the number of the publication, which stands for its time stamp *)
(* and content.  Of a profile one field is kept.                           *)
(*                                                                         *)
(* The gossip layer (external) delivers a broadcast to the nodes that the  *)
(* sender reaches, in any order with others; a node that restarts loses    *)
(* what is on its way to it.                                               *)
(***************************************************************************)
EXTENDS Integers, FiniteSets

CONSTANTS
    Node,
    Reach,       \* Reach[n]: the nodes that a broadcast of n gets to
    Post,
    Parents,     \* Parents[p]: the posts that p replies to
    Author,      \* Author[p]: the node whose user writes p
    Liked,       \* the post that is reacted to
    Reactor,     \* the node whose user reacts
    Owner,       \* the node whose user changes the profile
    MaxNews,     \* bound: publications
    MaxRestarts  \* bound: restarts

ASSUME RelayAssumption ==
    /\ Reach \in [Node -> SUBSET Node]
    /\ Parents \in [Post -> SUBSET Post]
    /\ Author \in [Post -> Node]
    /\ Liked \in Post
    /\ Reactor \in Node
    /\ Owner \in Node
    /\ MaxNews \in Nat
    /\ MaxRestarts \in Nat

\* The numbers of the publications; 0 is none.
Number == 1..MaxNews

\* PostUpdate, ReactionUpdate and ProfileUpdate.
PostUpdate == [kind : {"post"}, post : Post]
ReactionUpdate == [kind : {"reaction"}, removal : BOOLEAN, number : Number]
ProfileUpdate == [kind : {"profile"}, number : Number]

Message == PostUpdate \union ReactionUpdate \union ProfileUpdate

VARIABLES
    posts,     \* posts[n]: the posts that n stores
    linked,    \* linked[n]: those whose edges to their parents n stores
    reaction,  \* reaction[n]: the number of the reaction in n's table, or 0
    profile,   \* profile[n]: the number of the update that n applied last
    seen,      \* seen[n]: the ids in n's cache of seen messages
    outbox,    \* outbox[n]: the messages that n is to broadcast
    net,       \* the messages on their way: <<node, message>>
    news,      \* how many publications there were
    log,       \* history: the reactions as the user made them
    relays,    \* history: how often n put a message with an id on the network
               \* for others since its start; 2 is more than once
    restarts   \* how many restarts there were

tables == <<posts, linked, reaction, profile>>
vars == <<tables, seen, outbox, net, news, log, relays, restarts>>

\* The id under which a message is remembered: a post has its own, a reaction
\* that of its reactor and direction, a profile update that of its owner.
Id(m) ==
    IF m.kind = "post" THEN m
    ELSE IF m.kind = "reaction"
    THEN [kind |-> "reaction", removal |-> m.removal]
    ELSE [kind |-> "profile"]

Ids == {Id(m) : m \in Message}

TypeOK ==
    /\ posts \in [Node -> SUBSET Post]
    /\ linked \in [Node -> SUBSET Post]
    /\ reaction \in [Node -> 0..MaxNews]
    /\ profile \in [Node -> 0..MaxNews]
    /\ seen \in [Node -> SUBSET Ids]
    /\ outbox \in [Node -> SUBSET Message]
    /\ net \subseteq Node \X Message
    /\ news \in 0..MaxNews
    /\ log \subseteq ReactionUpdate
    /\ relays \in [Node -> [Ids -> 0..2]]
    /\ restarts \in 0..MaxRestarts

Init ==
    /\ posts = [n \in Node |-> {}]
    /\ linked = [n \in Node |-> {}]
    /\ reaction = [n \in Node |-> 0]
    /\ profile = [n \in Node |-> 0]
    /\ seen = [n \in Node |-> {}]
    /\ outbox = [n \in Node |-> {}]
    /\ net = {}
    /\ news = 0
    /\ log = {}
    /\ relays = [n \in Node |-> [i \in Ids |-> 0]]
    /\ restarts = 0

-----------------------------------------------------------------------------
(* What the users do: the tables first, then the broadcast.                *)

Publish(n, m) ==
    /\ news < MaxNews
    /\ news' = news + 1
    /\ outbox' = [outbox EXCEPT ![n] = @ \union {m}]

CreatePost(p) ==
    LET n == Author[p] IN
    /\ p \notin posts[n]
    /\ Parents[p] \subseteq posts[n]
    /\ posts' = [posts EXCEPT ![n] = @ \union {p}]
    /\ linked' = [linked EXCEPT ![n] = @ \union {p}]
    /\ Publish(n, [kind |-> "post", post |-> p])
    /\ UNCHANGED <<reaction, profile, seen, net, log, relays, restarts>>

\* add_reaction and remove_reaction; the row refers to the post.
React(removal) ==
    LET m == [kind |-> "reaction", removal |-> removal, number |-> news + 1] IN
    /\ Liked \in posts[Reactor]
    /\ reaction' = [reaction EXCEPT ![Reactor] = IF removal THEN 0 ELSE news + 1]
    /\ log' = log \union {m}
    /\ Publish(Reactor, m)
    /\ UNCHANGED <<posts, linked, profile, seen, net, relays, restarts>>

UpdateProfile ==
    /\ profile' = [profile EXCEPT ![Owner] = news + 1]
    /\ Publish(Owner, [kind |-> "profile", number |-> news + 1])
    /\ UNCHANGED <<posts, linked, reaction, seen, net, log, relays, restarts>>

-----------------------------------------------------------------------------
(* The event loop and the ingest loop.                                     *)

\* broadcast_to_topic.
Broadcast(n, m) ==
    /\ outbox' = [outbox EXCEPT ![n] = @ \ {m}]
    /\ net' = net \union (Reach[n] \X {m})
    /\ UNCHANGED <<tables, seen, news, log, relays, restarts>>

\* Mutant: every message is news.
Forgetful(n, m) == TRUE

\* Mutant: the cache is asked after the id was put in.
AlreadyMarked(n, m) == FALSE

\* mark_seen: whether m is new; the cache is never full (65,536 ids).
Fresh(n, m) == Id(m) \notin seen[n]

\* Mutant: the whole message is remembered.
MarkWhole(n, m) == seen' = [seen EXCEPT ![n] = @ \union {m}]

MarkSeen(n, m) == seen' = [seen EXCEPT ![n] = @ \union {Id(m)}]

\* Whether m can be applied at n; if it cannot, the handler ends there.  The
\* edges of a post and the row of a reaction refer to posts.
Applies(n, m) ==
    /\ m.kind = "post" => Parents[m.post] \subseteq posts[n]
    /\ m.kind = "reaction" => m.removal \/ Liked \in posts[n]

ApplyPost(n, p) ==
    /\ posts' = [posts EXCEPT ![n] = @ \union {p}]
    /\ linked' = IF Parents[p] \subseteq posts[n]
                 THEN [linked EXCEPT ![n] = @ \union {p}]
                 ELSE linked
    /\ UNCHANGED <<reaction, profile>>

\* Mutant: a reaction is stored without its post.
ApplyReactionAnyway(n, m) ==
    /\ reaction' = [reaction EXCEPT ![n] = IF m.removal THEN 0 ELSE m.number]
    /\ UNCHANGED <<posts, linked, profile>>

ApplyReaction(n, m) ==
    /\ reaction' = [reaction EXCEPT ![n] =
                        IF m.removal THEN 0
                        ELSE IF Liked \in posts[n] THEN m.number
                        ELSE @]
    /\ UNCHANGED <<posts, linked, profile>>

ApplyProfile(n, m) ==
    /\ profile' = [profile EXCEPT ![n] = m.number]
    /\ UNCHANGED <<posts, linked, reaction>>

\* handle_message: marked as seen first, then applied, then passed on if it
\* was new.
Receive(n, m) ==
    /\ net' = net \ {<<n, m>>}
    /\ MarkSeen(n, m)
    /\ \/ m.kind = "post" /\ ApplyPost(n, m.post)
       \/ m.kind = "reaction" /\ ApplyReaction(n, m)
       \/ m.kind = "profile" /\ ApplyProfile(n, m)
    /\ IF Fresh(n, m) /\ Applies(n, m)
       THEN /\ outbox' = [outbox EXCEPT ![n] = @ \union {m}]
            /\ relays' = [relays EXCEPT ![n][Id(m)] = IF @ = 0 THEN 1 ELSE 2]
       ELSE UNCHANGED <<outbox, relays>>
    /\ UNCHANGED <<news, log, restarts>>

\* The cache, the channels and the tasks are lost, the tables are not; some
\* of what is on its way arrives after the restart.
Restart(n) ==
    /\ restarts < MaxRestarts
    /\ restarts' = restarts + 1
    /\ seen' = [seen EXCEPT ![n] = {}]
    /\ outbox' = [outbox EXCEPT ![n] = {}]
    /\ relays' = [relays EXCEPT ![n] = [i \in Ids |-> 0]]
    /\ \E lost \in SUBSET {d \in net : d[1] = n} : net' = net \ lost
    /\ UNCHANGED <<tables, news, log>>

Input ==
    \/ \E p \in Post : CreatePost(p)
    \/ \E removal \in BOOLEAN : React(removal)
    \/ UpdateProfile

Work ==
    \/ \E n \in Node : \E m \in outbox[n] : Broadcast(n, m)
    \/ \E d \in net : Receive(d[1], d[2])

Next == Input \/ Work \/ \E n \in Node : Restart(n)

Spec == Init /\ [][Next]_vars

\* The loops of the nodes and the gossip layer go on for as long as something
\* is in an outbox or on its way.  That no message is passed over for ever
\* need not be assumed: StormsEnd.
Fairness == WF_vars(Work)

LiveSpec == Spec /\ Fairness

-----------------------------------------------------------------------------
(* Properties.                                                             *)

\* A node shows a reaction only to a post that it stores, and only one that
\* the user did make, whichever messages are repeated, overtaken or applied
\* after a removal.
ReactionsAreGenuine ==
    \A n \in Node : reaction[n] # 0 =>
        /\ Liked \in posts[n]
        /\ [kind |-> "reaction", removal |-> FALSE, number |-> reaction[n]] \in log

\* "A message is relayed once": between two starts, no node passes on two
\* messages with one id, whatever comes back to it over loops of the network.
RelayedOnce == \A n \in Node, i \in Ids : relays[n][i] <= 1

Silent == net = {} /\ \A n \in Node : outbox[n] = {}

\* The ids that stand for one piece of news each, and one that every node
\* applies, whatever it stores: posts without parents, and removals of the
\* reaction.  The id of a profile stands for all its updates.
Unconditional ==
    {i \in Ids : \/ i.kind = "post" /\ Parents[i.post] = {}
                 \/ i.kind = "reaction" /\ i.removal}

Knows(n, i) ==
    \/ i.kind = "post" /\ i.post \in posts[n]
    \/ i.kind = "reaction" /\ (i \in seen[n] \/ (n = Reactor /\ \E m \in log : m.removal))

\* The nodes to which there is a way from n, over any number of others.
Reachable(n) ==
    {k \in Node : \A S \in SUBSET Node :
        n \in S /\ (\A a \in S : Reach[a] \subseteq S) => k \in S}

\* The flood leaves nobody out: with every message passed on only once, and in
\* whatever order they come, as long as no node restarts, a silent network is
\* one in which all that can be reached from a node have its posts without
\* parents and have heard of the removals it has heard of.  (Of profiles it says
\* nothing: a second change of one stops at the nodes next to its owner, since
\* it has the id of the first.)
NewsGotRound ==
    restarts = 0 /\ Silent =>
        \A n \in Node : \A k \in Reachable(n), i \in Unconditional :
            Knows(n, i) => Knows(k, i)

\* When the users stop, the network falls silent: nothing goes round for ever.
StormsEnd == <>[]Silent

\* Once the restarts are over, news that no node has heard of yet reaches all
\* nodes over the others (Reach has to lead everywhere): a post without
\* parents; a reaction, when all store the post and nobody removes it; an
\* update of the profile, or a later one, if it is the first that is relayed
\* and no other is under way: what every node ends up with is not older.
NewsSpreads ==
    LET Sent(n, m) ==
            /\ restarts = MaxRestarts
            /\ m \in outbox[n]
            /\ \A k \in Node : Id(m) \notin seen[k]
        Alone(v) ==
            \A m \in ProfileUpdate :
                (\E n \in Node : m \in outbox[n] \/ <<n, m>> \in net) => m.number >= v
    IN
    /\ \A p \in {q \in Post : Parents[q] = {}} :
         Sent(Author[p], [kind |-> "post", post |-> p]) ~> \A n \in Node : p \in posts[n]
    /\ (/\ \A n \in Node : Liked \in posts[n]
        /\ \E m \in ReactionUpdate : ~m.removal /\ Sent(Reactor, m))
       ~> ((\E m \in log : m.removal) \/ \A n \in Node : reaction[n] # 0)
    /\ \A v \in Number :
         (/\ Sent(Owner, [kind |-> "profile", number |-> v])
          /\ Alone(v))
         ~> [](\A n \in Node : profile[n] >= v)
=============================================================================

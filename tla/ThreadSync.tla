------------------------------ MODULE ThreadSync ------------------------------
(***************************************************************************)
(* Replication of one discussion thread between the nodes of the network:  *)
(* the thread row, its posts, the reply edges and the download ticket that *)
(* every node keeps in SQLite, the gossip that carries announcements and   *)
(* post updates, and the background work (on-demand download, automatic    *)
(* re-sync, multi-step post creation) that runs beside the ingest loop.    *)
(*                                                                         *)
(* Abstractions.  A post is a model value whose content never changes, so  *)
(* a thread hash, which digests the ids and bodies of a list of posts, is  *)
(* the set of those posts.  A blob ticket names one serialised snapshot,   *)
(* so it is that snapshot.  Messages are never removed: a node may receive *)
(* one late, repeatedly, in any order, or never, which covers loss,        *)
(* duplication, relaying by other nodes and re-delivery after a restart.   *)
(* Every with_repositories closure runs under the connection mutex and is  *)
(* one step; what a handler does in another closure is another step.       *)
(***************************************************************************)
EXTENDS Integers, FiniteSets

CONSTANTS
    Node,         \* the peers
    Creator,      \* the peer on which the thread is created
    Post,         \* the posts anybody may write in the thread
    Op,           \* the opening post
    Preview,      \* the placeholder post stored with an announcement
    Author,       \* Author[p]: the peer whose user writes p
    Parents,      \* Parents[p]: the entries that p replies to
    Rank,         \* Rank[e]: the created_at of an entry, by its author's clock
    Deleters,     \* the peers whose user may delete the thread
    Restarters,   \* the peers that may crash or restart
    MaxDownloads  \* MaxDownloads[n]: bound on the download requests of peer n
                  \* in flight at once (0: its user never downloads)

Entry == Post \union {Preview}

Snapshot == [posts : SUBSET Entry, linked : SUBSET Post]

ASSUME ConstantsAssumption ==
    /\ Creator \in Node
    /\ Op \in Post
    /\ Preview \notin Post
    /\ Author \in [Post -> Node]
    /\ Author[Op] = Creator
    /\ Parents \in [Post -> SUBSET Entry]
    /\ Parents[Op] = {}
    /\ Rank \in [Entry -> Int]
    /\ Deleters \subseteq Node
    /\ Restarters \subseteq Node
    /\ MaxDownloads \in [Node -> Nat]

VARIABLES
    thread,     \* thread[n]: the row of table threads (sync_status, thread_hash)
    posts,      \* posts[n]: the rows of table posts
    linked,     \* linked[n]: the replies whose edges are in post_relationships
    ticket,     \* ticket[n]: the row of table thread_tickets
    subscribed, \* subscribed[n]: whether n receives the thread's gossip topic
    due,        \* due[n]: the posts others broadcast while n was subscribed,
                \* since it last started: gossip keeps nothing for later
    stage,      \* stage[p]: how far the API handler that creates p has come
    downloads,  \* downloads[n]: the download requests in flight
    resyncs,    \* resyncs[n]: the spawned re-sync tasks, by their ticket
    announced,  \* the snapshots announced so far
    updates     \* the post updates broadcast so far

store == <<thread, posts, linked, ticket>>
tasks == <<stage, downloads, resyncs>>
gossip == <<subscribed, due, announced, updates>>
vars == <<store, tasks, gossip>>

\* A nullable column is the set of its value: {} is NULL, {v} is v.
Nullable(S) == {{}} \union {{v} : v \in S}

Hash == Nullable(SUBSET Entry)
Update == [post : Post, hash : Hash]
Download == [step : {"fetching", "applied"}, snap : Snapshot]
Stage == {"none", "inserted", "published", "done"}

TypeOK ==
    /\ thread \in [Node -> [status : {"absent", "announced", "downloaded"},
                            hash   : Hash]]
    /\ posts \in [Node -> SUBSET Entry]
    /\ linked \in [Node -> SUBSET Post]
    /\ ticket \in [Node -> Nullable(Snapshot)]
    /\ subscribed \in [Node -> BOOLEAN]
    /\ due \in [Node -> SUBSET Post]
    /\ stage \in [Post -> Stage]
    /\ downloads \in [Node -> SUBSET Download]
    /\ resyncs \in [Node -> SUBSET Snapshot]
    /\ announced \subseteq Snapshot
    /\ updates \subseteq Update

NoThread == [status |-> "absent", hash |-> {}]

Init ==
    /\ thread = [n \in Node |-> NoThread]
    /\ posts = [n \in Node |-> {}]
    /\ linked = [n \in Node |-> {}]
    /\ ticket = [n \in Node |-> {}]
    /\ subscribed = [n \in Node |-> FALSE]
    /\ due = [n \in Node |-> {}]
    /\ stage = [p \in Post |-> "none"]
    /\ downloads = [n \in Node |-> {}]
    /\ resyncs = [n \in Node |-> {}]
    /\ announced = {}
    /\ updates = {}

HasThread(n) == thread[n].status # "absent"

\* Mutant: the reply edges are left out of the snapshot.
SnapshotWithoutEdges(n) == [posts |-> posts[n]]

\* get_thread: the snapshot that is serialised into a blob and announced.
SnapshotOf(n) == [posts |-> posts[n], linked |-> linked[n]]

-----------------------------------------------------------------------------
(* Creating the thread and writing posts.                                  *)

\* The thread row carries no hash, and no later local write gives it one.
CreateThread ==
    /\ stage[Op] = "none"
    /\ stage' = [stage EXCEPT ![Op] = "inserted"]
    /\ thread' = [thread EXCEPT
          ![Creator] = [status |-> "downloaded", hash |-> {}]]
    /\ posts' = [posts EXCEPT ![Creator] = {Op}]
    /\ UNCHANGED <<linked, ticket, downloads, resyncs, gossip>>

\* What is announced is the snapshot read when the thread was created.
AnnounceThread ==
    /\ stage[Op] = "inserted"
    /\ stage' = [stage EXCEPT ![Op] = "done"]
    /\ announced' = announced \union {[posts |-> {Op}, linked |-> {}]}
    /\ subscribed' = [subscribed EXCEPT ![Creator] = TRUE]
    /\ UNCHANGED <<store, downloads, resyncs, due, updates>>

\* The row is stored first; if an edge then breaks a foreign key, the request
\* fails with the row in place and nothing is ever broadcast.
CreatePost(p) ==
    LET n == Author[p]
        parentsKnown == Parents[p] \subseteq posts[n]
    IN  /\ p # Op
        /\ stage[p] = "none"
        /\ HasThread(n)
        /\ posts' = [posts EXCEPT ![n] = @ \union {p}]
        /\ linked' = [linked EXCEPT
              ![n] = IF parentsKnown THEN @ \union {p} ELSE @]
        /\ stage' = [stage EXCEPT
              ![p] = IF parentsKnown THEN "inserted" ELSE "done"]
        /\ UNCHANGED <<thread, ticket, downloads, resyncs, gossip>>

\* A second closure reads the posts that the broadcast hash digests.
PublishUpdate(p) ==
    LET n == Author[p]
        hash == IF HasThread(n) THEN {posts[n]} ELSE {}
    IN  /\ p # Op
        /\ stage[p] = "inserted"
        /\ stage' = [stage EXCEPT ![p] = "published"]
        /\ updates' = updates \union {[post |-> p, hash |-> hash]}
        /\ due' = [m \in Node |->
              IF subscribed[m] /\ m # n THEN due[m] \union {p} ELSE due[m]]
        /\ UNCHANGED <<store, downloads, resyncs, subscribed, announced>>

\* A third one reads the snapshot that the re-announcement offers.
Reannounce(p) ==
    LET n == Author[p]
    IN  /\ stage[p] = "published"
        /\ stage' = [stage EXCEPT ![p] = "done"]
        /\ announced' = IF HasThread(n) THEN announced \union {SnapshotOf(n)}
                                        ELSE announced
        /\ subscribed' = [subscribed EXCEPT ![n] = @ \/ HasThread(n)]
        /\ UNCHANGED <<store, downloads, resyncs, due, updates>>

-----------------------------------------------------------------------------
(* The ingest loop.                                                        *)

InSync(n, s) == HasThread(n) /\ thread[n].hash = {s.posts}

\* A thread with a different recorded hash: only the row's hash and the
\* ticket change; the posts wait for the user to download again.
NoteNewVersion(n, s) ==
    /\ HasThread(n)
    /\ thread[n].hash \notin {{}, {s.posts}}
    /\ thread' = [thread EXCEPT ![n].hash = {s.posts}]
    /\ ticket' = [ticket EXCEPT ![n] = {s}]
    /\ UNCHANGED <<posts, linked>>

\* Mutant: the placeholder replaces what was stored.
OnlyPlaceholder(n) == {Preview}

WithPlaceholder(n) == posts[n] \union {Preview}

\* A thread that is unknown, or known without a hash, becomes "announced".
StoreAnnouncement(n, s) ==
    /\ ~HasThread(n) \/ thread[n].hash = {}
    /\ thread' = [thread EXCEPT
          ![n] = [status |-> "announced", hash |-> {s.posts}]]
    /\ posts' = [posts EXCEPT ![n] = WithPlaceholder(n)]
    /\ ticket' = [ticket EXCEPT ![n] = {s}]
    /\ UNCHANGED linked

ReceiveAnnouncement(n, s) ==
    /\ s \in announced
    /\ \/ InSync(n, s) /\ UNCHANGED store
       \/ NoteNewVersion(n, s)
       \/ StoreAnnouncement(n, s)
    /\ UNCHANGED <<tasks, gossip>>

\* The hash is compared with the posts stored before this one.
Mismatch(n, u) == u.hash \notin {{}, {posts[n]}}

\* Mutant: updates whose parents are missing are skipped.
AcceptsWithParents(n, u) ==
    /\ subscribed[n]
    /\ HasThread(n)
    /\ Parents[u.post] \subseteq posts[n]

\* An update for an unknown thread is skipped.
Accepts(n, u) == subscribed[n] /\ HasThread(n)

\* A missing parent breaks the foreign key after the row is stored: the
\* handler returns the error, and the re-sync request it had built is lost.
ReceiveUpdate(n, u) ==
    LET parentsKnown == Parents[u.post] \subseteq posts[n] \union {u.post}
        resync == parentsKnown /\ Mismatch(n, u) /\ ticket[n] # {}
    IN  /\ u \in updates
        /\ Accepts(n, u)
        /\ posts' = [posts EXCEPT ![n] = @ \union {u.post}]
        /\ linked' = [linked EXCEPT
              ![n] = IF parentsKnown THEN @ \union {u.post} ELSE @]
        /\ resyncs' = [resyncs EXCEPT
              ![n] = IF resync THEN @ \union ticket[n] ELSE @]
        /\ UNCHANGED <<thread, ticket, stage, downloads, gossip>>

-----------------------------------------------------------------------------
(* Applying a snapshot.                                                    *)

\* The replies of s whose insertion breaks a foreign key: a parent sorts after
\* them (another clock wrote it) and is not stored yet.
Orphans(n, s) ==
    {p \in s.linked : \E q \in Parents[p] :
        /\ q \notin posts[n] \ {Preview}
        /\ Rank[q] > Rank[p]}

\* The posts are upserted by created_at up to the first orphan, whose own row
\* is stored before its edges fail.
StoredFrom(n, s) ==
    {p \in s.posts : \A f \in Orphans(n, s) : Rank[p] <= Rank[f]}

LinkedFrom(n, s) ==
    {p \in s.linked : \A f \in Orphans(n, s) : Rank[p] < Rank[f]}

\* Mutant: the recorded hash is that of the merged posts.
MergedHash(n, s) == posts[n] \union s.posts

\* The hash written to the thread row is that of the snapshot.
AppliedHash(n, s) == s.posts

\* Mutant: the snapshot replaces the stored posts.
ReplacedPosts(n, s) == StoredFrom(n, s)

\* The placeholder is deleted and the posts of the snapshot are upserted.
MergedPosts(n, s) == (posts[n] \ {Preview}) \union StoredFrom(n, s)

\* Mutant: deleting the placeholder leaves the edges to it.
AllEdges(n) == linked[n]

\* Deleting the placeholder cascades to the edges of the replies to it.
KeptEdges(n) == {p \in linked[n] : Preview \notin Parents[p]}

\* The row is written before the posts and there is no transaction.
ApplySnapshot(n, s) ==
    /\ thread' = [thread EXCEPT
          ![n] = [status |-> "downloaded", hash |-> {AppliedHash(n, s)}]]
    /\ posts' = [posts EXCEPT ![n] = MergedPosts(n, s)]
    /\ linked' = [linked EXCEPT ![n] = KeptEdges(n) \union LinkedFrom(n, s)]
    /\ UNCHANGED ticket

\* Mutant: the handler takes the ticket out of the table.
TakeTicket(n) ==
    /\ ticket[n] # {}
    /\ Cardinality(downloads[n]) < MaxDownloads[n]
    /\ downloads' = [downloads EXCEPT
          ![n] = @ \union {[step |-> "fetching", snap |-> s] : s \in ticket[n]}]
    /\ ticket' = [ticket EXCEPT ![n] = {}]
    /\ UNCHANGED <<thread, posts, linked, stage, resyncs, gossip>>

\* The user asks for the thread: the handler reads the ticket, then awaits.
StartDownload(n) ==
    /\ ticket[n] # {}
    /\ Cardinality(downloads[n]) < MaxDownloads[n]
    /\ downloads' = [downloads EXCEPT
          ![n] = @ \union {[step |-> "fetching", snap |-> s] : s \in ticket[n]}]
    /\ UNCHANGED <<store, stage, resyncs, gossip>>

\* The blob has arrived and its snapshot is applied, with the subscription
\* that follows.  A broken foreign key ends the request.
ApplyDownload(n, d) ==
    LET ok == Orphans(n, d.snap) = {}
        rest == downloads[n] \ {d}
        applied == [step |-> "applied", snap |-> d.snap]
    IN  /\ d \in downloads[n]
        /\ d.step = "fetching"
        /\ ApplySnapshot(n, d.snap)
        /\ downloads' = [downloads EXCEPT
              ![n] = IF ok THEN rest \union {applied} ELSE rest]
        /\ subscribed' = [subscribed EXCEPT ![n] = @ \/ ok]
        /\ UNCHANGED <<stage, resyncs, due, announced, updates>>

\* The last closure deletes the ticket, whichever it is by now.
FinishDownload(n, d) ==
    /\ d \in downloads[n]
    /\ d.step = "applied"
    /\ downloads' = [downloads EXCEPT ![n] = @ \ {d}]
    /\ ticket' = [ticket EXCEPT ![n] = {}]
    /\ subscribed' = [subscribed EXCEPT ![n] = TRUE]
    /\ UNCHANGED <<thread, posts, linked, stage, resyncs, due, announced, updates>>

\* The provider is unreachable or the blob is invalid.
FailDownload(n, d) ==
    /\ d \in downloads[n]
    /\ downloads' = [downloads EXCEPT ![n] = @ \ {d}]
    /\ UNCHANGED <<store, stage, resyncs, gossip>>

RunResync(n, s) ==
    /\ s \in resyncs[n]
    /\ ApplySnapshot(n, s)
    /\ resyncs' = [resyncs EXCEPT ![n] = @ \ {s}]
    /\ UNCHANGED <<stage, downloads, gossip>>

FailResync(n, s) ==
    /\ s \in resyncs[n]
    /\ resyncs' = [resyncs EXCEPT ![n] = @ \ {s}]
    /\ UNCHANGED <<store, stage, downloads, gossip>>

-----------------------------------------------------------------------------
(* Deleting the thread and restarting a node.                              *)

\* Mutant: the connection does not enforce foreign keys.
DeleteRowOnly(n) ==
    /\ n \in Deleters
    /\ HasThread(n)
    /\ thread' = [thread EXCEPT ![n] = NoThread]
    /\ UNCHANGED <<posts, linked, ticket, tasks, gossip>>

\* The foreign keys cascade to the posts, their edges and the ticket; the
\* subscription and the tasks in flight go on.
DeleteThread(n) ==
    /\ n \in Deleters
    /\ HasThread(n)
    /\ thread' = [thread EXCEPT ![n] = NoThread]
    /\ posts' = [posts EXCEPT ![n] = {}]
    /\ linked' = [linked EXCEPT ![n] = {}]
    /\ ticket' = [ticket EXCEPT ![n] = {}]
    /\ UNCHANGED <<tasks, gossip>>

\* The database survives; handlers and tasks die where they stand, and the
\* node subscribes again to the threads it has.
Restart(n) ==
    /\ n \in Restarters
    /\ stage' = [p \in Post |->
          IF Author[p] = n /\ stage[p] \in {"inserted", "published"}
          THEN "done" ELSE stage[p]]
    /\ downloads' = [downloads EXCEPT ![n] = {}]
    /\ resyncs' = [resyncs EXCEPT ![n] = {}]
    /\ subscribed' = [subscribed EXCEPT ![n] = HasThread(n)]
    /\ due' = [due EXCEPT ![n] = {}]
    /\ UNCHANGED <<store, announced, updates>>

-----------------------------------------------------------------------------
Write ==
    \/ CreateThread
    \/ AnnounceThread
    \/ \E p \in Post : CreatePost(p) \/ PublishUpdate(p) \/ Reannounce(p)

Ingest(n) ==
    \/ \E s \in announced : ReceiveAnnouncement(n, s)
    \/ \E u \in updates : ReceiveUpdate(n, u)

Fetch(n) ==
    \/ StartDownload(n)
    \/ \E d \in downloads[n] :
          ApplyDownload(n, d) \/ FinishDownload(n, d) \/ FailDownload(n, d)
    \/ \E s \in resyncs[n] : RunResync(n, s) \/ FailResync(n, s)

Next ==
    \/ Write
    \/ \E n \in Node : Ingest(n) \/ Fetch(n) \/ DeleteThread(n) \/ Restart(n)

Spec == Init /\ [][Next]_vars

\* A broadcast reaches who is subscribed then and keeps running.  The user of a
\* node keeps asking for a thread that is only announced, and the provider is
\* not unreachable for ever.
Delivery ==
    \A n \in Node, p \in Post :
        WF_vars(/\ p \in due[n]
                /\ \E u \in updates : u.post = p /\ ReceiveUpdate(n, u))

Retrying ==
    \A n \in Node :
        /\ WF_vars(StartDownload(n))
        /\ SF_vars(\E d \in downloads[n] : ApplyDownload(n, d))

LiveSpec == Spec /\ Delivery /\ Retrying

-----------------------------------------------------------------------------
(* Safety.                                                                 *)

\* No row outlives the thread row, and a stored reply edge has both ends: the
\* foreign keys of posts, post_relationships and thread_tickets, through the
\* cascading delete, updates that overtake their parents, and snapshots that
\* are applied halfway.
ForeignKeysHold ==
    \A n \in Node :
        /\ ~HasThread(n) => posts[n] = {} /\ ticket[n] = {}
        /\ \A p \in linked[n] : {p} \union Parents[p] \subseteq posts[n]

\* The hash a node compares announcements with is the hash of a snapshot that
\* was announced, so "already in sync" always refers to a real version.
HashWasAnnounced ==
    \A n \in Node : thread[n].hash \subseteq {s.posts : s \in announced}

\* A thread shown as announced can be downloaded: its ticket is there.
AnnouncedIsDownloadable ==
    \A n \in Node : thread[n].status = "announced" => ticket[n] # {}

\* While a node keeps the thread it loses neither a post nor a reply edge,
\* whatever announcement, snapshot, download or re-sync it processes; only
\* the placeholder and the edges to it go.
NothingIsForgotten ==
    [][\A n \in Node : HasThread(n) /\ HasThread(n)' =>
          /\ posts[n] \ {Preview} \subseteq posts'[n]
          /\ {p \in linked[n] : Preview \notin Parents[p]} \subseteq linked'[n]
      ]_vars

\* The posts that exist.
Made == {p \in Post : stage[p] # "none"}

\* The posts that some message carries.
Shared == {u.post : u \in updates} \union UNION {s.posts \ {Preview} : s \in announced}

\* The posts that each node stores.
Held == [n \in Node |-> posts[n] \ {Preview}]

\* The node-to-node exchange implements the abstract one: a post reaches a
\* node only after its author made it and somebody put it on the network.
Exchange == INSTANCE PostExchange WITH
    made <- Made,
    shared <- Shared,
    held <- Held,
    Forgetters <- Deleters

ImplementsExchange == Exchange!Spec

-----------------------------------------------------------------------------
(* The inductive invariant: what the safety properties rest on.            *)

\* Before the thread is created nobody has it and nothing is announced.
NothingBeforeCreation ==
    stage[Op] = "none" => announced = {} /\ \A n \in Node : ~HasThread(n)

\* Whatever is stored or broadcast was made by its author.
OnlyMadePosts ==
    /\ \A n \in Node : posts[n] \ {Preview} \subseteq Made
    /\ \A u \in updates : u.post \in Made
    /\ \A s \in announced : s.posts \ {Preview} \subseteq Made

\* An announced snapshot has both ends of every edge it has.
SnapshotsAreClosed ==
    \A s \in announced : \A p \in s.linked : {p} \union Parents[p] \subseteq s.posts

\* Tickets and the tasks built from them name announced snapshots.
TicketsWereAnnounced ==
    \A n \in Node :
        /\ ticket[n] \subseteq announced
        /\ resyncs[n] \subseteq announced
        /\ \A d \in downloads[n] : d.snap \in announced

IInv ==
    /\ TypeOK
    /\ NothingBeforeCreation
    /\ OnlyMadePosts
    /\ SnapshotsAreClosed
    /\ TicketsWereAnnounced
    /\ ForeignKeysHold
    /\ HashWasAnnounced

-----------------------------------------------------------------------------
(* Liveness, under LiveSpec.                                               *)

\* A post that is broadcast while a node is subscribed is eventually stored
\* there, even if its parents are missing, unless the node restarts or loses
\* the thread first.
UpdateIsStored ==
    \A n \in Node, p \in Post :
        (p \in due[n]) ~> (p \in posts[n] \/ p \notin due[n] \/ ~HasThread(n))

\* A node whose user keeps asking eventually downloads an announced thread,
\* through failed downloads, restarts and newer announcements.
AnnouncedIsDownloaded ==
    \A n \in Node :
        (thread[n].status = "announced" /\ MaxDownloads[n] > 0)
            ~> (thread[n].status # "announced")

-----------------------------------------------------------------------------
(* What a comment in the source claims and the code breaks.                *)

\* "The actual sync will happen when user views the thread": a downloaded
\* thread whose recorded hash names posts it lacks still has a ticket.
StaleThreadCanResync ==
    \A n \in Node :
        (/\ thread[n].status = "downloaded"
         /\ \E h \in thread[n].hash : ~(h \subseteq posts[n]))
            => ticket[n] # {}
=============================================================================

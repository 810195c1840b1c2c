-------------------------- MODULE ThreadSyncProofs --------------------------
(***************************************************************************)
(* Proofs about ThreadSync for any set of nodes, any posts, authors, reply *)
(* structure and clocks.                                                   *)
(***************************************************************************)
EXTENDS ThreadSync, TLAPS

-----------------------------------------------------------------------------
(* Type correctness.                                                       *)

\* Applying a snapshot writes well-typed rows.
LEMMA ApplySnapshotType ==
    ASSUME TypeOK, NEW n \in Node, NEW s \in Snapshot, ApplySnapshot(n, s)
    PROVE  /\ thread' \in [Node -> [status : {"absent", "announced", "downloaded"},
                                    hash   : Hash]]
           /\ posts' \in [Node -> SUBSET Entry]
           /\ linked' \in [Node -> SUBSET Post]
           /\ ticket' \in [Node -> Nullable(Snapshot)]
<1>1. StoredFrom(n, s) \in SUBSET Entry /\ LinkedFrom(n, s) \in SUBSET Post
    BY DEF StoredFrom, LinkedFrom, Snapshot
<1>2. MergedPosts(n, s) \in SUBSET Entry
    BY <1>1 DEF MergedPosts, TypeOK
<1>3. KeptEdges(n) \in SUBSET Post
    BY DEF KeptEdges, TypeOK
<1>4. {AppliedHash(n, s)} \in Hash
    BY DEF AppliedHash, Hash, Nullable, Snapshot
<1>5. QED
    BY <1>1, <1>2, <1>3, <1>4 DEF ApplySnapshot, TypeOK

\* A ticket is that of a snapshot.
LEMMA TicketType ==
    ASSUME TypeOK, NEW n \in Node
    PROVE  ticket[n] \subseteq Snapshot
<1>1. ticket[n] \in Nullable(Snapshot)
    BY DEF TypeOK
<1>2. \A S : \A v \in Nullable(S) : v \subseteq S
    BY DEF Nullable
<1>3. QED
    BY <1>1, <1>2

LEMMA TypeStep == TypeOK /\ [Next]_vars => TypeOK'
<1> SUFFICES ASSUME TypeOK, [Next]_vars PROVE TypeOK'
    OBVIOUS
<1> USE ConstantsAssumption DEF ConstantsAssumption
<1>0. CASE UNCHANGED vars
    BY <1>0 DEF TypeOK, vars, store, tasks, gossip
<1>1. CASE CreateThread
    BY <1>1 DEF CreateThread, TypeOK, gossip, Entry, Hash, Nullable, Stage
<1>2. CASE AnnounceThread
    <2>1. [posts |-> {Op}, linked |-> {}] \in Snapshot
        BY DEF Snapshot, Entry
    <2>2. QED
        BY <1>2, <2>1 DEF AnnounceThread, TypeOK, store, Stage
<1>3. ASSUME NEW p \in Post, CreatePost(p) PROVE TypeOK'
    BY <1>3 DEF CreatePost, TypeOK, gossip, Entry, Stage
<1>4. ASSUME NEW p \in Post, PublishUpdate(p) PROVE TypeOK'
    <2>1. \A n \in Node : posts[n] \in SUBSET Entry
        BY DEF TypeOK
    <2>2. Author[p] \in Node
        OBVIOUS
    <2>3. {} \in Hash /\ {posts[Author[p]]} \in Hash
        BY <2>1, <2>2 DEF Hash, Nullable
    <2>4. PICK h \in Hash : updates' = updates \union {[post |-> p, hash |-> h]}
        BY <1>4, <2>3, Zenon DEF PublishUpdate
    <2>5. [post |-> p, hash |-> h] \in Update
        BY <2>4 DEF Update
    <2>6. due' \in [Node -> SUBSET Post]
        BY <1>4 DEF PublishUpdate, TypeOK
    <2>7. QED
        BY <1>4, <2>4, <2>5, <2>6 DEF PublishUpdate, TypeOK, store, Stage
<1>5. ASSUME NEW p \in Post, Reannounce(p) PROVE TypeOK'
    <2>1. \A n \in Node : SnapshotOf(n) \in Snapshot
        BY DEF TypeOK, SnapshotOf, Snapshot
    <2>2. announced' \subseteq Snapshot
        BY <1>5, <2>1 DEF Reannounce, TypeOK
    <2>3. subscribed' \in [Node -> BOOLEAN]
        BY <1>5 DEF Reannounce, TypeOK, HasThread
    <2>4. QED
        BY <1>5, <2>2, <2>3 DEF Reannounce, TypeOK, store, Stage
<1>6. ASSUME NEW n \in Node, NEW s \in announced, ReceiveAnnouncement(n, s)
      PROVE  TypeOK'
    <2>1. s \in Snapshot /\ s.posts \in SUBSET Entry
        BY DEF TypeOK, Snapshot
    <2>2. CASE UNCHANGED store
        BY <1>6, <2>2 DEF ReceiveAnnouncement, TypeOK, store, tasks, gossip
    <2>3. CASE NoteNewVersion(n, s)
        BY <1>6, <2>1, <2>3 DEF ReceiveAnnouncement, NoteNewVersion, TypeOK,
           tasks, gossip, Hash, Nullable
    <2>4. CASE StoreAnnouncement(n, s)
        BY <1>6, <2>1, <2>4 DEF ReceiveAnnouncement, StoreAnnouncement, TypeOK,
           tasks, gossip, Hash, Nullable, WithPlaceholder, Entry
    <2>5. QED
        BY <1>6, <2>2, <2>3, <2>4 DEF ReceiveAnnouncement
<1>7. ASSUME NEW n \in Node, NEW u \in updates, ReceiveUpdate(n, u)
      PROVE  TypeOK'
    <2>1. u.post \in Post
        BY DEF TypeOK, Update
    <2>2. ticket[n] \subseteq Snapshot
        BY TicketType
    <2>3. QED
        BY <1>7, <2>1, <2>2 DEF ReceiveUpdate, TypeOK, gossip, Entry
<1>8. ASSUME NEW n \in Node, StartDownload(n) PROVE TypeOK'
    <2>1. {[step |-> "fetching", snap |-> s] : s \in ticket[n]} \subseteq Download
        <3>1. ticket[n] \subseteq Snapshot
            BY TicketType
        <3>2. QED
            BY <3>1 DEF Download
    <2>2. QED
        BY <1>8, <2>1 DEF StartDownload, TypeOK, store, gossip
<1>9. ASSUME NEW n \in Node, NEW d \in downloads[n], ApplyDownload(n, d)
      PROVE  TypeOK'
    <2>1. d \in Download /\ d.snap \in Snapshot
        BY DEF TypeOK, Download
    <2>2. [step |-> "applied", snap |-> d.snap] \in Download
        BY <2>1 DEF Download
    <2>3. downloads' \in [Node -> SUBSET Download]
        BY <1>9, <2>2 DEF ApplyDownload, TypeOK
    <2>4. subscribed' \in [Node -> BOOLEAN]
        BY <1>9 DEF ApplyDownload, TypeOK
    <2>5. QED
        BY <1>9, <2>1, <2>3, <2>4, ApplySnapshotType DEF ApplyDownload, TypeOK
<1>10. ASSUME NEW n \in Node, NEW d \in downloads[n], FinishDownload(n, d)
       PROVE  TypeOK'
    BY <1>10 DEF FinishDownload, TypeOK, Nullable
<1>11. ASSUME NEW n \in Node, NEW d \in downloads[n], FailDownload(n, d)
       PROVE  TypeOK'
    BY <1>11 DEF FailDownload, TypeOK, store, gossip
<1>12. ASSUME NEW n \in Node, NEW s \in resyncs[n], RunResync(n, s)
       PROVE  TypeOK'
    <2>1. s \in Snapshot
        BY DEF TypeOK
    <2>2. QED
        BY <1>12, <2>1, ApplySnapshotType DEF RunResync, TypeOK, gossip
<1>13. ASSUME NEW n \in Node, NEW s \in resyncs[n], FailResync(n, s)
       PROVE  TypeOK'
    BY <1>13 DEF FailResync, TypeOK, store, gossip
<1>14. ASSUME NEW n \in Node, DeleteThread(n) PROVE TypeOK'
    BY <1>14 DEF DeleteThread, TypeOK, NoThread, Hash, Nullable, tasks, gossip
<1>15. ASSUME NEW n \in Node, Restart(n) PROVE TypeOK'
    BY <1>15 DEF Restart, TypeOK, HasThread, store, Stage
<1>16. CASE Next
    BY <1>1, <1>2, <1>3, <1>4, <1>5, <1>6, <1>7, <1>8, <1>9, <1>10, <1>11,
       <1>12, <1>13, <1>14, <1>15, <1>16 DEF Next, Write, Ingest, Fetch
<1>17. QED
    BY <1>0, <1>16

\* Every variable keeps its type: the rows, the tasks in flight and the
\* messages that the handlers of the code build from one another.
THEOREM TypeCorrect == Spec => []TypeOK
<1>1. Init => TypeOK
    BY ConstantsAssumption DEF Init, TypeOK, NoThread, Hash, Nullable, Stage
<1>2. QED
    BY <1>1, TypeStep, PTL DEF Spec

-----------------------------------------------------------------------------
(* Facts about single steps.                                               *)

\* Posts are never unmade, and messages are never withdrawn.
LEMMA StepGrows ==
    ASSUME TypeOK, [Next]_vars
    PROVE  /\ Made \subseteq Made'
           /\ announced \subseteq announced'
           /\ updates \subseteq updates'
<1> USE ConstantsAssumption DEF ConstantsAssumption
<1>1. announced \subseteq announced' /\ updates \subseteq updates'
    BY DEF Next, Write, Ingest, Fetch, vars, store, gossip, CreateThread,
       AnnounceThread, CreatePost, PublishUpdate, Reannounce, ReceiveAnnouncement,
       ReceiveUpdate, StartDownload, ApplyDownload, FinishDownload, FailDownload,
       RunResync, FailResync, DeleteThread, Restart
<1>2. SUFFICES ASSUME NEW p \in Post, stage[p] # "none" PROVE stage'[p] # "none"
    BY <1>1 DEF Made
<1>3. CASE UNCHANGED stage
    BY <1>2, <1>3
<1>4. CASE Write
    BY <1>2, <1>4 DEF Write, TypeOK, CreateThread, AnnounceThread, CreatePost,
       PublishUpdate, Reannounce
<1>5. ASSUME NEW n \in Node, Restart(n) PROVE stage'[p] # "none"
    BY <1>2, <1>5 DEF Restart, TypeOK
<1>6. QED
    BY <1>3, <1>4, <1>5 DEF Next, Ingest, Fetch, vars, tasks, ReceiveAnnouncement,
       ReceiveUpdate, StartDownload, ApplyDownload, FinishDownload, FailDownload,
       RunResync, FailResync, DeleteThread

\* What a snapshot leaves in the tables of node n.
LEMMA ApplySnapshotRows ==
    ASSUME IInv, NEW n \in Node, NEW s \in announced, ApplySnapshot(n, s)
    PROVE  /\ HasThread(n)'
           /\ thread'[n].hash = {s.posts}
           /\ posts'[n] \subseteq posts[n] \union s.posts
           /\ posts[n] \ {Preview} \subseteq posts'[n]
           /\ \A p \in linked'[n] : {p} \union Parents[p] \subseteq posts'[n]
           /\ KeptEdges(n) \subseteq linked'[n]
<1> USE ConstantsAssumption DEF ConstantsAssumption
<1>1. s \in Snapshot /\ s.posts \subseteq Entry /\ s.linked \subseteq Post
    BY DEF IInv, TypeOK, Snapshot
<1>2. thread'[n] = [status |-> "downloaded", hash |-> {s.posts}]
    BY DEF ApplySnapshot, AppliedHash, IInv, TypeOK
<1>3. posts'[n] = (posts[n] \ {Preview}) \union StoredFrom(n, s)
    BY DEF ApplySnapshot, MergedPosts, IInv, TypeOK
<1>4. linked'[n] = KeptEdges(n) \union LinkedFrom(n, s)
    BY DEF ApplySnapshot, IInv, TypeOK
<1>5. ASSUME NEW p \in LinkedFrom(n, s)
      PROVE  {p} \union Parents[p] \subseteq posts'[n]
    <2>1. p \in s.linked /\ p \in Post /\ Rank[p] \in Int
        BY <1>1 DEF LinkedFrom, Entry
    <2>2. {p} \union Parents[p] \subseteq s.posts
        BY <2>1 DEF IInv, SnapshotsAreClosed
    <2>3. p \notin Orphans(n, s)
        BY <2>1 DEF LinkedFrom
    <2>4. \A q \in Parents[p] : q \in posts[n] \ {Preview} \/ ~(Rank[q] > Rank[p])
        BY <2>1, <2>3 DEF Orphans
    <2>5. \A f \in Orphans(n, s) : f \in Post /\ Rank[f] \in Int /\ Rank[p] < Rank[f]
        BY <1>1 DEF LinkedFrom, Orphans, Entry
    <2>6. \A q \in Parents[p] : q \in Entry /\ Rank[q] \in Int
        BY <2>1
    <2>7. p \in StoredFrom(n, s)
        BY <2>1, <2>2, <2>5 DEF StoredFrom
    <2>8. ASSUME NEW q \in Parents[p], ~(Rank[q] > Rank[p])
          PROVE  q \in StoredFrom(n, s)
        BY <2>1, <2>2, <2>5, <2>6, <2>8 DEF StoredFrom
    <2>9. QED
        BY <1>3, <2>4, <2>7, <2>8
<1>6. ASSUME NEW p \in KeptEdges(n)
      PROVE  {p} \union Parents[p] \subseteq posts'[n]
    <2>1. p \in linked[n] /\ Preview \notin Parents[p] /\ p # Preview
        BY DEF KeptEdges, IInv, TypeOK
    <2>2. {p} \union Parents[p] \subseteq posts[n]
        BY <2>1 DEF IInv, ForeignKeysHold
    <2>3. QED
        BY <1>3, <2>1, <2>2
<1>7. QED
    BY <1>2, <1>3, <1>4, <1>5, <1>6 DEF HasThread, StoredFrom

-----------------------------------------------------------------------------
(* The conjuncts of the inductive invariant, one lemma each.               *)

LEMMA NothingBeforeCreationStep ==
    ASSUME IInv, [Next]_vars
    PROVE  NothingBeforeCreation'
<1> SUFFICES ASSUME stage'[Op] = "none"
             PROVE  announced' = {} /\ \A n \in Node : ~HasThread(n)'
    BY DEF NothingBeforeCreation, HasThread
<1> USE ConstantsAssumption DEF ConstantsAssumption
<1>1. stage[Op] = "none"
    BY StepGrows DEF IInv, Made
<1>2. /\ announced = {}
      /\ \A n \in Node : ~HasThread(n)
    BY <1>1 DEF IInv, NothingBeforeCreation
<1>3. \A n \in Node : resyncs[n] = {} /\ downloads[n] = {} /\ ticket[n] = {}
    BY <1>2 DEF IInv, TicketsWereAnnounced
<1>4. CASE UNCHANGED vars
    BY <1>2, <1>4 DEF vars, store, gossip, HasThread
<1>5. CASE Write
    BY <1>1, <1>2, <1>5 DEF Write, CreateThread, AnnounceThread, CreatePost,
       PublishUpdate, Reannounce, IInv, TypeOK, store, gossip, HasThread
<1>6. ASSUME NEW n \in Node, Ingest(n)
      PROVE  announced' = {} /\ \A m \in Node : ~HasThread(m)'
    BY <1>2, <1>6 DEF Ingest, ReceiveUpdate, Accepts
<1>7. ASSUME NEW n \in Node, Fetch(n) \/ DeleteThread(n) \/ Restart(n)
      PROVE  announced' = {} /\ \A m \in Node : ~HasThread(m)'
    BY <1>2, <1>3, <1>7 DEF Fetch, StartDownload, DeleteThread, Restart,
       store, HasThread
<1>8. QED
    BY <1>4, <1>5, <1>6, <1>7 DEF Next

LEMMA SnapshotsAreClosedStep ==
    ASSUME IInv, [Next]_vars
    PROVE  SnapshotsAreClosed'
<1> SUFFICES ASSUME NEW s \in announced', NEW p \in s.linked
             PROVE  {p} \union Parents[p] \subseteq s.posts
    BY DEF SnapshotsAreClosed
<1> USE ConstantsAssumption DEF ConstantsAssumption
<1>1. CASE s \in announced
    BY <1>1 DEF IInv, SnapshotsAreClosed
<1>2. CASE AnnounceThread /\ s \notin announced
    BY <1>2 DEF AnnounceThread
<1>3. ASSUME NEW q \in Post, Reannounce(q), s \notin announced
      PROVE  {p} \union Parents[p] \subseteq s.posts
    BY <1>3 DEF Reannounce, SnapshotOf, IInv, ForeignKeysHold
<1>4. s \notin announced => AnnounceThread \/ \E q \in Post : Reannounce(q)
    BY DEF Next, Write, Ingest, Fetch, vars, store, gossip, CreateThread, CreatePost,
       PublishUpdate, ReceiveAnnouncement, ReceiveUpdate, StartDownload,
       ApplyDownload, FinishDownload, FailDownload, RunResync, FailResync,
       DeleteThread, Restart
<1>5. QED
    BY <1>1, <1>2, <1>3, <1>4

LEMMA TicketsWereAnnouncedStep ==
    ASSUME IInv, [Next]_vars
    PROVE  TicketsWereAnnounced'
<1>1. /\ TypeOK
      /\ \A n \in Node : /\ ticket[n] \subseteq announced
                         /\ resyncs[n] \subseteq announced
                         /\ \A d \in downloads[n] : d.snap \in announced
    BY DEF IInv, TicketsWereAnnounced
<1>2. announced \subseteq announced'
    BY <1>1, StepGrows
<1>3. SUFFICES /\ \A n \in Node : ticket'[n] \subseteq announced
               /\ \A n \in Node : resyncs'[n] \subseteq announced
               /\ \A n \in Node : \A d \in downloads'[n] : d.snap \in announced
    BY <1>2 DEF TicketsWereAnnounced
<1>4. CASE UNCHANGED vars \/ Write
    BY <1>1, <1>4 DEF Write, vars, store, tasks, CreateThread, AnnounceThread,
       CreatePost, PublishUpdate, Reannounce
<1>5. ASSUME NEW m \in Node, Ingest(m)
      PROVE  /\ \A n \in Node : ticket'[n] \subseteq announced
             /\ \A n \in Node : resyncs'[n] \subseteq announced
             /\ \A n \in Node : \A d \in downloads'[n] : d.snap \in announced
    <2>1. ASSUME NEW s \in announced, ReceiveAnnouncement(m, s)
          PROVE  /\ \A n \in Node : ticket'[n] \subseteq announced
                 /\ UNCHANGED <<resyncs, downloads>>
        BY <1>1, <2>1 DEF ReceiveAnnouncement, NoteNewVersion, StoreAnnouncement,
           store, tasks, TypeOK
    <2>2. ASSUME NEW u \in updates, ReceiveUpdate(m, u)
          PROVE  /\ \A n \in Node : resyncs'[n] \subseteq announced
                 /\ UNCHANGED <<ticket, downloads>>
        BY <1>1, <2>2 DEF ReceiveUpdate, TypeOK
    <2>3. QED
        BY <1>1, <1>5, <2>1, <2>2 DEF Ingest
<1>6. ASSUME NEW m \in Node, Fetch(m)
      PROVE  /\ \A n \in Node : ticket'[n] \subseteq announced
             /\ \A n \in Node : resyncs'[n] \subseteq announced
             /\ \A n \in Node : \A d \in downloads'[n] : d.snap \in announced
    <2>1. \A n \in Node : ticket'[n] \subseteq ticket[n]
        BY <1>1, <1>6 DEF Fetch, StartDownload, ApplyDownload, FinishDownload,
           FailDownload, RunResync, FailResync, ApplySnapshot, store, TypeOK
    <2>2. \A n \in Node : resyncs'[n] \subseteq resyncs[n]
        BY <1>1, <1>6 DEF Fetch, StartDownload, ApplyDownload, FinishDownload,
           FailDownload, RunResync, FailResync, TypeOK
    <2>3. ASSUME StartDownload(m)
          PROVE  \A n \in Node : \A e \in downloads'[n] : e.snap \in announced
        <3>1. ASSUME NEW n \in Node, NEW e \in downloads'[n]
              PROVE  e \in downloads[n] \/ e.snap \in ticket[n]
            BY <1>1, <2>3, <3>1 DEF StartDownload, TypeOK
        <3>2. QED
            BY <1>1, <3>1
    <2>4. ASSUME NEW d \in downloads[m], ApplyDownload(m, d)
          PROVE  \A n \in Node : \A e \in downloads'[n] : e.snap \in announced
        BY <1>1, <2>4 DEF ApplyDownload, TypeOK
    <2>5. ASSUME NEW d \in downloads[m], FinishDownload(m, d) \/ FailDownload(m, d)
          PROVE  \A n \in Node : \A e \in downloads'[n] : e.snap \in announced
        BY <1>1, <2>5 DEF FinishDownload, FailDownload, TypeOK
    <2>6. ASSUME NEW s \in resyncs[m], RunResync(m, s) \/ FailResync(m, s)
          PROVE  UNCHANGED downloads
        BY <2>6 DEF RunResync, FailResync
    <2>7. \A n \in Node : \A d \in downloads'[n] : d.snap \in announced
        BY <1>1, <1>6, <2>3, <2>4, <2>5, <2>6 DEF Fetch
    <2>8. QED
        BY <1>1, <2>1, <2>2, <2>7
<1>7. ASSUME NEW m \in Node, DeleteThread(m) \/ Restart(m)
      PROVE  /\ \A n \in Node : ticket'[n] \subseteq announced
             /\ \A n \in Node : resyncs'[n] \subseteq announced
             /\ \A n \in Node : \A d \in downloads'[n] : d.snap \in announced
    BY <1>1, <1>7 DEF DeleteThread, Restart, store, tasks, TypeOK
<1>8. QED
    BY <1>4, <1>5, <1>6, <1>7 DEF Next

LEMMA OnlyMadePostsStep ==
    ASSUME IInv, [Next]_vars
    PROVE  OnlyMadePosts'
<1> USE ConstantsAssumption DEF ConstantsAssumption
<1>1. /\ TypeOK
      /\ \A n \in Node : posts[n] \ {Preview} \subseteq Made
      /\ \A u \in updates : u.post \in Made
      /\ \A s \in announced : s.posts \ {Preview} \subseteq Made
      /\ \A n \in Node : ticket[n] \subseteq announced
                         /\ resyncs[n] \subseteq announced
                         /\ \A d \in downloads[n] : d.snap \in announced
    BY DEF IInv, OnlyMadePosts, TicketsWereAnnounced
<1>2. Made \subseteq Made'
    BY <1>1, StepGrows
<1>3. ASSUME NEW u \in updates' PROVE u.post \in Made'
    <2>1. CASE u \in updates
        BY <1>1, <1>2, <2>1
    <2>2. ASSUME NEW p \in Post, PublishUpdate(p), u \notin updates
          PROVE  u.post \in Made'
        <3>1. p \in Made /\ u.post = p
            BY <2>2 DEF PublishUpdate, Made
        <3>2. QED
            BY <1>2, <3>1
    <2>3. u \notin updates => \E p \in Post : PublishUpdate(p)
        BY DEF Next, Write, Ingest, Fetch, vars, gossip, CreateThread, CreatePost,
           AnnounceThread, Reannounce, ReceiveAnnouncement, ReceiveUpdate,
           StartDownload, ApplyDownload, FinishDownload, FailDownload, RunResync,
           FailResync, DeleteThread, Restart
    <2>4. QED
        BY <2>1, <2>2, <2>3
<1>4. ASSUME NEW s \in announced' PROVE s.posts \ {Preview} \subseteq Made'
    <2>1. CASE s \in announced
        BY <1>1, <1>2, <2>1
    <2>2. CASE AnnounceThread /\ s \notin announced
        <3>1. Op \in Made /\ s.posts = {Op}
            BY <2>2 DEF AnnounceThread, Made
        <3>2. QED
            BY <1>2, <3>1
    <2>3. ASSUME NEW p \in Post, Reannounce(p), s \notin announced
          PROVE  s.posts \ {Preview} \subseteq Made'
        BY <1>1, <1>2, <2>3 DEF Reannounce, SnapshotOf
    <2>4. s \notin announced => AnnounceThread \/ \E p \in Post : Reannounce(p)
        BY DEF Next, Write, Ingest, Fetch, vars, gossip, CreateThread, CreatePost,
           PublishUpdate, ReceiveAnnouncement, ReceiveUpdate,
           StartDownload, ApplyDownload, FinishDownload, FailDownload, RunResync,
           FailResync, DeleteThread, Restart
    <2>5. QED
        BY <2>1, <2>2, <2>3, <2>4
<1>5. ASSUME NEW n \in Node PROVE posts'[n] \ {Preview} \subseteq Made'
    <2>1. CASE UNCHANGED posts
        BY <1>1, <1>2, <2>1
    <2>2. CASE CreateThread
        <3>1. Op \in Made' /\ posts'[n] \subseteq posts[n] \union {Op}
            BY <1>1, <2>2 DEF CreateThread, TypeOK, Made, Stage
        <3>2. QED
            BY <1>1, <1>2, <3>1
    <2>3. ASSUME NEW p \in Post, CreatePost(p)
          PROVE  posts'[n] \ {Preview} \subseteq Made'
        <3>1. p \in Made' /\ posts'[n] \subseteq posts[n] \union {p}
            BY <1>1, <2>3 DEF CreatePost, TypeOK, Made, Stage
        <3>2. QED
            BY <1>1, <1>2, <3>1
    <2>4. ASSUME NEW m \in Node, NEW s \in announced, ReceiveAnnouncement(m, s)
          PROVE  posts'[n] \ {Preview} \subseteq Made'
        BY <1>1, <1>2, <2>4 DEF ReceiveAnnouncement, NoteNewVersion,
           StoreAnnouncement, WithPlaceholder, store, TypeOK
    <2>5. ASSUME NEW m \in Node, NEW u \in updates, ReceiveUpdate(m, u)
          PROVE  posts'[n] \ {Preview} \subseteq Made'
        BY <1>1, <1>2, <2>5 DEF ReceiveUpdate, TypeOK
    <2>6. ASSUME NEW m \in Node, NEW s \in announced, ApplySnapshot(m, s)
          PROVE  posts'[n] \ {Preview} \subseteq Made'
        <3>1. CASE n = m
            BY <1>1, <1>2, <2>6, <3>1, ApplySnapshotRows
        <3>2. CASE n # m
            BY <1>1, <1>2, <2>6, <3>2 DEF ApplySnapshot, TypeOK
        <3>3. QED
            BY <3>1, <3>2
    <2>7. ASSUME NEW m \in Node, DeleteThread(m)
          PROVE  posts'[n] \ {Preview} \subseteq Made'
        BY <1>1, <1>2, <2>7 DEF DeleteThread, TypeOK
    <2>8. ASSUME NEW m \in Node, Fetch(m)
          PROVE  UNCHANGED posts \/ \E s \in announced : ApplySnapshot(m, s)
        BY <1>1, <2>8 DEF Fetch, StartDownload, ApplyDownload, FinishDownload,
           FailDownload, RunResync, FailResync, store
    <2>9. QED
        BY <2>1, <2>2, <2>3, <2>4, <2>5, <2>6, <2>7, <2>8 DEF Next, Write, Ingest,
           vars, store, AnnounceThread, PublishUpdate, Reannounce, Restart
<1>6. QED
    BY <1>3, <1>4, <1>5 DEF OnlyMadePosts

\* The steps that write rows, by what they write.
LEMMA StoreSteps ==
    ASSUME IInv, [Next]_vars
    PROVE  \/ UNCHANGED store
           \/ CreateThread
           \/ \E p \in Post : CreatePost(p)
           \/ \E n \in Node : \E s \in announced :
                 NoteNewVersion(n, s) \/ StoreAnnouncement(n, s)
           \/ \E n \in Node : \E u \in updates : ReceiveUpdate(n, u)
           \/ \E n \in Node : \E s \in announced : ApplySnapshot(n, s)
           \/ \E n \in Node : \E d \in downloads[n] : FinishDownload(n, d)
           \/ \E n \in Node : DeleteThread(n)
<1>1. CASE UNCHANGED vars \/ Write
    BY <1>1 DEF Write, vars, AnnounceThread, PublishUpdate, Reannounce
<1>2. ASSUME NEW n \in Node, Ingest(n)
      PROVE  \/ UNCHANGED store
             \/ \E s \in announced : NoteNewVersion(n, s) \/ StoreAnnouncement(n, s)
             \/ \E u \in updates : ReceiveUpdate(n, u)
    BY <1>2 DEF Ingest, ReceiveAnnouncement
<1>3. ASSUME NEW n \in Node, Fetch(n)
      PROVE  \/ UNCHANGED store
             \/ \E s \in announced : ApplySnapshot(n, s)
             \/ \E d \in downloads[n] : FinishDownload(n, d)
    BY <1>3 DEF Fetch, StartDownload, ApplyDownload, FailDownload, RunResync,
       FailResync, IInv, TicketsWereAnnounced
<1>4. ASSUME NEW n \in Node, Restart(n) PROVE UNCHANGED store
    BY <1>4 DEF Restart
<1>5. QED
    BY <1>1, <1>2, <1>3, <1>4 DEF Next

LEMMA ForeignKeysHoldStep ==
    ASSUME IInv, [Next]_vars
    PROVE  ForeignKeysHold'
<1> USE ConstantsAssumption DEF ConstantsAssumption
<1>1. SUFFICES ASSUME NEW n \in Node
      PROVE  /\ ~HasThread(n)' => posts'[n] = {} /\ ticket'[n] = {}
             /\ \A p \in linked'[n] : {p} \union Parents[p] \subseteq posts'[n]
    BY DEF ForeignKeysHold, HasThread
<1> DEFINE Goal == /\ ~HasThread(n)' => posts'[n] = {} /\ ticket'[n] = {}
                   /\ \A p \in linked'[n] : {p} \union Parents[p] \subseteq posts'[n]
<1>2. /\ TypeOK
      /\ ~HasThread(n) => posts[n] = {} /\ ticket[n] = {}
      /\ \A p \in linked[n] : {p} \union Parents[p] \subseteq posts[n]
    BY DEF IInv, ForeignKeysHold
<1>3. CASE UNCHANGED store
    BY <1>2, <1>3 DEF store, HasThread
<1>4. CASE CreateThread
    <2>1. ~HasThread(n) /\ linked[n] = {}
        BY <1>2, <1>4 DEF CreateThread, IInv, NothingBeforeCreation
    <2>2. QED
        BY <1>2, <1>4, <2>1 DEF CreateThread, HasThread, TypeOK
<1>5. ASSUME NEW p \in Post, CreatePost(p) PROVE Goal
    BY <1>2, <1>5 DEF CreatePost, HasThread, TypeOK
<1>6. ASSUME NEW m \in Node, NEW s \in announced, NoteNewVersion(m, s) PROVE Goal
    BY <1>2, <1>6 DEF NoteNewVersion, HasThread, TypeOK
<1>7. ASSUME NEW m \in Node, NEW s \in announced, StoreAnnouncement(m, s) PROVE Goal
    BY <1>2, <1>7 DEF StoreAnnouncement, WithPlaceholder, HasThread, TypeOK
<1>8. ASSUME NEW m \in Node, NEW u \in updates, ReceiveUpdate(m, u) PROVE Goal
    BY <1>2, <1>8 DEF ReceiveUpdate, Accepts, HasThread, TypeOK
<1>9. ASSUME NEW m \in Node, NEW s \in announced, ApplySnapshot(m, s) PROVE Goal
    <2>1. CASE n = m
        BY <1>9, <2>1, ApplySnapshotRows
    <2>2. CASE n # m
        BY <1>2, <1>9, <2>2 DEF ApplySnapshot, HasThread, TypeOK
    <2>3. QED
        BY <2>1, <2>2
<1>10. ASSUME NEW m \in Node, NEW d \in downloads[m], FinishDownload(m, d) PROVE Goal
    BY <1>2, <1>10 DEF FinishDownload, HasThread, TypeOK
<1>11. ASSUME NEW m \in Node, DeleteThread(m) PROVE Goal
    BY <1>2, <1>11 DEF DeleteThread, HasThread, NoThread, TypeOK
<1>12. QED
    BY <1>3, <1>4, <1>5, <1>6, <1>7, <1>8, <1>9, <1>10, <1>11, StoreSteps

LEMMA HashWasAnnouncedStep ==
    ASSUME IInv, [Next]_vars
    PROVE  HashWasAnnounced'
<1>1. announced \subseteq announced'
    BY StepGrows DEF IInv
<1>2. SUFFICES ASSUME NEW n \in Node, NEW h \in thread'[n].hash
               PROVE  h \in thread[n].hash \/ \E s \in announced : h = s.posts
    <2>1. \A n \in Node : thread[n].hash \subseteq {s.posts : s \in announced}
        BY DEF IInv, HashWasAnnounced
    <2>2. QED
        BY <1>1, <1>2, <2>1 DEF HashWasAnnounced
<1>3. TypeOK
    BY DEF IInv
<1>4. CASE UNCHANGED thread
    BY <1>4
<1>5. CASE CreateThread
    BY <1>3, <1>5 DEF CreateThread, TypeOK
<1>6. ASSUME NEW m \in Node, NEW s \in announced,
             NoteNewVersion(m, s) \/ StoreAnnouncement(m, s)
      PROVE  h \in thread[n].hash \/ h = s.posts
    BY <1>3, <1>6 DEF NoteNewVersion, StoreAnnouncement, TypeOK
<1>7. ASSUME NEW m \in Node, NEW s \in announced, ApplySnapshot(m, s)
      PROVE  h \in thread[n].hash \/ h = s.posts
    BY <1>3, <1>7 DEF ApplySnapshot, AppliedHash, TypeOK
<1>8. ASSUME NEW m \in Node, DeleteThread(m) PROVE h \in thread[n].hash
    BY <1>3, <1>8 DEF DeleteThread, NoThread, TypeOK
<1>9. QED
    BY <1>4, <1>5, <1>6, <1>7, <1>8, StoreSteps DEF store, CreatePost,
       ReceiveUpdate, FinishDownload

-----------------------------------------------------------------------------
\* The strengthened invariant is inductive.
THEOREM InductiveInvariant == Spec => []IInv
<1>1. Init => IInv
    <2>1. Init => TypeOK
        BY ConstantsAssumption
        DEF ConstantsAssumption, Init, TypeOK, NoThread, Hash, Nullable, Stage
    <2>2. QED
        BY <2>1 DEF Init, IInv, NothingBeforeCreation, OnlyMadePosts,
           SnapshotsAreClosed, TicketsWereAnnounced, ForeignKeysHold,
           HashWasAnnounced, HasThread, NoThread
<1>2. IInv /\ [Next]_vars => IInv'
    <2>1. IInv => TypeOK
        BY DEF IInv
    <2>2. QED
        BY <2>1, TypeStep, NothingBeforeCreationStep, OnlyMadePostsStep,
           SnapshotsAreClosedStep, TicketsWereAnnouncedStep, ForeignKeysHoldStep,
           HashWasAnnouncedStep DEF IInv
<1>3. QED
    BY <1>1, <1>2, PTL DEF Spec

\* The foreign keys hold in every reachable state: no row outlives its thread,
\* and a stored reply edge has both its ends, in spite of updates that arrive
\* before their parents and of snapshots that are applied halfway.
THEOREM ForeignKeys == Spec => []ForeignKeysHold
<1>1. IInv => ForeignKeysHold
    BY DEF IInv
<1>2. QED
    BY <1>1, InductiveInvariant, PTL

\* The recorded hash of a thread always is that of an announced snapshot.
THEOREM RecordedHash == Spec => []HashWasAnnounced
<1>1. IInv => HashWasAnnounced
    BY DEF IInv
<1>2. QED
    BY <1>1, InductiveInvariant, PTL

-----------------------------------------------------------------------------
(* What a step may never do.                                               *)

LEMMA NothingIsForgottenStep ==
    ASSUME IInv, [Next]_vars, NEW n \in Node, HasThread(n), HasThread(n)'
    PROVE  /\ posts[n] \ {Preview} \subseteq posts'[n]
           /\ KeptEdges(n) \subseteq linked'[n]
<1> DEFINE Goal == /\ posts[n] \ {Preview} \subseteq posts'[n]
                   /\ KeptEdges(n) \subseteq linked'[n]
<1>1. TypeOK
    BY DEF IInv
<1>2. CASE UNCHANGED store
    BY <1>2 DEF store, KeptEdges
<1>3. ~CreateThread
    BY DEF CreateThread, IInv, NothingBeforeCreation
<1>4. ASSUME NEW p \in Post, CreatePost(p) PROVE Goal
    BY <1>1, <1>4 DEF CreatePost, KeptEdges, TypeOK
<1>5. ASSUME NEW m \in Node, NEW s \in announced,
             NoteNewVersion(m, s) \/ StoreAnnouncement(m, s)
      PROVE  Goal
    BY <1>1, <1>5 DEF NoteNewVersion, StoreAnnouncement, WithPlaceholder,
       KeptEdges, TypeOK
<1>6. ASSUME NEW m \in Node, NEW u \in updates, ReceiveUpdate(m, u) PROVE Goal
    BY <1>1, <1>6 DEF ReceiveUpdate, KeptEdges, TypeOK
<1>7. ASSUME NEW m \in Node, NEW s \in announced, ApplySnapshot(m, s) PROVE Goal
    <2>1. CASE n = m
        BY <1>7, <2>1, ApplySnapshotRows
    <2>2. CASE n # m
        BY <1>1, <1>7, <2>2 DEF ApplySnapshot, KeptEdges, TypeOK
    <2>3. QED
        BY <2>1, <2>2
<1>8. ASSUME NEW m \in Node, NEW d \in downloads[m], FinishDownload(m, d) PROVE Goal
    BY <1>8 DEF FinishDownload, KeptEdges
<1>9. ASSUME NEW m \in Node, DeleteThread(m) PROVE Goal
    BY <1>1, <1>9 DEF DeleteThread, HasThread, NoThread, KeptEdges, TypeOK
<1>10. QED
    BY <1>2, <1>3, <1>4, <1>5, <1>6, <1>7, <1>8, <1>9, StoreSteps

\* No announcement, update, download, re-sync or restart makes a node lose a
\* post or a reply edge of a thread it keeps.
THEOREM NothingForgotten == Spec => NothingIsForgotten
<1>1. IInv /\ [Next]_vars =>
        [\A n \in Node : HasThread(n) /\ HasThread(n)' =>
            /\ posts[n] \ {Preview} \subseteq posts'[n]
            /\ {p \in linked[n] : Preview \notin Parents[p]} \subseteq linked'[n]]_vars
    BY NothingIsForgottenStep DEF KeptEdges
<1>2. QED
    BY <1>1, InductiveInvariant, PTL DEF Spec, NothingIsForgotten

-----------------------------------------------------------------------------
(* Without deletions an announced thread can always be downloaded.         *)

\* A download that has been applied left a complete row behind.
AppliedIsRecorded ==
    \A n \in Node : \A d \in downloads[n] :
        d.step = "applied" => /\ thread[n].status = "downloaded"
                              /\ thread[n].hash # {}

LEMMA AppliedIsRecordedStep ==
    ASSUME Deleters = {}, IInv, AppliedIsRecorded, [Next]_vars
    PROVE  AppliedIsRecorded'
<1>1. SUFFICES ASSUME NEW n \in Node, NEW d \in downloads'[n], d.step = "applied"
               PROVE  thread'[n].status = "downloaded" /\ thread'[n].hash # {}
    BY DEF AppliedIsRecorded
<1> DEFINE Goal == thread'[n].status = "downloaded" /\ thread'[n].hash # {}
<1>2. TypeOK
    BY DEF IInv
<1>3. d \in downloads[n] => thread[n].status = "downloaded" /\ thread[n].hash # {}
    BY <1>1 DEF AppliedIsRecorded
<1>4. ASSUME d \notin downloads[n] PROVE Goal
    <2>1. downloads'[n] # downloads[n]
        BY <1>4
    <2>2. ~(UNCHANGED vars \/ Write)
        BY <2>1 DEF vars, tasks, Write, CreateThread, AnnounceThread, CreatePost,
           PublishUpdate, Reannounce
    <2>3. ASSUME NEW m \in Node, Ingest(m) PROVE FALSE
        BY <2>1, <2>3 DEF Ingest, tasks, ReceiveAnnouncement, ReceiveUpdate
    <2>4. ASSUME NEW m \in Node, DeleteThread(m) \/ Restart(m) PROVE FALSE
        BY <1>1, <1>2, <1>4, <2>4 DEF DeleteThread, Restart, tasks, TypeOK
    <2>5. ASSUME NEW m \in Node, StartDownload(m) PROVE FALSE
        <3>1. \E t \in ticket[m] : d = [step |-> "fetching", snap |-> t]
            BY <1>1, <1>2, <1>4, <2>5 DEF StartDownload, TypeOK
        <3>2. QED
            BY <1>1, <3>1
    <2>6. ASSUME NEW m \in Node, NEW e \in downloads[m],
                 FinishDownload(m, e) \/ FailDownload(m, e)
          PROVE  FALSE
        BY <1>1, <1>2, <1>4, <2>6 DEF FinishDownload, FailDownload, TypeOK
    <2>7. ASSUME NEW m \in Node, NEW t \in resyncs[m],
                 RunResync(m, t) \/ FailResync(m, t)
          PROVE  FALSE
        BY <2>1, <2>7 DEF RunResync, FailResync
    <2>8. ASSUME NEW m \in Node, NEW e \in downloads[m], ApplyDownload(m, e)
          PROVE  Goal
        <3>1. m = n
            BY <1>2, <2>1, <2>8 DEF ApplyDownload, TypeOK
        <3>2. thread'[n] = [status |-> "downloaded",
                            hash   |-> {AppliedHash(n, e.snap)}]
            BY <1>2, <2>8, <3>1 DEF ApplyDownload, ApplySnapshot, TypeOK
        <3>3. QED
            BY <3>2
    <2>9. QED
        BY <2>2, <2>3, <2>4, <2>5, <2>6, <2>7, <2>8 DEF Next, Fetch
<1>5. ASSUME d \in downloads[n] PROVE Goal
    <2>1. CASE thread'[n] = thread[n]
        BY <1>3, <1>5, <2>1
    <2>2. ASSUME NEW m \in Node, NEW s \in announced, NoteNewVersion(m, s) PROVE Goal
        BY <1>2, <1>3, <1>5, <2>2 DEF NoteNewVersion, TypeOK
    <2>3. ASSUME NEW m \in Node, NEW s \in announced, StoreAnnouncement(m, s)
          PROVE  thread'[n] = thread[n]
        BY <1>2, <1>3, <1>5, <2>3 DEF StoreAnnouncement, HasThread, TypeOK
    <2>4. ASSUME NEW m \in Node, NEW s \in announced, ApplySnapshot(m, s) PROVE Goal
        BY <1>2, <1>3, <1>5, <2>4 DEF ApplySnapshot, TypeOK
    <2>5. ~CreateThread
        BY <1>5 DEF CreateThread, IInv, NothingBeforeCreation, TicketsWereAnnounced
    <2>6. ~\E m \in Node : DeleteThread(m)
        BY DEF DeleteThread
    <2>7. QED
        BY <2>1, <2>2, <2>3, <2>4, <2>5, <2>6, StoreSteps
        DEF store, CreatePost, ReceiveUpdate, FinishDownload
<1>6. QED
    BY <1>4, <1>5

LEMMA AnnouncedIsDownloadableStep ==
    ASSUME Deleters = {}, IInv, AppliedIsRecorded, AnnouncedIsDownloadable, [Next]_vars
    PROVE  AnnouncedIsDownloadable'
<1>1. SUFFICES ASSUME NEW n \in Node, thread'[n].status = "announced"
               PROVE  ticket'[n] # {}
    BY DEF AnnouncedIsDownloadable
<1>2. TypeOK /\ (thread[n].status = "announced" => ticket[n] # {})
    BY DEF IInv, AnnouncedIsDownloadable
<1>3. CASE UNCHANGED <<thread, ticket>>
    BY <1>1, <1>2, <1>3
<1>4. CASE CreateThread
    BY <1>1, <1>2, <1>4 DEF CreateThread, TypeOK
<1>5. ASSUME NEW m \in Node, NEW s \in announced,
             NoteNewVersion(m, s) \/ StoreAnnouncement(m, s)
      PROVE  ticket'[n] # {}
    <2>1. ticket' = [ticket EXCEPT ![m] = {s}]
        BY <1>5 DEF NoteNewVersion, StoreAnnouncement
    <2>2. CASE n = m
        BY <1>2, <2>1, <2>2 DEF TypeOK
    <2>3. CASE n # m
        <3>1. thread'[n] = thread[n]
            BY <1>2, <1>5, <2>3 DEF NoteNewVersion, StoreAnnouncement, TypeOK
        <3>2. ticket'[n] = ticket[n]
            BY <1>2, <2>1, <2>3 DEF TypeOK
        <3>3. QED
            BY <1>1, <1>2, <3>1, <3>2
    <2>4. QED
        BY <2>2, <2>3
<1>6. ASSUME NEW m \in Node, NEW s \in announced, ApplySnapshot(m, s)
      PROVE  ticket'[n] # {}
    BY <1>1, <1>2, <1>6 DEF ApplySnapshot, TypeOK
<1>7. ASSUME NEW m \in Node, NEW d \in downloads[m], FinishDownload(m, d)
      PROVE  ticket'[n] # {}
    BY <1>1, <1>2, <1>7 DEF FinishDownload, AppliedIsRecorded, TypeOK
<1>8. ~\E m \in Node : DeleteThread(m)
    BY DEF DeleteThread
<1>9. QED
    BY <1>3, <1>4, <1>5, <1>6, <1>7, <1>8, StoreSteps DEF store, CreatePost,
       ReceiveUpdate

\* Where no user deletes the thread, an announced thread keeps its ticket until
\* it is downloaded, however announcements, failed requests, re-syncs and
\* restarts interleave with the closing step of a download.
THEOREM AnnouncedDownloadable ==
    ASSUME Deleters = {}
    PROVE  Spec => []AnnouncedIsDownloadable
<1>1. Init => AppliedIsRecorded /\ AnnouncedIsDownloadable
    BY DEF Init, AppliedIsRecorded, AnnouncedIsDownloadable, NoThread
<1>2. IInv /\ AppliedIsRecorded /\ AnnouncedIsDownloadable /\ [Next]_vars
        => AppliedIsRecorded' /\ AnnouncedIsDownloadable'
    BY AppliedIsRecordedStep, AnnouncedIsDownloadableStep
<1>3. QED
    BY <1>1, <1>2, InductiveInvariant, PTL DEF Spec

-----------------------------------------------------------------------------
(* Every step is a step of PostExchange, or stutters.                      *)

LEMMA HeldGrows ==
    ASSUME TypeOK, TypeOK', NEW n \in Node, NEW S \in SUBSET Post,
           posts'[n] \ {Preview} = (posts[n] \ {Preview}) \union S,
           \A m \in Node \ {n} : posts'[m] = posts[m]
    PROVE  Held' = [Held EXCEPT ![n] = @ \union S]
<1>1. Held' = [m \in Node |-> posts'[m] \ {Preview}]
    BY DEF Held
<1>2. \A m \in Node : Held[m] = posts[m] \ {Preview}
    BY DEF Held
<1>3. [Held EXCEPT ![n] = @ \union S] =
        [m \in Node |-> IF m = n THEN Held[n] \union S ELSE Held[m]]
    BY DEF Held
<1>4. QED
    BY <1>1, <1>2, <1>3

LEMMA SharedUnchanged ==
    ASSUME UNCHANGED <<announced, updates>>
    PROVE  UNCHANGED Shared
BY DEF Shared

LEMMA AnnouncingShares ==
    ASSUME NEW S, announced' = announced \union {S}, UNCHANGED updates
    PROVE  Shared' = Shared \union (S.posts \ {Preview})
<1>1. \A x : x \in Shared <=> \/ \E u \in updates : x = u.post
                              \/ \E s \in announced : x \in s.posts \ {Preview}
    BY DEF Shared
<1>2. \A x : x \in Shared' <=> \/ \E u \in updates' : x = u.post
                               \/ \E s \in announced' : x \in s.posts \ {Preview}
    BY DEF Shared
<1>3. \A x : x \in Shared' <=> x \in Shared \/ x \in S.posts \ {Preview}
    BY <1>1, <1>2
<1>4. QED
    BY <1>3

LEMMA UpdatingShares ==
    ASSUME NEW U, updates' = updates \union {U}, UNCHANGED announced
    PROVE  Shared' = Shared \union {U.post}
<1>1. \A x : x \in Shared <=> \/ \E u \in updates : x = u.post
                              \/ \E s \in announced : x \in s.posts \ {Preview}
    BY DEF Shared
<1>2. \A x : x \in Shared' <=> \/ \E u \in updates' : x = u.post
                               \/ \E s \in announced' : x \in s.posts \ {Preview}
    BY DEF Shared
<1>3. \A x : x \in Shared' <=> x \in Shared \/ x = U.post
    BY <1>1, <1>2
<1>4. QED
    BY <1>3

LEMMA MadeUnchanged ==
    ASSUME UNCHANGED stage
    PROVE  UNCHANGED Made
BY DEF Made

LEMMA LearnStep ==
    ASSUME TypeOK, TypeOK', NEW n \in Node, NEW S \in SUBSET Post, S \subseteq Shared,
           posts'[n] \ {Preview} = (posts[n] \ {Preview}) \union S,
           \A m \in Node \ {n} : posts'[m] = posts[m],
           UNCHANGED <<stage, announced, updates>>
    PROVE  Exchange!Next
BY HeldGrows, SharedUnchanged, MadeUnchanged DEF Exchange!Next, Exchange!Learn

LEMMA ApplySnapshotLearns ==
    ASSUME IInv, TypeOK', NEW n \in Node, NEW s \in announced, ApplySnapshot(n, s),
           UNCHANGED <<stage, announced, updates>>
    PROVE  Exchange!Next
<1> DEFINE S == StoredFrom(n, s) \ {Preview}
<1>1. TypeOK /\ s \in Snapshot
    BY DEF IInv, TypeOK
<1>2. S \in SUBSET Post /\ S \subseteq Shared
    BY <1>1 DEF StoredFrom, Snapshot, Entry, Shared
<1>3. posts'[n] \ {Preview} = (posts[n] \ {Preview}) \union S
    BY <1>1 DEF ApplySnapshot, MergedPosts, TypeOK
<1>4. \A m \in Node \ {n} : posts'[m] = posts[m]
    BY <1>1 DEF ApplySnapshot, TypeOK
<1>5. QED
    BY <1>1, <1>2, <1>3, <1>4, LearnStep

LEMMA WriteRefines ==
    ASSUME IInv, TypeOK', Write
    PROVE  Exchange!Next \/ UNCHANGED Exchange!vars
<1> USE ConstantsAssumption DEF ConstantsAssumption
<1>1. TypeOK
    BY DEF IInv
<1>2. ASSUME NEW p \in Post, stage[p] = "none", stage'[p] = "inserted" \/ stage'[p] = "done",
             \A q \in Post \ {p} : stage'[q] = stage[q],
             posts'[Author[p]] \ {Preview} = (posts[Author[p]] \ {Preview}) \union {p},
             \A m \in Node \ {Author[p]} : posts'[m] = posts[m],
             UNCHANGED <<announced, updates>>
      PROVE  Exchange!Next
    <2>1. p \notin Made /\ Made' = Made \union {p}
        BY <1>2 DEF Made
    <2>2. Author[p] \in Node /\ {p} \in SUBSET Post
        OBVIOUS
    <2>3. Held' = [Held EXCEPT ![Author[p]] = @ \union {p}]
        BY <1>1, <1>2, <2>2, HeldGrows
    <2>4. QED
        BY <1>2, <2>1, <2>3, SharedUnchanged DEF Exchange!Next, Exchange!Make
<1>3. CASE CreateThread
    <2>1. posts[Creator] = {}
        BY <1>3 DEF CreateThread, IInv, NothingBeforeCreation, ForeignKeysHold
    <2>2. posts'[Creator] = {Op} /\ \A m \in Node \ {Creator} : posts'[m] = posts[m]
        BY <1>1, <1>3 DEF CreateThread, TypeOK
    <2>3. /\ stage[Op] = "none" /\ stage'[Op] = "inserted"
          /\ \A q \in Post \ {Op} : stage'[q] = stage[q]
          /\ UNCHANGED <<announced, updates>>
        BY <1>1, <1>3 DEF CreateThread, TypeOK, gossip
    <2>4. QED
        BY <1>2, <2>1, <2>2, <2>3
<1>4. ASSUME NEW p \in Post, CreatePost(p) PROVE Exchange!Next
    <2>1. /\ posts'[Author[p]] = posts[Author[p]] \union {p}
          /\ \A m \in Node \ {Author[p]} : posts'[m] = posts[m]
        BY <1>1, <1>4 DEF CreatePost, TypeOK
    <2>2. /\ stage[p] = "none" /\ (stage'[p] = "inserted" \/ stage'[p] = "done")
          /\ \A q \in Post \ {p} : stage'[q] = stage[q]
          /\ UNCHANGED <<announced, updates>>
        BY <1>1, <1>4 DEF CreatePost, TypeOK, gossip
    <2>3. p # Preview
        OBVIOUS
    <2>4. QED
        BY <1>2, <2>1, <2>2, <2>3
<1>5. ASSUME NEW S \in SUBSET Post, S \subseteq Made, Shared' = Shared \union S,
             Made' = Made, UNCHANGED posts
      PROVE  Exchange!Next
    <2>1. UNCHANGED Held
        BY <1>5 DEF Held
    <2>2. QED
        BY <1>5, <2>1 DEF Exchange!Next, Exchange!Share
<1>6. CASE AnnounceThread
    <2>1. Shared' = Shared \union {Op}
        <3> DEFINE A == [posts |-> {Op}, linked |-> {}]
        <3>1. announced' = announced \union {A} /\ UNCHANGED updates
            BY <1>6 DEF AnnounceThread
        <3>2. A.posts \ {Preview} = {Op}
            OBVIOUS
        <3> HIDE DEF A
        <3>3. QED
            BY <3>1, <3>2, AnnouncingShares
    <2>2. Made' = Made /\ Op \in Made
        BY <1>1, <1>6 DEF AnnounceThread, Made, TypeOK
    <2>3. {Op} \in SUBSET Post /\ UNCHANGED posts
        BY <1>6 DEF AnnounceThread, store
    <2>4. QED
        BY <1>5, <2>1, <2>2, <2>3
<1>7. ASSUME NEW p \in Post, PublishUpdate(p) PROVE Exchange!Next
    <2>1. PICK h : updates' = updates \union {[post |-> p, hash |-> h]}
        BY <1>7, Zenon DEF PublishUpdate
    <2>2. Shared' = Shared \union {p}
        <3> DEFINE U == [post |-> p, hash |-> h]
        <3>1. updates' = updates \union {U} /\ UNCHANGED announced
            BY <1>7, <2>1 DEF PublishUpdate
        <3>2. U.post = p
            OBVIOUS
        <3> HIDE DEF U
        <3>3. QED
            BY <3>1, <3>2, UpdatingShares
    <2>3. Made' = Made /\ p \in Made
        BY <1>1, <1>7 DEF PublishUpdate, Made, TypeOK
    <2>4. {p} \in SUBSET Post /\ UNCHANGED posts
        BY <1>7 DEF PublishUpdate, store
    <2>5. QED
        BY <1>5, <2>2, <2>3, <2>4
<1>8. ASSUME NEW p \in Post, Reannounce(p)
      PROVE  Exchange!Next \/ UNCHANGED Exchange!vars
    <2>1. Made' = Made /\ UNCHANGED posts
        BY <1>1, <1>8 DEF Reannounce, Made, TypeOK, store
    <2>2. CASE announced' = announced
        BY <1>8, <2>1, <2>2, SharedUnchanged DEF Reannounce, Exchange!vars, Held
    <2>3. CASE announced' = announced \union {SnapshotOf(Author[p])}
        <3>1. Shared' = Shared \union (posts[Author[p]] \ {Preview})
            <4> DEFINE A == SnapshotOf(Author[p])
            <4>1. announced' = announced \union {A} /\ UNCHANGED updates
                BY <1>8, <2>3 DEF Reannounce
            <4>2. A.posts = posts[Author[p]]
                BY DEF SnapshotOf
            <4> HIDE DEF A
            <4>3. QED
                BY <4>1, <4>2, AnnouncingShares
        <3>2. posts[Author[p]] \ {Preview} \in SUBSET Made
            BY DEF IInv, OnlyMadePosts
        <3>3. QED
            BY <1>5, <2>1, <3>1, <3>2 DEF Made
    <2>4. QED
        BY <1>8, <2>2, <2>3 DEF Reannounce
<1>9. QED
    BY <1>3, <1>4, <1>6, <1>7, <1>8 DEF Write

LEMMA IngestRefines ==
    ASSUME IInv, TypeOK', NEW n \in Node, Ingest(n)
    PROVE  Exchange!Next \/ UNCHANGED Exchange!vars
<1>1. TypeOK
    BY DEF IInv
<1>2. ASSUME NEW s \in announced, ReceiveAnnouncement(n, s)
      PROVE  UNCHANGED Exchange!vars
    <2>1. UNCHANGED <<stage, announced, updates>>
        BY <1>2 DEF ReceiveAnnouncement, tasks, gossip
    <2>2. \A m \in Node : posts'[m] \ {Preview} = posts[m] \ {Preview}
        BY <1>1, <1>2 DEF ReceiveAnnouncement, NoteNewVersion, StoreAnnouncement,
           WithPlaceholder, store, TypeOK
    <2>3. UNCHANGED Held
        BY <2>2 DEF Held
    <2>4. QED
        BY <2>1, <2>3, SharedUnchanged, MadeUnchanged DEF Exchange!vars
<1>3. ASSUME NEW u \in updates, ReceiveUpdate(n, u) PROVE Exchange!Next
    <2>1. u.post \in Post /\ u.post # Preview
        BY <1>1, ConstantsAssumption DEF TypeOK, Update, ConstantsAssumption
    <2>2. {u.post} \subseteq Shared
        BY <1>3 DEF Shared
    <2>3. /\ posts'[n] = posts[n] \union {u.post}
          /\ \A m \in Node \ {n} : posts'[m] = posts[m]
          /\ UNCHANGED <<stage, announced, updates>>
        BY <1>1, <1>3 DEF ReceiveUpdate, TypeOK, gossip
    <2>4. posts'[n] \ {Preview} = (posts[n] \ {Preview}) \union {u.post}
        BY <2>1, <2>3
    <2>5. QED
        BY <1>1, <2>1, <2>2, <2>3, <2>4, LearnStep
<1>4. QED
    BY <1>2, <1>3 DEF Ingest

LEMMA FetchRefines ==
    ASSUME IInv, TypeOK', NEW n \in Node, Fetch(n)
    PROVE  Exchange!Next \/ UNCHANGED Exchange!vars
<1>1. UNCHANGED <<stage, announced, updates>>
    BY DEF Fetch, StartDownload, ApplyDownload, FinishDownload, FailDownload,
       RunResync, FailResync, gossip
<1>2. UNCHANGED posts \/ \E s \in announced : ApplySnapshot(n, s)
    BY DEF Fetch, StartDownload, ApplyDownload, FinishDownload, FailDownload,
       RunResync, FailResync, store, IInv, TicketsWereAnnounced
<1>3. CASE UNCHANGED posts
    BY <1>1, <1>3, SharedUnchanged, MadeUnchanged DEF Exchange!vars, Held
<1>4. QED
    BY <1>1, <1>2, <1>3, ApplySnapshotLearns

LEMMA ExchangeStep ==
    ASSUME IInv, [Next]_vars
    PROVE  [Exchange!Next]_(Exchange!vars)
<1>1. TypeOK /\ TypeOK'
    BY TypeStep DEF IInv
<1>2. CASE UNCHANGED vars
    BY <1>2, SharedUnchanged, MadeUnchanged
    DEF vars, store, tasks, gossip, Exchange!vars, Held
<1>3. ASSUME NEW n \in Node, DeleteThread(n) PROVE Exchange!Next
    <2>1. n \in Deleters /\ posts' = [posts EXCEPT ![n] = {}]
        BY <1>3 DEF DeleteThread
    <2>2. UNCHANGED <<stage, announced, updates>>
        BY <1>3 DEF DeleteThread, tasks, gossip
    <2>3. Held' = [Held EXCEPT ![n] = {}]
        BY <1>1, <2>1 DEF Held, TypeOK
    <2>4. QED
        BY <2>1, <2>2, <2>3, SharedUnchanged, MadeUnchanged
        DEF Exchange!Next, Exchange!Forget
<1>4. ASSUME NEW n \in Node, Restart(n) PROVE UNCHANGED Exchange!vars
    <2>1. UNCHANGED <<posts, announced, updates>>
        BY <1>4 DEF Restart, store
    <2>2. \A p \in Post : stage'[p] = "none" <=> stage[p] = "none"
        BY <1>1, <1>4 DEF Restart, TypeOK
    <2>3. UNCHANGED Made
        BY <2>2 DEF Made
    <2>4. QED
        BY <2>1, <2>3, SharedUnchanged DEF Exchange!vars, Held
<1>5. QED
    BY <1>1, <1>2, <1>3, <1>4, WriteRefines, IngestRefines, FetchRefines DEF Next

\* The replication protocol implements the exchange of posts: whatever the
\* interleaving, a node gains posts only from its own author or from messages,
\* and loses them only when its user deletes the thread.
THEOREM Implements == Spec => ImplementsExchange
<1>1. Init => Exchange!Init
    BY DEF Init, Exchange!Init, Made, Shared, Held
<1>2. IInv /\ [Next]_vars => [Exchange!Next]_(Exchange!vars)
    BY ExchangeStep
<1>3. QED
    BY <1>1, <1>2, InductiveInvariant, PTL DEF Spec, Exchange!Spec, ImplementsExchange

-----------------------------------------------------------------------------
(* What was broadcast can be received.                                     *)

\* A broadcast that a node was subscribed for is among the updates, was not
\* sent by the node itself, and the node is subscribed still.
DueIsSubscribed ==
    \A n \in Node : \A p \in due[n] :
        subscribed[n] /\ Author[p] # n /\ \E u \in updates : u.post = p

\* As long as the thread is there the node accepts the update.
DueIsDeliverable ==
    \A n \in Node : \A p \in due[n] :
        HasThread(n) => \E u \in updates : u.post = p /\ Accepts(n, u)

\* Nobody unsubscribes, but for a restart.
LEMMA SubscriptionStep ==
    ASSUME TypeOK, [Next]_vars, NEW n \in Node, subscribed[n]
    PROVE  subscribed'[n] \/ Restart(n)
<1>1. CASE UNCHANGED vars
    BY <1>1 DEF vars, gossip
<1>2. CASE Write
    BY <1>2 DEF Write, CreateThread, AnnounceThread, CreatePost, PublishUpdate,
       Reannounce, gossip, TypeOK
<1>3. ASSUME NEW m \in Node, Ingest(m) PROVE UNCHANGED subscribed
    BY <1>3 DEF Ingest, ReceiveAnnouncement, ReceiveUpdate, gossip
<1>4. ASSUME NEW m \in Node, Fetch(m) PROVE subscribed'[n]
    BY <1>4 DEF Fetch, StartDownload, ApplyDownload, FinishDownload, FailDownload,
       RunResync, FailResync, gossip, TypeOK
<1>5. ASSUME NEW m \in Node, DeleteThread(m) PROVE UNCHANGED subscribed
    BY <1>5 DEF DeleteThread, gossip
<1>6. ASSUME NEW m \in Node, Restart(m), m # n PROVE subscribed'[n]
    BY <1>6 DEF Restart, TypeOK
<1>7. QED
    BY <1>1, <1>2, <1>3, <1>4, <1>5, <1>6 DEF Next

\* Only a broadcast makes a post due, and a restart forgets what is.
LEMMA DueStep ==
    ASSUME TypeOK, [Next]_vars, NEW n \in Node, NEW p \in due'[n]
    PROVE  \/ p \in due[n] /\ ~Restart(n)
           \/ PublishUpdate(p) /\ subscribed[n] /\ Author[p] # n
<1>1. ~Restart(n)
    BY DEF Restart, TypeOK
<1>2. \/ UNCHANGED due
      \/ \E q \in Post : PublishUpdate(q)
      \/ \E m \in Node : Restart(m)
    BY DEF Next, Write, Ingest, Fetch, CreateThread, AnnounceThread, CreatePost,
       Reannounce, ReceiveAnnouncement, ReceiveUpdate, StartDownload, ApplyDownload,
       FinishDownload, FailDownload, RunResync, FailResync, DeleteThread, vars, gossip
<1>3. ASSUME NEW q \in Post, PublishUpdate(q), p \notin due[n]
      PROVE  p = q /\ subscribed[n] /\ Author[p] # n
    BY <1>3 DEF PublishUpdate, TypeOK
<1>4. ASSUME NEW m \in Node, Restart(m) PROVE p \in due[n]
    BY <1>1, <1>4 DEF Restart, TypeOK
<1>5. QED
    BY <1>1, <1>2, <1>3, <1>4

LEMMA DueIsSubscribedStep ==
    ASSUME TypeOK, DueIsSubscribed, [Next]_vars
    PROVE  DueIsSubscribed'
<1> SUFFICES ASSUME NEW n \in Node, NEW p \in due'[n]
             PROVE  subscribed'[n] /\ Author[p] # n /\ \E u \in updates' : u.post = p
    BY DEF DueIsSubscribed
<1>1. CASE p \in due[n] /\ ~Restart(n)
    BY <1>1, SubscriptionStep, StepGrows DEF DueIsSubscribed
<1>2. CASE PublishUpdate(p) /\ subscribed[n] /\ Author[p] # n
    <2> DEFINE hash == IF HasThread(Author[p]) THEN {posts[Author[p]]} ELSE {}
               u == [post |-> p, hash |-> hash]
    <2>1. UNCHANGED subscribed /\ updates' = updates \union {u}
        BY <1>2 DEF PublishUpdate
    <2>2. u.post = p
        OBVIOUS
    <2>3. QED
        BY <1>2, <2>1, <2>2
<1>3. QED
    BY <1>1, <1>2, DueStep

\* A post that was broadcast to a subscribed node stays deliverable there,
\* through deletions and restarts of any node, until it is stored: the node
\* never waits for an update that it would refuse.
THEOREM DueDeliverable == Spec => []DueIsDeliverable
<1>1. Init => DueIsSubscribed
    BY DEF Init, DueIsSubscribed
<1>2. TypeOK /\ DueIsSubscribed /\ [Next]_vars => DueIsSubscribed'
    BY DueIsSubscribedStep
<1>3. DueIsSubscribed => DueIsDeliverable
    BY DEF DueIsSubscribed, DueIsDeliverable, Accepts
<1>4. QED
    BY <1>1, <1>2, <1>3, TypeCorrect, PTL DEF Spec
=============================================================================

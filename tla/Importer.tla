------------------------------- MODULE Importer -------------------------------
(***************************************************************************)
(* Following a thread of 4chan or Reddit: the import that makes a local    *)
(* thread of it, the refreshes that add what has been written since, the   *)
(* table import_post_map that is to keep a post from being added twice,    *)
(* and the announcement that ends both.                                    *)
(*                                                                         *)
(* Abstractions.  The model is about one thread; importing its URL again   *)
(* makes another one that shares nothing with it.  Posts are numbered in   *)
(* the order they are written, the opening post is 1, and the post stored  *)
(* locally for post e is <<e, n>>, its n-th copy.  One with neither text   *)
(* nor image is skipped, as if it had not been written.  Bodies, times,    *)
(* topics and last_refreshed_at are left out; so are the images, whose     *)
(* upload is the one of FileTransfer and whose failure is only logged.  A  *)
(* handler runs its with_repositories closures one by one, and handlers    *)
(* run at the same time; the client may hang up, which drops the handler   *)
(* where it awaits, and the process may be killed anywhere.                *)
(***************************************************************************)
EXTENDS Naturals, FiniteSets

CONSTANTS
    Last,         \* bound: the number of posts that are ever written
    Refs,         \* Refs[p][e]: the posts that e refers to, on platform p; on
                  \* Reddit the one it answers
    Worker,       \* bound: as many imports and refreshes may run at once
    MaxRefreshes  \* bound: as many refreshes are made

Platform == {"4chan", "reddit"}

Ext == 1 .. Last

Op == 1

ASSUME ImporterAssumption ==
    /\ Last \in Nat \ {0}
    /\ Refs \in [Platform -> [Ext -> SUBSET Ext]]
    /\ \A p \in Platform, e \in Ext : \A r \in Refs[p][e] : r < e
    /\ \A e \in Ext \ {Op} : Cardinality(Refs["reddit"][e]) = 1
    /\ MaxRefreshes \in Nat

Copy == Ext \X (Nat \ {0})

VARIABLES
    platform,    \* where the thread is: column source_platform, once it is set
    source,      \* the posts that the platform serves
    latest,      \* the last post that was written there
    thread,      \* the row of the local thread
    posts,       \* its posts
    edges,       \* <<child, parent>>: table post_relationships
    map,         \* map[e]: the copy in import_post_map, a set of at most one
    task,        \* task[w]: the imports and refreshes that run
    refreshes,   \* refreshes left
    announced,   \* the copies that an announcement has offered to others
    overlapped,  \* whether two handlers have run at the same time
    torn,        \* whether a kill came between a post and its row in the map
    dropped      \* whether a handler that had stored posts was cut off

web == <<platform, source, latest>>
tables == <<thread, posts, edges, map>>
history == <<overlapped, torn, dropped>>
vars == <<web, tables, task, refreshes, announced, history>>

Idle == [step |-> "idle"]

Step == {"fetch", "create", "source", "read", "next", "record", "announce"}

Task ==
    [kind : {"import", "refresh"},
     step : Step,
     fetched : SUBSET Ext,          \* the posts in the answer of the platform
     ids : [Ext -> SUBSET Copy],    \* id_map
     post : SUBSET Copy,            \* the post just stored
     fresh : BOOLEAN,               \* new_posts > 0
     details : SUBSET Copy]         \* the posts that will be announced

\* The invariants quantify over the tasks that run.
Running == {w \in Worker : task[w] # Idle}

Start(kind) ==
    [kind |-> kind, step |-> "fetch", fetched |-> {}, ids |-> [e \in Ext |-> {}],
     post |-> {}, fresh |-> FALSE, details |-> {}]

Copies(e) == {c \in posts : c[1] = e}

Init ==
    /\ platform \in Platform
    /\ source = {Op}
    /\ latest = Op
    /\ thread = "none"
    /\ posts = {}
    /\ edges = {}
    /\ map = [e \in Ext |-> {}]
    /\ task = [w \in Worker |-> Idle]
    /\ refreshes = MaxRefreshes
    /\ announced = {}
    /\ overlapped = FALSE
    /\ torn = FALSE
    /\ dropped = FALSE

------------------------------------------------------------------------------
(* The platform.                                                           *)

Write ==
    LET e == latest + 1 IN
    /\ latest < Last
    /\ platform = "reddit" => Refs[platform][e] \subseteq source
    /\ latest' = e
    /\ source' = source \union {e}
    /\ UNCHANGED <<platform, tables, task, refreshes, announced, history>>

\* 4chan deletes any post; Reddit keeps one as "[deleted]" while it has answers.
Remove(e) ==
    /\ e \in source \ {Op}
    /\ platform = "reddit" => \A d \in source : e \notin Refs[platform][d]
    /\ source' = source \ {e}
    /\ UNCHANGED <<platform, latest, tables, task, refreshes, announced, history>>

------------------------------------------------------------------------------
(* The handlers.                                                           *)

Become(w, t) == task' = [task EXCEPT ![w] = t]

Stop(w) == Become(w, Idle)

At(w, step) == task[w] # Idle /\ task[w].step = step

\* A new task takes any free name: they are all alike.
Begin(kind) ==
    LET w == CHOOSE v \in Worker : task[v] = Idle IN
    /\ Running # Worker
    /\ task' = [task EXCEPT ![w] = Start(kind)]
    /\ overlapped' = (overlapped \/ Running # {})
    /\ UNCHANGED <<web, tables, announced, torn, dropped>>

\* The thread of the model is imported once.
StartImport ==
    /\ thread = "none"
    /\ Running = {}
    /\ Begin("import")
    /\ UNCHANGED refreshes

\* A thread without a source URL answers with an error.
StartRefresh ==
    /\ thread = "sourced"
    /\ refreshes > 0
    /\ refreshes' = refreshes - 1
    /\ Begin("refresh")

\* The request to the platform; it may fail, or the client hang up meanwhile.
Fetch(w) ==
    /\ At(w, "fetch")
    /\ \/ Stop(w)
       \/ Become(w, [task[w] EXCEPT
                       !.step = IF task[w].kind = "import"
                                THEN "create" ELSE "read",
                       !.fetched = source])
    /\ UNCHANGED <<web, tables, refreshes, announced, history>>

\* create_thread: the row, and the opening post if it has a text.  On 4chan it
\* may be a mere image; then the next refresh adds it.
CreateThread(w) ==
    /\ At(w, "create")
    /\ thread' = "plain"
    /\ \E op \in {{<<Op, 1>>}} \union (IF platform = "4chan" THEN {{}} ELSE {}) :
          /\ posts' = op
          /\ Become(w, [task[w] EXCEPT !.step = "source", !.post = op])
    /\ UNCHANGED <<web, edges, map, refreshes, announced, history>>

\* On 4chan the opening post is recorded next; on Reddit no post of an import
\* ever is.
SetSource(w) ==
    LET t == task[w] IN
    /\ At(w, "source")
    /\ thread' = IF thread = "plain" THEN "sourced" ELSE thread
    /\ Become(w, [t EXCEPT !.step = IF platform = "4chan" /\ t.post # {}
                                    THEN "record" ELSE "next",
                           !.ids[Op] = t.post])
    /\ UNCHANGED <<web, posts, edges, map, refreshes, announced, history>>

\* Mutant: only the part of the map that is about the answer is read.
ReadMapOfAnswer(w) ==
    LET t == task[w] IN
    /\ At(w, "read")
    /\ Become(w, [t EXCEPT !.step = "next",
                           !.ids = [e \in t.fetched |-> map[e]]])
    /\ UNCHANGED <<web, tables, refreshes, announced, history>>

\* The map is read once; on Reddit the first post of the thread is looked up
\* too, and a thread that is gone has none.
ReadMap(w) ==
    LET t == task[w] IN
    /\ At(w, "read")
    /\ \/ /\ platform = "4chan"
          /\ Become(w, [t EXCEPT !.step = "next", !.ids = map])
       \/ /\ platform = "reddit" /\ Copies(Op) # {}
          /\ Become(w, [t EXCEPT !.step = "next",
                                 !.ids = [map EXCEPT ![Op] = {<<Op, 1>>}]])
       \/ /\ platform = "reddit" /\ Copies(Op) = {}
          /\ Stop(w)
    /\ UNCHANGED <<web, tables, refreshes, announced, history>>

\* Mutant: a refresh takes the posts above the last that is known.
TodoAbove(t) ==
    {e \in t.fetched :
        /\ \A d \in Ext : t.ids[d] # {} => d < e
        /\ e = Op => platform = "4chan" /\ t.kind = "refresh"}

\* What is left to do: an import skips the opening post, which it has seen to.
Todo(t) ==
    {e \in t.fetched :
        /\ t.ids[e] = {}
        /\ e = Op => platform = "4chan" /\ t.kind = "refresh"}

\* What may come next: 4chan's posts come in the order of their numbers, a
\* comment of Reddit when the one it answers has a copy.
Due(t) ==
    IF platform = "4chan"
    THEN {e \in Todo(t) : \A d \in Todo(t) : e <= d}
    ELSE {e \in Todo(t) : \A r \in Refs[platform][e] : t.ids[r] # {}}

\* Mutant: parents are looked up in the table.
MappedParents(t, e) == UNION {map[r] : r \in Refs[platform][e]}

\* extract_references: references to posts without a copy are left out.
Parents(t, e) == UNION {t.ids[r] : r \in Refs[platform][e]}

\* create_post, while the thread is there.  Whether its row in the map is next
\* or left out, the copy joins id_map, where its answers look for it.
CreatePost(w) ==
    LET t == task[w] IN
    /\ At(w, "next")
    /\ thread \in {"plain", "sourced"}
    /\ \E e \in Due(t) :
          LET c == <<e, Cardinality(Copies(e)) + 1>> IN
          /\ posts' = posts \union {c}
          /\ edges' = edges \union {<<c, p>> : p \in Parents(t, e)}
          /\ Become(w, [t EXCEPT
                          !.step = IF platform = "reddit" /\ t.kind = "import"
                                   THEN "next" ELSE "record",
                          !.ids[e] = {c},
                          !.post = {c}])
    /\ UNCHANGED <<web, thread, map, refreshes, announced, history>>

\* create_post fails once the thread is deleted.  On Reddit the handler goes
\* through the other comments in vain and finds no thread to announce.
MissThread(w) ==
    /\ At(w, "next")
    /\ thread = "deleted"
    /\ Stop(w)
    /\ UNCHANGED <<web, tables, refreshes, announced, history>>

\* Mutant: nothing is written to the map.
RecordNothing(w) ==
    /\ At(w, "record")
    /\ IF thread = "deleted" THEN Stop(w)
       ELSE Become(w, [task[w] EXCEPT !.step = "next", !.fresh = TRUE])
    /\ UNCHANGED <<web, tables, refreshes, announced, history>>

\* INSERT OR IGNORE: a row that is there stays.  The foreign keys fail when
\* the thread is deleted.
Record(w) ==
    LET t == task[w] IN
    /\ At(w, "record")
    /\ IF thread = "deleted"
       THEN Stop(w) /\ UNCHANGED map
       ELSE /\ \E c \in t.post :
                  map' = [map EXCEPT ![c[1]] = IF @ = {} THEN {c} ELSE @]
            /\ Become(w, [t EXCEPT !.step = "next", !.fresh = TRUE])
    /\ UNCHANGED <<web, thread, posts, edges, refreshes, announced, history>>

\* Mutant: an import counts new posts as a refresh does.
LoadIfFresh(w) ==
    /\ At(w, "next")
    /\ thread # "deleted"
    /\ Due(task[w]) = {}
    /\ IF task[w].fresh
       THEN Become(w, [task[w] EXCEPT !.step = "announce", !.details = posts])
       ELSE Stop(w)
    /\ UNCHANGED <<web, tables, refreshes, announced, history>>

\* The thread is read once more; a refresh that found nothing new ends here.
Load(w) ==
    LET t == task[w] IN
    /\ At(w, "next")
    /\ thread # "deleted"
    /\ Due(t) = {}
    /\ IF t.kind = "import" \/ t.fresh
       THEN Become(w, [task[w] EXCEPT !.step = "announce", !.details = posts])
       ELSE Stop(w)
    /\ UNCHANGED <<web, tables, refreshes, announced, history>>

\* publish_thread_announcement: the snapshot that was loaded becomes a blob.
Announce(w) ==
    /\ At(w, "announce")
    /\ announced' = announced \union task[w].details
    /\ Stop(w)
    /\ UNCHANGED <<web, tables, refreshes, history>>

------------------------------------------------------------------------------
(* What interferes.                                                        *)

\* The cascades take the posts, their edges and the map along.
DeleteThread ==
    /\ thread \in {"plain", "sourced"}
    /\ thread' = "deleted"
    /\ posts' = {}
    /\ edges' = {}
    /\ map' = [e \in Ext |-> {}]
    /\ UNCHANGED <<web, task, refreshes, announced, history>>

\* The client hangs up while the handler waits for the image of the post just
\* recorded, or for the blob store.  Comments of Reddit have no images.
Cancel(w) ==
    /\ \/ At(w, "announce")
       \/ /\ At(w, "next")
          /\ task[w].post # {}
          /\ platform = "reddit" =>
                task[w].kind = "import" /\ task[w].post = {<<Op, 1>>}
    /\ Stop(w)
    /\ dropped' = TRUE
    /\ UNCHANGED <<web, tables, refreshes, announced, overlapped, torn>>

\* The process is killed and started again; nothing resumes a handler.
Kill ==
    /\ Running # {}
    /\ task' = [w \in Worker |-> Idle]
    /\ torn' = (torn \/ \E w \in Worker : At(w, "record"))
    /\ dropped' = (dropped \/ \E w \in Running :
                        task[w].step \notin {"fetch", "create", "read"})
    /\ UNCHANGED <<web, tables, refreshes, announced, overlapped>>

Proceed(w) ==
    \/ Fetch(w) \/ CreateThread(w) \/ SetSource(w) \/ ReadMap(w)
    \/ CreatePost(w) \/ MissThread(w) \/ Record(w) \/ Load(w) \/ Announce(w)

Next ==
    \/ Write
    \/ \E e \in Ext : Remove(e)
    \/ StartImport
    \/ StartRefresh
    \/ \E w \in Worker : Proceed(w) \/ Cancel(w)
    \/ DeleteThread
    \/ Kill

\* A handler that was started runs on; nobody has to start one.
Spec == Init /\ [][Next]_vars /\ \A w \in Worker : WF_vars(Proceed(w))

------------------------------------------------------------------------------
(* Properties.                                                             *)

\* Types of the variables.
TypeOK ==
    /\ platform \in Platform
    /\ source \subseteq Ext
    /\ latest \in Ext
    /\ thread \in {"none", "plain", "sourced", "deleted"}
    /\ posts \subseteq Copy
    /\ edges \subseteq Copy \X Copy
    /\ map \in [Ext -> SUBSET Copy]
    /\ task \in [Worker -> Task \union {Idle}]
    /\ refreshes \in 0 .. MaxRefreshes
    /\ announced \subseteq Copy
    /\ overlapped \in BOOLEAN
    /\ torn \in BOOLEAN
    /\ dropped \in BOOLEAN

\* Where the import records what it stores, which is everything on 4chan and
\* the opening post on Reddit, a post is stored twice only if two handlers
\* overlapped or a kill hit the gap between create_post and
\* import_post_map().insert.
EachImportedOnce ==
    ~overlapped /\ ~torn =>
        \A e \in Ext :
            platform = "4chan" \/ e = Op => Cardinality(Copies(e)) <= 1

\* A handler that is through with its answer has a copy of every post in it,
\* whatever runs beside it: ids read from the map are never of posts that are
\* gone, and a comment below one that is known is reached too.
AnswerIsStored ==
    \A w \in Running :
        LET t == task[w] IN
        At(w, "next") /\ Due(t) = {} /\ thread # "deleted" =>
            \A e \in t.fetched :
                Copies(e) # {} \/ (e = Op /\ t.kind = "import")

\* A new post is linked to copies of what it refers to and of nothing else;
\* if no two handlers overlapped and no kill hit the gap, to one of each that
\* has any.
RepliesAreLinked ==
    [][\A c \in posts' \ posts :
          LET linked == {q[1] : q \in {p \in posts : <<c, p>> \in edges'}}
              known == {r \in Refs[platform][c[1]] : Copies(r) # {}}
          IN  /\ linked \subseteq Refs[platform][c[1]]
              /\ ~overlapped /\ ~torn => linked = known]_vars

\* No handler leaves behind what it stored without a word: when none runs and
\* none was cut off, all posts of the thread have been announced, whoever stored
\* them and whatever the handlers that ran beside it did.
StoredIsAnnounced ==
    Running = {} /\ ~dropped /\ thread # "deleted" => posts \subseteq announced

\* What is stored is announced in the end, unless a handler was cut off or the
\* thread is deleted: a refresh announces only if it added a post itself, so
\* nothing makes up for a handler that did not get that far.
NewPostsAreAnnounced ==
    posts # {} ~> posts \subseteq announced \/ thread = "deleted" \/ dropped

-----------------------------------------------------------------------------
(* What a comment in the code says and the code does not do.               *)

\* A refresh "only adds new posts that weren't present during the initial
\* import": if handlers neither overlap nor are cut off, what is added has no
\* copy yet.  A Reddit import records none of its comments, so that a refresh
\* takes them for new.
OnlyNewPostsAreAdded ==
    [][~overlapped /\ ~torn /\ ~dropped => \A c \in posts' \ posts : Copies(c[1]) = {}]_vars
=============================================================================

--------------------------- MODULE ImporterProofs ---------------------------
(***************************************************************************)
(* Proofs about Importer for any number of posts, references between them, *)
(* refreshes and handlers that run at once.                                *)
(***************************************************************************)
EXTENDS Importer, FiniteSetTheorems, WellFoundedInduction, TLAPS

\* Steps come in order, and the thread with them.
Phases ==
    \A w \in Running :
        LET t == task[w] IN
        /\ t.step = "fetch" =>
              thread \in IF t.kind = "import" THEN {"none"} ELSE {"sourced", "deleted"}
        /\ t.step = "create" => t.kind = "import" /\ thread = "none"
        /\ t.step = "source" => t.kind = "import" /\ thread \in {"plain", "deleted"}
        /\ t.step = "read" => t.kind = "refresh"
        /\ t.step \in {"read", "next", "record", "announce"} =>
              thread \in {"sourced", "deleted"}

\* Until the source is recorded the import runs alone, and there is at most the
\* opening post.
StartsAlone ==
    /\ thread \in {"none", "plain"} =>
          /\ \A v, w \in Running : v = w
          /\ \A e \in Ext : map[e] = {}
          /\ edges = {}
          /\ posts \subseteq {<<Op, 1>>}
    /\ thread \in {"none", "deleted"} => posts = {}
    /\ \A w \in Running :
          At(w, "source") =>
              /\ task[w].post \subseteq {<<Op, 1>>}
              /\ platform = "reddit" => task[w].post # {}
              /\ thread = "plain" => posts = task[w].post

\* On Reddit a comment is served with the one it answers.
AnswersHaveParents ==
    platform = "reddit" =>
        /\ \A e \in source : Refs[platform][e] \subseteq source
        /\ \A w \in Running : \A e \in task[w].fetched :
              Refs[platform][e] \subseteq task[w].fetched

\* What the map and the handlers know of is stored.
KnownIsStored ==
    /\ IsFiniteSet(posts)
    /\ edges \subseteq posts \X posts
    /\ \A e \in Ext : map[e] \subseteq Copies(e)
    /\ \A w \in Running : thread # "deleted" =>
          /\ \A e \in Ext : task[w].ids[e] \subseteq Copies(e)
          /\ At(w, "record") => \A c \in task[w].post : c \in task[w].ids[c[1]]
    /\ \A w \in Running : At(w, "record") =>
          task[w].post # {} /\ \A c, d \in task[w].post : c = d

\* On Reddit nothing adds the opening post again, and it is never looked for.
RedditOp ==
    platform = "reddit" =>
        /\ Copies(Op) \subseteq {<<Op, 1>>}
        /\ \A w \in Running : task[w].step \in {"next", "record"} =>
              task[w].ids[Op] # {}

Calm == ~overlapped /\ ~torn

OneRuns == ~overlapped => \A v, w \in Running : v = w

Limit(e) == IF platform = "reddit" /\ e # Op THEN 2 ELSE 1

Recording(e) ==
    \E w \in Running : At(w, "record") /\ \E c \in task[w].post : c[1] = e

Unrecorded(e) == map[e] = {} /\ ~Recording(e)

\* A post without a row in the map has room for one more copy.
CopiesAreCounted ==
    Calm /\ thread = "sourced" =>
        \A e \in Ext :
            \/ platform = "reddit" /\ e = Op
            \/ /\ Cardinality(Copies(e)) <= Limit(e)
               /\ Unrecorded(e) => Cardinality(Copies(e)) < Limit(e)

\* What a handler does not know of has no row, and an import knows all copies.
UnknownIsUnrecorded ==
    Calm /\ thread = "sourced" =>
        \A w \in Running : task[w].step \in {"next", "record"} =>
            \A e \in Ext : task[w].ids[e] = {} =>
                /\ Unrecorded(e)
                /\ task[w].kind = "import" => Copies(e) = {}

IInv ==
    /\ TypeOK
    /\ Phases
    /\ StartsAlone
    /\ AnswersHaveParents
    /\ KnownIsStored
    /\ RedditOp
    /\ OneRuns
    /\ CopiesAreCounted
    /\ UnknownIsUnrecorded

-----------------------------------------------------------------------------
(* Type correctness.                                                       *)

LEMMA OpIsExt == Op \in Ext
BY ImporterAssumption DEF ImporterAssumption, Op, Ext

LEMMA TaskFields ==
    ASSUME NEW t \in Task
    PROVE  /\ t.kind \in {"import", "refresh"}
           /\ t.step \in Step
           /\ t.fetched \in SUBSET Ext
           /\ t.ids \in [Ext -> SUBSET Copy]
           /\ t.post \in SUBSET Copy
           /\ t.fresh \in BOOLEAN
           /\ t.details \in SUBSET Copy
           /\ t # Idle
BY DEF Task, Step, Idle

LEMMA IdleIsNoTask == Idle \notin Task
BY TaskFields

LEMMA NewTask == \A kind \in {"import", "refresh"} : Start(kind) \in Task
BY DEF Start, Task, Step

\* The changes that handlers make to their task.
LEMMA TaskChanges ==
    \A t \in Task, s \in Step :
        /\ \A F \in SUBSET Ext : [t EXCEPT !.step = s, !.fetched = F] \in Task
        /\ \A C \in SUBSET Copy :
              /\ [t EXCEPT !.step = s, !.post = C] \in Task
              /\ [t EXCEPT !.step = s, !.details = C] \in Task
              /\ \A e \in Ext :
                    /\ [t EXCEPT !.step = s, !.ids[e] = C] \in Task
                    /\ [t EXCEPT !.step = s, !.ids[e] = C, !.post = C] \in Task
        /\ \A ids \in [Ext -> SUBSET Copy] : [t EXCEPT !.step = s, !.ids = ids] \in Task
        /\ [t EXCEPT !.step = s, !.fresh = TRUE] \in Task
<1> SUFFICES ASSUME NEW t \in Task, NEW s \in Step
    PROVE  /\ \A F \in SUBSET Ext : [t EXCEPT !.step = s, !.fetched = F] \in Task
           /\ \A C \in SUBSET Copy :
                 /\ [t EXCEPT !.step = s, !.post = C] \in Task
                 /\ [t EXCEPT !.step = s, !.details = C] \in Task
                 /\ \A e \in Ext :
                       /\ [t EXCEPT !.step = s, !.ids[e] = C] \in Task
                       /\ [t EXCEPT !.step = s, !.ids[e] = C, !.post = C] \in Task
           /\ \A ids \in [Ext -> SUBSET Copy] :
                 [t EXCEPT !.step = s, !.ids = ids] \in Task
           /\ [t EXCEPT !.step = s, !.fresh = TRUE] \in Task
    OBVIOUS
<1>1. ASSUME NEW F \in SUBSET Ext PROVE [t EXCEPT !.step = s, !.fetched = F] \in Task
    BY DEF Task
<1>2. ASSUME NEW C \in SUBSET Copy
      PROVE  /\ [t EXCEPT !.step = s, !.post = C] \in Task
             /\ [t EXCEPT !.step = s, !.details = C] \in Task
    BY DEF Task
<1>3. ASSUME NEW C \in SUBSET Copy, NEW e \in Ext
      PROVE  [t EXCEPT !.step = s, !.ids[e] = C] \in Task
    BY DEF Task
<1>4. ASSUME NEW C \in SUBSET Copy, NEW e \in Ext
      PROVE  [t EXCEPT !.step = s, !.ids[e] = C, !.post = C] \in Task
    BY DEF Task
<1>5. ASSUME NEW ids \in [Ext -> SUBSET Copy]
      PROVE  [t EXCEPT !.step = s, !.ids = ids] \in Task
    BY DEF Task
<1>6. [t EXCEPT !.step = s, !.fresh = TRUE] \in Task
    BY DEF Task
<1>7. QED
    BY <1>1, <1>2, <1>3, <1>4, <1>5, <1>6

\* A step of one handler leaves the tasks of the others alone.
LEMMA Becoming ==
    ASSUME TypeOK, NEW w \in Worker, NEW t \in Task \union {Idle}, Become(w, t)
    PROVE  /\ task' \in [Worker -> Task \union {Idle}]
           /\ task'[w] = t
           /\ \A v \in Worker \ {w} : task'[v] = task[v]
BY DEF TypeOK, Become

LEMMA Stopping ==
    ASSUME TypeOK, NEW w \in Worker, Stop(w)
    PROVE  /\ task' \in [Worker -> Task \union {Idle}]
           /\ Running' = Running \ {w}
           /\ \A v \in Running' : task'[v] = task[v]
BY DEF TypeOK, Become, Stop, Running

LEMMA RunningTasks ==
    ASSUME TypeOK
    PROVE  /\ \A w \in Running : w \in Worker /\ task[w] \in Task
           /\ \A w \in Worker, s \in Step : At(w, s) => w \in Running /\ task[w].step = s
BY IdleIsNoTask DEF TypeOK, Running, At

\* What a started handler looks like.
LEMMA Beginning ==
    ASSUME TypeOK, NEW kind \in {"import", "refresh"}, Begin(kind)
    PROVE  \E w \in Worker :
              /\ task[w] = Idle
              /\ Become(w, Start(kind))
              /\ Start(kind) \in Task
              /\ overlapped' = (overlapped \/ Running # {})
<1> DEFINE w == CHOOSE v \in Worker : task[v] = Idle
<1>1. \E v \in Worker : task[v] = Idle
    BY DEF Begin, Running
<1>2. w \in Worker /\ task[w] = Idle
    BY <1>1
<1>3. Become(w, Start(kind))
    BY DEF Begin, Become
<1>4. QED
    BY <1>2, <1>3, NewTask DEF Begin

LEMMA InitType == Init => TypeOK
<1> SUFFICES ASSUME Init PROVE TypeOK
    OBVIOUS
<1>1. refreshes \in 0 .. MaxRefreshes
    BY ImporterAssumption DEF Init, ImporterAssumption
<1>2. /\ map \in [Ext -> SUBSET Copy]
      /\ task \in [Worker -> Task \union {Idle}]
    BY DEF Init
<1>3. QED
    BY <1>1, <1>2, OpIsExt DEF Init, TypeOK

NewCopy(e) == <<e, Cardinality(Copies(e)) + 1>>

LEMMA CopyOf ==
    ASSUME NEW e \in Ext, IsFiniteSet(posts)
    PROVE  /\ IsFiniteSet(Copies(e))
           /\ NewCopy(e) \in Copy
<1>1. Copies(e) \in SUBSET posts
    BY DEF Copies
<1>2. IsFiniteSet(Copies(e))
    BY <1>1, FS_Subset
<1>3. Cardinality(Copies(e)) \in Nat
    BY <1>2, FS_CardinalityType
<1>4. QED
    BY <1>2, <1>3 DEF Copy, NewCopy

LEMMA FirstCopy == <<Op, 1>> \in Copy
BY OpIsExt DEF Copy

LEMMA TypeNext == TypeOK /\ IsFiniteSet(posts) /\ [Next]_vars => TypeOK'
<1> SUFFICES ASSUME TypeOK, IsFiniteSet(posts), [Next]_vars PROVE TypeOK'
    OBVIOUS
<1> USE DEF web, tables, history
<1>1. CASE Write
    <2>1. latest + 1 \in Ext
        BY <1>1, ImporterAssumption DEF Write, TypeOK, Ext, ImporterAssumption
    <2>2. QED
        BY <1>1, <2>1 DEF Write, TypeOK
<1>2. ASSUME NEW e \in Ext, Remove(e) PROVE TypeOK'
    BY <1>2 DEF Remove, TypeOK
<1>3. ASSUME NEW kind \in {"import", "refresh"}, Begin(kind)
      PROVE  task' \in [Worker -> Task \union {Idle}] /\ overlapped' \in BOOLEAN
    BY <1>3, Beginning, Becoming DEF TypeOK
<1>4. CASE StartImport
    BY <1>4, <1>3 DEF StartImport, Begin, TypeOK
<1>5. CASE StartRefresh
    <2>1. refreshes' \in 0 .. MaxRefreshes
        BY <1>5, ImporterAssumption DEF StartRefresh, TypeOK, ImporterAssumption
    <2>2. QED
        BY <1>5, <1>3, <2>1 DEF StartRefresh, Begin, TypeOK
<1>6. ASSUME NEW w \in Worker, Stop(w) PROVE task' \in [Worker -> Task \union {Idle}]
    BY <1>6, Stopping
<1>7. ASSUME NEW w \in Worker, NEW t \in Task, Become(w, t)
      PROVE  task' \in [Worker -> Task \union {Idle}]
    BY <1>7, Becoming
<1>8. ASSUME NEW w \in Worker, Proceed(w) \/ Cancel(w) PROVE TypeOK'
    <2> DEFINE t == task[w]
    <2>1. task[w] \in Task
        BY <1>8, RunningTasks DEF Proceed, Cancel, Fetch, CreateThread, SetSource,
            ReadMap, CreatePost, MissThread, Record, Load, Announce, Step
    <2>2. CASE Fetch(w)
        <3>1. source \in SUBSET Ext
            BY DEF TypeOK
        <3>2. CASE Stop(w)
            BY <2>2, <3>2, <1>6 DEF Fetch, TypeOK
        <3>3. PICK s \in {"create", "read"} :
                  Stop(w) \/ Become(w, [t EXCEPT !.step = s, !.fetched = source])
            BY <2>2 DEF Fetch
        <3>4. [t EXCEPT !.step = s, !.fetched = source] \in Task
            BY <2>1, <3>1, TaskChanges DEF Step
        <3>5. QED
            BY <2>2, <3>2, <3>3, <3>4, <1>7 DEF Fetch, TypeOK
    <2>3. CASE CreateThread(w)
        <3>1. PICK op \in {{}, {<<Op, 1>>}} :
                  posts' = op /\ Become(w, [t EXCEPT !.step = "source", !.post = op])
            BY <2>3 DEF CreateThread
        <3>2. op \in SUBSET Copy
            BY FirstCopy
        <3>3. [t EXCEPT !.step = "source", !.post = op] \in Task
            BY <2>1, <3>2, TaskChanges DEF Step
        <3>4. QED
            BY <2>3, <3>1, <3>2, <3>3, <1>7 DEF CreateThread, TypeOK
    <2>4. CASE SetSource(w)
        <3>1. PICK s \in {"record", "next"} :
                  Become(w, [t EXCEPT !.step = s, !.ids[Op] = t.post])
            BY <2>4 DEF SetSource
        <3>2. t.post \in SUBSET Copy
            BY <2>1, TaskFields
        <3>3. [t EXCEPT !.step = s, !.ids[Op] = t.post] \in Task
            BY <2>1, <3>2, OpIsExt, TaskChanges DEF Step
        <3>4. QED
            BY <2>4, <3>1, <3>3, <1>7 DEF SetSource, TypeOK
    <2>5. CASE ReadMap(w)
        <3>1. /\ map \in [Ext -> SUBSET Copy]
              /\ [map EXCEPT ![Op] = {<<Op, 1>>}] \in [Ext -> SUBSET Copy]
            BY FirstCopy DEF TypeOK
        <3>2. \A ids \in [Ext -> SUBSET Copy] :
                  [t EXCEPT !.step = "next", !.ids = ids] \in Task
            BY <2>1, TaskChanges DEF Step
        <3>3. task' \in [Worker -> Task \union {Idle}]
            BY <2>5, <3>1, <3>2, <1>6, <1>7 DEF ReadMap
        <3>4. QED
            BY <2>5, <3>3 DEF ReadMap, TypeOK
    <2>6. CASE CreatePost(w)
        <3>1. PICK e \in Due(t), s \in {"next", "record"} :
                  /\ posts' = posts \union {NewCopy(e)}
                  /\ edges' = edges \union {<<NewCopy(e), p>> : p \in Parents(t, e)}
                  /\ Become(w, [t EXCEPT !.step = s, !.ids[e] = {NewCopy(e)},
                                         !.post = {NewCopy(e)}])
            BY <2>6 DEF CreatePost, NewCopy
        <3> DEFINE c == NewCopy(e)
        <3>2. e \in Ext
            BY <2>1, <3>1, TaskFields DEF Due, Todo
        <3>3. {c} \in SUBSET Copy
            BY <3>2, CopyOf
        <3>4. [t EXCEPT !.step = s, !.ids[e] = {c}, !.post = {c}] \in Task
            BY <2>1, <3>2, <3>3, TaskChanges DEF Step
        <3>5. Parents(t, e) \subseteq Copy
            BY <2>1, <3>2, TaskFields, ImporterAssumption
               DEF Parents, ImporterAssumption, TypeOK
        <3>6. QED
            BY <2>6, <3>1, <3>3, <3>4, <3>5, <1>7 DEF CreatePost, TypeOK
    <2>7. CASE MissThread(w)
        BY <2>7, <1>6 DEF MissThread, TypeOK
    <2>8. CASE Record(w)
        <3>1. CASE thread = "deleted"
            BY <2>8, <3>1, <1>6 DEF Record, TypeOK
        <3>2. CASE thread # "deleted"
            <4>1. PICK c \in t.post :
                      map' = [map EXCEPT ![c[1]] = IF @ = {} THEN {c} ELSE @]
                BY <2>8, <3>2 DEF Record
            <4>2. c \in Copy
                BY <2>1, TaskFields
            <4>3. c[1] \in Ext
                BY <4>2 DEF Copy
            <4>4. map' \in [Ext -> SUBSET Copy]
                BY <4>1, <4>2, <4>3 DEF TypeOK
            <4>5. [t EXCEPT !.step = "next", !.fresh = TRUE] \in Task
                BY <2>1, TaskChanges DEF Step
            <4>6. QED
                BY <2>8, <3>2, <4>4, <4>5, <1>7 DEF Record, TypeOK
        <3>3. QED
            BY <3>1, <3>2
    <2>9. CASE Load(w)
        <3>1. posts \in SUBSET Copy
            BY DEF TypeOK
        <3>2. [t EXCEPT !.step = "announce", !.details = posts] \in Task
            BY <2>1, <3>1, TaskChanges DEF Step
        <3>3. QED
            BY <2>9, <3>2, <1>6, <1>7 DEF Load, TypeOK
    <2>10. CASE Announce(w)
        BY <2>1, <2>10, <1>6, TaskFields DEF Announce, TypeOK
    <2>11. CASE Cancel(w)
        BY <2>11, <1>6 DEF Cancel, TypeOK
    <2>12. QED
        BY <1>8, <2>2, <2>3, <2>4, <2>5, <2>6, <2>7, <2>8, <2>9, <2>10, <2>11 DEF Proceed
<1>9. CASE DeleteThread
    BY <1>9 DEF DeleteThread, TypeOK
<1>10. CASE Kill
    BY <1>10 DEF Kill, TypeOK
<1>11. CASE UNCHANGED vars
    BY <1>11 DEF vars, TypeOK
<1>12. QED
    BY <1>1, <1>2, <1>4, <1>5, <1>8, <1>9, <1>10, <1>11 DEF Next

-----------------------------------------------------------------------------
(* What the steps of a handler do, field by field.                         *)

Moves(w) ==
    /\ w \in Running
    /\ Running' = Running
    /\ \A v \in Running \ {w} : task'[v] = task[v]
    /\ task'[w].kind = task[w].kind

Leaves(w) ==
    /\ w \in Running
    /\ Running' = Running \ {w}
    /\ \A v \in Running' : task'[v] = task[v]

LEMMA Leaving ==
    ASSUME TypeOK, NEW w \in Running, Stop(w)
    PROVE  Leaves(w)
BY RunningTasks, Stopping DEF Leaves

LEMMA Moving ==
    ASSUME TypeOK, NEW w \in Running, NEW t \in Task, Become(w, t), t.kind = task[w].kind
    PROVE  Moves(w) /\ task'[w] = t
<1>1. w \in Worker /\ t # Idle
    BY TaskFields, RunningTasks
<1>2. QED
    BY <1>1, Becoming DEF Moves, Running, TypeOK

LEMMA Fetching ==
    ASSUME TypeOK, NEW w \in Worker, Fetch(w)
    PROVE  /\ w \in Running /\ task[w].step = "fetch"
           /\ \/ Leaves(w)
              \/ /\ Moves(w)
                 /\ task'[w].step = IF task[w].kind = "import" THEN "create" ELSE "read"
                 /\ task'[w].fetched = source
                 /\ task'[w].ids = task[w].ids
                 /\ task'[w].post = task[w].post
           /\ UNCHANGED <<web, tables, refreshes, announced, history>>
<1> DEFINE t == task[w]
           u == [t EXCEPT !.step = IF t.kind = "import" THEN "create" ELSE "read",
                          !.fetched = source]
<1>1. w \in Running /\ t.step = "fetch" /\ t \in Task
    BY RunningTasks DEF Fetch, Step
<1>2. source \in SUBSET Ext
    BY DEF TypeOK
<1>3. u \in Task
    BY <1>1, <1>2, TaskChanges DEF Step
<1>4. /\ u.step = IF t.kind = "import" THEN "create" ELSE "read"
      /\ u.fetched = source /\ u.kind = t.kind /\ u.ids = t.ids /\ u.post = t.post
    BY <1>1 DEF Task
<1>5. CASE Stop(w)
    BY <1>1, <1>5, Leaving DEF Fetch
<1>6. CASE Become(w, u)
    BY <1>1, <1>3, <1>4, <1>6, Moving DEF Fetch
<1>7. QED
    BY <1>5, <1>6 DEF Fetch

LEMMA Creating ==
    ASSUME TypeOK, NEW w \in Worker, CreateThread(w)
    PROVE  /\ Moves(w) /\ task[w].step = "create"
           /\ task'[w].step = "source"
           /\ task'[w].fetched = task[w].fetched
           /\ task'[w].ids = task[w].ids
           /\ task'[w].post = posts'
           /\ posts' \in {{}, {<<Op, 1>>}}
           /\ platform = "reddit" => posts' # {}
           /\ thread' = "plain"
           /\ UNCHANGED <<web, edges, map, refreshes, announced, history>>
<1> DEFINE t == task[w]
<1>1. w \in Running /\ t.step = "create" /\ t \in Task
    BY RunningTasks DEF CreateThread, Step
<1>2. PICK op \in {{}, {<<Op, 1>>}} :
          /\ posts' = op /\ Become(w, [t EXCEPT !.step = "source", !.post = op])
          /\ platform = "reddit" => op # {}
    BY DEF CreateThread
<1>3. op \in SUBSET Copy
    BY FirstCopy
<1> DEFINE u == [t EXCEPT !.step = "source", !.post = op]
<1>4. u \in Task
    BY <1>1, <1>3, TaskChanges DEF Step
<1>5. /\ u.step = "source" /\ u.post = op
      /\ u.kind = t.kind /\ u.ids = t.ids /\ u.fetched = t.fetched
    BY <1>1 DEF Task
<1>6. Moves(w) /\ task'[w] = u
    BY <1>1, <1>2, <1>4, <1>5, Moving
<1>7. QED
    BY <1>1, <1>2, <1>5, <1>6 DEF CreateThread

LEMMA Sourcing ==
    ASSUME TypeOK, NEW w \in Worker, SetSource(w)
    PROVE  /\ Moves(w) /\ task[w].step = "source"
           /\ task'[w].step = IF platform = "4chan" /\ task[w].post # {}
                              THEN "record" ELSE "next"
           /\ task'[w].fetched = task[w].fetched
           /\ task'[w].ids[Op] = task[w].post
           /\ \A e \in Ext \ {Op} : task'[w].ids[e] = task[w].ids[e]
           /\ task'[w].post = task[w].post
           /\ thread' = IF thread = "plain" THEN "sourced" ELSE thread
           /\ UNCHANGED <<web, posts, edges, map, refreshes, announced, history>>
<1> DEFINE t == task[w]
<1>1. w \in Running /\ t.step = "source" /\ t \in Task
    BY RunningTasks DEF SetSource, Step
<1>2. PICK s \in {"record", "next"} :
          /\ s = IF platform = "4chan" /\ t.post # {} THEN "record" ELSE "next"
          /\ Become(w, [t EXCEPT !.step = s, !.ids[Op] = t.post])
    BY DEF SetSource
<1> DEFINE u == [t EXCEPT !.step = s, !.ids[Op] = t.post]
<1>3. t.post \in SUBSET Copy /\ t.ids \in [Ext -> SUBSET Copy]
    BY <1>1, TaskFields
<1>4. u \in Task
    BY <1>1, <1>3, OpIsExt, TaskChanges DEF Step
<1>5. /\ u.step = s /\ u.post = t.post
      /\ u.kind = t.kind /\ u.fetched = t.fetched
      /\ u.ids = [t.ids EXCEPT ![Op] = t.post]
    BY <1>1 DEF Task
<1>6. u.ids[Op] = t.post /\ \A e \in Ext \ {Op} : u.ids[e] = t.ids[e]
    BY <1>3, <1>5, OpIsExt
<1>7. Moves(w) /\ task'[w] = u
    BY <1>1, <1>2, <1>4, <1>5, Moving
<1>8. QED
    BY <1>1, <1>2, <1>5, <1>6, <1>7 DEF SetSource

LEMMA Reading ==
    ASSUME TypeOK, NEW w \in Worker, ReadMap(w)
    PROVE  /\ w \in Running /\ task[w].step = "read"
           /\ \/ Leaves(w)
              \/ /\ Moves(w)
                 /\ task'[w].step = "next"
                 /\ task'[w].fetched = task[w].fetched
                 /\ \A e \in Ext \ {Op} : task'[w].ids[e] = map[e]
                 /\ \/ platform = "4chan" /\ task'[w].ids[Op] = map[Op]
                    \/ /\ platform = "reddit" /\ Copies(Op) # {}
                       /\ task'[w].ids[Op] = {<<Op, 1>>}
           /\ UNCHANGED <<web, tables, refreshes, announced, history>>
<1> DEFINE t == task[w]
           ids == [map EXCEPT ![Op] = {<<Op, 1>>}]
           u(m) == [t EXCEPT !.step = "next", !.ids = m]
<1>1. w \in Running /\ t.step = "read" /\ t \in Task
    BY RunningTasks DEF ReadMap, Step
<1>2. map \in [Ext -> SUBSET Copy] /\ ids \in [Ext -> SUBSET Copy]
    BY FirstCopy DEF TypeOK
<1>3. ids[Op] = {<<Op, 1>>} /\ \A e \in Ext \ {Op} : ids[e] = map[e]
    BY <1>2, OpIsExt DEF TypeOK
<1>4. ASSUME NEW m \in [Ext -> SUBSET Copy], Become(w, u(m))
      PROVE  /\ Moves(w)
             /\ task'[w].step = "next" /\ task'[w].fetched = t.fetched
             /\ task'[w].ids = m
    <2>1. u(m) \in Task
        BY <1>1, TaskChanges DEF Step
    <2>2. /\ u(m).step = "next" /\ u(m).ids = m
          /\ u(m).kind = t.kind /\ u(m).fetched = t.fetched
        BY <1>1 DEF Task
    <2>3. QED
        BY <1>1, <1>4, <2>1, <2>2, Moving
<1>5. CASE platform = "reddit" /\ Stop(w)
    BY <1>1, <1>5, Leaving DEF ReadMap
<1>6. CASE platform = "4chan" /\ Become(w, u(map))
    BY <1>1, <1>2, <1>4, <1>6 DEF ReadMap
<1>7. CASE platform = "reddit" /\ Copies(Op) # {} /\ Become(w, u(ids))
    <2> HIDE DEF ids, u
    <2>1. /\ Moves(w)
          /\ task'[w].step = "next" /\ task'[w].fetched = t.fetched
          /\ task'[w].ids = ids
        BY <1>2, <1>4, <1>7
    <2>2. QED
        BY <1>1, <1>3, <1>7, <2>1 DEF ReadMap
<1>8. QED
    BY <1>5, <1>6, <1>7 DEF ReadMap

LEMMA Posting ==
    ASSUME TypeOK, NEW w \in Worker, CreatePost(w)
    PROVE  /\ Moves(w) /\ task[w].step = "next"
           /\ thread \in {"plain", "sourced"}
           /\ \E e \in Due(task[w]) :
                 /\ e \in Ext
                 /\ posts' = posts \union {NewCopy(e)}
                 /\ edges' = edges \union {<<NewCopy(e), p>> : p \in Parents(task[w], e)}
                 /\ task'[w].ids[e] = {NewCopy(e)}
                 /\ \A d \in Ext \ {e} : task'[w].ids[d] = task[w].ids[d]
                 /\ task'[w].post = {NewCopy(e)}
           /\ task'[w].step = IF platform = "reddit" /\ task[w].kind = "import"
                              THEN "next" ELSE "record"
           /\ task'[w].fetched = task[w].fetched
           /\ UNCHANGED <<web, thread, map, refreshes, announced, history>>
<1> DEFINE t == task[w]
           s == IF platform = "reddit" /\ t.kind = "import" THEN "next" ELSE "record"
           u(e, c) == [t EXCEPT !.step = s, !.ids[e] = {c}, !.post = {c}]
<1>1. w \in Running /\ t.step = "next" /\ t \in Task
    BY RunningTasks DEF CreatePost, Step
<1>2. PICK e \in Due(t) :
          /\ posts' = posts \union {NewCopy(e)}
          /\ edges' = edges \union {<<NewCopy(e), p>> : p \in Parents(t, e)}
          /\ Become(w, u(e, NewCopy(e)))
    BY DEF CreatePost, NewCopy
<1> DEFINE c == NewCopy(e)
<1>3. e \in Ext
    BY <1>1, TaskFields DEF Due, Todo
<1>4. t.ids \in [Ext -> SUBSET Copy]
    BY <1>1, TaskFields
<1>5. /\ u(e, c).step = s /\ u(e, c).post = {c} /\ u(e, c).kind = t.kind
      /\ u(e, c).fetched = t.fetched
      /\ u(e, c).ids = [t.ids EXCEPT ![e] = {c}]
    BY <1>1 DEF Task
<1>6. u(e, c).ids[e] = {c} /\ \A d \in Ext \ {e} : u(e, c).ids[d] = t.ids[d]
    BY <1>3, <1>4, <1>5
<1>7. task'[w] = u(e, c) /\ u(e, c) # Idle
    <2>1. s # "idle"
        OBVIOUS
    <2> HIDE DEF u, s
    <2>2. task'[w] = u(e, c)
        BY <1>2 DEF Become, TypeOK
    <2>3. u(e, c).step # Idle.step
        BY <1>5, <2>1 DEF Idle
    <2>4. QED
        BY <2>2, <2>3
<1>8. Moves(w)
    BY <1>1, <1>2, <1>5, <1>7, RunningTasks DEF Moves, Running, Become, TypeOK
<1>9. QED
    BY <1>1, <1>2, <1>3, <1>5, <1>6, <1>7, <1>8 DEF CreatePost

LEMMA Noting ==
    ASSUME TypeOK, NEW w \in Worker, Record(w)
    PROVE  /\ w \in Running /\ task[w].step = "record"
           /\ \/ thread = "deleted" /\ Leaves(w) /\ map' = map
              \/ /\ thread # "deleted" /\ Moves(w)
                 /\ task'[w].step = "next"
                 /\ task'[w].fetched = task[w].fetched
                 /\ task'[w].ids = task[w].ids
                 /\ task'[w].post = task[w].post
                 /\ task'[w].fresh
                 /\ \E c \in task[w].post :
                       /\ c[1] \in Ext
                       /\ map'[c[1]] = IF map[c[1]] = {} THEN {c} ELSE map[c[1]]
                       /\ \A e \in Ext \ {c[1]} : map'[e] = map[e]
           /\ UNCHANGED <<web, thread, posts, edges, refreshes, announced, history>>
<1> DEFINE t == task[w]
           u == [t EXCEPT !.step = "next", !.fresh = TRUE]
<1>1. w \in Running /\ t.step = "record" /\ t \in Task
    BY RunningTasks DEF Record, Step
<1>2. CASE thread = "deleted"
    BY <1>1, <1>2, Leaving DEF Record
<1>3. CASE thread # "deleted"
    <2>1. PICK c \in t.post : map' = [map EXCEPT ![c[1]] = IF @ = {} THEN {c} ELSE @]
        BY <1>3 DEF Record
    <2>2. c[1] \in Ext
        BY <1>1, TaskFields DEF Copy
    <2>3. /\ map'[c[1]] = IF map[c[1]] = {} THEN {c} ELSE map[c[1]]
          /\ \A e \in Ext \ {c[1]} : map'[e] = map[e]
        BY <2>1, <2>2 DEF TypeOK
    <2>4. u \in Task
        BY <1>1, TaskChanges DEF Step
    <2>5. /\ u.step = "next" /\ u.kind = t.kind /\ u.fetched = t.fetched
          /\ u.ids = t.ids /\ u.post = t.post /\ u.fresh
        BY <1>1 DEF Task
    <2>6. Moves(w) /\ task'[w] = u
        BY <1>1, <1>3, <2>4, <2>5, Moving DEF Record
    <2>7. QED
        BY <1>1, <1>3, <2>2, <2>3, <2>5, <2>6 DEF Record
<1>4. QED
    BY <1>2, <1>3

LEMMA Loading ==
    ASSUME TypeOK, NEW w \in Worker, Load(w)
    PROVE  /\ w \in Running /\ task[w].step = "next"
           /\ thread # "deleted"
           /\ \/ Leaves(w) /\ task[w].kind # "import" /\ ~task[w].fresh
              \/ /\ Moves(w)
                 /\ task'[w].step = "announce"
                 /\ task'[w].details = posts
                 /\ task'[w].fetched = task[w].fetched
                 /\ task'[w].ids = task[w].ids
                 /\ task'[w].post = task[w].post
           /\ UNCHANGED <<web, tables, refreshes, announced, history>>
<1> DEFINE t == task[w]
           u == [t EXCEPT !.step = "announce", !.details = posts]
<1>1. w \in Running /\ t.step = "next" /\ t \in Task
    BY RunningTasks DEF Load, Step
<1>2. posts \in SUBSET Copy
    BY DEF TypeOK
<1>3. u \in Task
    BY <1>1, <1>2, TaskChanges DEF Step
<1>4. /\ u.step = "announce" /\ u.kind = t.kind /\ u.fetched = t.fetched
      /\ u.ids = t.ids /\ u.post = t.post /\ u.details = posts
    BY <1>1, <1>2 DEF Task
<1>5. CASE Stop(w) /\ t.kind # "import" /\ ~t.fresh
    BY <1>1, <1>5, Leaving DEF Load
<1>6. CASE Become(w, u)
    BY <1>1, <1>3, <1>4, <1>6, Moving DEF Load
<1>7. QED
    BY <1>5, <1>6 DEF Load

\* The steps that end a handler and leave the tables alone.
LEMMA Ending ==
    ASSUME TypeOK, NEW w \in Worker, MissThread(w) \/ Announce(w) \/ Cancel(w)
    PROVE  /\ Leaves(w)
           /\ task[w].step \in {"next", "announce"}
           /\ UNCHANGED <<web, tables, refreshes, overlapped, torn>>
BY RunningTasks, Leaving DEF MissThread, Announce, Cancel, Step, history, tables

LEMMA Started ==
    ASSUME TypeOK, NEW kind \in {"import", "refresh"}, Begin(kind)
    PROVE  \E w \in Worker \ Running :
              /\ Running' = Running \union {w}
              /\ \A v \in Running : task'[v] = task[v]
              /\ task'[w].kind = kind /\ task'[w].step = "fetch"
              /\ task'[w].fetched = {} /\ task'[w].post = {}
              /\ \A e \in Ext : task'[w].ids[e] = {}
              /\ overlapped' = (overlapped \/ Running # {})
<1>1. PICK w \in Worker : /\ task[w] = Idle
                          /\ Become(w, Start(kind))
                          /\ Start(kind) \in Task
                          /\ overlapped' = (overlapped \/ Running # {})
    BY Beginning
<1>2. /\ task'[w] = Start(kind) /\ \A v \in Worker \ {w} : task'[v] = task[v]
      /\ Start(kind) # Idle
    BY <1>1, Becoming, IdleIsNoTask
<1>3. w \notin Running /\ Running' = Running \union {w}
    BY <1>1, <1>2 DEF Running
<1>4. \A v \in Running : task'[v] = task[v]
    BY <1>2, <1>3 DEF Running
<1>5. QED
    BY <1>1, <1>2, <1>3, <1>4 DEF Start

-----------------------------------------------------------------------------
(* The inductive invariant, part by part.                                 *)

LEMMA PhasesNext == IInv /\ [Next]_vars => Phases'
<1> SUFFICES ASSUME IInv, [Next]_vars PROVE Phases'
    OBVIOUS
<1> USE DEF web, tables, history
<1>0. TypeOK /\ \A w \in Running : w \in Worker
    BY RunningTasks DEF IInv
<1>1. CASE Write
    BY <1>0, <1>1 DEF IInv, Phases, StartsAlone, Moves, Leaves, Running, Write
<1>2. ASSUME NEW e \in Ext, Remove(e) PROVE Phases'
    BY <1>0, <1>2 DEF IInv, Phases, StartsAlone, Moves, Leaves, Running, Remove
<1>3. CASE StartImport
    <2>1. Begin("import") /\ thread = "none" /\ thread' = thread
        BY <1>3 DEF StartImport, Begin
    <2>2. QED
        BY <1>0, <2>1, Started DEF IInv, Phases
<1>4. CASE StartRefresh
    <2>1. Begin("refresh") /\ thread = "sourced" /\ thread' = thread
        BY <1>4 DEF StartRefresh, Begin
    <2>2. QED
        BY <1>0, <2>1, Started DEF IInv, Phases
<1>5. ASSUME NEW w \in Worker, Fetch(w) PROVE Phases'
    <2>1. task[w].kind \in {"import", "refresh"}
        BY <1>0, <1>5, Fetching, RunningTasks, TaskFields
    <2>2. CASE Leaves(w)
        BY <1>0, <1>5, <2>2, Fetching DEF IInv, Phases, Leaves
    <2>3. CASE Moves(w)
        BY <1>0, <1>5, <2>1, <2>3, Fetching DEF IInv, Phases, Moves, Leaves
    <2>4. QED
        BY <1>0, <1>5, <2>2, <2>3, Fetching
<1>6. ASSUME NEW w \in Worker, CreateThread(w) PROVE Phases'
    BY <1>0, <1>6, Creating DEF IInv, Phases, StartsAlone, Moves, Leaves, Running
<1>7. ASSUME NEW w \in Worker, SetSource(w) PROVE Phases'
    BY <1>0, <1>7, Sourcing DEF IInv, Phases, StartsAlone, Moves, Leaves, Running
<1>8. ASSUME NEW w \in Worker, ReadMap(w) PROVE Phases'
    BY <1>0, <1>8, Reading DEF IInv, Phases, StartsAlone, Moves, Leaves, Running
<1>9. ASSUME NEW w \in Worker, CreatePost(w) PROVE Phases'
    BY <1>0, <1>9, Posting DEF IInv, Phases, StartsAlone, Moves, Leaves, Running
<1>10. ASSUME NEW w \in Worker, Record(w) PROVE Phases'
    BY <1>0, <1>10, Noting DEF IInv, Phases, StartsAlone, Moves, Leaves, Running
<1>11. ASSUME NEW w \in Worker, Load(w) PROVE Phases'
    BY <1>0, <1>11, Loading DEF IInv, Phases, StartsAlone, Moves, Leaves, Running
<1>12. ASSUME NEW w \in Worker, MissThread(w) \/ Announce(w) \/ Cancel(w) PROVE Phases'
    BY <1>0, <1>12, Ending DEF IInv, Phases, StartsAlone, Moves, Leaves, Running
<1>13. CASE DeleteThread
    BY <1>0, <1>13 DEF IInv, Phases, StartsAlone, Moves, Leaves, Running, DeleteThread
<1>14. CASE Kill
    BY <1>0, <1>14 DEF IInv, Phases, StartsAlone, Moves, Leaves, Running, Kill, Running, Idle
<1>15. CASE UNCHANGED vars
    BY <1>0, <1>15 DEF IInv, Phases, StartsAlone, Moves, Leaves, Running, vars
<1>16. QED
    BY <1>1, <1>2, <1>3, <1>4, <1>5, <1>6, <1>7, <1>8, <1>9, <1>10, <1>11, <1>12, <1>13, <1>14, <1>15
       DEF Next, Proceed

LEMMA StartsAloneNext == IInv /\ [Next]_vars => StartsAlone'
<1> SUFFICES ASSUME IInv, [Next]_vars PROVE StartsAlone'
    OBVIOUS
<1> USE DEF web, tables, history
<1>0. TypeOK /\ \A w \in Running : w \in Worker
    BY RunningTasks DEF IInv
<1>1. CASE Write
    BY <1>0, <1>1 DEF IInv, Phases, StartsAlone, At, Moves, Leaves, Running, Write
<1>2. ASSUME NEW e \in Ext, Remove(e) PROVE StartsAlone'
    BY <1>0, <1>2 DEF IInv, Phases, StartsAlone, At, Moves, Leaves, Running, Remove
<1>3. CASE StartImport
    <2>1. Begin("import") /\ thread = "none" /\ Running = {}
        BY <1>3 DEF StartImport
    <2>2. UNCHANGED <<platform, thread, posts, edges, map, source>>
        BY <1>3 DEF StartImport, Begin
    <2>3. QED
        BY <1>0, <2>1, <2>2, Started DEF IInv, Phases, StartsAlone, At
<1>4. CASE StartRefresh
    <2>1. Begin("refresh") /\ thread = "sourced"
        BY <1>4 DEF StartRefresh
    <2>2. UNCHANGED <<platform, thread, posts, edges, map, source>>
        BY <1>4 DEF StartRefresh, Begin
    <2>3. QED
        BY <1>0, <2>1, <2>2, Started DEF IInv, Phases, StartsAlone, At
<1>5. ASSUME NEW w \in Worker, Fetch(w) PROVE StartsAlone'
    BY <1>0, <1>5, Fetching DEF IInv, Phases, StartsAlone, At, Moves, Leaves, Running
<1>6. ASSUME NEW w \in Worker, CreateThread(w) PROVE StartsAlone'
    BY <1>0, <1>6, Creating DEF IInv, Phases, StartsAlone, At, Moves, Leaves, Running
<1>7. ASSUME NEW w \in Worker, SetSource(w) PROVE StartsAlone'
    BY <1>0, <1>7, Sourcing DEF IInv, Phases, StartsAlone, At, Moves, Leaves, Running
<1>8. ASSUME NEW w \in Worker, ReadMap(w) PROVE StartsAlone'
    BY <1>0, <1>8, Reading DEF IInv, Phases, StartsAlone, At, Moves, Leaves, Running
<1>9. ASSUME NEW w \in Worker, CreatePost(w) PROVE StartsAlone'
    BY <1>0, <1>9, Posting DEF IInv, Phases, StartsAlone, At, Moves, Leaves, Running
<1>10. ASSUME NEW w \in Worker, Record(w) PROVE StartsAlone'
    BY <1>0, <1>10, Noting DEF IInv, Phases, StartsAlone, At, Moves, Leaves, Running
<1>11. ASSUME NEW w \in Worker, Load(w) PROVE StartsAlone'
    BY <1>0, <1>11, Loading DEF IInv, Phases, StartsAlone, At, Moves, Leaves, Running
<1>12. ASSUME NEW w \in Worker, MissThread(w) \/ Announce(w) \/ Cancel(w) PROVE StartsAlone'
    BY <1>0, <1>12, Ending DEF IInv, Phases, StartsAlone, At, Moves, Leaves, Running
<1>13. CASE DeleteThread
    BY <1>0, <1>13 DEF IInv, Phases, StartsAlone, At, Moves, Leaves, Running, DeleteThread
<1>14. CASE Kill
    BY <1>0, <1>14 DEF IInv, Phases, StartsAlone, At, Moves, Leaves, Running, Kill, Running, Idle
<1>15. CASE UNCHANGED vars
    BY <1>0, <1>15 DEF IInv, Phases, StartsAlone, At, Moves, Leaves, Running, vars
<1>16. QED
    BY <1>1, <1>2, <1>3, <1>4, <1>5, <1>6, <1>7, <1>8, <1>9, <1>10, <1>11, <1>12, <1>13, <1>14, <1>15
       DEF Next, Proceed

LEMMA ParentsNext == IInv /\ [Next]_vars => AnswersHaveParents'
<1> SUFFICES ASSUME IInv, [Next]_vars PROVE AnswersHaveParents'
    OBVIOUS
<1> USE DEF web, tables, history
<1>0. TypeOK /\ \A w \in Running : w \in Worker
    BY RunningTasks DEF IInv
<1>1. CASE Write
    BY <1>0, <1>1 DEF IInv, AnswersHaveParents, Moves, Leaves, Running, Write
<1>2. ASSUME NEW e \in Ext, Remove(e) PROVE AnswersHaveParents'
    BY <1>0, <1>2 DEF IInv, AnswersHaveParents, Moves, Leaves, Running, Remove
<1>3. CASE StartImport
    <2>1. Begin("import") /\ thread = "none"
        BY <1>3 DEF StartImport
    <2>2. UNCHANGED <<platform, thread, posts, edges, map, source>>
        BY <1>3 DEF StartImport, Begin
    <2>3. QED
        BY <1>0, <2>1, <2>2, Started DEF IInv, AnswersHaveParents
<1>4. CASE StartRefresh
    <2>1. Begin("refresh") /\ thread = "sourced"
        BY <1>4 DEF StartRefresh
    <2>2. UNCHANGED <<platform, thread, posts, edges, map, source>>
        BY <1>4 DEF StartRefresh, Begin
    <2>3. QED
        BY <1>0, <2>1, <2>2, Started DEF IInv, AnswersHaveParents
<1>5. ASSUME NEW w \in Worker, Fetch(w) PROVE AnswersHaveParents'
    BY <1>0, <1>5, Fetching DEF IInv, AnswersHaveParents, Moves, Leaves, Running
<1>6. ASSUME NEW w \in Worker, CreateThread(w) PROVE AnswersHaveParents'
    BY <1>0, <1>6, Creating DEF IInv, AnswersHaveParents, Moves, Leaves, Running
<1>7. ASSUME NEW w \in Worker, SetSource(w) PROVE AnswersHaveParents'
    BY <1>0, <1>7, Sourcing DEF IInv, AnswersHaveParents, Moves, Leaves, Running
<1>8. ASSUME NEW w \in Worker, ReadMap(w) PROVE AnswersHaveParents'
    BY <1>0, <1>8, Reading DEF IInv, AnswersHaveParents, Moves, Leaves, Running
<1>9. ASSUME NEW w \in Worker, CreatePost(w) PROVE AnswersHaveParents'
    BY <1>0, <1>9, Posting DEF IInv, AnswersHaveParents, Moves, Leaves, Running
<1>10. ASSUME NEW w \in Worker, Record(w) PROVE AnswersHaveParents'
    BY <1>0, <1>10, Noting DEF IInv, AnswersHaveParents, Moves, Leaves, Running
<1>11. ASSUME NEW w \in Worker, Load(w) PROVE AnswersHaveParents'
    BY <1>0, <1>11, Loading DEF IInv, AnswersHaveParents, Moves, Leaves, Running
<1>12. ASSUME NEW w \in Worker, MissThread(w) \/ Announce(w) \/ Cancel(w) PROVE AnswersHaveParents'
    BY <1>0, <1>12, Ending DEF IInv, AnswersHaveParents, Moves, Leaves, Running
<1>13. CASE DeleteThread
    BY <1>0, <1>13 DEF IInv, AnswersHaveParents, Moves, Leaves, Running, DeleteThread
<1>14. CASE Kill
    BY <1>0, <1>14 DEF IInv, AnswersHaveParents, Moves, Leaves, Running, Kill, Running, Idle
<1>15. CASE UNCHANGED vars
    BY <1>0, <1>15 DEF IInv, AnswersHaveParents, Moves, Leaves, Running, vars
<1>16. QED
    BY <1>1, <1>2, <1>3, <1>4, <1>5, <1>6, <1>7, <1>8, <1>9, <1>10, <1>11, <1>12, <1>13, <1>14, <1>15
       DEF Next, Proceed

LEMMA RedditOpNext == IInv /\ [Next]_vars => RedditOp'
<1> SUFFICES ASSUME IInv, [Next]_vars PROVE RedditOp'
    OBVIOUS
<1> USE DEF web, tables, history
<1>0. TypeOK /\ \A w \in Running : w \in Worker
    BY RunningTasks DEF IInv
<1>1. CASE Write
    BY <1>0, <1>1 DEF IInv, StartsAlone, RedditOp, Copies, At, Moves, Leaves, Running, Write
<1>2. ASSUME NEW e \in Ext, Remove(e) PROVE RedditOp'
    BY <1>0, <1>2 DEF IInv, StartsAlone, RedditOp, Copies, At, Moves, Leaves, Running, Remove
<1>3. CASE StartImport
    <2>1. Begin("import") /\ thread = "none"
        BY <1>3 DEF StartImport
    <2>2. UNCHANGED <<platform, thread, posts, edges, map, source>>
        BY <1>3 DEF StartImport, Begin
    <2>3. QED
        BY <1>0, <2>1, <2>2, Started DEF IInv, RedditOp, Copies
<1>4. CASE StartRefresh
    <2>1. Begin("refresh") /\ thread = "sourced"
        BY <1>4 DEF StartRefresh
    <2>2. UNCHANGED <<platform, thread, posts, edges, map, source>>
        BY <1>4 DEF StartRefresh, Begin
    <2>3. QED
        BY <1>0, <2>1, <2>2, Started DEF IInv, RedditOp, Copies
<1>5. ASSUME NEW w \in Worker, Fetch(w) PROVE RedditOp'
    BY <1>0, <1>5, Fetching DEF IInv, StartsAlone, RedditOp, Copies, At, Moves, Leaves, Running
<1>6. ASSUME NEW w \in Worker, CreateThread(w) PROVE RedditOp'
    BY <1>0, <1>6, Creating DEF IInv, StartsAlone, RedditOp, Copies, At, Moves, Leaves, Running
<1>7. ASSUME NEW w \in Worker, SetSource(w) PROVE RedditOp'
    BY <1>0, <1>7, Sourcing DEF IInv, StartsAlone, RedditOp, Copies, At, Moves, Leaves, Running
<1>8. ASSUME NEW w \in Worker, ReadMap(w) PROVE RedditOp'
    BY <1>0, <1>8, Reading DEF IInv, StartsAlone, RedditOp, Copies, At, Moves, Leaves, Running
<1>9. ASSUME NEW w \in Worker, CreatePost(w) PROVE RedditOp'
    <2>1. PICK e \in Due(task[w]) : /\ e \in Ext
                                    /\ posts' = posts \union {NewCopy(e)}
                                    /\ \A d \in Ext \ {e} : task'[w].ids[d] = task[w].ids[d]
        BY <1>0, <1>9, Posting
    <2>2. platform = "reddit" => e # Op
        BY <2>1 DEF Due, Todo
    <2>3. NewCopy(e)[1] = e
        BY DEF NewCopy
    <2>4. QED
        BY <1>0, <1>9, <2>1, <2>2, <2>3, OpIsExt, Posting DEF IInv, RedditOp, Copies, Moves, Leaves
<1>10. ASSUME NEW w \in Worker, Record(w) PROVE RedditOp'
    BY <1>0, <1>10, Noting DEF IInv, StartsAlone, RedditOp, Copies, At, Moves, Leaves, Running
<1>11. ASSUME NEW w \in Worker, Load(w) PROVE RedditOp'
    BY <1>0, <1>11, Loading DEF IInv, StartsAlone, RedditOp, Copies, At, Moves, Leaves, Running
<1>12. ASSUME NEW w \in Worker, MissThread(w) \/ Announce(w) \/ Cancel(w) PROVE RedditOp'
    BY <1>0, <1>12, Ending DEF IInv, StartsAlone, RedditOp, Copies, At, Moves, Leaves, Running
<1>13. CASE DeleteThread
    BY <1>0, <1>13 DEF IInv, StartsAlone, RedditOp, Copies, At, Moves, Leaves, Running, DeleteThread
<1>14. CASE Kill
    BY <1>0, <1>14 DEF IInv, StartsAlone, RedditOp, Copies, At, Moves, Leaves, Running, Kill, Running, Idle
<1>15. CASE UNCHANGED vars
    BY <1>0, <1>15 DEF IInv, StartsAlone, RedditOp, Copies, At, Moves, Leaves, Running, vars
<1>16. QED
    BY <1>1, <1>2, <1>3, <1>4, <1>5, <1>6, <1>7, <1>8, <1>9, <1>10, <1>11, <1>12, <1>13, <1>14, <1>15
       DEF Next, Proceed

LEMMA OneRunsNext == IInv /\ [Next]_vars => OneRuns'
<1> SUFFICES ASSUME IInv, [Next]_vars PROVE OneRuns'
    OBVIOUS
<1> USE DEF web, tables, history
<1>0. TypeOK /\ \A w \in Running : w \in Worker
    BY RunningTasks DEF IInv
<1>1. CASE Write
    BY <1>0, <1>1 DEF IInv, OneRuns, Moves, Leaves, Running, Write
<1>2. ASSUME NEW e \in Ext, Remove(e) PROVE OneRuns'
    BY <1>0, <1>2 DEF IInv, OneRuns, Moves, Leaves, Running, Remove
<1>3. CASE StartImport
    <2>1. Begin("import")
        BY <1>3 DEF StartImport
    <2>2. QED
        BY <1>0, <2>1, Started DEF IInv, OneRuns
<1>4. CASE StartRefresh
    <2>1. Begin("refresh")
        BY <1>4 DEF StartRefresh
    <2>2. QED
        BY <1>0, <2>1, Started DEF IInv, OneRuns
<1>5. ASSUME NEW w \in Worker, Fetch(w) PROVE OneRuns'
    BY <1>0, <1>5, Fetching DEF IInv, OneRuns, Moves, Leaves, Running
<1>6. ASSUME NEW w \in Worker, CreateThread(w) PROVE OneRuns'
    BY <1>0, <1>6, Creating DEF IInv, OneRuns, Moves, Leaves, Running
<1>7. ASSUME NEW w \in Worker, SetSource(w) PROVE OneRuns'
    BY <1>0, <1>7, Sourcing DEF IInv, OneRuns, Moves, Leaves, Running
<1>8. ASSUME NEW w \in Worker, ReadMap(w) PROVE OneRuns'
    BY <1>0, <1>8, Reading DEF IInv, OneRuns, Moves, Leaves, Running
<1>9. ASSUME NEW w \in Worker, CreatePost(w) PROVE OneRuns'
    BY <1>0, <1>9, Posting DEF IInv, OneRuns, Moves, Leaves, Running
<1>10. ASSUME NEW w \in Worker, Record(w) PROVE OneRuns'
    BY <1>0, <1>10, Noting DEF IInv, OneRuns, Moves, Leaves, Running
<1>11. ASSUME NEW w \in Worker, Load(w) PROVE OneRuns'
    BY <1>0, <1>11, Loading DEF IInv, OneRuns, Moves, Leaves, Running
<1>12. ASSUME NEW w \in Worker, MissThread(w) \/ Announce(w) \/ Cancel(w) PROVE OneRuns'
    BY <1>0, <1>12, Ending DEF IInv, OneRuns, Moves, Leaves, Running
<1>13. CASE DeleteThread
    BY <1>0, <1>13 DEF IInv, OneRuns, Moves, Leaves, Running, DeleteThread
<1>14. CASE Kill
    BY <1>0, <1>14 DEF IInv, OneRuns, Moves, Leaves, Running, Kill, Running, Idle
<1>15. CASE UNCHANGED vars
    BY <1>0, <1>15 DEF IInv, OneRuns, Moves, Leaves, Running, vars
<1>16. QED
    BY <1>1, <1>2, <1>3, <1>4, <1>5, <1>6, <1>7, <1>8, <1>9, <1>10, <1>11, <1>12, <1>13, <1>14, <1>15
       DEF Next, Proceed

LEMMA KnownNext == IInv /\ [Next]_vars => KnownIsStored'
<1> SUFFICES ASSUME IInv, [Next]_vars PROVE KnownIsStored'
    OBVIOUS
<1> USE DEF web, tables, history
<1>0. TypeOK /\ \A w \in Running : w \in Worker
    BY RunningTasks DEF IInv
<1>1. CASE Write
    BY <1>0, <1>1 DEF IInv, KnownIsStored, Copies, At, Moves, Leaves, Running, Write
<1>2. ASSUME NEW e \in Ext, Remove(e) PROVE KnownIsStored'
    BY <1>0, <1>2 DEF IInv, KnownIsStored, Copies, At, Moves, Leaves, Running, Remove
<1>3. CASE StartImport
    <2>1. Begin("import") /\ thread = "none"
        BY <1>3 DEF StartImport
    <2>2. UNCHANGED <<platform, thread, posts, edges, map, source>>
        BY <1>3 DEF StartImport, Begin
    <2>3. QED
        BY <1>0, <2>1, <2>2, Started DEF IInv, KnownIsStored, Copies, At
<1>4. CASE StartRefresh
    <2>1. Begin("refresh") /\ thread = "sourced"
        BY <1>4 DEF StartRefresh
    <2>2. UNCHANGED <<platform, thread, posts, edges, map, source>>
        BY <1>4 DEF StartRefresh, Begin
    <2>3. QED
        BY <1>0, <2>1, <2>2, Started DEF IInv, KnownIsStored, Copies, At
<1>5. ASSUME NEW w \in Worker, Fetch(w) PROVE KnownIsStored'
    BY <1>0, <1>5, Fetching DEF IInv, KnownIsStored, Copies, At, Moves, Leaves, Running
<1>6. ASSUME NEW w \in Worker, CreateThread(w) PROVE KnownIsStored'
    <2>1. /\ thread = "none" /\ posts = {} /\ edges = {}
          /\ \A v \in Running : v = w
        BY <1>0, <1>6, Creating DEF IInv, Phases, StartsAlone, Moves
    <2>2. IsFiniteSet(posts')
        <3>1. IsFiniteSet({}) /\ IsFiniteSet({<<Op, 1>>})
            BY FS_EmptySet, FS_Singleton
        <3>2. posts' \in {{}, {<<Op, 1>>}}
            BY <1>0, <1>6, Creating
        <3>3. QED
            BY <3>1, <3>2
    <2>3. QED
        BY <1>0, <1>6, <2>1, <2>2, Creating DEF IInv, KnownIsStored, Copies, At, Moves, Running
<1>7. ASSUME NEW w \in Worker, SetSource(w) PROVE KnownIsStored'
    <2>1. /\ task[w].post \subseteq {<<Op, 1>>}
          /\ thread # "deleted" => task[w].post \subseteq posts
        BY <1>0, <1>7, Sourcing DEF IInv, Phases, StartsAlone, At, Moves, Running
    <2>2. /\ \A c \in task[w].post : c[1] = Op
          /\ thread # "deleted" => task[w].post \subseteq Copies(Op)
        BY <2>1 DEF Copies
    <2>3. \A v \in Running : thread' # "deleted" =>
              /\ \A e \in Ext : task'[v].ids[e] \subseteq Copies(e)
              /\ At(v, "record")' => \A c \in task'[v].post : c \in task'[v].ids[c[1]]
        BY <1>0, <1>7, <2>2, Sourcing, OpIsExt DEF IInv, KnownIsStored, At, Moves, Running
    <2>4. \A v \in Running : At(v, "record")' => task'[v].post # {} /\ \A c, d \in task'[v].post : c = d
        BY <1>0, <1>7, <2>1, Sourcing DEF IInv, KnownIsStored, At, Moves, Running
    <2>5. QED
        BY <1>0, <1>7, <2>3, <2>4, Sourcing DEF IInv, KnownIsStored, Copies, At, Moves, Running
<1>8. ASSUME NEW w \in Worker, ReadMap(w) PROVE KnownIsStored'
    <2>1. platform = "reddit" /\ Copies(Op) # {} => {<<Op, 1>>} \subseteq Copies(Op)
        BY DEF IInv, RedditOp
    <2>2. Moves(w) => \A e \in Ext : task'[w].ids[e] \subseteq Copies(e)
        BY <1>0, <1>8, <2>1, Reading DEF IInv, KnownIsStored, Moves, Leaves
    <2>3. QED
        BY <1>0, <1>8, <2>2, Reading DEF IInv, KnownIsStored, Copies, At, Moves, Leaves, Running
<1>9. ASSUME NEW w \in Worker, CreatePost(w) PROVE KnownIsStored'
    <2>1. PICK e \in Due(task[w]) :
              /\ e \in Ext
              /\ posts' = posts \union {NewCopy(e)}
              /\ edges' = edges \union {<<NewCopy(e), p>> : p \in Parents(task[w], e)}
              /\ task'[w].ids[e] = {NewCopy(e)}
              /\ \A d \in Ext \ {e} : task'[w].ids[d] = task[w].ids[d]
              /\ task'[w].post = {NewCopy(e)}
        BY <1>0, <1>9, Posting
    <2>2. thread # "deleted" /\ thread' = thread /\ map' = map
        BY <1>0, <1>9, Posting
    <2>3. NewCopy(e)[1] = e
        BY DEF NewCopy
    <2>4. IsFiniteSet(posts')
        BY <2>1, FS_AddElement DEF IInv, KnownIsStored
    <2>5. \A d \in Ext : Copies(d) \subseteq Copies(d)'
        BY <2>1 DEF Copies
    <2>6. NewCopy(e) \in Copies(e)'
        BY <2>1, <2>3 DEF Copies
    <2>7. Parents(task[w], e) \subseteq posts
        BY <1>0, <1>9, <2>1, <2>2, Posting, ImporterAssumption
           DEF IInv, TypeOK, KnownIsStored, Copies, Parents, ImporterAssumption, Moves
    <2>8. edges' \subseteq posts' \X posts'
        BY <2>1, <2>7 DEF IInv, KnownIsStored
    <2>9. \A v \in Running : \A d \in Ext : task'[v].ids[d] \subseteq Copies(d)'
        BY <1>0, <1>9, <2>1, <2>2, <2>5, <2>6, Posting DEF IInv, KnownIsStored, Moves
    <2>10. \A v \in Running : At(v, "record")' =>
               /\ \A c \in task'[v].post : c \in task'[v].ids[c[1]]
               /\ task'[v].post # {} /\ \A c, d \in task'[v].post : c = d
        BY <1>0, <1>9, <2>1, <2>2, <2>3, Posting DEF IInv, KnownIsStored, Moves, At, Running
    <2>11. QED
        BY <1>0, <1>9, <2>2, <2>4, <2>5, <2>8, <2>9, <2>10, Posting DEF IInv, KnownIsStored, Moves
<1>10. ASSUME NEW w \in Worker, Record(w) PROVE KnownIsStored'
    <2>1. CASE thread = "deleted" /\ Leaves(w) /\ map' = map
        BY <1>0, <1>10, <2>1, Noting DEF IInv, KnownIsStored, Copies, At, Leaves, Running
    <2>2. CASE Moves(w) /\ thread # "deleted"
        <3>1. PICK c \in task[w].post :
                  /\ c[1] \in Ext
                  /\ map'[c[1]] = IF map[c[1]] = {} THEN {c} ELSE map[c[1]]
                  /\ \A e \in Ext \ {c[1]} : map'[e] = map[e]
            BY <1>0, <1>10, <2>2, Noting DEF Moves, Leaves
        <3>2. c \in Copies(c[1])
            BY <1>0, <1>10, <2>2, <3>1, Noting DEF IInv, KnownIsStored, At, Running
        <3>3. \A e \in Ext : map'[e] \subseteq Copies(e)
            BY <3>1, <3>2 DEF IInv, KnownIsStored
        <3>4. /\ UNCHANGED <<posts, edges, thread>>
              /\ task'[w].step = "next" /\ task'[w].ids = task[w].ids
            BY <1>0, <1>10, <2>2, Noting DEF Moves, Leaves
        <3>5. QED
            BY <2>2, <3>3, <3>4 DEF IInv, KnownIsStored, Copies, At, Moves, Running
    <2>3. QED
        BY <1>0, <1>10, <2>1, <2>2, Noting
<1>11. ASSUME NEW w \in Worker, Load(w) PROVE KnownIsStored'
    BY <1>0, <1>11, Loading DEF IInv, KnownIsStored, Copies, At, Moves, Leaves, Running
<1>12. ASSUME NEW w \in Worker, MissThread(w) \/ Announce(w) \/ Cancel(w) PROVE KnownIsStored'
    BY <1>0, <1>12, Ending DEF IInv, KnownIsStored, Copies, At, Moves, Leaves, Running
<1>13. CASE DeleteThread
    BY <1>0, <1>13, FS_EmptySet DEF IInv, DeleteThread, KnownIsStored, Copies, At, Running
<1>14. CASE Kill
    BY <1>0, <1>14 DEF IInv, KnownIsStored, Copies, At, Moves, Leaves, Running, Kill, Running, Idle
<1>15. CASE UNCHANGED vars
    BY <1>0, <1>15 DEF IInv, KnownIsStored, Copies, At, Moves, Leaves, Running, vars
<1>16. QED
    BY <1>1, <1>2, <1>3, <1>4, <1>5, <1>6, <1>7, <1>8, <1>9, <1>10, <1>11, <1>12, <1>13, <1>14, <1>15
       DEF Next, Proceed

\* A handler that runs while no two have overlapped is the only one.
LEMMA Alone ==
    ASSUME IInv, ~overlapped \/ thread = "plain", NEW w \in Running
    PROVE  Running = {w}
BY DEF IInv, OneRuns, StartsAlone

LEMMA OneMore ==
    ASSUME NEW S, IsFiniteSet(S), NEW x
    PROVE  Cardinality(S \union {x}) <= Cardinality(S) + 1
<1>1. Cardinality(S) \in Nat
    BY FS_CardinalityType
<1>2. CASE x \in S
    <2>1. S \union {x} = S
        BY <1>2
    <2>2. QED
        BY <1>1, <2>1
<1>3. CASE x \notin S
    <2>1. Cardinality(S \union {x}) = Cardinality(S) + 1
        BY <1>3, FS_AddElement
    <2>2. QED
        BY <1>1, <2>1
<1>4. QED
    BY <1>2, <1>3

LEMMA CountedNext == IInv /\ [Next]_vars => CopiesAreCounted'
<1> SUFFICES ASSUME IInv, [Next]_vars PROVE CopiesAreCounted'
    OBVIOUS
<1> USE DEF web, tables, history
<1>0. TypeOK /\ \A w \in Running : w \in Worker
    BY RunningTasks DEF IInv
<1>1. CASE Write
    BY <1>0, <1>1 DEF IInv, CopiesAreCounted, Calm, Limit, Unrecorded, Recording, Copies, At, Moves, Leaves, Running, Write
<1>2. ASSUME NEW e \in Ext, Remove(e) PROVE CopiesAreCounted'
    BY <1>0, <1>2 DEF IInv, CopiesAreCounted, Calm, Limit, Unrecorded, Recording, Copies, At, Moves, Leaves, Running, Remove
<1>3. CASE StartImport
    <2>1. Begin("import") /\ thread = "none"
        BY <1>3 DEF StartImport
    <2>2. UNCHANGED <<platform, thread, posts, map, torn>>
        BY <1>3 DEF StartImport, Begin
    <2>3. QED
        BY <1>0, <2>1, <2>2, Started DEF IInv, CopiesAreCounted, Calm, Limit, Unrecorded, Recording, Copies, At
<1>4. CASE StartRefresh
    <2>1. Begin("refresh") /\ thread = "sourced"
        BY <1>4 DEF StartRefresh
    <2>2. UNCHANGED <<platform, thread, posts, map, torn>>
        BY <1>4 DEF StartRefresh, Begin
    <2>3. QED
        BY <1>0, <2>1, <2>2, Started DEF IInv, CopiesAreCounted, Calm, Limit, Unrecorded, Recording, Copies, At
<1>5. ASSUME NEW w \in Worker, Fetch(w) PROVE CopiesAreCounted'
    BY <1>0, <1>5, Fetching DEF IInv, CopiesAreCounted, Calm, Limit, Unrecorded, Recording, Copies, At, Moves, Leaves, Running
<1>6. ASSUME NEW w \in Worker, CreateThread(w) PROVE CopiesAreCounted'
    BY <1>0, <1>6, Creating DEF CopiesAreCounted
<1>7. ASSUME NEW w \in Worker, SetSource(w) PROVE CopiesAreCounted'
    <2> SUFFICES ASSUME Calm', thread' = "sourced", NEW e \in Ext
                 PROVE  \/ platform' = "reddit" /\ e = Op
                        \/ /\ Cardinality(Copies(e))' <= Limit(e)'
                           /\ Unrecorded(e)' => Cardinality(Copies(e))' < Limit(e)'
        BY DEF CopiesAreCounted
    <2>1. /\ thread = "plain" /\ posts = task[w].post /\ map[e] = {}
          /\ posts \subseteq {<<Op, 1>>}
        BY <1>0, <1>7, Sourcing DEF IInv, Phases, StartsAlone, At, Moves, Running
    <2>2. /\ posts' = posts /\ platform' = platform /\ Copies(e)' = Copies(e)
        BY <1>0, <1>7, Sourcing DEF Copies
    <2>3. Limit(e)' = Limit(e) /\ Limit(e) \in {1, 2}
        BY <2>2 DEF Limit
    <2>4. CASE e # Op
        <3>1. Copies(e) = {}
            BY <2>1, <2>4 DEF Copies
        <3>2. Cardinality(Copies(e)) = 0
            BY <3>1, FS_EmptySet
        <3>3. QED
            BY <2>2, <2>3, <3>2
    <2>5. CASE posts = {}
        <3>1. Copies(e) = {}
            BY <2>5 DEF Copies
        <3>2. Cardinality(Copies(e)) = 0
            BY <3>1, FS_EmptySet
        <3>3. QED
            BY <2>2, <2>3, <3>2
    <2>6. CASE e = Op /\ posts # {} /\ platform = "4chan"
        <3>1. posts = {<<Op, 1>>} /\ Copies(e) = {<<Op, 1>>}
            BY <2>1, <2>6 DEF Copies
        <3>2. Cardinality(Copies(e)) = 1
            BY <3>1, FS_Singleton
        <3>3. task'[w].step = "record" /\ task'[w].post = {<<Op, 1>>} /\ w \in Running'
            BY <1>0, <1>7, <2>1, <2>6, <3>1, Sourcing DEF Moves
        <3>4. Recording(e)'
            <4>1. At(w, "record")' /\ <<Op, 1>> \in task'[w].post
                BY <3>3 DEF At, Running
            <4>2. <<Op, 1>>[1] = e
                BY <2>6
            <4>3. QED
                BY <3>3, <4>1, <4>2 DEF Recording
        <3>5. QED
            BY <2>2, <2>3, <3>2, <3>4 DEF Unrecorded
    <2>7. platform \in {"4chan", "reddit"}
        BY DEF IInv, TypeOK, Platform
    <2>8. QED
        BY <2>2, <2>4, <2>5, <2>6, <2>7
<1>8. ASSUME NEW w \in Worker, ReadMap(w) PROVE CopiesAreCounted'
    BY <1>0, <1>8, Reading DEF IInv, CopiesAreCounted, Calm, Limit, Unrecorded, Recording, Copies, At, Moves, Leaves, Running
<1>9. ASSUME NEW w \in Worker, CreatePost(w) PROVE CopiesAreCounted'
    <2> SUFFICES ASSUME Calm', thread' = "sourced", NEW d \in Ext
                 PROVE  \/ platform' = "reddit" /\ d = Op
                        \/ /\ Cardinality(Copies(d))' <= Limit(d)'
                           /\ Unrecorded(d)' => Cardinality(Copies(d))' < Limit(d)'
        BY DEF CopiesAreCounted
    <2>1. PICK e \in Due(task[w]) : /\ e \in Ext
                                    /\ posts' = posts \union {NewCopy(e)}
                                    /\ task'[w].post = {NewCopy(e)}
        BY <1>0, <1>9, Posting
    <2>2. /\ thread = "sourced" /\ Calm /\ platform' = platform /\ map' = map
          /\ task[w].step = "next" /\ w \in Running /\ Running' = Running
        BY <1>0, <1>9, Posting DEF Calm, Moves
    <2>3. Running = {w}
        BY <2>2, Alone DEF Calm
    <2>4. Limit(d)' = Limit(d) /\ Limit(d) \in {1, 2}
        BY <2>2 DEF Limit
    <2>5. NewCopy(e)[1] = e
        BY DEF NewCopy
    <2>6. ~Recording(d)
        BY <2>2, <2>3 DEF Recording, At
    <2>7. CASE d # e
        <3>1. Copies(d)' = Copies(d)
            BY <2>1, <2>5, <2>7 DEF Copies
        <3>2. Unrecorded(d)' => Unrecorded(d)
            BY <2>2, <2>6 DEF Unrecorded
        <3>3. QED
            BY <2>2, <2>4, <3>1, <3>2 DEF IInv, CopiesAreCounted
    <2>8. CASE d = e
        <3>1. IsFiniteSet(Copies(e)) /\ Cardinality(Copies(e)) \in Nat
            BY CopyOf, <2>1, FS_CardinalityType DEF IInv, KnownIsStored
        <3>2. Copies(e)' = Copies(e) \union {NewCopy(e)}
            BY <2>1, <2>5 DEF Copies
        <3>3. Cardinality(Copies(e))' <= Cardinality(Copies(e)) + 1
            <4>1. Cardinality(Copies(e) \union {NewCopy(e)}) <= Cardinality(Copies(e)) + 1
                BY <3>1, OneMore
            <4>2. QED
                BY <3>2, <4>1
        <3>4. task[w].ids[e] = {} /\ (platform = "reddit" => e # Op)
            BY <2>1 DEF Due, Todo
        <3>5. Unrecorded(e) /\ (task[w].kind = "import" => Copies(e) = {})
            BY <2>1, <2>2, <3>4 DEF IInv, UnknownIsUnrecorded
        <3>6. Cardinality(Copies(e)) < Limit(e)
            BY <2>1, <2>2, <3>4, <3>5 DEF IInv, CopiesAreCounted
        <3>7. Cardinality(Copies(e))' \in Nat
            <4>1. IsFiniteSet(Copies(e)')
                BY <3>1, <3>2, FS_AddElement
            <4>2. QED
                BY <4>1, FS_CardinalityType
        <3>8. CASE task'[w].step = "record"
            <4>1. Recording(e)'
                BY <2>1, <2>2, <2>5, <3>8 DEF Recording, At, Running
            <4>2. QED
                BY <2>4, <2>8, <3>1, <3>3, <3>6, <3>7, <4>1 DEF Unrecorded
        <3>9. CASE platform = "reddit" /\ task[w].kind = "import"
            <4>1. Cardinality(Copies(e)) = 0 /\ Limit(e) = 2
                BY <3>4, <3>5, <3>9, FS_EmptySet DEF Limit
            <4>2. QED
                BY <2>4, <2>8, <3>3, <3>7, <4>1
        <3>10. QED
            BY <1>0, <1>9, <3>8, <3>9, Posting
    <2>9. QED
        BY <2>7, <2>8
<1>10. ASSUME NEW w \in Worker, Record(w) PROVE CopiesAreCounted'
    <2> SUFFICES ASSUME Calm', thread' = "sourced", NEW d \in Ext
                 PROVE  \/ platform' = "reddit" /\ d = Op
                        \/ /\ Cardinality(Copies(d))' <= Limit(d)'
                           /\ Unrecorded(d)' => Cardinality(Copies(d))' < Limit(d)'
        BY DEF CopiesAreCounted
    <2>1. /\ thread = "sourced" /\ Calm /\ platform' = platform /\ posts' = posts
          /\ w \in Running /\ task[w].step = "record"
        BY <1>0, <1>10, Noting DEF Calm
    <2>2. PICK c \in task[w].post :
              /\ c[1] \in Ext
              /\ map'[c[1]] = IF map[c[1]] = {} THEN {c} ELSE map[c[1]]
              /\ \A e \in Ext \ {c[1]} : map'[e] = map[e]
        BY <1>0, <1>10, <2>1, Noting
    <2>3. Running = {w} /\ \A b \in task[w].post : b = c
        BY <2>1, <2>2, Alone DEF Calm, IInv, KnownIsStored, At, Running
    <2>4. Limit(d)' = Limit(d) /\ Copies(d)' = Copies(d)
        BY <2>1 DEF Limit, Copies
    <2>5. Unrecorded(d)' => Unrecorded(d)
        BY <2>2, <2>3 DEF Unrecorded, Recording
    <2>6. QED
        BY <2>1, <2>4, <2>5 DEF IInv, CopiesAreCounted
<1>11. ASSUME NEW w \in Worker, Load(w) PROVE CopiesAreCounted'
    BY <1>0, <1>11, Loading DEF IInv, CopiesAreCounted, Calm, Limit, Unrecorded, Recording, Copies, At, Moves, Leaves, Running
<1>12. ASSUME NEW w \in Worker, MissThread(w) \/ Announce(w) \/ Cancel(w) PROVE CopiesAreCounted'
    BY <1>0, <1>12, Ending DEF IInv, CopiesAreCounted, Calm, Limit, Unrecorded, Recording, Copies, At, Moves, Leaves, Running
<1>13. CASE DeleteThread
    BY <1>13 DEF DeleteThread, CopiesAreCounted
<1>14. CASE Kill
    BY <1>0, <1>14 DEF IInv, CopiesAreCounted, Calm, Limit, Unrecorded, Recording, Copies, At, Moves, Leaves, Running, Kill, Running, Idle
<1>15. CASE UNCHANGED vars
    BY <1>0, <1>15 DEF IInv, CopiesAreCounted, Calm, Limit, Unrecorded, Recording, Copies, At, Moves, Leaves, Running, vars
<1>16. QED
    BY <1>1, <1>2, <1>3, <1>4, <1>5, <1>6, <1>7, <1>8, <1>9, <1>10, <1>11, <1>12, <1>13, <1>14, <1>15
       DEF Next, Proceed

LEMMA UnknownNext == IInv /\ [Next]_vars => UnknownIsUnrecorded'
<1> SUFFICES ASSUME IInv, [Next]_vars PROVE UnknownIsUnrecorded'
    OBVIOUS
<1> USE DEF web, tables, history
<1>0. TypeOK /\ \A w \in Running : w \in Worker
    BY RunningTasks DEF IInv
<1>1. CASE Write
    BY <1>0, <1>1 DEF IInv, UnknownIsUnrecorded, Calm, Unrecorded, Recording, Copies, At, Moves, Leaves, Running, Write
<1>2. ASSUME NEW e \in Ext, Remove(e) PROVE UnknownIsUnrecorded'
    BY <1>0, <1>2 DEF IInv, UnknownIsUnrecorded, Calm, Unrecorded, Recording, Copies, At, Moves, Leaves, Running, Remove
<1>3. CASE StartImport
    <2>1. Begin("import") /\ thread = "none"
        BY <1>3 DEF StartImport
    <2>2. UNCHANGED <<platform, thread, posts, map, torn>>
        BY <1>3 DEF StartImport, Begin
    <2>3. QED
        BY <1>0, <2>1, <2>2, Started DEF IInv, UnknownIsUnrecorded, Calm, Unrecorded, Recording, Copies, At
<1>4. CASE StartRefresh
    <2>1. Begin("refresh") /\ thread = "sourced"
        BY <1>4 DEF StartRefresh
    <2>2. UNCHANGED <<platform, thread, posts, map, torn>>
        BY <1>4 DEF StartRefresh, Begin
    <2>3. QED
        BY <1>0, <2>1, <2>2, Started DEF IInv, UnknownIsUnrecorded, Calm, Unrecorded, Recording, Copies, At
<1>5. ASSUME NEW w \in Worker, Fetch(w) PROVE UnknownIsUnrecorded'
    BY <1>0, <1>5, Fetching DEF IInv, UnknownIsUnrecorded, Calm, Unrecorded, Recording, Copies, At, Moves, Leaves, Running
<1>6. ASSUME NEW w \in Worker, CreateThread(w) PROVE UnknownIsUnrecorded'
    BY <1>0, <1>6, Creating DEF UnknownIsUnrecorded
<1>7. ASSUME NEW w \in Worker, SetSource(w) PROVE UnknownIsUnrecorded'
    <2> SUFFICES ASSUME Calm', thread' = "sourced", NEW v \in Running',
                        task'[v].step \in {"next", "record"},
                        NEW d \in Ext, task'[v].ids[d] = {}
                 PROVE  /\ map'[d] = {} /\ ~Recording(d)'
                        /\ task'[v].kind = "import" => Copies(d)' = {}
        BY DEF UnknownIsUnrecorded, Unrecorded
    <2>1. /\ thread = "plain" /\ posts = task[w].post /\ map[d] = {}
          /\ posts \subseteq {<<Op, 1>>}
        BY <1>0, <1>7, Sourcing DEF IInv, Phases, StartsAlone, At, Moves, Running
    <2>2. Running' = {w} /\ v = w
        BY <1>0, <1>7, <2>1, Sourcing, Alone DEF Moves
    <2>3. Copies(d) = {}
        <3>1. CASE d = Op
            BY <1>0, <1>7, <2>1, <2>2, <3>1, Sourcing DEF Copies
        <3>2. CASE d # Op
            BY <2>1, <3>2 DEF Copies
        <3>3. QED
            BY <3>1, <3>2
    <2>4. posts' = posts /\ map' = map /\ task'[w].post = posts
        BY <1>0, <1>7, <2>1, Sourcing
    <2>5. \A c \in task'[w].post : c[1] # d
        BY <2>3, <2>4 DEF Copies
    <2>6. QED
        BY <2>1, <2>2, <2>3, <2>4, <2>5 DEF Recording, Copies
<1>8. ASSUME NEW w \in Worker, ReadMap(w) PROVE UnknownIsUnrecorded'
    <2> SUFFICES ASSUME Calm', thread' = "sourced", NEW v \in Running',
                        task'[v].step \in {"next", "record"},
                        NEW d \in Ext, task'[v].ids[d] = {}
                 PROVE  /\ map'[d] = {} /\ ~Recording(d)'
                        /\ task'[v].kind = "import" => Copies(d)' = {}
        BY DEF UnknownIsUnrecorded, Unrecorded
    <2>1. /\ thread = "sourced" /\ Calm /\ UNCHANGED <<posts, map>>
          /\ w \in Running /\ task[w].step = "read" /\ task[w].kind = "refresh"
        BY <1>0, <1>8, Reading DEF Calm, IInv, Phases
    <2>2. Running = {w}
        BY <2>1, Alone DEF Calm
    <2>3. Moves(w) /\ v = w
        BY <1>0, <1>8, <2>2, Reading DEF Moves, Leaves
    <2>4. /\ task'[w].step = "next" /\ task'[w].kind = "refresh"
          /\ task'[w].ids[d] \in {map[d], {<<Op, 1>>}}
        BY <1>0, <1>8, <2>1, <2>3, Reading DEF Moves, Leaves
    <2>5. map'[d] = {}
        BY <2>1, <2>3, <2>4
    <2>6. ~Recording(d)'
        BY <2>2, <2>3, <2>4 DEF Recording, At, Moves
    <2>7. QED
        BY <2>3, <2>4, <2>5, <2>6
<1>9. ASSUME NEW w \in Worker, CreatePost(w) PROVE UnknownIsUnrecorded'
    <2> SUFFICES ASSUME Calm', thread' = "sourced", NEW v \in Running',
                        task'[v].step \in {"next", "record"},
                        NEW d \in Ext, task'[v].ids[d] = {}
                 PROVE  /\ map'[d] = {} /\ ~Recording(d)'
                        /\ task'[v].kind = "import" => Copies(d)' = {}
        BY DEF UnknownIsUnrecorded, Unrecorded
    <2>1. PICK e \in Due(task[w]) :
              /\ e \in Ext
              /\ posts' = posts \union {NewCopy(e)}
              /\ task'[w].ids[e] = {NewCopy(e)}
              /\ \A b \in Ext \ {e} : task'[w].ids[b] = task[w].ids[b]
              /\ task'[w].post = {NewCopy(e)}
        BY <1>0, <1>9, Posting
    <2>2. /\ thread = "sourced" /\ Calm /\ map' = map /\ Moves(w)
          /\ task[w].step = "next" /\ w \in Running /\ Running' = Running
        BY <1>0, <1>9, Posting DEF Calm, Moves
    <2>3. Running = {w} /\ v = w
        BY <2>2, Alone DEF Calm
    <2>4. d # e /\ task[w].ids[d] = {}
        BY <2>1, <2>3
    <2>5. Unrecorded(d) /\ (task[w].kind = "import" => Copies(d) = {})
        BY <2>2, <2>4 DEF IInv, UnknownIsUnrecorded
    <2>6. NewCopy(e)[1] # d
        BY <2>4 DEF NewCopy
    <2>7. Copies(d)' = Copies(d)
        BY <2>1, <2>6 DEF Copies
    <2>8. ~Recording(d)'
        BY <2>1, <2>2, <2>3, <2>6 DEF Recording
    <2>9. QED
        BY <2>2, <2>3, <2>5, <2>7, <2>8 DEF Unrecorded, Moves
<1>10. ASSUME NEW w \in Worker, Record(w) PROVE UnknownIsUnrecorded'
    <2> SUFFICES ASSUME Calm', thread' = "sourced", NEW v \in Running',
                        task'[v].step \in {"next", "record"},
                        NEW d \in Ext, task'[v].ids[d] = {}
                 PROVE  /\ map'[d] = {} /\ ~Recording(d)'
                        /\ task'[v].kind = "import" => Copies(d)' = {}
        BY DEF UnknownIsUnrecorded, Unrecorded
    <2>1. /\ thread = "sourced" /\ Calm /\ posts' = posts
          /\ w \in Running /\ task[w].step = "record" /\ Moves(w)
          /\ task'[w].step = "next" /\ task'[w].ids = task[w].ids
        BY <1>0, <1>10, Noting DEF Calm
    <2>2. PICK c \in task[w].post : \A e \in Ext \ {c[1]} : map'[e] = map[e]
        BY <1>0, <1>10, <2>1, Noting
    <2>3. Running = {w} /\ v = w
        BY <2>1, Alone DEF Calm, Moves
    <2>4. Unrecorded(d) /\ (task[w].kind = "import" => Copies(d) = {})
        BY <2>1, <2>3 DEF IInv, UnknownIsUnrecorded
    <2>5. c[1] # d
        BY <2>1, <2>2, <2>4 DEF Unrecorded, Recording, At, Running
    <2>6. ~Recording(d)'
        BY <2>1, <2>3 DEF Recording, At, Moves
    <2>7. QED
        BY <2>1, <2>2, <2>3, <2>4, <2>5, <2>6 DEF Unrecorded, Copies, Moves
<1>11. ASSUME NEW w \in Worker, Load(w) PROVE UnknownIsUnrecorded'
    BY <1>0, <1>11, Loading DEF IInv, UnknownIsUnrecorded, Calm, Unrecorded, Recording, Copies, At, Moves, Leaves, Running
<1>12. ASSUME NEW w \in Worker, MissThread(w) \/ Announce(w) \/ Cancel(w) PROVE UnknownIsUnrecorded'
    BY <1>0, <1>12, Ending DEF IInv, UnknownIsUnrecorded, Calm, Unrecorded, Recording, Copies, At, Moves, Leaves, Running
<1>13. CASE DeleteThread
    BY <1>13 DEF DeleteThread, UnknownIsUnrecorded
<1>14. CASE Kill
    <2>1. Running' = {}
        BY <1>14 DEF Kill, Running
    <2>2. QED
        BY <2>1 DEF UnknownIsUnrecorded
<1>15. CASE UNCHANGED vars
    BY <1>0, <1>15 DEF IInv, UnknownIsUnrecorded, Calm, Unrecorded, Recording, Copies, At, Moves, Leaves, Running, vars
<1>16. QED
    BY <1>1, <1>2, <1>3, <1>4, <1>5, <1>6, <1>7, <1>8, <1>9, <1>10, <1>11, <1>12, <1>13, <1>14, <1>15
       DEF Next, Proceed

-----------------------------------------------------------------------------
(* The theorems.                                                           *)

LEMMA InitInv == Init => IInv
<1> SUFFICES ASSUME Init PROVE IInv
    OBVIOUS
<1>1. TypeOK
    BY InitType
<1>2. Running = {} /\ posts = {} /\ edges = {} /\ (\A e \in Ext : map[e] = {})
    BY DEF Init, Running
<1>3. Copies(Op) = {}
    BY <1>2 DEF Copies
<1>4. platform = "reddit" => \A e \in source : Refs[platform][e] \subseteq source
    BY OpIsExt, ImporterAssumption DEF Init, ImporterAssumption, Platform, Op, Ext
<1>5. Phases /\ StartsAlone /\ OneRuns /\ CopiesAreCounted /\ UnknownIsUnrecorded
    BY <1>2 DEF Init, Phases, StartsAlone, OneRuns, CopiesAreCounted, UnknownIsUnrecorded
<1>6. KnownIsStored
    BY <1>2, FS_EmptySet DEF KnownIsStored
<1>7. RedditOp /\ AnswersHaveParents
    BY <1>2, <1>3, <1>4 DEF RedditOp, AnswersHaveParents
<1>8. QED
    BY <1>1, <1>5, <1>6, <1>7 DEF IInv

LEMMA NextInv == IInv /\ [Next]_vars => IInv'
<1> SUFFICES ASSUME IInv, [Next]_vars PROVE IInv'
    OBVIOUS
<1>1. TypeOK'
    BY TypeNext DEF IInv, KnownIsStored
<1>2. Phases' /\ StartsAlone' /\ AnswersHaveParents' /\ KnownIsStored'
    BY PhasesNext, StartsAloneNext, ParentsNext, KnownNext
<1>3. RedditOp' /\ OneRuns' /\ CopiesAreCounted' /\ UnknownIsUnrecorded'
    BY RedditOpNext, OneRunsNext, CountedNext, UnknownNext
<1>4. QED
    BY <1>1, <1>2, <1>3 DEF IInv

\* What was just said of each step holds of every state: posts, map and
\* handlers agree on what is stored and on what is not.
THEOREM ImporterInvariant == Spec => []IInv
<1>1. QED
    BY InitInv, NextInv, PTL DEF Spec

\* The variables keep their types, however many copies come to be.
THEOREM ImporterTypeCorrect == Spec => []TypeOK
<1>1. IInv => TypeOK
    BY DEF IInv
<1>2. QED
    BY <1>1, ImporterInvariant, PTL

LEMMA Least ==
    ASSUME NEW T \in SUBSET Nat, T # {}
    PROVE  \E x \in T : \A y \in T : x <= y
<1> DEFINE R == {ss \in Nat \X Nat : ss[1] < ss[2]}
<1>1. IsWellFoundedOn(R, Nat)
    BY NatLessThanWellFounded DEF OpToRel
<1>2. PICK x \in T : \A y \in T : <<y, x>> \notin R
    <2> HIDE DEF R
    <2>1. QED
        BY <1>1, WFMin
<1>3. ASSUME NEW y \in T PROVE x <= y
    <2>1. x \in Nat /\ y \in Nat /\ <<y, x>> \notin R
        BY <1>2
    <2>2. ~(y < x)
        BY <2>1
    <2>3. QED
        BY <2>1, <2>2
<1>4. QED
    BY <1>3

\* As long as something is to be done, something is due: the lowest number, on
\* Reddit because the comment that it answers is stored.
LEMMA TodoIsDue ==
    ASSUME IInv, NEW w \in Running, At(w, "next"), Todo(task[w]) # {}
    PROVE  Due(task[w]) # {}
<1> DEFINE t == task[w]
<1>1. t \in Task
    BY RunningTasks DEF IInv
<1>2. t.fetched \subseteq Ext /\ Todo(t) \subseteq Ext
    BY <1>1, TaskFields DEF Todo
<1>3. Todo(t) \in SUBSET Nat
    BY <1>2 DEF Ext
<1>4. PICK e \in Todo(t) : \A d \in Todo(t) : e <= d
    BY <1>3, Least
<1>5. CASE platform = "4chan"
    BY <1>4, <1>5 DEF Due
<1>6. CASE platform = "reddit"
    <2>1. e \in t.fetched /\ e \in Ext
        BY <1>2, <1>4 DEF Todo
    <2>2. ASSUME NEW r \in Refs[platform][e], t.ids[r] = {}
          PROVE  FALSE
        <3>1. r \in t.fetched /\ r < e /\ r \in Ext
            BY <1>2, <1>6, <2>1, ImporterAssumption
               DEF IInv, AnswersHaveParents, ImporterAssumption, Platform
        <3>2. t.ids[Op] # {}
            BY <1>6 DEF IInv, RedditOp, At
        <3>3. r \in Todo(t)
            BY <2>2, <3>1, <3>2 DEF Todo
        <3>4. e <= r
            BY <1>4, <3>3
        <3>5. e \in Nat /\ r \in Nat
            BY <2>1, <3>1 DEF Ext
        <3>6. QED
            BY <3>1, <3>4, <3>5
    <2>3. e \in Due(t)
        BY <1>4, <1>6, <2>2 DEF Due
    <2>4. QED
        BY <2>3
<1>7. QED
    BY <1>5, <1>6 DEF IInv, TypeOK, Platform

\* A handler that has nothing left to do has a copy of every post in the answer
\* of the platform, whatever other handlers, deletions and crashes did meanwhile.
THEOREM AnswersAreStored == Spec => []AnswerIsStored
<1>1. IInv => AnswerIsStored
    <2> SUFFICES ASSUME IInv, NEW w \in Running, At(w, "next"), Due(task[w]) = {},
                        thread # "deleted", NEW e \in task[w].fetched,
                        ~(e = Op /\ task[w].kind = "import")
                 PROVE  Copies(e) # {}
        BY DEF AnswerIsStored
    <2>1. task[w] \in Task
        BY RunningTasks DEF IInv
    <2>2. e \in Ext /\ task[w].kind \in {"import", "refresh"}
        BY <2>1, TaskFields
    <2>3. e \notin Todo(task[w])
        BY TodoIsDue
    <2>4. task[w].ids[e] # {}
        <3>1. CASE platform = "reddit" /\ e = Op
            BY <3>1 DEF IInv, RedditOp, At
        <3>2. CASE ~(platform = "reddit" /\ e = Op)
            BY <2>2, <2>3, <3>2 DEF Todo, IInv, TypeOK, Platform
        <3>3. QED
            BY <3>1, <3>2
    <2>5. task[w].ids[e] \subseteq Copies(e)
        BY <2>2 DEF IInv, KnownIsStored
    <2>6. QED
        BY <2>4, <2>5
<1>2. QED
    BY <1>1, ImporterInvariant, PTL

\* Unless handlers overlap or a kill hits the gap between a post and its row in
\* the map, no post of 4chan is stored twice, nor is the opening post of a
\* thread of Reddit.  It does not hold of comments on Reddit.
THEOREM ImportedOnce == Spec => []EachImportedOnce
<1>1. IInv => EachImportedOnce
    <2> SUFFICES ASSUME IInv, Calm, NEW e \in Ext, platform = "4chan" \/ e = Op
                 PROVE  Cardinality(Copies(e)) <= 1
        BY DEF EachImportedOnce, Calm
    <2>1. CASE thread = "sourced" /\ ~(platform = "reddit" /\ e = Op)
        BY <2>1 DEF IInv, CopiesAreCounted, Limit
    <2>2. CASE thread # "sourced" \/ (platform = "reddit" /\ e = Op)
        <3>1. Copies(e) \subseteq {<<Op, 1>>}
            BY <2>2 DEF IInv, TypeOK, StartsAlone, RedditOp, Copies
        <3>2. Copies(e) = {} \/ Copies(e) = {<<Op, 1>>}
            BY <3>1
        <3>3. Cardinality(Copies(e)) = 0 \/ Cardinality(Copies(e)) = 1
            BY <3>2, FS_EmptySet, FS_Singleton
        <3>4. QED
            BY <3>3
    <2>3. QED
        BY <2>1, <2>2
<1>2. QED
    BY <1>1, ImporterInvariant, PTL

\* The posts whose copies c is linked to, and those it ought to be linked to.
Linked(c) == {q[1] : q \in {p \in posts : <<c, p>> \in edges'}}

Known(c) == {r \in Refs[platform][c[1]] : Copies(r) # {}}

LEMMA LinksOfNewPost ==
    ASSUME IInv, [Next]_vars, NEW c \in posts' \ posts
    PROVE  /\ Linked(c) \subseteq Refs[platform][c[1]]
           /\ Calm => Linked(c) = Known(c)
<1> USE DEF web, tables, history
<1>1. TypeOK
    BY DEF IInv
<1>2. (\E w \in Worker : CreateThread(w) \/ CreatePost(w))
    <2>1. ASSUME NEW w \in Worker, Cancel(w) PROVE posts' = posts
        BY <2>1 DEF Cancel
    <2>2. ASSUME NEW w \in Worker, Proceed(w)
          PROVE  posts' = posts \/ CreateThread(w) \/ CreatePost(w)
        BY <2>2 DEF Proceed, Fetch, SetSource, ReadMap, MissThread, Record, Load, Announce
    <2>3. CASE StartImport \/ StartRefresh
        BY <2>3 DEF StartImport, StartRefresh, Begin
    <2>4. CASE DeleteThread \/ Kill \/ Write \/ UNCHANGED vars
        BY <2>4 DEF DeleteThread, Kill, Write, vars
    <2>5. ASSUME NEW e \in Ext, Remove(e) PROVE posts' = posts
        BY <2>5 DEF Remove
    <2>6. QED
        BY <2>1, <2>2, <2>3, <2>4, <2>5 DEF Next
<1>3. ASSUME NEW w \in Worker, CreateThread(w)
      PROVE  Linked(c) = {} /\ Known(c) = {}
    <2>1. thread = "none" /\ edges' = edges
        BY <1>1, <1>3, Creating DEF IInv, Phases, Moves
    <2>2. posts = {} /\ edges' = {}
        BY <2>1 DEF IInv, StartsAlone
    <2>3. QED
        BY <2>2 DEF Linked, Known, Copies
<1>4. ASSUME NEW w \in Worker, CreatePost(w)
      PROVE  /\ Linked(c) \subseteq Refs[platform][c[1]]
             /\ Calm => Linked(c) = Known(c)
    <2> DEFINE t == task[w]
    <2>1. PICK e \in Due(t) :
              /\ e \in Ext
              /\ posts' = posts \union {NewCopy(e)}
              /\ edges' = edges \union {<<NewCopy(e), p>> : p \in Parents(t, e)}
        BY <1>1, <1>4, Posting
    <2>2. c = NewCopy(e) /\ c[1] = e
        BY <2>1 DEF NewCopy
    <2>3. /\ w \in Running /\ t.step = "next" /\ t \in Task
          /\ thread = "sourced"
        BY <1>1, <1>4, Posting, RunningTasks DEF IInv, Phases, Moves
    <2>4. \A r \in Refs[platform][e] : r \in Ext /\ t.ids[r] \subseteq Copies(r)
        BY <1>1, <2>1, <2>3, ImporterAssumption
           DEF IInv, KnownIsStored, TypeOK, ImporterAssumption
    <2>5. \A p \in posts : <<c, p>> \in edges' <=> p \in Parents(t, e)
        <3>1. \A p : <<c, p>> \notin edges
            BY DEF IInv, KnownIsStored
        <3>2. QED
            BY <2>1, <2>2, <3>1
    <2>6. \A p \in Parents(t, e) :
              p \in posts /\ \E r \in Refs[platform][e] : p \in t.ids[r] /\ p[1] = r
        BY <2>4 DEF Parents, Copies
    <2>7. Linked(c) = {r \in Refs[platform][e] : t.ids[r] # {}}
        <3>1. ASSUME NEW r \in Linked(c)
              PROVE  r \in Refs[platform][e] /\ t.ids[r] # {}
            <4>1. PICK p \in posts : <<c, p>> \in edges' /\ p[1] = r
                BY DEF Linked
            <4>2. QED
                BY <2>5, <2>6, <4>1
        <3>2. ASSUME NEW r \in Refs[platform][e], t.ids[r] # {}
              PROVE  r \in Linked(c)
            <4>1. PICK p \in t.ids[r] : TRUE
                BY <3>2
            <4>2. p \in posts /\ p[1] = r
                BY <2>4, <4>1 DEF Copies
            <4>3. p \in Parents(t, e)
                BY <4>1 DEF Parents
            <4>4. QED
                BY <2>5, <4>2, <4>3 DEF Linked
        <3>3. QED
            BY <3>1, <3>2
    <2>8. ASSUME Calm, NEW r \in Refs[platform][e], t.ids[r] = {}
          PROVE  Copies(r) = {}
        <3>1. Unrecorded(r) /\ (t.kind = "import" => Copies(r) = {})
            BY <2>3, <2>4, <2>8 DEF IInv, UnknownIsUnrecorded
        <3>2. CASE platform = "4chan"
            <4>1. Cardinality(Copies(r)) < 1
                BY <2>3, <2>4, <2>8, <3>1, <3>2 DEF IInv, CopiesAreCounted, Limit
            <4>2. IsFiniteSet(Copies(r))
                BY <2>4, CopyOf DEF IInv, KnownIsStored
            <4>3. Cardinality(Copies(r)) = 0
                BY <4>1, <4>2, FS_CardinalityType
            <4>4. QED
                BY <4>2, <4>3, FS_EmptySet
        <3>3. CASE platform = "reddit"
            BY <2>1, <2>8, <3>3 DEF Due
        <3>4. QED
            BY <1>1, <3>2, <3>3 DEF TypeOK, Platform
    <2>9. \A r \in Refs[platform][e] : t.ids[r] # {} => Copies(r) # {}
        BY <2>4
    <2>10. QED
        BY <2>2, <2>7, <2>8, <2>9 DEF Known
<1>5. QED
    BY <1>2, <1>3, <1>4

\* A new post is linked to what it refers to and to nothing else, and unless
\* handlers overlap or a kill hits the gap, to all of it that is stored.
THEOREM Links == Spec => RepliesAreLinked
<1>1. ASSUME IInv, [Next]_vars
      PROVE  [\A c \in posts' \ posts :
                LET linked == {q[1] : q \in {p \in posts : <<c, p>> \in edges'}}
                    known == {r \in Refs[platform][c[1]] : Copies(r) # {}}
                IN  /\ linked \subseteq Refs[platform][c[1]]
                    /\ ~overlapped /\ ~torn => linked = known]_vars
    BY <1>1, LinksOfNewPost DEF Linked, Known, Calm
<1>2. QED
    BY <1>1, ImporterInvariant, PTL DEF Spec, RepliesAreLinked

-----------------------------------------------------------------------------
(* What is stored and not announced yet has a handler that will announce it. *)

\* What w will announce: its snapshot, once it is loaded; before that, when it
\* has added something or is an import, whatever there will be.
WillAnnounce(w, c) ==
    LET t == task[w] IN
    \/ t.step = "announce" /\ c \in t.details
    \/ t.step = "record"
    \/ t.step \in {"source", "next"} /\ (t.kind = "import" \/ t.fresh)

StoredIsPledged ==
    thread # "deleted" /\ ~dropped =>
        \A c \in posts : c \in announced \/ \E w \in Running : WillAnnounce(w, c)

LEMMA PledgedNext == IInv /\ StoredIsPledged /\ [Next]_vars => StoredIsPledged'
<1> SUFFICES ASSUME IInv, StoredIsPledged, [Next]_vars,
                    thread' # "deleted", ~dropped', NEW c \in posts'
             PROVE  c \in announced' \/ \E w \in Running' : WillAnnounce(w, c)'
    BY DEF StoredIsPledged
<1> DEFINE Goal == c \in announced' \/ \E w \in Running' : WillAnnounce(w, c)'
<1> USE DEF web, tables, history
<1>0. TypeOK /\ \A w \in Running : w \in Worker /\ task[w] \in Task
    BY RunningTasks DEF IInv
\* An unchanged table has no posts of a deleted thread.
<1>1. posts' = posts /\ dropped' = dropped =>
          /\ thread # "deleted"
          /\ c \in announced \/ \E w \in Running : WillAnnounce(w, c)
    BY DEF IInv, StartsAlone, StoredIsPledged
<1>2. ASSUME NEW v \in Running', v \in Running, task'[v] = task[v], WillAnnounce(v, c)
      PROVE  Goal
    BY <1>2 DEF WillAnnounce
<1>3. ASSUME UNCHANGED <<posts, task, announced, dropped>> PROVE Goal
    BY <1>1, <1>2, <1>3 DEF Running
<1>4. ASSUME NEW w \in Running, Moves(w) \/ Leaves(w),
             UNCHANGED <<posts, announced, dropped>>, ~WillAnnounce(w, c)
      PROVE  Goal
    BY <1>1, <1>2, <1>4 DEF Moves, Leaves
<1>5. CASE Write
    BY <1>3, <1>5 DEF Write
<1>6. ASSUME NEW e \in Ext, Remove(e) PROVE Goal
    BY <1>3, <1>6 DEF Remove
<1>7. ASSUME NEW kind \in {"import", "refresh"}, Begin(kind) PROVE Goal
    <2>1. UNCHANGED <<posts, announced, dropped>>
        BY <1>7 DEF Begin
    <2>2. \A v \in Running : v \in Running' /\ task'[v] = task[v]
        BY <1>0, <1>7, Started
    <2>3. QED
        BY <1>1, <1>2, <2>1, <2>2
<1>8. CASE StartImport \/ StartRefresh
    BY <1>7, <1>8 DEF StartImport, StartRefresh
<1>9. ASSUME NEW w \in Worker, Fetch(w) PROVE Goal
    BY <1>0, <1>4, <1>9, Fetching DEF WillAnnounce
<1>10. ASSUME NEW w \in Worker, CreateThread(w) PROVE Goal
    <2>1. w \in Running' /\ task'[w].step = "source" /\ task'[w].kind = "import"
        BY <1>0, <1>10, Creating DEF Moves, IInv, Phases
    <2>2. QED
        BY <2>1 DEF WillAnnounce
<1>11. ASSUME NEW w \in Worker, SetSource(w) PROVE Goal
    <2>1. /\ w \in Running' /\ task'[w].kind = "import"
          /\ task'[w].step \in {"record", "next"}
        BY <1>0, <1>11, Sourcing DEF Moves, IInv, Phases
    <2>2. QED
        BY <2>1 DEF WillAnnounce
<1>12. ASSUME NEW w \in Worker, ReadMap(w) PROVE Goal
    BY <1>0, <1>4, <1>12, Reading DEF WillAnnounce
<1>13. ASSUME NEW w \in Worker, CreatePost(w) PROVE Goal
    <2>1. /\ w \in Running'
          /\ \/ task'[w].step = "record"
             \/ task'[w].step = "next" /\ task'[w].kind = "import"
        BY <1>0, <1>13, Posting DEF Moves
    <2>2. QED
        BY <2>1 DEF WillAnnounce
<1>14. ASSUME NEW w \in Worker, MissThread(w) PROVE Goal
    BY <1>1, <1>14 DEF MissThread
<1>15. ASSUME NEW w \in Worker, Record(w) PROVE Goal
    <2>1. thread # "deleted"
        BY <1>0, <1>15, Noting
    <2>2. w \in Running' /\ task'[w].step = "next" /\ task'[w].fresh
        BY <1>0, <1>15, <2>1, Noting DEF Moves
    <2>3. QED
        BY <2>2 DEF WillAnnounce
<1>16. ASSUME NEW w \in Worker, Load(w) PROVE Goal
    <2>1. w \in Running /\ UNCHANGED <<posts, announced, dropped>>
        BY <1>0, <1>16, Loading
    <2>2. CASE Leaves(w) /\ task[w].kind # "import" /\ ~task[w].fresh
        <3>1. task[w].step = "next"
            BY <1>0, <1>16, Loading
        <3>2. QED
            BY <1>4, <2>1, <2>2, <3>1 DEF WillAnnounce
    <2>3. CASE Moves(w) /\ task'[w].step = "announce" /\ task'[w].details = posts
        BY <2>1, <2>3 DEF Moves, WillAnnounce
    <2>4. QED
        BY <1>0, <1>16, <2>2, <2>3, Loading
<1>17. ASSUME NEW w \in Worker, Announce(w) PROVE Goal
    <2>1. /\ w \in Running /\ Leaves(w) /\ task[w].step = "announce"
          /\ announced' = announced \union task[w].details
          /\ posts' = posts /\ dropped' = dropped
        BY <1>0, <1>17, Ending, RunningTasks DEF Announce, Step, Leaves
    <2>2. CASE WillAnnounce(w, c)
        BY <2>1, <2>2 DEF WillAnnounce
    <2>3. CASE ~WillAnnounce(w, c)
        BY <1>1, <1>2, <2>1, <2>3 DEF Leaves
    <2>4. QED
        BY <2>2, <2>3
<1>18. ASSUME NEW w \in Worker, Cancel(w) PROVE Goal
    BY <1>18 DEF Cancel
<1>19. CASE DeleteThread
    BY <1>19 DEF DeleteThread
<1>20. CASE Kill
    <2>1. /\ posts' = posts /\ announced' = announced
          /\ dropped' = (dropped \/ \E w \in Running :
                             task[w].step \notin {"fetch", "create", "read"})
        BY <1>20 DEF Kill
    <2>2. dropped' = dropped /\ \A w \in Running : ~WillAnnounce(w, c)
        BY <2>1, <1>0 DEF WillAnnounce, TypeOK
    <2>3. QED
        BY <1>1, <2>1, <2>2
<1>21. CASE UNCHANGED vars
    BY <1>3, <1>21 DEF vars
<1>22. QED
    BY <1>5, <1>6, <1>8, <1>9, <1>10, <1>11, <1>12, <1>13, <1>14, <1>15, <1>16, <1>17,
       <1>18, <1>19, <1>20, <1>21 DEF Next, Proceed

\* When no handler runs and none was cut off, all that is stored has been
\* announced, however the handlers overlapped.
THEOREM StoredIsAlwaysAnnounced == Spec => []StoredIsAnnounced
<1>1. Init => StoredIsPledged
    BY DEF Init, StoredIsPledged
<1>2. StoredIsPledged => StoredIsAnnounced
    BY DEF StoredIsPledged, StoredIsAnnounced
<1>3. QED
    BY <1>1, <1>2, PledgedNext, ImporterInvariant, PTL DEF Spec

-----------------------------------------------------------------------------
(* No handler runs for ever: it goes from stage to stage, and in the loop    *)
(* over the answer each post is done with in at most two steps.              *)

Stage == [s \in Step |-> CASE s = "fetch" -> 0
                           [] s \in {"create", "read"} -> 1
                           [] s = "source" -> 2
                           [] s \in {"next", "record"} -> 3
                           [] s = "announce" -> 4]

Advances(w) ==
    \/ w \notin Running'
    \/ Stage[task[w].step] < Stage[task'[w].step]
    \/ /\ Stage[task'[w].step] = 3 /\ Stage[task[w].step] = 3
       /\ \/ Todo(task'[w]) \subseteq Todo(task[w]) /\ Todo(task'[w]) # Todo(task[w])
          \/ /\ Todo(task'[w]) = Todo(task[w])
             /\ task[w].step = "record" /\ task'[w].step = "next"

LEMMA Advancing ==
    ASSUME IInv, NEW w \in Worker, Proceed(w)
    PROVE  Advances(w)
<1> USE DEF web, tables, history
<1>0. TypeOK
    BY DEF IInv
<1>1. CASE Fetch(w)
    BY <1>0, <1>1, Fetching DEF Advances, Leaves, Stage, Step
<1>2. CASE CreateThread(w)
    BY <1>0, <1>2, Creating DEF Advances, Stage, Step
<1>3. CASE SetSource(w)
    BY <1>0, <1>3, Sourcing DEF Advances, Stage, Step
<1>4. CASE ReadMap(w)
    BY <1>0, <1>4, Reading DEF Advances, Leaves, Stage, Step
<1>5. CASE CreatePost(w)
    <2> DEFINE t == task[w]
               u == task'[w]
    <2>1. /\ t.step = "next" /\ u.step \in {"next", "record"}
          /\ u.fetched = t.fetched /\ u.kind = t.kind /\ platform' = platform
        BY <1>0, <1>5, Posting DEF Moves
    <2>2. PICK e \in Due(t) :
              /\ e \in Ext
              /\ u.ids[e] = {NewCopy(e)}
              /\ \A d \in Ext \ {e} : u.ids[d] = t.ids[d]
        BY <1>0, <1>5, Posting
    <2>3. t \in Task
        BY <1>0, <1>5, RunningTasks DEF CreatePost, Step
    <2>4. t.fetched \subseteq Ext
        BY <2>3, TaskFields
    <2> HIDE DEF t, u
    <2>5. e \in Todo(t) /\ e \notin Todo(u)
        BY <2>2 DEF Due, Todo
    <2>6. Todo(u) \subseteq Todo(t)
        BY <2>1, <2>2, <2>4 DEF Todo
    <2>7. Stage[t.step] = 3 /\ Stage[u.step] = 3
        BY <2>1 DEF Stage, Step
    <2>8. QED
        BY <2>5, <2>6, <2>7 DEF Advances, t, u
<1>6. CASE MissThread(w)
    BY <1>0, <1>6, Ending DEF Advances, Leaves
<1>7. CASE Record(w)
    <2>1. CASE Leaves(w)
        BY <2>1 DEF Advances, Leaves
    <2>2. CASE ~Leaves(w)
        <3>1. /\ task[w].step = "record" /\ task'[w].step = "next"
              /\ task'[w].fetched = task[w].fetched /\ task'[w].ids = task[w].ids
              /\ task'[w].kind = task[w].kind
            BY <1>0, <1>7, <2>2, Noting DEF Moves
        <3>2. platform' = platform
            BY <1>7 DEF Record
        <3>3. Todo(task'[w]) = Todo(task[w])
            BY <3>1, <3>2 DEF Todo
        <3>4. QED
            BY <3>1, <3>3 DEF Advances, Stage, Step
    <2>3. QED
        BY <2>1, <2>2
<1>8. CASE Load(w)
    BY <1>0, <1>8, Loading DEF Advances, Leaves, Stage, Step
<1>9. CASE Announce(w)
    BY <1>0, <1>9, Ending DEF Advances, Leaves
<1>10. QED
    BY <1>1, <1>2, <1>3, <1>4, <1>5, <1>6, <1>7, <1>8, <1>9 DEF Proceed

\* Each step of a handler brings it closer to its end, and nothing that runs
\* beside it ever sets it back.
THEOREM HandlersWearOut ==
    Spec => [][\A w \in Running : Proceed(w) \/ task'[w] # task[w] => Advances(w)]_vars
<1>1. ASSUME IInv, [Next]_vars, NEW w \in Running, Proceed(w) \/ task'[w] # task[w]
      PROVE  Advances(w)
    <2>0. TypeOK /\ w \in Worker
        BY <1>1, RunningTasks DEF IInv
    <2>1. CASE Proceed(w)
        BY <1>1, <2>0, <2>1, Advancing
    <2>2. ASSUME NEW v \in Worker, Proceed(v) \/ Cancel(v), v # w PROVE task'[w] = task[w]
        BY <2>0, <2>2 DEF TypeOK, Proceed, Cancel, Fetch, CreateThread, SetSource,
           ReadMap, CreatePost, MissThread, Record, Load, Announce, Become, Stop
    <2>3. CASE Cancel(w)
        BY <2>0, <2>3, Ending DEF Advances, Leaves
    <2>4. CASE Kill
        BY <2>0, <2>4 DEF Kill, Advances, Running
    <2>5. ASSUME NEW kind \in {"import", "refresh"}, Begin(kind) PROVE task'[w] = task[w]
        BY <2>0, <2>5, Started
    <2>6. CASE Write \/ DeleteThread \/ UNCHANGED vars \/ \E e \in Ext : Remove(e)
        BY <1>1, <2>1, <2>6 DEF Write, DeleteThread, Remove, vars
    <2>7. CASE StartImport \/ StartRefresh
        BY <1>1, <2>1, <2>5, <2>7 DEF StartImport, StartRefresh
    <2>8. QED
        BY <1>1, <2>1, <2>2, <2>3, <2>4, <2>6, <2>7 DEF Next
<1>2. IInv /\ [Next]_vars =>
          [\A w \in Running : Proceed(w) \/ task'[w] # task[w] => Advances(w)]_vars
    BY <1>1
<1>3. QED
    BY <1>2, ImporterInvariant, PTL DEF Spec
=============================================================================

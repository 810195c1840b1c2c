-------------------------- MODULE FileTransferProofs --------------------------
(***************************************************************************)
(* Proofs about FileTransfer for any files, posts, rows in snapshots and   *)
(* numbers of concurrent downloads.                                        *)
(***************************************************************************)
EXTENDS FileTransfer, TLAPS

\* The steps of an upload before anybody can know of the file, and after.
Unattached == {"none", "checked", "written", "stored", "failed"}

Attached == {"attached", "done", "cut"}

\* A row has its post (files.post_id, ON DELETE CASCADE).
RowsHavePosts == \A f \in File : row[f] # {} => PostOf[f] \in posts

\* A file that is not attached yet has no row, and nothing works on it.
UploadsAreUnknown ==
    \A f \in File : upload[f] \in Unattached =>
        /\ row[f] = {}
        /\ Workers(f) = {}
        /\ \A h \in handling : h.file # f
        /\ \A l \in listed : l.file # f
        /\ \A d \in deleting, p \in Place : <<f, p>> \notin d.doomed

UploadsHaveBlobs ==
    \A f \in File : upload[f] \in {"stored"} \union Attached => f \in blobs

ExportsHaveBlobs ==
    \A w \in Worker, f \in File :
        (\E s \in {"fetched", "exporting", "exported"} : At(w, f, s)) => f \in blobs

DownloadsHaveBlobs ==
    \A f \in File : Exists(f, "downloads") => f \in blobs

StoreInv ==
    /\ TypeOK
    /\ RowsHavePosts
    /\ UploadsAreUnknown
    /\ UploadsHaveBlobs
    /\ ExportsHaveBlobs
    /\ DownloadsHaveBlobs

UploadsAreWritten ==
    \A f \in File : upload[f] \in {"written", "stored"} => disk[f]["uploads"] = "whole"

\* What is announced is a file of others or was announced before.
HandledAreAnnounced ==
    \A h \in handling : upload[h.file] \in {"elsewhere", "done"}

CopiesHaveTickets == \A w \in Worker : \A r \in task[w].copy : r.ticket

\* Only the upload stores a row without a ticket, and nothing downloads then.
TicketsCome ==
    \A f \in File : \A r \in row[f] : ~r.ticket =>
        /\ upload[f] \in {"attached", "cut"}
        /\ Workers(f) = {}
        /\ \A l \in listed : l.file = f => ~l.row.ticket
        /\ r.path = "uploads"
        /\ disk[f]["uploads"] = "whole" \/ f \in stranded

\* What was exported stays whole, unless somebody exports once more.
ExportsStay ==
    \A w \in Worker, f \in File : At(w, f, "exported") =>
        \/ disk[f]["downloads"] = "whole"
        \/ \E v \in Worker : At(v, f, "exporting")
        \/ f \in stranded

\* Somebody is responsible for the file and will look where the row r says.
Cared(f, r) ==
    \/ Present(f)
    \/ Failed(f)
    \/ Workers(f) # {}
    \/ PostOf[f] \in todo
    \/ handling = {[file |-> f, step |-> "store"]}
    \/ handling = {[file |-> f, step |-> "decide"]} /\ r.path = "downloads"
    \/ \E l \in listed : l.file = f /\ l.row.path = r.path /\ l.row.ticket

AllAreCared ==
    \A f \in File \ (Large \union stranded) :
        \A r \in row[f] : r.ticket \/ upload[f] = "attached" => Cared(f, r)

IdleTasksAreFree == \A w \in Worker : task[w].step = "idle" => task[w].file = {}

CareInv ==
    /\ UploadsAreWritten
    /\ IdleTasksAreFree
    /\ HandledAreAnnounced
    /\ CopiesHaveTickets
    /\ TicketsCome
    /\ ExportsStay
    /\ AllAreCared

IInv == StoreInv /\ CareInv

-----------------------------------------------------------------------------
(* Type correctness.                                                       *)

Handling == [file : File, step : {"store", "decide"}]

Request == [step : {"listed", "deleted"}, doomed : SUBSET (File \X Place)]

\* An optional value is absent or a single one.
LEMMA Options ==
    /\ {} \in Option(Row) /\ {} \in Option(Handling) /\ {} \in Option(Request)
    /\ \A r \in Row : {r} \in Option(Row)
    /\ \A h \in Handling : {h} \in Option(Handling)
    /\ \A d \in Request : {d} \in Option(Request)
    /\ \A o \in Option(Row) : o \subseteq Row /\ \A r, q \in o : r = q
    /\ \A o \in Option(Handling) : o \subseteq Handling
    /\ \A o \in Option(Request) : o \subseteq Request
BY DEF Option

LEMMA Constructed ==
    /\ \A f \in File, t \in {"store", "decide"} :
           {[file |-> f, step |-> t]} \in Option(Handling)
    /\ {[path |-> "uploads", status |-> "available", ticket |-> FALSE]} \in Option(Row)
    /\ {Announced} \in Option(Row)
    /\ \A f \in File, s \in Step, c \in Option(Row) :
           [step |-> s, file |-> {f}, copy |-> c] \in Task
<1>1. \A f \in File, t \in {"store", "decide"} : [file |-> f, step |-> t] \in Handling
    BY DEF Handling
<1>2. [path |-> "uploads", status |-> "available", ticket |-> FALSE] \in Row
    BY DEF Row, Place, Status
<1>3. Announced \in Row
    BY DEF Announced, Row, Place, Status
<1>4. \A f \in File : {f} \in Option(File)
    BY DEF Option
<1>5. QED
    BY <1>1, <1>2, <1>3, <1>4, Zenon DEF Option, Task

LEMMA FieldTypes ==
    ASSUME TypeOK
    PROVE  /\ \A f \in File : /\ row[f] \in Option(Row)
                              /\ \A r \in row[f] : r \in Row
                              /\ PostOf[f] \in Post
           /\ handling \in Option(Handling)
           /\ deleting \in Option(Request)
           /\ \A d \in deleting : d \in Request
BY Options, FileAssumption DEF FileAssumption, TypeOK, Handling, Request

\* A row of which some columns are changed is a row.
LEMMA ChangedRows ==
    ASSUME NEW o \in Option(Row)
    PROVE  /\ \A s \in Status : {[r EXCEPT !.status = s] : r \in o} \in Option(Row)
           /\ {[r EXCEPT !.ticket = TRUE] : r \in o} \in Option(Row)
           /\ {[r EXCEPT !.path = "downloads", !.status = "available"] : r \in o}
                  \in Option(Row)
<1>1. ASSUME NEW s \in Status
      PROVE  {[r EXCEPT !.status = s] : r \in o} \in Option(Row)
    <2>1. CASE o = {}
        <3>1. {[r EXCEPT !.status = s] : r \in o} = {}
            BY <2>1
        <3>2. QED
            BY <3>1, Zenon DEF Option
    <2>2. ASSUME NEW v \in Row, o = {v} PROVE {[r EXCEPT !.status = s] : r \in o} \in Option(Row)
        <3> DEFINE u == [v EXCEPT !.status = s]
        <3>1. u \in Row
            BY DEF Row, Place, Status
        <3>2. {[r EXCEPT !.status = s] : r \in o} = {u}
            BY <2>2
        <3> HIDE DEF u
        <3>3. QED
            BY <3>1, <3>2, Zenon DEF Option
    <2>3. QED
        BY <2>1, <2>2, Zenon DEF Option
<1>2. {[r EXCEPT !.ticket = TRUE] : r \in o} \in Option(Row)
    <2>1. CASE o = {}
        <3>1. {[r EXCEPT !.ticket = TRUE] : r \in o} = {}
            BY <2>1
        <3>2. QED
            BY <3>1, Zenon DEF Option
    <2>2. ASSUME NEW v \in Row, o = {v} PROVE {[r EXCEPT !.ticket = TRUE] : r \in o} \in Option(Row)
        <3> DEFINE u == [v EXCEPT !.ticket = TRUE]
        <3>1. u \in Row
            BY DEF Row, Place, Status
        <3>2. {[r EXCEPT !.ticket = TRUE] : r \in o} = {u}
            BY <2>2
        <3> HIDE DEF u
        <3>3. QED
            BY <3>1, <3>2, Zenon DEF Option
    <2>3. QED
        BY <2>1, <2>2, Zenon DEF Option
<1>3. {[r EXCEPT !.path = "downloads", !.status = "available"] : r \in o}
          \in Option(Row)
    <2>1. CASE o = {}
        <3>1. {[r EXCEPT !.path = "downloads", !.status = "available"] : r \in o} = {}
            BY <2>1
        <3>2. QED
            BY <3>1, Zenon DEF Option
    <2>2. ASSUME NEW v \in Row, o = {v} PROVE {[r EXCEPT !.path = "downloads", !.status = "available"] : r \in o} \in Option(Row)
        <3> DEFINE u == [v EXCEPT !.path = "downloads", !.status = "available"]
        <3>1. u \in Row
            BY DEF Row, Place, Status
        <3>2. {[r EXCEPT !.path = "downloads", !.status = "available"] : r \in o} = {u}
            BY <2>2
        <3> HIDE DEF u
        <3>3. QED
            BY <3>1, <3>2, Zenon DEF Option
    <2>3. QED
        BY <2>1, <2>2, Zenon DEF Option
<1>4. QED
    BY <1>1, <1>2, <1>3

LEMMA UpdateType ==
    ASSUME TypeOK, NEW f \in File, NEW s \in Status
    PROVE  Update(f, s) \in [File -> Option(Row)]
BY FieldTypes, ChangedRows DEF TypeOK, Update

LEMMA SpawnType ==
    ASSUME TypeOK, NEW w \in Worker, NEW f \in File, Spawn(w, f)
    PROVE  task' \in [Worker -> Task]
BY DEF TypeOK, Spawn, Task, Step, Option

LEMMA StepType ==
    ASSUME TypeOK, NEW w \in Worker, NEW s \in Step,
           task' = [task EXCEPT ![w].step = s]
    PROVE  task' \in [Worker -> Task]
BY DEF TypeOK, Task

LEMMA IdleType ==
    ASSUME TypeOK, NEW w \in Worker, task' = [task EXCEPT ![w] = Idle]
    PROVE  task' \in [Worker -> Task]
BY DEF TypeOK, Task, Idle, Step, Option

LEMMA InitType == Init => TypeOK
<1> SUFFICES ASSUME Init PROVE TypeOK
    OBVIOUS
<1>1. task \in [Worker -> Task]
    BY DEF Init, Task, Idle, Step, Option
<1>2. QED
    BY <1>1 DEF Init, TypeOK, Option, UploadStep

LEMMA UploadType ==
    ASSUME TypeOK, NEW f \in File, Upload(f) PROVE TypeOK'
<1> USE DEF store, tasks
<1>1. CASE CheckUpload(f)
    BY <1>1 DEF CheckUpload, TypeOK, UploadStep
<1>2. CASE WriteUpload(f)
    <2>1. disk' \in [File -> [Place -> {"none", "part", "whole"}]]
        BY <1>2 DEF WriteUpload, TypeOK, Place
    <2>2. QED
        BY <1>2, <2>1 DEF WriteUpload, TypeOK, UploadStep
<1>3. CASE StoreBlob(f)
    BY <1>3 DEF StoreBlob, TypeOK, UploadStep
<1>4. CASE AttachUpload(f)
    <2>1. row' \in [File -> Option(Row)]
        BY <1>4, Constructed DEF AttachUpload, TypeOK
    <2>2. QED
        BY <1>4, <2>1 DEF AttachUpload, TypeOK, UploadStep
<1>5. CASE PersistTicket(f)
    <2>1. {[r EXCEPT !.ticket = TRUE] : r \in row[f]} \in Option(Row)
        BY FieldTypes, ChangedRows
    <2>2. row' \in [File -> Option(Row)]
        BY <1>5, <2>1 DEF PersistTicket, TypeOK
    <2>3. QED
        BY <1>5, <2>2 DEF PersistTicket, TypeOK, UploadStep
<1>6. QED
    BY <1>1, <1>2, <1>3, <1>4, <1>5 DEF Upload

LEMMA InputType ==
    ASSUME TypeOK, Input PROVE TypeOK'
<1> USE DEF store, tasks
<1>1. ASSUME NEW f \in File, ReceiveAnnouncement(f) PROVE TypeOK'
    BY <1>1, Constructed DEF ReceiveAnnouncement, TypeOK, Handling
<1>2. ASSUME NEW P \in SUBSET Post, NEW F \in SUBSET File, NEW offer \in [F -> Row],
             ApplySnapshot(P, offer)
      PROVE  TypeOK'
    <2>1. row' \in [File -> Option(Row)]
        BY <1>2, Options DEF ApplySnapshot, TypeOK
    <2>2. QED
        BY <1>2, <2>1 DEF ApplySnapshot, TypeOK
<1>3. ASSUME NEW w \in ManualWorker, NEW f \in File, RequestDownload(w, f) PROVE TypeOK'
    <2>1. PICK r \in row[f] :
              task' = [task EXCEPT ![w] = [step |-> "copied", file |-> {f},
                                           copy |-> {r}]]
        BY <1>3 DEF RequestDownload
    <2>2. {r} \in Option(Row)
        BY <2>1, FieldTypes DEF Option
    <2>3. [step |-> "copied", file |-> {f}, copy |-> {r}] \in Task
        BY <2>2, Constructed DEF Step
    <2>4. task' \in [Worker -> Task]
        BY <2>1, <2>3 DEF TypeOK
    <2>5. QED
        BY <1>3, <2>4 DEF RequestDownload, TypeOK
<1>4. QED
    BY <1>1, <1>2, <1>3 DEF Input

LEMMA HandleType ==
    ASSUME TypeOK, NEW f \in File, HandleAnnouncement(f) PROVE TypeOK'
<1> USE DEF store, tasks
<1>1. CASE RecordAnnounced(f)
    <2>1. row' \in [File -> Option(Row)]
        BY <1>1, Constructed DEF RecordAnnounced, TypeOK
    <2>2. handling' \in Option(Handling)
        <3>1. {[file |-> f, step |-> "decide"]} \in Option(Handling)
            BY Constructed
        <3>2. {} \in Option(Handling)
            BY Options
        <3>3. QED
            BY <1>1, <3>1, <3>2 DEF RecordAnnounced
    <2>3. QED
        BY <1>1, <2>1, <2>2 DEF RecordAnnounced, TypeOK, Handling
<1>2. CASE StartAnnounced(f)
    <2>1. task' \in [Worker -> Task]
        BY <1>2, SpawnType DEF StartAnnounced, Worker, TypeOK
    <2>2. QED
        BY <1>2, <2>1, Options DEF StartAnnounced, TypeOK, Handling
<1>3. QED
    BY <1>1, <1>2 DEF HandleAnnouncement

LEMMA CheckType ==
    ASSUME TypeOK, CheckSnapshot PROVE TypeOK'
<1> USE DEF store, tasks
<1>1. ASSUME NEW p \in Post, ListFiles(p) PROVE TypeOK'
    BY <1>1 DEF ListFiles, TypeOK
<1>2. ASSUME NEW l \in Listed, CheckListed(l) PROVE TypeOK'
    <2>1. l.file \in File
        BY DEF Listed
    <2>2. task' \in [Worker -> Task]
        BY <1>2, <2>1, SpawnType DEF CheckListed, Worker, TypeOK
    <2>3. QED
        BY <1>2, <2>2 DEF CheckListed, TypeOK
<1>3. QED
    BY <1>1, <1>2 DEF CheckSnapshot

LEMMA RunType ==
    ASSUME TypeOK, NEW w \in Worker, NEW f \in File, Run(w, f) PROVE TypeOK'
<1> USE DEF store, tasks
<1>1. CASE WriteBack(w, f)
    <2>1. {[r EXCEPT !.status = "downloading"] : r \in task[w].copy} \in Option(Row)
        <3>1. task[w].copy \in Option(Row)
            BY DEF TypeOK, Task
        <3>2. QED
            BY <3>1, ChangedRows DEF Status
    <2>2. row' \in [File -> Option(Row)]
        BY <1>1, <2>1 DEF WriteBack, TypeOK
    <2>3. task' \in [Worker -> Task]
        <3>1. CASE PostOf[f] \in posts
            <4>1. /\ task[w] \in Task
                  /\ task' = [task EXCEPT ![w].step = "started", ![w].copy = {}]
                  /\ {} \in Option(Row)
                BY <1>1, <3>1, Options DEF WriteBack, TypeOK
            <4>2. task'[w] = [task[w] EXCEPT !.step = "started", !.copy = {}]
                BY <4>1 DEF TypeOK
            <4>3. task'[w] \in Task
                BY <4>1, <4>2 DEF Task, Step
            <4>4. QED
                BY <4>1, <4>3 DEF TypeOK
        <3>2. CASE PostOf[f] \notin posts
            BY <1>1, <3>2, IdleType DEF WriteBack
        <3>3. QED
            BY <3>1, <3>2
    <2>4. stranded' \subseteq File
        BY <1>1 DEF WriteBack, TypeOK
    <2>5. QED
        BY <1>1, <2>2, <2>3, <2>4 DEF WriteBack, TypeOK
<1>2. CASE LookForBlob(w, f)
    <2>1. task' \in [Worker -> Task]
        BY <1>2, StepType DEF LookForBlob, Step
    <2>2. QED
        BY <1>2, <2>1 DEF LookForBlob, TypeOK
<1>3. CASE MarkDownloading(w, f)
    <2>1. row' \in [File -> Option(Row)]
        BY <1>3, UpdateType DEF MarkDownloading, Status
    <2>2. task' \in [Worker -> Task]
        BY <1>3, StepType DEF MarkDownloading, Step
    <2>3. QED
        BY <1>3, <2>1, <2>2 DEF MarkDownloading, TypeOK
<1>4. CASE Fetch(w, f)
    <2>1. task' \in [Worker -> Task]
        BY <1>4, StepType DEF Fetch, Step
    <2>2. QED
        BY <1>4, <2>1 DEF Fetch, TypeOK
<1>5. CASE FailFetch(w, f)
    <2>1. row' \in [File -> Option(Row)]
        BY <1>5, UpdateType DEF FailFetch, Status
    <2>2. task' \in [Worker -> Task]
        BY <1>5, IdleType DEF FailFetch
    <2>3. QED
        BY <1>5, <2>1, <2>2 DEF FailFetch, TypeOK
<1>6. CASE BeginExport(w, f)
    <2>1. task' \in [Worker -> Task]
        BY <1>6, StepType DEF BeginExport, Step
    <2>2. disk' \in [File -> [Place -> {"none", "part", "whole"}]]
        BY <1>6 DEF BeginExport, TypeOK, Place
    <2>3. QED
        BY <1>6, <2>1, <2>2 DEF BeginExport, TypeOK
<1>7. CASE EndExport(w, f)
    <2>1. task' \in [Worker -> Task]
        BY <1>7, StepType DEF EndExport, Step
    <2>2. disk' \in [File -> [Place -> {"none", "part", "whole"}]]
        BY <1>7 DEF EndExport, TypeOK, Place
    <2>3. QED
        BY <1>7, <2>1, <2>2 DEF EndExport, TypeOK
<1>8. CASE FailExport(w, f)
    <2>1. row' \in [File -> Option(Row)]
        BY <1>8, UpdateType DEF FailExport, Status, TypeOK
    <2>2. task' \in [Worker -> Task]
        BY <1>8, IdleType DEF FailExport
    <2>3. QED
        BY <1>8, <2>1, <2>2 DEF FailExport, TypeOK
<1>9. CASE FinishDownload(w, f)
    <2>1. {[r EXCEPT !.path = "downloads", !.status = "available"] :
            r \in row[f]} \in Option(Row)
        BY FieldTypes, ChangedRows
    <2>2. row' \in [File -> Option(Row)]
        BY <1>9, <2>1 DEF FinishDownload, TypeOK
    <2>3. task' \in [Worker -> Task]
        BY <1>9, IdleType DEF FinishDownload
    <2>4. QED
        BY <1>9, <2>2, <2>3 DEF FinishDownload, TypeOK
<1>10. QED
    BY <1>1, <1>2, <1>3, <1>4, <1>5, <1>6, <1>7, <1>8, <1>9 DEF Run

LEMMA DeleteType ==
    ASSUME TypeOK, Delete PROVE TypeOK'
<1> USE DEF store, tasks
<1>1. CASE ListDoomed
    <2>1. deleting' \in Option(Request)
        BY <1>1, Options DEF ListDoomed, Request
    <2>2. QED
        BY <1>1, <2>1 DEF ListDoomed, TypeOK, Request
<1>2. CASE DeleteThread
    <2>1. PICK d \in deleting : deleting' = {[d EXCEPT !.step = "deleted"]}
        BY <1>2 DEF DeleteThread
    <2>2. d \in Request
        BY <2>1, FieldTypes
    <2>3. [d EXCEPT !.step = "deleted"] \in Request
        BY <2>2 DEF Request
    <2>4. deleting' \in Option(Request)
        BY <2>1, <2>3, Options
    <2>5. row' \in [File -> Option(Row)]
        BY <1>2, Options DEF DeleteThread
    <2>6. QED
        BY <1>2, <2>4, <2>5 DEF DeleteThread, TypeOK, Request
<1>3. CASE RemoveFiles
    <2>1. deleting' \in Option(Request)
        BY <1>3, Options DEF RemoveFiles
    <2>2. disk' \in [File -> [Place -> {"none", "part", "whole"}]]
        <3>1. PICK d \in deleting :
                  \/ disk' = [f \in File |-> [p \in Place |->
                                IF <<f, p>> \in d.doomed THEN "none"
                                ELSE disk[f][p]]]
                  \/ disk' = disk
            BY <1>3 DEF RemoveFiles
        <3>2. \A f \in File, p \in Place :
                  /\ (IF <<f, p>> \in d.doomed THEN "none" ELSE disk[f][p])
                         \in {"none", "part", "whole"}
            BY DEF TypeOK
        <3>3. QED
            BY <3>1, <3>2 DEF TypeOK
    <2>3. QED
        BY <1>3, <2>1, <2>2 DEF RemoveFiles, TypeOK, Request
<1>4. QED
    BY <1>1, <1>2, <1>3 DEF Delete

LEMMA NextType == TypeOK /\ [Next]_vars => TypeOK'
<1> SUFFICES ASSUME TypeOK, [Next]_vars PROVE TypeOK'
    OBVIOUS
<1> USE DEF store, tasks
<1>1. ASSUME NEW p \in Post, StorePost(p) PROVE TypeOK'
    BY <1>1 DEF StorePost, TypeOK
<1>2. CASE Restart
    <2>1. task' \in [Worker -> Task]
        BY <1>2 DEF Restart, Task, Idle, Step, Option
    <2>2. handling' \in Option(Handling) /\ deleting' \in Option(Request)
        BY <1>2, Options DEF Restart
    <2>3. upload' \in [File -> UploadStep]
        BY <1>2 DEF Restart, TypeOK, UploadStep
    <2>4. QED
        BY <1>2, <2>1, <2>2, <2>3 DEF Restart, TypeOK, Handling, Request
<1>3. CASE UNCHANGED vars
    BY <1>3 DEF vars, TypeOK
<1>4. QED
    BY <1>1, <1>2, <1>3, UploadType, InputType, HandleType, CheckType, RunType,
       DeleteType DEF Next, Work

\* Every variable keeps its type.
THEOREM TypeCorrect == Spec => []TypeOK
<1>1. QED
    BY InitType, NextType, PTL DEF Spec

-----------------------------------------------------------------------------
(* What groups of actions leave alone.                                     *)

\* An upload only touches its own file and its own row.
LEMMA UploadFrame ==
    ASSUME TypeOK, NEW f \in File, Upload(f)
    PROVE  /\ UNCHANGED <<posts, handling, todo, listed, task, deleting, stranded>>
           /\ blobs \subseteq blobs'
           /\ \A g \in File \ {f} : /\ row'[g] = row[g]
                                    /\ disk'[g] = disk[g]
                                    /\ upload'[g] = upload[g]
           /\ disk'[f]["downloads"] = disk[f]["downloads"]
           /\ disk[f]["uploads"] = "whole" => disk'[f]["uploads"] = "whole"
           /\ upload[f] \in Unattached \union {"attached"}
BY DEF Upload, CheckUpload, WriteUpload, StoreBlob, AttachUpload, PersistTicket,
   TypeOK, store, Unattached, Place

\* A change of the status is one to the row of the file, if there is one.
LEMMA UpdateFrame ==
    ASSUME TypeOK, NEW f \in File, NEW s
    PROVE  /\ \A g \in File \ {f} : Update(f, s)[g] = row[g]
           /\ Update(f, s)[f] = {[r EXCEPT !.status = s] : r \in row[f]}
           /\ row[f] = {} => Update(f, s)[f] = {}
<1>1. Update(f, s)[f] = {[r EXCEPT !.status = s] : r \in row[f]}
    BY DEF Update, TypeOK
<1>2. row[f] = {} => {[r EXCEPT !.status = s] : r \in row[f]} = {}
    OBVIOUS
<1>3. QED
    BY <1>1, <1>2 DEF Update, TypeOK

\* A download only touches its own task, its own row and the downloaded copy.
LEMMA RunFrame ==
    ASSUME TypeOK, NEW w \in Worker, NEW f \in File, Run(w, f)
    PROVE  /\ UNCHANGED <<posts, upload, handling, todo, listed, deleting>>
           /\ blobs \subseteq blobs'
           /\ task[w].file = {f}
           /\ \A v \in Worker \ {w} : task'[v] = task[v]
           /\ task'[w] = Idle \/ task'[w].file = {f}
           /\ task'[w].file \in {{f}, {}}
           /\ task'[w].copy \subseteq task[w].copy
           /\ \A g \in File \ {f} : row'[g] = row[g] /\ disk'[g] = disk[g]
           /\ disk'[f]["uploads"] = disk[f]["uploads"]
<1> USE DEF store
<1>1. CASE WriteBack(w, f)
    <2>1. CASE PostOf[f] \in posts
        BY <1>1, <2>1 DEF WriteBack, At, TypeOK, Task
    <2>2. CASE PostOf[f] \notin posts
        BY <1>1, <2>2 DEF WriteBack, At, Idle, TypeOK
    <2>3. QED
        BY <2>1, <2>2
<1>2. CASE LookForBlob(w, f)
    BY <1>2 DEF LookForBlob, At, TypeOK, Task
<1>3. CASE MarkDownloading(w, f)
    BY <1>3, UpdateFrame DEF MarkDownloading, At, TypeOK, Task
<1>4. CASE Fetch(w, f)
    BY <1>4 DEF Fetch, At, TypeOK, Task
<1>5. CASE FailFetch(w, f)
    BY <1>5, UpdateFrame DEF FailFetch, At, Idle, TypeOK, Task
<1>6. CASE BeginExport(w, f)
    BY <1>6 DEF BeginExport, At, TypeOK, Task, Place
<1>7. CASE EndExport(w, f)
    BY <1>7 DEF EndExport, At, TypeOK, Task, Place
<1>8. CASE FailExport(w, f)
    BY <1>8, UpdateFrame DEF FailExport, At, Idle, TypeOK, Task
<1>9. CASE FinishDownload(w, f)
    BY <1>9 DEF FinishDownload, At, Idle, TypeOK, Task
<1>10. QED
    BY <1>1, <1>2, <1>3, <1>4, <1>5, <1>6, <1>7, <1>8, <1>9 DEF Run

\* No step of a download but the write-back makes a row.
LEMMA RunRows ==
    ASSUME TypeOK, NEW w \in Worker, NEW f \in File, Run(w, f), ~WriteBack(w, f),
           row[f] = {}
    PROVE  row'[f] = {}
<1>1. CASE FinishDownload(w, f)
    <2>1. row'[f] = {[r EXCEPT !.path = "downloads", !.status = "available"] : r \in {}}
        BY <1>1 DEF FinishDownload, TypeOK
    <2>2. QED
        BY <2>1
<1>2. CASE ~FinishDownload(w, f)
    <2>1. row' = row \/ row' = Update(f, "failed") \/ row' = Update(f, "downloading")
        BY <1>2 DEF Run, LookForBlob, MarkDownloading, Fetch, FailFetch,
           BeginExport, EndExport, FailExport, store
    <2>2. QED
        BY <2>1, UpdateFrame
<1>3. QED
    BY <1>1, <1>2

\* A task that is spawned was idle before; nothing else changes.
LEMMA SpawnFrame ==
    ASSUME TypeOK, NEW w \in Worker, NEW f \in File, Spawn(w, f)
    PROVE  /\ task[w].step = "idle"
           /\ task'[w] = [step |-> "started", file |-> {f}, copy |-> {}]
           /\ \A v \in Worker \ {w} : task'[v] = task[v]
BY DEF Spawn, TypeOK

\* Nobody forgets an upload.
LEMMA UploadOrder ==
    ASSUME TypeOK, [Next]_vars, NEW g \in File
    PROVE  /\ upload'[g] \in Unattached => upload[g] \in Unattached
           /\ upload'[g] \in {"written", "stored"} /\ upload[g] # upload'[g] =>
                  \/ upload'[g] = "written" /\ disk'[g]["uploads"] = "whole"
                  \/ upload[g] = "written" /\ g \in blobs'
           /\ upload'[g] \in Attached /\ upload[g] # upload'[g] =>
                  upload[g] \in {"stored", "attached"}
           /\ upload[g] = "elsewhere" => upload'[g] = "elsewhere"
           /\ upload[g] = "done" => upload'[g] = "done"
<1> USE DEF store, tasks, Unattached, Attached
<1>1. CASE \E f \in File : CheckUpload(f) \/ PersistTicket(f)
    BY <1>1 DEF CheckUpload, PersistTicket, TypeOK, UploadStep
<1>2. CASE \E f \in File : WriteUpload(f) \/ StoreBlob(f)
    BY <1>2 DEF WriteUpload, StoreBlob, TypeOK, UploadStep, Place
<1>3. CASE \E f \in File : AttachUpload(f)
    BY <1>3 DEF AttachUpload, TypeOK, UploadStep
<1>4. CASE Restart
    BY <1>4 DEF Restart, TypeOK, UploadStep
<1>5. CASE upload' = upload
    BY <1>5
<1>6. CASE UNCHANGED vars
    BY <1>5, <1>6 DEF vars
<1>7. CASE Next
    <2>1. \/ \E f \in File : Upload(f)
          \/ Restart
          \/ upload' = upload
        BY <1>7, RunFrame DEF Next, Input, Work, StorePost, ReceiveAnnouncement,
           ApplySnapshot, RequestDownload, HandleAnnouncement, RecordAnnounced,
           StartAnnounced, CheckSnapshot, ListFiles, CheckListed, Delete,
           ListDoomed, DeleteThread, RemoveFiles
    <2>2. QED
        BY <1>1, <1>2, <1>3, <1>4, <1>5, <2>1 DEF Upload
<1>8. QED
    BY <1>6, <1>7

-----------------------------------------------------------------------------
(* Rows have posts, uploads have blobs, downloads had blobs.               *)

LEMMA PostsStep ==
    ASSUME TypeOK, RowsHavePosts, [Next]_vars
    PROVE  RowsHavePosts'
<1> USE DEF store, tasks
<1> SUFFICES ASSUME NEW g \in File, row'[g] # {} PROVE PostOf[g] \in posts'
    BY DEF RowsHavePosts
<1>1. ASSUME row'[g] = row[g], posts \subseteq posts' PROVE PostOf[g] \in posts'
    BY <1>1 DEF RowsHavePosts
<1>2. ASSUME NEW f \in File, Upload(f) PROVE PostOf[g] \in posts'
    <2>1. CASE PersistTicket(f) \/ CheckUpload(f) \/ WriteUpload(f) \/ StoreBlob(f)
        BY <2>1 DEF PersistTicket, CheckUpload, WriteUpload, StoreBlob,
           RowsHavePosts, TypeOK
    <2>2. CASE AttachUpload(f)
        BY <2>2 DEF AttachUpload, RowsHavePosts, TypeOK
    <2>3. QED
        BY <1>2, <2>1, <2>2 DEF Upload
<1>3. ASSUME NEW P \in SUBSET Post, NEW F \in SUBSET {f \in File : PostOf[f] \in P},
             NEW offer \in [F -> Row], ApplySnapshot(P, offer)
      PROVE  PostOf[g] \in posts'
    BY <1>3 DEF ApplySnapshot, RowsHavePosts, TypeOK
<1>4. ASSUME NEW f \in File, RecordAnnounced(f) PROVE PostOf[g] \in posts'
    BY <1>4 DEF RecordAnnounced, RowsHavePosts, TypeOK
<1>5. ASSUME NEW w \in Worker, NEW f \in File, Run(w, f) PROVE PostOf[g] \in posts'
    <2>1. CASE WriteBack(w, f)
        BY <2>1 DEF WriteBack, RowsHavePosts, TypeOK
    <2>2. CASE ~WriteBack(w, f)
        <3>1. row'[f] # {} => row[f] # {}
            BY <1>5, <2>2, RunRows
        <3>2. QED
            BY <1>5, <3>1, RunFrame DEF RowsHavePosts
    <2>3. QED
        BY <2>1, <2>2
<1>6. CASE DeleteThread
    BY <1>6 DEF DeleteThread
<1>7. CASE UNCHANGED vars
    BY <1>1, <1>7 DEF vars
<1>8. CASE Next
    <2>1. \/ \E f \in File : Upload(f) \/ RecordAnnounced(f)
          \/ \E P \in SUBSET Post : \E F \in SUBSET {f \in File : PostOf[f] \in P} :
                 \E offer \in [F -> Row] : ApplySnapshot(P, offer)
          \/ \E w \in Worker, f \in File : Run(w, f)
          \/ DeleteThread
          \/ row' = row /\ posts \subseteq posts'
        BY <1>8 DEF Next, Input, Work, StorePost, ReceiveAnnouncement,
           RequestDownload, HandleAnnouncement, StartAnnounced, CheckSnapshot,
           ListFiles, CheckListed, Delete, ListDoomed, RemoveFiles, Restart
    <2>2. QED
        BY <1>1, <1>2, <1>3, <1>4, <1>5, <1>6, <2>1
<1>9. QED
    BY <1>7, <1>8

\* Nobody learns of a file before it is attached.
LEMMA UnknownStep ==
    ASSUME TypeOK, UploadsAreUnknown, [Next]_vars
    PROVE  UploadsAreUnknown'
<1> USE DEF store, tasks
<1> SUFFICES ASSUME NEW g \in File, upload'[g] \in Unattached
             PROVE  /\ row'[g] = {}
                    /\ \A v \in Worker : task'[v].file # {g}
                    /\ \A h \in handling' : h.file # g
                    /\ \A l \in listed' : l.file # g
                    /\ \A d \in deleting', p \in Place : <<g, p>> \notin d.doomed
    BY DEF UploadsAreUnknown, Workers
<1>1. /\ upload[g] \in Unattached
      /\ row[g] = {}
      /\ \A v \in Worker : task[v].file # {g}
      /\ \A h \in handling : h.file # g
      /\ \A l \in listed : l.file # g
      /\ \A d \in deleting, p \in Place : <<g, p>> \notin d.doomed
    BY UploadOrder DEF UploadsAreUnknown, Workers
<1>2. row'[g] = {}
    <2>1. ASSUME NEW f \in File, Upload(f) PROVE row'[g] = {}
        <3>1. CASE AttachUpload(f)
            BY <1>1, <3>1 DEF AttachUpload, TypeOK, Unattached
        <3>2. CASE PersistTicket(f)
            BY <1>1, <3>2 DEF PersistTicket, TypeOK, Unattached
        <3>3. QED
            BY <1>1, <2>1, <3>1, <3>2 DEF Upload, CheckUpload, WriteUpload, StoreBlob
    <2>2. ASSUME NEW P \in SUBSET Post, NEW F \in SUBSET File, NEW offer \in [F -> Row],
                 ApplySnapshot(P, offer)
          PROVE  row'[g] = {}
        BY <1>1, <2>2 DEF ApplySnapshot, Unattached
    <2>3. ASSUME NEW f \in File, RecordAnnounced(f) PROVE row'[g] = {}
        BY <1>1, <2>3 DEF RecordAnnounced, TypeOK
    <2>4. ASSUME NEW w \in Worker, NEW f \in File, Run(w, f) PROVE row'[g] = {}
        BY <1>1, <2>4, RunFrame
    <2>5. CASE UNCHANGED vars
        BY <1>1, <2>5 DEF vars
    <2>6. CASE Next
        <3>1. \/ \E f \in File : Upload(f) \/ RecordAnnounced(f)
              \/ \E P \in SUBSET Post : \E F \in SUBSET File :
                     \E offer \in [F -> Row] : ApplySnapshot(P, offer)
              \/ \E w \in Worker, f \in File : Run(w, f)
              \/ row' = row \/ row' = [f \in File |-> {}]
            BY <2>6 DEF Next, Input, Work, StorePost, ReceiveAnnouncement,
               RequestDownload, HandleAnnouncement, StartAnnounced, CheckSnapshot,
               ListFiles, CheckListed, Delete, ListDoomed, DeleteThread,
               RemoveFiles, Restart
        <3>2. QED
            BY <1>1, <2>1, <2>2, <2>3, <2>4, <3>1
    <2>7. QED
        BY <2>5, <2>6
<1>3. ASSUME NEW v \in Worker PROVE task'[v].file # {g}
    <2>1. ASSUME NEW w \in Worker, NEW f \in File, f # g, Spawn(w, f)
          PROVE  task'[v].file # {g}
        <3>1. CASE v = w
            <4>1. task'[v] = [step |-> "started", file |-> {f}, copy |-> {}]
                BY <2>1, <3>1, SpawnFrame
            <4>2. QED
                BY <2>1, <4>1
        <3>2. CASE v # w
            BY <1>1, <2>1, <3>2, SpawnFrame
        <3>3. QED
            BY <3>1, <3>2
    <2>2. ASSUME NEW f \in File, StartAnnounced(f) PROVE task'[v].file # {g}
        <3>1. f # g
            BY <1>1, <2>2 DEF StartAnnounced
        <3>2. QED
            BY <1>1, <2>1, <2>2, <3>1 DEF StartAnnounced, Worker
    <2>3. ASSUME NEW l \in Listed, CheckListed(l) PROVE task'[v].file # {g}
        <3>1. l.file # g /\ l.file \in File
            BY <1>1, <2>3 DEF CheckListed, Listed
        <3>2. QED
            BY <1>1, <2>1, <2>3, <3>1 DEF CheckListed, Worker
    <2>4. ASSUME NEW w \in ManualWorker, NEW f \in File, RequestDownload(w, f)
          PROVE  task'[v].file # {g}
        <3>1. f # g
            BY <1>1, <2>4 DEF RequestDownload
        <3>2. task'[v] = task[v] \/ task'[v].file = {f}
            BY <2>4 DEF RequestDownload, TypeOK
        <3>3. QED
            BY <1>1, <3>1, <3>2
    <2>5. ASSUME NEW w \in Worker, NEW f \in File, Run(w, f)
          PROVE  task'[v].file # {g}
        BY <1>1, <2>5, RunFrame
    <2>6. CASE Restart
        BY <2>6 DEF Restart, Idle
    <2>7. CASE UNCHANGED vars
        BY <1>1, <2>7 DEF vars
    <2>8. CASE Next
        <3>1. \/ \E f \in File : StartAnnounced(f)
              \/ \E l \in Listed : CheckListed(l)
              \/ \E w \in ManualWorker, f \in File : RequestDownload(w, f)
              \/ \E w \in Worker, f \in File : Run(w, f)
              \/ Restart
              \/ task' = task
            BY <2>8, UploadFrame DEF Next, Input, Work, StorePost,
               ReceiveAnnouncement, ApplySnapshot, HandleAnnouncement,
               RecordAnnounced, CheckSnapshot, ListFiles, Delete, ListDoomed,
               DeleteThread, RemoveFiles
        <3>2. QED
            BY <1>1, <2>2, <2>3, <2>4, <2>5, <2>6, <3>1
    <2>9. QED
        BY <2>7, <2>8
<1>4. ASSUME NEW h \in handling' PROVE h.file # g
    <2>1. ASSUME NEW f \in File, ReceiveAnnouncement(f) PROVE h.file # g
        <3>1. f # g
            BY <1>1, <2>1 DEF ReceiveAnnouncement, Unattached
        <3>2. QED
            BY <1>4, <2>1, <3>1 DEF ReceiveAnnouncement
    <2>2. ASSUME NEW f \in File, RecordAnnounced(f) PROVE h.file # g
        <3>1. f # g
            BY <1>1, <2>2 DEF RecordAnnounced
        <3>2. QED
            BY <1>4, <2>2, <3>1 DEF RecordAnnounced
    <2>3. CASE handling' \subseteq handling
        BY <1>1, <1>4, <2>3
    <2>4. CASE UNCHANGED vars
        BY <2>3, <2>4 DEF vars
    <2>5. CASE Next
        <3>1. \/ \E f \in File : ReceiveAnnouncement(f) \/ RecordAnnounced(f)
              \/ handling' \subseteq handling
            BY <2>5, UploadFrame, RunFrame DEF Next, Input, Work, StorePost,
               ApplySnapshot, RequestDownload, HandleAnnouncement,
               StartAnnounced, CheckSnapshot,
               ListFiles, CheckListed, Delete, ListDoomed, DeleteThread,
               RemoveFiles, Restart
        <3>2. QED
            BY <2>1, <2>2, <2>3, <3>1
    <2>6. QED
        BY <2>4, <2>5
<1>5. ASSUME NEW l \in listed' PROVE l.file # g
    <2>1. ASSUME NEW p \in Post, ListFiles(p) PROVE l.file # g
        BY <1>1, <1>5, <2>1 DEF ListFiles
    <2>2. CASE listed' \subseteq listed
        BY <1>1, <1>5, <2>2
    <2>3. CASE UNCHANGED vars
        BY <2>2, <2>3 DEF vars
    <2>4. CASE Next
        <3>1. (\E p \in Post : ListFiles(p)) \/ listed' \subseteq listed
            BY <2>4, UploadFrame, RunFrame DEF Next, Input, Work, StorePost,
               ReceiveAnnouncement, ApplySnapshot, RequestDownload,
               HandleAnnouncement, RecordAnnounced, StartAnnounced, CheckSnapshot,
               CheckListed, Delete, ListDoomed, DeleteThread, RemoveFiles, Restart
        <3>2. QED
            BY <2>1, <2>2, <3>1
    <2>5. QED
        BY <2>3, <2>4
<1>6. ASSUME NEW d \in deleting', NEW p \in Place PROVE <<g, p>> \notin d.doomed
    <2>1. CASE ListDoomed
        BY <1>1, <1>6, <2>1 DEF ListDoomed
    <2>2. CASE DeleteThread
        <3>1. PICK e \in deleting : deleting' = {[e EXCEPT !.step = "deleted"]}
            BY <2>2 DEF DeleteThread
        <3>2. e \in Request
            BY <3>1, FieldTypes
        <3>3. d.doomed = e.doomed
            BY <1>6, <3>1, <3>2 DEF Request
        <3>4. QED
            BY <1>1, <3>1, <3>3
    <2>3. CASE deleting' \subseteq deleting
        BY <1>1, <1>6, <2>3
    <2>4. CASE UNCHANGED vars
        BY <2>3, <2>4 DEF vars
    <2>5. CASE Next
        <3>1. ListDoomed \/ DeleteThread \/ deleting' \subseteq deleting
            BY <2>5, UploadFrame, RunFrame DEF Next, Input, Work, StorePost,
               ReceiveAnnouncement, ApplySnapshot, RequestDownload,
               HandleAnnouncement, RecordAnnounced, StartAnnounced, CheckSnapshot,
               ListFiles, CheckListed, Delete, RemoveFiles, Restart
        <3>2. QED
            BY <2>1, <2>2, <2>3, <3>1
    <2>6. QED
        BY <2>4, <2>5
<1>7. QED
    BY <1>2, <1>3, <1>4, <1>5, <1>6

\* The blob store never forgets.
LEMMA BlobsGrow ==
    ASSUME TypeOK, [Next]_vars
    PROVE  blobs \subseteq blobs'
<1> USE DEF store, tasks
<1>1. CASE UNCHANGED vars
    BY <1>1 DEF vars
<1>2. CASE Next
    BY <1>2, UploadFrame, RunFrame DEF Next, Input, Work, StorePost,
       ReceiveAnnouncement, ApplySnapshot, RequestDownload, HandleAnnouncement,
       RecordAnnounced, StartAnnounced, CheckSnapshot, ListFiles, CheckListed,
       Delete, ListDoomed, DeleteThread, RemoveFiles, Restart
<1>3. QED
    BY <1>1, <1>2

LEMMA UploadBlobsStep ==
    ASSUME TypeOK, UploadsHaveBlobs, [Next]_vars
    PROVE  UploadsHaveBlobs'
<1> SUFFICES ASSUME NEW f \in File, upload'[f] \in {"stored"} \union Attached
             PROVE  f \in blobs'
    BY DEF UploadsHaveBlobs
<1>1. CASE upload'[f] = upload[f]
    BY <1>1, BlobsGrow DEF UploadsHaveBlobs
<1>2. CASE upload'[f] # upload[f]
    BY <1>2, BlobsGrow, UploadOrder DEF UploadsHaveBlobs, Attached
<1>3. QED
    BY <1>1, <1>2

\* Where the step of a download comes from.
LEMMA NewSteps ==
    ASSUME TypeOK, [Next]_vars, NEW v \in Worker, task'[v] # task[v]
    PROVE  \/ /\ task[v].step = "idle"
              /\ task'[v].step \in {"started", "copied"}
           \/ task'[v] = Idle
           \/ \E f \in File : task'[v].file = {f} /\ Run(v, f)
<1> USE DEF store, tasks
<1> DEFINE Goal == \/ /\ task[v].step = "idle"
                      /\ task'[v].step \in {"started", "copied"}
                   \/ task'[v] = Idle
                   \/ \E f \in File : task'[v].file = {f} /\ Run(v, f)
<1>1. ASSUME NEW w \in Worker, NEW f \in File, Spawn(w, f) PROVE Goal
    <2>1. v = w
        BY <1>1, SpawnFrame
    <2>2. /\ task[v].step = "idle"
          /\ task'[v] = [step |-> "started", file |-> {f}, copy |-> {}]
        BY <1>1, <2>1, SpawnFrame
    <2>3. QED
        BY <2>2
<1>2. ASSUME NEW w \in ManualWorker, NEW f \in File, RequestDownload(w, f) PROVE Goal
    BY <1>2 DEF RequestDownload, TypeOK
<1>3. ASSUME NEW w \in Worker, NEW f \in File, Run(w, f) PROVE Goal
    <2>1. v = w
        BY <1>3, RunFrame
    <2>2. task'[v].file = {f} \/ task'[v] = Idle
        BY <1>3, <2>1, RunFrame
    <2>3. QED
        BY <1>3, <2>1, <2>2
<1>4. CASE Restart
    BY <1>4 DEF Restart
<1>5. CASE UNCHANGED vars
    BY <1>5 DEF vars
<1>6. CASE Next
    <2>1. \/ \E w \in Worker, f \in File : Spawn(w, f)
          \/ \E w \in ManualWorker, f \in File : RequestDownload(w, f)
          \/ \E w \in Worker, f \in File : Run(w, f)
          \/ Restart
          \/ task' = task
        BY <1>6, UploadFrame DEF Next, Input, Work, StorePost,
           ReceiveAnnouncement, ApplySnapshot, HandleAnnouncement,
           RecordAnnounced, StartAnnounced, CheckSnapshot, ListFiles,
           CheckListed, Delete, ListDoomed, DeleteThread, RemoveFiles, Listed,
           Worker
    <2>2. QED
        BY <1>1, <1>2, <1>3, <1>4, <2>1
<1>7. QED
    BY <1>5, <1>6

LEMMA ExportBlobsStep ==
    ASSUME TypeOK, ExportsHaveBlobs, [Next]_vars
    PROVE  ExportsHaveBlobs'
<1> SUFFICES ASSUME NEW w \in Worker, NEW f \in File, task'[w].file = {f},
                    task'[w].step \in {"fetched", "exporting", "exported"}
             PROVE  f \in blobs'
    BY DEF ExportsHaveBlobs, At
<1>1. CASE task'[w] = task[w]
    BY <1>1, BlobsGrow DEF ExportsHaveBlobs, At
<1>2. CASE task'[w] # task[w]
    <2>1. Run(w, f)
        BY <1>2, NewSteps DEF Idle
    <2>2. CASE LookForBlob(w, f)
        BY <2>2, BlobsGrow DEF LookForBlob, TypeOK, Task
    <2>3. CASE Fetch(w, f)
        BY <2>3 DEF Fetch
    <2>4. CASE BeginExport(w, f) \/ EndExport(w, f)
        BY <2>4, BlobsGrow DEF BeginExport, EndExport, ExportsHaveBlobs
    <2>5. CASE WriteBack(w, f) \/ MarkDownloading(w, f)
        BY <2>5 DEF WriteBack, MarkDownloading, Idle, TypeOK, Task
    <2>6. CASE FailFetch(w, f) \/ FailExport(w, f) \/ FinishDownload(w, f)
        <3>1. task'[w] = Idle
            BY <2>6 DEF FailFetch, FailExport, FinishDownload, TypeOK
        <3>2. QED
            BY <3>1 DEF Idle
    <2>7. QED
        BY <2>1, <2>2, <2>3, <2>4, <2>5, <2>6 DEF Run
<1>3. QED
    BY <1>1, <1>2

\* Where a change of a downloaded copy comes from.
LEMMA NewCopies ==
    ASSUME TypeOK, [Next]_vars, NEW f \in File, NEW p \in Place,
           disk'[f][p] # disk[f][p]
    PROVE  \/ p = "uploads" /\ WriteUpload(f)
           \/ p = "downloads" /\ \E w \in Worker : BeginExport(w, f) \/ EndExport(w, f)
           \/ RemoveFiles /\ \E d \in deleting : <<f, p>> \in d.doomed
<1> USE DEF store, tasks
<1>1. ASSUME NEW g \in File, Upload(g) PROVE p = "uploads" /\ WriteUpload(f)
    <2>1. f = g
        BY <1>1, UploadFrame
    <2>2. WriteUpload(f)
        BY <1>1, <2>1 DEF Upload, CheckUpload, StoreBlob, AttachUpload, PersistTicket
    <2>3. QED
        BY <2>2 DEF WriteUpload, TypeOK, Place
<1>2. ASSUME NEW w \in Worker, NEW g \in File, Run(w, g)
      PROVE  p = "downloads" /\ (BeginExport(w, f) \/ EndExport(w, f))
    <2>1. f = g /\ p = "downloads"
        BY <1>2, RunFrame DEF Place
    <2>2. QED
        BY <1>2, <2>1 DEF Run, WriteBack, LookForBlob, MarkDownloading, Fetch,
           FailFetch, FailExport, FinishDownload
<1>3. CASE RemoveFiles
    <2>1. PICK d \in deleting :
              \/ disk' = [g \in File |-> [q \in Place |->
                            IF <<g, q>> \in d.doomed THEN "none"
                            ELSE disk[g][q]]]
              \/ disk' = disk
        BY <1>3 DEF RemoveFiles
    <2>2. <<f, p>> \in d.doomed
        BY <2>1
    <2>3. QED
        BY <1>3, <2>2
<1>4. CASE UNCHANGED vars
    BY <1>4 DEF vars
<1>5. CASE Next
    <2>1. \/ \E g \in File : Upload(g)
          \/ \E w \in Worker, g \in File : Run(w, g)
          \/ RemoveFiles
          \/ disk' = disk
        BY <1>5 DEF Next, Input, Work, StorePost, ReceiveAnnouncement,
           ApplySnapshot, RequestDownload, HandleAnnouncement, RecordAnnounced,
           StartAnnounced, CheckSnapshot, ListFiles, CheckListed, Delete,
           ListDoomed, DeleteThread, Restart
    <2>2. QED
        BY <1>1, <1>2, <1>3, <2>1
<1>6. QED
    BY <1>4, <1>5

LEMMA DownloadBlobsStep ==
    ASSUME TypeOK, DownloadsHaveBlobs, ExportsHaveBlobs, [Next]_vars
    PROVE  DownloadsHaveBlobs'
<1> SUFFICES ASSUME NEW f \in File, disk'[f]["downloads"] # "none"
             PROVE  f \in blobs'
    BY DEF DownloadsHaveBlobs, Exists
<1>1. CASE disk'[f]["downloads"] = disk[f]["downloads"]
    BY <1>1, BlobsGrow DEF DownloadsHaveBlobs, Exists
<1>2. CASE disk'[f]["downloads"] # disk[f]["downloads"] /\ ~RemoveFiles
    <2>1. PICK w \in Worker : BeginExport(w, f) \/ EndExport(w, f)
        BY <1>2, NewCopies DEF Place
    <2>2. f \in blobs
        BY <2>1 DEF BeginExport, EndExport, ExportsHaveBlobs
    <2>3. QED
        BY <2>2, BlobsGrow
<1>3. CASE RemoveFiles
    <2>1. CASE CwdIsBase
        <3>1. PICK d \in deleting :
                  disk' = [g \in File |-> [p \in Place |->
                      IF <<g, p>> \in d.doomed THEN "none" ELSE disk[g][p]]]
            BY <1>3, <2>1 DEF RemoveFiles
        <3>2. disk'[f]["downloads"] = IF <<f, "downloads">> \in d.doomed
                                      THEN "none" ELSE disk[f]["downloads"]
            BY <3>1 DEF Place
        <3>3. QED
            BY <1>1, <3>2
    <2>2. CASE ~CwdIsBase
        BY <1>1, <1>3, <2>2 DEF RemoveFiles
    <2>3. QED
        BY <2>1, <2>2
<1>4. QED
    BY <1>1, <1>2, <1>3

LEMMA StoreInit == Init => StoreInv
<1> SUFFICES ASSUME Init PROVE StoreInv
    OBVIOUS
<1>1. TypeOK
    BY InitType
<1>2. UploadsAreUnknown
    BY DEF Init, UploadsAreUnknown, Workers, Idle
<1>3. RowsHavePosts /\ UploadsHaveBlobs /\ ExportsHaveBlobs /\ DownloadsHaveBlobs
    BY DEF Init, RowsHavePosts, UploadsHaveBlobs, ExportsHaveBlobs,
       DownloadsHaveBlobs, Attached, At, Idle, Exists, Place
<1>4. QED
    BY <1>1, <1>2, <1>3 DEF StoreInv

LEMMA StoreNext == StoreInv /\ [Next]_vars => StoreInv'
BY NextType, PostsStep, UnknownStep, UploadBlobsStep, ExportBlobsStep,
   DownloadBlobsStep DEF StoreInv

LEMMA StoreInvariance == Spec => []StoreInv
<1>1. QED
    BY StoreInit, StoreNext, PTL DEF Spec

\* No row outlives its post, whatever is announced, uploaded, written back or
\* deleted between two closures.
THEOREM RowsAlwaysHavePosts == Spec => []RowsHavePosts
<1>1. StoreInv => RowsHavePosts
    BY DEF StoreInv
<1>2. QED
    BY <1>1, StoreInvariance, PTL

\* What the user attached can be served, and what was exported came from a blob.
THEOREM SharedFilesAlwaysHaveBlobs == Spec => []SharedFilesHaveBlobs
<1>1. StoreInv => SharedFilesHaveBlobs
    <2> SUFFICES ASSUME StoreInv, NEW f \in File
                 PROVE  /\ upload[f] # "elsewhere" /\ row[f] # {} => f \in blobs
                        /\ Exists(f, "downloads") => f \in blobs
        BY DEF SharedFilesHaveBlobs
    <2>1. upload[f] \in UploadStep
        BY DEF StoreInv, TypeOK
    <2>2. QED
        BY <2>1 DEF StoreInv, UploadsAreUnknown, UploadsHaveBlobs,
           DownloadsHaveBlobs, UploadStep, Unattached, Attached
<1>2. QED
    BY <1>1, StoreInvariance, PTL

-----------------------------------------------------------------------------
(* No file is forgotten.                                                   *)

\* What other nodes say of a file comes with the ticket for it.
OffersHaveTickets == \A f \in File : \A r \in Offers[f] : r.ticket

LEMMA WrittenStep ==
    ASSUME TypeOK, UploadsAreUnknown, UploadsAreWritten, [Next]_vars
    PROVE  UploadsAreWritten'
<1> SUFFICES ASSUME NEW f \in File, upload'[f] \in {"written", "stored"},
                    disk'[f]["uploads"] # "whole"
             PROVE  FALSE
    BY DEF UploadsAreWritten
<1>1. upload[f] \in {"written", "stored"}
    BY UploadOrder DEF Unattached
<1>2. disk'[f]["uploads"] # disk[f]["uploads"]
    BY <1>1 DEF UploadsAreWritten
<1>3. \A d \in deleting : <<f, "uploads">> \notin d.doomed
    BY <1>1 DEF UploadsAreUnknown, Unattached, Place
<1>4. WriteUpload(f)
    BY <1>2, <1>3, NewCopies DEF Place
<1>5. QED
    BY <1>1, <1>4 DEF WriteUpload

LEMMA IdleStep ==
    ASSUME TypeOK, IdleTasksAreFree, [Next]_vars
    PROVE  IdleTasksAreFree'
<1> SUFFICES ASSUME NEW w \in Worker, task'[w].step = "idle", task'[w].file # {}
             PROVE  FALSE
    BY DEF IdleTasksAreFree
<1>1. PICK f \in File : Run(w, f)
    BY NewSteps DEF IdleTasksAreFree, Idle
<1>2. task'[w] # Idle
    BY DEF Idle
<1>3. CASE LookForBlob(w, f) \/ MarkDownloading(w, f) \/ Fetch(w, f)
    BY <1>3 DEF LookForBlob, MarkDownloading, Fetch, TypeOK, Task
<1>4. CASE BeginExport(w, f) \/ EndExport(w, f)
    BY <1>4 DEF BeginExport, EndExport, TypeOK, Task
<1>5. CASE WriteBack(w, f)
    BY <1>2, <1>5 DEF WriteBack, TypeOK, Task
<1>6. CASE FailFetch(w, f) \/ FailExport(w, f) \/ FinishDownload(w, f)
    BY <1>2, <1>6 DEF FailFetch, FailExport, FinishDownload, TypeOK
<1>7. QED
    BY <1>1, <1>3, <1>4, <1>5, <1>6 DEF Run

LEMMA HandledStep ==
    ASSUME TypeOK, HandledAreAnnounced, [Next]_vars
    PROVE  HandledAreAnnounced'
<1> USE DEF store, tasks
<1> SUFFICES ASSUME NEW h \in handling' PROVE upload'[h.file] \in {"elsewhere", "done"}
    BY DEF HandledAreAnnounced
<1>1. h.file \in File
    BY NextType DEF TypeOK, Option
<1>2. upload[h.file] \in {"elsewhere", "done"}
    <2>1. ASSUME NEW f \in File, ReceiveAnnouncement(f)
          PROVE  upload[h.file] \in {"elsewhere", "done"}
        BY <2>1 DEF ReceiveAnnouncement
    <2>2. ASSUME NEW f \in File, RecordAnnounced(f)
          PROVE  upload[h.file] \in {"elsewhere", "done"}
        <3>1. handling = {[file |-> f, step |-> "store"]} /\ h.file = f
            BY <2>2 DEF RecordAnnounced
        <3>2. QED
            BY <3>1 DEF HandledAreAnnounced
    <2>3. CASE handling' \subseteq handling
        BY <2>3 DEF HandledAreAnnounced
    <2>4. CASE UNCHANGED vars
        BY <2>3, <2>4 DEF vars
    <2>5. CASE Next
        <3>1. \/ \E f \in File : ReceiveAnnouncement(f) \/ RecordAnnounced(f)
              \/ handling' \subseteq handling
            BY <2>5, UploadFrame, RunFrame DEF Next, Input, Work, StorePost,
               ApplySnapshot, RequestDownload, HandleAnnouncement,
               StartAnnounced, CheckSnapshot, ListFiles, CheckListed, Delete,
               ListDoomed, DeleteThread, RemoveFiles, Restart
        <3>2. QED
            BY <2>1, <2>2, <2>3, <3>1
    <2>6. QED
        BY <2>4, <2>5
<1>3. QED
    BY <1>1, <1>2, UploadOrder

LEMMA CopiesStep ==
    ASSUME TypeOK, CopiesHaveTickets, [Next]_vars
    PROVE  CopiesHaveTickets'
<1> USE DEF store, tasks
<1> SUFFICES ASSUME NEW v \in Worker, NEW r \in task'[v].copy PROVE r.ticket
    BY DEF CopiesHaveTickets
<1>1. ASSUME NEW w \in Worker, NEW f \in File, Spawn(w, f) PROVE r.ticket
    <2>1. CASE v = w
        <3>1. task'[v] = [step |-> "started", file |-> {f}, copy |-> {}]
            BY <1>1, <2>1, SpawnFrame
        <3>2. QED
            BY <3>1
    <2>2. CASE v # w
        BY <1>1, <2>2, SpawnFrame DEF CopiesHaveTickets
    <2>3. QED
        BY <2>1, <2>2
<1>2. ASSUME NEW w \in ManualWorker, NEW f \in File, RequestDownload(w, f) PROVE r.ticket
    BY <1>2 DEF RequestDownload, TypeOK, CopiesHaveTickets
<1>3. ASSUME NEW w \in Worker, NEW f \in File, Run(w, f) PROVE r.ticket
    BY <1>3, RunFrame DEF CopiesHaveTickets
<1>4. CASE Restart
    BY <1>4 DEF Restart, Idle
<1>5. CASE task' = task
    BY <1>5 DEF CopiesHaveTickets
<1>6. CASE UNCHANGED vars
    BY <1>5, <1>6 DEF vars
<1>7. CASE Next
    <2>1. \/ \E w \in Worker, f \in File : Spawn(w, f)
          \/ \E w \in ManualWorker, f \in File : RequestDownload(w, f)
          \/ \E w \in Worker, f \in File : Run(w, f)
          \/ Restart
          \/ task' = task
        BY <1>7, UploadFrame DEF Next, Input, Work, StorePost,
           ReceiveAnnouncement, ApplySnapshot, HandleAnnouncement,
           RecordAnnounced, StartAnnounced, CheckSnapshot, ListFiles,
           CheckListed, Delete, ListDoomed, DeleteThread, RemoveFiles, Listed,
           Worker
    <2>2. QED
        BY <1>1, <1>2, <1>3, <1>4, <1>5, <2>1
<1>8. QED
    BY <1>6, <1>7

\* Only a write-back and a new snapshot put an end to what was stranded.
LEMMA NewCover ==
    ASSUME TypeOK, [Next]_vars, NEW f \in stranded, f \notin stranded'
    PROVE  \/ \E v \in Worker : WriteBack(v, f) /\ Workers(f) = {v}
           \/ \E P \in SUBSET Post : \E F \in SUBSET File : \E offer \in [F -> Row] :
                 ApplySnapshot(P, offer) /\ Workers(f) = {}
<1> USE DEF store, tasks
<1>1. ASSUME NEW w \in Worker, NEW g \in File, Run(w, g)
      PROVE  \E v \in Worker : WriteBack(v, f) /\ Workers(f) = {v}
    BY <1>1 DEF Run, WriteBack, LookForBlob, MarkDownloading, Fetch, FailFetch,
       BeginExport, EndExport, FailExport, FinishDownload
<1>2. ASSUME NEW P \in SUBSET Post, NEW F \in SUBSET File, NEW offer \in [F -> Row],
             ApplySnapshot(P, offer)
      PROVE  Workers(f) = {}
    BY <1>2 DEF ApplySnapshot, TypeOK
<1>3. CASE UNCHANGED vars
    BY <1>3 DEF vars
<1>4. CASE Next
    <2>1. \/ \E w \in Worker, g \in File : Run(w, g)
          \/ \E P \in SUBSET Post : \E F \in SUBSET File : \E offer \in [F -> Row] :
                 ApplySnapshot(P, offer)
          \/ stranded \subseteq stranded'
        BY <1>4, UploadFrame DEF Next, Input, Work, StorePost,
           ReceiveAnnouncement, RequestDownload, HandleAnnouncement,
           RecordAnnounced, StartAnnounced, CheckSnapshot, ListFiles,
           CheckListed, Delete, ListDoomed, DeleteThread, RemoveFiles, Restart
    <2>2. QED
        BY <1>1, <1>2, <2>1
<1>5. QED
    BY <1>3, <1>4

\* A task at work goes on, comes to its end, or is lost in a restart.
LEMMA RestartOrRun ==
    ASSUME TypeOK, [Next]_vars, NEW v \in Worker, task'[v] # task[v],
           task[v].step # "idle"
    PROVE  (\E g \in File : Run(v, g)) \/ Restart
<1> USE DEF store, tasks
<1>1. ASSUME NEW w \in Worker, NEW f \in File, Spawn(w, f) PROVE FALSE
    BY <1>1, SpawnFrame
<1>2. ASSUME NEW w \in ManualWorker, NEW f \in File, RequestDownload(w, f) PROVE FALSE
    BY <1>2 DEF RequestDownload, TypeOK
<1>3. ASSUME NEW w \in Worker, NEW f \in File, Run(w, f) PROVE Run(v, f)
    BY <1>3, RunFrame
<1>4. CASE UNCHANGED vars
    BY <1>4 DEF vars
<1>5. CASE Next
    <2>1. \/ \E w \in Worker, f \in File : Spawn(w, f)
          \/ \E w \in ManualWorker, f \in File : RequestDownload(w, f)
          \/ \E w \in Worker, f \in File : Run(w, f)
          \/ Restart
          \/ task' = task
        BY <1>5, UploadFrame DEF Next, Input, Work, StorePost,
           ReceiveAnnouncement, ApplySnapshot, HandleAnnouncement,
           RecordAnnounced, StartAnnounced, CheckSnapshot, ListFiles,
           CheckListed, Delete, ListDoomed, DeleteThread, RemoveFiles, Listed,
           Worker
    <2>2. QED
        BY <1>1, <1>2, <1>3, <2>1
<1>6. QED
    BY <1>4, <1>5

LEMMA ExportedStep ==
    ASSUME TypeOK, ExportsStay, [Next]_vars
    PROVE  ExportsStay'
<1> USE DEF store, tasks
<1> SUFFICES ASSUME NEW w \in Worker, NEW f \in File,
                    task'[w].step = "exported", task'[w].file = {f},
                    f \notin stranded'
             PROVE  \/ disk'[f]["downloads"] = "whole"
                    \/ \E v \in Worker : /\ task'[v].step = "exporting"
                                         /\ task'[v].file = {f}
    BY DEF ExportsStay, At
<1>1. ASSUME NEW v \in Worker, EndExport(v, f) PROVE disk'[f]["downloads"] = "whole"
    BY <1>1 DEF EndExport, TypeOK, Place
<1>2. ASSUME NEW v \in Worker, BeginExport(v, f)
      PROVE  task'[v].step = "exporting" /\ task'[v].file = {f}
    BY <1>2 DEF BeginExport, At, TypeOK, Task
<1>3. CASE task'[w] # task[w]
    <2>1. Run(w, f)
        BY <1>3, NewSteps DEF Idle
    <2>2. EndExport(w, f)
        <3>1. task'[w] # Idle
            BY DEF Idle
        <3>2. ~FailFetch(w, f) /\ ~FailExport(w, f) /\ ~FinishDownload(w, f)
            BY <3>1 DEF FailFetch, FailExport, FinishDownload, TypeOK
        <3>3. /\ WriteBack(w, f) => task'[w] = Idle \/ task'[w].step = "started"
              /\ MarkDownloading(w, f) => task'[w].step = "fetching"
            <4>1. task \in [Worker -> Task] /\ w \in Worker
                BY DEF TypeOK
            <4>2. ASSUME MarkDownloading(w, f) PROVE task'[w].step = "fetching"
                BY <4>1, <4>2 DEF MarkDownloading, Task
            <4>3. ASSUME WriteBack(w, f)
                  PROVE  task'[w] = Idle \/ task'[w].step = "started"
                <5>1. CASE PostOf[f] \in posts
                    BY <4>1, <4>3, <5>1 DEF WriteBack, Task
                <5>2. CASE PostOf[f] \notin posts
                    BY <4>1, <4>3, <5>2 DEF WriteBack
                <5>3. QED
                    BY <5>1, <5>2
            <4>4. QED
                BY <4>2, <4>3
        <3>4. ~LookForBlob(w, f)
            BY DEF LookForBlob, At, TypeOK, Task
        <3>5. ~Fetch(w, f) /\ ~BeginExport(w, f)
            BY DEF Fetch, BeginExport, At, TypeOK, Task
        <3>6. QED
            BY <2>1, <3>1, <3>2, <3>3, <3>4, <3>5 DEF Run
    <2>3. QED
        BY <1>1, <2>2
<1>4. CASE task'[w] = task[w]
    <2>1. w \in Workers(f) /\ At(w, f, "exported")
        BY <1>4 DEF Workers, At
    <2>2. f \notin stranded
        BY <2>1, NewCover DEF WriteBack, At
    <2>3. CASE disk[f]["downloads"] = "whole"
        <3>1. CASE RemoveFiles
            <4>1. CASE CwdIsBase
                <5>1. PICK d \in deleting :
                          /\ disk' = [g \in File |-> [p \in Place |->
                                IF <<g, p>> \in d.doomed THEN "none"
                                ELSE disk[g][p]]]
                          /\ stranded' = stranded \union
                                {g \in File : /\ \E p \in Place : <<g, p>> \in d.doomed
                                              /\ row[g] # {} \/ Workers(g) # {}}
                    BY <3>1, <4>1 DEF RemoveFiles
                <5>2. <<f, "downloads">> \notin d.doomed
                    BY <2>1, <5>1 DEF Place
                <5>3. disk'[f]["downloads"] = IF <<f, "downloads">> \in d.doomed
                                              THEN "none" ELSE disk[f]["downloads"]
                    BY <5>1 DEF Place
                <5>4. QED
                    BY <2>3, <5>2, <5>3
            <4>2. CASE ~CwdIsBase
                BY <2>3, <3>1, <4>2 DEF RemoveFiles
            <4>3. QED
                BY <4>1, <4>2
        <3>2. CASE ~RemoveFiles
            BY <1>1, <1>2, <2>3, <3>2, NewCopies DEF Place
        <3>3. QED
            BY <3>1, <3>2
    <2>4. ASSUME NEW v \in Worker, At(v, f, "exporting")
          PROVE  \/ disk'[f]["downloads"] = "whole"
                 \/ task'[v].step = "exporting" /\ task'[v].file = {f}
        <3>1. CASE task'[v] = task[v]
            BY <2>4, <3>1 DEF At
        <3>2. ASSUME NEW g \in File, Run(v, g) PROVE disk'[f]["downloads"] = "whole"
            <4>1. g = f
                BY <2>4, <3>2, RunFrame DEF At
            <4>2. EndExport(v, f) \/ FailExport(v, f)
                BY <2>4, <3>2, <4>1 DEF Run, WriteBack, LookForBlob,
                   MarkDownloading, Fetch, FailFetch, BeginExport,
                   FinishDownload, At
            <4>3. QED
                BY <1>1, <4>2 DEF FailExport
        <3>3. CASE task'[v] # task[v]
            <4>1. (\E g \in File : Run(v, g)) \/ Restart
                BY <2>4, <3>3, RestartOrRun DEF At
            <4>2. ~Restart
                BY DEF Restart, Idle
            <4>3. QED
                BY <3>2, <4>1, <4>2
        <3>4. QED
            BY <3>1, <3>3
    <2>5. QED
        BY <2>1, <2>2, <2>3, <2>4 DEF ExportsStay
<1>5. QED
    BY <1>3, <1>4

\* A row without a ticket is new from the upload, or was there before.
LEMMA OldRows ==
    ASSUME TypeOK, OffersHaveTickets, CopiesHaveTickets, TicketsCome, [Next]_vars,
           NEW g \in File, NEW r \in row'[g], ~r.ticket
    PROVE  \/ AttachUpload(g)
           \/ r \in row[g] /\ ~PersistTicket(g) /\ (g \in stranded => g \in stranded')
<1> USE DEF store, tasks
<1> DEFINE Old == r \in row[g] /\ ~PersistTicket(g) /\ (g \in stranded => g \in stranded')
<1>1. ASSUME NEW f \in File, Upload(f) PROVE AttachUpload(g) \/ Old
    <2>1. CASE f = g
        <3>1. ~PersistTicket(g)
            <4>1. ASSUME PersistTicket(g) PROVE FALSE
                <5>1. PICK q \in row[g] : r = [q EXCEPT !.ticket = TRUE]
                    BY <4>1 DEF PersistTicket, TypeOK
                <5>2. q \in Row
                    BY <5>1, FieldTypes
                <5>3. QED
                    BY <5>1, <5>2 DEF Row
            <4>2. QED
                BY <4>1
        <3>2. CASE CheckUpload(g) \/ WriteUpload(g) \/ StoreBlob(g)
            BY <3>1, <3>2 DEF CheckUpload, WriteUpload, StoreBlob
        <3>3. QED
            BY <1>1, <2>1, <3>1, <3>2 DEF Upload
    <2>2. CASE f # g
        <3>1. row'[g] = row[g] /\ upload'[g] = upload[g] /\ stranded' = stranded
            BY <1>1, <2>2, UploadFrame
        <3>2. ~PersistTicket(g)
            BY <3>1 DEF PersistTicket, TypeOK
        <3>3. QED
            BY <3>1, <3>2
    <2>3. QED
        BY <2>1, <2>2
<1>2. ASSUME upload' = upload PROVE ~PersistTicket(g)
    BY <1>2 DEF PersistTicket, TypeOK
<1>3. ASSUME NEW P \in SUBSET Post, NEW F \in SUBSET File, NEW offer \in [F -> Row],
             \A f \in F : offer[f] \in Offers[f], ApplySnapshot(P, offer)
      PROVE  Old
    <2>1. g \notin F
        BY <1>3 DEF ApplySnapshot, OffersHaveTickets
    <2>2. QED
        BY <1>2, <1>3, <2>1 DEF ApplySnapshot
<1>4. ASSUME NEW f \in File, RecordAnnounced(f) PROVE Old
    <2>1. row'[g] = {Announced} \/ row'[g] = row[g]
        BY <1>4 DEF RecordAnnounced, TypeOK
    <2>2. row'[g] = row[g]
        BY <2>1 DEF Announced
    <2>3. QED
        BY <1>2, <1>4, <2>2 DEF RecordAnnounced
<1>5. ASSUME NEW w \in Worker, NEW f \in File, Run(w, f) PROVE Old
    <2>1. CASE f = g
        <3>1. w \in Workers(g)
            BY <1>5, <2>1, RunFrame DEF Workers
        <3>2. \A q \in row[g] : q.ticket /\ q \in Row
            BY <3>1, FieldTypes DEF TicketsCome
        <3>3. \A q \in task[w].copy : q.ticket /\ q \in Row
            BY DEF CopiesHaveTickets, TypeOK, Task, Option
        <3>4. CASE WriteBack(w, g)
            <4>1. PICK q \in task[w].copy \union row[g] :
                      r = q \/ r = [q EXCEPT !.status = "downloading"]
                BY <3>4 DEF WriteBack, TypeOK
            <4>2. QED
                BY <3>2, <3>3, <4>1 DEF Row
        <3>5. ASSUME NEW t \in Status, row' = Update(g, t) PROVE FALSE
            <4>1. PICK q \in row[g] : r = [q EXCEPT !.status = t]
                BY <3>5, UpdateFrame
            <4>2. QED
                BY <3>2, <4>1 DEF Row
        <3>6. CASE FinishDownload(w, g)
            <4>1. PICK q \in row[g] : r = [q EXCEPT !.path = "downloads", !.status = "available"]
                BY <3>6 DEF FinishDownload, TypeOK
            <4>2. QED
                BY <3>2, <4>1 DEF Row
        <3>7. row' # row
            BY <3>2
        <3>8. QED
            BY <1>5, <2>1, <3>4, <3>5, <3>6, <3>7 DEF Run, LookForBlob, MarkDownloading,
               Fetch, FailFetch, BeginExport, EndExport, FailExport, Status
    <2>2. CASE f # g
        <3>1. row'[g] = row[g] /\ upload' = upload
            BY <1>5, <2>2, RunFrame
        <3>2. g \in stranded => g \in stranded'
            BY <1>5, <2>2 DEF Run, WriteBack, LookForBlob, MarkDownloading,
               Fetch, FailFetch, BeginExport, EndExport, FailExport, FinishDownload
        <3>3. QED
            BY <1>2, <3>1, <3>2
    <2>3. QED
        BY <2>1, <2>2
<1>6. CASE UNCHANGED vars
    BY <1>2, <1>6 DEF vars
<1>7. CASE Next
    <2>1. \/ \E f \in File : Upload(f) \/ RecordAnnounced(f)
          \/ \E P \in SUBSET Post : \E F \in SUBSET File : \E offer \in [F -> Row] :
                 (\A f \in F : offer[f] \in Offers[f]) /\ ApplySnapshot(P, offer)
          \/ \E w \in Worker, f \in File : Run(w, f)
          \/ Restart
          \/ row' = [f \in File |-> {}]
          \/ row' = row /\ upload' = upload /\ stranded \subseteq stranded'
        BY <1>7 DEF Next, Input, Work, StorePost, ReceiveAnnouncement,
           RequestDownload, HandleAnnouncement, StartAnnounced, CheckSnapshot,
           ListFiles, CheckListed, Delete, ListDoomed, DeleteThread, RemoveFiles
    <2>2. CASE Restart
        BY <2>2 DEF Restart, PersistTicket, TypeOK
    <2>3. QED
        BY <1>1, <1>2, <1>3, <1>4, <1>5, <2>1, <2>2
<1>8. QED
    BY <1>6, <1>7

LEMMA TicketsStep ==
    ASSUME TypeOK, OffersHaveTickets, UploadsAreUnknown, UploadsAreWritten,
           HandledAreAnnounced, CopiesHaveTickets, TicketsCome, [Next]_vars
    PROVE  TicketsCome'
<1> USE DEF store, tasks
<1> SUFFICES ASSUME NEW g \in File, NEW r \in row'[g], ~r.ticket
             PROVE  /\ upload'[g] \in {"attached", "cut"}
                    /\ \A v \in Worker : task'[v].file # {g}
                    /\ \A l \in listed' : l.file = g => ~l.row.ticket
                    /\ r.path = "uploads"
                    /\ disk'[g]["uploads"] = "whole" \/ g \in stranded'
    BY DEF TicketsCome, Workers
<1>1. CASE AttachUpload(g)
    <2>1. PostOf[g] \in posts
        BY <1>1 DEF AttachUpload, UploadsAreUnknown, Unattached
    <2>2. upload'[g] = "attached" /\ r.path = "uploads"
        BY <1>1, <2>1 DEF AttachUpload, TypeOK
    <2>3. QED
        BY <1>1, <2>2 DEF AttachUpload, UploadsAreUnknown, UploadsAreWritten,
           Unattached, Workers
<1>2. CASE r \in row[g] /\ ~PersistTicket(g) /\ (g \in stranded => g \in stranded')
    <2>1. /\ upload[g] \in {"attached", "cut"}
          /\ \A v \in Worker : task[v].file # {g}
          /\ \A l \in listed : l.file = g => ~l.row.ticket
          /\ r.path = "uploads"
          /\ disk[g]["uploads"] = "whole" \/ g \in stranded
          /\ \A q \in row[g] : q = r
        BY <1>2, FieldTypes, Options DEF TicketsCome, Workers
    <2>2. upload'[g] \in {"attached", "cut"}
        <3>1. ASSUME NEW f \in File, Upload(f) PROVE upload'[g] = upload[g]
            <4>1. CASE f = g
                BY <1>2, <2>1, <3>1, <4>1 DEF Upload, CheckUpload, WriteUpload,
                   StoreBlob, AttachUpload
            <4>2. QED
                BY <3>1, <4>1, UploadFrame
        <3>2. CASE Restart
            BY <2>1, <3>2 DEF Restart
        <3>3. CASE UNCHANGED vars
            BY <2>1, <3>3 DEF vars
        <3>4. CASE Next
            <4>1. (\E f \in File : Upload(f)) \/ Restart \/ upload' = upload
                BY <3>4, RunFrame DEF Next, Input, Work, StorePost,
                   ReceiveAnnouncement, ApplySnapshot, RequestDownload,
                   HandleAnnouncement, RecordAnnounced, StartAnnounced,
                   CheckSnapshot, ListFiles, CheckListed, Delete, ListDoomed,
                   DeleteThread, RemoveFiles
            <4>2. QED
                BY <2>1, <3>1, <3>2, <4>1
        <3>5. QED
            BY <3>3, <3>4
    <2>3. ASSUME NEW v \in Worker PROVE task'[v].file # {g}
        <3>1. ASSUME NEW w \in Worker, NEW f \in File, f # g, Spawn(w, f)
              PROVE  task'[v].file # {g}
            <4>1. CASE v = w
                <5>1. task'[v] = [step |-> "started", file |-> {f}, copy |-> {}]
                    BY <3>1, <4>1, SpawnFrame
                <5>2. QED
                    BY <3>1, <5>1
            <4>2. CASE v # w
                BY <2>1, <3>1, <4>2, SpawnFrame
            <4>3. QED
                BY <4>1, <4>2
        <3>2. ASSUME NEW f \in File, StartAnnounced(f) PROVE task'[v].file # {g}
            <4>1. f # g
                BY <2>1, <3>2 DEF StartAnnounced, HandledAreAnnounced
            <4>2. QED
                BY <2>1, <3>1, <3>2, <4>1 DEF StartAnnounced, Worker
        <3>3. ASSUME NEW l \in Listed, CheckListed(l) PROVE task'[v].file # {g}
            <4>1. CASE l.file = g
                BY <2>1, <3>3, <4>1 DEF CheckListed
            <4>2. CASE l.file # g
                BY <2>1, <3>1, <3>3, <4>2 DEF CheckListed, Listed, Worker
            <4>3. QED
                BY <4>1, <4>2
        <3>4. ASSUME NEW w \in ManualWorker, NEW f \in File, RequestDownload(w, f)
              PROVE  task'[v].file # {g}
            <4>1. f # g
                BY <2>1, <3>4 DEF RequestDownload
            <4>2. task'[v] = task[v] \/ task'[v].file = {f}
                BY <3>4 DEF RequestDownload, TypeOK
            <4>3. QED
                BY <2>1, <4>1, <4>2
        <3>5. ASSUME NEW w \in Worker, NEW f \in File, Run(w, f)
              PROVE  task'[v].file # {g}
            BY <2>1, <3>5, RunFrame
        <3>6. CASE Restart
            BY <3>6 DEF Restart, Idle
        <3>7. CASE UNCHANGED vars
            BY <2>1, <3>7 DEF vars
        <3>8. CASE Next
            <4>1. \/ \E f \in File : StartAnnounced(f)
                  \/ \E l \in Listed : CheckListed(l)
                  \/ \E w \in ManualWorker, f \in File : RequestDownload(w, f)
                  \/ \E w \in Worker, f \in File : Run(w, f)
                  \/ Restart
                  \/ task' = task
                BY <3>8, UploadFrame DEF Next, Input, Work, StorePost,
                   ReceiveAnnouncement, ApplySnapshot, HandleAnnouncement,
                   RecordAnnounced, CheckSnapshot, ListFiles, Delete, ListDoomed,
                   DeleteThread, RemoveFiles
            <4>2. QED
                BY <2>1, <3>2, <3>3, <3>4, <3>5, <3>6, <4>1
        <3>9. QED
            BY <3>7, <3>8
    <2>4. ASSUME NEW l \in listed', l.file = g PROVE ~l.row.ticket
        <3>1. ASSUME NEW p \in Post, ListFiles(p) PROVE ~l.row.ticket
            BY <2>1, <2>4, <3>1 DEF ListFiles
        <3>2. CASE listed' \subseteq listed
            BY <2>1, <2>4, <3>2
        <3>3. CASE UNCHANGED vars
            BY <3>2, <3>3 DEF vars
        <3>4. CASE Next
            <4>1. (\E p \in Post : ListFiles(p)) \/ listed' \subseteq listed
                BY <3>4, UploadFrame, RunFrame DEF Next, Input, Work, StorePost,
                   ReceiveAnnouncement, ApplySnapshot, RequestDownload,
                   HandleAnnouncement, RecordAnnounced, StartAnnounced,
                   CheckSnapshot, CheckListed, Delete, ListDoomed, DeleteThread,
                   RemoveFiles, Restart
            <4>2. QED
                BY <3>1, <3>2, <4>1
        <3>5. QED
            BY <3>3, <3>4
    <2>5. disk'[g]["uploads"] = "whole" \/ g \in stranded'
        <3>1. CASE RemoveFiles
            <4>1. CASE CwdIsBase
                <5>1. PICK d \in deleting :
                          /\ disk' = [f \in File |-> [p \in Place |->
                                IF <<f, p>> \in d.doomed THEN "none"
                                ELSE disk[f][p]]]
                          /\ stranded' = stranded \union
                                {f \in File : /\ \E p \in Place : <<f, p>> \in d.doomed
                                              /\ row[f] # {} \/ Workers(f) # {}}
                    BY <3>1, <4>1 DEF RemoveFiles
                <5>2. <<g, "uploads">> \in d.doomed => g \in stranded'
                    BY <1>2, <5>1 DEF Place
                <5>3. disk'[g]["uploads"] = IF <<g, "uploads">> \in d.doomed
                                            THEN "none" ELSE disk[g]["uploads"]
                    BY <5>1 DEF Place
                <5>4. QED
                    BY <1>2, <2>1, <5>2, <5>3
            <4>2. CASE ~CwdIsBase
                BY <1>2, <2>1, <3>1, <4>2 DEF RemoveFiles
            <4>3. QED
                BY <4>1, <4>2
        <3>2. CASE ~RemoveFiles
            <4>1. disk'[g]["uploads"] = disk[g]["uploads"]
                BY <2>1, <3>2, NewCopies DEF Place, WriteUpload
            <4>2. QED
                BY <1>2, <2>1, <4>1
        <3>3. QED
            BY <3>1, <3>2
    <2>6. QED
        BY <2>1, <2>2, <2>3, <2>4, <2>5
<1>3. QED
    BY <1>1, <1>2, OldRows

\* A step that leaves the row of g alone and ends nothing that works on g.
LEMMA CareFrame ==
    ASSUME TypeOK, AllAreCared, NEW g \in File, g \notin Large, g \notin stranded,
           row'[g] = row[g],
           upload'[g] = "attached" => upload[g] = "attached",
           \A p \in Place : disk[g][p] = "whole" => disk'[g][p] = "whole",
           \A v \in Worker : task[v].file = {g} => task'[v].file = {g},
           PostOf[g] \in todo => PostOf[g] \in todo',
           \A s \in {"store", "decide"} :
               handling = {[file |-> g, step |-> s]} => handling' = handling,
           \A l \in listed : l.file = g => l \in listed',
           NEW r \in row'[g], r.ticket \/ upload'[g] = "attached"
    PROVE  Cared(g, r)'
<1>1. Cared(g, r)
    BY DEF AllAreCared
<1>2. Present(g) => Present(g)'
    BY FieldTypes DEF Present, Row
<1>3. Failed(g) => Failed(g)'
    BY DEF Failed
<1>4. Workers(g) # {} => Workers(g)' # {}
    BY DEF Workers
<1>5. QED
    BY <1>1, <1>2, <1>3, <1>4 DEF Cared

LEMMA UploadCare ==
    ASSUME StoreInv, UploadsAreWritten, AllAreCared, NEW f \in File, Upload(f),
           NEW g \in File, g \notin Large, g \notin stranded',
           NEW r \in row'[g], r.ticket \/ upload'[g] = "attached"
    PROVE  Cared(g, r)'
<1> USE DEF store, tasks
<1>1. CASE f # g
    BY <1>1, UploadFrame, CareFrame DEF StoreInv
<1>2. CASE f = g
    <2>1. CASE AttachUpload(g)
        <3>1. row[g] = {}
            BY <2>1 DEF AttachUpload, StoreInv, UploadsAreUnknown, Unattached
        <3>2. row'[g] = {[path |-> "uploads", status |-> "available", ticket |-> FALSE]}
            BY <2>1, <3>1 DEF AttachUpload, StoreInv, TypeOK
        <3>3. disk'[g]["uploads"] = "whole"
            BY <2>1 DEF AttachUpload, UploadsAreWritten
        <3>4. Present(g)'
            BY <3>2, <3>3 DEF Present
        <3>5. QED
            BY <3>4 DEF Cared
    <2>2. CASE PersistTicket(g)
        <3>1. row'[g] = {[q EXCEPT !.ticket = TRUE] : q \in row[g]}
            BY <2>2 DEF PersistTicket, StoreInv, TypeOK
        <3>2. \A q \in row[g] : /\ [q EXCEPT !.ticket = TRUE].path = q.path
                                /\ [q EXCEPT !.ticket = TRUE].status = q.status
            BY FieldTypes DEF StoreInv, Row
        <3>3. PICK q \in row[g] : r = [q EXCEPT !.ticket = TRUE]
            BY <3>1
        <3>4. Cared(g, q)
            BY <2>2 DEF PersistTicket, AllAreCared
        <3>5. Present(g) => Present(g)'
            BY <2>2, <3>1, <3>2 DEF Present, PersistTicket
        <3>6. Failed(g) => Failed(g)'
            BY <2>2, <3>1, <3>2 DEF Failed
        <3>7. r.path = q.path
            BY <3>2, <3>3
        <3>8. QED
            BY <2>2, <3>4, <3>5, <3>6, <3>7 DEF PersistTicket, Cared, Workers
    <2>3. CASE CheckUpload(g) \/ WriteUpload(g) \/ StoreBlob(g)
        BY <2>3 DEF CheckUpload, WriteUpload, StoreBlob, StoreInv,
           UploadsAreUnknown, Unattached
    <2>4. QED
        BY <1>2, <2>1, <2>2, <2>3 DEF Upload
<1>3. QED
    BY <1>1, <1>2

LEMMA InputCare ==
    ASSUME StoreInv, IdleTasksAreFree, AllAreCared, Input,
           NEW g \in File, g \notin Large, g \notin stranded',
           NEW r \in row'[g], r.ticket \/ upload'[g] = "attached"
    PROVE  Cared(g, r)'
<1> USE DEF store, tasks
<1>1. ASSUME NEW f \in File, ReceiveAnnouncement(f) PROVE Cared(g, r)'
    <2>1. CASE f = g
        BY <1>1, <2>1 DEF ReceiveAnnouncement, Cared
    <2>2. CASE f # g
        BY <1>1, <2>2, CareFrame DEF ReceiveAnnouncement, StoreInv
    <2>3. QED
        BY <2>1, <2>2
<1>2. ASSUME NEW P \in SUBSET Post, NEW F \in SUBSET {f \in File : PostOf[f] \in P},
             NEW offer \in [F -> Row], ApplySnapshot(P, offer)
      PROVE  Cared(g, r)'
    <2>1. CASE g \in F
        BY <1>2, <2>1 DEF ApplySnapshot, Cared
    <2>2. CASE g \notin F
        BY <1>2, <2>2, CareFrame DEF ApplySnapshot, StoreInv
    <2>3. QED
        BY <2>1, <2>2
<1>3. ASSUME NEW w \in ManualWorker, NEW f \in File, RequestDownload(w, f)
      PROVE  Cared(g, r)'
    <2>1. \A v \in Worker : task[v].file = {g} => task'[v].file = {g}
        BY <1>3 DEF RequestDownload, IdleTasksAreFree, StoreInv, TypeOK, Worker
    <2>2. QED
        BY <1>3, <2>1, CareFrame DEF RequestDownload, StoreInv
<1>4. QED
    BY <1>1, <1>2, <1>3 DEF Input

LEMMA SpawnCare ==
    ASSUME TypeOK, IdleTasksAreFree, NEW w \in Worker, NEW f \in File, Spawn(w, f)
    PROVE  /\ task'[w].file = {f}
           /\ \A v \in Worker, g \in File : task[v].file = {g} => task'[v].file = {g}
<1>1. task'[w] = [step |-> "started", file |-> {f}, copy |-> {}]
    BY SpawnFrame
<1>2. task'[w].file = {f}
    BY <1>1
<1>3. task[w].file = {}
    BY SpawnFrame DEF IdleTasksAreFree
<1>4. QED
    BY <1>2, <1>3, SpawnFrame

\* The announcement at work is one announcement.
LEMMA OneHandled ==
    ASSUME NEW f, NEW g, NEW s, NEW t,
           {[file |-> f, step |-> s]} = {[file |-> g, step |-> t]}
    PROVE  f = g /\ s = t
<1>1. [file |-> f, step |-> s] = [file |-> g, step |-> t]
    OBVIOUS
<1>2. /\ [file |-> f, step |-> s].file = [file |-> g, step |-> t].file
      /\ [file |-> f, step |-> s].step = [file |-> g, step |-> t].step
    BY <1>1
<1>3. QED
    BY <1>2

LEMMA HandleCare ==
    ASSUME StoreInv, IdleTasksAreFree, AllAreCared,
           NEW f \in File, HandleAnnouncement(f),
           NEW g \in File, g \notin Large, g \notin stranded',
           NEW r \in row'[g], r.ticket \/ upload'[g] = "attached"
    PROVE  Cared(g, r)'
<1> USE DEF store, tasks
<1>1. CASE RecordAnnounced(f) /\ f = g
    <2>1. PostOf[g] \in posts
        BY <1>1 DEF RecordAnnounced, StoreInv, RowsHavePosts
    <2>2. r = Announced
        BY <1>1, <2>1 DEF RecordAnnounced, StoreInv, TypeOK
    <2>3. QED
        BY <1>1, <2>1, <2>2 DEF RecordAnnounced, Announced, Cared
<1>2. CASE RecordAnnounced(f) /\ f # g
    <2>1. \A s \in {"store", "decide"} : handling # {[file |-> g, step |-> s]}
        BY <1>2, OneHandled DEF RecordAnnounced
    <2>2. row'[g] = row[g]
        BY <1>2 DEF RecordAnnounced, StoreInv, TypeOK
    <2>3. QED
        BY <1>2, <2>1, <2>2, CareFrame DEF RecordAnnounced, StoreInv
<1>3. CASE StartAnnounced(f)
    <2>1. (\E w \in Worker : Spawn(w, f)) \/ task' = task
        BY <1>3 DEF StartAnnounced, Worker
    <2>2. \A v \in Worker : task[v].file = {g} => task'[v].file = {g}
        BY <2>1, SpawnCare DEF StoreInv
    <2>3. CASE f # g
        <3>1. \A s \in {"store", "decide"} : handling # {[file |-> g, step |-> s]}
            BY <1>3, <2>3, OneHandled DEF StartAnnounced
        <3>2. QED
            BY <1>3, <2>2, <3>1, CareFrame DEF StartAnnounced, StoreInv
    <2>4. CASE f = g
        <3>1. CASE NeedsDownload(g, Announced)
            <4>1. PICK w \in Worker : Spawn(w, g)
                BY <1>3, <2>4, <3>1 DEF StartAnnounced, Worker
            <4>2. w \in Workers(g)'
                BY <4>1, SpawnCare DEF Workers, StoreInv
            <4>3. QED
                BY <4>2 DEF Cared
        <3>2. CASE ~NeedsDownload(g, Announced)
            <4>1. disk[g]["downloads"] = "whole" /\ task' = task
                BY <1>3, <2>4, <3>2 DEF StartAnnounced, NeedsDownload, Announced
            <4>2. Cared(g, r)
                BY <1>3 DEF StartAnnounced, AllAreCared
            <4>3. r.path = "downloads" => Present(g)
                BY <1>3, <4>1 DEF StartAnnounced, Present
            <4>4. handling # {[file |-> g, step |-> "store"]}
                BY <1>3, <2>4, OneHandled DEF StartAnnounced
            <4>5. QED
                BY <1>3, <4>1, <4>2, <4>3, <4>4 DEF StartAnnounced, Cared,
                   Present, Failed, Workers
        <3>3. QED
            BY <3>1, <3>2
    <2>5. QED
        BY <2>3, <2>4
<1>4. QED
    BY <1>1, <1>2, <1>3 DEF HandleAnnouncement

LEMMA CheckCare ==
    ASSUME StoreInv, IdleTasksAreFree, TicketsCome, AllAreCared, CheckSnapshot,
           NEW g \in File, g \notin Large, g \notin stranded',
           NEW r \in row'[g], r.ticket \/ upload'[g] = "attached"
    PROVE  Cared(g, r)'
<1> USE DEF store, tasks
<1>1. ASSUME NEW p \in Post, ListFiles(p) PROVE Cared(g, r)'
    <2>1. CASE p # PostOf[g]
        BY <1>1, <2>1, CareFrame DEF ListFiles, StoreInv
    <2>2. CASE p = PostOf[g]
        <3>1. row' = row /\ r \in Row /\ row[g] = {r}
            BY <1>1, FieldTypes, Options DEF ListFiles, StoreInv
        <3>2. CASE r.ticket
            <4> DEFINE l == [file |-> g, row |-> r]
            <4>1. l \in Listed /\ l.file = g /\ l.row = r
                BY <3>1 DEF Listed
            <4> HIDE DEF l
            <4>2. l \in listed'
                BY <1>1, <2>2, <3>1, <4>1 DEF ListFiles
            <4>3. QED
                BY <3>2, <4>1, <4>2 DEF Cared
        <3>3. CASE ~r.ticket
            <4>1. r.path = "uploads" /\ disk[g]["uploads"] = "whole"
                BY <1>1, <3>1, <3>3 DEF TicketsCome, ListFiles
            <4>2. Present(g)'
                BY <1>1, <4>1 DEF Present, ListFiles
            <4>3. QED
                BY <4>2 DEF Cared
        <3>4. QED
            BY <3>2, <3>3
    <2>3. QED
        BY <2>1, <2>2
<1>2. ASSUME NEW k \in Listed, CheckListed(k) PROVE Cared(g, r)'
    <2>1. (\E w \in Worker : Spawn(w, k.file)) \/ task' = task
        BY <1>2 DEF CheckListed, Worker
    <2>2. k.file \in File
        BY DEF Listed
    <2>3. \A v \in Worker : task[v].file = {g} => task'[v].file = {g}
        BY <2>1, <2>2, SpawnCare DEF StoreInv
    <2>4. CASE k.file # g
        BY <1>2, <2>3, <2>4, CareFrame DEF CheckListed, StoreInv
    <2>5. CASE k.file = g /\ \E w \in Worker : Spawn(w, g)
        <3>1. PICK w \in Worker : Spawn(w, g)
            BY <2>5
        <3>2. w \in Workers(g)'
            BY <3>1, SpawnCare DEF Workers, StoreInv
        <3>3. QED
            BY <3>2 DEF Cared
    <2>6. CASE k.file = g /\ task' = task
        <3>1. Cared(g, r) /\ r \in row[g]
            BY <1>2 DEF CheckListed, AllAreCared
        <3>2. ASSUME NEW l \in listed, l.file = g, l.row.path = r.path, l.row.ticket,
                     l \notin listed'
              PROVE  Present(g)
            <4>1. l = k
                BY <1>2, <3>2 DEF CheckListed
            <4>2. CASE NeedsDownload(g, k.row)
                BY <1>2, <2>5, <2>6, <3>2, <4>1, <4>2, SpawnFrame
                   DEF CheckListed, Worker, Spawn, StoreInv, TypeOK
            <4>3. CASE ~NeedsDownload(g, k.row)
                BY <3>1, <3>2, <4>1, <4>3 DEF NeedsDownload, Present
            <4>4. QED
                BY <4>2, <4>3
        <3>3. QED
            BY <1>2, <2>6, <3>1, <3>2 DEF CheckListed, Cared, Present, Failed, Workers
    <2>7. QED
        BY <2>1, <2>4, <2>5, <2>6
<1>3. QED
    BY <1>1, <1>2 DEF CheckSnapshot

LEMMA RunCare ==
    ASSUME StoreInv, ExportsStay, AllAreCared,
           NEW w \in Worker, NEW f \in File, Run(w, f),
           NEW g \in File, g \notin Large, g \notin stranded',
           NEW r \in row'[g], r.ticket \/ upload'[g] = "attached"
    PROVE  Cared(g, r)'
<1> USE DEF store, tasks
<1>1. CASE f # g
    <2>1. g \notin stranded
        BY <1>1 DEF Run, WriteBack, LookForBlob, MarkDownloading, Fetch,
           FailFetch, BeginExport, EndExport, FailExport, FinishDownload
    <2>2. \A v \in Worker : task[v].file = {g} => task'[v].file = {g}
        <3>1. task[w].file # {g}
            BY <1>1, RunFrame DEF StoreInv
        <3>2. QED
            BY <3>1, RunFrame DEF StoreInv
    <2>3. QED
        BY <1>1, <2>1, <2>2, RunFrame, CareFrame DEF StoreInv
<1>2. CASE f = g /\ task'[w].file = {g}
    BY <1>2 DEF Cared, Workers
<1>3. CASE f = g /\ task'[w].file # {g}
    <2>1. CASE WriteBack(w, g)
        <3>1. PostOf[g] \notin posts /\ row' = row
            BY <1>3, <2>1 DEF WriteBack, At, StoreInv, TypeOK, Task
        <3>2. QED
            BY <3>1 DEF StoreInv, RowsHavePosts
    <2>2. CASE FailFetch(w, g)
        <3>1. row'[g] = {[q EXCEPT !.status = "failed"] : q \in row[g]}
            BY <2>2, UpdateFrame DEF FailFetch, StoreInv
        <3>2. \A q \in row[g] : [q EXCEPT !.status = "failed"].status = "failed"
            BY FieldTypes DEF StoreInv, Row
        <3>3. Failed(g)'
            BY <3>1, <3>2 DEF Failed
        <3>4. QED
            BY <3>3 DEF Cared
    <2>3. CASE FailExport(w, g)
        BY <2>3 DEF FailExport
    <2>4. CASE FinishDownload(w, g)
        <3>1. row'[g] = {[q EXCEPT !.path = "downloads", !.status = "available"] :
                             q \in row[g]}
            BY <2>4 DEF FinishDownload, StoreInv, TypeOK
        <3>2. r.path = "downloads"
            BY <3>1, FieldTypes DEF StoreInv, Row
        <3>3. CASE disk[g]["downloads"] = "whole"
            <4>1. Present(g)'
                BY <2>4, <3>2, <3>3 DEF Present, FinishDownload
            <4>2. QED
                BY <4>1 DEF Cared
        <3>4. ASSUME NEW v \in Worker, At(v, g, "exporting") PROVE Cared(g, r)'
            <4>1. v # w
                BY <2>4, <3>4 DEF FinishDownload, At
            <4>2. v \in Workers(g)'
                BY <1>3, <3>4, <4>1, RunFrame DEF Workers, At, StoreInv
            <4>3. QED
                BY <4>2 DEF Cared
        <3>5. QED
            BY <2>4, <3>3, <3>4 DEF FinishDownload, ExportsStay
    <2>5. CASE LookForBlob(w, g) \/ MarkDownloading(w, g) \/ Fetch(w, g)
               \/ BeginExport(w, g) \/ EndExport(w, g)
        <3>1. PICK s : task' = [task EXCEPT ![w].step = s]
            BY <2>5 DEF LookForBlob, MarkDownloading, Fetch, BeginExport, EndExport
        <3>2. task'[w].file = task[w].file
            BY <3>1 DEF StoreInv, TypeOK, Task
        <3>3. task[w].file = {g}
            BY <1>3, RunFrame DEF StoreInv
        <3>4. QED
            BY <1>3, <3>2, <3>3
    <2>6. QED
        BY <1>3, <2>1, <2>2, <2>3, <2>4, <2>5 DEF Run
<1>4. QED
    BY <1>1, <1>2, <1>3

LEMMA DeleteCare ==
    ASSUME StoreInv, AllAreCared, Delete,
           NEW g \in File, g \notin Large, g \notin stranded',
           NEW r \in row'[g], r.ticket \/ upload'[g] = "attached"
    PROVE  Cared(g, r)'
<1> USE DEF store, tasks
<1>1. CASE ListDoomed
    BY <1>1, CareFrame DEF ListDoomed, StoreInv
<1>2. CASE DeleteThread
    BY <1>2 DEF DeleteThread
<1>3. CASE RemoveFiles
    <2>1. disk'[g] = disk[g] /\ g \notin stranded
        <3>1. CASE CwdIsBase
            <4>1. PICK d \in deleting :
                      /\ disk' = [f \in File |-> [p \in Place |->
                            IF <<f, p>> \in d.doomed THEN "none" ELSE disk[f][p]]]
                      /\ stranded' = stranded \union
                            {f \in File : /\ \E p \in Place : <<f, p>> \in d.doomed
                                          /\ row[f] # {} \/ Workers(f) # {}}
                BY <1>3, <3>1 DEF RemoveFiles
            <4>2. row[g] # {}
                BY <1>3 DEF RemoveFiles
            <4>3. \A p \in Place : <<g, p>> \notin d.doomed
                BY <4>1, <4>2
            <4>4. QED
                BY <4>1, <4>3 DEF StoreInv, TypeOK
        <3>2. CASE ~CwdIsBase
            BY <1>3, <3>2 DEF RemoveFiles
        <3>3. QED
            BY <3>1, <3>2
    <2>2. QED
        BY <1>3, <2>1, CareFrame DEF RemoveFiles, StoreInv
<1>4. QED
    BY <1>1, <1>2, <1>3 DEF Delete

LEMMA CareStep ==
    ASSUME StoreInv, CareInv, [Next]_vars
    PROVE  AllAreCared'
<1> USE DEF store, tasks
<1> SUFFICES ASSUME NEW g \in File, g \notin Large, g \notin stranded',
                    NEW r \in row'[g], r.ticket \/ upload'[g] = "attached"
             PROVE  Cared(g, r)'
    BY DEF AllAreCared
<1>1. ASSUME NEW p \in Post, StorePost(p) PROVE Cared(g, r)'
    BY <1>1, CareFrame DEF StorePost, StoreInv, CareInv
<1>2. CASE Restart
    <2>1. ~Busy(g) /\ g \notin stranded /\ row' = row /\ disk' = disk
        BY <1>2 DEF Restart
    <2>2. upload'[g] # "attached"
        BY <1>2 DEF Restart
    <2>3. Cared(g, r)
        BY <2>1, <2>2 DEF CareInv, AllAreCared
    <2>4. \A s \in {"store", "decide"} : handling # {[file |-> g, step |-> s]}
        <3>1. ASSUME NEW s \in {"store", "decide"}, handling = {[file |-> g, step |-> s]}
              PROVE  FALSE
            <4>1. [file |-> g, step |-> s] \in handling
                BY <3>1
            <4>2. [file |-> g, step |-> s].file = g
                OBVIOUS
            <4>3. QED
                BY <2>1, <4>1, <4>2 DEF Busy
        <3>2. QED
            BY <3>1
    <2>5. Present(g) \/ Failed(g)
        BY <2>1, <2>3, <2>4 DEF Cared, Busy
    <2>6. QED
        BY <2>1, <2>5 DEF Cared, Present, Failed
<1>3. CASE UNCHANGED vars
    BY <1>3, CareFrame DEF vars, StoreInv, CareInv
<1>4. CASE Next
    <2>1. \/ Input
          \/ \E p \in Post : StorePost(p)
          \/ \E f \in File : Upload(f)
          \/ \E f \in File : HandleAnnouncement(f)
          \/ CheckSnapshot
          \/ \E w \in Worker, f \in File : Run(w, f)
          \/ Delete
          \/ Restart
        BY <1>4 DEF Next, Work
    <2>2. QED
        BY <1>1, <1>2, <2>1, InputCare, UploadCare, HandleCare, CheckCare,
           RunCare, DeleteCare DEF CareInv
<1>5. QED
    BY <1>3, <1>4

LEMMA CareInit == Init => CareInv
<1> SUFFICES ASSUME Init PROVE CareInv
    OBVIOUS
<1>1. UploadsAreWritten /\ HandledAreAnnounced /\ TicketsCome /\ AllAreCared
    BY DEF Init, UploadsAreWritten, HandledAreAnnounced, TicketsCome, AllAreCared
<1>2. IdleTasksAreFree /\ CopiesHaveTickets /\ ExportsStay
    BY DEF Init, IdleTasksAreFree, CopiesHaveTickets, ExportsStay, At, Idle
<1>3. QED
    BY <1>1, <1>2 DEF CareInv

LEMMA CareNext == OffersHaveTickets => (StoreInv /\ CareInv /\ [Next]_vars => CareInv')
<1> SUFFICES ASSUME OffersHaveTickets, StoreInv, CareInv, [Next]_vars PROVE CareInv'
    OBVIOUS
<1>1. UploadsAreWritten' /\ IdleTasksAreFree' /\ HandledAreAnnounced' /\ CopiesHaveTickets'
    BY WrittenStep, IdleStep, HandledStep, CopiesStep DEF StoreInv, CareInv
<1>2. TicketsCome' /\ ExportsStay' /\ AllAreCared'
    BY TicketsStep, ExportedStep, CareStep DEF StoreInv, CareInv
<1>3. QED
    BY <1>1, <1>2 DEF CareInv

\* No small file with a ticket falls through between the announcements, the
\* snapshots, the write-backs and the downloads that touch its row, if the rows
\* that snapshots bring have tickets.
THEOREM NoFileIsEverForgotten ==
    OffersHaveTickets => (Spec => []NoFileIsForgotten)
<1>1. IInv => NoFileIsForgotten
    <2> SUFFICES ASSUME CareInv, NEW f \in File, Wanted(f)
                 PROVE  Present(f) \/ Failed(f) \/ Busy(f)
        BY DEF IInv, NoFileIsForgotten
    <2>1. PICK r \in row[f] : r.ticket
        BY DEF Wanted
    <2>2. Cared(f, r)
        BY <2>1 DEF Wanted, CareInv, AllAreCared
    <2>3. ASSUME NEW s \in {"store", "decide"}, handling = {[file |-> f, step |-> s]}
          PROVE  Busy(f)
        <3>1. [file |-> f, step |-> s] \in handling
            BY <2>3
        <3>2. [file |-> f, step |-> s].file = f
            OBVIOUS
        <3>3. QED
            BY <3>1, <3>2 DEF Busy
    <2>4. QED
        BY <2>2, <2>3 DEF Cared, Busy
<1>2. SUFFICES ASSUME OffersHaveTickets PROVE Spec => []NoFileIsForgotten
    OBVIOUS
<1>3. IInv /\ [Next]_vars => IInv'
    BY <1>2, StoreNext, CareNext DEF IInv
<1>4. Init => IInv
    BY StoreInit, CareInit DEF IInv
<1>5. QED
    BY <1>1, <1>3, <1>4, PTL DEF Spec

-----------------------------------------------------------------------------
(* No transfer goes on for ever.  While nothing comes in, whatever changes   *)
(* the work that is under way uses it up: first the posts of the snapshot,   *)
(* then the files that were listed, then the announcement, then the steps    *)
(* that the downloads have left.  With NoFileIsForgotten this is why the     *)
(* fairness of the node is enough for WantedFileArrives.                     *)

StepsLeft ==
    [s \in Step |-> CASE s = "idle" -> 0
                      [] s = "exported" -> 1
                      [] s = "exporting" -> 2
                      [] s = "fetched" -> 3
                      [] s = "fetching" -> 4
                      [] s = "marking" -> 5
                      [] s = "started" -> 6
                      [] s = "copied" -> 7]

HandlingWears ==
    \/ handling # {} /\ handling' = {}
    \/ \E f \in File : /\ handling = {[file |-> f, step |-> "store"]}
                       /\ handling' = {[file |-> f, step |-> "decide"]}

DownloadsWear ==
    /\ \A w \in Worker : StepsLeft[task'[w].step] <= StepsLeft[task[w].step]
    /\ \E w \in Worker : StepsLeft[task'[w].step] < StepsLeft[task[w].step]

WearsOut ==
    \/ todo' \subseteq todo /\ todo' # todo
    \/ todo' = todo /\ listed' \subseteq listed /\ listed' # listed
    \/ UNCHANGED <<todo, listed>> /\ HandlingWears
    \/ UNCHANGED <<todo, listed, handling>> /\ DownloadsWear

underway == <<handling, todo, listed, [w \in Worker |-> task[w].step]>>

LEMMA StepValues ==
    /\ StepsLeft["idle"] = 0 /\ StepsLeft["exported"] = 1 /\ StepsLeft["exporting"] = 2
    /\ StepsLeft["fetched"] = 3 /\ StepsLeft["fetching"] = 4 /\ StepsLeft["marking"] = 5
    /\ StepsLeft["started"] = 6 /\ StepsLeft["copied"] = 7
BY DEF StepsLeft, Step

LEMMA StepsAreFew ==
    ASSUME TypeOK, NEW w \in Worker
    PROVE  /\ task[w].step \in Step
           /\ StepsLeft[task[w].step] \in 0..7
           /\ StepsLeft[task[w].step] = 0 => task[w].step = "idle"
<1>1. task[w].step \in Step
    BY DEF TypeOK, Task
<1>2. QED
    BY <1>1 DEF StepsLeft, Step

\* A step of a download leaves it with fewer steps, and the others alone.
LEMMA RunWears ==
    ASSUME TypeOK, NEW w \in Worker, NEW f \in File, Run(w, f)
    PROVE  WearsOut
<1>1. task \in [Worker -> Task] /\ task[w] \in Task
    BY DEF TypeOK
<1>2. UNCHANGED <<todo, listed, handling>> /\ \A v \in Worker \ {w} : task'[v] = task[v]
    BY RunFrame
<1>3. /\ StepsLeft[task'[w].step] \in 0..7
      /\ StepsLeft[task'[w].step] < StepsLeft[task[w].step]
    <2>1. CASE WriteBack(w, f)
        <3>1. task'[w].step \in {"started", "idle"} /\ task[w].step = "copied"
            BY <1>1, <2>1 DEF WriteBack, At, Idle, Task
        <3>2. QED
            BY <3>1, StepValues
    <2>2. CASE LookForBlob(w, f)
        <3>1. task'[w].step \in {"fetched", "marking", "fetching"} /\ task[w].step = "started"
            BY <1>1, <2>2 DEF LookForBlob, At, Task
        <3>2. QED
            BY <3>1, StepValues
    <2>3. CASE MarkDownloading(w, f)
        <3>1. task'[w].step = "fetching" /\ task[w].step = "marking"
            BY <1>1, <2>3 DEF MarkDownloading, At, Task
        <3>2. QED
            BY <3>1, StepValues
    <2>4. CASE Fetch(w, f)
        <3>1. task'[w].step = "fetched" /\ task[w].step = "fetching"
            BY <1>1, <2>4 DEF Fetch, At, Task
        <3>2. QED
            BY <3>1, StepValues
    <2>5. CASE BeginExport(w, f)
        <3>1. task'[w].step = "exporting" /\ task[w].step = "fetched"
            BY <1>1, <2>5 DEF BeginExport, At, Task
        <3>2. QED
            BY <3>1, StepValues
    <2>6. CASE EndExport(w, f)
        <3>1. task'[w].step = "exported" /\ task[w].step = "exporting"
            BY <1>1, <2>6 DEF EndExport, At, Task
        <3>2. QED
            BY <3>1, StepValues
    <2>7. CASE FailFetch(w, f) \/ FailExport(w, f) \/ FinishDownload(w, f)
        <3>1. task' = [task EXCEPT ![w] = Idle]
            BY <2>7 DEF FailFetch, FailExport, FinishDownload
        <3>2. task[w].step \in {"fetching", "exporting", "exported"}
            BY <2>7 DEF FailFetch, FailExport, FinishDownload, At
        <3>3. task'[w].step = "idle"
            BY <1>1, <3>1 DEF Idle
        <3>4. QED
            BY <3>2, <3>3, StepValues
    <2>8. QED
        BY <2>1, <2>2, <2>3, <2>4, <2>5, <2>6, <2>7 DEF Run
<1>4. \A v \in Worker : StepsLeft[task'[v].step] <= StepsLeft[task[v].step]
    <2> SUFFICES ASSUME NEW v \in Worker, v # w
                 PROVE  StepsLeft[task'[v].step] <= StepsLeft[task[v].step]
        BY <1>3, StepsAreFew
    <2>1. task'[v] = task[v] /\ StepsLeft[task[v].step] \in 0..7
        BY <1>2, StepsAreFew
    <2>2. QED
        BY <2>1
<1>5. QED
    BY <1>2, <1>3, <1>4 DEF WearsOut, DownloadsWear

LEMMA WorkWears ==
    ASSUME TypeOK, Work
    PROVE  WearsOut
<1>1. ASSUME NEW f \in File, RecordAnnounced(f) PROVE WearsOut
    <2>1. UNCHANGED <<todo, listed>> /\ handling = {[file |-> f, step |-> "store"]}
        BY <1>1 DEF RecordAnnounced
    <2>2. handling' = {} \/ handling' = {[file |-> f, step |-> "decide"]}
        BY <1>1 DEF RecordAnnounced
    <2>3. QED
        BY <2>1, <2>2 DEF WearsOut, HandlingWears
<1>2. ASSUME NEW f \in File, StartAnnounced(f) PROVE WearsOut
    BY <1>2 DEF StartAnnounced, WearsOut, HandlingWears
<1>3. ASSUME NEW p \in Post, ListFiles(p) PROVE WearsOut
    BY <1>3 DEF ListFiles, WearsOut
<1>4. ASSUME NEW l \in Listed, CheckListed(l) PROVE WearsOut
    BY <1>4 DEF CheckListed, WearsOut
<1>5. QED
    BY <1>1, <1>2, <1>3, <1>4, RunWears DEF Work, HandleAnnouncement, CheckSnapshot

LEMMA InputComesIn ==
    ASSUME TypeOK, Input, NothingComesIn
    PROVE  FALSE
<1>1. ASSUME NEW f \in File, ReceiveAnnouncement(f) PROVE FALSE
    BY <1>1 DEF ReceiveAnnouncement, NothingComesIn
<1>2. ASSUME NEW P \in (SUBSET Post) \ {{}}, NEW F, NEW offer \in [F -> Row],
             ApplySnapshot(P, offer)
      PROVE  FALSE
    BY <1>2 DEF ApplySnapshot, NothingComesIn
<1>3. ASSUME NEW w \in ManualWorker, NEW f \in File, RequestDownload(w, f) PROVE FALSE
    <2>1. w \in Worker
        BY DEF Worker
    <2>2. task[w].step = "idle" /\ task'[w].step = "copied"
        BY <1>3, <2>1 DEF RequestDownload, TypeOK
    <2>3. QED
        BY <2>1, <2>2 DEF NothingComesIn
<1>4. QED
    BY <1>1, <1>2, <1>3 DEF Input

\* A restart drops all that is under way.
LEMMA RestartWears ==
    ASSUME TypeOK, Restart, underway' # underway
    PROVE  WearsOut
<1>1. /\ todo' = {} /\ listed' = {} /\ handling' = {}
      /\ task' = [w \in Worker |-> Idle]
    BY DEF Restart
<1>2. CASE todo' = todo /\ listed' = listed /\ handling' = handling
    <2>1. PICK w \in Worker : task[w].step # "idle"
        <3>1. PICK w \in Worker : task'[w].step # task[w].step
            BY <1>2 DEF underway
        <3>2. QED
            BY <1>1, <3>1 DEF Idle
    <2>2. \A v \in Worker : StepsLeft[task'[v].step] = 0
        BY <1>1 DEF Idle, StepsLeft, Step
    <2>3. DownloadsWear
        BY <2>1, <2>2, StepsAreFew DEF DownloadsWear
    <2>4. QED
        BY <1>2, <2>3 DEF WearsOut
<1>3. QED
    BY <1>1, <1>2 DEF WearsOut, HandlingWears

\* While no announcement, snapshot or request comes in, the work under way
\* only ever gets less.
THEOREM TransfersWearOut ==
    Spec => [][Work \/ (NothingComesIn /\ underway' # underway) => WearsOut]_vars
<1>1. ASSUME TypeOK, [Next]_vars, Work \/ (NothingComesIn /\ underway' # underway)
      PROVE  WearsOut
    <2>1. CASE Work
        BY <1>1, <2>1, WorkWears
    <2>2. CASE Input
        BY <1>1, <2>1, <2>2, InputComesIn
    <2>3. CASE Restart
        BY <1>1, <2>1, <2>3, RestartWears
    <2>4. ASSUME NEW f \in File, Upload(f) PROVE underway' = underway
        BY <1>1, <2>4, UploadFrame DEF underway
    <2>5. ASSUME (\E p \in Post : StorePost(p)) \/ Delete \/ UNCHANGED vars
          PROVE  underway' = underway
        BY <2>5 DEF underway, StorePost, Delete, ListDoomed, DeleteThread, RemoveFiles,
           vars, tasks
    <2>6. QED
        BY <1>1, <2>1, <2>2, <2>3, <2>4, <2>5 DEF Next
<1>2. TypeOK /\ [Next]_vars =>
          [Work \/ (NothingComesIn /\ underway' # underway) => WearsOut]_vars
    BY <1>1
<1>3. QED
    BY <1>2, TypeCorrect, PTL DEF Spec

=============================================================================

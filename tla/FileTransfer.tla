----------------------------- MODULE FileTransfer -----------------------------
(***************************************************************************)
(* The attached files of one thread on one node: the rows of table files,  *)
(* the files under files/uploads and files/downloads, the blob store, and  *)
(* everything that writes them: uploads, gossip announcements, thread      *)
(* snapshots of other nodes, automatic downloads, downloads asked for by   *)
(* the user, and the deletion of the thread.                               *)
(*                                                                         *)
(* Abstractions.  A file is a model value with one content: its hash, size *)
(* and checksum are right wherever they are written, so a file on disk     *)
(* passes file_needs_download exactly when it is whole.  A row keeps the   *)
(* directory of its path, its status and whether it has a ticket.  Each    *)
(* with_repositories closure runs under the connection mutex and is one    *)
(* step; so is every await on the blob store.  The blob store (external)   *)
(* never forgets a blob, and its export to a path is not atomic.           *)
(***************************************************************************)
EXTENDS Integers, FiniteSets

CONSTANTS
    File,       \* the files
    Large,      \* those above AUTO_DOWNLOAD_SIZE_LIMIT
    Post,       \* the posts of the thread
    PostOf,     \* PostOf[f]: the post that f is attached to
    Offers,     \* Offers[f]: the rows of f that snapshots of others may bring
    AutoWorker,       \* bound: as many spawned downloads may run at once
    ManualWorker,     \* bound: as many downloads that the user asked for may run
    CwdIsBase,  \* whether the process runs in its base directory
    Faults      \* whether the node may restart and an export may fail

Worker == AutoWorker \union ManualWorker

Place == {"uploads", "downloads"}

Status == {"pending", "downloading", "available", "failed"}

Row == [path : Place, status : Status, ticket : BOOLEAN]

ASSUME FileAssumption ==
    /\ Large \subseteq File
    /\ PostOf \in [File -> Post]
    /\ Offers \in [File -> SUBSET Row]
    /\ AutoWorker \intersect ManualWorker = {}
    /\ CwdIsBase \in BOOLEAN
    /\ Faults \in BOOLEAN

VARIABLES
    posts,    \* the posts that have a row in table posts
    row,      \* row[f]: the row of f in table files, if there is one
    disk,     \* disk[f][d]: the file of f in directory d
    blobs,    \* the files whose blob is in the local blob store
    upload,   \* upload[f]: how far the API handler that uploads f has come
    handling, \* the announcement that the ingest loop is working on
    todo,     \* the posts of the snapshot that are still to be looked at
    listed,   \* the files of the post that is being looked at, as listed
    task,     \* task[w]: the downloads that are running
    deleting, \* the request to delete the thread that is running
    stranded  \* history: the files whose handling was cut short by a restart
              \* or a failed export, or whose copy a late cleanup took away,
              \* and that no complete check or new request has covered since

store == <<posts, row, disk, blobs>>
tasks == <<upload, handling, todo, listed, task, deleting>>
vars == <<store, tasks, stranded>>

\* An optional value is the set of its value: {} is None, {v} is Some(v).
Option(S) == {{}} \union {{v} : v \in S}

Listed == [file : File, row : Row]

\* "elsewhere": another node uploaded the file; "cut": attached here, but the
\* node restarted before the announcement; "failed": nothing was attached.
UploadStep == {"elsewhere", "none", "checked", "written", "stored",
               "attached", "done", "cut", "failed"}

Step == {"idle", "copied", "started", "marking", "fetching", "fetched",
         "exporting", "exported"}

Task == [step : Step, file : Option(File), copy : Option(Row)]

Idle == [step |-> "idle", file |-> {}, copy |-> {}]

TypeOK ==
    /\ posts \subseteq Post
    /\ row \in [File -> Option(Row)]
    /\ disk \in [File -> [Place -> {"none", "part", "whole"}]]
    /\ blobs \subseteq File
    /\ upload \in [File -> UploadStep]
    /\ handling \in Option([file : File, step : {"store", "decide"}])
    /\ todo \subseteq Post
    /\ listed \subseteq Listed
    /\ task \in [Worker -> Task]
    /\ deleting \in Option([step : {"listed", "deleted"},
                            doomed : SUBSET (File \X Place)])
    /\ stranded \subseteq File

Init ==
    /\ posts = {}
    /\ row = [f \in File |-> {}]
    /\ disk = [f \in File |-> [d \in Place |-> "none"]]
    /\ blobs = {}
    /\ upload \in [File -> {"elsewhere", "none"}]
    /\ handling = {}
    /\ todo = {}
    /\ listed = {}
    /\ task = [w \in Worker |-> Idle]
    /\ deleting = {}
    /\ stranded = {}

\* FileRepository::get, then upsert of the record with some columns changed:
\* one closure, and nothing happens if the row is gone.
Update(f, status) ==
    [row EXCEPT ![f] = {[r EXCEPT !.status = status] : r \in @}]

Exists(f, d) == disk[f][d] # "none"

\* Mutant: a file that exists on disk is not looked into.
Missing(f, r) == ~Exists(f, r.path)

\* file_needs_download: the file is absent, or its size or checksum differs.
NeedsDownload(f, r) == disk[f][r.path] # "whole"

FilesOf(p) == {f \in File : PostOf[f] = p}

Workers(f) == {w \in Worker : task[w].file = {f}}

At(w, f, step) == task[w].step = step /\ task[w].file = {f}

\* A task that is spawned for f; a handler waits for a free one (bound).
Spawn(w, f) ==
    /\ task[w].step = "idle"
    /\ task' = [task EXCEPT ![w] = [step |-> "started", file |-> {f},
                                    copy |-> {}]]

-----------------------------------------------------------------------------
(* Posts, and uploads of the local user.                                   *)

\* A post is created, or arrives in a post update: ThreadSync has the detail.
StorePost(p) ==
    /\ p \notin posts
    /\ posts' = posts \union {p}
    /\ UNCHANGED <<row, disk, blobs, tasks, stranded>>

\* save_post_file: ensure_post_exists.
CheckUpload(f) ==
    /\ upload[f] = "none"
    /\ PostOf[f] \in posts
    /\ upload' = [upload EXCEPT ![f] = "checked"]
    /\ UNCHANGED <<store, handling, todo, listed, task, deleting, stranded>>

WriteUpload(f) ==
    /\ upload[f] = "checked"
    /\ disk' = [disk EXCEPT ![f]["uploads"] = "whole"]
    /\ upload' = [upload EXCEPT ![f] = "written"]
    /\ UNCHANGED <<posts, row, blobs, handling, todo, listed, task, deleting,
                   stranded>>

\* Mutant: the handler goes on without waiting for the blob store.
SkipBlob(f) ==
    /\ upload[f] = "written"
    /\ upload' = [upload EXCEPT ![f] = "stored"]
    /\ UNCHANGED <<store, handling, todo, listed, task, deleting, stranded>>

StoreBlob(f) ==
    /\ upload[f] = "written"
    /\ blobs' = blobs \union {f}
    /\ upload' = [upload EXCEPT ![f] = "stored"]
    /\ UNCHANGED <<posts, row, disk, handling, todo, listed, task, deleting,
                   stranded>>

\* FileRepository::attach; the foreign key fails if the post was deleted.
AttachUpload(f) ==
    /\ upload[f] = "stored"
    /\ IF PostOf[f] \in posts
       THEN /\ row' = [row EXCEPT ![f] = {[path |-> "uploads",
                           status |-> "available", ticket |-> FALSE]}]
            /\ upload' = [upload EXCEPT ![f] = "attached"]
       ELSE row' = row /\ upload' = [upload EXCEPT ![f] = "failed"]
    /\ UNCHANGED <<posts, disk, blobs, handling, todo, listed, task, deleting,
                   stranded>>

\* persist_ticket; the announcement is published after it.
PersistTicket(f) ==
    /\ upload[f] = "attached"
    /\ row' = [row EXCEPT ![f] = {[r EXCEPT !.ticket = TRUE] : r \in @}]
    /\ upload' = [upload EXCEPT ![f] = "done"]
    /\ UNCHANGED <<posts, disk, blobs, handling, todo, listed, task, deleting,
                   stranded>>

-----------------------------------------------------------------------------
(* Announcements: apply_file_announcement, one at a time.                  *)

Announced == [path |-> "downloads", status |-> "pending", ticket |-> TRUE]

\* Only files that others know are announced: those of others, and what the
\* local node has attached.  A file that exists is skipped.
ReceiveAnnouncement(f) ==
    /\ handling = {}
    /\ upload[f] \in {"elsewhere", "done"}
    /\ \A r \in row[f] : ~Exists(f, r.path)
    /\ handling' = {[file |-> f, step |-> "store"]}
    /\ UNCHANGED <<store, upload, todo, listed, task, deleting, stranded>>

\* The row is replaced; the foreign key fails if the post is not there, and
\* the error ends the handler: the announcement is lost.
RecordAnnounced(f) ==
    /\ handling = {[file |-> f, step |-> "store"]}
    /\ IF PostOf[f] \in posts
       THEN /\ row' = [row EXCEPT ![f] = {Announced}]
            /\ handling' = {[file |-> f, step |-> "decide"]}
       ELSE row' = row /\ handling' = {}
    /\ UNCHANGED <<posts, disk, blobs, upload, todo, listed, task, deleting,
                   stranded>>

StartAnnounced(f) ==
    /\ handling = {[file |-> f, step |-> "decide"]}
    /\ handling' = {}
    /\ IF NeedsDownload(f, Announced) /\ f \notin Large
       THEN \E w \in AutoWorker : Spawn(w, f)
       ELSE task' = task
    /\ UNCHANGED <<store, upload, todo, listed, deleting, stranded>>

-----------------------------------------------------------------------------
(* Snapshots: apply_thread_snapshot, one at a time (bound).                *)

\* The posts are upserted, and so are the rows of their files, as the node
\* that made the snapshot had them: with its path and its status.
ApplySnapshot(P, offer) ==
    /\ todo = {}
    /\ listed = {}
    /\ \A f \in DOMAIN offer :
           upload[f] \in {"elsewhere", "attached", "done", "cut"}
    /\ posts' = posts \union P
    /\ row' = [f \in File |-> IF f \in DOMAIN offer THEN {offer[f]}
                              ELSE row[f]]
    /\ todo' = P
    /\ stranded' = {f \in stranded : f \notin DOMAIN offer \/ Workers(f) # {}}
    /\ UNCHANGED <<disk, blobs, upload, handling, listed, task, deleting>>

\* list_for_post, in a closure of its own for each post.
ListFiles(p) ==
    /\ listed = {}
    /\ p \in todo
    /\ todo' = todo \ {p}
    /\ listed' = {l \in Listed : PostOf[l.file] = p /\ row[l.file] = {l.row}}
    /\ UNCHANGED <<store, upload, handling, task, deleting, stranded>>

\* What was listed is compared with the disk.
CheckListed(l) ==
    /\ l \in listed
    /\ listed' = listed \ {l}
    /\ IF /\ NeedsDownload(l.file, l.row)
          /\ l.row.ticket
          /\ l.file \notin Large
       THEN \E w \in AutoWorker : Spawn(w, l.file)
       ELSE task' = task
    /\ UNCHANGED <<store, upload, handling, todo, deleting, stranded>>

-----------------------------------------------------------------------------
(* Downloads: trigger_file_download and download_blob.                     *)

\* The API handler reads the row in one closure ...
RequestDownload(w, f) ==
    /\ task[w].step = "idle"
    /\ \E r \in row[f] :
        /\ r.ticket
        /\ task' = [task EXCEPT ![w] = [step |-> "copied", file |-> {f},
                                        copy |-> {r}]]
    /\ UNCHANGED <<store, upload, handling, todo, listed, deleting, stranded>>

\* ... and writes what it read, with another status, in the next one.
WriteBack(w, f) ==
    /\ At(w, f, "copied")
    /\ IF PostOf[f] \in posts
       THEN /\ row' = [row EXCEPT ![f] =
                  {[r EXCEPT !.status = "downloading"] : r \in task[w].copy}]
            /\ task' = [task EXCEPT ![w].step = "started", ![w].copy = {}]
            /\ stranded' = IF Workers(f) = {w} THEN stranded \ {f}
                           ELSE stranded
       ELSE row' = row /\ task' = [task EXCEPT ![w] = Idle]
            /\ stranded' = stranded
    /\ UNCHANGED <<posts, disk, blobs, upload, handling, todo, listed,
                   deleting>>

\* blob_store.has: only the automatic download sets the status here.
LookForBlob(w, f) ==
    /\ At(w, f, "started")
    /\ task' = [task EXCEPT ![w].step =
                    IF f \in blobs THEN "fetched"
                    ELSE IF w \in AutoWorker THEN "marking"
                    ELSE "fetching"]
    /\ UNCHANGED <<store, upload, handling, todo, listed, deleting, stranded>>

MarkDownloading(w, f) ==
    /\ At(w, f, "marking")
    /\ row' = Update(f, "downloading")
    /\ task' = [task EXCEPT ![w].step = "fetching"]
    /\ UNCHANGED <<posts, disk, blobs, upload, handling, todo, listed,
                   deleting, stranded>>

Fetch(w, f) ==
    /\ At(w, f, "fetching")
    /\ blobs' = blobs \union {f}
    /\ task' = [task EXCEPT ![w].step = "fetched"]
    /\ UNCHANGED <<posts, row, disk, upload, handling, todo, listed, deleting,
                   stranded>>

\* Mutant: the status is one that the column does not know.
FailOddly(w, f) ==
    /\ At(w, f, "fetching")
    /\ row' = Update(f, "error")
    /\ task' = [task EXCEPT ![w] = Idle]
    /\ UNCHANGED <<posts, disk, blobs, upload, handling, todo, listed,
                   deleting, stranded>>

FailFetch(w, f) ==
    /\ At(w, f, "fetching")
    /\ row' = Update(f, "failed")
    /\ task' = [task EXCEPT ![w] = Idle]
    /\ UNCHANGED <<posts, disk, blobs, upload, handling, todo, listed,
                   deleting, stranded>>

\* FsStore::export opens the target and copies into it.
BeginExport(w, f) ==
    /\ At(w, f, "fetched")
    /\ disk' = [disk EXCEPT ![f]["downloads"] = "part"]
    /\ task' = [task EXCEPT ![w].step = "exporting"]
    /\ UNCHANGED <<posts, row, blobs, upload, handling, todo, listed,
                   deleting, stranded>>

EndExport(w, f) ==
    /\ At(w, f, "exporting")
    /\ disk' = [disk EXCEPT ![f]["downloads"] = "whole"]
    /\ task' = [task EXCEPT ![w].step = "exported"]
    /\ UNCHANGED <<posts, row, blobs, upload, handling, todo, listed,
                   deleting, stranded>>

\* Only the download that was asked for records the failure of an export.
FailExport(w, f) ==
    /\ Faults
    /\ At(w, f, "exporting")
    /\ row' = IF w \in ManualWorker THEN Update(f, "failed") ELSE row
    /\ task' = [task EXCEPT ![w] = Idle]
    /\ stranded' = stranded \union {f}
    /\ UNCHANGED <<posts, disk, blobs, upload, handling, todo, listed,
                   deleting>>

\* Mutant: the path of the record stays what it was.
FinishInPlace(w, f) ==
    /\ At(w, f, "exported")
    /\ row' = Update(f, "available")
    /\ task' = [task EXCEPT ![w] = Idle]
    /\ UNCHANGED <<posts, disk, blobs, upload, handling, todo, listed,
                   deleting, stranded>>

FinishDownload(w, f) ==
    /\ At(w, f, "exported")
    /\ row' = [row EXCEPT ![f] =
                   {[r EXCEPT !.path = "downloads", !.status = "available"] :
                    r \in @}]
    /\ task' = [task EXCEPT ![w] = Idle]
    /\ UNCHANGED <<posts, disk, blobs, upload, handling, todo, listed,
                   deleting, stranded>>

-----------------------------------------------------------------------------
(* Deleting the thread: delete_thread, one request at a time (bound).      *)

ListDoomed ==
    /\ deleting = {}
    /\ posts # {}
    /\ deleting' = {[step |-> "listed",
                     doomed |-> {fd \in File \X Place :
                         \E r \in row[fd[1]] : r.path = fd[2]}]}
    /\ UNCHANGED <<store, upload, handling, todo, listed, task, stranded>>

\* ThreadRepository::delete cascades to the posts and their files.
DeleteThread ==
    \E d \in deleting :
        /\ d.step = "listed"
        /\ posts' = {}
        /\ row' = [f \in File |-> {}]
        /\ deleting' = {[d EXCEPT !.step = "deleted"]}
        /\ UNCHANGED <<disk, blobs, upload, handling, todo, listed, task,
                       stranded>>

\* The paths are relative to the base directory, but they are looked up from
\* the directory of the process.
RemoveFiles ==
    \E d \in deleting :
        /\ d.step = "deleted"
        /\ deleting' = {}
        /\ IF CwdIsBase
           THEN /\ disk' = [f \in File |-> [p \in Place |->
                               IF <<f, p>> \in d.doomed THEN "none"
                               ELSE disk[f][p]]]
                /\ stranded' = stranded \union
                       {f \in File : /\ \E p \in Place : <<f, p>> \in d.doomed
                                     /\ row[f] # {} \/ Workers(f) # {}}
           ELSE UNCHANGED <<disk, stranded>>
        /\ UNCHANGED <<posts, row, blobs, upload, handling, todo, listed,
                       task>>

-----------------------------------------------------------------------------
(* Restart, and the specification.                                         *)

\* Files that something still works on, or is going to check.
Busy(f) ==
    \/ Workers(f) # {}
    \/ \E h \in handling : h.file = f
    \/ PostOf[f] \in todo
    \/ \E l \in listed : l.file = f

\* The rows, the files and the blobs stay; nothing looks at them on start.
Restart ==
    /\ Faults
    /\ upload' = [f \in File |->
          IF upload[f] = "attached" THEN "cut"
          ELSE IF upload[f] \in {"checked", "written", "stored"} THEN "failed"
          ELSE upload[f]]
    /\ handling' = {}
    /\ todo' = {}
    /\ listed' = {}
    /\ task' = [w \in Worker |-> Idle]
    /\ deleting' = {}
    /\ stranded' = stranded \union {f \in File : Busy(f)}
    /\ UNCHANGED store

Upload(f) ==
    \/ CheckUpload(f)
    \/ WriteUpload(f)
    \/ StoreBlob(f)
    \/ AttachUpload(f)
    \/ PersistTicket(f)

HandleAnnouncement(f) == RecordAnnounced(f) \/ StartAnnounced(f)

CheckSnapshot ==
    \/ \E p \in Post : ListFiles(p)
    \/ \E l \in Listed : CheckListed(l)

Run(w, f) ==
    \/ WriteBack(w, f)
    \/ LookForBlob(w, f)
    \/ MarkDownloading(w, f)
    \/ Fetch(w, f)
    \/ FailFetch(w, f)
    \/ BeginExport(w, f)
    \/ EndExport(w, f)
    \/ FailExport(w, f)
    \/ FinishDownload(w, f)

Delete == ListDoomed \/ DeleteThread \/ RemoveFiles

\* What other nodes and the user ask for.
Input ==
    \/ \E f \in File : ReceiveAnnouncement(f)
    \/ \E P \in (SUBSET Post) \ {{}} :
         \E F \in SUBSET {f \in File : PostOf[f] \in P} :
           \E offer \in [F -> Row] :
             /\ \A f \in F : offer[f] \in Offers[f]
             /\ ApplySnapshot(P, offer)
    \/ \E w \in ManualWorker, f \in File : RequestDownload(w, f)

\* What goes on without being asked for.
Work ==
    \/ \E f \in File : HandleAnnouncement(f)
    \/ CheckSnapshot
    \/ \E w \in Worker, f \in File : Run(w, f)

Next ==
    \/ Input
    \/ \E p \in Post : StorePost(p)
    \/ \E f \in File : Upload(f)
    \/ Work
    \/ Delete
    \/ Restart

Spec == Init /\ [][Next]_vars

\* While a task or a handler that was started can go on, one of them does,
\* and a transfer comes to its end, good or bad.  Nobody has to upload,
\* announce, ask or delete.
Fairness == WF_vars(Work)

LiveSpec == Spec /\ Fairness

-----------------------------------------------------------------------------
(* What the rows promise.                                                  *)

\* The file can be served: prepare_download finds it where the row says.
Present(f) == \E r \in row[f] : disk[f][r.path] = "whole"

Failed(f) == \E r \in row[f] : r.status = "failed"

\* The files that the node is to fetch without being asked.
Wanted(f) == f \notin Large \union stranded /\ \E r \in row[f] : r.ticket

\* A file that the local user attached can be handed to anybody who asks for
\* its blob, and what was exported came from a blob: save_post_file stores
\* the blob before the row, and downloads export after the transfer.
SharedFilesHaveBlobs ==
    \A f \in File :
        /\ upload[f] # "elsewhere" /\ row[f] # {} => f \in blobs
        /\ Exists(f, "downloads") => f \in blobs

\* No file falls through: a small file with a ticket is where its row says,
\* or marked as failed, or something is at work on it.  Announcements,
\* snapshots that bring the paths of other nodes, write-backs of old copies
\* and several downloads of one file at once all touch the same row.
NoFileIsForgotten ==
    \A f \in File : Wanted(f) => Present(f) \/ Failed(f) \/ Busy(f)

\* No step of Input.
NothingComesIn ==
    /\ handling = {} => handling' = {}
    /\ todo = {} => todo' = {}
    /\ \A w \in Worker :
           task'[w].step = "copied" => task[w].step = "copied"

\* Once no more announcements, snapshots and requests come in, a small file
\* with a ticket gets where its row says or is marked as failed, unless the
\* row is deleted.  (While they come in without end, two downloads can take
\* turns in overwriting the file for ever.)
WantedFileArrives ==
    <>[][NothingComesIn]_vars =>
        \A f \in File : Wanted(f) ~> Present(f) \/ Failed(f) \/ ~Wanted(f)
=============================================================================

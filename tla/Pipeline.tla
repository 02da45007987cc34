------------------------------ MODULE Pipeline ------------------------------
(***************************************************************************)
(* The download pipeline: the job manager (internal/jobs/manager.go), the  *)
(* HTTP handlers that feed it (internal/handlers/download.go, history.go,  *)
(* recovery.go), the two tables it keeps (internal/db/queries.go) and the  *)
(* package folders it fills (internal/storage).                            *)
(*                                                                         *)
(* Every SQL statement is one step: db.Open sets SetMaxOpenConns(1), so    *)
(* statements never overlap, but no handler opens a transaction, so the    *)
(* statements of one handler interleave with those of the others.  Moving  *)
(* one file of a package into place is one step too.                       *)
(*                                                                         *)
(* Left out: the text of rows (titles, errors, logs), the event stream     *)
(* (Publish never blocks and changes nothing read here), the choice of the *)
(* proxy, and the size of files.                                           *)
(***************************************************************************)
EXTENDS Naturals, Sequences, FiniteSets

CONSTANTS
    Ids,          \* download ids a run may hand out (uuid.NewString)
    Workers,      \* worker goroutines; main starts 2
    Requests,     \* HTTP handlers that may be running at the same time
    Ops,          \* kinds of request clients send
    Backends,     \* storage modes an administrator may have configured
    Salvaged,     \* ids whose package outlived a lost database
    Unlisted,     \* ids whose media file has an extension StorePackage does
                  \* not know: they are stored without a video key
    QueueCap,     \* capacity of Manager.queue; 256 in the code
    MaxRequests,  \* bound: requests served in a behaviour
    MaxMishaps    \* bound: SQL errors and crashes in a behaviour

\* "none" stands for no id; those of downloads are uuids.
ASSUME IdsAssumption == "none" \notin Ids
ASSUME OpsAssumption == Ops \subseteq {"enqueue", "retry", "delete", "recover"}
ASSUME BackendsAssumption == Backends \subseteq {"local", "s3"}
ASSUME SalvagedAssumption == Salvaged \subseteq Ids
ASSUME UnlistedAssumption == Unlisted \subseteq Ids
ASSUME BoundsAssumption == /\ QueueCap \in Nat \ {0}
                           /\ MaxRequests \in Nat
                           /\ MaxMishaps \in Nat

VARIABLES
    status,    \* downloads.status, or "absent" when there is no such row
    place,     \* where the row has a video: storage_type, if the key is set
    jobs,      \* rows of jobs, per download, in the order of insertion
    files,     \* per backend and download, what its package folder holds
    queue,     \* Manager.queue
    worker,    \* what each worker goroutine is doing
    request,   \* what each handler goroutine is doing
    issued,    \* ids handed out so far: uuids are never reused
    served,    \* requests begun so far
    mishaps,   \* SQL errors and crashes so far
    lost,      \* history: downloads whose attempt a mishap cut short
    disturbed, \* history: downloads written to from outside their attempt
    removed    \* history: downloads whose folder a delete request removed

tables  == <<status, place, jobs>>
history == <<lost, disturbed, removed>>
vars    == <<status, place, jobs, files, queue, worker, request, issued,
             served, mishaps, lost, disturbed, removed>>

Unfinished == {"queued", "downloading", "uploading"}
Statuses   == Unfinished \cup {"absent", "complete", "failed"}
Row(d)     == status[d] # "absent"

\* Parts of a package, in the order process() lists them.
Parts  == {"video", "thumbnail", "metadata"}
Folder == Parts \cup {"folder"}

\* Where a worker is in process(); "owes" is TRUE between the two UPDATEs of
\* setState, when the status is written and the job row is not.
Stages == {"idle", "load", "loaded", "fetch", "direct", "checked", "open",
           "persist", "finish", "closing", "failing"} \cup Parts
Resting == [at |-> "idle", id |-> "none", owes |-> FALSE, to |-> "none"]

\* Where a handler is, and what recovery saw of a package.
Steps   == {"none", "job", "send", "remove", "delrow", "deljobs", "list",
            "read", "readless", "upsert"}
NoRequest == [op |-> "none", id |-> "none", at |-> "none", seen |-> "none"]

\* What the system knows about a download outside its row.
Queued(d)     == \E i \in DOMAIN queue : queue[i] = d
Holds(w, d)   == worker[w].at # "idle" /\ worker[w].id = d
Submits(r, d) == request[r].at \in {"job", "send"} /\ request[r].id = d
InFlight(d)   == \/ Queued(d)
                 \/ \E w \in Workers : Holds(w, d)
                 \/ \E r \in Requests : Submits(r, d)
-----------------------------------------------------------------------------
(***************************************************************************)
(* SQL statements.                                                         *)
(***************************************************************************)
\* A statement fails: disk full, I/O error, busy timeout.
Mishap == mishaps < MaxMishaps /\ mishaps' = mishaps + 1

\* UPDATE downloads SET status ... WHERE id: no row, no effect, no error.
WithStatus(d, s) == [status EXCEPT ![d] = IF @ = "absent" THEN @ ELSE s]

\* The same statement issued by setState and fail, which ignore its error.
TryStatus(d, s) == \/ status' = WithStatus(d, s) /\ UNCHANGED mishaps
                   \/ Mishap /\ UNCHANGED status

\* jobs.created_at has a resolution of one second: a row inserted after
\* another may carry the same value.
Seconds(rows) == IF rows = <<>> THEN {1}
                 ELSE {rows[Len(rows)].second, rows[Len(rows)].second + 1}

\* ORDER BY created_at DESC LIMIT 1: any of the rows that tie.
Latest(rows) == {i \in DOMAIN rows :
                    \A j \in DOMAIN rows : rows[j].second <= rows[i].second}

\* Mutant: the sort is ascending, so the first job row is updated.
UpdateFirstJob(d, s) ==
    IF jobs[d] = <<>>
    THEN UNCHANGED jobs
    ELSE jobs' = [jobs EXCEPT ![d][1].state = s]

UpdateLatestJob(d, s) ==
    IF jobs[d] = <<>>
    THEN UNCHANGED jobs
    ELSE \E i \in Latest(jobs[d]) :
            jobs' = [jobs EXCEPT ![d][i].state = s]

\* A statement was lost for good: an unfinished download has no one left to
\* finish it.
Forsake(d) == lost' = IF status[d] \in Unfinished THEN lost \cup {d} ELSE lost
-----------------------------------------------------------------------------
(***************************************************************************)
(* Handlers.  A request that ends with the failure of its first statement  *)
(* changes nothing and is left out.                                        *)
(***************************************************************************)
Begin(r, op, d, at, seen) ==
    /\ op \in Ops
    /\ request[r] = NoRequest
    /\ served < MaxRequests
    /\ served' = served + 1
    /\ request' = [request EXCEPT
                     ![r] = [op |-> op, id |-> d, at |-> at, seen |-> seen]]

Goto(r, at) == request' = [request EXCEPT ![r].at = at]
Reply(r)    == request' = [request EXCEPT ![r] = NoRequest]

\* Enqueue: CreateDownload under a fresh uuid.
CreateDownload(r, d) ==
    /\ Begin(r, "enqueue", d, "job", "none")
    /\ d \notin issued
    /\ issued' = issued \cup {d}
    /\ status' = [status EXCEPT ![d] = "queued"]
    /\ UNCHANGED <<place, jobs, files, queue, worker, mishaps, history>>

\* Retry: the status becomes "queued" whatever it was, and whoever is
\* working on the download.
Requeue(r, d) ==
    /\ Begin(r, "retry", d, "job", "none")
    /\ d \in issued
    /\ status' = WithStatus(d, "queued")
    /\ disturbed' = IF InFlight(d) THEN disturbed \cup {d} ELSE disturbed
    /\ UNCHANGED <<place, jobs, files, queue, worker, issued, mishaps, lost, removed>>

\* Enqueue and Retry: CreateJob, which the foreign key on download_id
\* refuses when the download has no row.
CreateJob(r) ==
    /\ request[r].at = "job"
    /\ LET d == request[r].id IN
         /\ Row(d)
         /\ \E s \in Seconds(jobs[d]) :
              jobs' = [jobs EXCEPT
                         ![d] = Append(@, [state |-> "queued", second |-> s])]
    /\ Goto(r, "send")
    /\ UNCHANGED <<status, place, files, queue, worker, issued, served, mishaps, history>>

\* CreateJob fails and the handler returns without sending.
JobRefused(r) ==
    /\ request[r].at = "job"
    /\ \/ ~Row(request[r].id) /\ UNCHANGED mishaps
       \/ Row(request[r].id) /\ Mishap
    /\ Forsake(request[r].id)
    /\ Reply(r)
    /\ UNCHANGED <<tables, files, queue, worker, issued, served, disturbed, removed>>

\* Mutant: the channel grows without a limit.
SendUnbounded(r) ==
    /\ request[r].at = "send"
    /\ queue' = Append(queue, request[r].id)
    /\ lost' = lost \ {request[r].id}
    /\ Reply(r)
    /\ UNCHANGED <<tables, files, worker, issued, served, mishaps, disturbed, removed>>

\* Mutant: the last slot of the channel is never used.
SendShort(r) == Len(queue) + 1 < QueueCap /\ SendUnbounded(r)

\* m.queue <- id: the handler blocks while the channel is full.
Send(r) ==
    /\ request[r].at = "send"
    /\ Len(queue) < QueueCap
    /\ queue' = Append(queue, request[r].id)
    /\ lost' = lost \ {request[r].id}
    /\ Reply(r)
    /\ UNCHANGED <<tables, files, worker, issued, served, mishaps, disturbed, removed>>

\* DeleteDownload: GetDownload decides whether there is a folder to remove; when
\* it fails the folder stays, and the row is deleted all the same.
LookUp(r, d) ==
    /\ d \in issued
    /\ \/ /\ Begin(r, "delete", d,
                   IF Row(d) /\ place[d] = "local" THEN "remove" ELSE "delrow",
                   "none")
          /\ UNCHANGED mishaps
       \/ Mishap /\ Begin(r, "delete", d, "delrow", "none")
    /\ UNCHANGED <<tables, files, queue, worker, issued, history>>

\* os.RemoveAll of the folder that local_path named when it was read.
RemoveFolder(r) ==
    /\ request[r].at = "remove"
    /\ files' = [files EXCEPT !["local"][request[r].id] = {}]
    /\ removed' = removed \cup {request[r].id}
    /\ Goto(r, "delrow")
    /\ UNCHANGED <<tables, queue, worker, issued, served, mishaps, lost, disturbed>>

\* Mutant: the connection is opened without foreign_keys(1).
DeleteRowUnchecked(r) ==
    /\ request[r].at = "delrow"
    /\ status' = [status EXCEPT ![request[r].id] = "absent"]
    /\ place' = [place EXCEPT ![request[r].id] = "none"]
    /\ Goto(r, "deljobs")
    /\ UNCHANGED <<jobs, files, queue, worker, issued, served, mishaps, history>>

\* DELETE FROM downloads: the foreign key refuses it while a job row refers
\* to the download, and the handler answers 500.
DeleteRow(r) ==
    /\ request[r].at = "delrow"
    /\ jobs[request[r].id] = <<>>
    /\ status' = [status EXCEPT ![request[r].id] = "absent"]
    /\ place' = [place EXCEPT ![request[r].id] = "none"]
    /\ Goto(r, "deljobs")
    /\ UNCHANGED <<jobs, files, queue, worker, issued, served, mishaps, history>>

DeleteRefused(r) ==
    /\ request[r].at = "delrow"
    /\ \/ jobs[request[r].id] # <<>> /\ UNCHANGED mishaps
       \/ jobs[request[r].id] = <<>> /\ Mishap
    /\ Reply(r)
    /\ UNCHANGED <<tables, files, queue, worker, issued, served, history>>

\* DELETE FROM jobs; its error ends the request as its success does.
DeleteJobs(r) ==
    /\ request[r].at = "deljobs"
    /\ \/ /\ jobs' = [jobs EXCEPT ![request[r].id] = <<>>]
          /\ UNCHANGED mishaps
       \/ Mishap /\ UNCHANGED jobs
    /\ Reply(r)
    /\ UNCHANGED <<status, place, files, queue, worker, issued, served, history>>

(***************************************************************************)
(* RecoverFromStorage, one package of its loop.  Its root is listed, then  *)
(* its files, then metadata.json is read, while others remove and fill the *)
(* folder; a package that is gone by then is skipped.                      *)
(***************************************************************************)
ListRoots(r, b, d) ==
    /\ "metadata" \in files[b][d]
    /\ Begin(r, "recover", d, "list", b)
    /\ UNCHANGED <<tables, files, queue, worker, issued, mishaps, history>>

\* os.ReadDir fails in a folder that is gone, a listing of a bucket does not.
ListFiles(r) ==
    /\ request[r].at = "list"
    /\ LET there == files[request[r].seen][request[r].id] IN
         IF there = {} /\ request[r].seen = "local"
         THEN Reply(r)
         ELSE Goto(r, IF "video" \in there THEN "read" ELSE "readless")
    /\ UNCHANGED <<tables, files, queue, worker, issued, served, mishaps, history>>

ReadMetadata(r) ==
    /\ request[r].at \in {"read", "readless"}
    /\ IF "metadata" \in files[request[r].seen][request[r].id]
       THEN request' = [request EXCEPT
                          ![r].at = "upsert",
                          ![r].seen = IF request[r].at = "read" THEN @ ELSE "none"]
       ELSE Reply(r)
    /\ UNCHANGED <<tables, files, queue, worker, issued, served, mishaps, history>>

\* UpsertDownload writes what was read, over whatever the row says by now.
UpsertRow(r) ==
    /\ request[r].at = "upsert"
    /\ \/ /\ status' = [status EXCEPT ![request[r].id] =
                          IF request[r].seen = "none" THEN "failed" ELSE "complete"]
          /\ place' = [place EXCEPT ![request[r].id] = request[r].seen]
          /\ disturbed' = disturbed \cup {request[r].id}
          /\ UNCHANGED mishaps
       \/ Mishap /\ UNCHANGED <<status, place, disturbed>>
    /\ Reply(r)
    /\ UNCHANGED <<jobs, files, queue, worker, issued, served, lost, removed>>
-----------------------------------------------------------------------------
(***************************************************************************)
(* Workers.                                                                *)
(***************************************************************************)
\* w is about to take step `at' of process(), both UPDATEs of setState done.
Ready(w, at) == worker[w].at = at /\ ~worker[w].owes
Move(w, at)  == worker' = [worker EXCEPT ![w].at = at]
Rest(w)      == worker' = [worker EXCEPT ![w] = Resting]

\* setState writes the status first; the job row is owed.
SetState(w, at, s) ==
    /\ TryStatus(worker[w].id, s)
    /\ worker' = [worker EXCEPT ![w].at = at, ![w].owes = TRUE]
    /\ UNCHANGED <<place, jobs, files, queue, request, issued, served, history>>

\* Mutant: the id is read and left in the queue.
ReceivePeek(w) ==
    /\ worker[w].at = "idle"
    /\ queue # <<>>
    /\ worker' = [worker EXCEPT ![w] = [Resting EXCEPT !.at = "load",
                                                       !.id = Head(queue)]]
    /\ UNCHANGED <<tables, files, queue, request, issued, served, mishaps, history>>

\* for id := range m.queue
Receive(w) ==
    /\ worker[w].at = "idle"
    /\ queue # <<>>
    /\ worker' = [worker EXCEPT ![w] = [Resting EXCEPT !.at = "load",
                                                       !.id = Head(queue)]]
    /\ queue' = Tail(queue)
    /\ UNCHANGED <<tables, files, request, issued, served, mishaps, history>>

\* GetDownload.
Load(w) ==
    /\ Ready(w, "load")
    /\ Row(worker[w].id)
    /\ Move(w, "loaded")
    /\ UNCHANGED <<tables, files, queue, request, issued, served, mishaps, history>>

\* GetDownload fails: process returns and says nothing.
LoadFails(w) ==
    /\ Ready(w, "load")
    /\ \/ ~Row(worker[w].id) /\ UNCHANGED mishaps
       \/ Row(worker[w].id) /\ Mishap
    /\ Forsake(worker[w].id)
    /\ Rest(w)
    /\ UNCHANGED <<tables, files, queue, request, issued, served, disturbed, removed>>

StartDownload(w) == Ready(w, "loaded") /\ SetState(w, "fetch", "downloading")

\* Mutant: DownloadPackage does not wait for the goroutine that calls back.
ReportLate(w) ==
    /\ \E at \in {"fetch", "direct", "open"} : Ready(w, at)
    /\ SetState(w, worker[w].at, "downloading")

\* The progress callback of DownloadPackage, on the proxied or the direct run.
ReportProgress(w) ==
    /\ Ready(w, "fetch") \/ Ready(w, "direct")
    /\ SetState(w, worker[w].at, "downloading")

\* The second UPDATE of setState.
WriteJob(w) ==
    /\ worker[w].owes
    /\ \/ /\ UpdateLatestJob(worker[w].id,
               CASE worker[w].at \in {"fetch", "direct"} -> "downloading"
                 [] worker[w].at = "open"                -> "uploading"
                 [] OTHER                                -> "complete")
          /\ UNCHANGED mishaps
       \/ Mishap /\ UNCHANGED jobs
    /\ worker' = [worker EXCEPT ![w].owes = FALSE]
    /\ UNCHANGED <<status, place, files, queue, request, issued, served, history>>

\* Mutant: a missing artifact returns without a call of fail.
FetchEndsSilently(w) ==
    /\ \/ Ready(w, "fetch") /\ \E at \in {"direct", "checked"} : Move(w, at)
       \/ Ready(w, "direct") /\ (Move(w, "checked") \/ Rest(w))
    /\ UNCHANGED <<tables, files, queue, request, issued, served, mishaps, history>>

\* DownloadPackage returns and its files are checked.  A failed proxied run
\* is followed by a direct one when the settings ask for it.
FetchEnds(w) ==
    /\ \/ Ready(w, "fetch") /\ \E at \in {"direct", "checked", "failing"} : Move(w, at)
       \/ Ready(w, "direct") /\ \E at \in {"checked", "failing"} : Move(w, at)
    /\ UNCHANGED <<tables, files, queue, request, issued, served, mishaps, history>>

StartUpload(w) == Ready(w, "checked") /\ SetState(w, "open", "uploading")

\* backendForConfig, and the MkdirAll that StorePackage begins with locally.
OpenBackend(w) ==
    /\ Ready(w, "open")
    /\ \E b \in Backends :
         /\ worker' = [worker EXCEPT ![w].at = "video", ![w].to = b]
         /\ files' = IF b = "local"
                     THEN [files EXCEPT !["local"][worker[w].id] = @ \cup {"folder"}]
                     ELSE files
    /\ UNCHANGED <<tables, queue, request, issued, served, mishaps, history>>

\* Mutant: metadata.json is stored before the thumbnail.
MetadataEarly == [video |-> "metadata", metadata |-> "thumbnail", thumbnail |-> "persist"]

AfterStore == [video |-> "thumbnail", thumbnail |-> "metadata", metadata |-> "persist"]

\* One moveFile or uploadObject.  os.Create fails in a folder that is gone.
StoreFile(w, part) ==
    /\ Ready(w, part)
    /\ LET b == worker[w].to
           d == worker[w].id IN
         /\ b = "local" => "folder" \in files[b][d]
         /\ files' = [files EXCEPT ![b][d] = @ \cup {part}]
    /\ Move(w, AfterStore[part])
    /\ UNCHANGED <<tables, queue, request, issued, served, mishaps, history>>

\* Mutant: the error of StorePackage is not looked at.
StoreErrorIgnored(w) ==
    /\ \E at \in Parts \cup {"open"} : Ready(w, at)
    /\ Move(w, "persist")
    /\ UNCHANGED <<tables, files, queue, request, issued, served, mishaps, history>>

\* Mutant: the error is returned without a call of fail.
StoreFailsSilently(w) ==
    /\ \E at \in Parts \cup {"open"} : Ready(w, at)
    /\ Rest(w)
    /\ UNCHANGED <<tables, files, queue, request, issued, served, mishaps, history>>

\* No backend, or StorePackage stops half way: what it stored stays.
StoreFails(w) ==
    /\ \E at \in Parts \cup {"open"} : Ready(w, at)
    /\ Move(w, "failing")
    /\ UNCHANGED <<tables, files, queue, request, issued, served, mishaps, history>>

\* Where the row will point to: nowhere without a video key.
PlaceOf(w) == IF worker[w].id \in Unlisted THEN "none" ELSE worker[w].to

\* UpdateDownloadPackageResult.
Persist(w) ==
    /\ Ready(w, "persist")
    /\ \/ /\ place' = [place EXCEPT ![worker[w].id] =
                         IF Row(worker[w].id) THEN PlaceOf(w) ELSE @]
          /\ Move(w, "finish")
          /\ UNCHANGED mishaps
       \/ Mishap /\ Move(w, "failing") /\ UNCHANGED place
    /\ UNCHANGED <<status, jobs, files, queue, request, issued, served, history>>

Finish(w) == Ready(w, "finish") /\ SetState(w, "closing", "complete")

\* The last statement of an attempt; when it fails nobody tries again.
LastStatus(w, s) ==
    /\ \/ status' = WithStatus(worker[w].id, s) /\ UNCHANGED <<mishaps, lost>>
       \/ Mishap /\ Forsake(worker[w].id) /\ UNCHANGED status
    /\ Rest(w)
    /\ UNCHANGED <<place, jobs, files, queue, request, issued, served, disturbed, removed>>

\* The second write of "complete" that ends process().
Close(w) == Ready(w, "closing") /\ LastStatus(w, "complete")

\* Mutant: fail publishes the event and writes no row.
FailUnrecorded(w) ==
    /\ Ready(w, "failing")
    /\ Rest(w)
    /\ UNCHANGED <<tables, files, queue, request, issued, served, mishaps, history>>

\* fail: the status only; the job row keeps its last state.
Fail(w) == Ready(w, "failing") /\ LastStatus(w, "failed")
-----------------------------------------------------------------------------
\* The process dies and starts again.  The tables and the packages survive;
\* main() reads neither back into the queue.
Crash ==
    /\ Mishap
    /\ queue' = <<>>
    /\ worker' = [w \in Workers |-> Resting]
    /\ request' = [r \in Requests |-> NoRequest]
    /\ lost' = lost \cup {d \in Ids : status[d] \in Unfinished}
    /\ UNCHANGED <<tables, files, issued, served, disturbed, removed>>

Init ==
    /\ status = [d \in Ids |-> "absent"]
    /\ place = [d \in Ids |-> "none"]
    /\ jobs = [d \in Ids |-> <<>>]
    /\ files = [b \in Backends |-> [d \in Ids |->
                   IF d \in Salvaged THEN Folder \ (IF b = "local" THEN {} ELSE {"folder"})
                                     ELSE {}]]
    /\ queue = <<>>
    /\ worker = [w \in Workers |-> Resting]
    /\ request = [r \in Requests |-> NoRequest]
    /\ issued = Salvaged
    /\ served = 0 /\ mishaps = 0
    /\ lost = {} /\ disturbed = {} /\ removed = {}

Arrive(r) ==
    \/ \E d \in Ids : CreateDownload(r, d) \/ Requeue(r, d) \/ LookUp(r, d)
    \/ \E d \in Ids, b \in Backends : ListRoots(r, b, d)

Handle(r) ==
    \/ CreateJob(r) \/ JobRefused(r)
    \/ RemoveFolder(r) \/ DeleteRow(r) \/ DeleteRefused(r) \/ DeleteJobs(r)
    \/ ListFiles(r) \/ ReadMetadata(r) \/ UpsertRow(r)

Process(w) ==
    \/ Receive(w) \/ Load(w) \/ LoadFails(w)
    \/ StartDownload(w) \/ WriteJob(w) \/ FetchEnds(w)
    \/ StartUpload(w) \/ OpenBackend(w)
    \/ (\E part \in Parts : StoreFile(w, part)) \/ StoreFails(w)
    \/ Persist(w) \/ Finish(w) \/ Close(w) \/ Fail(w)

Next == \/ \E r \in Requests : Arrive(r) \/ Handle(r) \/ Send(r)
        \/ \E w \in Workers : Process(w) \/ ReportProgress(w)
        \/ Crash

Spec == Init /\ [][Next]_vars

(***************************************************************************)
(* Goroutines are scheduled; blocked senders wait in the channel's FIFO    *)
(* queue, so a sender is not passed over for ever; and yt-dlp exits:       *)
(* process() waits for it without a deadline, so this one is an assumption *)
(* about the external program.  Clients and crashes owe nothing.           *)
(***************************************************************************)
Fairness == /\ \A r \in Requests : WF_vars(Handle(r)) /\ SF_vars(Send(r))
            /\ \A w \in Workers : WF_vars(Process(w)) /\ SF_vars(FetchEnds(w))

FairSpec == Spec /\ Fairness
-----------------------------------------------------------------------------
\* Type invariant of the pipeline's tables, queue and goroutines.
TypeOK ==
    /\ status \in [Ids -> Statuses]
    /\ place \in [Ids -> Backends \cup {"none"}]
    /\ jobs \in [Ids -> Seq([state : Statuses \ {"absent"}, second : Nat])]
    /\ files \in [Backends -> [Ids -> SUBSET Folder]]
    /\ queue \in Seq(Ids) /\ Len(queue) <= QueueCap
    /\ worker \in [Workers -> [at : Stages, id : Ids \cup {"none"},
                               owes : BOOLEAN, to : Backends \cup {"none"}]]
    /\ request \in [Requests -> [op : Ops \cup {"none"}, id : Ids \cup {"none"},
                                 at : Steps, seen : Backends \cup {"none"}]]
    /\ issued \subseteq Ids
    /\ served \in Nat /\ mishaps \in Nat
    /\ lost \subseteq Ids /\ disturbed \subseteq Ids /\ removed \subseteq Ids

(***************************************************************************)
(* A row that says queued, downloading or uploading has someone who will   *)
(* move it on: it is in the channel, in a worker's hands, or in a handler  *)
(* about to send it; unless a crash or an SQL error cut its attempt short. *)
(* Every return of Enqueue, Retry and process() must keep this.            *)
(***************************************************************************)
UnfinishedIsInFlight ==
    \A d \in Ids : status[d] \in Unfinished /\ d \notin lost => InFlight(d)

(***************************************************************************)
(* As long as no recovery runs, whatever the channel or a worker holds has *)
(* its download row and a job row: the foreign key of jobs.download_id and *)
(* the order of the statements in Enqueue, Retry and DeleteDownload keep a *)
(* delete request from pulling the row away from under the attempt.        *)
(***************************************************************************)
Accepted(d) == \/ Queued(d)
               \/ \E w \in Workers : Holds(w, d)
               \/ \E r \in Requests : request[r].at = "send" /\ request[r].id = d

AcceptedHasRow ==
    "recover" \notin Ops =>
        \A d \in Ids : Accepted(d) => Row(d) /\ jobs[d] # <<>>

(***************************************************************************)
(* A row that says complete points to a package that holds its video and   *)
(* its metadata, unless a delete request removed the folder, or the media  *)
(* file has an extension that StorePackage takes for a thumbnail's (for    *)
(* that one see KeysPopulated of Packages).  It is process() that must     *)
(* write "complete" last, and recovery that must judge a package by what   *)
(* it holds.                                                               *)
(***************************************************************************)
CompleteIsBacked ==
    \A d \in Ids \ (removed \cup Unlisted) :
        status[d] = "complete" =>
            /\ place[d] # "none"
            /\ {"video", "metadata"} \subseteq files[place[d]][d]

(***************************************************************************)
(* metadata.json is what recovery takes for the mark of a package, so a    *)
(* folder that holds it holds the video and the thumbnail too, whichever   *)
(* attempts failed or crashed on the way; StorePackage stores it last.     *)
(***************************************************************************)
MetadataMarksWhole ==
    \A b \in Backends : \A d \in Ids \ removed :
        "metadata" \in files[b][d] => Parts \subseteq files[b][d]

(***************************************************************************)
(* When the only attempt on a download is over and left it complete, the   *)
(* job row the history shows for it says complete as well: the two UPDATEs *)
(* of setState do not drift apart.                                         *)
(***************************************************************************)
CompleteJobAgrees ==
    \A d \in Ids \ disturbed :
        status[d] = "complete" /\ ~InFlight(d) /\ mishaps = 0 =>
            \E i \in Latest(jobs[d]) : jobs[d][i].state = "complete"

(***************************************************************************)
(* An attempt that nobody disturbs moves its row forward only: no late     *)
(* progress callback, fallback or second write takes a status back; only a *)
(* retry does, once the attempt before it is over.                         *)
(***************************************************************************)
Rank == [queued |-> 1, downloading |-> 2, uploading |-> 3, complete |-> 4, failed |-> 4]

MovesForward(d) ==
    \/ ~Row(d) \/ status'[d] = "absent"
    \/ Rank[status[d]] < Rank[status'[d]]
    \/ status'[d] = "queued" /\ ~InFlight(d)

StatusMovesForward ==
    [][\A d \in Ids \ disturbed' : status'[d] # status[d] => MovesForward(d)]_vars

(***************************************************************************)
(* API.md:89, "Deletes the download record (and the underlying file, if    *)
(* stored locally)": no row is left that says complete and points to a     *)
(* local video that is gone, but for the moment a delete request needs to  *)
(* come from os.RemoveAll to the DELETE statement, or an attempt to write  *)
(* the package anew.                                                       *)
(***************************************************************************)
RecordGoesWithFile ==
    \A d \in Ids :
        status[d] = "complete" /\ place[d] = "local" /\ ~InFlight(d) =>
            \/ "video" \in files["local"][d]
            \/ \E r \in Requests : request[r].op = "delete" /\ request[r].id = d

(***************************************************************************)
(* Every accepted download settles: an unfinished row becomes complete or  *)
(* failed (or is deleted), through a full channel, a failing proxy, a      *)
(* failing store and repeated retries; a crash or an SQL error excepted.   *)
(***************************************************************************)
UnfinishedSettles ==
    \A d \in Ids : status[d] \in Unfinished ~> (status[d] \notin Unfinished \/ d \in lost)

(***************************************************************************)
(* A handler that blocks on the full channel is answered in the end:       *)
(* workers never send, so they cannot wait for each other.                 *)
(***************************************************************************)
SenderReturns ==
    \A r \in Requests : request[r].at = "send" ~> request[r].at # "send"

(***************************************************************************)
(* The pipeline implements WorkQueue: an attempt is in the backlog from    *)
(* the insertion of its job row, through the wait of its sender, to its    *)
(* receipt by a worker; it is neither dropped nor taken twice.             *)
(***************************************************************************)
Backlog(d) == Cardinality({i \in DOMAIN queue : queue[i] = d})
              + Cardinality({r \in Requests : request[r].at = "send" /\ request[r].id = d})

Promise == INSTANCE WorkQueue WITH backlog <- [d \in Ids |-> Backlog(d)],
                                   running <- [w \in Workers |-> worker[w].id]

ImplementsWorkQueue == Promise!Spec
=============================================================================

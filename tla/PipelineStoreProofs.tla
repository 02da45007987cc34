------------------------ MODULE PipelineStoreProofs -------------------------
(***************************************************************************)
(* Proofs about what the package folders hold, and about the rows that     *)
(* point to them, for any number of downloads, workers and handlers.       *)
(***************************************************************************)
EXTENDS PipelineProofs

(***************************************************************************)
(* A worker has stored, where its attempt goes to, every part that comes   *)
(* before the step it is at.                                               *)
(***************************************************************************)
Storing == Parts \cup {"persist", "finish", "closing"}

StoredBefore(at) == CASE at = "thumbnail" -> {"video"}
                      [] at = "metadata"  -> {"video", "thumbnail"}
                      [] at \in {"persist", "finish", "closing"} -> Parts
                      [] OTHER -> {}

WorkerStored ==
    \A w \in Workers :
        worker[w].at \in Storing =>
            /\ worker[w].to \in Backends
            /\ worker[w].id \notin removed =>
                   StoredBefore(worker[w].at) \subseteq files[worker[w].to][worker[w].id]

(***************************************************************************)
(* The place a row names, and the place a recovery reads, or is about to   *)
(* write into a row, holds a package with its video and its metadata.      *)
(***************************************************************************)
Backed(b, d) == b \in Backends /\ {"video", "metadata"} \subseteq files[b][d]

PlaceIsBacked ==
    \A d \in Ids \ removed : place[d] # "none" => Backed(place[d], d)

Recovering == {"list", "read", "readless", "upsert"}

SeenIsBacked ==
    \A r \in Requests :
        request[r].at \in Recovering /\ request[r].id \notin removed =>
            Backed(request[r].seen, request[r].id) /\ request[r].at # "readless"

(***************************************************************************)
(* A row that says complete, or that a worker is about to call complete,   *)
(* names a place, unless its media file has no video key.                  *)
(***************************************************************************)
CompleteHasPlace ==
    \A d \in Ids \ (removed \cup Unlisted) :
        status[d] = "complete" => place[d] # "none"

FinishHasPlace ==
    \A w \in Workers :
        worker[w].at \in {"finish", "closing"} =>
            \/ worker[w].id \in removed \cup Unlisted
            \/ ~Row(worker[w].id)
            \/ place[worker[w].id] # "none"

\* No one works on an id that was not handed out.
FlightIssued == \A d \in Ids : InFlight(d) => d \in issued

StoreInv == /\ Typed /\ MetadataMarksWhole /\ WorkerStored
            /\ PlaceIsBacked /\ SeenIsBacked
RowsInv  == StoreInv /\ FlightIssued /\ CompleteHasPlace /\ FinishHasPlace

LEMMA NoneIsNoBackend == "none" \notin Backends
BY BackendsAssumption

LEMMA FilesTyped == Typed => files \in [Backends -> [Ids -> SUBSET Folder]]
BY DEF Typed, TypeOK

LEMMA WorkersTyped ==
    Typed => worker \in [Workers -> [at : Stages, id : Ids \cup {"none"}, owes : BOOLEAN,
                                     to : Backends \cup {"none"}]]
BY DEF Typed, TypeOK

\* setState, for the worker that calls it.
LEMMA SetStateWorker ==
    ASSUME Typed, NEW w \in Workers, NEW at, NEW s, SetState(w, at, s)
    PROVE  /\ worker'[w].at = at /\ worker'[w].owes = TRUE
           /\ worker'[w].id = worker[w].id /\ worker'[w].to = worker[w].to
           /\ \A v \in Workers \ {w} : worker'[v] = worker[v]
<1>1. worker' = [worker EXCEPT ![w] = [worker[w] EXCEPT !.at = at, !.owes = TRUE]]
  BY DEF SetState
<1> QED
  BY <1>1, WorkersTyped

\* The receipt of a download from the channel.
LEMMA ReceiveWorker ==
    ASSUME Typed, NEW w \in Workers, Receive(w)
    PROVE  /\ worker[w].at = "idle" /\ queue # <<>> /\ queue' = Tail(queue)
           /\ worker'[w].at = "load" /\ worker'[w].id = Head(queue)
           /\ worker'[w].owes = FALSE
           /\ \A v \in Workers \ {w} : worker'[v] = worker[v]
<1>1. worker' = [worker EXCEPT ![w] = [Resting EXCEPT !.at = "load", !.id = Head(queue)]]
  BY DEF Receive
<1>2. worker'[w] = [Resting EXCEPT !.at = "load", !.id = Head(queue)]
  BY <1>1, WorkersTyped
<1>3. worker'[w] = [at |-> "load", id |-> Head(queue), owes |-> FALSE, to |-> "none"]
  BY <1>2 DEF Resting
<1>4. \A v \in Workers \ {w} : worker'[v] = worker[v]
  BY <1>1, WorkersTyped
<1>5. worker[w].at = "idle" /\ queue # <<>> /\ queue' = Tail(queue)
  BY DEF Receive
<1> QED
  BY <1>3, <1>4, <1>5
-----------------------------------------------------------------------------
(***************************************************************************)
(* What a step can do to the folders: one worker adds something to one     *)
(* package, or one delete request empties one and is remembered for it.    *)
(***************************************************************************)
LEMMA FilesStep ==
    ASSUME Typed, [Next]_vars
    PROVE  \/ UNCHANGED <<files, removed>>
           \/ \E r \in Requests : RemoveFolder(r)
           \/ \E w \in Workers : OpenBackend(w) /\ UNCHANGED removed
           \/ \E w \in Workers, part \in Parts : StoreFile(w, part) /\ UNCHANGED removed
<1>1. ASSUME NEW r \in Requests, Arrive(r) \/ Handle(r) \/ Send(r)
      PROVE  UNCHANGED <<files, removed>> \/ RemoveFolder(r)
  BY <1>1 DEF Arrive, CreateDownload, Requeue, LookUp, ListRoots, Handle, CreateJob,
              JobRefused, DeleteRow, DeleteRefused, DeleteJobs, ListFiles, ReadMetadata, UpsertRow, Send, history
<1>2. ASSUME NEW w \in Workers, Process(w) \/ ReportProgress(w)
      PROVE  /\ UNCHANGED removed
             /\ \/ UNCHANGED files
                \/ OpenBackend(w)
                \/ \E part \in Parts : StoreFile(w, part)
  BY <1>2 DEF Process, ReportProgress, Receive, Load, LoadFails, StartDownload, WriteJob,
              FetchEnds, StartUpload, OpenBackend, StoreFile, StoreFails, Persist, Finish,
              Close, Fail, SetState, LastStatus, history
<1>3. CASE Crash
  BY <1>3 DEF Crash
<1>4. CASE UNCHANGED vars
  BY <1>4 DEF vars
<1> QED
  BY <1>1, <1>2, <1>3, <1>4 DEF Next

\* The two workers' steps on files, stated entry by entry.
LEMMA OpenBackendFiles ==
    ASSUME Typed, NEW w \in Workers, OpenBackend(w), NEW b \in Backends, NEW d \in Ids
    PROVE  files[b][d] \subseteq files'[b][d] /\ files'[b][d] \subseteq files[b][d] \cup {"folder"}
<1>1. \/ files' = [files EXCEPT !["local"] =
                      [files["local"] EXCEPT ![worker[w].id] = @ \cup {"folder"}]]
      \/ files' = files
  BY DEF OpenBackend
<1> QED
  BY <1>1, FilesTyped

LEMMA StoreFileFiles ==
    ASSUME Typed, NEW w \in Workers, NEW part \in Parts, StoreFile(w, part),
           NEW b \in Backends, NEW d \in Ids
    PROVE  /\ files[b][d] \subseteq files'[b][d]
           /\ b = worker[w].to /\ d = worker[w].id => part \in files'[b][d]
           /\ files'[b][d] # files[b][d] =>
                  /\ b = worker[w].to /\ d = worker[w].id
                  /\ files'[b][d] = files[b][d] \cup {part}
<1>1. files' = [files EXCEPT ![worker[w].to] =
                    [files[worker[w].to] EXCEPT ![worker[w].id] = @ \cup {part}]]
  BY DEF StoreFile
<1> QED
  BY <1>1, FilesTyped

LEMMA RemoveFolderFiles ==
    ASSUME Typed, NEW r \in Requests, RemoveFolder(r), NEW b \in Backends, NEW d \in Ids
    PROVE  /\ removed \subseteq removed'
           /\ d \notin removed' => files'[b][d] = files[b][d]
<1>1. files' = [files EXCEPT !["local"] = [files["local"] EXCEPT ![request[r].id] = {}]]
  BY DEF RemoveFolder
<1>2. removed' = removed \cup {request[r].id}
  BY DEF RemoveFolder
<1> QED
  BY <1>1, <1>2, FilesTyped

\* A package only grows, until a delete request removes its folder.
LEMMA FilesGrow ==
    ASSUME Typed, [Next]_vars, NEW b \in Backends, NEW d \in Ids, d \notin removed'
    PROVE  d \notin removed /\ files[b][d] \subseteq files'[b][d]
<1>1. CASE UNCHANGED <<files, removed>>
  BY <1>1
<1>2. ASSUME NEW r \in Requests, RemoveFolder(r)
      PROVE  d \notin removed /\ files[b][d] \subseteq files'[b][d]
  BY <1>2, RemoveFolderFiles
<1>3. ASSUME NEW w \in Workers, OpenBackend(w), UNCHANGED removed
      PROVE  d \notin removed /\ files[b][d] \subseteq files'[b][d]
  BY <1>3, OpenBackendFiles
<1>4. ASSUME NEW w \in Workers, NEW part \in Parts, StoreFile(w, part), UNCHANGED removed
      PROVE  d \notin removed /\ files[b][d] \subseteq files'[b][d]
  BY <1>4, StoreFileFiles
<1> QED
  BY <1>1, <1>2, <1>3, <1>4, FilesStep

(***************************************************************************)
(* Metadata is added to a package only by a worker that has stored the     *)
(* other two parts there.                                                  *)
(***************************************************************************)
LEMMA WholeStep ==
    ASSUME StoreInv, [Next]_vars
    PROVE  MetadataMarksWhole'
<1> SUFFICES ASSUME NEW b \in Backends, NEW d \in Ids, d \notin removed',
                    "metadata" \in files'[b][d]
             PROVE  Parts \subseteq files'[b][d]
  BY DEF MetadataMarksWhole
<1>1. Typed
  BY DEF StoreInv
<1>2. d \notin removed /\ files[b][d] \subseteq files'[b][d]
  BY <1>1, FilesGrow
<1>3. CASE "metadata" \in files[b][d]
  BY <1>2, <1>3 DEF StoreInv, MetadataMarksWhole
<1>4. CASE "metadata" \notin files[b][d]
  <2>1. ~(\E r \in Requests : RemoveFolder(r))
    <3>1. ASSUME NEW r \in Requests, RemoveFolder(r) PROVE FALSE
      BY <1>1, <1>4, <3>1, RemoveFolderFiles
    <3> QED
      BY <3>1
  <2>2. ~(\E w \in Workers : OpenBackend(w))
    <3>1. ASSUME NEW w \in Workers, OpenBackend(w) PROVE FALSE
      BY <1>1, <1>4, <3>1, OpenBackendFiles
    <3> QED
      BY <3>1
  <2>3. PICK w \in Workers, part \in Parts : StoreFile(w, part)
    BY <1>1, <1>4, <2>1, <2>2, FilesStep
  <2>4. /\ b = worker[w].to /\ d = worker[w].id
        /\ files'[b][d] = files[b][d] \cup {part}
    BY <1>1, <1>4, <2>3, StoreFileFiles
  <2>5. part = "metadata" /\ worker[w].at = "metadata"
    BY <1>4, <2>3, <2>4 DEF StoreFile, Ready
  <2>6. {"video", "thumbnail"} \subseteq files[b][d]
    BY <1>2, <2>4, <2>5 DEF StoreInv, WorkerStored, Storing, StoredBefore, Parts
  <2> QED
    BY <2>4, <2>5, <2>6 DEF Parts
<1> QED
  BY <1>3, <1>4

(***************************************************************************)
(* The other workers' parts stay stored; the worker that steps reaches the *)
(* next stage only with the part it was to store.                          *)
(***************************************************************************)
StoredFor(w) ==
    worker[w].at \in Storing =>
        /\ worker[w].to \in Backends
        /\ worker[w].id \notin removed =>
               StoredBefore(worker[w].at) \subseteq files[worker[w].to][worker[w].id]

LEMMA StoredKept ==
    ASSUME StoreInv, [Next]_vars, NEW w \in Workers,
           worker'[w].at = worker[w].at, worker'[w].id = worker[w].id,
           worker'[w].to = worker[w].to
    PROVE  StoredFor(w)'
<1> SUFFICES ASSUME worker[w].at \in Storing
             PROVE  /\ worker[w].to \in Backends
                    /\ worker[w].id \notin removed' =>
                          StoredBefore(worker[w].at) \subseteq files'[worker[w].to][worker[w].id]
  BY DEF StoredFor, StoredBefore
<1>1. worker[w].to \in Backends /\ worker[w].id \in Ids
  BY DEF StoreInv, WorkerStored, Typed, BusyHasId, Storing, Parts
<1>2. worker[w].id \notin removed' =>
          /\ worker[w].id \notin removed
          /\ files[worker[w].to][worker[w].id] \subseteq files'[worker[w].to][worker[w].id]
  BY <1>1, FilesGrow DEF StoreInv
<1> QED
  BY <1>1, <1>2 DEF StoreInv, WorkerStored

LEMMA StoredArrived ==
    ASSUME StoreInv, NEW w \in Workers, Process(w) \/ ReportProgress(w)
    PROVE  StoredFor(w)'
<1>1. worker \in [Workers -> [at : Stages, id : Ids \cup {"none"}, owes : BOOLEAN,
                              to : Backends \cup {"none"}]]
  BY WorkersTyped DEF StoreInv
<1>2. [Next]_vars /\ Typed
  BY DEF Next, StoreInv
<1>3. StoredFor(w)
  BY DEF StoreInv, WorkerStored, StoredFor
<1>4. CASE Receive(w) \/ Load(w) \/ LoadFails(w) \/ StartDownload(w) \/ FetchEnds(w)
           \/ StartUpload(w) \/ StoreFails(w) \/ Close(w) \/ Fail(w) \/ ReportProgress(w)
  <2>1. worker'[w].at \in {"load", "loaded", "idle", "fetch", "direct", "checked", "open",
                           "failing"}
    <3>1. CASE StartDownload(w) \/ StartUpload(w) \/ ReportProgress(w)
      BY <1>2, <3>1, SetStateWorker
      DEF StartDownload, StartUpload, ReportProgress, Ready
    <3>2. CASE Receive(w)
      BY <1>2, <3>2, ReceiveWorker
    <3>3. CASE LoadFails(w) \/ Close(w) \/ Fail(w)
      BY <1>1, <3>3 DEF LoadFails, Close, Fail, LastStatus, Rest, Resting
    <3>4. CASE Load(w) \/ FetchEnds(w) \/ StoreFails(w)
      <4>1. \E at \in {"loaded", "direct", "checked", "failing"} : Move(w, at)
        BY <3>4 DEF Load, FetchEnds, StoreFails
      <4> QED
        BY <1>1, <4>1 DEF Move
    <3> QED
      BY <1>4, <3>1, <3>2, <3>3, <3>4
  <2> QED
    BY <2>1 DEF StoredFor, Storing, Parts
<1>5. CASE WriteJob(w)
  <2>1. /\ worker'[w].at = worker[w].at /\ worker'[w].id = worker[w].id
        /\ worker'[w].to = worker[w].to
    BY <1>1, <1>5 DEF WriteJob
  <2> QED
    BY <1>2, <2>1, StoredKept
<1>6. CASE OpenBackend(w)
  <2>1. PICK b \in Backends :
               worker' = [worker EXCEPT ![w] = [worker[w] EXCEPT !.at = "video", !.to = b]]
    BY <1>6 DEF OpenBackend
  <2>2. worker'[w].at = "video" /\ worker'[w].to \in Backends
    BY <1>1, <2>1
  <2> QED
    BY <2>2 DEF StoredFor, StoredBefore
<1>7. ASSUME NEW part \in Parts, StoreFile(w, part) PROVE StoredFor(w)'
  <2> DEFINE b == worker[w].to
             d == worker[w].id
  <2>1. /\ worker[w].at = part /\ worker'[w].at = AfterStore[part]
        /\ worker'[w].to = b /\ worker'[w].id = d
    BY <1>1, <1>7 DEF StoreFile, Ready, Move
  <2>2. b \in Backends /\ d \in Ids /\ removed' = removed
    BY <1>3, <1>7, <2>1 DEF StoredFor, Storing, Parts, StoreInv, Typed, BusyHasId, StoreFile,
                            history
  <2>3. d \notin removed => StoredBefore(part) \subseteq files[b][d]
    BY <1>3, <2>1 DEF StoredFor, Storing
  <2>4. files[b][d] \cup {part} \subseteq files'[b][d]
    BY <1>2, <1>7, <2>2, StoreFileFiles
  <2>5. StoredBefore(AfterStore[part]) \subseteq StoredBefore(part) \cup {part}
    BY DEF StoredBefore, AfterStore, Parts
  <2>6. d \notin removed => StoredBefore(AfterStore[part]) \subseteq files'[b][d]
    BY <2>3, <2>4, <2>5
  <2> QED
    BY <2>1, <2>2, <2>6 DEF StoredFor
<1>8. CASE Persist(w) \/ Finish(w)
  <2>1. /\ worker[w].at \in {"persist", "finish"}
        /\ worker'[w].at \in {"finish", "closing", "failing"}
        /\ worker'[w].to = worker[w].to /\ worker'[w].id = worker[w].id
        /\ UNCHANGED <<files, removed>>
    <3>1. CASE Persist(w)
      BY <1>1, <3>1 DEF Persist, Ready, Move, history
    <3>2. CASE Finish(w)
      BY <1>2, <3>2, SetStateWorker DEF Finish, SetState, Ready, history
    <3> QED
      BY <1>8, <3>1, <3>2
  <2>2. /\ StoredBefore(worker[w].at) = Parts
        /\ worker'[w].at # "failing" => StoredBefore(worker'[w].at) = Parts
    BY <2>1 DEF StoredBefore
  <2> QED
    BY <1>3, <2>1, <2>2 DEF StoredFor, Storing, Parts
<1> QED
  BY <1>4, <1>5, <1>6, <1>7, <1>8 DEF Process

LEMMA StoredStep ==
    ASSUME StoreInv, [Next]_vars
    PROVE  WorkerStored'
<1> SUFFICES ASSUME NEW v \in Workers PROVE StoredFor(v)'
  BY DEF WorkerStored, StoredFor
<1>1. worker \in [Workers -> [at : Stages, id : Ids \cup {"none"}, owes : BOOLEAN,
                              to : Backends \cup {"none"}]]
  BY WorkersTyped DEF StoreInv
<1>2. CASE worker'[v] = worker[v]
  BY <1>2, StoredKept
<1>3. CASE worker'[v] # worker[v]
  <2>1. CASE Crash
    BY <2>1 DEF Crash, Resting, StoredFor, Storing, Parts
  <2>2. ASSUME NEW w \in Workers, Process(w) \/ ReportProgress(w) PROVE StoredFor(v)'
    <3>1. \A u \in Workers \ {w} : worker'[u] = worker[u]
      BY <1>1, <2>2 DEF Process, ReportProgress, Receive, Load, LoadFails, StartDownload,
           WriteJob, FetchEnds, StartUpload, OpenBackend, StoreFile, StoreFails, Persist,
           Finish, Close, Fail, SetState, LastStatus, Move, Rest
    <3>2. v = w
      BY <1>3, <3>1
    <3> QED
      BY <2>2, <3>2, StoredArrived
  <2>3. ASSUME NEW r \in Requests, Arrive(r) \/ Handle(r) \/ Send(r) PROVE FALSE
    BY <1>3, <2>3 DEF Arrive, CreateDownload, Requeue, LookUp, ListRoots, Handle, CreateJob,
         JobRefused, RemoveFolder, DeleteRow, DeleteRefused, DeleteJobs, ListFiles, ReadMetadata, UpsertRow, Send
  <2>4. CASE UNCHANGED vars
    BY <1>3, <2>4 DEF vars
  <2> QED
    BY <2>1, <2>2, <2>3, <2>4 DEF Next
<1> QED
  BY <1>2, <1>3

(***************************************************************************)
(* What a package holds is still there in the next state, if its folder    *)
(* was not removed.                                                        *)
(***************************************************************************)
LEMMA BackedKept ==
    ASSUME Typed, [Next]_vars, NEW b, NEW d \in Ids, d \notin removed'
    PROVE  /\ d \notin removed
           /\ Backed(b, d) => b \in Backends /\ {"video", "metadata"} \subseteq files'[b][d]
<1>1. ASSUME NEW c \in Backends PROVE d \notin removed /\ files[c][d] \subseteq files'[c][d]
  BY FilesGrow
<1>2. d \notin removed
  BY FilesStep, RemoveFolderFiles DEF RemoveFolder
<1> QED
  BY <1>1, <1>2 DEF Backed

(***************************************************************************)
(* Who writes the place of a row, or its status, and what.                 *)
(***************************************************************************)
LEMMA RowsStep ==
    ASSUME Typed, [Next]_vars, NEW d \in Ids
    PROVE  \/ UNCHANGED <<place[d], status[d]>>
           \/ d \notin issued /\ status'[d] = "queued" /\ UNCHANGED place[d]
           \/ status'[d] \notin {"absent", "complete"} /\ Row(d) /\ UNCHANGED place[d]
           \/ place'[d] = "none" /\ status'[d] = "absent"
           \/ \E r \in Requests :
                 /\ request[r].at = "upsert" /\ request[r].id = d
                 /\ place'[d] = request[r].seen
           \/ \E w \in Workers :
                 /\ worker[w].at = "persist" /\ worker[w].id = d /\ Row(d)
                 /\ place'[d] = PlaceOf(w) /\ UNCHANGED status[d]
           \/ \E w \in Workers :
                 /\ worker[w].at \in {"finish", "closing"} /\ worker[w].id = d /\ Row(d)
                 /\ status'[d] = "complete" /\ UNCHANGED place[d]
<1>1. status \in [Ids -> Statuses] /\ place \in [Ids -> Backends \cup {"none"}]
  BY DEF Typed, TypeOK
<1> DEFINE Goal ==
       \/ UNCHANGED <<place[d], status[d]>>
       \/ d \notin issued /\ status'[d] = "queued" /\ UNCHANGED place[d]
       \/ status'[d] \notin {"absent", "complete"} /\ Row(d) /\ UNCHANGED place[d]
       \/ place'[d] = "none" /\ status'[d] = "absent"
       \/ \E r \in Requests :
             /\ request[r].at = "upsert" /\ request[r].id = d
             /\ place'[d] = request[r].seen
       \/ \E w \in Workers :
             /\ worker[w].at = "persist" /\ worker[w].id = d /\ Row(d)
             /\ place'[d] = PlaceOf(w) /\ UNCHANGED status[d]
       \/ \E w \in Workers :
             /\ worker[w].at \in {"finish", "closing"} /\ worker[w].id = d /\ Row(d)
             /\ status'[d] = "complete" /\ UNCHANGED place[d]
<1>2. ASSUME NEW r \in Requests, Arrive(r) PROVE Goal
  <2>1. PICK e \in Ids : \/ CreateDownload(r, e) \/ Requeue(r, e) \/ LookUp(r, e)
                         \/ \E b \in Backends : ListRoots(r, b, e)
    BY <1>2 DEF Arrive
  <2>2. CASE CreateDownload(r, e) \/ Requeue(r, e)
    BY <1>1, <2>2 DEF CreateDownload, Requeue, WithStatus, Row
  <2>3. CASE LookUp(r, e) \/ \E b \in Backends : ListRoots(r, b, e)
    BY <2>3 DEF LookUp, ListRoots, tables
  <2> QED
    BY <2>1, <2>2, <2>3
<1>3. ASSUME NEW r \in Requests, Handle(r) \/ Send(r) PROVE Goal
  <2>1. CASE UpsertRow(r)
    BY <1>1, <2>1 DEF UpsertRow
  <2>2. CASE DeleteRow(r)
    BY <1>1, <2>2 DEF DeleteRow
  <2>3. CASE ListFiles(r) \/ ReadMetadata(r)
    BY <2>3, RecoveryReads
  <2>4. CASE CreateJob(r) \/ JobRefused(r) \/ RemoveFolder(r) \/ DeleteRefused(r)
             \/ DeleteJobs(r) \/ Send(r)
    BY <2>4 DEF CreateJob, JobRefused, RemoveFolder, DeleteRefused, DeleteJobs, Send, tables
  <2> QED
    BY <1>3, <2>1, <2>2, <2>3, <2>4 DEF Handle
<1>4. ASSUME NEW w \in Workers, Process(w) \/ ReportProgress(w) PROVE Goal
  <2>1. CASE StartDownload(w) \/ ReportProgress(w) \/ StartUpload(w)
    BY <1>1, <2>1 DEF StartDownload, ReportProgress, StartUpload, SetState, TryStatus,
                      WithStatus, Row
  <2>2. CASE Finish(w) \/ Close(w)
    BY <1>1, <2>2 DEF Finish, Close, SetState, LastStatus, TryStatus, WithStatus, Row, Ready
  <2>3. CASE Fail(w)
    BY <1>1, <2>3 DEF Fail, LastStatus, WithStatus, Row
  <2>4. CASE Persist(w)
    BY <1>1, <2>4 DEF Persist, Ready
  <2>5. CASE Receive(w) \/ Load(w) \/ LoadFails(w) \/ WriteJob(w) \/ FetchEnds(w)
             \/ OpenBackend(w) \/ StoreFails(w) \/ \E part \in Parts : StoreFile(w, part)
    BY <2>5 DEF Receive, Load, LoadFails, WriteJob, FetchEnds, OpenBackend, StoreFails,
                StoreFile, tables
  <2> QED
    BY <1>4, <2>1, <2>2, <2>3, <2>4, <2>5 DEF Process
<1>5. CASE Crash \/ UNCHANGED vars
  BY <1>5 DEF Crash, vars, tables
<1> QED
  BY <1>2, <1>3, <1>4, <1>5 DEF Next

(***************************************************************************)
(* A recovery judges a package by what it holds: it begins with a package  *)
(* that has its metadata, and so is whole.                                 *)
(***************************************************************************)
LEMMA SeenArrive ==
    ASSUME StoreInv, [Next]_vars, NEW r \in Requests, Arrive(r),
           request'[r].at \in Recovering, request'[r].id \notin removed'
    PROVE  /\ request'[r].seen \in Backends /\ request'[r].at # "readless"
           /\ {"video", "metadata"} \subseteq files'[request'[r].seen][request'[r].id]
<1>1. request \in [Requests -> [op : Ops \cup {"none"}, id : Ids \cup {"none"},
                                at : Steps, seen : Backends \cup {"none"}]]
  BY DEF StoreInv, Typed, TypeOK
<1>2. ASSUME NEW d \in Ids, CreateDownload(r, d) \/ Requeue(r, d) \/ LookUp(r, d)
      PROVE  FALSE
  BY <1>1, <1>2 DEF CreateDownload, Requeue, LookUp, Begin, Recovering
<1>3. PICK d \in Ids, b \in Backends : ListRoots(r, b, d)
  BY <1>2 DEF Arrive
<1>4. /\ request'[r].id = d /\ request'[r].seen = b /\ request'[r].at = "list"
      /\ "metadata" \in files[b][d] /\ UNCHANGED <<files, removed>>
  BY <1>1, <1>3 DEF ListRoots, Begin, history
<1>5. {"video", "metadata"} \subseteq files[b][d]
  BY <1>4 DEF StoreInv, MetadataMarksWhole, Parts
<1> QED
  BY <1>4, <1>5

LEMMA SeenReads ==
    ASSUME StoreInv, NEW r \in Requests, ListFiles(r) \/ ReadMetadata(r),
           request'[r].at \in Recovering, request'[r].id \notin removed'
    PROVE  /\ request'[r].seen \in Backends /\ request'[r].at # "readless"
           /\ {"video", "metadata"} \subseteq files'[request'[r].seen][request'[r].id]
<1> DEFINE q0 == request[r]
<1>1. request \in [Requests -> [op : Ops \cup {"none"}, id : Ids \cup {"none"},
                                at : Steps, seen : Backends \cup {"none"}]]
  BY DEF StoreInv, Typed, TypeOK
<1>2. /\ request[r].at \in Recovering /\ request'[r].id = request[r].id
      /\ UNCHANGED <<files, removed>>
  BY RecoveryReads DEF StoreInv, Recovering
<1>3. Backed(request[r].seen, request[r].id) /\ request[r].at # "readless"
  BY <1>2 DEF StoreInv, SeenIsBacked
<1>4. /\ request[r].seen \in Backends
      /\ {"video", "metadata"} \subseteq files'[request[r].seen][request[r].id]
  BY <1>2, <1>3 DEF Backed
<1>5. request'[r].seen = request[r].seen /\ request'[r].at # "readless"
  <2>1. CASE Reply(r)
    BY <1>1, <2>1 DEF Reply, NoRequest, Recovering
  <2>2. CASE ListFiles(r) /\ ~Reply(r)
    <3>1. Goto(r, "read")
      BY <1>2, <1>4, <2>2 DEF ListFiles
    <3> QED
      BY <1>1, <3>1 DEF Goto
  <2>3. CASE ReadMetadata(r) /\ ~Reply(r)
    <3>1. request[r].at = "read"
      BY <1>3, <2>3 DEF ReadMetadata
    <3>2. request' = [request EXCEPT ![r] = [request[r] EXCEPT !.at = "upsert",
                                                              !.seen = q0.seen]]
      BY <2>3, <3>1 DEF ReadMetadata
    <3>3. request'[r] = [op |-> q0.op, id |-> q0.id, at |-> "upsert", seen |-> q0.seen]
      BY <1>1, <3>2
    <3> QED
      BY <3>3
  <2> QED
    BY <2>1, <2>2, <2>3
<1> QED
  BY <1>2, <1>4, <1>5

LEMMA SeenStep ==
    ASSUME StoreInv, [Next]_vars
    PROVE  SeenIsBacked'
<1> SUFFICES ASSUME NEW r \in Requests, request'[r].at \in Recovering,
                    request'[r].id \notin removed'
             PROVE  /\ request'[r].seen \in Backends /\ request'[r].at # "readless"
                    /\ {"video", "metadata"} \subseteq files'[request'[r].seen][request'[r].id]
  BY DEF SeenIsBacked, Backed
<1>1. Typed /\ Typed'
  BY TypedNext DEF StoreInv
<1>2. request'[r].id \in Ids
  BY <1>1 DEF Typed, BusyHasId, Recovering
<1>3. CASE request'[r] = request[r]
  <2>1. request'[r].id \notin removed
    BY <1>1, <1>2, BackedKept
  <2>2. Backed(request[r].seen, request[r].id) /\ request[r].at # "readless"
    BY <1>3, <2>1 DEF StoreInv, SeenIsBacked
  <2> QED
    BY <1>1, <1>2, <1>3, <2>2, BackedKept
<1>4. CASE request'[r] # request[r]
  <2>1. request \in [Requests -> [op : Ops \cup {"none"}, id : Ids \cup {"none"},
                                  at : Steps, seen : Backends \cup {"none"}]]
    BY <1>1 DEF Typed, TypeOK
  <2>2. ASSUME NEW q \in Requests, Handle(q) \/ Send(q)
        PROVE  ListFiles(r) \/ ReadMetadata(r)
    <3>1. CASE ListFiles(q) \/ ReadMetadata(q)
      BY <1>1, <1>4, <3>1, RecoveryReads
    <3>2. CASE ~ListFiles(q) /\ ~ReadMetadata(q)
      <4>1. Reply(q) \/ \E at \in {"send", "delrow", "deljobs"} : Goto(q, at)
        BY <2>2, <3>2 DEF Handle, CreateJob, JobRefused, RemoveFolder, DeleteRow,
                          DeleteRefused, DeleteJobs, UpsertRow, Send
      <4> QED
        BY <1>4, <2>1, <4>1 DEF Reply, Goto, NoRequest, Recovering
    <3> QED
      BY <3>1, <3>2
  <2>3. ASSUME NEW q \in Requests, Arrive(q) PROVE Arrive(r)
    <3>1. q = r
      BY <1>4, <2>1, <2>3 DEF Arrive, CreateDownload, Requeue, LookUp, ListRoots, Begin
    <3> QED
      BY <2>3, <3>1
  <2>4. ASSUME NEW w \in Workers, Process(w) \/ ReportProgress(w) PROVE FALSE
    BY <1>4, <2>4 DEF Process, ReportProgress, Receive, Load, LoadFails, StartDownload,
         WriteJob, FetchEnds, StartUpload, OpenBackend, StoreFile, StoreFails, Persist,
         Finish, Close, Fail, SetState, LastStatus
  <2>5. ~Crash /\ ~UNCHANGED vars
    BY <1>4 DEF Crash, vars, NoRequest, Recovering
  <2> QED
    BY <2>2, <2>3, <2>4, <2>5, SeenArrive, SeenReads DEF Next
<1> QED
  BY <1>3, <1>4

\* A place is written from a package that was stored, or read, before.
LEMMA PlaceStep ==
    ASSUME StoreInv, [Next]_vars
    PROVE  PlaceIsBacked'
<1> SUFFICES ASSUME NEW d \in Ids, d \notin removed', place'[d] # "none"
             PROVE  /\ place'[d] \in Backends
                    /\ {"video", "metadata"} \subseteq files'[place'[d]][d]
  BY DEF PlaceIsBacked, Backed
<1>1. Typed /\ d \notin removed
  BY BackedKept DEF StoreInv
<1>2. Backed(place'[d], d)
  <2>1. CASE UNCHANGED place[d]
    BY <1>1, <2>1 DEF StoreInv, PlaceIsBacked, Backed
  <2>2. CASE \E r \in Requests : /\ request[r].at = "upsert" /\ request[r].id = d
                                 /\ place'[d] = request[r].seen
    BY <1>1, <2>2 DEF StoreInv, SeenIsBacked, Recovering, Backed
  <2>3. CASE \E w \in Workers : /\ worker[w].at = "persist" /\ worker[w].id = d
                                /\ place'[d] = PlaceOf(w)
    <3>1. PICK w \in Workers : /\ worker[w].at = "persist" /\ worker[w].id = d
                               /\ place'[d] = worker[w].to
      BY <2>3 DEF PlaceOf
    <3>2. worker[w].to \in Backends /\ Parts \subseteq files[worker[w].to][d]
      BY <1>1, <3>1 DEF StoreInv, WorkerStored, Storing, StoredBefore
    <3> QED
      BY <3>1, <3>2 DEF Backed, Parts
  <2> QED
    BY <1>1, <2>1, <2>2, <2>3, RowsStep
<1> QED
  BY <1>1, <1>2, BackedKept

LEMMA StoreInit == Init => StoreInv
<1> SUFFICES ASSUME Init PROVE StoreInv
  OBVIOUS
<1>1. MetadataMarksWhole
  BY DEF Init, MetadataMarksWhole, Folder, Parts
<1>2. WorkerStored /\ PlaceIsBacked /\ SeenIsBacked
  BY DEF Init, WorkerStored, PlaceIsBacked, SeenIsBacked, Recovering, Resting,
         NoRequest, Storing, Parts
<1> QED
  BY <1>1, <1>2, TypedInit DEF StoreInv

LEMMA StoreNext == StoreInv /\ [Next]_vars => StoreInv'
<1> SUFFICES ASSUME StoreInv, [Next]_vars PROVE StoreInv'
  OBVIOUS
<1>1. Typed'
  BY TypedNext DEF StoreInv
<1> QED
  BY <1>1, WholeStep, StoredStep, PlaceStep, SeenStep DEF StoreInv

(***************************************************************************)
(* metadata.json marks a whole package, whatever attempts, retries,        *)
(* recoveries, failures and crashes the folder went through: no worker     *)
(* stores it before the other two parts are in the same folder.            *)
(***************************************************************************)
THEOREM MetadataIsLast == Spec => []MetadataMarksWhole
<1>1. StoreInv => MetadataMarksWhole
  BY DEF StoreInv
<1> QED
  BY <1>1, StoreInit, StoreNext, PTL DEF Spec
-----------------------------------------------------------------------------
(***************************************************************************)
(* A step of a worker that already holds a download: it keeps it or lets   *)
(* go of it, and touches nobody else.                                      *)
(***************************************************************************)
LEMMA WorkingStep ==
    ASSUME Typed, NEW w \in Workers, Process(w) \/ ReportProgress(w), ~Receive(w)
    PROVE  /\ UNCHANGED <<queue, request, issued>> /\ worker[w].at # "idle"
           /\ \/ worker'[w].at = "idle"
              \/ worker'[w].at # "idle" /\ worker'[w].id = worker[w].id
           /\ \A v \in Workers \ {w} : worker'[v] = worker[v]
<1>1. UNCHANGED <<queue, request, issued>>
  BY DEF Process, ReportProgress, Load, LoadFails, StartDownload, WriteJob, FetchEnds,
         StartUpload, OpenBackend, StoreFile, StoreFails, Persist, Finish, Close, Fail,
         SetState, LastStatus
<1>2. worker[w].at # "idle"
  BY DEF Process, ReportProgress, Load, LoadFails, StartDownload, WriteJob, FetchEnds,
         StartUpload, OpenBackend, StoreFile, StoreFails, Persist, Finish, Close, Fail,
         Ready, Parts, Typed, BusyHasId
<1>3. CASE StartDownload(w) \/ ReportProgress(w) \/ StartUpload(w) \/ Finish(w)
  BY <1>1, <1>2, <1>3, SetStateWorker DEF StartDownload, ReportProgress, StartUpload, Finish
<1>4. CASE OpenBackend(w)
  <2>1. PICK b \in Backends :
               worker' = [worker EXCEPT ![w] = [worker[w] EXCEPT !.at = "video", !.to = b]]
    BY <1>4 DEF OpenBackend
  <2> QED
    BY <1>1, <1>2, <2>1, WorkersTyped
<1>5. CASE WriteJob(w)
  <2>1. worker' = [worker EXCEPT ![w] = [worker[w] EXCEPT !.owes = FALSE]]
    BY <1>5 DEF WriteJob
  <2> QED
    BY <1>1, <1>2, <2>1, WorkersTyped
<1>6. CASE \E at \in Stages \ {"idle"} : Move(w, at)
  BY <1>1, <1>2, <1>6, WorkersTyped DEF Move
<1>7. CASE Rest(w)
  BY <1>1, <1>2, <1>7, WorkersTyped DEF Rest, Resting
<1>8. \/ StartDownload(w) \/ ReportProgress(w) \/ StartUpload(w) \/ Finish(w)
      \/ OpenBackend(w) \/ WriteJob(w) \/ Rest(w)
      \/ \E at \in Stages \ {"idle"} : Move(w, at)
  BY DEF Process, Load, LoadFails, FetchEnds, StoreFile, StoreFails, Persist, Close, Fail,
         LastStatus, AfterStore, Parts, Stages
<1> QED
  BY <1>3, <1>4, <1>5, <1>6, <1>7, <1>8

\* A step of a handler: what it submits it was submitting before, or has
\* just accepted.
LEMMA HandlerStep ==
    ASSUME Typed, NEW r \in Requests, Arrive(r) \/ Handle(r) \/ Send(r)
    PROVE  /\ UNCHANGED worker
           /\ \A q \in Requests \ {r} : request'[q] = request[q]
           /\ \A d \in Ids : Submits(r, d)' /\ ~Submits(r, d) =>
                 CreateDownload(r, d) \/ Requeue(r, d)
           /\ \/ UNCHANGED queue
              \/ /\ Send(r) /\ queue' = Append(queue, request[r].id)
                 /\ request[r].at = "send"
           /\ issued \subseteq issued'
<1>1. request \in [Requests -> [op : Ops \cup {"none"}, id : Ids \cup {"none"},
                                at : Steps, seen : Backends \cup {"none"}]]
  BY DEF Typed, TypeOK
<1>2. CASE Arrive(r)
  BY <1>1, <1>2 DEF Arrive, CreateDownload, Requeue, LookUp, ListRoots, Begin, Submits
<1>3. CASE Handle(r)
  <2>1. CASE CreateJob(r)
    BY <1>1, <2>1 DEF CreateJob, Goto, Submits
  <2>2. CASE ListFiles(r) \/ ReadMetadata(r)
    BY <2>2, RecoveryReads DEF Submits
  <2>3. CASE ~CreateJob(r) /\ ~ListFiles(r) /\ ~ReadMetadata(r)
    <3>1. Reply(r) \/ \E at \in {"delrow", "deljobs"} : Goto(r, at)
      BY <1>3, <2>3 DEF Handle, JobRefused, RemoveFolder, DeleteRow, DeleteRefused,
                        DeleteJobs, UpsertRow
    <3>2. UNCHANGED <<worker, queue, issued>>
      BY <1>3, <2>3 DEF Handle, JobRefused, RemoveFolder, DeleteRow, DeleteRefused,
                        DeleteJobs, UpsertRow
    <3> QED
      BY <1>1, <3>1, <3>2 DEF Reply, Goto, NoRequest, Submits
  <2> QED
    BY <2>1, <2>2, <2>3
<1>4. CASE Send(r)
  BY <1>1, <1>4 DEF Send, Reply, NoRequest, Submits
<1> QED
  BY <1>2, <1>3, <1>4

\* Who is in flight after a step was so before, or was issued.
LEMMA FlightIssuedStep ==
    ASSUME Typed, FlightIssued, [Next]_vars
    PROVE  FlightIssued'
<1> SUFFICES ASSUME NEW e \in Ids, InFlight(e)' PROVE e \in issued'
  BY DEF FlightIssued
<1>1. queue \in Seq(Ids)
  BY DEF Typed, TypeOK
<1>2. ASSUME NEW r \in Requests, Arrive(r) \/ Handle(r) \/ Send(r) PROVE e \in issued'
  <2>1. CASE Submits(r, e)' /\ ~Submits(r, e)
    <3>1. CreateDownload(r, e) \/ Requeue(r, e)
      BY <1>2, <2>1, HandlerStep
    <3> QED
      BY <3>1 DEF CreateDownload, Requeue
  <2>2. CASE Submits(r, e) \/ ~Submits(r, e)'
    <3>1. Queued(e)' => Queued(e) \/ Submits(r, e)
      <4>1. CASE UNCHANGED queue
        BY <4>1 DEF Queued
      <4>2. CASE Send(r) /\ queue' = Append(queue, request[r].id) /\ request[r].at = "send"
        <5>1. request[r].id \in Ids
          BY <4>2 DEF Typed, BusyHasId
        <5> QED
          BY <1>1, <4>2, <5>1, AppendProperties, LenProperties DEF Queued, Submits
      <4> QED
        BY <1>2, <4>1, <4>2, HandlerStep
    <3>2. InFlight(e)
      BY <1>2, <2>2, <3>1, HandlerStep DEF InFlight, Holds, Submits
    <3> QED
      BY <1>2, <3>2, HandlerStep DEF FlightIssued
  <2> QED
    BY <2>1, <2>2
<1>3. ASSUME NEW w \in Workers, Process(w) \/ ReportProgress(w) PROVE e \in issued'
  <2>1. CASE Receive(w)
    <3>0. queue # <<>> /\ queue' = Tail(queue)
      BY <2>1, ReceiveWorker
    <3>1. Queued(e)' => Queued(e)
      <4>1. \A i \in DOMAIN queue' : i + 1 \in DOMAIN queue /\ queue[i + 1] = queue'[i]
        BY <1>1, <3>0, HeadTailProperties, LenProperties
      <4> QED
        BY <4>1 DEF Queued
    <3>2. Holds(w, e)' => Queued(e)
      <4>1. 1 \in DOMAIN queue /\ queue[1] = Head(queue)
        BY <1>1, <3>0, HeadTailProperties, LenProperties
      <4> QED
        BY <2>1, <4>1, ReceiveWorker DEF Queued, Holds
    <3>3. UNCHANGED <<request, issued>>
      BY <2>1 DEF Receive
    <3> QED
      BY <2>1, <3>1, <3>2, <3>3, ReceiveWorker DEF FlightIssued, InFlight, Holds, Submits
  <2>2. CASE ~Receive(w)
    BY <1>3, <2>2, WorkingStep DEF FlightIssued, InFlight, Queued, Holds, Submits
  <2> QED
    BY <2>1, <2>2
<1>4. CASE Crash
  BY <1>4 DEF Crash, InFlight, Queued, Holds, Submits, Resting, NoRequest
<1>5. CASE UNCHANGED vars
  BY <1>5 DEF vars, FlightIssued, InFlight, Queued, Holds, Submits
<1> QED
  BY <1>2, <1>3, <1>4, <1>5 DEF Next

(***************************************************************************)
(* A row loses its place only with the row itself, and comes back only     *)
(* with a place: the id of a held download is never issued again.          *)
(***************************************************************************)
LEMMA RowKeepsPlace ==
    ASSUME RowsInv, [Next]_vars, NEW d \in Ids \ Unlisted, d \notin removed',
           status'[d] # "absent", d \in issued, ~Row(d) \/ place[d] # "none"
    PROVE  place'[d] # "none"
<1>1. Typed /\ d \notin removed /\ "none" \notin Backends
  BY BackedKept, NoneIsNoBackend DEF RowsInv, StoreInv
<1>2. CASE UNCHANGED <<place[d], status[d]>>
  BY <1>2 DEF Row
<1>3. CASE Row(d) /\ UNCHANGED place[d]
  BY <1>3
<1>4. CASE status'[d] = "absent"
  BY <1>4 DEF Row
<1>5. CASE \E r \in Requests : /\ request[r].at = "upsert" /\ request[r].id = d
                               /\ place'[d] = request[r].seen
  BY <1>1, <1>5 DEF RowsInv, StoreInv, SeenIsBacked, Recovering, Backed
<1>6. CASE \E w \in Workers : /\ worker[w].at = "persist" /\ worker[w].id = d
                              /\ place'[d] = PlaceOf(w)
  BY <1>1, <1>6 DEF RowsInv, StoreInv, WorkerStored, Storing, PlaceOf
<1> QED
  BY <1>1, <1>2, <1>3, <1>4, <1>5, <1>6, RowsStep

LEMMA CompleteStep ==
    ASSUME RowsInv, [Next]_vars
    PROVE  CompleteHasPlace'
<1> SUFFICES ASSUME NEW d \in Ids \ Unlisted, d \notin removed', status'[d] = "complete"
             PROVE  place'[d] # "none"
  BY DEF CompleteHasPlace
<1>1. Typed /\ d \notin removed /\ "none" \notin Backends
  BY BackedKept, NoneIsNoBackend DEF RowsInv, StoreInv
<1>2. CASE UNCHANGED <<place[d], status[d]>>
  BY <1>1, <1>2 DEF RowsInv, CompleteHasPlace
<1>3. CASE \E r \in Requests : /\ request[r].at = "upsert" /\ request[r].id = d
                               /\ place'[d] = request[r].seen
  BY <1>1, <1>3 DEF RowsInv, StoreInv, SeenIsBacked, Recovering, Backed
<1>4. CASE \E w \in Workers : /\ worker[w].at = "persist" /\ worker[w].id = d
                              /\ place'[d] = PlaceOf(w)
  BY <1>1, <1>4 DEF RowsInv, StoreInv, WorkerStored, Storing, PlaceOf
<1>5. CASE \E w \in Workers : /\ worker[w].at \in {"finish", "closing"} /\ worker[w].id = d
                              /\ Row(d) /\ UNCHANGED place[d]
  BY <1>1, <1>5 DEF RowsInv, FinishHasPlace
<1> QED
  BY <1>1, <1>2, <1>3, <1>4, <1>5, RowsStep

LEMMA FinishStep ==
    ASSUME RowsInv, [Next]_vars
    PROVE  FinishHasPlace'
<1> SUFFICES ASSUME NEW v \in Workers, worker'[v].at \in {"finish", "closing"},
                    worker'[v].id \notin removed' \cup Unlisted,
                    status'[worker'[v].id] # "absent"
             PROVE  place'[worker'[v].id] # "none"
  BY DEF FinishHasPlace, Row
<1> DEFINE d == worker'[v].id
<1>1. Typed /\ Typed'
  BY TypedNext DEF RowsInv, StoreInv
<1>2. d \in Ids \ Unlisted
  BY <1>1 DEF Typed, BusyHasId
<1>3. d \notin removed
  BY <1>1, <1>2, BackedKept
<1>4. CASE worker[v].at \in {"finish", "closing"} /\ worker[v].id = d
  <2>1. InFlight(d)
    BY <1>4 DEF InFlight, Holds
  <2>2. d \in issued /\ (~Row(d) \/ place[d] # "none")
    BY <1>2, <1>3, <1>4, <2>1 DEF RowsInv, FlightIssued, FinishHasPlace
  <2> QED
    BY <1>2, <2>2, RowKeepsPlace
<1>5. CASE ~(worker[v].at \in {"finish", "closing"} /\ worker[v].id = d)
  <2>1. Persist(v) /\ d = worker[v].id
    <3>1. ~Crash /\ ~UNCHANGED vars
      BY <1>5 DEF Crash, Resting, vars
    <3>2. ASSUME NEW r \in Requests, Arrive(r) \/ Handle(r) \/ Send(r) PROVE FALSE
      BY <1>1, <1>5, <3>2, HandlerStep
    <3>3. PICK w \in Workers : Process(w) \/ ReportProgress(w)
      BY <3>1, <3>2 DEF Next
    <3>4. ~Receive(w) /\ w = v
      BY <1>1, <1>5, <3>3, ReceiveWorker, WorkingStep
    <3>5. worker'[v].id = worker[v].id
      BY <1>1, <3>3, <3>4, WorkingStep
    <3>6. ~StartDownload(v) /\ ~ReportProgress(v) /\ ~StartUpload(v)
      <4>1. ASSUME NEW at \in {"fetch", "direct", "open"}, NEW s, SetState(v, at, s)
            PROVE  FALSE
        BY <1>1, <4>1, SetStateWorker
      <4> QED
        BY <4>1 DEF StartDownload, ReportProgress, StartUpload, Ready
    <3>7. ~Finish(v)
      BY <1>5, <3>5 DEF Finish, Ready
    <3>8. ~WriteJob(v)
      BY <1>1, <1>5, <3>5, WorkersTyped DEF WriteJob
    <3>9. ~OpenBackend(v)
      <4>1. ASSUME NEW b \in Backends,
                   worker' = [worker EXCEPT ![v] = [worker[v] EXCEPT !.at = "video", !.to = b]]
            PROVE  FALSE
        BY <1>1, <4>1, WorkersTyped
      <4> QED
        BY <4>1 DEF OpenBackend
    <3>10. ~Rest(v)
      BY <1>1, WorkersTyped DEF Rest, Resting
    <3>11. ~\E at \in {"loaded", "direct", "checked", "failing", "thumbnail", "metadata",
                       "persist"} : Move(v, at)
      BY <1>1, WorkersTyped DEF Move
    <3> QED
      BY <3>3, <3>4, <3>5, <3>6, <3>7, <3>8, <3>9, <3>10, <3>11
      DEF Process, Load, LoadFails, FetchEnds, StoreFile, StoreFails, Close, Fail,
          LastStatus, AfterStore, Parts
  <2>2. place'[d] = IF Row(d) THEN worker[v].to ELSE place[d]
    <3>1. ~Move(v, "failing")
      BY <1>1, WorkersTyped DEF Move
    <3> QED
      BY <1>1, <1>2, <2>1, <3>1 DEF Persist, PlaceOf, Typed, TypeOK
  <2>3. Row(d)
    BY <2>1 DEF Persist, Row
  <2>4. worker[v].to \in Backends
    BY <2>1 DEF Persist, Ready, RowsInv, StoreInv, WorkerStored, Storing
  <2> QED
    BY <2>2, <2>3, <2>4, NoneIsNoBackend
<1> QED
  BY <1>4, <1>5

(***************************************************************************)
(* A row that says complete names a package with its video and its         *)
(* metadata, for any number of attempts, retries, recoveries, deletes,     *)
(* failed statements and crashes: the order of process(), which writes     *)
(* the place before the status and the files before the place, and of      *)
(* recovery, which reads the package first, is enough; only a folder that  *)
(* a delete request removed is missed, and a media file without a key.     *)
(***************************************************************************)
THEOREM CompleteHasPackage == Spec => []CompleteIsBacked
<1>1. Init => RowsInv
  BY StoreInit DEF Init, RowsInv, FlightIssued, CompleteHasPlace, FinishHasPlace, InFlight,
                   Queued, Holds, Submits, Resting, NoRequest
<1>2. RowsInv /\ [Next]_vars => RowsInv'
  <2> SUFFICES ASSUME RowsInv, [Next]_vars PROVE RowsInv'
    OBVIOUS
  <2>1. StoreInv'
    BY StoreNext DEF RowsInv
  <2> QED
    BY <2>1, FlightIssuedStep, CompleteStep, FinishStep DEF RowsInv, StoreInv
<1>3. RowsInv => CompleteIsBacked
  BY DEF RowsInv, StoreInv, CompleteHasPlace, PlaceIsBacked, Backed, CompleteIsBacked
<1> QED
  BY <1>1, <1>2, <1>3, PTL DEF Spec
=============================================================================

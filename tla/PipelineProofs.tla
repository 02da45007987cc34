--------------------------- MODULE PipelineProofs ---------------------------
(***************************************************************************)
(* Proofs about Pipeline, for any number of downloads, workers, handlers,  *)
(* requests and mishaps and any capacity of the channel.                   *)
(***************************************************************************)
EXTENDS Pipeline, SequenceTheorems, TLAPS

(***************************************************************************)
(* A goroutine that is not at rest works on a download, and a worker does  *)
(* not rest between the two steps of setState.                             *)
(***************************************************************************)
BusyHasId ==
    /\ \A w \in Workers : /\ worker[w].at # "idle" => worker[w].id \in Ids
                          /\ worker[w].owes => worker[w].at # "idle"
    /\ \A r \in Requests : request[r].at # "none" => request[r].id \in Ids

Typed == TypeOK /\ BusyHasId

(***************************************************************************)
(* Inserting a job row, or updating one, keeps the table typed.            *)
(***************************************************************************)
JobRow == [state : Statuses \ {"absent"}, second : Nat]

LEMMA UpdateLatestJobType ==
    ASSUME TypeOK, NEW d \in Ids, NEW s \in Statuses \ {"absent"}, UpdateLatestJob(d, s)
    PROVE  /\ jobs' \in [Ids -> Seq(JobRow)]
           /\ \A e \in Ids : jobs'[e] = <<>> <=> jobs[e] = <<>>
<1>1. jobs \in [Ids -> Seq(JobRow)]
  BY DEF TypeOK, JobRow
<1>2. CASE jobs[d] = <<>>
  BY <1>1, <1>2 DEF UpdateLatestJob
<1>3. CASE jobs[d] # <<>>
  <2>1. PICK i \in Latest(jobs[d]) :
               jobs' = [jobs EXCEPT ![d][i].state = s]
    BY <1>3 DEF UpdateLatestJob
  <2> DEFINE old == jobs[d]
             new == [old EXCEPT ![i].state = s]
  <2>2. old \in Seq(JobRow) /\ i \in DOMAIN old
    BY <1>1, <2>1 DEF Latest
  <2>3. old[i] \in JobRow
    BY <2>2
  <2>4. [old[i] EXCEPT !.state = s] \in JobRow
    BY <2>3 DEF JobRow
  <2>5. new = [old EXCEPT ![i] = [old[i] EXCEPT !.state = s]]
    OBVIOUS
  <2>6. new \in Seq(JobRow) /\ Len(new) = Len(old)
    BY <2>2, <2>4, <2>5, ExceptSeq
  <2>7. new # <<>>
    BY <1>3, <2>2, <2>6
  <2> QED
    BY <1>1, <1>3, <2>1, <2>6, <2>7
<1> QED
  BY <1>2, <1>3

\* The second UPDATE of setState: it neither inserts nor deletes job rows.
LEMMA WriteJobType ==
    ASSUME Typed, NEW w \in Workers, WriteJob(w)
    PROVE  /\ jobs' \in [Ids -> Seq(JobRow)]
           /\ \A e \in Ids : jobs'[e] = <<>> <=> jobs[e] = <<>>
<1>1. CASE UNCHANGED jobs
  BY <1>1 DEF Typed, TypeOK, JobRow
<1>2. CASE ~UNCHANGED jobs
  <2>1. PICK s \in {"downloading", "uploading", "complete"} :
               UpdateLatestJob(worker[w].id, s)
    BY <1>2 DEF WriteJob
  <2>2. worker[w].id \in Ids
    BY DEF WriteJob, Typed, BusyHasId
  <2>3. s \in Statuses \ {"absent"}
    BY DEF Statuses, Unfinished
  <2> QED
    BY <2>1, <2>2, <2>3, UpdateLatestJobType DEF Typed
<1> QED
  BY <1>1, <1>2

(***************************************************************************)
(* TypeOK is inductive together with BusyHasId: a handler or a worker only *)
(* ever writes the row of the download it works on.                        *)
(***************************************************************************)
LEMMA TypedInit == Init => Typed
<1> SUFFICES ASSUME Init PROVE Typed
  OBVIOUS
<1> USE SalvagedAssumption, BoundsAssumption
    DEF Init, Statuses, Unfinished, Folder, Parts, Stages, Steps, Resting, NoRequest
<1>1. /\ status \in [Ids -> Statuses] /\ place \in [Ids -> Backends \cup {"none"}]
      /\ jobs \in [Ids -> Seq([state : Statuses \ {"absent"}, second : Nat])]
  BY EmptySeq
<1>2. files \in [Backends -> [Ids -> SUBSET Folder]]
  OBVIOUS
<1>3. queue \in Seq(Ids) /\ Len(queue) <= QueueCap
  OBVIOUS
<1>4. worker \in [Workers -> [at : Stages, id : Ids \cup {"none"},
                              owes : BOOLEAN, to : Backends \cup {"none"}]]
  OBVIOUS
<1>5. request \in [Requests -> [op : Ops \cup {"none"}, id : Ids \cup {"none"},
                                at : Steps, seen : Backends \cup {"none"}]]
  OBVIOUS
<1>6. /\ issued \subseteq Ids /\ served \in Nat /\ mishaps \in Nat
      /\ lost \subseteq Ids /\ disturbed \subseteq Ids /\ removed \subseteq Ids
  OBVIOUS
<1>7. BusyHasId
  BY DEF BusyHasId
<1> QED
  BY <1>1, <1>2, <1>3, <1>4, <1>5, <1>6, <1>7 DEF Typed, TypeOK

LEMMA TypedArrive ==
    ASSUME Typed, NEW r \in Requests, Arrive(r)
    PROVE  Typed'
<1> USE DEF Typed, TypeOK, BusyHasId, Begin, NoRequest, Steps, Statuses, Unfinished,
            tables, history
<1>1. ASSUME NEW d \in Ids, CreateDownload(r, d) PROVE Typed'
  BY <1>1 DEF CreateDownload
<1>2. ASSUME NEW d \in Ids, Requeue(r, d) PROVE Typed'
  BY <1>2 DEF Requeue, WithStatus
<1>3. ASSUME NEW d \in Ids, LookUp(r, d) PROVE Typed'
  <2>1. mishaps' \in Nat
    BY <1>3 DEF LookUp, Mishap
  <2>2. PICK at \in {"remove", "delrow"} : Begin(r, "delete", d, at, "none")
    BY <1>3 DEF LookUp
  <2>3. /\ served' \in Nat
        /\ request' = [request EXCEPT
                         ![r] = [op |-> "delete", id |-> d, at |-> at, seen |-> "none"]]
        /\ "delete" \in Ops
    BY <2>2
  <2>4. request' \in [Requests -> [op : Ops \cup {"none"}, id : Ids \cup {"none"},
                                   at : Steps, seen : Backends \cup {"none"}]]
    BY <2>3
  <2>5. \A q \in Requests : request'[q].at # "none" => request'[q].id \in Ids
    BY <2>3
  <2>6. UNCHANGED <<status, place, jobs, files, queue, worker, issued, lost, disturbed,
                    removed>>
    BY <1>3 DEF LookUp
  <2> QED
    BY <2>1, <2>3, <2>4, <2>5, <2>6
<1>4. ASSUME NEW d \in Ids, NEW b \in Backends, ListRoots(r, b, d) PROVE Typed'
  BY <1>4 DEF ListRoots
<1> QED
  BY <1>1, <1>2, <1>3, <1>4 DEF Arrive


\* A handler that goes on, or that replies, leaves the handlers typed.
RequestTyped ==
    /\ request \in [Requests -> [op : Ops \cup {"none"}, id : Ids \cup {"none"},
                                 at : Steps, seen : Backends \cup {"none"}]]
    /\ \A r \in Requests : request[r].at # "none" => request[r].id \in Ids

LEMMA GotoTyped ==
    ASSUME RequestTyped, NEW r \in Requests, NEW at \in Steps,
           request[r].at # "none", Goto(r, at)
    PROVE  RequestTyped'
BY DEF RequestTyped, Goto

LEMMA ReplyTyped ==
    ASSUME RequestTyped, NEW r \in Requests, Reply(r)
    PROVE  RequestTyped'
BY DEF RequestTyped, Reply, NoRequest, Steps

LEMMA TypedHandle ==
    ASSUME Typed, NEW r \in Requests, Handle(r) \/ Send(r)
    PROVE  Typed'
<1> DEFINE d == request[r].id
<1>1. RequestTyped
  BY DEF Typed, TypeOK, BusyHasId, RequestTyped
<1>2. request[r].at # "none" /\ d \in Ids
  <2>1. request[r].at \in {"job", "send", "remove", "delrow", "deljobs", "list",
                        "read", "readless", "upsert"}
    BY DEF Handle, CreateJob, JobRefused, Send, RemoveFolder, DeleteRow, DeleteRefused,
           DeleteJobs, ListFiles, ReadMetadata, UpsertRow
  <2> QED
    BY <2>1, <1>1 DEF RequestTyped
<1>3. Mishap \/ UNCHANGED mishaps => mishaps' \in Nat
  BY DEF Mishap, Typed, TypeOK
<1>4. Forsake(d) => lost' \subseteq Ids
  BY <1>2 DEF Forsake, Typed, TypeOK
<1>5. CASE CreateJob(r)
  <2>1. PICK s \in Seconds(jobs[d]) :
          jobs' = [jobs EXCEPT ![d] = Append(@, [state |-> "queued", second |-> s])]
    BY <1>5 DEF CreateJob
  <2> DEFINE rows == jobs[d]
  <2>2. rows \in Seq(JobRow)
    BY <1>2 DEF Typed, TypeOK, JobRow
  <2>3. s \in Nat
    <3>1. CASE rows = <<>>
      BY <2>1, <3>1 DEF Seconds
    <3>2. CASE rows # <<>>
      <4>1. Len(rows) \in DOMAIN rows
        BY <2>2, <3>2
      <4>2. rows[Len(rows)] \in JobRow
        BY <2>2, <4>1
      <4>3. rows[Len(rows)].second \in Nat
        BY <4>2 DEF JobRow
      <4> QED
        BY <2>1, <3>2, <4>3 DEF Seconds
    <3> QED
      BY <3>1, <3>2
  <2>4. [state |-> "queued", second |-> s] \in JobRow
    BY <2>3 DEF JobRow, Statuses, Unfinished
  <2>5. Append(rows, [state |-> "queued", second |-> s]) \in Seq(JobRow)
    BY <2>2, <2>4, AppendProperties
  <2>6. jobs' \in [Ids -> Seq(JobRow)]
    BY <2>1, <2>5 DEF Typed, TypeOK, JobRow
  <2>7. RequestTyped'
    BY <1>1, <1>2, <1>5, GotoTyped DEF CreateJob, Steps
  <2> QED
    BY <1>5, <2>6, <2>7
    DEF CreateJob, Typed, TypeOK, BusyHasId, JobRow, RequestTyped, history
<1>6. CASE JobRefused(r)
  <2>1. RequestTyped' /\ mishaps' \in Nat /\ lost' \subseteq Ids
    BY <1>1, <1>3, <1>4, <1>6, ReplyTyped DEF JobRefused
  <2> QED
    BY <1>6, <2>1 DEF JobRefused, Typed, TypeOK, BusyHasId, RequestTyped, tables
<1>7. CASE Send(r)
  <2>1. RequestTyped'
    BY <1>1, <1>7, ReplyTyped DEF Send
  <2>2. queue' \in Seq(Ids) /\ Len(queue') = Len(queue) + 1
    BY <1>2, <1>7, AppendProperties DEF Send, Typed, TypeOK
  <2>3. Len(queue') <= QueueCap
    BY <1>7, <2>2, BoundsAssumption, LenProperties DEF Send, Typed, TypeOK
  <2> QED
    BY <1>7, <2>1, <2>2, <2>3 DEF Send, Typed, TypeOK, BusyHasId, RequestTyped, tables
<1>8. CASE RemoveFolder(r)
  <2>1. RequestTyped'
    BY <1>1, <1>2, <1>8, GotoTyped DEF RemoveFolder, Steps
  <2>2. files' \in [Backends -> [Ids -> SUBSET Folder]] /\ removed' \subseteq Ids
    BY <1>2, <1>8 DEF RemoveFolder, Typed, TypeOK
  <2> QED
    BY <1>8, <2>1, <2>2 DEF RemoveFolder, Typed, TypeOK, BusyHasId, RequestTyped, tables
<1>9. CASE DeleteRow(r)
  <2>1. RequestTyped'
    BY <1>1, <1>2, <1>9, GotoTyped DEF DeleteRow, Steps
  <2>2. status' \in [Ids -> Statuses] /\ place' \in [Ids -> Backends \cup {"none"}]
    BY <1>9 DEF DeleteRow, Typed, TypeOK, Statuses
  <2> QED
    BY <1>9, <2>1, <2>2 DEF DeleteRow, Typed, TypeOK, BusyHasId, RequestTyped, history
<1>10. CASE DeleteRefused(r)
  <2>1. RequestTyped' /\ mishaps' \in Nat
    BY <1>1, <1>3, <1>10, ReplyTyped DEF DeleteRefused
  <2> QED
    BY <1>10, <2>1
    DEF DeleteRefused, Typed, TypeOK, BusyHasId, RequestTyped, tables, history
<1>11. CASE DeleteJobs(r)
  <2>1. RequestTyped' /\ mishaps' \in Nat
    BY <1>1, <1>3, <1>11, ReplyTyped DEF DeleteJobs
  <2>2. jobs' \in [Ids -> Seq(JobRow)]
    <3>1. <<>> \in Seq(JobRow) /\ jobs \in [Ids -> Seq(JobRow)]
      BY EmptySeq DEF Typed, TypeOK, JobRow
    <3>2. jobs' = [jobs EXCEPT ![d] = <<>>] \/ jobs' = jobs
      BY <1>11 DEF DeleteJobs
    <3> QED
      BY <3>1, <3>2
  <2> QED
    BY <1>11, <2>1, <2>2
    DEF DeleteJobs, Typed, TypeOK, BusyHasId, RequestTyped, JobRow, history
<1>12. CASE UpsertRow(r)
  <2>1. RequestTyped' /\ mishaps' \in Nat
    BY <1>1, <1>3, <1>12, ReplyTyped DEF UpsertRow
  <2>2. /\ status' \in [Ids -> Statuses] /\ place' \in [Ids -> Backends \cup {"none"}]
        /\ disturbed' \subseteq Ids
    BY <1>2, <1>12, <1>1 DEF UpsertRow, RequestTyped, Typed, TypeOK, Statuses
  <2> QED
    BY <1>12, <2>1, <2>2 DEF UpsertRow, Typed, TypeOK, BusyHasId, RequestTyped
<1>13. CASE ListFiles(r)
  <2>1. RequestTyped'
    <3>1. CASE Reply(r)
      BY <1>1, <3>1, ReplyTyped
    <3>2. CASE \E at \in {"read", "readless"} : Goto(r, at)
      BY <1>1, <1>2, <3>2, GotoTyped DEF Steps
    <3> QED
      BY <1>13, <3>1, <3>2 DEF ListFiles
  <2> QED
    BY <1>13, <2>1 DEF ListFiles, Typed, TypeOK, BusyHasId, RequestTyped, tables,
                       history
<1>14. CASE ReadMetadata(r)
  <2>1. RequestTyped'
    <3>1. CASE Reply(r)
      BY <1>1, <3>1, ReplyTyped
    <3>2. CASE request' = [request EXCEPT
                 ![r].at = "upsert",
                 ![r].seen = IF request[r].at = "read" THEN @ ELSE "none"]
      <4>1. /\ [request[r] EXCEPT !.at = "upsert"]
                  \in [op : Ops \cup {"none"}, id : Ids \cup {"none"},
                      at : Steps, seen : Backends \cup {"none"}]
            /\ [request[r] EXCEPT !.at = "upsert"].id = d
        BY <1>1 DEF RequestTyped, Steps
      <4>2. \/ request'[r] = [request[r] EXCEPT !.at = "upsert"]
            \/ request'[r] = [[request[r] EXCEPT !.at = "upsert"] EXCEPT !.seen = "none"]
        BY <1>1, <3>2 DEF RequestTyped
      <4>3. /\ request'[r] \in [op : Ops \cup {"none"}, id : Ids \cup {"none"},
                                at : Steps, seen : Backends \cup {"none"}]
            /\ request'[r].id = d
        BY <4>1, <4>2
      <4>4. /\ \A q \in Requests : q # r => request'[q] = request[q]
            /\ request' = [q \in Requests |-> request'[q]]
        BY <1>1, <3>2 DEF RequestTyped
      <4> QED
        BY <1>1, <1>2, <4>3, <4>4 DEF RequestTyped
    <3> QED
      BY <1>14, <3>1, <3>2 DEF ReadMetadata
  <2> QED
    BY <1>14, <2>1 DEF ReadMetadata, Typed, TypeOK, BusyHasId, RequestTyped, tables,
                       history
<1> QED
  BY <1>5, <1>6, <1>7, <1>8, <1>9, <1>10, <1>11, <1>12, <1>13, <1>14 DEF Handle

(***************************************************************************)
(* The reads of a recovery change nothing but the handler itself: it goes  *)
(* on with the same download, or replies.                                  *)
(***************************************************************************)
LEMMA RecoveryReads ==
    ASSUME Typed, NEW r \in Requests, ListFiles(r) \/ ReadMetadata(r)
    PROVE  /\ request[r].at \in {"list", "read", "readless"}
           /\ UNCHANGED <<status, place, jobs, files, queue, worker, issued, served,
                          mishaps, lost, disturbed, removed>>
           /\ request'[r].at \in {"none", "read", "readless", "upsert"}
           /\ request'[r].at # "none" => /\ request'[r].id = request[r].id
                                         /\ request'[r].op = request[r].op
           /\ \A q \in Requests \ {r} : request'[q] = request[q]
<1> DEFINE q0 == request[r]
<1>1. request \in [Requests -> [op : Ops \cup {"none"}, id : Ids \cup {"none"},
                                at : Steps, seen : Backends \cup {"none"}]]
  BY DEF Typed, TypeOK
<1>2. UNCHANGED <<status, place, jobs, files, queue, worker, issued, served,
                  mishaps, lost, disturbed, removed>>
  BY DEF ListFiles, ReadMetadata, tables, history
<1>3. request[r].at \in {"list", "read", "readless"}
  BY DEF ListFiles, ReadMetadata
<1>4. CASE ListFiles(r)
  <2>1. Reply(r) \/ \E at \in {"read", "readless"} : Goto(r, at)
    BY <1>4 DEF ListFiles
  <2> QED
    BY <1>1, <1>2, <1>3, <2>1 DEF Reply, Goto, NoRequest
<1>5. CASE ReadMetadata(r)
  <2>1. CASE Reply(r)
    BY <1>1, <1>2, <1>3, <2>1 DEF Reply, NoRequest
  <2>2. CASE request' = [request EXCEPT
               ![r].at = "upsert",
               ![r].seen = IF request[r].at = "read" THEN @ ELSE "none"]
    <3>1. /\ [q0 EXCEPT !.at = "upsert"].at = "upsert"
          /\ [q0 EXCEPT !.at = "upsert"].id = q0.id
          /\ [q0 EXCEPT !.at = "upsert"].op = q0.op
      BY <1>1
    <3>2. [q0 EXCEPT !.at = "upsert"]
              \in [op : Ops \cup {"none"}, id : Ids \cup {"none"},
                   at : Steps, seen : Backends \cup {"none"}]
      BY <1>1 DEF Steps
    <3>3. \/ request'[r] = [q0 EXCEPT !.at = "upsert"]
          \/ request'[r] = [[q0 EXCEPT !.at = "upsert"] EXCEPT !.seen = "none"]
      BY <1>1, <2>2
    <3>4. request'[r].at = "upsert" /\ request'[r].id = q0.id /\ request'[r].op = q0.op
      BY <3>1, <3>2, <3>3
    <3>5. \A q \in Requests \ {r} : request'[q] = request[q]
      BY <1>1, <2>2
    <3> QED
      BY <1>2, <1>3, <3>4, <3>5
  <2> QED
    BY <1>5, <2>1, <2>2 DEF ReadMetadata
<1> QED
  BY <1>4, <1>5

\* The same for the workers.
WorkerTyped ==
    /\ worker \in [Workers -> [at : Stages, id : Ids \cup {"none"}, owes : BOOLEAN,
                               to : Backends \cup {"none"}]]
    /\ \A w \in Workers : /\ worker[w].at # "idle" => worker[w].id \in Ids
                          /\ worker[w].owes => worker[w].at # "idle"

LEMMA MoveTyped ==
    ASSUME WorkerTyped, NEW w \in Workers, NEW at \in Stages \ {"idle"},
           worker[w].at # "idle", Move(w, at)
    PROVE  WorkerTyped'
BY DEF WorkerTyped, Move

LEMMA RestTyped ==
    ASSUME WorkerTyped, NEW w \in Workers, Rest(w)
    PROVE  WorkerTyped'
BY DEF WorkerTyped, Rest, Resting, Stages

\* What the two steps of setState, and the last statement, do to the types.
LEMMA SetStateTyped ==
    ASSUME Typed, NEW w \in Workers, NEW at \in Stages \ {"idle"}, NEW s \in Statuses,
           worker[w].at # "idle", SetState(w, at, s)
    PROVE  Typed'
<1>1. WorkerTyped'
  <2>1. WorkerTyped
    BY DEF Typed, TypeOK, BusyHasId, WorkerTyped
  <2>2. worker' = [worker EXCEPT ![w] = [worker[w] EXCEPT !.at = at, !.owes = TRUE]]
    BY DEF SetState
  <2>3. worker[w].id \in Ids
    BY <2>1 DEF WorkerTyped
  <2> QED
    BY <2>1, <2>2, <2>3 DEF WorkerTyped
<1>2. mishaps' \in Nat
  BY DEF SetState, TryStatus, Mishap, Typed, TypeOK
<1>3. status' \in [Ids -> Statuses]
  BY DEF SetState, TryStatus, WithStatus, Typed, TypeOK
<1> QED
  BY <1>1, <1>2, <1>3 DEF SetState, Typed, TypeOK, BusyHasId, WorkerTyped, history

LEMMA LastStatusTyped ==
    ASSUME Typed, NEW w \in Workers, NEW s \in Statuses,
           worker[w].at # "idle", LastStatus(w, s)
    PROVE  Typed'
<1>1. WorkerTyped'
  BY RestTyped DEF LastStatus, Typed, TypeOK, BusyHasId, WorkerTyped
<1>2. mishaps' \in Nat
  BY DEF LastStatus, Mishap, Typed, TypeOK
<1>3. lost' \subseteq Ids
  BY DEF LastStatus, Forsake, Typed, TypeOK, BusyHasId
<1>4. status' \in [Ids -> Statuses]
  BY DEF LastStatus, WithStatus, Typed, TypeOK
<1> QED
  BY <1>1, <1>2, <1>3, <1>4 DEF LastStatus, Typed, TypeOK, BusyHasId, WorkerTyped

LEMMA TypedProcess ==
    ASSUME Typed, NEW w \in Workers, Process(w) \/ ReportProgress(w)
    PROVE  Typed'
<1> DEFINE d == worker[w].id
<1>1. WorkerTyped
  BY DEF Typed, TypeOK, BusyHasId, WorkerTyped
<1>2. Mishap \/ UNCHANGED mishaps => mishaps' \in Nat
  BY DEF Mishap, Typed, TypeOK
<1>3. {"idle", "load", "loaded", "fetch", "direct", "checked", "open", "video", "thumbnail",
       "metadata", "persist", "finish", "closing", "failing"} \subseteq Stages
  BY DEF Stages, Parts
<1>4. {"downloading", "uploading", "complete", "failed"} \subseteq Statuses
  BY DEF Statuses, Unfinished
<1>5. CASE Receive(w)
  <2>1. Head(queue) \in Ids /\ queue' \in Seq(Ids) /\ Len(queue') <= QueueCap
    BY <1>5, HeadTailProperties, LenProperties, BoundsAssumption
    DEF Receive, Typed, TypeOK
  <2>2. WorkerTyped'
    BY <1>1, <1>3, <1>5, <2>1 DEF Receive, WorkerTyped, Resting
  <2> QED
    BY <1>5, <2>1, <2>2
    DEF Receive, Typed, TypeOK, BusyHasId, WorkerTyped, tables, history
<1>6. CASE Load(w)
  <2>1. WorkerTyped'
    BY <1>1, <1>3, <1>6, MoveTyped DEF Load, Ready
  <2> QED
    BY <1>6, <2>1 DEF Load, Typed, TypeOK, BusyHasId, WorkerTyped, tables, history
<1>7. CASE LoadFails(w)
  <2>1. WorkerTyped' /\ mishaps' \in Nat
    BY <1>1, <1>2, <1>7, RestTyped DEF LoadFails
  <2>2. lost' \subseteq Ids
    BY <1>7 DEF LoadFails, Ready, Forsake, Typed, TypeOK, BusyHasId
  <2> QED
    BY <1>7, <2>1, <2>2 DEF LoadFails, Typed, TypeOK, BusyHasId, WorkerTyped, tables
<1>8. CASE StartDownload(w)
  BY <1>3, <1>4, <1>8, SetStateTyped DEF StartDownload, Ready
<1>9. CASE ReportProgress(w)
  BY <1>1, <1>3, <1>4, <1>9, SetStateTyped DEF ReportProgress, Ready
<1>10. CASE StartUpload(w)
  BY <1>3, <1>4, <1>10, SetStateTyped DEF StartUpload, Ready
<1>11. CASE Finish(w)
  BY <1>3, <1>4, <1>11, SetStateTyped DEF Finish, Ready
<1>12. CASE WriteJob(w)
  <2>1. WorkerTyped' /\ mishaps' \in Nat
    BY <1>1, <1>2, <1>12 DEF WriteJob, WorkerTyped
  <2>2. jobs' \in [Ids -> Seq(JobRow)]
    BY <1>12, WriteJobType
  <2> QED
    BY <1>12, <2>1, <2>2
    DEF WriteJob, Typed, TypeOK, BusyHasId, WorkerTyped, JobRow, history
<1>13. CASE FetchEnds(w)
  <2>1. WorkerTyped'
    BY <1>1, <1>3, <1>13, MoveTyped DEF FetchEnds, Ready
  <2> QED
    BY <1>13, <2>1 DEF FetchEnds, Typed, TypeOK, BusyHasId, WorkerTyped, tables, history
<1>14. CASE OpenBackend(w)
  <2>1. WorkerTyped'
    <3>1. PICK b \in Backends :
                 worker' = [worker EXCEPT ![w] = [worker[w] EXCEPT !.at = "video", !.to = b]]
      BY <1>14 DEF OpenBackend
    <3>2. worker[w].id \in Ids /\ worker[w].at = "open"
      BY <1>1, <1>14 DEF OpenBackend, Ready, WorkerTyped
    <3> QED
      BY <1>1, <1>3, <3>1, <3>2 DEF WorkerTyped
  <2>2. files' \in [Backends -> [Ids -> SUBSET Folder]]
    <3>1. files \in [Backends -> [Ids -> SUBSET Folder]] /\ "folder" \in Folder
      BY DEF Typed, TypeOK, Folder
    <3>2. \/ files' = [files EXCEPT !["local"] =
                        [files["local"] EXCEPT ![d] = @ \cup {"folder"}]]
          \/ files' = files
      BY <1>14 DEF OpenBackend
    <3> QED
      BY <3>1, <3>2
  <2> QED
    BY <1>14, <2>1, <2>2
    DEF OpenBackend, Typed, TypeOK, BusyHasId, WorkerTyped, tables, history
<1>15. ASSUME NEW part \in Parts, StoreFile(w, part) PROVE Typed'
  <2>1. WorkerTyped'
    BY <1>1, <1>3, <1>15, MoveTyped DEF StoreFile, Ready, AfterStore, Parts
  <2>2. files' \in [Backends -> [Ids -> SUBSET Folder]]
    <3> DEFINE b == worker[w].to
    <3>1. files \in [Backends -> [Ids -> SUBSET Folder]] /\ part \in Folder
      BY DEF Typed, TypeOK, Folder
    <3>2. files' = [files EXCEPT ![b] = [files[b] EXCEPT ![d] = @ \cup {part}]]
      BY <1>15 DEF StoreFile
    <3> QED
      BY <3>1, <3>2
  <2> QED
    BY <1>15, <2>1, <2>2
    DEF StoreFile, Typed, TypeOK, BusyHasId, WorkerTyped, tables, history
<1>16. CASE StoreFails(w)
  <2>1. WorkerTyped'
    BY <1>1, <1>3, <1>16, MoveTyped DEF StoreFails, Ready, Parts
  <2> QED
    BY <1>16, <2>1 DEF StoreFails, Typed, TypeOK, BusyHasId, WorkerTyped, tables, history
<1>17. CASE Persist(w)
  <2>1. WorkerTyped' /\ mishaps' \in Nat
    BY <1>1, <1>2, <1>3, <1>17, MoveTyped DEF Persist, Ready
  <2>2. place' \in [Ids -> Backends \cup {"none"}]
    BY <1>1, <1>17 DEF Persist, PlaceOf, Ready, Typed, TypeOK, WorkerTyped
  <2> QED
    BY <1>17, <2>1, <2>2 DEF Persist, Typed, TypeOK, BusyHasId, WorkerTyped, history
<1>18. CASE Close(w)
  BY <1>4, <1>18, LastStatusTyped DEF Close, Ready
<1>19. CASE Fail(w)
  BY <1>4, <1>19, LastStatusTyped DEF Fail, Ready
<1> QED
  BY <1>5, <1>6, <1>7, <1>8, <1>9, <1>10, <1>11, <1>12, <1>13, <1>14, <1>15, <1>16,
     <1>17, <1>18, <1>19 DEF Process

LEMMA TypedNext == Typed /\ [Next]_vars => Typed'
<1> SUFFICES ASSUME Typed, [Next]_vars PROVE Typed'
  OBVIOUS
<1>1. ASSUME NEW r \in Requests, Arrive(r) \/ Handle(r) \/ Send(r) PROVE Typed'
  BY <1>1, TypedArrive, TypedHandle
<1>2. ASSUME NEW w \in Workers, Process(w) \/ ReportProgress(w) PROVE Typed'
  BY <1>2, TypedProcess
<1>3. CASE Crash
  <2>1. mishaps' \in Nat
    BY <1>3 DEF Crash, Mishap, Typed, TypeOK
  <2>2. RequestTyped' /\ WorkerTyped'
    BY <1>3 DEF Crash, RequestTyped, WorkerTyped, Resting, NoRequest, Stages, Steps
  <2>3. queue' \in Seq(Ids) /\ Len(queue') <= QueueCap
    BY <1>3, BoundsAssumption DEF Crash
  <2>4. lost' \subseteq Ids
    BY <1>3 DEF Crash, Typed, TypeOK
  <2> QED
    BY <1>3, <2>1, <2>2, <2>3, <2>4
    DEF Crash, Typed, TypeOK, BusyHasId, RequestTyped, WorkerTyped, tables
<1>4. CASE UNCHANGED vars
  BY <1>4 DEF vars, Typed, TypeOK, BusyHasId
<1> QED
  BY <1>1, <1>2, <1>3, <1>4 DEF Next

(***************************************************************************)
(* TypeOK holds of every behaviour of the pipeline.                        *)
(***************************************************************************)
THEOREM TypeCorrect == Spec => []TypeOK
<1>1. Init => Typed
  BY TypedInit
<1>2. Typed /\ [Next]_vars => Typed'
  BY TypedNext
<1>3. Typed => TypeOK
  BY DEF Typed
<1> QED
  BY <1>1, <1>2, <1>3, PTL DEF Spec

-----------------------------------------------------------------------------
(***************************************************************************)
(* Who is in flight after a step of one handler, or of one worker: all     *)
(* those who were, but perhaps the download that goroutine works on.       *)
(***************************************************************************)
LEMMA InFlightHandler ==
    ASSUME NEW r \in Requests, NEW e \in Ids, UNCHANGED <<queue, worker>>,
           \A q \in Requests \ {r} : request'[q] = request[q],
           InFlight(e), ~Submits(r, e) \/ Submits(r, e)'
    PROVE  InFlight(e)'
<1>1. Queued(e)' <=> Queued(e)
  BY DEF Queued
<1>2. \A w \in Workers : Holds(w, e)' <=> Holds(w, e)
  BY DEF Holds
<1>3. \A q \in Requests \ {r} : Submits(q, e)' <=> Submits(q, e)
  BY DEF Submits
<1> QED
  BY <1>1, <1>2, <1>3 DEF InFlight

LEMMA InFlightWorker ==
    ASSUME NEW w \in Workers, NEW e \in Ids, UNCHANGED <<queue, request>>,
           \A v \in Workers \ {w} : worker'[v] = worker[v],
           InFlight(e), ~Holds(w, e) \/ Holds(w, e)'
    PROVE  InFlight(e)'
<1>1. Queued(e)' <=> Queued(e)
  BY DEF Queued
<1>2. \A v \in Workers \ {w} : Holds(v, e)' <=> Holds(v, e)
  BY DEF Holds
<1>3. \A q \in Requests : Submits(q, e)' <=> Submits(q, e)
  BY DEF Submits
<1> QED
  BY <1>1, <1>2, <1>3 DEF InFlight

(***************************************************************************)
(* UnfinishedIsInFlight is inductive relative to Typed.  The proof of each *)
(* lemma takes an unfinished download e that no mishap touched and shows   *)
(* that it is in flight after the step.                                    *)
(***************************************************************************)
LEMMA InFlightArrive ==
    ASSUME Typed, UnfinishedIsInFlight, NEW r \in Requests, Arrive(r)
    PROVE  UnfinishedIsInFlight'
<1> SUFFICES ASSUME NEW e \in Ids, status'[e] \in Unfinished, e \notin lost'
             PROVE  InFlight(e)'
  BY DEF UnfinishedIsInFlight
<1>1. /\ UNCHANGED <<queue, worker, lost>>
      /\ \A q \in Requests \ {r} : request'[q] = request[q]
      /\ request[r].at = "none"
  BY DEF Arrive, CreateDownload, Requeue, LookUp, ListRoots, Begin, NoRequest,
         Typed, TypeOK, history
<1>2. ~Submits(r, e)
  BY <1>1 DEF Submits
<1>3. CASE status[e] \in Unfinished
  <2>1. InFlight(e)
    BY <1>1, <1>3 DEF UnfinishedIsInFlight
  <2> QED
    BY <1>1, <1>2, <2>1, InFlightHandler
<1>4. CASE status[e] \notin Unfinished
  <2>1. CreateDownload(r, e) \/ Requeue(r, e)
    BY <1>4 DEF Arrive, CreateDownload, Requeue, LookUp, ListRoots, WithStatus,
                tables, Typed, TypeOK
  <2>2. Submits(r, e)'
    BY <2>1 DEF CreateDownload, Requeue, Begin, Submits, Typed, TypeOK
  <2> QED
    BY <2>2 DEF InFlight
<1> QED
  BY <1>3, <1>4

LEMMA InFlightHandle ==
    ASSUME Typed, UnfinishedIsInFlight, NEW r \in Requests, Handle(r)
    PROVE  UnfinishedIsInFlight'
<1> SUFFICES ASSUME NEW e \in Ids, status'[e] \in Unfinished, e \notin lost'
             PROVE  InFlight(e)'
  BY DEF UnfinishedIsInFlight
<1> USE DEF Typed, TypeOK
<1>1. /\ UNCHANGED <<queue, worker>>
      /\ \A q \in Requests \ {r} : request'[q] = request[q]
  BY DEF Handle, CreateJob, JobRefused, RemoveFolder, DeleteRow, DeleteRefused,
         DeleteJobs, ListFiles, ReadMetadata, UpsertRow, Goto, Reply
<1>2. status[e] \in Unfinished
  BY DEF Handle, CreateJob, JobRefused, RemoveFolder, DeleteRow, DeleteRefused,
         DeleteJobs, ListFiles, ReadMetadata, UpsertRow, tables, Unfinished
<1>3. CASE JobRefused(r)
  <2>1. e # request[r].id /\ e \notin lost
    BY <1>2, <1>3 DEF JobRefused, Forsake
  <2>2. InFlight(e) /\ ~Submits(r, e)
    BY <1>2, <2>1 DEF UnfinishedIsInFlight, Submits
  <2> QED
    BY <1>1, <2>2, InFlightHandler
<1>4. CASE ~JobRefused(r)
  <2>1. e \notin lost
    BY <1>4 DEF Handle, CreateJob, RemoveFolder, DeleteRow, DeleteRefused,
                DeleteJobs, ListFiles, ReadMetadata, UpsertRow, history
  <2>2. InFlight(e)
    BY <1>2, <2>1 DEF UnfinishedIsInFlight
  <2>3. ~Submits(r, e) \/ Submits(r, e)'
    <3>1. CASE CreateJob(r)
      BY <3>1 DEF CreateJob, Goto, Submits
    <3>2. CASE ~CreateJob(r)
      <4>1. request[r].at \notin {"job", "send"}
        BY <1>4, <3>2 DEF Handle, RemoveFolder, DeleteRow, DeleteRefused, DeleteJobs, ListFiles, ReadMetadata,
                          UpsertRow
      <4> QED
        BY <4>1 DEF Submits
    <3> QED
      BY <3>1, <3>2
  <2> QED
    BY <1>1, <2>2, <2>3, InFlightHandler
<1> QED
  BY <1>3, <1>4

\* The channel takes over what the sender held.
LEMMA InFlightSend ==
    ASSUME Typed, UnfinishedIsInFlight, NEW r \in Requests, Send(r)
    PROVE  UnfinishedIsInFlight'
<1> SUFFICES ASSUME NEW e \in Ids, status'[e] \in Unfinished, e \notin lost'
             PROVE  InFlight(e)'
  BY DEF UnfinishedIsInFlight
<1> DEFINE d == request[r].id
<1>1. /\ queue \in Seq(Ids) /\ d \in Ids /\ queue' = Append(queue, d)
      /\ status' = status /\ lost' = lost \ {d} /\ worker' = worker
      /\ \A q \in Requests \ {r} : request'[q] = request[q]
  BY DEF Send, Typed, TypeOK, BusyHasId, Reply, tables
<1>2. /\ \A i \in DOMAIN queue : i \in DOMAIN queue' /\ queue'[i] = queue[i]
      /\ Len(queue) + 1 \in DOMAIN queue' /\ queue'[Len(queue) + 1] = d
  BY <1>1, AppendProperties, LenProperties
<1>3. CASE e = d
  BY <1>2, <1>3 DEF InFlight, Queued
<1>4. CASE e # d
  <2>1. InFlight(e) /\ ~Submits(r, e)
    BY <1>1, <1>4 DEF UnfinishedIsInFlight, Submits
  <2>2. CASE Queued(e)
    BY <1>2, <2>2 DEF InFlight, Queued
  <2>3. CASE \E w \in Workers : Holds(w, e)
    BY <1>1, <2>3 DEF InFlight, Holds
  <2>4. CASE \E q \in Requests \ {r} : Submits(q, e)
    BY <1>1, <2>4 DEF InFlight, Submits
  <2> QED
    BY <2>1, <2>2, <2>3, <2>4 DEF InFlight
<1> QED
  BY <1>3, <1>4

\* A worker takes over what the channel held.
LEMMA InFlightReceive ==
    ASSUME Typed, UnfinishedIsInFlight, NEW w \in Workers, Receive(w)
    PROVE  UnfinishedIsInFlight'
<1> SUFFICES ASSUME NEW e \in Ids, status'[e] \in Unfinished, e \notin lost'
             PROVE  InFlight(e)'
  BY DEF UnfinishedIsInFlight
<1>1. /\ queue \in Seq(Ids) /\ queue # <<>> /\ queue' = Tail(queue)
      /\ status' = status /\ lost' = lost /\ request' = request
      /\ worker[w].at = "idle"
      /\ worker'[w].at = "load" /\ worker'[w].id = Head(queue)
      /\ \A v \in Workers \ {w} : worker'[v] = worker[v]
  BY DEF Receive, Typed, TypeOK, Resting, tables, history
<1>2. InFlight(e)
  BY <1>1 DEF UnfinishedIsInFlight
<1>3. CASE Queued(e)
  <2>1. PICK i \in DOMAIN queue : queue[i] = e
    BY <1>3 DEF Queued
  <2>2. CASE i = 1
    BY <1>1, <2>1, <2>2, HeadTailProperties DEF InFlight, Holds
  <2>3. CASE i # 1
    <3>1. i - 1 \in DOMAIN queue' /\ queue'[i - 1] = queue[i]
      BY <1>1, <2>1, <2>3, HeadTailProperties, LenProperties
    <3> QED
      BY <2>1, <3>1 DEF InFlight, Queued
  <2> QED
    BY <2>2, <2>3
<1>4. CASE \E v \in Workers : Holds(v, e)
  BY <1>1, <1>4 DEF InFlight, Holds
<1>5. CASE \E q \in Requests : Submits(q, e)
  BY <1>1, <1>5 DEF InFlight, Submits
<1> QED
  BY <1>2, <1>3, <1>4, <1>5 DEF InFlight

\* A worker lets go of its download only when the row is finished, is gone,
\* or has been forsaken; meanwhile it writes no other row.
LEMMA InFlightProcess ==
    ASSUME Typed, UnfinishedIsInFlight, NEW w \in Workers,
           Process(w) \/ ReportProgress(w), ~Receive(w)
    PROVE  UnfinishedIsInFlight'
<1> SUFFICES ASSUME NEW e \in Ids, status'[e] \in Unfinished, e \notin lost'
             PROVE  InFlight(e)'
  BY DEF UnfinishedIsInFlight
<1> DEFINE d == worker[w].id
<1>1. /\ worker \in [Workers -> [at : Stages, id : Ids \cup {"none"}, owes : BOOLEAN,
                                 to : Backends \cup {"none"}]]
      /\ status \in [Ids -> Statuses]
  BY DEF Typed, TypeOK
<1>2. worker[w].at # "idle" /\ d \in Ids
  <2>1. worker[w].at # "idle"
    BY DEF Process, ReportProgress, Load, LoadFails, StartDownload, WriteJob, FetchEnds,
           StartUpload, OpenBackend, StoreFile, StoreFails, Persist, Finish, Close, Fail,
           Ready, Parts, Typed, BusyHasId
  <2> QED
    BY <2>1 DEF Typed, BusyHasId
<1>3. UNCHANGED <<queue, request>>
  BY DEF Process, ReportProgress, Load, LoadFails, StartDownload, WriteJob, FetchEnds,
         StartUpload, OpenBackend, StoreFile, StoreFails, Persist, Finish, Close, Fail,
         SetState, LastStatus
<1>4. \A v \in Workers \ {w} : worker'[v] = worker[v]
  BY <1>1 DEF Process, ReportProgress, Load, LoadFails, StartDownload, WriteJob, FetchEnds,
         StartUpload, OpenBackend, StoreFile, StoreFails, Persist, Finish, Close, Fail,
         SetState, LastStatus, Move, Rest
<1>5. CASE worker'[w].at # "idle" /\ worker'[w].id = d
  <2>1. e # d => status'[e] = status[e]
    BY <1>1 DEF Process, ReportProgress, Load, LoadFails, StartDownload, WriteJob,
         FetchEnds, StartUpload, OpenBackend, StoreFile, StoreFails, Persist, Finish, Close,
         Fail, SetState, LastStatus, TryStatus, WithStatus, tables
  <2>2. e # d => e \notin lost
    BY DEF Process, ReportProgress, Load, LoadFails, StartDownload, WriteJob, FetchEnds,
         StartUpload, OpenBackend, StoreFile, StoreFails, Persist, Finish, Close, Fail,
         SetState, LastStatus, Forsake, history
  <2>3. CASE e = d
    BY <1>5, <2>3 DEF InFlight, Holds
  <2>4. CASE e # d
    <3>1. InFlight(e) /\ ~Holds(w, e)
      BY <2>1, <2>2, <2>4 DEF UnfinishedIsInFlight, Holds
    <3> QED
      BY <1>3, <1>4, <3>1, InFlightWorker
  <2> QED
    BY <2>3, <2>4
<1>6. CASE ~(worker'[w].at # "idle" /\ worker'[w].id = d)
  <2>1. LoadFails(w) \/ Close(w) \/ Fail(w)
    BY <1>1, <1>2, <1>6 DEF Process, ReportProgress, Load, StartDownload, WriteJob,
         FetchEnds, StartUpload, OpenBackend, StoreFile, StoreFails, Persist, Finish,
         SetState, Move, AfterStore, Parts
  <2>2. /\ e # d => status'[e] = status[e] /\ e \notin lost
        /\ e = d => status'[e] \notin Unfinished \/ e \in lost'
    BY <1>1, <1>2, <2>1 DEF LoadFails, Close, Fail, LastStatus, Forsake, WithStatus,
         Unfinished, tables
  <2>3. e # d /\ InFlight(e) /\ ~Holds(w, e)
    BY <2>2 DEF UnfinishedIsInFlight, Holds
  <2> QED
    BY <1>3, <1>4, <2>3, InFlightWorker
<1> QED
  BY <1>5, <1>6

(***************************************************************************)
(* No unfinished download is forgotten, for any number of downloads,       *)
(* workers, handlers and requests: what a handler accepts stays in the     *)
(* channel or in a worker's hands until its row is finished, save for the  *)
(* downloads whose attempt a crash or an SQL error cut short.              *)
(***************************************************************************)
THEOREM NothingForgotten == Spec => []UnfinishedIsInFlight
<1> DEFINE Inv == Typed /\ UnfinishedIsInFlight
<1>1. Init => Inv
  <2>1. Init => UnfinishedIsInFlight
    BY DEF Init, UnfinishedIsInFlight, Unfinished
  <2> QED
    BY <2>1, TypedInit
<1>2. Inv /\ [Next]_vars => Inv'
  <2> SUFFICES ASSUME Inv, [Next]_vars PROVE UnfinishedIsInFlight'
    BY TypedNext
  <2>1. ASSUME NEW r \in Requests, Arrive(r) \/ Handle(r) \/ Send(r)
        PROVE  UnfinishedIsInFlight'
    BY <2>1, InFlightArrive, InFlightHandle, InFlightSend
  <2>2. ASSUME NEW w \in Workers, Process(w) \/ ReportProgress(w)
        PROVE  UnfinishedIsInFlight'
    BY <2>2, InFlightReceive, InFlightProcess
  <2>3. CASE Crash
    BY <2>3 DEF Crash, tables, UnfinishedIsInFlight
  <2>4. CASE UNCHANGED vars
    BY <2>4 DEF vars, UnfinishedIsInFlight, InFlight, Queued, Holds, Submits
  <2> QED
    BY <2>1, <2>2, <2>3, <2>4 DEF Next
<1> QED
  BY <1>1, <1>2, PTL DEF Spec
-----------------------------------------------------------------------------
(***************************************************************************)
(* What keeps the row of an accepted download in place while no recovery   *)
(* runs.  Job rows need their download row, always; the id of a download   *)
(* is never handed out twice; and a delete request that has removed a      *)
(* download row finds no job row left to remove.                           *)
(***************************************************************************)
JobsNeedRow == \A d \in Ids : jobs[d] # <<>> => Row(d)

IssuedOnly ==
    /\ \A d \in Ids : Row(d) => d \in issued
    /\ \A r \in Requests : request[r].at # "none" => request[r].id \in issued

DeletedIsGone ==
    \A r \in Requests : /\ request[r].at = "deljobs" => ~Row(request[r].id)
                        /\ request[r].at \notin {"list", "read", "readless", "upsert"}

AcceptedHasJob == \A d \in Ids : Accepted(d) => jobs[d] # <<>>

RowInv == Typed /\ JobsNeedRow /\ IssuedOnly /\ DeletedIsGone /\ AcceptedHasJob

LEMMA RowArrive ==
    ASSUME RowInv, "recover" \notin Ops, NEW r \in Requests, Arrive(r)
    PROVE  RowInv'
<1> USE DEF RowInv
<1>1. Typed'
  BY TypedArrive
<1>2. PICK d \in Ids : CreateDownload(r, d) \/ Requeue(r, d) \/ LookUp(r, d)
  BY DEF Arrive, ListRoots, Begin
<1>3. /\ UNCHANGED <<queue, worker, jobs>>
      /\ \A q \in Requests \ {r} : request'[q] = request[q]
      /\ request'[r].id = d /\ request'[r].at \in {"job", "remove", "delrow"}
  BY <1>2 DEF CreateDownload, Requeue, LookUp, Begin, tables, Typed, TypeOK
<1>4. /\ issued \subseteq issued' /\ d \in issued'
      /\ \A e \in Ids : /\ Row(e) => Row(e)'
                        /\ e \in issued => (Row(e)' <=> Row(e))
                        /\ Row(e)' /\ ~Row(e) => e = d
  BY <1>2 DEF CreateDownload, Requeue, LookUp, WithStatus, Row, tables, Typed, TypeOK
<1>5. JobsNeedRow'
  BY <1>3, <1>4 DEF JobsNeedRow
<1>6. IssuedOnly'
  BY <1>3, <1>4 DEF IssuedOnly
<1>7. DeletedIsGone'
  <2>1. ASSUME NEW q \in Requests \ {r}, request'[q].at = "deljobs"
        PROVE  ~Row(request[q].id)'
    <3>1. /\ request[q].at = "deljobs" /\ request[q].id \in Ids
          /\ request[q].id \in issued /\ ~Row(request[q].id)
      BY <1>3, <2>1 DEF DeletedIsGone, IssuedOnly, Typed, BusyHasId
    <3> QED
      BY <1>3, <1>4, <3>1
  <2>2. \A q \in Requests : request'[q].at \notin {"list", "read", "readless", "upsert"}
    BY <1>3 DEF DeletedIsGone
  <2> QED
    BY <1>3, <2>1, <2>2 DEF DeletedIsGone
<1>8. AcceptedHasJob'
  BY <1>3 DEF AcceptedHasJob, Accepted, Queued, Holds
<1> QED
  BY <1>1, <1>5, <1>6, <1>7, <1>8

LEMMA RowHandle ==
    ASSUME RowInv, NEW r \in Requests, Handle(r)
    PROVE  RowInv'
<1> USE DEF RowInv
<1> DEFINE d == request[r].id
<1>1. Typed'
  BY TypedHandle
<1>2. /\ UNCHANGED <<queue, worker, issued>> /\ d \in Ids /\ d \in issued
      /\ \A q \in Requests \ {r} : request'[q] = request[q]
      /\ request[r].at # "none"
      /\ ~UpsertRow(r) /\ ~ListFiles(r) /\ ~ReadMetadata(r)
  <2>1. /\ request[r].at \in {"job", "remove", "delrow", "deljobs"}
        /\ ~UpsertRow(r) /\ ~ListFiles(r) /\ ~ReadMetadata(r)
    BY DEF Handle, CreateJob, JobRefused, RemoveFolder, DeleteRow, DeleteRefused,
           DeleteJobs, ListFiles, ReadMetadata, UpsertRow, DeletedIsGone
  <2>2. d \in Ids /\ d \in issued
    BY <2>1 DEF IssuedOnly, Typed, BusyHasId
  <2> QED
    BY <2>1, <2>2 DEF Handle, CreateJob, JobRefused, RemoveFolder, DeleteRow,
           DeleteRefused, DeleteJobs, Goto, Reply, Typed, TypeOK
<1>3. IssuedOnly'
  <2>1. \A e \in Ids : Row(e)' => Row(e)
    BY <1>2 DEF Handle, CreateJob, JobRefused, RemoveFolder, DeleteRow, DeleteRefused,
                DeleteJobs, Row, tables, Typed, TypeOK
  <2>2. request'[r].id = d \/ request'[r].at = "none"
    BY <1>2 DEF Handle, CreateJob, JobRefused, RemoveFolder, DeleteRow, DeleteRefused,
                DeleteJobs, Goto, Reply, NoRequest, Typed, TypeOK
  <2> QED
    BY <1>2, <2>1, <2>2 DEF IssuedOnly
<1>4. CASE CreateJob(r)
  <2>1. /\ UNCHANGED status /\ Row(d) /\ request'[r].at = "send" /\ request'[r].id = d
        /\ \A e \in Ids \ {d} : jobs'[e] = jobs[e]
        /\ jobs'[d] # <<>>
    <3>1. PICK s \in Seconds(jobs[d]) :
            jobs' = [jobs EXCEPT ![d] = Append(@, [state |-> "queued", second |-> s])]
      BY <1>4 DEF CreateJob
    <3>2. jobs \in [Ids -> Seq(JobRow)]
      BY DEF Typed, TypeOK, JobRow
    <3>3. jobs'[d] # <<>>
      <4> DEFINE rows == jobs[d]
      <4>1. rows \in Seq(JobRow) /\ jobs'[d] = Append(rows, [state |-> "queued", second |-> s])
        BY <1>2, <3>1, <3>2
      <4>2. Append(rows, [state |-> "queued", second |-> s]) # <<>>
        BY <4>1
      <4> QED
        BY <4>1, <4>2
    <3> QED
      BY <1>2, <1>4, <3>1, <3>2, <3>3 DEF CreateJob, Goto, Row, Typed, TypeOK
  <2>2. JobsNeedRow'
    BY <2>1 DEF JobsNeedRow, Row
  <2>3. DeletedIsGone'
    BY <1>2, <2>1 DEF DeletedIsGone, Row
  <2>4. AcceptedHasJob'
    BY <1>2, <2>1 DEF AcceptedHasJob, Accepted, Queued, Holds
  <2> QED
    BY <1>1, <1>3, <2>2, <2>3, <2>4
<1>5. CASE DeleteRow(r)
  <2>1. /\ UNCHANGED jobs /\ jobs[d] = <<>> /\ ~Row(d)'
        /\ request'[r].at = "deljobs" /\ request'[r].id = d
        /\ \A e \in Ids \ {d} : Row(e)' <=> Row(e)
    BY <1>2, <1>5 DEF DeleteRow, Goto, Row, Typed, TypeOK
  <2>2. JobsNeedRow'
    BY <2>1 DEF JobsNeedRow
  <2>3. DeletedIsGone'
    <3>1. ASSUME NEW q \in Requests \ {r}, request'[q].at = "deljobs"
          PROVE  ~Row(request[q].id)'
      BY <1>2, <2>1, <3>1 DEF DeletedIsGone, Typed, BusyHasId
    <3> QED
      BY <1>2, <2>1, <3>1 DEF DeletedIsGone
  <2>4. AcceptedHasJob'
    BY <1>2, <2>1 DEF AcceptedHasJob, Accepted, Queued, Holds
  <2> QED
    BY <1>1, <1>3, <2>2, <2>3, <2>4
<1>6. CASE DeleteJobs(r)
  <2>1. jobs[d] = <<>>
    BY <1>2, <1>6 DEF DeleteJobs, DeletedIsGone, JobsNeedRow
  <2>2. UNCHANGED <<status, jobs>> /\ request'[r].at = "none"
    BY <1>2, <1>6, <2>1 DEF DeleteJobs, Reply, NoRequest, Typed, TypeOK
  <2> QED
    BY <1>1, <1>2, <1>3, <2>2
    DEF JobsNeedRow, DeletedIsGone, AcceptedHasJob, Accepted, Queued, Holds, Row
<1>7. CASE JobRefused(r) \/ RemoveFolder(r) \/ DeleteRefused(r)
  <2>1. UNCHANGED <<status, jobs>> /\ request'[r].at \in {"none", "delrow"}
    BY <1>7 DEF JobRefused, RemoveFolder, DeleteRefused, Goto, Reply, NoRequest,
                tables, Typed, TypeOK
  <2> QED
    BY <1>1, <1>2, <1>3, <2>1
    DEF JobsNeedRow, DeletedIsGone, AcceptedHasJob, Accepted, Queued, Holds, Row
<1> QED
  BY <1>2, <1>4, <1>5, <1>6, <1>7 DEF Handle

LEMMA RowSend ==
    ASSUME RowInv, NEW r \in Requests, Send(r)
    PROVE  RowInv'
<1> USE DEF RowInv
<1> DEFINE d == request[r].id
<1>1. Typed'
  BY TypedHandle
<1>2. /\ UNCHANGED <<status, jobs, issued, worker>> /\ queue \in Seq(Ids)
      /\ d \in Ids /\ queue' = Append(queue, d)
      /\ request'[r].at = "none" /\ request[r].at = "send"
      /\ \A q \in Requests \ {r} : request'[q] = request[q]
  BY DEF Send, Reply, NoRequest, tables, Typed, TypeOK, BusyHasId
<1>3. \A e \in Ids : Queued(e)' => Queued(e) \/ e = d
  BY <1>2, AppendProperties, LenProperties DEF Queued
<1>4. \A e \in Ids : Accepted(e)' => Accepted(e)
  BY <1>2, <1>3 DEF Accepted, Holds
<1> QED
  BY <1>1, <1>2, <1>4 DEF JobsNeedRow, IssuedOnly, DeletedIsGone, AcceptedHasJob, Row

LEMMA RowProcess ==
    ASSUME RowInv, NEW w \in Workers, Process(w) \/ ReportProgress(w)
    PROVE  RowInv'
<1> USE DEF RowInv
<1>1. Typed'
  BY TypedProcess
<1>2. UNCHANGED <<request, issued>>
  BY DEF Process, ReportProgress, Receive, Load, LoadFails, StartDownload, WriteJob,
         FetchEnds, StartUpload, OpenBackend, StoreFile, StoreFails, Persist, Finish, Close,
         Fail, SetState, LastStatus
<1>3. \A e \in Ids : Row(e)' <=> Row(e)
  <2>1. UNCHANGED status \/ \E s \in {"downloading", "uploading", "complete", "failed"} :
                               status' = WithStatus(worker[w].id, s)
    BY DEF Process, ReportProgress, Receive, Load, LoadFails, StartDownload, WriteJob,
         FetchEnds, StartUpload, OpenBackend, StoreFile, StoreFails, Persist, Finish, Close,
         Fail, SetState, LastStatus, TryStatus, tables
  <2> QED
    BY <2>1 DEF WithStatus, Row, Typed, TypeOK
<1>4. \A e \in Ids : jobs'[e] = <<>> <=> jobs[e] = <<>>
  <2>1. WriteJob(w) \/ UNCHANGED jobs
    BY DEF Process, ReportProgress, Receive, Load, LoadFails, StartDownload,
         FetchEnds, StartUpload, OpenBackend, StoreFile, StoreFails, Persist, Finish, Close,
         Fail, SetState, LastStatus, tables
  <2> QED
    BY <2>1, WriteJobType
<1>5. \A e \in Ids : Accepted(e)' => Accepted(e)
  <2>1. CASE Receive(w)
    <3>1. /\ queue \in Seq(Ids) /\ queue # <<>> /\ queue' = Tail(queue)
          /\ worker'[w].id = Head(queue)
          /\ \A v \in Workers \ {w} : worker'[v] = worker[v]
      BY <2>1 DEF Receive, Resting, Typed, TypeOK
    <3>2. \A i \in DOMAIN queue' : i + 1 \in DOMAIN queue /\ queue[i + 1] = queue'[i]
      BY <3>1, HeadTailProperties, LenProperties
    <3>3. 1 \in DOMAIN queue /\ queue[1] = Head(queue)
      BY <3>1, HeadTailProperties, LenProperties
    <3>4. ASSUME NEW e \in Ids, Queued(e)' PROVE Queued(e)
      BY <3>2, <3>4 DEF Queued
    <3>5. ASSUME NEW e \in Ids, Holds(w, e)' PROVE Queued(e)
      BY <3>1, <3>3, <3>5 DEF Queued, Holds
    <3> QED
      BY <1>2, <3>1, <3>4, <3>5 DEF Accepted, Holds
  <2>2. CASE ~Receive(w)
    <3>1. UNCHANGED queue
      BY <2>2 DEF Process, ReportProgress, Load, LoadFails, StartDownload, WriteJob,
         FetchEnds, StartUpload, OpenBackend, StoreFile, StoreFails, Persist, Finish, Close,
         Fail, SetState, LastStatus
    <3>2. worker[w].at # "idle" /\ (worker'[w].at = "idle" \/ worker'[w].id = worker[w].id)
      BY <2>2 DEF Process, ReportProgress, Load, LoadFails, StartDownload, WriteJob,
         FetchEnds, StartUpload, OpenBackend, StoreFile, StoreFails, Persist, Finish, Close,
         Fail, SetState, LastStatus, Move, Rest, Resting, Ready, Parts, AfterStore,
         Typed, TypeOK, BusyHasId
    <3>3. \A v \in Workers \ {w} : worker'[v] = worker[v]
      BY <2>2 DEF Process, ReportProgress, Load, LoadFails, StartDownload, WriteJob,
         FetchEnds, StartUpload, OpenBackend, StoreFile, StoreFails, Persist, Finish, Close,
         Fail, SetState, LastStatus, Move, Rest, Typed, TypeOK
    <3> QED
      BY <1>2, <3>1, <3>2, <3>3 DEF Accepted, Queued, Holds
  <2> QED
    BY <2>1, <2>2
<1> QED
  BY <1>1, <1>2, <1>3, <1>4, <1>5
  DEF JobsNeedRow, IssuedOnly, DeletedIsGone, AcceptedHasJob, Typed, BusyHasId

(***************************************************************************)
(* Without a concurrent recovery, a delete request never takes the row, or *)
(* the job row, of a download that the channel or a worker holds.          *)
(***************************************************************************)
THEOREM AcceptedKeepsRow == Spec => []AcceptedHasRow
<1>1. CASE "recover" \in Ops
  <2>1. AcceptedHasRow
    BY <1>1 DEF AcceptedHasRow
  <2> QED
    BY <2>1, PTL
<1>2. CASE "recover" \notin Ops
  <2>1. Init => RowInv
    BY TypedInit, SalvagedAssumption
    DEF Init, RowInv, JobsNeedRow, IssuedOnly, DeletedIsGone, AcceptedHasJob, Accepted,
        Queued, Holds, Row, NoRequest, Resting
  <2>2. RowInv /\ [Next]_vars => RowInv'
    <3> SUFFICES ASSUME RowInv, [Next]_vars PROVE RowInv'
      OBVIOUS
    <3>1. ASSUME NEW r \in Requests, Arrive(r) \/ Handle(r) \/ Send(r) PROVE RowInv'
      BY <1>2, <3>1, RowArrive, RowHandle, RowSend
    <3>2. ASSUME NEW w \in Workers, Process(w) \/ ReportProgress(w) PROVE RowInv'
      BY <3>2, RowProcess
    <3>3. CASE Crash
      <4>1. Typed'
        BY TypedNext DEF RowInv
      <4> QED
        BY <3>3, <4>1
        DEF Crash, RowInv, JobsNeedRow, IssuedOnly, DeletedIsGone, AcceptedHasJob,
            Accepted, Queued, Holds, Row, NoRequest, Resting, tables
    <3>4. CASE UNCHANGED vars
      BY <3>4, TypedNext
      DEF vars, RowInv, JobsNeedRow, IssuedOnly, DeletedIsGone, AcceptedHasJob, Accepted,
          Queued, Holds, Row
    <3> QED
      BY <3>1, <3>2, <3>3, <3>4 DEF Next
  <2>3. RowInv => AcceptedHasRow
    BY DEF RowInv, AcceptedHasRow, AcceptedHasJob, JobsNeedRow
  <2> QED
    BY <2>1, <2>2, <2>3, PTL DEF Spec
<1> QED
  BY <1>1, <1>2
=============================================================================

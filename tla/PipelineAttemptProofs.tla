------------------------ MODULE PipelineAttemptProofs -----------------------
(***************************************************************************)
(* Proofs about one attempt from its acceptance to its end: the statuses   *)
(* and the job row it leaves behind, and the abstract queue that the job   *)
(* manager implements.                                                     *)
(***************************************************************************)
EXTENDS PipelineStoreProofs, FiniteSetTheorems, FunctionTheorems

(***************************************************************************)
(* A download that nothing disturbs has one attempt at most: in one place  *)
(* of the channel, in one worker's hands or in one handler's.              *)
(***************************************************************************)
Sole(d) ==
    /\ \A i, j \in DOMAIN queue : queue[i] = d /\ queue[j] = d => i = j
    /\ \A v, w \in Workers : Holds(v, d) /\ Holds(w, d) => v = w
    /\ \A q, r \in Requests : Submits(q, d) /\ Submits(r, d) => q = r
    /\ Queued(d) => /\ \A w \in Workers : ~Holds(w, d)
                    /\ \A r \in Requests : ~Submits(r, d)
    /\ \A w \in Workers, r \in Requests : ~(Holds(w, d) /\ Submits(r, d))

SoleAttempt == \A d \in Ids \ disturbed : Sole(d)

(***************************************************************************)
(* How far its status may have come: no further than the step its attempt  *)
(* is at, and less far when an UPDATE failed.                              *)
(***************************************************************************)
Reached(at) ==
    CASE at \in {"load", "loaded"}               -> {"absent", "queued"}
      [] at \in {"fetch", "direct", "checked"} -> {"absent", "queued", "downloading"}
      [] at = "closing" -> {"absent", "complete"} \cup Unfinished
      [] OTHER          -> {"absent"} \cup Unfinished

Waits(d) == Queued(d) \/ \E r \in Requests : Submits(r, d)

StatusFollows ==
    \A d \in Ids \ disturbed :
        /\ Waits(d) => status[d] \in {"absent", "queued"}
        /\ \A w \in Workers : Holds(w, d) => status[d] \in Reached(worker[w].at)

AttemptInv == Typed /\ FlightIssued /\ SoleAttempt /\ StatusFollows

\* What the channel holds after a send and after a receipt.
LEMMA SendQueue ==
    ASSUME Typed, NEW r \in Requests, Send(r)
    PROVE  /\ request[r].id \in Ids
           /\ \A i \in DOMAIN queue' : \/ i \in DOMAIN queue /\ queue'[i] = queue[i]
                                       \/ i = Len(queue) + 1 /\ queue'[i] = request[r].id
<1>1. /\ queue \in Seq(Ids) /\ request[r].id \in Ids
      /\ queue' = Append(queue, request[r].id)
  BY DEF Send, Typed, TypeOK, BusyHasId
<1> QED
  BY <1>1, AppendProperties, LenProperties

LEMMA ReceiveQueue ==
    ASSUME Typed, NEW w \in Workers, Receive(w)
    PROVE  /\ 1 \in DOMAIN queue /\ worker'[w].id = queue[1] /\ queue[1] \in Ids
           /\ \A i \in DOMAIN queue' :
                 i + 1 \in DOMAIN queue /\ i + 1 # 1 /\ i \in Nat /\ queue'[i] = queue[i + 1]
<1>1. /\ queue \in Seq(Ids) /\ queue # <<>> /\ queue' = Tail(queue)
      /\ worker'[w].id = Head(queue)
  BY ReceiveWorker DEF Typed, TypeOK
<1> QED
  BY <1>1, HeadTailProperties, LenProperties

\* History only grows.
LEMMA DisturbedGrows ==
    ASSUME [Next]_vars
    PROVE  disturbed \subseteq disturbed'
<1>1. ASSUME NEW r \in Requests, Arrive(r) \/ Handle(r) \/ Send(r)
      PROVE  disturbed \subseteq disturbed'
  BY <1>1 DEF Arrive, CreateDownload, Requeue, LookUp, ListRoots, Handle, CreateJob,
              JobRefused, RemoveFolder, DeleteRow, DeleteRefused, DeleteJobs, ListFiles, ReadMetadata, UpsertRow, Send,
              history
<1>2. ASSUME NEW w \in Workers, Process(w) \/ ReportProgress(w)
      PROVE  disturbed \subseteq disturbed'
  BY <1>2 DEF Process, ReportProgress, Receive, Load, LoadFails, StartDownload, WriteJob,
              FetchEnds, StartUpload, OpenBackend, StoreFile, StoreFails, Persist, Finish,
              Close, Fail, SetState, LastStatus, history
<1> QED
  BY <1>1, <1>2 DEF Next, Crash, vars

\* An attempt is added to an undisturbed download only when it has none.
LEMMA AcceptedAlone ==
    ASSUME AttemptInv, NEW r \in Requests, NEW d \in Ids, d \notin disturbed',
           CreateDownload(r, d) \/ Requeue(r, d)
    PROVE  ~InFlight(d) /\ UNCHANGED queue
BY DEF AttemptInv, FlightIssued, CreateDownload, Requeue

LEMMA SoleStep ==
    ASSUME AttemptInv, [Next]_vars
    PROVE  SoleAttempt'
<1> SUFFICES ASSUME NEW d \in Ids, d \notin disturbed' PROVE Sole(d)'
  BY DEF SoleAttempt
<1>1. Typed /\ d \notin disturbed /\ Sole(d)
  BY DisturbedGrows DEF AttemptInv, SoleAttempt
<1>2. ASSUME NEW r \in Requests, Arrive(r) \/ Handle(r) \/ Send(r) PROVE Sole(d)'
  <2>1. UNCHANGED worker /\ \A q \in Requests \ {r} : request'[q] = request[q]
    BY <1>1, <1>2, HandlerStep
  <2>2. CASE Submits(r, d)' /\ ~Submits(r, d)
    <3>1. ~InFlight(d) /\ UNCHANGED queue
      BY <1>1, <1>2, <2>2, HandlerStep, AcceptedAlone
    <3> QED
      BY <2>1, <3>1 DEF Sole, InFlight, Queued, Holds, Submits
  <2>3. CASE (Submits(r, d)' => Submits(r, d)) /\ UNCHANGED queue
    BY <1>1, <2>1, <2>3 DEF Sole, Queued, Holds, Submits
  <2>4. CASE Send(r)
    <3>1. ~Submits(r, d)'
      BY <1>1, <2>4 DEF Send, Reply, NoRequest, Submits, Typed, TypeOK
    <3>2. CASE request[r].id = d
      <4>1. Submits(r, d)
        BY <2>4, <3>2 DEF Send, Submits
      <4>2. /\ \A i \in DOMAIN queue' : queue'[i] = d => i = Len(queue) + 1
            /\ \A w \in Workers : ~Holds(w, d)
            /\ \A q \in Requests \ {r} : ~Submits(q, d)
        BY <1>1, <2>4, <4>1, SendQueue DEF Sole, Queued
      <4> QED
        BY <2>1, <3>1, <4>2 DEF Sole, Queued, Holds, Submits
    <3>3. CASE request[r].id # d
      <4>1. \A i \in DOMAIN queue' : queue'[i] = d => i \in DOMAIN queue /\ queue[i] = d
        BY <1>1, <2>4, <3>3, SendQueue
      <4> QED
        BY <1>1, <2>1, <3>1, <4>1 DEF Sole, Queued, Holds, Submits
    <3> QED
      BY <3>2, <3>3
  <2> QED
    BY <1>1, <1>2, <2>2, <2>3, <2>4, HandlerStep
<1>3. ASSUME NEW w \in Workers, Process(w) \/ ReportProgress(w) PROVE Sole(d)'
  <2>1. CASE Receive(w)
    <3>1. UNCHANGED request /\ (\A v \in Workers \ {w} : worker'[v] = worker[v])
      BY <1>1, <2>1, ReceiveWorker DEF Receive
    <3>2. ~Holds(w, d)
      BY <1>1, <2>1, ReceiveWorker DEF Holds
    <3>3. CASE queue[1] = d
      <4>1. 1 \in DOMAIN queue
        BY <1>1, <2>1, ReceiveQueue
      <4>2. Queued(d)
        BY <3>3, <4>1 DEF Queued
      <4>3. ~Queued(d)'
        <5>1. ASSUME NEW i \in DOMAIN queue', queue'[i] = d PROVE FALSE
          <6>1. i + 1 \in DOMAIN queue /\ i + 1 # 1 /\ queue[i + 1] = d
            BY <1>1, <2>1, <5>1, ReceiveQueue
          <6> QED
            BY <1>1, <3>3, <4>1, <6>1 DEF Sole
        <5> QED
          BY <5>1 DEF Queued
      <4> QED
        BY <1>1, <3>1, <3>2, <4>2, <4>3 DEF Sole, Queued, Holds, Submits
    <3>4. CASE queue[1] # d
      <4>1. ~Holds(w, d)'
        BY <1>1, <2>1, <3>4, ReceiveQueue DEF Holds
      <4>2. Queued(d)' => Queued(d)
        BY <1>1, <2>1, ReceiveQueue DEF Queued
      <4>3. \A i, j \in DOMAIN queue' : queue'[i] = d /\ queue'[j] = d => i = j
        <5>1. ASSUME NEW i \in DOMAIN queue', NEW j \in DOMAIN queue',
                     queue'[i] = d, queue'[j] = d
              PROVE  i = j
          <6>1. /\ i \in Nat /\ j \in Nat /\ i + 1 \in DOMAIN queue /\ j + 1 \in DOMAIN queue
                /\ queue[i + 1] = d /\ queue[j + 1] = d
            BY <1>1, <2>1, <5>1, ReceiveQueue
          <6>2. i + 1 = j + 1
            BY <1>1, <6>1 DEF Sole
          <6> QED
            BY <6>1, <6>2
        <5> QED
          BY <5>1
      <4> QED
        BY <1>1, <3>1, <3>2, <4>1, <4>2, <4>3 DEF Sole, Holds, Submits
    <3> QED
      BY <3>3, <3>4
  <2>2. CASE ~Receive(w)
    <3>1. /\ UNCHANGED <<queue, request>> /\ \A v \in Workers \ {w} : worker'[v] = worker[v]
          /\ Holds(w, d)' => Holds(w, d)
      BY <1>1, <1>3, <2>2, WorkingStep DEF Holds
    <3> QED
      BY <1>1, <3>1 DEF Sole, Queued, Holds, Submits
  <2> QED
    BY <2>1, <2>2
<1>4. CASE Crash
  BY <1>4 DEF Crash, Sole, Queued, Holds, Submits, Resting, NoRequest
<1>5. CASE UNCHANGED vars
  BY <1>1, <1>5 DEF vars, Sole, Queued, Holds, Submits
<1> QED
  BY <1>2, <1>3, <1>4, <1>5 DEF Next
-----------------------------------------------------------------------------
(***************************************************************************)
(* Who writes the status of an undisturbed download.                       *)
(***************************************************************************)
Advances(w, t) ==
    \/ worker[w].at = "loaded" /\ t = "downloading"
    \/ worker[w].at \in {"fetch", "direct"} /\ t = "downloading"
    \/ worker[w].at = "checked" /\ t = "uploading"
    \/ worker[w].at \in {"finish", "closing"} /\ t = "complete"
    \/ worker[w].at = "failing" /\ t = "failed"

LEMMA StatusStep ==
    ASSUME Typed, [Next]_vars, NEW d \in Ids, d \notin disturbed'
    PROVE  \/ UNCHANGED status[d]
           \/ status'[d] = "absent"
           \/ /\ status'[d] = "queued"
              /\ \E r \in Requests : CreateDownload(r, d) \/ Requeue(r, d)
           \/ \E w \in Workers : /\ Process(w) \/ ReportProgress(w)
                                 /\ Holds(w, d) /\ Row(d)
                                 /\ Advances(w, status'[d])
<1>1. status \in [Ids -> Statuses]
  BY DEF Typed, TypeOK
<1> DEFINE Goal ==
       \/ UNCHANGED status[d]
       \/ status'[d] = "absent"
       \/ /\ status'[d] = "queued"
          /\ \E r \in Requests : CreateDownload(r, d) \/ Requeue(r, d)
       \/ \E w \in Workers : /\ Process(w) \/ ReportProgress(w)
                             /\ Holds(w, d) /\ Row(d)
                             /\ Advances(w, status'[d])
<1>2. ASSUME NEW r \in Requests, Arrive(r) PROVE Goal
  <2>1. ASSUME NEW e \in Ids, CreateDownload(r, e) \/ Requeue(r, e) PROVE Goal
    <3>1. CASE e = d
      <4>1. status'[d] \in {"queued", "absent"}
        BY <1>1, <2>1, <3>1 DEF CreateDownload, Requeue, WithStatus
      <4> QED
        BY <2>1, <3>1, <4>1
    <3>2. CASE e # d
      BY <1>1, <2>1, <3>2 DEF CreateDownload, Requeue, WithStatus
    <3> QED
      BY <3>1, <3>2
  <2> QED
    BY <1>2, <2>1 DEF Arrive, LookUp, ListRoots, tables
<1>3. ASSUME NEW r \in Requests, Handle(r) \/ Send(r) PROVE Goal
  <2>1. CASE UpsertRow(r)
    BY <1>1, <2>1 DEF UpsertRow
  <2>2. CASE DeleteRow(r)
    BY <1>1, <2>2 DEF DeleteRow
  <2>3. CASE ListFiles(r) \/ ReadMetadata(r)
    BY <2>3, RecoveryReads
  <2>4. CASE CreateJob(r) \/ JobRefused(r) \/ RemoveFolder(r) \/ DeleteRefused(r)
             \/ DeleteJobs(r) \/ Send(r)
    BY <2>4 DEF CreateJob, JobRefused, RemoveFolder, DeleteRefused, DeleteJobs, Send, tables
  <2> QED
    BY <1>3, <2>1, <2>2, <2>3, <2>4 DEF Handle
<1>4. ASSUME NEW w \in Workers, Process(w) \/ ReportProgress(w) PROVE Goal
  <2>1. ASSUME NEW t \in Statuses, UNCHANGED status \/ status' = WithStatus(worker[w].id, t),
               Advances(w, t)
        PROVE  Goal
    <3>1. CASE worker[w].id = d /\ status' = WithStatus(d, t) /\ Row(d)
      <4>1. status'[d] = t
        BY <1>1, <3>1 DEF WithStatus, Row
      <4> QED
        BY <1>4, <2>1, <3>1, <4>1 DEF Advances, Holds
    <3>2. CASE ~(worker[w].id = d /\ status' = WithStatus(d, t) /\ Row(d))
      BY <1>1, <2>1, <3>2 DEF WithStatus, Row
    <3> QED
      BY <3>1, <3>2
  <2>2. {"downloading", "uploading", "complete", "failed"} \subseteq Statuses
    BY DEF Statuses, Unfinished
  <2>3. CASE StartDownload(w) \/ ReportProgress(w)
    <3>1. /\ UNCHANGED status \/ status' = WithStatus(worker[w].id, "downloading")
          /\ Advances(w, "downloading")
      BY <2>3 DEF StartDownload, ReportProgress, SetState, TryStatus, Ready, Advances
    <3> QED
      BY <2>1, <2>2, <3>1
  <2>4. CASE StartUpload(w)
    <3>1. /\ UNCHANGED status \/ status' = WithStatus(worker[w].id, "uploading")
          /\ Advances(w, "uploading")
      BY <2>4 DEF StartUpload, SetState, TryStatus, Ready, Advances
    <3> QED
      BY <2>1, <2>2, <3>1
  <2>5. CASE Finish(w) \/ Close(w)
    <3>1. /\ UNCHANGED status \/ status' = WithStatus(worker[w].id, "complete")
          /\ Advances(w, "complete")
      BY <2>5 DEF Finish, Close, SetState, LastStatus, TryStatus, Ready, Advances
    <3> QED
      BY <2>1, <2>2, <3>1
  <2>6. CASE Fail(w)
    <3>1. /\ UNCHANGED status \/ status' = WithStatus(worker[w].id, "failed")
          /\ Advances(w, "failed")
      BY <2>6 DEF Fail, LastStatus, Ready, Advances
    <3> QED
      BY <2>1, <2>2, <3>1
  <2>7. CASE Receive(w) \/ Load(w) \/ LoadFails(w) \/ WriteJob(w) \/ FetchEnds(w)
             \/ OpenBackend(w) \/ StoreFails(w) \/ Persist(w)
             \/ \E part \in Parts : StoreFile(w, part)
    BY <2>7 DEF Receive, Load, LoadFails, WriteJob, FetchEnds, OpenBackend, StoreFails,
                StoreFile, Persist, tables
  <2> QED
    BY <1>4, <2>3, <2>4, <2>5, <2>6, <2>7 DEF Process
<1>5. CASE Crash \/ UNCHANGED vars
  BY <1>5 DEF Crash, vars, tables
<1> QED
  BY <1>2, <1>3, <1>4, <1>5 DEF Next

\* One step moves the row of an undisturbed attempt forward.
LEMMA ForwardStep ==
    ASSUME AttemptInv, [Next]_vars, NEW d \in Ids, d \notin disturbed',
           status'[d] # status[d]
    PROVE  MovesForward(d)
<1>1. Typed /\ d \notin disturbed
  BY DisturbedGrows DEF AttemptInv
<1>2. CASE status'[d] = "absent"
  BY <1>2 DEF MovesForward
<1>3. CASE status'[d] = "queued" /\ \E r \in Requests : CreateDownload(r, d) \/ Requeue(r, d)
  BY <1>3, AcceptedAlone DEF MovesForward
<1>4. ASSUME NEW w \in Workers, Holds(w, d), Row(d), Advances(w, status'[d])
      PROVE  MovesForward(d)
  <2>1. status[d] \in Reached(worker[w].at) \ {"absent"}
    BY <1>1, <1>4 DEF AttemptInv, StatusFollows, Row
  <2>2. Rank[status[d]] < Rank[status'[d]]
    <3>1. CASE worker[w].at \in {"loaded", "fetch", "direct"}
      <4>1. status[d] = "queued" /\ status'[d] = "downloading"
        BY <1>4, <2>1, <3>1 DEF Advances, Reached
      <4> QED
        BY <4>1 DEF Rank
    <3>2. CASE worker[w].at = "checked"
      <4>1. status[d] \in {"queued", "downloading"} /\ status'[d] = "uploading"
        BY <1>4, <2>1, <3>2 DEF Advances, Reached
      <4> QED
        BY <4>1 DEF Rank
    <3>3. CASE worker[w].at \in {"finish", "closing"}
      <4>1. status[d] \in {"queued", "downloading", "uploading"} /\ status'[d] = "complete"
        BY <1>4, <2>1, <3>3 DEF Advances, Reached, Unfinished
      <4> QED
        BY <4>1 DEF Rank
    <3>4. CASE worker[w].at = "failing"
      <4>1. status[d] \in {"queued", "downloading", "uploading"} /\ status'[d] = "failed"
        BY <1>4, <2>1, <3>4 DEF Advances, Reached, Unfinished
      <4> QED
        BY <4>1 DEF Rank
    <3> QED
      BY <1>4, <3>1, <3>2, <3>3, <3>4 DEF Advances
  <2> QED
    BY <2>2 DEF MovesForward
<1> QED
  BY <1>1, <1>2, <1>3, <1>4, StatusStep

\* The steps of a worker that keeps its download, stage by stage.
LEMMA StageStep ==
    ASSUME Typed, NEW w \in Workers, Process(w) \/ ReportProgress(w), ~Receive(w),
           worker'[w].at # "idle"
    PROVE  /\ Reached(worker[w].at) \subseteq Reached(worker'[w].at)
           /\ \A t : Advances(w, t) /\ status' # status => t \in Reached(worker'[w].at)
<1> DEFINE old == worker[w].at
           new == worker'[w].at
<1>1. CASE StartDownload(w)
  <2>1. old = "loaded" /\ new = "fetch"
    BY <1>1, SetStateWorker DEF StartDownload, Ready
  <2> QED
    BY <2>1 DEF Reached, Advances, Unfinished
<1>2. CASE ReportProgress(w)
  <2>1. old \in {"fetch", "direct"} /\ new = old
    <3>1. PICK at \in {"fetch", "direct"} : old = at /\ SetState(w, at, "downloading")
      BY <1>2 DEF ReportProgress, Ready
    <3> QED
      BY <3>1, SetStateWorker
  <2> QED
    BY <2>1 DEF Reached, Advances, Unfinished
<1>3. CASE StartUpload(w)
  <2>1. old = "checked" /\ new = "open"
    BY <1>3, SetStateWorker DEF StartUpload, Ready
  <2> QED
    BY <2>1 DEF Reached, Advances, Unfinished
<1>4. CASE Finish(w)
  <2>1. old = "finish" /\ new = "closing"
    BY <1>4, SetStateWorker DEF Finish, Ready
  <2> QED
    BY <2>1 DEF Reached, Advances, Unfinished
<1>5. CASE WriteJob(w)
  <2>1. new = old /\ UNCHANGED status
    <3>1. worker' = [worker EXCEPT ![w] = [worker[w] EXCEPT !.owes = FALSE]]
      BY <1>5 DEF WriteJob
    <3> QED
      BY <1>5, <3>1, WorkersTyped DEF WriteJob
  <2> QED
    BY <2>1
<1>6. CASE OpenBackend(w)
  <2>1. old = "open" /\ new = "video" /\ UNCHANGED status
    <3>1. PICK b \in Backends :
                 worker' = [worker EXCEPT ![w] = [worker[w] EXCEPT !.at = "video", !.to = b]]
      BY <1>6 DEF OpenBackend
    <3> QED
      BY <1>6, <3>1, WorkersTyped DEF OpenBackend, Ready, tables
  <2> QED
    BY <2>1 DEF Reached
<1>7. CASE Load(w) \/ FetchEnds(w) \/ StoreFails(w) \/ Persist(w)
           \/ \E part \in Parts : StoreFile(w, part)
  <2>1. UNCHANGED status
    BY <1>7 DEF Load, FetchEnds, StoreFails, Persist, StoreFile, tables
  <2>2. PICK at \in Stages : Move(w, at)
    BY <1>7 DEF Load, FetchEnds, StoreFails, Persist, StoreFile, AfterStore, Parts, Stages
  <2>3. new = at
    BY <2>2, WorkersTyped DEF Move
  <2>4. \/ old = "load" /\ new = "loaded"
        \/ old \in {"fetch", "direct"} /\ new \in {"direct", "checked", "failing"}
        \/ old \in {"open", "video", "thumbnail", "metadata", "persist"}
              /\ new \in {"thumbnail", "metadata", "persist", "finish", "failing"}
    <3>1. ASSUME NEW a, NEW b, Move(w, a), Move(w, b) PROVE a = b
      BY <3>1, WorkersTyped DEF Move
    <3>2. ASSUME NEW a, Move(w, a) PROVE new = a
      BY <3>2, WorkersTyped DEF Move
    <3>3. CASE Load(w)
      BY <3>2, <3>3 DEF Load, Ready
    <3>4. CASE FetchEnds(w)
      BY <3>2, <3>4 DEF FetchEnds, Ready
    <3>5. CASE StoreFails(w)
      BY <3>2, <3>5 DEF StoreFails, Ready, Parts
    <3>6. CASE Persist(w)
      BY <3>2, <3>6 DEF Persist, Ready
    <3>7. ASSUME NEW part \in Parts, StoreFile(w, part)
          PROVE  /\ old \in {"video", "thumbnail", "metadata"}
                 /\ new \in {"thumbnail", "metadata", "persist"}
      BY <3>2, <3>7 DEF StoreFile, Ready, AfterStore, Parts
    <3> QED
      BY <1>7, <3>3, <3>4, <3>5, <3>6, <3>7
  <2>5. Reached(old) \subseteq Reached(new)
    BY <2>4 DEF Reached, Unfinished
  <2> QED
    BY <2>1, <2>5
<1>8. ~LoadFails(w) /\ ~Close(w) /\ ~Fail(w)
  <2>1. ~Rest(w)
    BY WorkersTyped DEF Rest, Resting
  <2> QED
    BY <2>1 DEF LoadFails, Close, Fail, LastStatus
<1> QED
  BY <1>1, <1>2, <1>3, <1>4, <1>5, <1>6, <1>7, <1>8 DEF Process

LEMMA FollowsStep ==
    ASSUME AttemptInv, [Next]_vars
    PROVE  StatusFollows'
<1> SUFFICES ASSUME NEW d \in Ids, d \notin disturbed'
             PROVE  /\ Waits(d)' => status'[d] \in {"absent", "queued"}
                    /\ \A v \in Workers : Holds(v, d)' => status'[d] \in Reached(worker'[v].at)
  BY DEF StatusFollows, Reached
<1>1. Typed /\ d \notin disturbed /\ Sole(d)
  BY DisturbedGrows DEF AttemptInv, SoleAttempt
<1>2. /\ Waits(d) => status[d] \in {"absent", "queued"}
      /\ \A v \in Workers : Holds(v, d) => status[d] \in Reached(worker[v].at)
  BY <1>1 DEF AttemptInv, StatusFollows
<1>3. \A at : "absent" \in Reached(at)
  BY DEF Reached, Unfinished
<1>4. CASE status'[d] = "absent"
  BY <1>3, <1>4
<1>5. CASE \E r \in Requests : CreateDownload(r, d) \/ Requeue(r, d)
  <2>1. /\ ~InFlight(d) /\ UNCHANGED worker
        /\ status'[d] \in {"absent", "queued"}
    BY <1>1, <1>5, AcceptedAlone
    DEF CreateDownload, Requeue, WithStatus, Typed, TypeOK
  <2> QED
    BY <2>1 DEF InFlight, Holds
<1>6. ASSUME NEW w \in Workers, Process(w) \/ ReportProgress(w), Holds(w, d),
             Advances(w, status'[d]), status'[d] # status[d]
      PROVE  /\ ~Waits(d)'
             /\ \A v \in Workers : Holds(v, d)' => status'[d] \in Reached(worker'[v].at)
  <2>1. ~Receive(w) /\ status' # status
    BY <1>6 DEF Receive, tables
  <2>2. /\ UNCHANGED <<queue, request>>
        /\ \A v \in Workers \ {w} : worker'[v] = worker[v]
    BY <1>1, <1>6, <2>1, WorkingStep
  <2>3. ~Waits(d)'
    BY <1>1, <1>6, <2>2 DEF Sole, Waits, Queued, Submits
  <2>4. ASSUME NEW v \in Workers, Holds(v, d)' PROVE status'[d] \in Reached(worker'[v].at)
    <3>1. v = w
      BY <1>1, <1>6, <2>2, <2>4 DEF Sole, Holds
    <3> QED
      BY <1>1, <1>6, <2>1, <2>4, <3>1, StageStep DEF Holds
  <2> QED
    BY <2>3, <2>4
<1>7. CASE UNCHANGED status[d] /\ ~\E r \in Requests : CreateDownload(r, d) \/ Requeue(r, d)
  <2>1. ASSUME NEW r \in Requests, Arrive(r) \/ Handle(r) \/ Send(r)
        PROVE  UNCHANGED worker /\ (Waits(d)' => Waits(d))
    <3>1. Submits(r, d)' => Submits(r, d)
      BY <1>1, <1>7, <2>1, HandlerStep
    <3>2. Queued(d)' => Queued(d) \/ Submits(r, d)
      <4>1. CASE Send(r)
        BY <1>1, <4>1, SendQueue DEF Queued, Submits, Send
      <4>2. CASE UNCHANGED queue
        BY <4>2 DEF Queued
      <4> QED
        BY <1>1, <2>1, <4>1, <4>2, HandlerStep
    <3> QED
      BY <1>1, <2>1, <3>1, <3>2, HandlerStep DEF Waits, Submits
  <2>2. ASSUME NEW w \in Workers, Process(w) \/ ReportProgress(w)
        PROVE  /\ Waits(d)' => Waits(d)
               /\ \A v \in Workers : Holds(v, d)' => status[d] \in Reached(worker'[v].at)
    <3>1. CASE Receive(w)
      <4>1. UNCHANGED request /\ (\A v \in Workers \ {w} : worker'[v] = worker[v])
        BY <1>1, <3>1, ReceiveWorker DEF Receive
      <4>2. Queued(d)' => Queued(d)
        BY <1>1, <3>1, ReceiveQueue DEF Queued
      <4>3. ASSUME Holds(w, d)' PROVE status[d] \in Reached(worker'[w].at)
        <5>1. Queued(d)
          BY <1>1, <3>1, <4>3, ReceiveQueue DEF Queued, Holds
        <5>2. status[d] \in {"absent", "queued"} /\ worker'[w].at = "load"
          BY <1>1, <1>2, <3>1, <5>1, ReceiveWorker DEF Waits
        <5> QED
          BY <5>2 DEF Reached
      <4> QED
        BY <1>2, <4>1, <4>2, <4>3 DEF Waits, Holds, Submits
    <3>2. CASE ~Receive(w)
      <4>1. /\ UNCHANGED <<queue, request>>
            /\ \A v \in Workers \ {w} : worker'[v] = worker[v]
            /\ Holds(w, d)' => Holds(w, d)
        BY <1>1, <2>2, <3>2, WorkingStep DEF Holds
      <4>2. Holds(w, d)' => Reached(worker[w].at) \subseteq Reached(worker'[w].at)
        BY <1>1, <2>2, <3>2, StageStep DEF Holds
      <4>3. ASSUME NEW v \in Workers, Holds(v, d)' PROVE status[d] \in Reached(worker'[v].at)
        BY <1>2, <4>1, <4>2, <4>3 DEF Holds
      <4> QED
        BY <4>1, <4>3 DEF Waits, Queued, Submits
    <3> QED
      BY <3>1, <3>2
  <2>3. CASE Crash
    BY <2>3 DEF Crash, Waits, Queued, Holds, Submits, Resting, NoRequest
  <2>4. CASE UNCHANGED vars
    BY <1>2, <2>4 DEF vars, Waits, Queued, Holds, Submits
  <2>5. ASSUME NEW r \in Requests, Arrive(r) \/ Handle(r) \/ Send(r)
        PROVE  /\ Waits(d)' => status'[d] \in {"absent", "queued"}
               /\ \A v \in Workers : Holds(v, d)' => status'[d] \in Reached(worker'[v].at)
    BY <1>2, <1>7, <2>1, <2>5 DEF Holds
  <2> QED
    BY <1>2, <1>7, <2>2, <2>3, <2>4, <2>5 DEF Next
<1> QED
  BY <1>1, <1>4, <1>5, <1>6, <1>7, StatusStep

LEMMA AttemptInit == Init => AttemptInv
BY TypedInit
DEF Init, AttemptInv, FlightIssued, SoleAttempt, Sole, StatusFollows, Waits, InFlight, Queued,
    Holds, Submits, Resting, NoRequest

LEMMA AttemptNext == AttemptInv /\ [Next]_vars => AttemptInv'
BY TypedNext, FlightIssuedStep, SoleStep, FollowsStep DEF AttemptInv

(***************************************************************************)
(* An undisturbed attempt takes its row forward only, however many         *)
(* attempts, workers and handlers there are, and whichever UPDATEs fail:   *)
(* no progress callback, fallback or second write of "complete" takes it   *)
(* back, and a retry does so only when the attempt before it is over.      *)
(***************************************************************************)
THEOREM StatusIsMonotone == Spec => StatusMovesForward
<1>1. AttemptInv /\ [Next]_vars =>
          [\A d \in Ids \ disturbed' : status'[d] # status[d] => MovesForward(d)]_vars
  BY ForwardStep
<1> QED
  BY <1>1, AttemptInit, AttemptNext, PTL DEF Spec, StatusMovesForward
-----------------------------------------------------------------------------
(***************************************************************************)
(* The job rows of an undisturbed download: it has one from the moment it  *)
(* is accepted, and a delete request that is about to remove the job rows  *)
(* has removed the download row, for good.                                 *)
(***************************************************************************)
DeletingRows(d) == \E r \in Requests : request[r].at = "deljobs" /\ request[r].id = d

JobRowsKept ==
    \A d \in Ids \ disturbed : /\ Accepted(d) => jobs[d] # <<>>
                               /\ DeletingRows(d) => ~Row(d)

LatestIsComplete(d) == \E i \in Latest(jobs[d]) : jobs[d][i].state = "complete"

JobFollows ==
    mishaps = 0 =>
        \A d \in Ids \ disturbed :
            /\ status[d] = "complete" /\ ~InFlight(d) => LatestIsComplete(d)
            /\ \A w \in Workers :
                   Holds(w, d) /\ worker[w].at = "closing" /\ ~worker[w].owes =>
                       LatestIsComplete(d)

\* Requests on ids that were handed out, but for a recovery's.
RequestsIssued ==
    \A r \in Requests :
        request[r].at \in {"job", "send", "remove", "delrow", "deljobs"} =>
            request[r].id \in issued

JobInv == AttemptInv /\ JobsNeedRow /\ RequestsIssued /\ JobRowsKept /\ JobFollows

(***************************************************************************)
(* Who changes the job rows of a download, and how.                        *)
(***************************************************************************)
LEMMA JobsStep ==
    ASSUME Typed, [Next]_vars, NEW d \in Ids
    PROVE  \/ UNCHANGED jobs[d]
           \/ \E r \in Requests : /\ CreateJob(r) /\ request[r].id = d
                                  /\ jobs'[d] # <<>>
           \/ \E r \in Requests : /\ DeleteJobs(r) /\ request[r].id = d
                                  /\ jobs'[d] = <<>>
           \/ \E w \in Workers : /\ WriteJob(w) /\ worker[w].id = d
                                 /\ jobs'[d] = <<>> <=> jobs[d] = <<>>
<1>1. jobs \in [Ids -> Seq(JobRow)]
  BY DEF Typed, TypeOK, JobRow
<1> DEFINE Goal ==
       \/ UNCHANGED jobs[d]
       \/ \E r \in Requests : /\ CreateJob(r) /\ request[r].id = d
                              /\ jobs'[d] # <<>>
       \/ \E r \in Requests : /\ DeleteJobs(r) /\ request[r].id = d
                              /\ jobs'[d] = <<>>
       \/ \E w \in Workers : /\ WriteJob(w) /\ worker[w].id = d
                             /\ jobs'[d] = <<>> <=> jobs[d] = <<>>
<1>2. ASSUME NEW r \in Requests, CreateJob(r) PROVE Goal
  <2>1. PICK s : jobs' = [jobs EXCEPT ![request[r].id] =
                             Append(@, [state |-> "queued", second |-> s])]
    BY <1>2 DEF CreateJob
  <2>2. CASE request[r].id = d
    <3> DEFINE rows == jobs[d]
    <3>1. rows \in Seq(JobRow)
      BY <1>1
    <3>2. jobs'[d] = Append(rows, [state |-> "queued", second |-> s])
      BY <1>1, <2>1, <2>2
    <3>3. Append(rows, [state |-> "queued", second |-> s]) # <<>>
      BY <3>1
    <3> QED
      BY <1>2, <2>2, <3>2, <3>3
  <2>3. CASE request[r].id # d
    BY <1>1, <2>1, <2>3
  <2> QED
    BY <2>2, <2>3
<1>3. ASSUME NEW r \in Requests, DeleteJobs(r) PROVE Goal
  BY <1>1, <1>3 DEF DeleteJobs
<1>4. ASSUME NEW w \in Workers, WriteJob(w) PROVE Goal
  <2>1. jobs'[d] = <<>> <=> jobs[d] = <<>>
    BY <1>4, WriteJobType
  <2>2. CASE worker[w].id = d
    BY <1>4, <2>1, <2>2
  <2>3. CASE worker[w].id # d
    BY <1>1, <1>4, <2>3 DEF WriteJob, UpdateLatestJob
  <2> QED
    BY <2>2, <2>3
<1>5. ASSUME NEW r \in Requests, Arrive(r) \/ Handle(r) \/ Send(r),
             ~CreateJob(r), ~DeleteJobs(r)
      PROVE  UNCHANGED jobs
  BY <1>5 DEF Arrive, CreateDownload, Requeue, LookUp, ListRoots, Handle, JobRefused,
              RemoveFolder, DeleteRow, DeleteRefused, ListFiles, ReadMetadata, UpsertRow, Send, tables
<1>6. ASSUME NEW w \in Workers, Process(w) \/ ReportProgress(w), ~WriteJob(w)
      PROVE  UNCHANGED jobs
  BY <1>6 DEF Process, ReportProgress, Receive, Load, LoadFails, StartDownload,
              FetchEnds, StartUpload, OpenBackend, StoreFile, StoreFails, Persist, Finish,
              Close, Fail, SetState, LastStatus, tables
<1>7. CASE Crash \/ UNCHANGED vars
  BY <1>7 DEF Crash, vars, tables
<1> QED
  BY <1>2, <1>3, <1>4, <1>5, <1>6, <1>7 DEF Next

\* The states that a job row can take do not change which row is the latest.
LEMMA LatestUpdated ==
    ASSUME Typed, NEW d \in Ids, jobs[d] # <<>>, UpdateLatestJob(d, "complete")
    PROVE  \E i \in Latest(jobs'[d]) : jobs'[d][i].state = "complete"
<1>1. jobs \in [Ids -> Seq(JobRow)]
  BY DEF Typed, TypeOK, JobRow
<1>2. PICK i \in Latest(jobs[d]) : jobs' = [jobs EXCEPT ![d][i].state = "complete"]
  BY DEF UpdateLatestJob
<1> DEFINE old == jobs[d]
           new == [old EXCEPT ![i] = [old[i] EXCEPT !.state = "complete"]]
<1>3. old \in Seq(JobRow) /\ i \in DOMAIN old
  BY <1>1, <1>2 DEF Latest
<1>4. jobs'[d] = new
  BY <1>1, <1>2
<1>5. [old[i] EXCEPT !.state = "complete"] = [state |-> "complete", second |-> old[i].second]
  <2>1. old[i] \in JobRow
    BY <1>3
  <2> QED
    BY <2>1 DEF JobRow
<1>6. /\ DOMAIN new = DOMAIN old
      /\ new[i] = [old[i] EXCEPT !.state = "complete"]
      /\ \A j \in DOMAIN old \ {i} : new[j] = old[j]
  BY <1>3
<1>7. new[i].state = "complete" /\ \A j \in DOMAIN old : new[j].second = old[j].second
  BY <1>3, <1>5, <1>6
<1>8. i \in Latest(new)
  BY <1>2, <1>3, <1>6, <1>7 DEF Latest
<1> QED
  BY <1>4, <1>7, <1>8

\* Only a delete request takes a row away.
LEMMA RowGone ==
    ASSUME Typed, [Next]_vars, NEW d \in Ids, Row(d), status'[d] = "absent"
    PROVE  \E r \in Requests : DeleteRow(r) /\ request[r].id = d
<1>1. status \in [Ids -> Statuses] /\ status[d] # "absent"
  BY DEF Typed, TypeOK, Row
<1>2. ASSUME NEW r \in Requests, Arrive(r) PROVE FALSE
  BY <1>1, <1>2 DEF Arrive, CreateDownload, Requeue, LookUp, ListRoots, WithStatus, tables
<1>3. ASSUME NEW r \in Requests, Handle(r) \/ Send(r)
      PROVE  DeleteRow(r) /\ request[r].id = d
  <2>1. CASE UpsertRow(r)
    BY <1>1, <2>1 DEF UpsertRow
  <2>2. CASE DeleteRow(r)
    BY <1>1, <2>2 DEF DeleteRow
  <2>3. CASE ListFiles(r) \/ ReadMetadata(r)
    BY <1>1, <2>3, RecoveryReads
  <2>4. CASE CreateJob(r) \/ JobRefused(r) \/ RemoveFolder(r) \/ DeleteRefused(r)
             \/ DeleteJobs(r) \/ Send(r)
    BY <1>1, <2>4 DEF CreateJob, JobRefused, RemoveFolder, DeleteRefused, DeleteJobs, Send,
                      tables
  <2> QED
    BY <1>3, <2>1, <2>2, <2>3, <2>4 DEF Handle
<1>4. ASSUME NEW w \in Workers, Process(w) \/ ReportProgress(w) PROVE FALSE
  <2>1. UNCHANGED status \/ \E s \in {"downloading", "uploading", "complete", "failed"} :
                               status' = WithStatus(worker[w].id, s)
    BY <1>4 DEF Process, ReportProgress, Receive, Load, LoadFails, StartDownload, WriteJob,
         FetchEnds, StartUpload, OpenBackend, StoreFile, StoreFails, Persist, Finish, Close,
         Fail, SetState, LastStatus, TryStatus, tables
  <2> QED
    BY <1>1, <2>1 DEF WithStatus
<1> QED
  BY <1>1, <1>2, <1>3, <1>4 DEF Next, Crash, vars, tables

\* Only a new download, or a recovery, brings a row into being.
LEMMA RowBorn ==
    ASSUME Typed, [Next]_vars, NEW d \in Ids, d \notin disturbed', ~Row(d),
           status'[d] # "absent"
    PROVE  d \notin issued
<1>1. PICK r \in Requests : CreateDownload(r, d) \/ Requeue(r, d)
  BY StatusStep DEF Row
<1>2. ~Requeue(r, d)
  BY DEF Requeue, WithStatus, Row, Typed, TypeOK
<1> QED
  BY <1>1, <1>2 DEF CreateDownload

\* The foreign key of the jobs table.
LEMMA JobsNeedRowStep ==
    ASSUME Typed, JobsNeedRow, [Next]_vars
    PROVE  JobsNeedRow'
<1> SUFFICES ASSUME NEW d \in Ids, jobs'[d] # <<>>, status'[d] = "absent"
             PROVE  FALSE
  BY DEF JobsNeedRow, Row
<1>1. Row(d)
  <2>1. CASE jobs[d] # <<>>
    BY <2>1 DEF JobsNeedRow
  <2>2. CASE jobs[d] = <<>>
    <3>1. PICK r \in Requests : CreateJob(r) /\ request[r].id = d
      BY <2>2, JobsStep
    <3> QED
      BY <3>1 DEF CreateJob
  <2> QED
    BY <2>1, <2>2
<1>2. PICK r \in Requests : DeleteRow(r) /\ request[r].id = d
  BY <1>1, RowGone
<1> QED
  BY <1>2 DEF DeleteRow

LEMMA RequestsIssuedStep ==
    ASSUME Typed, RequestsIssued, [Next]_vars
    PROVE  RequestsIssued'
<1>1. request \in [Requests -> [op : Ops \cup {"none"}, id : Ids \cup {"none"},
                                at : Steps, seen : Backends \cup {"none"}]]
  BY DEF Typed, TypeOK
<1>2. ASSUME NEW r \in Requests, Arrive(r) PROVE RequestsIssued'
  <2>1. ASSUME NEW d \in Ids, CreateDownload(r, d) \/ Requeue(r, d) \/ LookUp(r, d)
        PROVE  RequestsIssued'
    BY <1>1, <2>1 DEF RequestsIssued, CreateDownload, Requeue, LookUp, Begin
  <2>2. ASSUME NEW d \in Ids, NEW b \in Backends, ListRoots(r, b, d)
        PROVE  RequestsIssued'
    BY <1>1, <2>2 DEF RequestsIssued, ListRoots, Begin
  <2> QED
    BY <1>2, <2>1, <2>2 DEF Arrive
<1>3. ASSUME NEW r \in Requests, Handle(r) \/ Send(r) PROVE RequestsIssued'
  <2>1. CASE ListFiles(r) \/ ReadMetadata(r)
    BY <1>1, <2>1, RecoveryReads DEF RequestsIssued
  <2>2. CASE ~ListFiles(r) /\ ~ReadMetadata(r)
    <3>1. UNCHANGED issued
      BY <1>3, <2>2 DEF Handle, CreateJob, JobRefused, RemoveFolder, DeleteRow,
                        DeleteRefused, DeleteJobs, UpsertRow, Send
    <3>2. CASE Reply(r)
      BY <1>1, <3>1, <3>2 DEF RequestsIssued, Reply, NoRequest
    <3>3. CASE \E at \in {"send", "delrow", "deljobs"} : Goto(r, at)
      <4>1. request[r].at \in {"job", "remove", "delrow"} \/ Reply(r)
        BY <1>3, <2>2 DEF Handle, CreateJob, JobRefused, RemoveFolder, DeleteRow,
                          DeleteRefused, DeleteJobs, UpsertRow, Send
      <4> QED
        BY <1>1, <3>1, <3>2, <3>3, <4>1 DEF RequestsIssued, Goto
    <3>4. Reply(r) \/ \E at \in {"send", "delrow", "deljobs"} : Goto(r, at)
      BY <1>3, <2>2 DEF Handle, CreateJob, JobRefused, RemoveFolder, DeleteRow,
                        DeleteRefused, DeleteJobs, UpsertRow, Send
    <3> QED
      BY <3>2, <3>3, <3>4
  <2> QED
    BY <2>1, <2>2
<1>4. ASSUME NEW w \in Workers, Process(w) \/ ReportProgress(w) PROVE RequestsIssued'
  <2>1. UNCHANGED <<request, issued>>
    BY <1>4 DEF Process, ReportProgress, Receive, Load, LoadFails, StartDownload, WriteJob,
         FetchEnds, StartUpload, OpenBackend, StoreFile, StoreFails, Persist, Finish, Close,
         Fail, SetState, LastStatus
  <2> QED
    BY <2>1 DEF RequestsIssued
<1>5. CASE Crash
  BY <1>5 DEF Crash, RequestsIssued, NoRequest
<1>6. CASE UNCHANGED vars
  BY <1>6 DEF vars, RequestsIssued
<1> QED
  BY <1>2, <1>3, <1>4, <1>5, <1>6 DEF Next

\* What is accepted was accepted before, or has just got its job row.
LEMMA AcceptedStep ==
    ASSUME Typed, [Next]_vars, NEW e \in Ids, Accepted(e)'
    PROVE  Accepted(e) \/ \E r \in Requests : CreateJob(r) /\ request[r].id = e
<1>1. request \in [Requests -> [op : Ops \cup {"none"}, id : Ids \cup {"none"},
                                at : Steps, seen : Backends \cup {"none"}]]
  BY DEF Typed, TypeOK
<1>2. ASSUME NEW r \in Requests, Arrive(r) \/ Handle(r) \/ Send(r)
      PROVE  Accepted(e) \/ (CreateJob(r) /\ request[r].id = e)
  <2>1. /\ UNCHANGED worker /\ \A q \in Requests \ {r} : request'[q] = request[q]
    BY <1>2, HandlerStep
  <2>2. CASE CreateJob(r)
    <3>1. request'[r].id = request[r].id /\ UNCHANGED queue
      BY <1>1, <2>2 DEF CreateJob, Goto
    <3> QED
      BY <2>1, <2>2, <3>1 DEF Accepted, Queued, Holds
  <2>3. CASE Send(r)
    <3>1. Queued(e)' => Queued(e) \/ (request[r].at = "send" /\ request[r].id = e)
      BY <2>3, SendQueue DEF Queued, Send
    <3>2. request'[r].at # "send"
      BY <1>1, <2>3 DEF Send, Reply, NoRequest
    <3> QED
      BY <2>1, <3>1, <3>2 DEF Accepted, Holds
  <2>4. CASE ~CreateJob(r) /\ ~Send(r)
    <3>1. UNCHANGED queue
      BY <1>2, <2>4, HandlerStep
    <3>2. request'[r].at # "send"
      <4>1. CASE Arrive(r)
        BY <1>1, <4>1 DEF Arrive, CreateDownload, Requeue, LookUp, ListRoots, Begin
      <4>2. CASE Handle(r)
        <5>1. CASE ListFiles(r) \/ ReadMetadata(r)
          BY <5>1, RecoveryReads
        <5>2. CASE ~ListFiles(r) /\ ~ReadMetadata(r)
          <6>1. Reply(r) \/ \E at \in {"delrow", "deljobs"} : Goto(r, at)
            BY <2>4, <4>2, <5>2 DEF Handle, JobRefused, RemoveFolder, DeleteRow,
                                    DeleteRefused, DeleteJobs, UpsertRow
          <6> QED
            BY <1>1, <6>1 DEF Reply, Goto, NoRequest
        <5> QED
          BY <5>1, <5>2
      <4> QED
        BY <1>2, <2>4, <4>1, <4>2
    <3> QED
      BY <2>1, <3>1, <3>2 DEF Accepted, Queued, Holds
  <2> QED
    BY <2>2, <2>3, <2>4
<1>3. ASSUME NEW w \in Workers, Process(w) \/ ReportProgress(w) PROVE Accepted(e)
  <2>1. CASE Receive(w)
    <3>1. Holds(w, e)' => Queued(e)
      BY <2>1, ReceiveQueue DEF Queued, Holds
    <3>2. Queued(e)' => Queued(e)
      BY <2>1, ReceiveQueue DEF Queued
    <3>3. UNCHANGED request /\ (\A v \in Workers \ {w} : worker'[v] = worker[v])
      BY <2>1, ReceiveWorker DEF Receive
    <3> QED
      BY <3>1, <3>2, <3>3 DEF Accepted, Holds
  <2>2. CASE ~Receive(w)
    BY <1>3, <2>2, WorkingStep DEF Accepted, Queued, Holds
  <2> QED
    BY <2>1, <2>2
<1>4. CASE Crash
  BY <1>4 DEF Crash, Accepted, Queued, Holds, Resting, NoRequest
<1>5. CASE UNCHANGED vars
  BY <1>5 DEF vars, Accepted, Queued, Holds
<1> QED
  BY <1>2, <1>3, <1>4, <1>5 DEF Next

LEMMA JobRowsKeptStep ==
    ASSUME JobInv, [Next]_vars
    PROVE  JobRowsKept'
<1> SUFFICES ASSUME NEW d \in Ids, d \notin disturbed'
             PROVE  /\ Accepted(d)' => jobs'[d] # <<>>
                    /\ DeletingRows(d)' => status'[d] = "absent"
  BY DEF JobRowsKept, Row
<1>1. /\ Typed /\ d \notin disturbed
      /\ Accepted(d) => jobs[d] # <<>>
      /\ DeletingRows(d) => ~Row(d)
      /\ jobs[d] # <<>> => Row(d)
  BY DisturbedGrows DEF JobInv, AttemptInv, JobRowsKept, JobsNeedRow
<1>2. ASSUME Accepted(d)' PROVE jobs'[d] # <<>>
  <2>1. CASE Accepted(d)
    <3>1. ~\E r \in Requests : DeleteJobs(r) /\ request[r].id = d
      BY <1>1, <2>1 DEF DeleteJobs, DeletingRows
    <3> QED
      BY <1>1, <2>1, <3>1, JobsStep
  <2>2. ASSUME NEW r \in Requests, CreateJob(r), request[r].id = d PROVE jobs'[d] # <<>>
    <3>1. jobs \in [Ids -> Seq(JobRow)]
      BY <1>1 DEF Typed, TypeOK, JobRow
    <3>2. PICK s : jobs' = [jobs EXCEPT ![d] = Append(@, [state |-> "queued", second |-> s])]
      BY <2>2 DEF CreateJob
    <3> DEFINE rows == jobs[d]
    <3>3. rows \in Seq(JobRow) /\ jobs'[d] = Append(rows, [state |-> "queued", second |-> s])
      BY <3>1, <3>2
    <3>4. Append(rows, [state |-> "queued", second |-> s]) # <<>>
      BY <3>3
    <3> QED
      BY <3>3, <3>4
  <2> QED
    BY <1>1, <1>2, <2>1, <2>2, AcceptedStep
<1>3. ASSUME DeletingRows(d)', status'[d] # "absent" PROVE FALSE
  <2>1. PICK r \in Requests : request'[r].at = "deljobs" /\ request'[r].id = d
    BY <1>3 DEF DeletingRows
  <2>2. CASE request[r].at = "deljobs" /\ request[r].id = d
    <3>1. ~Row(d) /\ d \in issued
      BY <1>1, <2>2 DEF DeletingRows, JobInv, RequestsIssued
    <3> QED
      BY <1>1, <1>3, <3>1, RowBorn
  <2>3. CASE ~(request[r].at = "deljobs" /\ request[r].id = d)
    <3>1. DeleteRow(r) /\ request[r].id = d
      <4>1. request \in [Requests -> [op : Ops \cup {"none"}, id : Ids \cup {"none"},
                                      at : Steps, seen : Backends \cup {"none"}]]
        BY <1>1 DEF Typed, TypeOK
      <4>2. ~Crash /\ request'[r] # request[r]
        BY <2>1, <2>3 DEF Crash, NoRequest
      <4>3. ASSUME NEW w \in Workers, Process(w) \/ ReportProgress(w) PROVE FALSE
        <5>1. UNCHANGED request
          BY <4>3 DEF Process, ReportProgress, Receive, Load, LoadFails, StartDownload,
               WriteJob, FetchEnds, StartUpload, OpenBackend, StoreFile, StoreFails, Persist,
               Finish, Close, Fail, SetState, LastStatus
        <5> QED
          BY <4>2, <5>1
      <4>4. Arrive(r) \/ Handle(r) \/ Send(r)
        <5>1. PICK q \in Requests : Arrive(q) \/ Handle(q) \/ Send(q)
          BY <4>2, <4>3 DEF Next, vars
        <5>2. q = r
          BY <1>1, <4>2, <5>1, HandlerStep
        <5> QED
          BY <5>1, <5>2
      <4>5. ~Arrive(r)
        BY <2>1, <4>1 DEF Arrive, CreateDownload, Requeue, LookUp, ListRoots, Begin
      <4>6. ~Reply(r) /\ ~Goto(r, "send") /\ ~Goto(r, "delrow")
        BY <2>1, <4>1 DEF Reply, Goto, NoRequest
      <4>7. ~ListFiles(r) /\ ~ReadMetadata(r)
        BY <1>1, <2>1, RecoveryReads
      <4>8. DeleteRow(r)
        BY <4>4, <4>5, <4>6, <4>7 DEF Handle, CreateJob, JobRefused, RemoveFolder,
                                      DeleteRefused, DeleteJobs, UpsertRow, Send
      <4> QED
        BY <2>1, <4>1, <4>8 DEF DeleteRow, Goto
    <3> QED
      BY <1>1, <1>3, <3>1 DEF DeleteRow, Typed, TypeOK
  <2> QED
    BY <2>2, <2>3
<1> QED
  BY <1>2, <1>3

\* A worker comes to rest by one of three steps.
LEMMA WorkerRests ==
    ASSUME Typed, NEW w \in Workers, Process(w) \/ ReportProgress(w), ~Receive(w),
           worker'[w].at = "idle"
    PROVE  (LoadFails(w) \/ Close(w) \/ Fail(w)) /\ worker'[w].id = "none"
<1>1. worker[w].at # "idle"
  BY WorkingStep
<1>2. ~\E at \in Stages \ {"idle"} : Move(w, at)
  BY WorkersTyped DEF Move
<1>3. ~\E at \in Stages \ {"idle"}, s \in Statuses : SetState(w, at, s)
  BY SetStateWorker
<1>4. ~WriteJob(w)
  <2>1. ASSUME worker' = [worker EXCEPT ![w] = [worker[w] EXCEPT !.owes = FALSE]] PROVE FALSE
    BY <1>1, <2>1, WorkersTyped
  <2> QED
    BY <2>1 DEF WriteJob
<1>5. ~OpenBackend(w)
  <2>1. ASSUME NEW b \in Backends,
               worker' = [worker EXCEPT ![w] = [worker[w] EXCEPT !.at = "video", !.to = b]]
        PROVE  FALSE
    BY <2>1, WorkersTyped
  <2> QED
    BY <2>1 DEF OpenBackend
<1>6. ~StartDownload(w) /\ ~ReportProgress(w) /\ ~StartUpload(w) /\ ~Finish(w)
  BY <1>3 DEF StartDownload, ReportProgress, StartUpload, Finish, Ready, Stages, Statuses,
              Unfinished
<1>7. ~Load(w) /\ ~FetchEnds(w) /\ ~StoreFails(w) /\ ~Persist(w)
      /\ ~\E part \in Parts : StoreFile(w, part)
  BY <1>2 DEF Load, FetchEnds, StoreFails, Persist, StoreFile, AfterStore, Parts, Stages
<1>8. LoadFails(w) \/ Close(w) \/ Fail(w)
  BY <1>4, <1>5, <1>6, <1>7 DEF Process
<1>9. worker'[w] = Resting
  BY <1>8, WorkersTyped DEF LoadFails, Close, Fail, LastStatus, Rest
<1> QED
  BY <1>8, <1>9 DEF Resting

\* How a download leaves the hands of those who had it.
LEMMA FlightEnds ==
    ASSUME Typed, [Next]_vars, NEW d \in Ids, InFlight(d), ~InFlight(d)'
    PROVE  \/ \E r \in Requests : JobRefused(r) /\ Submits(r, d)
           \/ \E w \in Workers : /\ LoadFails(w) \/ Close(w) \/ Fail(w)
                                 /\ Holds(w, d)
           \/ Crash
<1>1. ASSUME NEW r \in Requests, Arrive(r) \/ Handle(r) \/ Send(r)
      PROVE  JobRefused(r) /\ Submits(r, d)
  <2>1. ~Send(r)
    <3>1. ASSUME Send(r) PROVE FALSE
      <4>1. /\ queue \in Seq(Ids) /\ request[r].id \in Ids
            /\ queue' = Append(queue, request[r].id)
        BY <3>1 DEF Send, Typed, TypeOK, BusyHasId
      <4>2. /\ \A i \in DOMAIN queue : i \in DOMAIN queue' /\ queue'[i] = queue[i]
            /\ Len(queue) + 1 \in DOMAIN queue' /\ queue'[Len(queue) + 1] = request[r].id
        BY <4>1, AppendProperties, LenProperties
      <4>3. (Queued(d) \/ request[r].id = d) => Queued(d)'
        BY <4>2 DEF Queued
      <4> QED
        BY <3>1, <4>3, HandlerStep DEF InFlight, Holds, Submits
    <3> QED
      BY <3>1
  <2>2. Submits(r, d) /\ ~Submits(r, d)'
    BY <1>1, <2>1, HandlerStep, InFlightHandler
  <2>3. request[r].at \in {"job", "send"}
    BY <2>2 DEF Submits
  <2>4. ~Arrive(r)
    BY <2>3 DEF Arrive, CreateDownload, Requeue, LookUp, ListRoots, Begin, NoRequest
  <2>5. ~CreateJob(r)
    BY <2>2 DEF CreateJob, Goto, Submits, Typed, TypeOK
  <2> QED
    BY <1>1, <2>1, <2>2, <2>3, <2>4, <2>5 DEF Handle, RemoveFolder, DeleteRow, DeleteRefused,
       DeleteJobs, ListFiles, ReadMetadata, UpsertRow
<1>2. ASSUME NEW w \in Workers, Process(w) \/ ReportProgress(w)
      PROVE  (LoadFails(w) \/ Close(w) \/ Fail(w)) /\ Holds(w, d)
  <2>1. ~Receive(w)
    <3>1. ASSUME Receive(w) PROVE FALSE
      <4>1. /\ queue \in Seq(Ids) /\ queue # <<>> /\ queue' = Tail(queue)
            /\ worker'[w].id = Head(queue) /\ worker'[w].at = "load" /\ worker[w].at = "idle"
            /\ \A v \in Workers \ {w} : worker'[v] = worker[v]
            /\ UNCHANGED request
        BY <3>1, ReceiveWorker DEF Typed, TypeOK, Receive
      <4>2. ~Queued(d)
        <5>1. ASSUME NEW i \in DOMAIN queue, queue[i] = d PROVE FALSE
          <6>1. CASE i = 1
            BY <4>1, <5>1, <6>1, HeadTailProperties DEF InFlight, Holds
          <6>2. CASE i # 1
            <7>1. i - 1 \in DOMAIN queue' /\ queue'[i - 1] = queue[i]
              BY <4>1, <5>1, <6>2, HeadTailProperties, LenProperties
            <7> QED
              BY <5>1, <7>1 DEF InFlight, Queued
          <6> QED
            BY <6>1, <6>2
        <5> QED
          BY <5>1 DEF Queued
      <4> QED
        BY <4>1, <4>2 DEF InFlight, Holds, Submits
    <3> QED
      BY <3>1
  <2>2. Holds(w, d) /\ ~Holds(w, d)'
    BY <1>2, <2>1, WorkingStep, InFlightWorker
  <2>3. worker'[w].at = "idle"
    BY <1>2, <2>1, <2>2, WorkingStep DEF Holds
  <2> QED
    BY <1>2, <2>1, <2>2, <2>3, WorkerRests
<1>3. ~UNCHANGED vars
  BY DEF vars, InFlight, Queued, Holds, Submits
<1> QED
  BY <1>1, <1>2, <1>3 DEF Next

\* Mishaps are counted.
LEMMA MishapsCounted ==
    ASSUME Typed, [Next]_vars, mishaps' = 0
    PROVE  mishaps = 0 /\ ~Mishap
<1>1. ~Mishap
  BY DEF Mishap, Typed, TypeOK
<1>2. ASSUME NEW r \in Requests, Arrive(r) \/ Handle(r) \/ Send(r) PROVE UNCHANGED mishaps
  BY <1>1, <1>2 DEF Arrive, CreateDownload, Requeue, LookUp, ListRoots, Handle, CreateJob,
       JobRefused, RemoveFolder, DeleteRow, DeleteRefused, DeleteJobs, ListFiles, ReadMetadata, UpsertRow, Send
<1>3. ASSUME NEW w \in Workers, Process(w) \/ ReportProgress(w) PROVE UNCHANGED mishaps
  BY <1>1, <1>3 DEF Process, ReportProgress, Receive, Load, LoadFails, StartDownload, WriteJob,
       FetchEnds, StartUpload, OpenBackend, StoreFile, StoreFails, Persist, Finish, Close,
       Fail, SetState, LastStatus, TryStatus
<1> QED
  BY <1>1, <1>2, <1>3 DEF Next, Crash, vars

(***************************************************************************)
(* The job rows of a download that is not in flight after the step, or is  *)
(* in the hands of another worker than the one that steps, do not change.  *)
(***************************************************************************)
LEMMA JobFollowsStep ==
    ASSUME JobInv, [Next]_vars
    PROVE  JobFollows'
<1> SUFFICES ASSUME mishaps' = 0, NEW d \in Ids, d \notin disturbed'
             PROVE  /\ status'[d] = "complete" /\ ~InFlight(d)' => LatestIsComplete(d)'
                    /\ \A w \in Workers :
                          Holds(w, d)' /\ worker'[w].at = "closing" /\ ~worker'[w].owes =>
                             LatestIsComplete(d)'
  BY DEF JobFollows
<1>1. /\ Typed /\ AttemptInv /\ d \notin disturbed /\ Sole(d) /\ mishaps = 0 /\ ~Mishap
      /\ Waits(d) => status[d] \in {"absent", "queued"}
      /\ \A w \in Workers : Holds(w, d) => status[d] \in Reached(worker[w].at)
  BY DisturbedGrows, MishapsCounted DEF JobInv, AttemptInv, SoleAttempt, StatusFollows
<1>2. /\ Accepted(d) => jobs[d] # <<>>
      /\ DeletingRows(d) => ~Row(d)
      /\ jobs[d] # <<>> => Row(d)
  BY <1>1 DEF JobInv, JobRowsKept, JobsNeedRow
<1>3. /\ status[d] = "complete" /\ ~InFlight(d) => LatestIsComplete(d)
      /\ \A w \in Workers : Holds(w, d) /\ worker[w].at = "closing" /\ ~worker[w].owes =>
                               LatestIsComplete(d)
  BY <1>1 DEF JobInv, JobFollows
<1>4. \/ UNCHANGED jobs[d]
      \/ \E r \in Requests : CreateJob(r) /\ Submits(r, d)
      \/ \E w \in Workers : WriteJob(w) /\ worker[w].id = d
  <2>1. ASSUME NEW r \in Requests, DeleteJobs(r), request[r].id = d, jobs'[d] = <<>>
        PROVE  UNCHANGED jobs[d]
    BY <1>2, <2>1 DEF DeletingRows, DeleteJobs
  <2> QED
    BY <1>1, <2>1, JobsStep DEF CreateJob, Submits
<1>5. UNCHANGED jobs[d] /\ LatestIsComplete(d) => LatestIsComplete(d)'
  BY DEF LatestIsComplete, Latest
<1>6. ASSUME NEW r \in Requests, CreateJob(r), Submits(r, d)
      PROVE  InFlight(d)' /\ \A w \in Workers : ~Holds(w, d)'
  BY <1>1, <1>6 DEF CreateJob, Goto, Submits, InFlight, Holds, Sole, Typed, TypeOK
<1>7. ASSUME NEW w \in Workers, WriteJob(w), worker[w].id = d
      PROVE  /\ Holds(w, d) /\ Holds(w, d)' /\ worker'[w].at = worker[w].at
             /\ \A v \in Workers \ {w} : ~Holds(v, d)'
  <2>1. worker' = [worker EXCEPT ![w] = [worker[w] EXCEPT !.owes = FALSE]]
    BY <1>7 DEF WriteJob
  <2>2. Holds(w, d)
    BY <1>1, <1>7 DEF WriteJob, Holds, Typed, BusyHasId
  <2>3. Holds(w, d)' /\ worker'[w].at = worker[w].at
    BY <1>1, <2>1, <2>2, WorkersTyped DEF Holds
  <2>4. \A v \in Workers \ {w} : worker'[v] = worker[v]
    BY <1>1, <2>1, WorkersTyped
  <2> QED
    BY <1>1, <2>2, <2>3, <2>4 DEF Sole, Holds
<1>8. ASSUME status'[d] = "complete", ~InFlight(d)' PROVE LatestIsComplete(d)'
  <2>1. UNCHANGED jobs[d]
    BY <1>4, <1>6, <1>7, <1>8 DEF InFlight
  <2>2. CASE ~InFlight(d)
    <3>1. status[d] = "complete"
      BY <1>1, <1>8, <2>2, StatusStep DEF InFlight
    <3> QED
      BY <1>3, <1>5, <2>1, <2>2, <3>1
  <2>3. CASE InFlight(d)
    <3>1. ~Crash
      BY <1>1 DEF Crash
    <3>2. ASSUME NEW r \in Requests, JobRefused(r), Submits(r, d) PROVE FALSE
      BY <1>1, <1>8, <3>2 DEF JobRefused, Waits, tables
    <3>3. ASSUME NEW w \in Workers, LoadFails(w), Holds(w, d) PROVE FALSE
      <4>1. status[d] \in {"absent", "queued"}
        BY <1>1, <3>3 DEF LoadFails, Ready, Reached
      <4> QED
        BY <1>8, <3>3, <4>1 DEF LoadFails, tables
    <3>4. ASSUME NEW w \in Workers, Fail(w), Holds(w, d) PROVE FALSE
      BY <1>1, <1>8, <3>4 DEF Fail, LastStatus, WithStatus, Holds, Typed, TypeOK
    <3>5. ASSUME NEW w \in Workers, Close(w), Holds(w, d) PROVE LatestIsComplete(d)
      BY <1>3, <3>5 DEF Close, Ready
    <3> QED
      BY <1>1, <1>5, <1>8, <2>1, <2>3, <3>1, <3>2, <3>3, <3>4, <3>5, FlightEnds
  <2> QED
    BY <2>2, <2>3
<1>9. ASSUME NEW w \in Workers, Holds(w, d)', worker'[w].at = "closing", ~worker'[w].owes
      PROVE  LatestIsComplete(d)'
  <2>1. CASE worker'[w] = worker[w]
    <3>1. ~\E v \in Workers : WriteJob(v) /\ worker[v].id = d
      <4>1. ASSUME NEW v \in Workers, WriteJob(v), worker[v].id = d PROVE FALSE
        <5>1. v = w
          BY <1>7, <1>9, <4>1
        <5>2. worker[w].owes
          BY <4>1, <5>1 DEF WriteJob
        <5> QED
          BY <1>9, <2>1, <5>2
      <4> QED
        BY <4>1
    <3>2. UNCHANGED jobs[d]
      BY <1>4, <1>6, <1>9, <3>1
    <3> QED
      BY <1>3, <1>5, <1>9, <2>1, <3>2 DEF Holds
  <2>2. CASE worker'[w] # worker[w]
    <3>1. WriteJob(w)
      <4>1. ~Crash
        BY <1>1 DEF Crash
      <4>2. ASSUME NEW r \in Requests, Arrive(r) \/ Handle(r) \/ Send(r) PROVE FALSE
        BY <1>1, <2>2, <4>2, HandlerStep
      <4>3. PICK v \in Workers : Process(v) \/ ReportProgress(v)
        BY <2>2, <4>1, <4>2 DEF Next, vars
      <4>4. ~Receive(v) /\ v = w
        BY <1>1, <1>9, <2>2, <4>3, ReceiveWorker, WorkingStep
      <4>5. ~\E at, s : SetState(w, at, s)
        BY <1>1, <1>9, SetStateWorker
      <4>6. ~\E at \in Stages \ {"closing"} : Move(w, at)
        BY <1>1, <1>9, WorkersTyped DEF Move
      <4>7. ~Rest(w)
        BY <1>1, <1>9, WorkersTyped DEF Rest, Resting
      <4>8. ~OpenBackend(w)
        <5>1. ASSUME NEW b \in Backends,
                     worker' = [worker EXCEPT ![w] =
                                   [worker[w] EXCEPT !.at = "video", !.to = b]]
              PROVE  FALSE
          BY <1>1, <1>9, <5>1, WorkersTyped
        <5> QED
          BY <5>1 DEF OpenBackend
      <4> QED
        BY <4>3, <4>4, <4>5, <4>6, <4>7, <4>8
        DEF Process, ReportProgress, Load, LoadFails, StartDownload, FetchEnds, StartUpload,
            StoreFile, StoreFails, Persist, Finish, Close, Fail, LastStatus, AfterStore,
            Parts, Stages
    <3>2. worker[w].id = d /\ worker[w].at = "closing"
      <4>1. worker' = [worker EXCEPT ![w] = [worker[w] EXCEPT !.owes = FALSE]]
        BY <3>1 DEF WriteJob
      <4> QED
        BY <1>1, <1>9, <4>1, WorkersTyped DEF Holds
    <3>3. UpdateLatestJob(d, "complete")
      BY <1>1, <3>1, <3>2 DEF WriteJob
    <3>4. jobs[d] # <<>>
      BY <1>2, <1>7, <3>1, <3>2 DEF Accepted
    <3> QED
      BY <1>1, <3>3, <3>4, LatestUpdated DEF LatestIsComplete
  <2> QED
    BY <2>1, <2>2
<1> QED
  BY <1>8, <1>9

(***************************************************************************)
(* When the only attempt on a download is over and left it complete, its   *)
(* latest job row says complete too, for any number of downloads, workers  *)
(* and handlers: setState updates both rows, and only the holder of the    *)
(* attempt does.                                                           *)
(***************************************************************************)
THEOREM JobAgrees == Spec => []CompleteJobAgrees
<1>1. Init => JobInv
  BY AttemptInit
  DEF Init, JobInv, JobsNeedRow, RequestsIssued, JobRowsKept, DeletingRows, Accepted, JobFollows,
      Queued, Holds, Resting, NoRequest
<1>2. JobInv /\ [Next]_vars => JobInv'
  BY AttemptNext, JobsNeedRowStep, RequestsIssuedStep, JobRowsKeptStep, JobFollowsStep
  DEF JobInv, AttemptInv
<1>3. JobInv => CompleteJobAgrees
  BY DEF JobInv, JobFollows, CompleteJobAgrees, LatestIsComplete
<1> QED
  BY <1>1, <1>2, <1>3, PTL DEF Spec
-----------------------------------------------------------------------------
(***************************************************************************)
(* The backlog of WorkQueue, counted.  The handlers that submit something  *)
(* are finitely many, so they can be counted.                              *)
(***************************************************************************)
Slots(d)   == {i \in DOMAIN queue : queue[i] = d}
Senders(d) == {r \in Requests : request[r].at = "send" /\ request[r].id = d}
Busy       == {r \in Requests : request[r].at # "none"}

\* A worker at rest names no download.
RestsNameless == \A w \in Workers : worker[w].at = "idle" => worker[w].id = "none"

CountInv == Typed /\ IsFiniteSet(Busy) /\ RestsNameless

LEMMA BusyStep ==
    ASSUME Typed, IsFiniteSet(Busy), [Next]_vars
    PROVE  IsFiniteSet(Busy)'
<1>1. ASSUME NEW r \in Requests, Arrive(r) \/ Handle(r) \/ Send(r)
      PROVE  IsFiniteSet(Busy)'
  <2>1. Busy' \subseteq Busy \cup {r}
    BY <1>1, HandlerStep DEF Busy
  <2> QED
    BY <2>1, FS_AddElement, FS_Subset
<1>2. ASSUME NEW w \in Workers, Process(w) \/ ReportProgress(w) PROVE IsFiniteSet(Busy)'
  <2>1. UNCHANGED request
    BY <1>2 DEF Process, ReportProgress, Receive, Load, LoadFails, StartDownload, WriteJob,
         FetchEnds, StartUpload, OpenBackend, StoreFile, StoreFails, Persist, Finish, Close,
         Fail, SetState, LastStatus
  <2> QED
    BY <2>1 DEF Busy
<1>3. CASE Crash
  <2>1. Busy' = {}
    BY <1>3 DEF Crash, Busy, NoRequest
  <2> QED
    BY <2>1, FS_EmptySet
<1>4. CASE UNCHANGED vars
  BY <1>4 DEF vars, Busy
<1> QED
  BY <1>1, <1>2, <1>3, <1>4 DEF Next

LEMMA RestsStep ==
    ASSUME Typed, RestsNameless, [Next]_vars
    PROVE  RestsNameless'
<1>1. ASSUME NEW w \in Workers, Process(w) \/ ReportProgress(w) PROVE RestsNameless'
  <2>1. CASE Receive(w)
    BY <2>1, ReceiveWorker DEF RestsNameless
  <2>2. CASE ~Receive(w)
    <3>1. worker'[w].at = "idle" => worker'[w].id = "none"
      BY <1>1, <2>2, WorkerRests
    <3> QED
      BY <1>1, <2>2, <3>1, WorkingStep DEF RestsNameless
  <2> QED
    BY <2>1, <2>2
<1>2. ASSUME NEW r \in Requests, Arrive(r) \/ Handle(r) \/ Send(r) PROVE RestsNameless'
  BY <1>2, HandlerStep DEF RestsNameless
<1>3. CASE Crash
  BY <1>3 DEF Crash, Resting, RestsNameless
<1>4. CASE UNCHANGED vars
  BY <1>4 DEF vars, RestsNameless
<1> QED
  BY <1>1, <1>2, <1>3, <1>4 DEF Next

\* Counting is not disturbed by a shift of the channel by one place.
LEMMA ShiftCount ==
    ASSUME NEW S \in SUBSET Nat, NEW T, IsFiniteSet(S), T = {i + 1 : i \in S}
    PROVE  IsFiniteSet(T) /\ Cardinality(T) = Cardinality(S)
<1> DEFINE f == [i \in S |-> i + 1]
<1>1. f \in Bijection(S, T)
  BY Fun_IsBij
<1>2. ExistsBijection(S, T)
  BY <1>1 DEF ExistsBijection
<1> QED
  BY <1>2, FS_Bijection

LEMMA SlotsFinite ==
    ASSUME Typed, NEW d
    PROVE  IsFiniteSet(Slots(d)) /\ Slots(d) \subseteq Nat
<1>1. queue \in Seq(Ids)
  BY DEF Typed, TypeOK
<1>2. Slots(d) \subseteq 1..Len(queue) /\ Len(queue) \in Nat
  BY <1>1, LenProperties DEF Slots
<1>3. IsFiniteSet(1..Len(queue))
  BY <1>2, FS_Interval
<1> QED
  BY <1>2, <1>3, FS_Subset

LEMMA SendersFinite ==
    ASSUME IsFiniteSet(Busy), NEW d
    PROVE  IsFiniteSet(Senders(d))
<1>1. Senders(d) \subseteq Busy
  BY DEF Senders, Busy
<1> QED
  BY <1>1, FS_Subset

LEMMA BacklogIs ==
    ASSUME NEW d
    PROVE  Backlog(d) = Cardinality(Slots(d)) + Cardinality(Senders(d))
BY DEF Backlog, Slots, Senders

\* The insertion of a job row adds one to the backlog of its download.
LEMMA CreateJobCounts ==
    ASSUME CountInv, NEW r \in Requests, CreateJob(r), NEW e \in Ids
    PROVE  Backlog(e)' = Backlog(e) + (IF e = request[r].id THEN 1 ELSE 0)
<1>1. /\ UNCHANGED queue /\ request[r].at = "job"
      /\ request' = [request EXCEPT ![r].at = "send"]
      /\ request \in [Requests -> [op : Ops \cup {"none"}, id : Ids \cup {"none"},
                                   at : Steps, seen : Backends \cup {"none"}]]
  BY DEF CreateJob, Goto, CountInv, Typed, TypeOK
<1>2. Slots(e)' = Slots(e)
  BY <1>1 DEF Slots
<1>3. r \notin Senders(e) /\ IsFiniteSet(Senders(e)) /\ IsFiniteSet(Slots(e))
  BY <1>1, SendersFinite, SlotsFinite DEF Senders, CountInv
<1>4. Cardinality(Senders(e)) \in Nat /\ Cardinality(Slots(e)) \in Nat
  BY <1>3, FS_CardinalityType
<1>5. CASE e = request[r].id
  <2>1. Senders(e)' = Senders(e) \cup {r}
    BY <1>1, <1>5 DEF Senders
  <2>2. Cardinality(Senders(e)') = Cardinality(Senders(e)) + 1
    BY <1>3, <2>1, FS_AddElement
  <2>3. Backlog(e)' = Cardinality(Slots(e)') + Cardinality(Senders(e)')
    BY DEF Backlog, Slots, Senders
  <2> QED
    BY <1>2, <1>4, <1>5, <2>2, <2>3, BacklogIs
<1>6. CASE e # request[r].id
  <2>1. Senders(e)' = Senders(e)
    BY <1>1, <1>6 DEF Senders
  <2>2. Backlog(e)' = Cardinality(Slots(e)') + Cardinality(Senders(e)')
    BY DEF Backlog, Slots, Senders
  <2> QED
    BY <1>2, <1>4, <1>6, <2>1, <2>2, BacklogIs
<1> QED
  BY <1>5, <1>6

\* The send moves an attempt from its handler into the channel.
LEMMA SendCounts ==
    ASSUME CountInv, NEW r \in Requests, Send(r), NEW e \in Ids
    PROVE  Backlog(e)' = Backlog(e)
<1> DEFINE n == Len(queue) + 1
<1>1. /\ queue \in Seq(Ids) /\ request[r].id \in Ids
      /\ queue' = Append(queue, request[r].id)
      /\ request[r].at = "send" /\ request' = [request EXCEPT ![r] = NoRequest]
      /\ request \in [Requests -> [op : Ops \cup {"none"}, id : Ids \cup {"none"},
                                   at : Steps, seen : Backends \cup {"none"}]]
  BY DEF Send, Reply, CountInv, Typed, TypeOK, BusyHasId
<1>2. /\ DOMAIN queue' = DOMAIN queue \cup {n} /\ n \notin DOMAIN queue
      /\ queue'[n] = request[r].id
      /\ \A i \in DOMAIN queue : queue'[i] = queue[i]
  BY <1>1, AppendProperties, LenProperties
<1>3. IsFiniteSet(Senders(e)) /\ IsFiniteSet(Slots(e))
  BY SendersFinite, SlotsFinite DEF CountInv
<1>4. Cardinality(Senders(e)) \in Nat /\ Cardinality(Slots(e)) \in Nat
  BY <1>3, FS_CardinalityType
<1>5. Backlog(e)' = Cardinality(Slots(e)') + Cardinality(Senders(e)')
  BY DEF Backlog, Slots, Senders
<1>6. CASE e = request[r].id
  <2>1. Slots(e)' = Slots(e) \cup {n} /\ n \notin Slots(e)
    BY <1>2, <1>6 DEF Slots
  <2>2. Senders(e)' = Senders(e) \ {r} /\ r \in Senders(e)
    BY <1>1, <1>6 DEF Senders, NoRequest
  <2>3. Cardinality(Slots(e)') = Cardinality(Slots(e)) + 1
    BY <1>3, <2>1, FS_AddElement
  <2>4. Cardinality(Senders(e)') = Cardinality(Senders(e)) - 1
    BY <1>3, <2>2, FS_RemoveElement
  <2> QED
    BY <1>4, <1>5, <2>3, <2>4, BacklogIs
<1>7. CASE e # request[r].id
  <2>1. Slots(e)' = Slots(e)
    BY <1>2, <1>7 DEF Slots
  <2>2. Senders(e)' = Senders(e)
    BY <1>1, <1>7 DEF Senders, NoRequest
  <2> QED
    BY <1>5, <2>1, <2>2, BacklogIs
<1> QED
  BY <1>6, <1>7

\* The receipt takes one attempt of the download it receives.
LEMMA ReceiveCounts ==
    ASSUME CountInv, NEW w \in Workers, Receive(w), NEW e \in Ids
    PROVE  /\ Backlog(e)' = Backlog(e) - (IF e = worker'[w].id THEN 1 ELSE 0)
           /\ Backlog(e) \in Nat
           /\ e = worker'[w].id => Backlog(e) > 0
<1>1. /\ queue \in Seq(Ids) /\ queue # <<>> /\ queue' = Tail(queue)
      /\ worker'[w].id = Head(queue) /\ UNCHANGED request
  BY ReceiveWorker DEF CountInv, Typed, TypeOK, Receive
<1>2. /\ \A i \in DOMAIN queue' : i \in Nat /\ i + 1 \in DOMAIN queue /\ queue'[i] = queue[i + 1]
      /\ \A i \in DOMAIN queue \ {1} : \E j \in DOMAIN queue' : j + 1 = i /\ queue'[j] = queue[i]
      /\ 1 \in DOMAIN queue /\ queue[1] = worker'[w].id
  <2>1. /\ Len(queue) \in Nat \ {0} /\ Len(queue') = Len(queue) - 1
        /\ DOMAIN queue = 1..Len(queue) /\ DOMAIN queue' = 1..Len(queue')
        /\ \A i \in 1..Len(queue') : queue'[i] = queue[i + 1]
        /\ queue[1] = worker'[w].id
    BY <1>1, HeadTailProperties, LenProperties
  <2>2. ASSUME NEW i \in DOMAIN queue \ {1}
        PROVE  \E j \in DOMAIN queue' : j + 1 = i /\ queue'[j] = queue[i]
    <3>1. i - 1 \in DOMAIN queue' /\ (i - 1) + 1 = i
      BY <2>1, <2>2
    <3> QED
      BY <2>1, <3>1
  <2> QED
    BY <2>1, <2>2
<1>3. /\ IsFiniteSet(Senders(e)) /\ IsFiniteSet(Slots(e)) /\ IsFiniteSet(Slots(e)')
      /\ Slots(e)' \subseteq Nat
  <2>1. Slots(e)' \subseteq 1..Len(queue') /\ Len(queue') \in Nat
    BY <1>1, HeadTailProperties, LenProperties DEF Slots
  <2>2. IsFiniteSet(1..Len(queue'))
    BY <2>1, FS_Interval
  <2> QED
    BY <2>1, <2>2, FS_Subset, SendersFinite, SlotsFinite DEF CountInv
<1>4. /\ Cardinality(Senders(e)) \in Nat /\ Cardinality(Slots(e)) \in Nat
      /\ Cardinality(Slots(e)') \in Nat
  BY <1>3, FS_CardinalityType
<1>5. Slots(e) \ {1} = {i + 1 : i \in Slots(e)'}
  <2>1. ASSUME NEW i \in Slots(e)' PROVE i + 1 \in Slots(e) \ {1}
    <3>1. i \in DOMAIN queue' /\ queue'[i] = e
      BY <2>1 DEF Slots
    <3>2. i \in Nat /\ i \in 1..Len(queue') /\ i + 1 \in DOMAIN queue /\ queue[i + 1] = e
      BY <1>1, <1>2, <3>1, HeadTailProperties, LenProperties
    <3> QED
      BY <3>2 DEF Slots
  <2>2. ASSUME NEW k \in Slots(e) \ {1} PROVE \E i \in Slots(e)' : i + 1 = k
    <3>1. k \in DOMAIN queue \ {1} /\ queue[k] = e
      BY <2>2 DEF Slots
    <3>2. PICK j \in DOMAIN queue' : j + 1 = k /\ queue'[j] = e
      BY <1>2, <3>1
    <3> QED
      BY <3>2 DEF Slots
  <2> QED
    BY <2>1, <2>2
<1>6. Cardinality(Slots(e) \ {1}) = Cardinality(Slots(e)')
  BY <1>3, <1>5, ShiftCount
<1>7. Cardinality(Slots(e) \ {1}) =
          IF 1 \in Slots(e) THEN Cardinality(Slots(e)) - 1 ELSE Cardinality(Slots(e))
  BY <1>3, FS_RemoveElement
<1>8. 1 \in Slots(e) <=> e = worker'[w].id
  BY <1>2 DEF Slots
<1>9. Backlog(e)' = Cardinality(Slots(e)') + Cardinality(Senders(e))
  BY <1>1 DEF Backlog, Slots, Senders
<1> QED
  BY <1>4, <1>6, <1>7, <1>8, <1>9, BacklogIs
-----------------------------------------------------------------------------
(***************************************************************************)
(* Each step of the pipeline is a step of WorkQueue, or changes nothing    *)
(* that WorkQueue knows.                                                   *)
(***************************************************************************)
BacklogMap == [d \in Ids |-> Backlog(d)]
RunningMap == [w \in Workers |-> worker[w].id]

LEMMA HandlerImplements ==
    ASSUME CountInv, NEW r \in Requests, Arrive(r) \/ Handle(r) \/ Send(r)
    PROVE  /\ UNCHANGED RunningMap
           /\ \/ UNCHANGED BacklogMap
              \/ \E d \in Ids : BacklogMap' = [BacklogMap EXCEPT ![d] = @ + 1]
<1>1. UNCHANGED RunningMap
  BY HandlerStep DEF RunningMap, CountInv
<1>2. request \in [Requests -> [op : Ops \cup {"none"}, id : Ids \cup {"none"},
                                at : Steps, seen : Backends \cup {"none"}]]
  BY DEF CountInv, Typed, TypeOK
<1>3. CASE CreateJob(r)
  <2>1. PICK d \in Ids : d = request[r].id
    BY <1>3 DEF CreateJob, CountInv, Typed, BusyHasId
  <2>2. \A e \in Ids \ {d} : Backlog(e)' = Backlog(e)
    <3>1. ASSUME NEW e \in Ids, e # d PROVE Backlog(e)' = Backlog(e)
      <4>1. Backlog(e)' = Backlog(e) + 0
        BY <1>3, <2>1, <3>1, CreateJobCounts
      <4>2. Backlog(e) \in Nat
        <5>1. Cardinality(Slots(e)) \in Nat /\ Cardinality(Senders(e)) \in Nat
          BY SendersFinite, SlotsFinite, FS_CardinalityType DEF CountInv
        <5> QED
          BY <5>1, BacklogIs
      <4> QED
        BY <4>1, <4>2
    <3> QED
      BY <3>1
  <2>3. Backlog(d)' = Backlog(d) + 1
    BY <1>3, <2>1, CreateJobCounts
  <2>4. BacklogMap' = [BacklogMap EXCEPT ![d] = @ + 1]
    BY <2>2, <2>3 DEF BacklogMap
  <2> QED
    BY <1>1, <2>4
<1>4. CASE Send(r)
  BY <1>1, <1>4, SendCounts DEF BacklogMap
<1>5. CASE ~CreateJob(r) /\ ~Send(r)
  <2>1. UNCHANGED queue /\ \A q \in Requests \ {r} : request'[q] = request[q]
    BY HandlerStep, <1>5 DEF CountInv
  <2>2. request[r].at # "send"
    BY <1>5 DEF Arrive, CreateDownload, Requeue, LookUp, ListRoots, Begin, NoRequest, Handle,
         JobRefused, RemoveFolder, DeleteRow, DeleteRefused, DeleteJobs, ListFiles, ReadMetadata, UpsertRow
  <2>3. request'[r].at # "send"
    <3>1. CASE Arrive(r)
      BY <1>2, <3>1 DEF Arrive, CreateDownload, Requeue, LookUp, ListRoots, Begin
    <3>2. CASE Handle(r)
      <4>1. CASE ListFiles(r) \/ ReadMetadata(r)
        BY <4>1, RecoveryReads DEF CountInv
      <4>2. CASE ~ListFiles(r) /\ ~ReadMetadata(r)
        <5>1. Reply(r) \/ \E at \in {"delrow", "deljobs"} : Goto(r, at)
          BY <1>5, <3>2, <4>2 DEF Handle, JobRefused, RemoveFolder, DeleteRow,
                                  DeleteRefused, DeleteJobs, UpsertRow
        <5> QED
          BY <1>2, <5>1 DEF Reply, Goto, NoRequest
      <4> QED
        BY <4>1, <4>2
    <3> QED
      BY <1>5, <3>1, <3>2
  <2>4. \A d : Slots(d)' = Slots(d) /\ Senders(d)' = Senders(d)
    BY <2>1, <2>2, <2>3 DEF Slots, Senders
  <2> QED
    BY <1>1, <2>4 DEF BacklogMap, Backlog, Slots, Senders
<1> QED
  BY <1>3, <1>4, <1>5

LEMMA WorkerImplements ==
    ASSUME CountInv, NEW w \in Workers, Process(w) \/ ReportProgress(w)
    PROVE  \/ UNCHANGED <<BacklogMap, RunningMap>>
           \/ \E d \in Ids :
                 /\ RunningMap[w] = "none" /\ BacklogMap[d] > 0
                 /\ BacklogMap' = [BacklogMap EXCEPT ![d] = @ - 1]
                 /\ RunningMap' = [RunningMap EXCEPT ![w] = d]
           \/ /\ RunningMap[w] # "none"
              /\ RunningMap' = [RunningMap EXCEPT ![w] = "none"]
              /\ UNCHANGED BacklogMap
<1>1. CASE Receive(w)
  <2>1. /\ worker[w].at = "idle" /\ worker'[w].id \in Ids
        /\ \A v \in Workers \ {w} : worker'[v] = worker[v]
    BY <1>1, ReceiveWorker, ReceiveQueue DEF CountInv
  <2>2. RunningMap[w] = "none"
    BY <2>1 DEF RunningMap, CountInv, RestsNameless
  <2>3. RunningMap' = [RunningMap EXCEPT ![w] = worker'[w].id]
    BY <2>1 DEF RunningMap
  <2>4. PICK d \in Ids : d = worker'[w].id
    BY <2>1
  <2>5. Backlog(d) > 0 /\ Backlog(d)' = Backlog(d) - 1
    BY <1>1, <2>4, ReceiveCounts
  <2>6. \A e \in Ids \ {d} : Backlog(e)' = Backlog(e)
    <3>1. ASSUME NEW e \in Ids, e # d PROVE Backlog(e)' = Backlog(e)
      <4>1. Backlog(e)' = Backlog(e) - 0 /\ Backlog(e) \in Nat
        BY <1>1, <2>4, <3>1, ReceiveCounts
      <4> QED
        BY <4>1
    <3> QED
      BY <3>1
  <2>7. BacklogMap[d] > 0 /\ BacklogMap' = [BacklogMap EXCEPT ![d] = @ - 1]
    BY <2>5, <2>6 DEF BacklogMap
  <2> QED
    BY <2>2, <2>3, <2>4, <2>7
<1>2. CASE ~Receive(w)
  <2>1. /\ UNCHANGED <<queue, request>> /\ worker[w].at # "idle"
        /\ worker'[w].at = "idle" \/ worker'[w].id = worker[w].id
        /\ \A v \in Workers \ {w} : worker'[v] = worker[v]
    BY <1>2, WorkingStep DEF CountInv
  <2>2. UNCHANGED BacklogMap
    BY <2>1 DEF BacklogMap, Backlog
  <2>3. CASE worker'[w].id = worker[w].id
    BY <2>1, <2>2, <2>3 DEF RunningMap
  <2>4. CASE worker'[w].at = "idle"
    <3>1. worker'[w].id = "none"
      BY <1>2, <2>4, WorkerRests DEF CountInv
    <3>2. worker[w].id \in Ids
      BY <2>1 DEF CountInv, Typed, BusyHasId
    <3> QED
      BY <2>1, <2>2, <3>1, <3>2, IdsAssumption DEF RunningMap
  <2> QED
    BY <2>1, <2>3, <2>4
<1> QED
  BY <1>1, <1>2

LEMMA StepImplements ==
    ASSUME CountInv, [Next]_vars
    PROVE  [Promise!Next]_(Promise!vars)
<1> SUFFICES Promise!Next \/ UNCHANGED <<BacklogMap, RunningMap>>
  BY DEF Promise!vars, BacklogMap, RunningMap
<1>1. ASSUME NEW r \in Requests, Arrive(r) \/ Handle(r) \/ Send(r)
      PROVE  Promise!Next \/ UNCHANGED <<BacklogMap, RunningMap>>
  BY <1>1, HandlerImplements DEF Promise!Next, Promise!Accept, BacklogMap, RunningMap
<1>2. ASSUME NEW w \in Workers, Process(w) \/ ReportProgress(w)
      PROVE  Promise!Next \/ UNCHANGED <<BacklogMap, RunningMap>>
  BY <1>2, WorkerImplements
  DEF Promise!Next, Promise!Take, Promise!Leave, BacklogMap, RunningMap
<1>3. CASE Crash
  <2>1. \A d : Slots(d)' = {} /\ Senders(d)' = {}
    BY <1>3 DEF Crash, Slots, Senders, NoRequest
  <2>2. \A d : Backlog(d)' = 0
    BY <2>1, FS_EmptySet DEF Backlog, Slots, Senders
  <2>3. RunningMap' = [w \in Workers |-> "none"]
    BY <1>3 DEF Crash, RunningMap, Resting
  <2>4. Promise!Crash
    BY <2>2, <2>3 DEF Promise!Crash, Promise!Init, RunningMap
  <2> QED
    BY <2>4 DEF Promise!Next
<1>4. CASE UNCHANGED vars
  BY <1>4 DEF vars, BacklogMap, RunningMap, Backlog
<1> QED
  BY <1>1, <1>2, <1>3, <1>4 DEF Next

(***************************************************************************)
(* The pipeline implements the safety part of WorkQueue, for any number of *)
(* downloads, workers and handlers and any capacity of the channel: an     *)
(* accepted attempt is taken by one worker, once, in spite of the blocked  *)
(* senders, and only a crash drops it.  (That it is taken at all is        *)
(* fairness, which stays with the run.)                                    *)
(***************************************************************************)
THEOREM QueueIsImplemented ==
    Spec => Promise!Init /\ [][Promise!Next]_(Promise!vars)
<1>1. Init => CountInv
  <2>1. Init => Busy = {}
    BY DEF Init, Busy, NoRequest
  <2>2. Init => RestsNameless
    BY DEF Init, RestsNameless, Resting
  <2>3. IsFiniteSet({})
    BY FS_EmptySet
  <2> QED
    BY <2>1, <2>2, <2>3, TypedInit DEF CountInv
<1>2. CountInv /\ [Next]_vars => CountInv'
  BY TypedNext, BusyStep, RestsStep DEF CountInv
<1>3. Init => Promise!Init
  <2> SUFFICES ASSUME Init PROVE Promise!Init
    OBVIOUS
  <2>1. \A d : Slots(d) = {} /\ Senders(d) = {}
    BY DEF Init, Slots, Senders, NoRequest
  <2>2. \A d : Backlog(d) = 0
    BY <2>1, FS_EmptySet, BacklogIs
  <2> QED
    BY <2>2 DEF Init, Promise!Init, Resting
<1>4. CountInv /\ [Next]_vars => [Promise!Next]_(Promise!vars)
  BY StepImplements
<1> QED
  BY <1>1, <1>2, <1>3, <1>4, PTL DEF Spec
=============================================================================

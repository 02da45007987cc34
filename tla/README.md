# A TLA+ model of the video downloader

The repository is a single Go process: a web UI and JSON API that queue video
downloads, two worker goroutines that run yt-dlp and move the result into local
or S3 storage as a package (video, thumbnail, metadata.json), and a SQLite
database. This directory models its control flow, checks it with TLC and proves
the main invariants with TLAPS.

## Inventory

| component | source | state | operations | hard part | what makes it correct |
|---|---|---|---|---|---|
| Job manager | `internal/jobs/manager.go`, `handlers/download.go`, `handlers/history.go` | `downloads` and `jobs` tables, channel of 256 ids, workers | Enqueue, Retry, DeleteDownload, process | statements of several handlers and two workers interleave without transactions; a crash loses the channel | no accepted download is forgotten; complete means stored; statuses move forward; row and job row agree |
| Storage recovery | `internal/jobs/recovery.go` | none of its own | rebuild rows from package folders | runs while attempts, retries and deletes go on; reads folders that a crash left | a row it calls complete has its files; it rebuilds what attempts wrote |
| Legacy migration | `internal/jobs/migration.go` | none of its own | upgrade rows of the single-file layout at start | files are stored before the row is updated, the pass may be cut anywhere, and its calls have no deadline | a complete row points to a whole file at all times; the pass can run again |
| Storage backends | `internal/storage/*.go` | package folders | StorePackage, list, read | three files one by one; the copy over a device boundary is not atomic | metadata.json marks a whole package; keys name the right files |
| Event stream | `internal/jobs/sse.go`, `web/static/app.js` | set of subscriber channels (16 events each); in the page a timer, a request and a copy of the table | subscribe, Publish, serve, unsubscribe; connect, debounce, refresh | slow and stuck readers, close against send, a stream that breaks, answers older than an event | no send on a closed channel; workers never wait; the page comes to show the table, or has missed a change |
| Proxy pool | `internal/proxy/proxy.go`, `handlers/proxies.go`, `handlers/settings.go` | enabled proxies, mode, index, sticky choice | SetProxies, SetMode, Next, Resolve; edits of the table | listings handed over late, one pool for all jobs, ignored errors | choices are current; rotation starves nobody; sticky sticks |
| yt-dlp runner | `internal/ytdlp/ytdlp.go` | a child process, two pipes and two goroutines | DownloadPackage, Scan, FetchMetadata | scanners, pipe capacity, callbacks against return, Wait against unread output | it returns; no callback after it; the path is the one printed last |
| Settings, storage configuration | `handlers/settings.go`, `handlers/storagecfg.go`, `internal/crypto` | the settings table and the storage row | PUT and POST of both, reads by the worker | several statements for one save, a secret read and written back, ignored errors, a body that is read twice | saves are not mixed; a secret stays until it is replaced; both kinds of body are accepted |
| Request gates | `internal/middleware/*.go` | token buckets per client, CSRF cookie | admit or refuse | the gate may parse the body before the handler does | nothing is done without the token |
| Scan endpoint | `handlers/scan.go` | a slice of results | one goroutine per URL | a WaitGroup, a deadline of 60 seconds | it is answered |
| Database layer | `internal/db/*` | the tables, one connection | migrations, single statements, one transaction | a start that is cut off, a connection that nobody gives back, `created_at` in seconds | the schema is whole; nobody waits for ever; the foreign key holds |
| Watch page | `handlers/watch.go` | none | resolve stored keys | rows of several generations, the mode, root, bucket and prefix of now against those of the row | a complete download can be watched as long as the configuration reaches it |
| Pages, logs, configuration | `handlers/pages.go`, `handlers/logs.go`, `internal/config`, `cmd/server/main.go` | none but the process | start, `log.Fatal` | restarts; the migration comes before the server listens | it comes up again |

Interaction: handlers write the tables and send ids over the channel; workers
receive ids, read settings and proxies, hand both to the one pool, run yt-dlp,
whose reader goroutine calls back with progress, store the package through the
backend that the storage configuration names at that moment, and write the
tables again; every change of state is published to the event stream. Recovery
is a request like the others; the schema and then the old packages are migrated
before the server listens. All statements go over one database connection.
Everything in memory (channel, pool, subscribers, open transaction) is lost
when the process stops; the tables and the packages survive.

`PROJECT.json` lists the hazards, each at its line, and the properties that
would catch them.

## Modules

| module | what it is |
|---|---|
| `WorkQueue` | abstract: what the job manager promises of accepted work |
| `Pipeline` | handlers, tables, channel, workers and folders, one SQL statement or file per step |
| `MCPipeline` | model values and bounds for `Pipeline` |
| `PipelineProofs` | theorems about `Pipeline`: types, who holds a download, which rows it has |
| `PipelineStoreProofs` | theorems about `Pipeline`: what folders hold and rows point to |
| `PipelineAttemptProofs` | theorems about `Pipeline`: one attempt, its statuses and job row, the steps of `WorkQueue` |
| `ProxyPool` | table and settings, the handlers that edit them, the pool, the jobs that draw from it |
| `MCProxyPool` | model values for `ProxyPool` |
| `ProxyPoolProofs` | theorems about `ProxyPool` |
| `Packages` | what folders and rows hold: StorePackage, attempts, delete, recovery, migration, watch page |
| `MCPackages` | model values for `Packages` |
| `PackagesProofs` | theorems about `Packages` |
| `EventStream` | Broadcaster, the handlers of GET /events, the page that listens |
| `MCEventStream` | model values for `EventStream` |
| `EventStreamProofs` | theorems about `EventStream` |
| `FetchCall` | abstract: what `process()` relies on when it calls DownloadPackage |
| `YtdlpRunner` | DownloadPackage: yt-dlp, two pipes, two goroutines, the caller |
| `MCYtdlpRunner` | model values for `YtdlpRunner` |
| `YtdlpRunnerProofs` | theorems about `YtdlpRunner`, the refinement of `FetchCall` among them |
| `Schema` | `db.Open` and `migrate`: the scripts and the rows that name them |
| `Configuration` | requests that change settings or storage or scan, gates, one connection, the worker's reads |
| `Server` | composes `Schema` and `Configuration`: starts, requests, failing statements, crashes |
| `MCServer` | model values for `Server` |
| `ServerProofs` | theorems about `Server` |

The operators whose comment begins with "Mutant" are plausible bugs. No
specification uses them. Putting one in the place of the definition that it
precedes makes the property named with it in `PROJECT.json` fail: this is how
each property is known to say something.

### Pipeline and WorkQueue

State: `status`, `place` (storage_type and local_path together) and `jobs` are
the tables; `files` the package folders; `queue` is `Manager.queue`; `worker`
and `request` the program counters of the goroutines. `lost`, `disturbed` and
`removed` are history: what a crash or SQL error cut short, what a request
wrote to while an attempt ran, and what a delete removed. Recovery reads the
roots, the listing of a folder and its metadata.json in three steps before it
writes the row. `Unlisted` are the downloads whose video has an extension that
StorePackage does not list: their row is complete without a path.

A step is one SQL statement, one file moved into place, or one channel
operation. `db.Open` allows one connection, so statements do not overlap; no
handler opens a transaction, so everything else does. `setState` is two steps,
the status and then the job row, which the worker `owes` in between. The
actions of `Process(w)` follow `process()` from top to bottom, and every error
return is an action or a disjunct.

Left out, with the reason: titles, errors and logs (nothing branches on them);
the event stream (`Publish` neither blocks nor changes what is read here);
`os.RemoveAll` and the move of one file in the middle (`Packages` has the half
copied file). Of the reads of a job only `GetDownload` may fail: the other
errors are ignored or end in `fail`, which `FetchEnds` and `StoreFails` cover.
An SQL error of the very first statement of a request changes nothing and is
left out, except that a delete whose GetDownload fails goes on to its DELETE
statements and leaves the folder where it is. S3 objects are files of a folder
that needs no MkdirAll. Rows inserted in one second tie, and `UpdateLatestJob`
may take either. After a crash the migration visits old rows, which `Packages`
covers.

`WorkQueue` has no rows and no storage: an accepted attempt is taken by exactly
one worker, and only a crash takes it from those who hold it. The refinement
maps the backlog to the ids in the channel and in blocked senders, and
`running` to the ids that workers hold.

### ProxyPool

State: `table` and `saved` are the tables; `list`, `mode`, `index` and `sticky`
the fields of `Pool`; `actor` the handlers and workers, each with the listing
and the mode it read and has not handed over yet. A method of `Pool` is one
step under its mutex. `own` and `seen` are history: what table and settings
had on offer since an actor began, and, for a worker, what those that it found
at work when it began had had on offer until then. It takes over their `own` and
not their `seen`: what they had met at their own start does not count, so the
past that is excused does not grow while jobs overlap. `last` is the proxy drawn
last since the list or the mode changed.

`SaveSettings` takes any text for a mode, as the handler does; `Next` draws at
random under one that it does not know. A failed `ListProxies` yields an empty
listing and a failed `GetSettings` the empty mode, which `Next` treats as
random: the code ignores both errors. Global and custom proxies do not touch
the pool, and a job that has one ends from "draw". Rows are unique ids;
`created_at` orders them newest first, without ties.

### Packages

State: `config` is the storage row as far as it decides where packages are
(mode, local_path, bucket, prefix); a site is a local root or a bucket with a
prefix. `disk` holds for each site and download the state of each file (absent,
partial, whole); `loose` the files of the single-file layout; `rows` the columns
that lead to files (storage_type with the folder of local_path or the prefix of
the keys as `at`, local_path, the keys, metadata_json); `op` the package being
stored; `pass` the rows that migration has yet to visit. `damaged` and `removed`
are history: rows made from half a file, and folders whose files a delete
removed.

Requests run one at a time here, since `Pipeline` has their interleavings, but
a store proceeds file by file, and an error or the end of the process can come
between any two steps and in the middle of a copy. Two names stand for all
media files: `video.mp4` for the five extensions that `StorePackage` lists, and
`video.m4a` for those that it does not and yt-dlp still produces. The
migration's fetches of the thumbnail and of the metadata succeed or fail. Rows
of the single-file layout are taken to have their file directly in the storage
root; the code that made them is not in the repository. Keys of one backend name
nothing on the other, and prefixes do not nest (an empty one means "videos").

A copy over a device boundary empties its destination, so one that is cut short
leaves half a file. What complete rows point to is held to be whole all the
same, whichever copy was cut: an attempt that fails leaves a failed row, and a
store of another extension writes beside the half file of an earlier one. Three
things do make a complete row of half a file, and `damaged` names the rows they
leave: recovery, which asks a file for its name only; a migration that finds
half a video; and a migration within the folder of its own row, which copies the
video over itself. The next attempt, recovery or migration that goes well takes
a row out of `damaged` again.

The watch page is asked under any configuration. Local files are served from
local_path, which is absolute, as long as the mode is local; objects by their
key, which holds the prefix, as long as the bucket is theirs; a row without a
key only where it was stored; thumbnails by key, under the root or in the bucket
of the row. `WatchServes` states these cases.

### EventStream

State: `pub` and `todo` are the goroutines in `Publish` and what the holder of
`b.mu` has yet to visit; `handler`, `client` and `pending` the handlers of GET
/events with their channels (registered while "serving", "stuck" or
"leaving"); `link`, `timer`, `fetch`, `again` the page: its EventSource, its
debounce timer, its request for the table and the trigger that htmx keeps
during a request. `stale` compares the page with the table. `missed` is
history: a change since the last fresh answer whose event, or whose answer,
cannot reach the page any more (nobody was connected when it was published, the
connection broke while it was under way, the request was refused, or the code
publishes nothing for that change).

`Publish` visits one channel per step, so that handlers forward, stick and
leave while it holds the mutex; `unsubscribe` is the delete under the mutex and
the close after it. The page ignores what an event says, so events are counted
and not told apart. htmx's queueing is external; app.js names the trigger. A
handler is new for each connection: a name is used again once no page listens
to it and nobody sends to it.

### YtdlpRunner and FetchCall

State: `child` is the process (with the write it is blocked in), `outPipe` and
`errPipe` the pipes line by line, `reader` and `drain` the two goroutines,
`caller`, `result` and `path` the locals of DownloadPackage. yt-dlp prints
lines of any kind in any order and exits when it likes. `reader` stays in
`Calls` while onProgress runs. A line longer than 64 KiB ends a scan for good.
`Wait` returns after the process and drops what is left in the pipes; a
goroutine that still drains standard error then sees its pipe closed.

Without a path the newest media file in the work directory is taken, if there
is one: `Wait` may answer "file" or "error" then.

`FetchCall` has a phase, the number of callbacks that run, and a result. The
refinement maps the time from Start to Wait to "running".

### Schema, Configuration and Server

`Schema`: `boot` and `at` are `main()` and the script in hand, `recorded` the
rows of schema_migrations, `effects` the scripts whose effect is in the tables.
After the scripts the rows of the old layout are migrated ("migrating"), with
calls of yt-dlp and S3 that have no deadline ("calling"), before requests are
served. A script and its row are one transaction, whose steps change the tables
at the commit; `Down` ends `main()` anywhere. The statements of one script are
one step, because SQLite makes ALTER TABLE part of the transaction.

`Configuration`: a request has a kind (route, body, where its token is, whether
a secret was entered) and a program counter through gate, decoding, statements
and answer. `conn` is the one connection while the transaction of SaveSettings
holds it; a statement needs it free. `draft` and `left` are that transaction:
the keys are written one by one, in any order, as Go ranges over a map.
`existing` is the secret between the SELECT and the UPDATE of PutStorage.
A body is JSON, JSON that does not parse, or a form. `NoUrls` refuses a scan
without URLs; `OpenWithoutSecret` is the worker whose Decrypt fails, because
APP_SECRET has changed, and that goes on with an empty secret. Values are named
by the request they came with; a secret also counts how often
it is encrypted. `saved`, `newest` and `raced` are history.

The bucket of the limiter is a choice: any admitted request may be answered
429. The columns of the storage row but the secret are written in one UPDATE
and read by nobody before it, so they are left out here; `Packages` has those
that decide where files are.

`Server` lets requests and jobs run only while the process is up, and a crash
forgets handlers, transaction and job but neither table. Failing statements and
crashes are mishaps, which are bounded.

## Runs

| run | instance | result |
|---|---|---|
| `pipeline_safety` | 1 download, 2 workers, 2 handlers, 2 backends, channel of 1, 3 requests, 1 crash or SQL error | passes: 3.3 million states |
| `pipeline_salvage` | a package that outlived the database, 2 workers, 2 handlers, 5 requests of retry, delete, recover | passes: 4.1 million states |
| `pipeline_live` | 2 downloads, 2 workers, channel of 1, 2 requests, 1 mishap, with fairness | passes: 94 thousand states |
| `pipeline_delete` | 1 worker, 1 handler, 2 requests | violation: finding |
| `proxy_safety` | 2 workers, 1 handler, 3 proxies of which 2 are there at the start, 3 modes of which one is unknown, 2 edits, 1 failed read | passes: 4.5 million states |
| `proxy_sticky` | 1 worker, sticky mode, 2 rows | violation: finding |
| `packages_safety` | 1 download (new, or of the old layout at any site), both media names, 2 roots, 2 buckets, 2 prefixes, 3 requests, 2 crashes | passes: 6.4 million states |
| `packages_keys` | 2 new downloads, 2 requests, no crash | violation: finding |
| `live_pages` | 2 writers, 1 page, 2 handlers, channels of 1, with fairness | passes: 251 thousand states |
| `runner` | pipes of 2 lines, 5 lines of yt-dlp, with fairness | passes: 24 thousand states |
| `server` | 2 migrations, 2 requests of any kind, 2 URLs, 2 settings, 2 crashes or SQL errors, with fairness | passes: 292 thousand states |
| `server_forms` | the same, without fairness | violation: finding |

What the properties of the passing runs say:

* `UnfinishedIsInFlight`: a row that says queued, downloading or uploading is in
  the channel, with a worker or with a sender, or a mishap has cut it short.
* `CompleteIsBacked`, `MetadataMarksWhole`: complete means that video and
  metadata are where the row points, unless a delete removed the folder or the
  video is one of `Unlisted`; metadata.json is stored last. Neither is asked of
  `pipeline_salvage`, whose package is whole from the start and loses files to
  a delete only.
* `CompleteJobAgrees`, `StatusMovesForward`, `AcceptedHasRow`: the job row ends
  where the download ends; an undisturbed attempt only moves forward; no delete
  takes the row of an accepted download. The last needs that no recovery runs
  at the same time: with recovery, a row can come back between the two DELETEs
  of a delete request, be retried, and lose its job row to the second DELETE.
* `UnfinishedSettles`, `SenderReturns`, `ImplementsWorkQueue`: liveness, and the
  refinement.
* `NoChoiceFromThePast`, `TakesTurns`: a proxy handed out, and the mode it was
  drawn by, were on offer since the job began, or since one of those began that
  were at work when it did; round-robin passes over nobody.
* `CompleteIsWhole`, `RecoveryRebuilds`, `WatchServes`: what a complete row
  names is there and whole, `damaged` rows excepted; recovery would write the row
  that is there; the watch page serves what the configuration of now reaches.
* `NoSendOnClosed`, `PublishReturns`: whatever clients do, a worker neither sends
  on a closed channel nor waits for a client.
* `StaleIsTold`, `PagesSettle`: a page with an old table is about to be told or
  to ask, unless it has missed a change; when events cease it comes to show
  the table. A send that the full channel drops is not missed: the channel
  still holds an event, and one is enough. What is missed really is: after a
  broken connection or a refused request the page does not ask by itself
  (API.md:144 only promises that changes are emitted).
* `PathKept`, `RunnerReturns`, `ImplementsFetchCall`: the path of the file is the
  last plain line of all that was printed; the call returns unless a line was
  too long; nothing calls back after it. `Pipeline` relies on the last when it
  lets ReportProgress end with FetchEnds.
* `SchemaWhole`, `ComesUp`: wherever a start is cut off, tables and
  schema_migrations agree, and the next start succeeds, or stands in a call of
  the migration.
* `SettingsWhole`, `SecretSurvives`: two saves never mix, in the table or in what
  a job reads; the secret entered last is stored, encrypted once, unless a
  request with a blank field overlapped its entry or could not read it.
* `EveryoneAnswered`: each admitted request is answered, whatever fails.

### Why the bounds are enough

The pipeline's rows of different downloads share nothing but the channel and
the workers. One download with two workers and two handlers has the overlaps
that the code allows (a retry during an attempt, a delete between two
statements, a restart anywhere); three requests make two overlapping attempts
and a delete. A channel of one slot is full after one send, where 256 would
need 257 requests. `pipeline_live` has the second download, for the channel.
The pool's conflicts need two jobs, an edit between listing and hand-over, and
a mode change: two edits. A refresh by a handler and a listing by a job
overtake each other in both orders, so one handler is enough. Three proxies
make a list that shrinks and grows around the index; a failed read empties it.
In `Packages` a download's files are touched by requests for that download
only, but for the delete of an old row, which empties the root and excuses all;
one download has them all. Two roots, buckets and prefixes make a site that the
configuration has left and one that it has gone to. Three requests are a store
that is cut short, another one of another extension, and a recovery; or a
store, a move of the configuration, and a recovery, delete or second store
there; the two crashes bring a migration between them. The theorems about
`Packages` cover what needs more.

Pages share nothing but the table and their writers: one page with two handlers
has a connection that is replaced while the old handler still leaves, and two
writers meet at the mutex. A channel of one slot is full while one event waits;
with two slots the run passes as well, with twice the states. A pipe of two
lines is full before the five lines are printed, on either side, and holds a
path behind a note. Two migrations are the ones in the repository: one that may
be repeated and one that may not. Two requests overlap in every pair of kinds,
two mishaps let a statement fail and a restart be cut off.

`CHECK_DEADLOCK FALSE` stands in `runner` because a line that is too long really
stops everyone, and elsewhere where the bounded number of requests ends the
behaviour with everyone at rest.

### Fairness

`FairSpec` assumes that the scheduler runs every handler and worker that can
run; that a blocked sender is not passed over for ever, because Go's channels
queue blocked senders first in, first out (strong fairness of `Send`); and that
yt-dlp exits (strong fairness of `FetchEnds`, since progress callbacks come in
between). The last is an assumption about the external program: `process()`
uses `context.Background()` and has no deadline. Clients, crashes and SQL
errors owe nothing. `WorkQueue` promises weak fairness of taking and leaving,
which follows from these.

`EventStream` assumes that writers and handlers run, that Go's mutex passes
over nobody for ever (strong fairness of `Lock`; its starvation mode), that
timers run out and requests for the table are answered somehow. Nobody has to
connect, and connections may break at any time. `YtdlpRunner` assumes that the
goroutines run, that onProgress returns (its statements do, and
`PublishReturns` has the event) and, about yt-dlp, that it goes on while it can
and exits. `Server` assumes that somebody starts the process again (the restart
policy of docker-compose) and that main() goes on, but not that a call of the
migration returns: `ComesUp` names it as the one place where a start may stand.
It assumes that a handler which finds the connection free again and again gets
it (strong fairness: database/sql hands it to waiting goroutines in turn); a
scan ends because its context has a deadline of 60 seconds.

## Theorems

| theorem | says | inductive invariant |
|---|---|---|
| `TypeCorrect` | `Spec => []TypeOK`: types, and the channel within its capacity | `Typed`: `TypeOK` and `BusyHasId`, that whoever is not at rest works on a download |
| `NothingForgotten` | `Spec => []UnfinishedIsInFlight` | the property itself together with `Typed`: each action either keeps the holder of the download, hands it on, or finishes or forsakes the row |
| `AcceptedKeepsRow` | `Spec => []AcceptedHasRow` | `RowInv`: a job row has its download row, what is accepted has a job row, only issued ids have rows, and a delete request that is past its first DELETE has left no row (so that the second takes no job row); the foreign key is what makes it inductive. Where recovery may run the property asks nothing |
| `MetadataIsLast` | `Spec => []MetadataMarksWhole` | `StoreInv`: a worker has stored, where its attempt goes to, every part that comes before its step (`WorkerStored`), so that the one that stores metadata.json adds it to the rest |
| `CompleteHasPackage` | `Spec => []CompleteIsBacked` | `RowsInv`: with `StoreInv`, each place that a row names or a recovery is about to write holds a package (`PlaceIsBacked`, `SeenIsBacked`), and a row that is complete, or is about to be, names one (`CompleteHasPlace`, `FinishHasPlace`) |
| `StatusIsMonotone` | `Spec => StatusMovesForward` | `AttemptInv`: an undisturbed download is in one place of the channel, in one worker's hands or in one handler's (`SoleAttempt`), and its status is no further than the step that this attempt is at (`StatusFollows`) |
| `JobAgrees` | `Spec => []CompleteJobAgrees` | `JobInv`: with `AttemptInv`, an undisturbed attempt keeps its job row until a delete that has taken its download row (`JobRowsKept`), and while nothing fails the latest job row is complete once the worker owes no second UPDATE of setState (`JobFollows`) |
| `QueueIsImplemented` | the initial states map to those of `WorkQueue`, and every step to a step of it or to none | `CountInv`: finitely many requests are under way and an idle worker names no download, so that a send, a receipt and an end change the abstract counts by one |
| `RunnerTypeCorrect` | `RunnerSpec => []RunnerTypeOK`: pipes within their capacity | the property itself |
| `RunnerImplementsCall` | `RunnerSpec => ImplementsFetchCall` | `CallInv`: no callback runs before Start or after AwaitDone, no result before the return; then each step maps to a step of `FetchCall` or to none |
| `PathIsKept` | `RunnerSpec => []PathKept` | `PathInv`: while standard output is read, the last plain line printed is the last plain line in the pipe, or none is there and `path` has it; an ended scan has emptied the pipe of a process that exited |
| `TypeCorrect` of `EventStreamProofs` | `Spec => []TypeOK`: channels within their capacity | the property itself |
| `SendsOnOpenChannels` | `Spec => []NoSendOnClosed` | `LockInv`: what is still to be visited is registered, and nothing is while nobody holds the mutex |
| `StalePagesAreTold` | `Spec => []StaleIsTold` | with it `LinkInv`, that a handler is heard by the page that called it and by no other, and `DatedInv`, that an answer is out of date only if the page is |
| `ServerTypeCorrect` | `Spec => []TypeOK`: a secret that is stored or about to be written back is encrypted exactly once, or is none | `SealInv`, with `PlainTypes`: the same of the secrets that the handlers hold |
| `SchemaIsWhole` | `Spec => []SchemaWhole` | `SchemaInv`: the scripts before the one in hand are recorded, and no others while one is run |
| `SettingsAreWhole` | `Spec => []SettingsWhole` | `SettingsInv`: whoever writes settings has the connection, and the keys written so far are its own |
| `SecretIsKept` | `Spec => []SecretSurvives` | `SecretInv`: a request about to write back the secret has the one stored, or it was overtaken, or one that was has written already |
| `ChoicesAreCurrent` | `Spec => []NoChoiceFromThePast` | `IInv`: what the table offers is in the `own` of all who are active (`TableOwn`), and so are the listings (`RowsOwn`) and modes (`HeldOwn`) they still hold; the `own` of whoever is at work is seen by every worker (`OwnSeen`); hence so is the list (`ListSeen`) and, once a job has called SetMode, mode and sticky choice (`ModeSeen`) |
| `ProxyPoolTypeCorrect` | `Spec => []TypeOK` of the pool, with any texts saved as modes | `TypeInv`: whoever is about to call SetMode has a mode for it, and no listing on its way to the pool names a proxy twice; rests on `EnabledRowsFacts` (the rows that SetProxies keeps are rows of the listing, each once) and `StatementRows` (INSERT, UPDATE and DELETE keep ids distinct) |
| `RotationTakesTurns` | `Spec => TakesTurns` | `TurnInv`: the index is past the end of the list by less than the workers that have yet to draw can have taken it (`IndexBounded`), and stands behind the proxy drawn last, or was reset after the last row or after one so few places down the list (`LastTurn`) |
| `PackagesTypeCorrect` | `Spec => []TypeOK` of `Packages` | `TypeInv`: the shapes of rows and the plans that a store can still have to carry out, metadata.json last |
| `CompletePackageIsWhole` | `Spec => []CompleteIsWhole` | `FolderInv`: what an intact complete row names is whole, with metadata.json beside its thumbnail (`Files`); a complete row without a key has the .m4a for a thumbnail (`Unnamed`); the pass visits rows as they were at the start (`Visited`); and of a store (`Storing`): what it has assigned keys to is whole if it was given a whole video (`Written`) and is not written again (`NotAgain`), an attempt without a known video takes the other for a thumbnail (`FromWhole`), and a migration in its own folder leaves half a video only while it copies (`InPlace`) |
| `RecoveryAgrees` | `Spec => []RecoveryRebuilds` | follows from `FolderInv` and `TypeInv`: the key of a row is the first video that the listing of its folder has |
| `WatchPageServes` | `Spec => []WatchServes` | follows from `FolderInv` and `TypeInv`: a row without a key has its .m4a for a thumbnail (`Unnamed`), which is the first video of the listing |

They hold for any number of downloads, workers, handlers, proxies, requests,
pages, migrations, settings, lines and mishaps and any capacity of queue,
channels and pipes, and rest on the named assumptions about constants only
(types, disjoint names, capacities of at least one). `NoChoiceFromThePast`
alone is not inductive: it speaks of jobs that have drawn, and a step that
draws needs to know where the list came from. `SecretSurvives` alone is not
either: it does not say what the requests under way are about to write; nor is
`CompleteIsBacked`, which does not know what a worker about to write complete
has stored, nor `CompleteIsWhole`, which says nothing of a folder while a store
is at work on it and asks for it again when the store is over. `TakesTurns` is
about two draws, and what the index may do between them is `TurnInv`. The
proofs about `Server` go through `StepOfParts`: each step of the process is a
step of `Schema` and of `Configuration` or leaves them alone.

Assumptions that a proof needed and the code gives: no uuid is the name "none"
(`IdsAssumption`), the workers are finitely many (`WorkersAssumption`; main()
starts two), and no two rows of the table of proxies have one id
(`KeysAssumption`; it is the primary key). `EnabledRows` says which row is the
k-th enabled one and not how a loop collects them, and `FirstOf` which name of a
folder comes first: `SelectSeq` is recursive, and nothing can be proved of what
it returns. `LeastElement`, from the library's well-founded order of the
naturals, stands in for induction in `EnabledRowsFacts`.

Only model-checked: the liveness properties (`UnfinishedSettles`,
`SenderReturns`, `PagesSettle`, `PublishReturns`, `RunnerReturns`,
`EveryoneAnswered`, `ComesUp`) and the fairness that `ImplementsWorkQueue` asks
for, because liveness and ENABLED are out of the prover's reach. Every
invariant and every action property of a passing run is a theorem.

## Findings

1. `pipeline_delete`: DELETE removes the package folder and then fails on the
   foreign key of the job row. The record stays, complete, without its file.
2. `proxy_sticky`: each job calls `SetMode`, which forgets the sticky choice;
   sticky mode is random mode.
3. `packages_keys`: a media file of an unlisted extension becomes the
   thumbnail of its package and the row is complete without a video key.
4. `server_forms`: a form on the settings with its token in the header, as the
   bundled page sends it (`index.html:28`, `index.html:89`), is answered 400:
   `decodeJSON` has closed the body before `ParseForm` reads it, and only a token
   in the form makes the CSRF gate parse it earlier.

Seen while modelling, without a run of its own:

* JSON that does not parse takes the fallback for forms, finds no field, and
  saves blank settings with 200 (`settings.go:24`; `SettingsDecoded`).
* Any text is a rotation mode (`settings.go:35`), although API.md:193 names
  three; `Next` draws at random under it (`SaveSettings`, `NextRandom`).
* A blank secret does not always keep the stored one, as `storagecfg.go:32`
  says it does: it is read in one statement and written back in another, and an
  error of the read is ignored. `SecretSurvives` excepts these saves (`raced`).
* After a change of APP_SECRET the backend is opened with an empty secret
  (`manager.go:288`; `OpenWithoutSecret`).
* `fail()` never updates the job row, which says downloading or uploading for
  ever (`manager.go:268`, against `models.go:86-90`). Nothing reads that table.
* Recovery makes a complete row of a package whose video is half a file
  (`recovery.go:125`), for instance the one that a failed attempt left beside
  the video of a later one of another extension.
* A row that recovery made complete without a thumbnail is migrated at the next
  start within its own folder: over a device boundary `moveFile` empties the
  only video before it writes it anew, and a stop in between leaves half of it,
  although `migration.go:19` calls the pass safe to run again.
* The watch page follows the configuration of now and not that of the row
  (`watch.go:87`); `WatchServes` says which rows a change leaves out of reach.
* A line of more than 64 KiB stops a scanner for good (`ytdlp.go:222`); its pipe
  fills up and yt-dlp, Wait and the worker wait for ever. `RunnerReturns`
  excepts this case by name (`GaveUp`).
* `GetSettings` ignores `rows.Err`: a listing cut short passes for empty rows
  (`ReadSettingsFails`).

## Not modelled, and the plan

Left out, with the reason: the templates and watch.js only render; logs are
written and listed; the environment is read once; the cipher is library code;
disk usage and presigned URLs are read-only; `FetchMetadata` is one call whose
outcome is a choice of `Pipeline`; the token bucket, a library, is a choice;
the text of errors branches nothing; the resolution of metadata.json on the
watch page begins with the column that every stored package has.

What is left to do, in order:

1. The token bucket with numbers (its map of clients is never emptied).
2. `EventStream` composed with the statuses of `Pipeline`, so that what a
   browser shows can be compared with the row.
3. The metadata part of the watch page, for rows that migration skipped.

------------------------------ MODULE Packages ------------------------------
(***************************************************************************)
(* What is in a package folder and what a row says about it: StorePackage  *)
(* of the two backends (internal/storage), the attempts, the recovery and  *)
(* the start-up migration that fill folders and rows from one another      *)
(* (internal/jobs), DeleteDownload and the watch page that follow the rows *)
(* back to the files (internal/handlers).                                  *)
(*                                                                         *)
(* One operation runs at a time, a file at a time: overlapping operations  *)
(* are Pipeline's subject, the content of files and rows is this one's.    *)
(* Storage keys are names within the folder of their download; keys of one *)
(* backend ("<id>/...", "<prefix>/<id>/...") name nothing on the other.    *)
(*                                                                         *)
(* A place of the configuration is a local root or a bucket with a prefix; *)
(* prefixes do not nest.  Left out: extensions but one that StorePackage   *)
(* takes for a video and one that it does not, the text of metadata.json,  *)
(* sizes, titles.                                                          *)
(***************************************************************************)
EXTENDS Naturals, Sequences

CONSTANTS
    Ids,          \* downloads
    Legacy,       \* those whose row may come from the single-file layout
    Media,        \* names that the video of a download may get
    Roots,        \* values of storage_config.local_path
    DefaultRoot,  \* the one of a new database
    Buckets,      \* values of storage_config.s3_bucket
    Prefixes,     \* values of storage_config.s3_prefix
    SameDevice,   \* can os.Rename reach the storage root from the temp folder
    MaxRequests,  \* bound: requests and losses of the database
    MaxCrashes    \* bound: restarts

ASSUME LegacyAssumption == Legacy \subseteq Ids
ASSUME MediaAssumption  == Media \subseteq {"video.m4a", "video.mp4"}
ASSUME SitesAssumption  == DefaultRoot \in Roots /\ Roots \cap (Buckets \X Prefixes) = {}
ASSUME NoneAssumption   == "none" \notin Roots \cup (Buckets \X Prefixes)
ASSUME DeviceAssumption == SameDevice \in BOOLEAN
ASSUME BoundsAssumption == MaxRequests \in Nat /\ MaxCrashes \in Nat

VARIABLES
    config,   \* storage_config: mode, local_path, s3_bucket, s3_prefix
    rows,     \* the downloads table
    hasJob,   \* downloads with a row in jobs
    issued,   \* ids that some row has had: uuids are never reused
    disk,     \* per site and download, the files of its package folder
    loose,    \* per site, files of the single-file layout
    op,       \* the package being stored, or none
    pass,     \* rows that the migration of this start has still to visit
    requests, \* requests and losses so far
    crashes,  \* restarts so far
    damaged,  \* history: rows that recovery or migration left with half a file
    removed   \* history: folders whose files a delete request removed

files == <<disk, loose>>
vars  == <<config, rows, hasJob, issued, disk, loose, op, pass, requests, crashes,
           damaged, removed>>

\* The sites that packages are stored at, and the one of now.
Sites   == Roots \cup (Buckets \X Prefixes)
Configs == [mode : {"local", "s3"}, root : Roots, bucket : Buckets, prefix : Prefixes]
Here    == IF config.mode = "local" THEN config.root ELSE <<config.bucket, config.prefix>>

\* Where the backend of now looks for a key of a row stored at a site: a local
\* key is relative to the root of now, an S3 key holds its prefix.
SiteOf(at) == IF at \in Roots THEN config.root ELSE <<config.bucket, at[2]>>

Names == {"metadata.json", "thumbnail.jpg", "video.m4a", "video.mp4"}

\* local_path and s3_key name a file of the package or the loose file.
Places == Names \cup {"loose", "none"}
\* The site is storage_type, the folder of local_path and the prefix in the
\* keys; that of a bucket, or of a local row without path, no column keeps.
Row(status, at, path, key, thumb, json) ==
    [status |-> status, at |-> at, path |-> path, key |-> key, thumb |-> thumb, json |-> json]
NoRow == Row("absent", DefaultRoot, "none", "none", "none", FALSE)
Place(row) == IF row.path # "none" THEN row.path ELSE row.key

\* The package being stored: who stores it and where, the files to come, the
\* keys assigned so far, what became of the video on its way here, and
\* whether the current file is half copied.
NoOp == [kind |-> "none", id |-> "none", on |-> "none", todo |-> <<>>, key |-> "none",
         thumb |-> "none", video |-> "whole", copying |-> FALSE]
Idle == op = NoOp /\ pass = {}

At(site, d, n) == CASE n = "none"  -> "absent"
                    [] n = "loose" -> IF loose[site][d] = "none" THEN "absent" ELSE "whole"
                    [] OTHER       -> disk[site][d][n]
Held(site, d)  == {n \in Names : disk[site][d][n] # "absent"}
-----------------------------------------------------------------------------
(***************************************************************************)
(* StorePackage.                                                           *)
(***************************************************************************)
\* The names that StorePackage takes for a video, and those that everybody
\* else takes for a video and for a thumbnail.
KnownVideos == {"video.mp4"}
Videos      == {"video.m4a", "video.mp4"}
Thumbnails  == {"thumbnail.jpg"}

\* The key that a stored file is assigned to.
KeyAfter(o, n)   == IF n \in KnownVideos THEN n ELSE o.key

\* Mutant: metadata.json falls through to the default case of the switch.
ThumbAfterAny(o, n) == IF n \in KnownVideos \/ o.thumb # "none" THEN o.thumb ELSE n

ThumbAfter(o, n) == IF n \in KnownVideos \cup {"metadata.json"} \/ o.thumb # "none"
                    THEN o.thumb ELSE n

StorePackage(kind, d, todo, video) ==
    op' = [kind |-> kind, id |-> d, on |-> Here, todo |-> todo, key |-> "none", thumb |-> "none",
           video |-> video, copying |-> FALSE]

SetFile(s) == disk' = [disk EXCEPT ![op.on][op.id][Head(op.todo)] = s]

\* moveFile over a device boundary: os.Create empties the destination.
BeginCopy ==
    /\ op.todo # <<>> /\ ~op.copying
    /\ op.on \in Roots /\ ~SameDevice
    /\ SetFile("partial")
    /\ op' = [op EXCEPT !.copying = TRUE]
    /\ UNCHANGED <<config, rows, hasJob, issued, loose, pass, requests, crashes, damaged, removed>>

\* os.Rename, the end of the copy, or an upload, which is all or nothing.
EndFile ==
    /\ op.todo # <<>>
    /\ op.copying \/ op.on \notin Roots \/ SameDevice
    /\ LET n == Head(op.todo) IN
         /\ SetFile(IF n \in Videos THEN op.video ELSE "whole")
         /\ op' = [op EXCEPT !.todo = Tail(@), !.copying = FALSE,
                             !.key = KeyAfter(op, n), !.thumb = ThumbAfter(op, n)]
    /\ UNCHANGED <<config, rows, hasJob, issued, loose, pass, requests, crashes, damaged, removed>>

\* A migration within the folder of its row copies the video over itself:
\* what is left of the row when the copy stops.
Halved ==
    IF op.kind = "migrate" /\ op.on = rows[op.id].at
         /\ op.copying /\ Head(op.todo) = Place(rows[op.id])
    THEN {op.id} ELSE {}

\* Mutant: the error is logged and the attempt goes on to its last status.
StoreErrorIgnored ==
    /\ op # NoOp
    /\ rows' = IF op.kind = "attempt" THEN [rows EXCEPT ![op.id].status = "complete"] ELSE rows
    /\ damaged' = damaged \cup Halved
    /\ op' = NoOp
    /\ UNCHANGED <<config, hasJob, issued, files, pass, requests, crashes, removed>>

\* An error of the store or of the statement after it: an attempt fails, the
\* migration goes on with a warning; what was stored stays.
StoreFails ==
    /\ op # NoOp
    /\ rows' = IF op.kind = "attempt" THEN [rows EXCEPT ![op.id].status = "failed"] ELSE rows
    /\ damaged' = damaged \cup Halved
    /\ op' = NoOp
    /\ UNCHANGED <<config, hasJob, issued, files, pass, requests, crashes, removed>>

\* local_path is set for local packages that got a video key.
PathOf(on, key) == IF on \in Roots THEN key ELSE "none"

\* UpdateDownloadPackageResult and the status after it.
Persist ==
    /\ op.kind = "attempt" /\ op.todo = <<>>
    /\ rows' = [rows EXCEPT ![op.id] =
                  Row("complete", op.on, PathOf(op.on, op.key), op.key, op.thumb, TRUE)]
    /\ removed' = removed \ {<<op.on, op.id>>}
    /\ damaged' = damaged \ {op.id}
    /\ op' = NoOp
    /\ UNCHANGED <<config, hasJob, issued, files, pass, requests, crashes>>
-----------------------------------------------------------------------------
(***************************************************************************)
(* Requests.                                                               *)
(***************************************************************************)
Request == Idle /\ requests < MaxRequests /\ requests' = requests + 1

\* A download or a retry, after its yt-dlp has ended well.
Attempt(d, video) ==
    /\ Request
    /\ rows' = [rows EXCEPT ![d].status = "busy"]
    /\ hasJob' = hasJob \cup {d}
    /\ StorePackage("attempt", d, <<video, "thumbnail.jpg", "metadata.json">>, "whole")
    /\ rows[d].status = "absent" => d \notin issued
    /\ issued' = issued \cup {d}
    /\ UNCHANGED <<config, files, pass, crashes, damaged, removed>>

\* os.RemoveAll of the folder that local_path is in: the package folder, or
\* the storage root when the row is of the single-file layout (its file is
\* taken to lie directly in the root).
RemoveFolder(d) ==
    LET root == rows[d].at IN
    \/ /\ root \notin Roots \/ rows[d].path = "none"
       /\ UNCHANGED <<files, removed>>
    \/ /\ root \in Roots /\ rows[d].path = "loose"
       /\ disk' = [disk EXCEPT ![root] = [e \in Ids |-> [n \in Names |-> "absent"]]]
       /\ loose' = [loose EXCEPT ![root] = [e \in Ids |-> "none"]]
       /\ removed' = removed \cup ({root} \X Ids)
    \/ /\ root \in Roots /\ rows[d].path \in Names
       /\ disk' = [disk EXCEPT ![root][d] = [n \in Names |-> "absent"]]
       /\ UNCHANGED loose
       /\ removed' = removed \cup {<<root, d>>}

\* DeleteDownload: the folder first, then the row, unless a job refers to it.
DeleteDownload(d) ==
    /\ Request
    /\ rows[d].status # "absent"
    /\ RemoveFolder(d)
    /\ rows' = IF d \in hasJob THEN rows ELSE [rows EXCEPT ![d] = NoRow]
    /\ UNCHANGED <<config, hasJob, issued, op, pass, crashes, damaged>>

\* PutStorage, as far as it decides where packages are.
PutStorage ==
    /\ Request
    /\ config' \in Configs \ {config}
    /\ UNCHANGED <<rows, hasJob, issued, files, op, pass, crashes, damaged, removed>>

\* The database is lost and created anew, with its default mode and root; its
\* bucket is empty and read by nobody before it is set.
LoseDatabase ==
    /\ Request
    /\ rows' = [d \in Ids |-> NoRow]
    /\ hasJob' = {}
    /\ config' = [config EXCEPT !.mode = "local", !.root = DefaultRoot]
    /\ UNCHANGED <<issued, files, op, pass, crashes, damaged, removed>>

\* The first of some names in a sorted listing; "none" if there is none.
Listing == <<"metadata.json", "thumbnail.jpg", "video.m4a", "video.mp4">>
FirstOf(names) ==
    LET found == {i \in 1..4 : Listing[i] \in names}
    IN  IF found = {} THEN "none"
        ELSE Listing[CHOOSE i \in found : \A j \in found : i <= j]

\* recoverPackage: the row rebuilt from a folder.
Rebuilt(d) ==
    LET video == FirstOf(Held(Here, d) \cap Videos)
        thumb == FirstOf(Held(Here, d) \cap Thumbnails)
    IN  Row(IF video = "none" THEN "failed" ELSE "complete",
            Here, PathOf(Here, video), video, thumb, TRUE)

\* A video or a thumbnail that the rebuilt row names is half a file.
Adopts(d) == \E n \in {Rebuilt(d).key, Rebuilt(d).thumb} : At(Here, d, n) = "partial"

\* RecoverFromStorage: a folder without metadata.json is not listed, one with
\* half of it is reported and skipped.
RecoverFromStorage ==
    /\ Request
    /\ LET found == {d \in Ids : disk[Here][d]["metadata.json"] = "whole"} IN
         /\ rows' = [d \in Ids |-> IF d \in found THEN Rebuilt(d) ELSE rows[d]]
         /\ damaged' = (damaged \ found) \cup {d \in found : Adopts(d)}
         /\ removed' = removed \ ({Here} \X found)
    /\ UNCHANGED <<config, hasJob, issued, files, op, pass, crashes>>
-----------------------------------------------------------------------------
(***************************************************************************)
(* Restart and migration.                                                  *)
(***************************************************************************)
\* MigrateLegacyDownloads takes the complete rows that lack a key.
IsLegacy(row) == row.status = "complete"
                 /\ (row.key \notin Names \/ row.thumb = "none" \/ ~row.json)

\* The process stops anywhere and starts again, with the pass before all else.
Restart ==
    /\ crashes < MaxCrashes /\ crashes' = crashes + 1
    /\ op' = NoOp
    /\ damaged' = IF op = NoOp THEN damaged ELSE damaged \cup Halved
    /\ pass' = {d \in Ids : IsLegacy(rows[d])}
    /\ UNCHANGED <<config, rows, hasJob, issued, files, requests, removed>>

\* prepareLegacyVideo: the file at local_path if it is there, else what the
\* backend of the row's kind, as it is configured now, has under the key.
Source(d) == IF At(rows[d].at, d, rows[d].path) # "absent"
             THEN At(rows[d].at, d, rows[d].path)
             ELSE At(SiteOf(rows[d].at), d, rows[d].key)

\* Mutant: it is looked for in the backend of now.
SourceNameHere(d) ==
    IF Place(rows[d]) = "loose" THEN loose[Here][d] ELSE Place(rows[d])

\* Its name in the package keeps the extension of local_path or of the key.
SourceName(d) ==
    IF Place(rows[d]) = "loose" THEN loose[rows[d].at][d] ELSE Place(rows[d])

\* migrateLegacyDownload up to StorePackage; the thumbnail may be gone from
\* its URL, and is left out then.
Migrate(d) ==
    /\ op = NoOp /\ d \in pass
    /\ pass' = pass \ {d}
    /\ Source(d) # "absent"
    /\ \E todo \in {<<SourceName(d), "metadata.json">>,
                     <<SourceName(d), "thumbnail.jpg", "metadata.json">>} :
         StorePackage("migrate", d, todo, Source(d))
    /\ UNCHANGED <<config, rows, hasJob, issued, files, requests, crashes, damaged, removed>>

\* No video, no metadata or no room to stage them: a warning in the report.
MigrateSkips(d) ==
    /\ op = NoOp /\ d \in pass
    /\ pass' = pass \ {d}
    /\ UNCHANGED <<config, rows, hasJob, issued, files, op, requests, crashes, damaged, removed>>

\* The upsert of the migrated row, which fails when a key is missing.
Migrated ==
    /\ op.kind = "migrate" /\ op.todo = <<>>
    /\ rows' = [rows EXCEPT ![op.id] =
                  Row(IF "none" \in {op.key, op.thumb} THEN "failed" ELSE "complete",
                      op.on, PathOf(op.on, op.key), op.key, op.thumb, TRUE)]
    /\ removed' = removed \ {<<op.on, op.id>>}
    /\ damaged' = IF op.video = "whole" THEN damaged \ {op.id} ELSE damaged \cup {op.id}
    /\ op' = NoOp
    /\ UNCHANGED <<config, hasJob, issued, files, pass, requests, crashes>>
-----------------------------------------------------------------------------
(***************************************************************************)
(* WatchAsset, which follows the row under the configuration of now.       *)
(***************************************************************************)
\* Is the backend of now of the kind that the row was stored with.
SameKind(d) == rows[d].at \in Roots <=> config.mode = "local"

\* A name that the row knows, if the backend of now has it.
Known(d, n) == IF SameKind(d) /\ At(SiteOf(rows[d].at), d, n) # "absent" THEN n ELSE "none"

\* Mutant: the key comes before local_path.
WatchVideoByKey(d) ==
    IF rows[d].key # "none" THEN At(SiteOf(rows[d].at), d, Known(d, rows[d].key))
    ELSE IF config.mode = "local" /\ rows[d].path # "none"
         THEN At(rows[d].at, d, rows[d].path)
    ELSE At(Here, d, FirstOf(Held(Here, d) \cap Videos))

\* The video that is served: the file at local_path, else by its key, else the
\* first of the listing.
WatchVideo(d) ==
    IF config.mode = "local" /\ rows[d].path # "none" THEN At(rows[d].at, d, rows[d].path)
    ELSE IF rows[d].key # "none" THEN At(SiteOf(rows[d].at), d, Known(d, rows[d].key))
    ELSE At(Here, d, FirstOf(Held(Here, d) \cap Videos))

\* The thumbnail: by its key, else under the name of one in the folder that
\* local_path is in; s3_key comes before the listing, though it names the video.
WatchThumbnail(d) ==
    LET beside == IF config.mode = "local" /\ rows[d].path \in Names
                  THEN FirstOf(Held(rows[d].at, d) \cap Thumbnails) ELSE "none"
    IN  IF rows[d].thumb # "none" THEN Known(d, rows[d].thumb)
        ELSE IF beside # "none" THEN Known(d, beside)
        ELSE IF rows[d].key # "none" THEN Known(d, rows[d].key)
        ELSE FirstOf(Held(Here, d) \cap Thumbnails)
-----------------------------------------------------------------------------
\* A legacy row names its single file, on disk or in the bucket.
LegacyRow(at) ==
    IF at \in Roots THEN Row("complete", at, "loose", "none", "none", FALSE)
                    ELSE Row("complete", at, "none", "loose", "none", FALSE)

Init ==
    /\ config \in Configs
    /\ \E old \in SUBSET Legacy : \E on \in [old -> Sites], name \in [old -> Media] :
         /\ rows = [d \in Ids |-> IF d \in old THEN LegacyRow(on[d]) ELSE NoRow]
         /\ loose = [site \in Sites |-> [d \in Ids |->
                        IF d \in old /\ on[d] = site THEN name[d] ELSE "none"]]
         /\ hasJob \in SUBSET old
         /\ issued = old
         /\ pass = old
    /\ disk = [site \in Sites |-> [d \in Ids |-> [n \in Names |-> "absent"]]]
    /\ op = NoOp
    /\ requests = 0 /\ crashes = 0
    /\ damaged = {} /\ removed = {}

Next ==
    \/ \E d \in Ids : \/ \E video \in Media : Attempt(d, video)
                      \/ DeleteDownload(d) \/ Migrate(d) \/ MigrateSkips(d)
    \/ PutStorage \/ LoseDatabase \/ RecoverFromStorage
    \/ BeginCopy \/ EndFile \/ StoreFails \/ Persist \/ Migrated \/ Restart

Spec == Init /\ [][Next]_vars
-----------------------------------------------------------------------------
\* Type invariant of rows, folders and the running operation.
TypeOK ==
    /\ config \in Configs
    /\ rows \in [Ids -> [status : {"absent", "busy", "complete", "failed"}, at : Sites,
                         path : Places, key : Places, thumb : Names \cup {"none"},
                         json : BOOLEAN]]
    /\ hasJob \subseteq issued /\ issued \subseteq Ids
    /\ disk \in [Sites -> [Ids -> [Names -> {"absent", "partial", "whole"}]]]
    /\ loose \in [Sites -> [Ids -> Media \cup {"none"}]]
    /\ op # NoOp => op.id \in Ids /\ op.on \in Sites /\ op.todo \in Seq(Names)
    /\ pass \subseteq Ids /\ damaged \subseteq Ids /\ removed \subseteq Sites \X Ids
    /\ requests \in Nat /\ crashes \in Nat

\* A complete row as its last store, migration or recovery left it: no delete
\* has removed its folder, no store is at work in it, and neither recovery nor
\* migration has made it from half a file or halved its video.
Intact(d) ==
    /\ rows[d].status = "complete"
    /\ <<rows[d].at, d>> \notin removed /\ d \notin damaged
    /\ op.id = d => op.on # rows[d].at

(***************************************************************************)
(* What a complete row points to is there, and is not half a copy: the     *)
(* video at local_path or s3_key, in a package or of the old layout, and   *)
(* the thumbnail.  It must hold whichever copy a crash or an error cut     *)
(* short, first or later, wherever the configuration has gone since and    *)
(* wherever the migration stopped.                                         *)
(***************************************************************************)
CompleteIsWhole ==
    \A d \in Ids : Intact(d) =>
        /\ Place(rows[d]) # "none" => At(rows[d].at, d, Place(rows[d])) = "whole"
        /\ rows[d].thumb # "none" => At(rows[d].at, d, rows[d].thumb) = "whole"

(***************************************************************************)
(* Recovery would rebuild every complete row as it stands: the keys that   *)
(* StorePackage assigned and those that findStoredFile reads off the       *)
(* folder agree, for a package with one video of a known extension.        *)
(***************************************************************************)
RecoveryRebuilds ==
    \A d \in Ids :
        /\ Intact(d) /\ rows[d].at = Here /\ rows[d].thumb # "none"
        /\ Held(Here, d) \cap Videos = {rows[d].key} \cap KnownVideos
        => disk[Here][d]["metadata.json"] = "whole" /\ Rebuilt(d) = rows[d]

(***************************************************************************)
(* Which changes of the configuration the watch page survives: a local     *)
(* file is served from any root in local mode, since local_path is         *)
(* absolute, an object under any prefix of its bucket, since its key is    *)
(* whole, and a row without a key only where it was stored.  Thumbnails    *)
(* go by their key alone and need the root or the bucket of the row.       *)
(***************************************************************************)
Reached(d) == SameKind(d) /\ SiteOf(rows[d].at) = rows[d].at

WatchServes ==
    \A d \in Ids : Intact(d) =>
        /\ \/ config.mode = "local" /\ rows[d].path # "none"
           \/ Reached(d) /\ rows[d].key # "none"
           \/ rows[d].at = Here
           => WatchVideo(d) = "whole"
        /\ Reached(d) /\ rows[d].thumb # "none" => WatchThumbnail(d) = rows[d].thumb

(***************************************************************************)
(* API.md:74, "Completed downloads are stored as packages with             *)
(* video_s3_key, thumbnail_s3_key, metadata_s3_key, and metadata_json in   *)
(* SQLite."                                                                *)
(***************************************************************************)
KeysPopulated ==
    \A d \in Ids : rows[d].status = "complete" /\ rows[d].json =>
        rows[d].key # "none" /\ rows[d].thumb # "none"
=============================================================================

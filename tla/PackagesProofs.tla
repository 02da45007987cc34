--------------------------- MODULE PackagesProofs ---------------------------
(***************************************************************************)
(* Proofs about package folders and rows, for any number of downloads,     *)
(* requests and restarts, with and without a device boundary.              *)
(***************************************************************************)
EXTENDS Packages, TLAPS

\* A sorted listing that is not empty has a first name.
LEMMA FirstOfListing ==
  ASSUME NEW S \in SUBSET Names
  PROVE  /\ S = {} => FirstOf(S) = "none"
         /\ S # {} => FirstOf(S) \in S
  <1> DEFINE found == {i \in 1..4 : Listing[i] \in S}
  <1>0. /\ Listing[1] = "metadata.json" /\ Listing[2] = "thumbnail.jpg"
        /\ Listing[3] = "video.m4a" /\ Listing[4] = "video.mp4"
    BY DEF Listing
  <1>1. S # {} => found # {}
    <2> SUFFICES ASSUME NEW n \in S PROVE \E i \in 1..4 : Listing[i] = n
      OBVIOUS
    <2>1. n \in {"metadata.json", "thumbnail.jpg", "video.m4a", "video.mp4"}
      BY DEF Names
    <2>2. 1 \in 1..4 /\ 2 \in 1..4 /\ 3 \in 1..4 /\ 4 \in 1..4
      OBVIOUS
    <2> QED
      BY <1>0, <2>1, <2>2
  <1>2. ASSUME found # {}
        PROVE  \E i \in found : \A j \in found : i <= j
    <2>1. CASE 1 \in found
      BY <2>1
    <2>2. CASE 1 \notin found /\ 2 \in found
      BY <2>2
    <2>3. CASE 1 \notin found /\ 2 \notin found /\ 3 \in found
      BY <2>3
    <2>4. CASE 1 \notin found /\ 2 \notin found /\ 3 \notin found
      BY <1>2, <2>4
    <2> QED
      BY <2>1, <2>2, <2>3, <2>4
  <1>3. found # {} => FirstOf(S) \in S
    <2> SUFFICES ASSUME found # {} PROVE FirstOf(S) \in S
      OBVIOUS
    <2> DEFINE i == CHOOSE i \in found : \A j \in found : i <= j
    <2>1. i \in found
      BY <1>2
    <2>2. FirstOf(S) = Listing[i]
      BY DEF FirstOf
    <2> QED
      BY <2>1, <2>2
  <1>4. S = {} => FirstOf(S) = "none"
    <2>1. S = {} => found = {}
      OBVIOUS
    <2> QED
      BY <2>1 DEF FirstOf
  <1> QED
    BY <1>1, <1>3, <1>4
-----------------------------------------------------------------------------
(***************************************************************************)
(* The types, and the shapes that rows and operations have.                *)
(***************************************************************************)
\* The files that a store has still to write: the video, perhaps a thumbnail,
\* metadata.json at the end.
Plans ==
    {<<>>, <<"metadata.json">>, <<"thumbnail.jpg", "metadata.json">>}
      \cup {<<v, "metadata.json">> : v \in Videos}
      \cup {<<v, "thumbnail.jpg", "metadata.json">> : v \in Videos}

Within(q) == {q[i] : i \in DOMAIN q}

\* A plan is carried out file by file and names no file twice.
LEMMA PlanFacts ==
  ASSUME NEW q \in Plans, q # <<>>
  PROVE  /\ Tail(q) \in Plans /\ Head(q) \in Names
         /\ Within(q) = {Head(q)} \cup Within(Tail(q))
         /\ Head(q) \notin Within(Tail(q))
         /\ "metadata.json" \in Within(q)
         /\ Head(q) = "metadata.json" \/ Tail(q) # <<>>
  <1>1. CASE q = <<"metadata.json">>
    <2>1. Head(q) = "metadata.json" /\ Tail(q) = <<>>
      BY <1>1
    <2>2. Within(q) = {"metadata.json"} /\ Within(<<>>) = {}
      BY <1>1 DEF Within
    <2>3. Tail(q) \in Plans
      BY <2>1 DEF Plans
    <2> QED
      BY <2>1, <2>2, <2>3 DEF Names
  <1>2. CASE q = <<"thumbnail.jpg", "metadata.json">>
    <2>1. Head(q) = "thumbnail.jpg" /\ Tail(q) = <<"metadata.json">>
      BY <1>2
    <2>2. /\ Within(q) = {"thumbnail.jpg", "metadata.json"}
          /\ Within(<<"metadata.json">>) = {"metadata.json"}
      BY <1>2 DEF Within
    <2>3. Tail(q) \in Plans /\ Tail(q) # <<>>
      BY <2>1 DEF Plans
    <2> QED
      BY <2>1, <2>2, <2>3 DEF Names
  <1>3. ASSUME NEW v \in Videos, q = <<v, "metadata.json">>
        PROVE  /\ Tail(q) \in Plans /\ Head(q) \in Names
               /\ Within(q) = {Head(q)} \cup Within(Tail(q))
               /\ Head(q) \notin Within(Tail(q))
               /\ "metadata.json" \in Within(q)
               /\ Head(q) = "metadata.json" \/ Tail(q) # <<>>
    <2>1. Head(q) = v /\ Tail(q) = <<"metadata.json">>
      BY <1>3
    <2>2. /\ Within(q) = {v, "metadata.json"}
          /\ Within(<<"metadata.json">>) = {"metadata.json"}
      BY <1>3 DEF Within
    <2>3. Tail(q) \in Plans
      BY <2>1 DEF Plans
    <2>4. Tail(q) # <<>>
      BY <2>1
    <2> QED
      BY <2>1, <2>2, <2>3, <2>4 DEF Names, Videos
  <1>4. ASSUME NEW v \in Videos, q = <<v, "thumbnail.jpg", "metadata.json">>
        PROVE  /\ Tail(q) \in Plans /\ Head(q) \in Names
               /\ Within(q) = {Head(q)} \cup Within(Tail(q))
               /\ Head(q) \notin Within(Tail(q))
               /\ "metadata.json" \in Within(q)
               /\ Head(q) = "metadata.json" \/ Tail(q) # <<>>
    <2>1. Head(q) = v /\ Tail(q) = <<"thumbnail.jpg", "metadata.json">>
      BY <1>4
    <2>2. /\ Within(q) = {v, "thumbnail.jpg", "metadata.json"}
          /\ Within(<<"thumbnail.jpg", "metadata.json">>)
               = {"thumbnail.jpg", "metadata.json"}
      BY <1>4 DEF Within
    <2>3. Tail(q) \in Plans
      BY <2>1 DEF Plans
    <2>4. Tail(q) # <<>>
      BY <2>1
    <2> QED
      BY <2>1, <2>2, <2>3, <2>4 DEF Names, Videos
  <1> QED
    BY <1>1, <1>2, <1>3, <1>4 DEF Plans

LEMMA PlansAreSequences == Plans \subseteq Seq(Names) /\ Within(<<>>) = {}
  <1>1. \A v \in Names : /\ <<v, "metadata.json">> \in Seq(Names)
                         /\ <<v, "thumbnail.jpg", "metadata.json">> \in Seq(Names)
    BY DEF Names
  <1>2. /\ <<>> \in Seq(Names) /\ <<"metadata.json">> \in Seq(Names)
        /\ <<"thumbnail.jpg", "metadata.json">> \in Seq(Names)
    BY DEF Names
  <1>3. Videos \subseteq Names
    BY DEF Videos, Names
  <1>4. Within(<<>>) = {}
    BY DEF Within
  <1> QED
    BY <1>1, <1>2, <1>3, <1>4 DEF Plans

Thumbs == {"thumbnail.jpg", "video.m4a", "none"}

RowTypes == [status : {"absent", "busy", "complete", "failed"}, at : Sites,
             path : Places, key : Places, thumb : Names \cup {"none"}, json : BOOLEAN]

\* A row is one that a package was stored for, or one of the single-file layout,
\* or one that no attempt has completed.
Shaped(row) ==
    \/ /\ row.json /\ row.key \in Videos \cup {"none"}
       /\ row.path = PathOf(row.at, row.key) /\ row.thumb \in Thumbs
    \/ /\ ~row.json /\ row.thumb = "none"
       /\ \/ row.at \in Roots /\ row.path = "loose" /\ row.key = "none"
          \/ row.at \notin Roots /\ row.path = "none" /\ row.key = "loose"
    \/ /\ ~row.json /\ row.thumb = "none"
       /\ row.path = "none" /\ row.key = "none" /\ row.status # "complete"

Stores == [kind : {"attempt", "migrate"}, id : Ids, on : Sites, todo : Plans,
           key : KnownVideos \cup {"none"}, thumb : Thumbs,
           video : {"partial", "whole"}, copying : BOOLEAN]

Types ==
    /\ config \in Configs
    /\ rows \in [Ids -> RowTypes] /\ \A d \in Ids : Shaped(rows[d])
    /\ hasJob \subseteq issued /\ issued \subseteq Ids
    /\ disk \in [Sites -> [Ids -> [Names -> {"absent", "partial", "whole"}]]]
    /\ loose \in [Sites -> [Ids -> Media \cup {"none"}]]
    /\ op = NoOp \/ op \in Stores
    /\ pass \subseteq Ids /\ damaged \subseteq Ids /\ removed \subseteq Sites \X Ids
    /\ requests \in Nat /\ crashes \in Nat

\* A row of the single-file layout has its file at its own site, or nowhere.
Lone(d) ==
    Place(rows[d]) = "loose" =>
        \A site \in Sites : loose[site][d] # "none" => site = rows[d].at

TypeInv == Types /\ \A d \in Ids : Lone(d)

\* Sites: the one of now, and where keys are looked for.
LEMMA HereFacts ==
  ASSUME TypeInv
  PROVE  /\ Here \in Sites
         /\ \A at \in Sites : SiteOf(at) \in Sites
         /\ config.mode = "local" <=> Here \in Roots
         /\ SiteOf(Here) = Here
  <1>1. /\ config.mode \in {"local", "s3"} /\ config.root \in Roots
        /\ config.bucket \in Buckets /\ config.prefix \in Prefixes
    BY DEF TypeInv, Types, Configs
  <1>2. <<config.bucket, config.prefix>> \in Buckets \X Prefixes
    BY <1>1
  <1>3. <<config.bucket, config.prefix>> \notin Roots
    BY <1>2, SitesAssumption
  <1>4. ASSUME NEW at \in Sites PROVE SiteOf(at) \in Sites
    <2>1. CASE at \in Roots
      BY <1>1, <2>1 DEF SiteOf, Sites
    <2>2. CASE at \notin Roots
      <3>1. at \in Buckets \X Prefixes
        BY <2>2 DEF Sites
      <3>2. at[2] \in Prefixes
        BY <3>1
      <3>3. <<config.bucket, at[2]>> \in Buckets \X Prefixes
        BY <1>1, <3>2
      <3> QED
        BY <2>2, <3>3 DEF SiteOf, Sites
    <2> QED
      BY <2>1, <2>2
  <1>5. CASE config.mode = "local"
    <2>1. Here = config.root
      BY <1>5 DEF Here
    <2> QED
      BY <1>1, <1>4, <1>5, <2>1 DEF SiteOf, Sites
  <1>6. CASE config.mode # "local"
    <2>1. Here = <<config.bucket, config.prefix>>
      BY <1>6 DEF Here
    <2>2. <<config.bucket, config.prefix>>[2] = config.prefix
      OBVIOUS
    <2>3. SiteOf(Here) = Here
      BY <1>3, <2>1, <2>2 DEF SiteOf
    <2> QED
      BY <1>2, <1>3, <1>4, <1>6, <2>1, <2>3 DEF Sites
  <1> QED
    BY <1>5, <1>6

LEMMA StoreOrNone ==
  ASSUME TypeInv
  PROVE  op # NoOp <=> op \in Stores
  <1>1. NoOp.kind = "none"
    BY DEF NoOp
  <1>2. op \in Stores => op.kind # "none"
    BY DEF Stores
  <1> QED
    BY <1>1, <1>2 DEF TypeInv, Types

\* Rows that are made anew.
LEMMA RowMade ==
  ASSUME NEW status \in {"absent", "busy", "complete", "failed"}, NEW on \in Sites,
         NEW key \in Videos \cup {"none"}, NEW thumb \in Thumbs
  PROVE  /\ Row(status, on, PathOf(on, key), key, thumb, TRUE) \in RowTypes
         /\ Shaped(Row(status, on, PathOf(on, key), key, thumb, TRUE))
  <1>1. /\ PathOf(on, key) \in Places /\ key \in Places
        /\ thumb \in Names \cup {"none"}
    BY DEF PathOf, Places, Videos, Names, Thumbs
  <1> QED
    BY <1>1 DEF Row, RowTypes, Shaped

LEMMA NoRowMade == NoRow \in RowTypes /\ Shaped(NoRow)
  <1>1. DefaultRoot \in Sites
    BY SitesAssumption DEF Sites
  <1> QED
    BY <1>1 DEF NoRow, Row, RowTypes, Shaped, Places

\* A status alone does not change what a row points to.
LEMMA StatusSet ==
  ASSUME NEW row \in RowTypes, Shaped(row), NEW s \in {"busy", "failed"}
  PROVE  /\ [row EXCEPT !.status = s] \in RowTypes
         /\ Shaped([row EXCEPT !.status = s])
  <1> DEFINE new == [row EXCEPT !.status = s]
  <1>1. new \in RowTypes
    BY DEF RowTypes
  <1>2. /\ new.status = s /\ new.at = row.at /\ new.path = row.path
        /\ new.key = row.key /\ new.thumb = row.thumb /\ new.json = row.json
    BY DEF RowTypes
  <1> HIDE DEF new
  <1>3. Shaped(new)
    BY <1>2 DEF Shaped
  <1> QED
    BY <1>1, <1>3 DEF new

LEMMA RebuiltMade ==
  ASSUME TypeInv, NEW d \in Ids
  PROVE  /\ Rebuilt(d) \in RowTypes /\ Shaped(Rebuilt(d))
         /\ Rebuilt(d).at = Here /\ Rebuilt(d).json
         /\ Rebuilt(d).key = FirstOf(Held(Here, d) \cap Videos)
         /\ Rebuilt(d).thumb = FirstOf(Held(Here, d) \cap Thumbnails)
         /\ Rebuilt(d).path = PathOf(Here, Rebuilt(d).key)
         /\ Rebuilt(d).status = (IF Rebuilt(d).key = "none" THEN "failed" ELSE "complete")
  <1> DEFINE video == FirstOf(Held(Here, d) \cap Videos)
             thumb == FirstOf(Held(Here, d) \cap Thumbnails)
             status == IF video = "none" THEN "failed" ELSE "complete"
  <1>1. video \in Videos \cup {"none"}
    <2>1. Held(Here, d) \cap Videos \in SUBSET Names
      BY DEF Held
    <2> QED
      BY <2>1, FirstOfListing
  <1>2. thumb \in Thumbs
    <2>1. Held(Here, d) \cap Thumbnails \in SUBSET Names
      BY DEF Held
    <2> QED
      BY <2>1, FirstOfListing DEF Thumbnails, Thumbs
  <1>3. Rebuilt(d) = Row(status, Here, PathOf(Here, video), video, thumb, TRUE)
    BY DEF Rebuilt
  <1>4. status \in {"absent", "busy", "complete", "failed"} /\ Here \in Sites
    BY HereFacts
  <1> HIDE DEF video, thumb
  <1>5. Rebuilt(d) \in RowTypes /\ Shaped(Rebuilt(d))
    BY <1>1, <1>2, <1>3, <1>4, RowMade
  <1>6. /\ Rebuilt(d).at = Here /\ Rebuilt(d).json
        /\ Rebuilt(d).key = video /\ Rebuilt(d).thumb = thumb
        /\ Rebuilt(d).path = PathOf(Here, video)
        /\ Rebuilt(d).status = status
    BY <1>3 DEF Row
  <1> QED
    BY <1>5, <1>6 DEF video, thumb

\* The video that the migration finds has a name that packages know.
LEMMA SourceNamed ==
  ASSUME TypeInv, NEW d \in Ids, Source(d) # "absent"
  PROVE  SourceName(d) \in Videos /\ Source(d) \in {"partial", "whole"}
  <1>0. /\ rows[d] \in RowTypes /\ Shaped(rows[d])
        /\ rows[d].at \in Sites /\ SiteOf(rows[d].at) \in Sites
    BY HereFacts DEF TypeInv, Types, RowTypes
  <1>a. /\ disk[SiteOf(rows[d].at)][d] \in [Names -> {"absent", "partial", "whole"}]
        /\ disk[rows[d].at][d] \in [Names -> {"absent", "partial", "whole"}]
        /\ loose[rows[d].at][d] \in Videos \cup {"none"}
    BY <1>0, MediaAssumption DEF TypeInv, Types, Videos
  <1>1. \A m : At(m, d, "none") = "absent"
    BY DEF At
  <1>2. \A m : At(m, d, "loose") # "absent"
                 => At(m, d, "loose") = "whole" /\ loose[m][d] # "none"
    BY DEF At
  <1>3. \A m, n : n \in Videos => At(m, d, n) = disk[m][d][n] /\ n \in Names
    BY DEF At, Videos, Names
  <1>4. CASE rows[d].json
    <2>1. /\ rows[d].key \in Videos \cup {"none"}
          /\ rows[d].path = PathOf(rows[d].at, rows[d].key)
      BY <1>0, <1>4 DEF Shaped
    <2>2. rows[d].path = "none" \/ (rows[d].path = rows[d].key /\ rows[d].at \in Roots)
      BY <2>1 DEF PathOf
    <2>3. CASE rows[d].key = "none"
      <3>1. rows[d].path = "none"
        BY <2>2, <2>3
      <3> QED
        BY <1>1, <2>3, <3>1 DEF Source
    <2>4. CASE rows[d].key \in Videos
      <3>1. rows[d].key # "none" /\ rows[d].key # "loose"
        BY <2>4 DEF Videos
      <3>2. Place(rows[d]) = rows[d].key
        BY <2>2 DEF Place
      <3>3. SourceName(d) = rows[d].key
        BY <3>1, <3>2 DEF SourceName
      <3>4. Source(d) \in {disk[SiteOf(rows[d].at)][d][rows[d].key],
                         disk[rows[d].at][d][rows[d].key]}
        BY <1>1, <1>3, <2>2, <2>4, <3>1 DEF Source
      <3> QED
        BY <1>a, <1>3, <2>4, <3>3, <3>4
    <2> QED
      BY <2>1, <2>3, <2>4
  <1>5. CASE ~rows[d].json
    <2>1. \/ rows[d].path = "loose" /\ rows[d].key = "none"
          \/ rows[d].path = "none" /\ rows[d].key = "loose"
          \/ rows[d].path = "none" /\ rows[d].key = "none"
      BY <1>0, <1>5 DEF Shaped
    <2>2. Place(rows[d]) = "loose"
      BY <1>1, <2>1 DEF Source, Place
    <2>3. \/ /\ At(rows[d].at, d, "loose") # "absent"
             /\ Source(d) = At(rows[d].at, d, "loose")
          \/ /\ At(SiteOf(rows[d].at), d, "loose") # "absent"
             /\ Source(d) = At(SiteOf(rows[d].at), d, "loose")
      BY <1>1, <2>1, <2>2 DEF Source, Place
    <2>4. loose[rows[d].at][d] # "none" /\ Source(d) = "whole"
      BY <1>0, <1>2, <2>2, <2>3 DEF TypeInv, Lone
    <2> QED
      BY <1>a, <2>2, <2>4 DEF SourceName
  <1> QED
    BY <1>4, <1>5

(***************************************************************************)
(* What the actions do.                                                    *)
(***************************************************************************)
LEMMA SetFileDoes ==
  ASSUME TypeInv, op \in Stores, op.todo # <<>>,
         NEW s \in {"absent", "partial", "whole"}, SetFile(s)
  PROVE  /\ disk' \in [Sites -> [Ids -> [Names -> {"absent", "partial", "whole"}]]]
         /\ \A m \in Sites, d \in Ids, n \in Names :
               disk'[m][d][n] = IF m = op.on /\ d = op.id /\ n = Head(op.todo)
                                THEN s ELSE disk[m][d][n]
  <1> DEFINE folder == [disk[op.on][op.id] EXCEPT ![Head(op.todo)] = s]
             folders == [disk[op.on] EXCEPT ![op.id] = folder]
  <1>0. op.on \in Sites /\ op.id \in Ids /\ Head(op.todo) \in Names
    BY PlanFacts DEF Stores
  <1>1. disk \in [Sites -> [Ids -> [Names -> {"absent", "partial", "whole"}]]]
    BY DEF TypeInv, Types
  <1>2. disk' = [disk EXCEPT ![op.on] = folders]
    BY DEF SetFile
  <1>3. /\ folder \in [Names -> {"absent", "partial", "whole"}]
        /\ \A n \in Names : folder[n] = IF n = Head(op.todo) THEN s
                                        ELSE disk[op.on][op.id][n]
    BY <1>0, <1>1
  <1> HIDE DEF folder
  <1>4. /\ folders \in [Ids -> [Names -> {"absent", "partial", "whole"}]]
        /\ \A d \in Ids : folders[d] = IF d = op.id THEN folder ELSE disk[op.on][d]
    BY <1>0, <1>1, <1>3
  <1> HIDE DEF folders
  <1>5. /\ disk' \in [Sites -> [Ids -> [Names -> {"absent", "partial", "whole"}]]]
        /\ \A m \in Sites : disk'[m] = IF m = op.on THEN folders ELSE disk[m]
    BY <1>0, <1>1, <1>2, <1>4
  <1> QED
    BY <1>0, <1>3, <1>4, <1>5

LEMMA BeginCopyDoes ==
  ASSUME TypeInv, BeginCopy
  PROVE  /\ op \in Stores /\ op.todo # <<>> /\ SetFile("partial")
         /\ op' \in Stores /\ op'.copying
         /\ op'.kind = op.kind /\ op'.id = op.id /\ op'.on = op.on
         /\ op'.todo = op.todo /\ op'.key = op.key /\ op'.thumb = op.thumb
         /\ op'.video = op.video
         /\ UNCHANGED <<config, rows, hasJob, issued, loose, pass, requests,
                        crashes, damaged, removed>>
  <1>1. op.todo # <<>> /\ op' = [op EXCEPT !.copying = TRUE]
    BY DEF BeginCopy
  <1>2. NoOp.todo = <<>>
    BY DEF NoOp
  <1>3. op \in Stores
    BY <1>1, <1>2 DEF TypeInv, Types
  <1> QED
    BY <1>1, <1>3 DEF BeginCopy, Stores

LEMMA EndFileDoes ==
  ASSUME TypeInv, EndFile
  PROVE  /\ op \in Stores /\ op.todo # <<>>
         /\ SetFile(IF Head(op.todo) \in Videos THEN op.video ELSE "whole")
         /\ op' \in Stores
         /\ op'.kind = op.kind /\ op'.id = op.id /\ op'.on = op.on
         /\ op'.todo = Tail(op.todo)
         /\ op'.key = KeyAfter(op, Head(op.todo))
         /\ op'.thumb = ThumbAfter(op, Head(op.todo))
         /\ op'.video = op.video
         /\ UNCHANGED <<config, rows, hasJob, issued, loose, pass, requests,
                        crashes, damaged, removed>>
  <1> DEFINE n == Head(op.todo)
  <1>1. /\ op.todo # <<>>
        /\ op' = [op EXCEPT !.todo = Tail(op.todo), !.copying = FALSE,
                            !.key = KeyAfter(op, n), !.thumb = ThumbAfter(op, n)]
        /\ SetFile(IF n \in Videos THEN op.video ELSE "whole")
    BY DEF EndFile
  <1>2. NoOp.todo = <<>>
    BY DEF NoOp
  <1>3. op \in Stores
    BY <1>1, <1>2 DEF TypeInv, Types
  <1>4. Tail(op.todo) \in Plans /\ n \in Names /\ op.todo \in Plans
    BY <1>1, <1>3, PlanFacts DEF Stores
  <1>5. /\ KeyAfter(op, n) \in KnownVideos \cup {"none"}
        /\ ThumbAfter(op, n) \in Thumbs
    <2>1. op.key \in KnownVideos \cup {"none"} /\ op.thumb \in Thumbs
      BY <1>3 DEF Stores
    <2> QED
      BY <1>4, <2>1 DEF KeyAfter, ThumbAfter, KnownVideos, Thumbs, Names
  <1> HIDE DEF n
  <1>6. /\ op' \in Stores
        /\ op'.kind = op.kind /\ op'.id = op.id /\ op'.on = op.on
        /\ op'.todo = Tail(op.todo)
        /\ op'.key = KeyAfter(op, n) /\ op'.thumb = ThumbAfter(op, n)
        /\ op'.video = op.video
    BY <1>1, <1>3, <1>4, <1>5 DEF Stores
  <1> QED
    BY <1>1, <1>3, <1>6 DEF EndFile, n

LEMMA StorePackageDoes ==
  ASSUME TypeInv, NEW kind \in {"attempt", "migrate"}, NEW d \in Ids,
         NEW todo \in Plans, NEW video \in {"partial", "whole"},
         StorePackage(kind, d, todo, video)
  PROVE  /\ op' \in Stores
         /\ op'.kind = kind /\ op'.id = d /\ op'.on = Here /\ op'.todo = todo
         /\ op'.key = "none" /\ op'.thumb = "none" /\ op'.video = video
         /\ op'.copying = FALSE
  <1>1. Here \in Sites
    BY HereFacts
  <1>2. op' = [kind |-> kind, id |-> d, on |-> Here, todo |-> todo, key |-> "none",
               thumb |-> "none", video |-> video, copying |-> FALSE]
    BY DEF StorePackage
  <1> QED
    BY <1>1, <1>2 DEF Stores, Thumbs

LEMMA AttemptDoes ==
  ASSUME TypeInv, NEW d \in Ids, NEW video \in Media, Attempt(d, video)
  PROVE  /\ op = NoOp /\ pass = {}
         /\ rows' = [rows EXCEPT ![d] = [rows[d] EXCEPT !.status = "busy"]]
         /\ \E v \in Videos :
               /\ <<v, "thumbnail.jpg", "metadata.json">> \in Plans
               /\ StorePackage("attempt", d, <<v, "thumbnail.jpg", "metadata.json">>, "whole")
         /\ requests' \in Nat
         /\ hasJob' = hasJob \cup {d} /\ issued' = issued \cup {d}
         /\ UNCHANGED <<config, disk, loose, pass, crashes, damaged, removed>>
  <1> DEFINE todo == <<video, "thumbnail.jpg", "metadata.json">>
  <1>1. video \in Videos
    BY MediaAssumption DEF Videos
  <1>2. todo \in Plans
    BY <1>1 DEF Plans
  <1>4. StorePackage("attempt", d, todo, "whole")
    BY DEF Attempt
  <1>5. /\ op = NoOp /\ pass = {} /\ requests' \in Nat
        /\ rows' = [rows EXCEPT ![d].status = "busy"]
        /\ hasJob' = hasJob \cup {d} /\ issued' = issued \cup {d}
        /\ UNCHANGED <<config, disk, loose, pass, crashes, damaged, removed>>
    BY DEF Attempt, Request, Idle, TypeInv, Types, files
  <1> QED
    BY <1>1, <1>2, <1>4, <1>5

LEMMA MigrateDoes ==
  ASSUME TypeInv, NEW d \in Ids, Migrate(d)
  PROVE  /\ op = NoOp /\ d \in pass /\ pass' = pass \ {d}
         /\ Source(d) \in {"partial", "whole"}
         /\ \E todo \in Plans :
               /\ todo # <<>>
               /\ StorePackage("migrate", d, todo, Source(d))
         /\ UNCHANGED <<config, rows, hasJob, issued, disk, loose, requests,
                        crashes, damaged, removed>>
  <1>1. Source(d) # "absent"
    BY DEF Migrate
  <1>2. SourceName(d) \in Videos /\ Source(d) \in {"partial", "whole"}
    BY <1>1, SourceNamed
  <1>3. PICK todo \in {<<SourceName(d), "metadata.json">>,
                       <<SourceName(d), "thumbnail.jpg", "metadata.json">>} :
           StorePackage("migrate", d, todo, Source(d))
    BY DEF Migrate
  <1>4. todo \in Plans
    BY <1>2, <1>3 DEF Plans
  <1>5. todo # <<>>
    BY <1>3
  <1>6. /\ op = NoOp /\ d \in pass /\ pass' = pass \ {d}
        /\ UNCHANGED <<config, rows, hasJob, issued, disk, loose, requests,
                       crashes, damaged, removed>>
    BY DEF Migrate, files
  <1> QED
    BY <1>2, <1>3, <1>4, <1>5, <1>6

\* What a store that was done makes of the row.
DoneRow ==
    Row(IF op.kind = "migrate" /\ "none" \in {op.key, op.thumb} THEN "failed"
        ELSE "complete", op.on, PathOf(op.on, op.key), op.key, op.thumb, TRUE)

LEMMA DoneDoes ==
  ASSUME TypeInv, Persist \/ Migrated
  PROVE  /\ op \in Stores /\ op.todo = <<>>
         /\ rows' = [rows EXCEPT ![op.id] = DoneRow]
         /\ DoneRow \in RowTypes /\ Shaped(DoneRow)
         /\ DoneRow.at = op.on /\ DoneRow.path = PathOf(op.on, op.key)
         /\ DoneRow.key = op.key /\ DoneRow.thumb = op.thumb /\ DoneRow.json
         /\ removed' = removed \ {<<op.on, op.id>>}
         /\ damaged' = IF op.kind = "migrate" /\ op.video # "whole"
                       THEN damaged \cup {op.id} ELSE damaged \ {op.id}
         /\ op' = NoOp
         /\ UNCHANGED <<config, hasJob, issued, disk, loose, requests, pass, crashes>>
  <1>1. NoOp.kind = "none"
    BY DEF NoOp
  <1>2. op \in Stores
    BY <1>1 DEF TypeInv, Types, Persist, Migrated
  <1>3. /\ op.on \in Sites /\ op.key \in Videos \cup {"none"} /\ op.thumb \in Thumbs
    BY <1>2 DEF Stores, KnownVideos, Videos
  <1>4. DoneRow \in RowTypes /\ Shaped(DoneRow)
    BY <1>3, RowMade DEF DoneRow
  <1>5. CASE Persist
    <2>1. op.kind = "attempt"
      BY <1>5 DEF Persist
    <2>2. DoneRow = Row("complete", op.on, PathOf(op.on, op.key), op.key, op.thumb, TRUE)
      BY <2>1 DEF DoneRow
    <2> QED
      BY <1>2, <1>4, <1>5, <2>2 DEF Persist, Row, files
  <1>6. CASE Migrated
    <2>1. op.kind = "migrate"
      BY <1>6 DEF Migrated
    <2>2. DoneRow = Row(IF "none" \in {op.key, op.thumb} THEN "failed" ELSE "complete",
                        op.on, PathOf(op.on, op.key), op.key, op.thumb, TRUE)
      BY <2>1 DEF DoneRow
    <2> QED
      BY <1>2, <1>4, <1>6, <2>2 DEF Migrated, Row, files
  <1> QED
    BY <1>5, <1>6

LEMMA RemoveFolderDoes ==
  ASSUME TypeInv, NEW d \in Ids, RemoveFolder(d)
  PROVE  /\ disk' \in [Sites -> [Ids -> [Names -> {"absent", "partial", "whole"}]]]
         /\ loose' \in [Sites -> [Ids -> Media \cup {"none"}]]
         /\ removed' \subseteq Sites \X Ids /\ removed \subseteq removed'
         /\ \A m \in Sites, e \in Ids :
               /\ <<m, e>> \notin removed' => /\ disk'[m][e] = disk[m][e]
                                            /\ loose'[m][e] = loose[m][e]
               /\ loose'[m][e] \in {loose[m][e], "none"}
  <1> DEFINE root == rows[d].at
             empty == [n \in Names |-> "absent"]
             bare == [e \in Ids |-> empty]
             blank == [e \in Ids |-> "none"]
  <1>0. /\ disk \in [Sites -> [Ids -> [Names -> {"absent", "partial", "whole"}]]]
        /\ loose \in [Sites -> [Ids -> Media \cup {"none"}]]
        /\ removed \subseteq Sites \X Ids /\ root \in Sites
    BY DEF TypeInv, Types, RowTypes
  <1>1. CASE root \notin Roots \/ rows[d].path = "none"
    <2>1. UNCHANGED <<disk, loose, removed>>
      BY <1>1 DEF RemoveFolder, files, Names
    <2> QED
      BY <1>0, <2>1
  <1>2. CASE root \in Roots /\ rows[d].path = "loose"
    <2>1. /\ disk' = [disk EXCEPT ![root] = bare]
          /\ loose' = [loose EXCEPT ![root] = blank]
          /\ removed' = removed \cup ({root} \X Ids)
      BY <1>2 DEF RemoveFolder, Names
    <2>2. /\ bare \in [Ids -> [Names -> {"absent", "partial", "whole"}]]
          /\ blank \in [Ids -> Media \cup {"none"}]
          /\ \A e \in Ids : blank[e] = "none"
      OBVIOUS
    <2> HIDE DEF bare, blank
    <2>3. /\ disk' \in [Sites -> [Ids -> [Names -> {"absent", "partial", "whole"}]]]
          /\ \A m \in Sites : m # root => disk'[m] = disk[m]
      BY <1>0, <2>1, <2>2
    <2>4. /\ loose' \in [Sites -> [Ids -> Media \cup {"none"}]]
          /\ \A m \in Sites : loose'[m] = IF m = root THEN blank ELSE loose[m]
      BY <1>0, <2>1, <2>2
    <2>5. /\ removed' \subseteq Sites \X Ids /\ removed \subseteq removed'
          /\ \A e \in Ids : <<root, e>> \in removed'
      BY <1>0, <2>1
    <2> HIDE DEF root
    <2> QED
      BY <1>0, <2>2, <2>3, <2>4, <2>5
  <1>3. CASE root \in Roots /\ rows[d].path \in Names
    <2>1. /\ disk' = [disk EXCEPT ![root] = [disk[root] EXCEPT ![d] = empty]]
          /\ loose' = loose /\ removed' = removed \cup {<<root, d>>}
      BY <1>3 DEF RemoveFolder, Names
    <2>2. empty \in [Names -> {"absent", "partial", "whole"}]
      OBVIOUS
    <2> HIDE DEF empty, root
    <2>3. /\ disk' \in [Sites -> [Ids -> [Names -> {"absent", "partial", "whole"}]]]
          /\ \A m \in Sites, e \in Ids : ~(m = root /\ e = d) => disk'[m][e] = disk[m][e]
      BY <1>0, <2>1, <2>2
    <2>4. removed' \subseteq Sites \X Ids /\ removed \subseteq removed' /\ <<root, d>> \in removed'
      BY <1>0, <2>1
    <2> QED
      BY <1>0, <2>1, <2>3, <2>4
  <1> QED
    BY <1>1, <1>2, <1>3 DEF RemoveFolder

LEMMA DeleteDoes ==
  ASSUME TypeInv, NEW d \in Ids, DeleteDownload(d)
  PROVE  /\ op = NoOp /\ op' = op /\ RemoveFolder(d)
         /\ rows' \in {rows, [rows EXCEPT ![d] = NoRow]}
         /\ requests' \in Nat
         /\ UNCHANGED <<config, hasJob, issued, pass, crashes, damaged>>
  BY DEF DeleteDownload, Request, Idle, TypeInv, Types

\* The downloads that recovery rebuilds.
Found == {d \in Ids : disk[Here][d]["metadata.json"] = "whole"}

LEMMA RecoverDoes ==
  ASSUME TypeInv, RecoverFromStorage
  PROVE  /\ op = NoOp /\ op' = op
         /\ rows' = [d \in Ids |-> IF d \in Found THEN Rebuilt(d) ELSE rows[d]]
         /\ damaged' = (damaged \ Found) \cup {d \in Found : Adopts(d)}
         /\ removed' = removed \ ({Here} \X Found)
         /\ requests' \in Nat
         /\ UNCHANGED <<config, hasJob, issued, disk, loose, pass, crashes>>
  BY DEF RecoverFromStorage, Found, Request, Idle, TypeInv, Types, files

\* A store that fails, or that a restart cuts short.
LEMMA UndoneDoes ==
  ASSUME TypeInv, StoreFails \/ Restart
  PROVE  /\ op' = NoOp /\ UNCHANGED <<config, hasJob, issued, disk, loose, requests, removed>>
         /\ damaged' = IF op = NoOp THEN damaged ELSE damaged \cup Halved
         /\ \/ rows' = rows
            \/ /\ op \in Stores /\ op.kind = "attempt"
               /\ rows' = [rows EXCEPT ![op.id] = [rows[op.id] EXCEPT !.status = "failed"]]
         /\ pass' \in {pass, {d \in Ids : IsLegacy(rows[d])}}
         /\ rows' # rows => pass' = pass
         /\ crashes' \in Nat
         /\ op = NoOp => rows' = rows
  <1>1. CASE Restart
    BY <1>1 DEF Restart, files, TypeInv, Types
  <1>2. CASE StoreFails
    <2>1. op # NoOp
      BY <1>2 DEF StoreFails
    <2>2. op \in Stores
      BY <2>1, StoreOrNone
    <2> QED
      BY <1>2, <2>1, <2>2 DEF StoreFails, files, TypeInv, Types
  <1> QED
    BY <1>1, <1>2

\* What a halved video makes of the history of damaged rows.
LEMMA HalvedFacts ==
  ASSUME TypeInv, op \in Stores
  PROVE  /\ Halved \subseteq {op.id} /\ op.id \in Ids
         /\ op.id \notin Halved =>
               ~(op.kind = "migrate" /\ op.on = rows[op.id].at
                   /\ op.copying /\ Head(op.todo) = Place(rows[op.id]))
  BY DEF Halved, Stores
-----------------------------------------------------------------------------
\* Every step keeps the types and the shapes.
LEMMA TypesStep ==
  ASSUME TypeInv, [Next]_vars
  PROVE  Types'
  <1>0. /\ config \in Configs /\ rows \in [Ids -> RowTypes]
        /\ \A d \in Ids : Shaped(rows[d])
        /\ hasJob \subseteq issued /\ issued \subseteq Ids
        /\ pass \subseteq Ids /\ damaged \subseteq Ids /\ removed \subseteq Sites \X Ids
        /\ requests \in Nat /\ crashes \in Nat /\ (op = NoOp \/ op \in Stores)
    BY DEF TypeInv, Types
  <1>1. ASSUME NEW d \in Ids, NEW video \in Media, Attempt(d, video)
        PROVE  Types'
    <2>1. rows' = [rows EXCEPT ![d] = [rows[d] EXCEPT !.status = "busy"]]
      BY <1>1, AttemptDoes
    <2>2. rows' \in [Ids -> RowTypes] /\ \A e \in Ids : Shaped(rows'[e])
      BY <1>0, <2>1, StatusSet
    <2>3. op' \in Stores
      BY <1>1, AttemptDoes, StorePackageDoes
    <2>4. /\ requests' \in Nat
          /\ hasJob' = hasJob \cup {d} /\ issued' = issued \cup {d}
          /\ UNCHANGED <<config, disk, loose, pass, crashes, damaged, removed>>
      BY <1>1, AttemptDoes
    <2> QED
      BY <1>0, <2>2, <2>3, <2>4 DEF TypeInv, Types, Stores
  <1>2. ASSUME NEW d \in Ids, DeleteDownload(d) PROVE Types'
    <2>1. /\ op' = op /\ rows' \in {rows, [rows EXCEPT ![d] = NoRow]}
          /\ requests' \in Nat /\ RemoveFolder(d)
          /\ UNCHANGED <<config, hasJob, issued, pass, crashes, damaged>>
      BY <1>2, DeleteDoes
    <2>2. rows' \in [Ids -> RowTypes] /\ \A e \in Ids : Shaped(rows'[e])
      BY <1>0, <2>1, NoRowMade
    <2>3. /\ disk' \in [Sites -> [Ids -> [Names -> {"absent", "partial", "whole"}]]]
          /\ loose' \in [Sites -> [Ids -> Media \cup {"none"}]]
          /\ removed' \subseteq Sites \X Ids
      BY <2>1, RemoveFolderDoes
    <2> QED
      BY <1>0, <2>1, <2>2, <2>3 DEF TypeInv, Types, Stores
  <1>3. ASSUME NEW d \in Ids, Migrate(d) PROVE Types'
    <2>1. op' \in Stores
      BY <1>3, MigrateDoes, StorePackageDoes
    <2>2. /\ pass' = pass \ {d}
          /\ UNCHANGED <<config, rows, hasJob, issued, disk, loose, requests,
                         crashes, damaged, removed>>
      BY <1>3, MigrateDoes
    <2> QED
      BY <2>1, <2>2 DEF TypeInv, Types, Stores
  <1>4. ASSUME NEW d \in Ids, MigrateSkips(d) PROVE Types'
    BY <1>4 DEF MigrateSkips, TypeInv, Types, files, Stores
  <1>5. CASE PutStorage
    BY <1>5 DEF PutStorage, Request, TypeInv, Types, files, Stores
  <1>6. CASE LoseDatabase
    <2>1. rows' = [d \in Ids |-> NoRow] /\ hasJob' = {} /\ config' \in Configs
      <3>1. /\ config' = [config EXCEPT !.mode = "local", !.root = DefaultRoot]
            /\ rows' = [d \in Ids |-> NoRow] /\ hasJob' = {}
        BY <1>6 DEF LoseDatabase
      <3> QED
        BY <1>0, <3>1, SitesAssumption DEF Configs
    <2>2. rows' \in [Ids -> RowTypes] /\ \A e \in Ids : Shaped(rows'[e])
      BY <2>1, NoRowMade
    <2> QED
      BY <1>0, <1>6, <2>1, <2>2
         DEF LoseDatabase, Request, TypeInv, Types, files, Stores
  <1>7. CASE RecoverFromStorage
    <2>1. /\ op' = op /\ requests' \in Nat
          /\ rows' = [d \in Ids |-> IF d \in Found THEN Rebuilt(d) ELSE rows[d]]
          /\ damaged' = (damaged \ Found) \cup {d \in Found : Adopts(d)}
          /\ removed' = removed \ ({Here} \X Found)
          /\ UNCHANGED <<config, hasJob, issued, disk, loose, pass, crashes>>
      BY <1>7, RecoverDoes
    <2>2. rows' \in [Ids -> RowTypes] /\ \A e \in Ids : Shaped(rows'[e])
      BY <1>0, <2>1, RebuiltMade
    <2>3. damaged' \subseteq Ids /\ removed' \subseteq Sites \X Ids
      BY <1>0, <2>1 DEF Found
    <2> QED
      BY <1>0, <2>1, <2>2, <2>3 DEF TypeInv, Types, Stores
  <1>8. CASE BeginCopy
    <2>1. /\ op' \in Stores
          /\ UNCHANGED <<config, rows, hasJob, issued, loose, pass, requests,
                         crashes, damaged, removed>>
      BY <1>8, BeginCopyDoes
    <2>2. disk' \in [Sites -> [Ids -> [Names -> {"absent", "partial", "whole"}]]]
      BY <1>8, BeginCopyDoes, SetFileDoes
    <2> QED
      BY <2>1, <2>2 DEF TypeInv, Types, Stores
  <1>9. CASE EndFile
    <2>1. /\ op' \in Stores
          /\ UNCHANGED <<config, rows, hasJob, issued, loose, pass, requests,
                         crashes, damaged, removed>>
      BY <1>9, EndFileDoes
    <2>2. /\ op \in Stores /\ op.todo # <<>>
          /\ SetFile(IF Head(op.todo) \in Videos THEN op.video ELSE "whole")
      BY <1>9, EndFileDoes
    <2>3. (IF Head(op.todo) \in Videos THEN op.video ELSE "whole")
             \in {"absent", "partial", "whole"}
      BY <2>2 DEF Stores
    <2>4. disk' \in [Sites -> [Ids -> [Names -> {"absent", "partial", "whole"}]]]
      BY <2>2, <2>3, SetFileDoes
    <2> QED
      BY <2>1, <2>4 DEF TypeInv, Types, Stores
  <1>10. CASE StoreFails \/ Restart
    <2>1. /\ op' = NoOp /\ UNCHANGED <<config, hasJob, issued, disk, loose, requests, removed>>
          /\ damaged' = IF op = NoOp THEN damaged ELSE damaged \cup Halved
          /\ \/ rows' = rows
             \/ /\ op \in Stores /\ op.kind = "attempt"
                /\ rows' = [rows EXCEPT ![op.id] = [rows[op.id] EXCEPT !.status = "failed"]]
          /\ pass' \in {pass, {d \in Ids : IsLegacy(rows[d])}}
          /\ crashes' \in Nat
      BY <1>10, UndoneDoes
    <2>2. pass' \subseteq Ids
      BY <1>0, <2>1
    <2>3. damaged' \subseteq Ids
      BY <1>0, <2>1, HalvedFacts
    <2>4. op \in Stores =>
             /\ op.id \in Ids
             /\ [rows[op.id] EXCEPT !.status = "failed"] \in RowTypes
             /\ Shaped([rows[op.id] EXCEPT !.status = "failed"])
      <3>1. op \in Stores => op.id \in Ids
        BY DEF Stores
      <3> QED
        BY <1>0, <3>1, StatusSet
    <2>6. rows' \in [Ids -> RowTypes] /\ \A e \in Ids : Shaped(rows'[e])
      BY <1>0, <2>1, <2>4
    <2> QED
      BY <2>1, <2>2, <2>3, <2>6 DEF TypeInv, Types, Stores
  <1>11. CASE Persist \/ Migrated
    <2>1. /\ op \in Stores /\ rows' = [rows EXCEPT ![op.id] = DoneRow]
          /\ DoneRow \in RowTypes /\ Shaped(DoneRow)
          /\ removed' = removed \ {<<op.on, op.id>>}
          /\ damaged' = IF op.kind = "migrate" /\ op.video # "whole"
                        THEN damaged \cup {op.id} ELSE damaged \ {op.id}
          /\ op' = NoOp
          /\ UNCHANGED <<config, hasJob, issued, disk, loose, requests, pass, crashes>>
      BY <1>11, DoneDoes
    <2>2. removed' \subseteq Sites \X Ids /\ damaged' \subseteq Ids
      BY <1>0, <2>1 DEF Stores
    <2>3. rows' \in [Ids -> RowTypes] /\ \A e \in Ids : Shaped(rows'[e])
      BY <1>0, <2>1
    <2> QED
      BY <1>0, <2>1, <2>2, <2>3 DEF TypeInv, Types, Stores
  <1>13. CASE UNCHANGED vars
    BY <1>13 DEF vars, TypeInv, Types, Stores
  <1> QED
    BY <1>1, <1>2, <1>3, <1>4, <1>5, <1>6, <1>7, <1>8, <1>9, <1>10, <1>11,
       <1>13 DEF Next

\* What becomes of a row: its status, or everything.
LEMMA RowStep ==
  ASSUME TypeInv, [Next]_vars, NEW d \in Ids
  PROVE  \/ Place(rows'[d]) # "loose"
         \/ Place(rows'[d]) = Place(rows[d]) /\ rows'[d].at = rows[d].at
  <1>0. rows \in [Ids -> RowTypes]
    BY DEF TypeInv, Types
  <1>1. ASSUME NEW s, rows'[d] = [rows[d] EXCEPT !.status = s]
        PROVE  Place(rows'[d]) = Place(rows[d]) /\ rows'[d].at = rows[d].at
    <2>1. rows[d] \in RowTypes
      BY <1>0
    <2>2. /\ rows'[d].path = rows[d].path /\ rows'[d].key = rows[d].key
          /\ rows'[d].at = rows[d].at
      BY <1>1, <2>1 DEF RowTypes
    <2> QED
      BY <2>2 DEF Place
  <1>2. ASSUME rows'[d].json, Shaped(rows'[d]) PROVE Place(rows'[d]) # "loose"
    <2>1. Place(rows'[d]) \in Videos \cup {"none"}
      BY <1>2 DEF Shaped, PathOf, Place
    <2> QED
      BY <2>1 DEF Videos
  <1>3. rows'[d] = NoRow => Place(rows'[d]) # "loose"
    BY DEF NoRow, Row, Place
  <1>4. ASSUME NEW e \in Ids, NEW video \in Media, Attempt(e, video)
        PROVE  rows'[d] \in {rows[d], [rows[d] EXCEPT !.status = "busy"]}
    BY <1>0, <1>4, AttemptDoes
  <1>5. ASSUME NEW e \in Ids, DeleteDownload(e) PROVE rows'[d] \in {rows[d], NoRow}
    BY <1>0, <1>5, DeleteDoes
  <1>6. ASSUME LoseDatabase PROVE rows'[d] = NoRow
    BY <1>6 DEF LoseDatabase
  <1>7. ASSUME RecoverFromStorage
        PROVE  rows'[d] = rows[d] \/ (rows'[d].json /\ Shaped(rows'[d]))
    <2>1. rows'[d] \in {rows[d], Rebuilt(d)}
      BY <1>7, RecoverDoes
    <2> QED
      BY <2>1, RebuiltMade
  <1>8. ASSUME Persist \/ Migrated
        PROVE  rows'[d] = rows[d] \/ (rows'[d].json /\ Shaped(rows'[d]))
    <2>1. /\ op \in Stores /\ rows' = [rows EXCEPT ![op.id] = DoneRow]
          /\ DoneRow.json /\ Shaped(DoneRow)
      BY <1>8, DoneDoes
    <2> QED
      BY <1>0, <2>1
  <1>9. ASSUME StoreFails \/ Restart
        PROVE  rows'[d] \in {rows[d], [rows[d] EXCEPT !.status = "failed"]}
    <2>1. \/ rows' = rows
          \/ rows' = [rows EXCEPT ![op.id] = [rows[op.id] EXCEPT !.status = "failed"]]
      BY <1>9, UndoneDoes
    <2> QED
      BY <1>0, <2>1
  <1>10. ASSUME NEW e \in Ids, Migrate(e) PROVE rows' = rows
    BY <1>10, MigrateDoes
  <1>11. ASSUME BeginCopy \/ EndFile PROVE rows' = rows
    BY <1>11, BeginCopyDoes, EndFileDoes
  <1>12. ASSUME \/ \E e \in Ids : MigrateSkips(e)
                \/ PutStorage \/ UNCHANGED vars
         PROVE  rows' = rows
    BY <1>12 DEF MigrateSkips, PutStorage, vars
  <1> QED
    BY <1>1, <1>2, <1>3, <1>4, <1>5, <1>6, <1>7, <1>8, <1>9, <1>10, <1>11, <1>12 DEF Next

LEMMA TypeStep ==
  ASSUME TypeInv, [Next]_vars
  PROVE  TypeInv'
  <1>1. Types'
    BY TypesStep
  <1>2. \A site \in Sites, d \in Ids : loose'[site][d] \in {loose[site][d], "none"}
    <2>1. ASSUME NEW d \in Ids, DeleteDownload(d)
          PROVE  \A site \in Sites, e \in Ids : loose'[site][e] \in {loose[site][e], "none"}
      BY <2>1, DeleteDoes, RemoveFolderDoes
    <2>2. ASSUME NEW d \in Ids, (\E video \in Media : Attempt(d, video)) \/ Migrate(d)
          PROVE  loose' = loose
      BY <2>2, AttemptDoes, MigrateDoes
    <2>3. CASE \/ BeginCopy \/ EndFile \/ StoreFails \/ Persist \/ Migrated \/ Restart
               \/ PutStorage \/ LoseDatabase \/ RecoverFromStorage
               \/ (\E d \in Ids : MigrateSkips(d)) \/ UNCHANGED vars
      <3>1. loose' = loose
        BY <2>3 DEF BeginCopy, EndFile, StoreFails, Persist, Migrated, Restart, PutStorage,
                    LoseDatabase, RecoverFromStorage, MigrateSkips, files, vars
      <3> QED
        BY <3>1
    <2> QED
      BY <2>1, <2>2, <2>3 DEF Next
  <1>3. ASSUME NEW d \in Ids PROVE Lone(d)'
    <2>1. Lone(d)
      BY DEF TypeInv
    <2> QED
      BY <1>2, <2>1, RowStep DEF Lone
  <1> QED
    BY <1>1, <1>3 DEF TypeInv

LEMMA TypeInitially == Init => TypeInv
  <1> SUFFICES ASSUME Init PROVE TypeInv
    OBVIOUS
  <1>0. PICK old \in SUBSET Legacy :
           \E on \in [old -> Sites], name \in [old -> Media] :
              /\ rows = [d \in Ids |-> IF d \in old THEN LegacyRow(on[d]) ELSE NoRow]
              /\ loose = [m \in Sites |-> [d \in Ids |->
                             IF d \in old /\ on[d] = m THEN name[d] ELSE "none"]]
              /\ hasJob \in SUBSET old
              /\ issued = old
              /\ pass = old
    BY DEF Init
  <1>1. PICK on \in [old -> Sites], name \in [old -> Media] :
           /\ rows = [d \in Ids |-> IF d \in old THEN LegacyRow(on[d]) ELSE NoRow]
           /\ loose = [m \in Sites |-> [d \in Ids |->
                          IF d \in old /\ on[d] = m THEN name[d] ELSE "none"]]
           /\ hasJob \in SUBSET old
           /\ issued = old
           /\ pass = old
    BY <1>0
  <1>2. old \subseteq Ids
    BY LegacyAssumption
  <1>3. ASSUME NEW m \in Sites
        PROVE  /\ LegacyRow(m) \in RowTypes /\ Shaped(LegacyRow(m))
               /\ Place(LegacyRow(m)) = "loose" /\ LegacyRow(m).at = m
    <2>1. CASE m \in Roots
      <3>1. LegacyRow(m) = Row("complete", m, "loose", "none", "none", FALSE)
        BY <2>1 DEF LegacyRow
      <3> QED
        BY <2>1, <3>1 DEF Row, RowTypes, Shaped, Places, Place
    <2>2. CASE m \notin Roots
      <3>1. LegacyRow(m) = Row("complete", m, "none", "loose", "none", FALSE)
        BY <2>2 DEF LegacyRow
      <3> QED
        BY <2>2, <3>1 DEF Row, RowTypes, Shaped, Places, Place
    <2> QED
      BY <2>1, <2>2
  <1>4. rows \in [Ids -> RowTypes] /\ \A d \in Ids : Shaped(rows[d])
    BY <1>1, <1>3, NoRowMade
  <1>5. loose \in [Sites -> [Ids -> Media \cup {"none"}]]
    BY <1>1
  <1>6. disk \in [Sites -> [Ids -> [Names -> {"absent", "partial", "whole"}]]]
    BY DEF Init
  <1>7. Types
    BY <1>1, <1>2, <1>4, <1>5, <1>6 DEF Init, Types
  <1>8. ASSUME NEW d \in Ids PROVE Lone(d)
    <2>1. CASE d \in old
      <3>1. on[d] \in Sites /\ rows[d].at = on[d]
        BY <1>1, <1>3, <2>1
      <3> QED
        BY <1>1, <3>1 DEF Lone
    <2>2. CASE d \notin old
      <3>1. Place(rows[d]) = "none"
        BY <1>1, <2>2 DEF NoRow, Row, Place
      <3> QED
        BY <3>1 DEF Lone
    <2> QED
      BY <2>1, <2>2
  <1> QED
    BY <1>7, <1>8 DEF TypeInv

LEMMA TypeInvariant == Spec => []TypeInv
  <1>1. TypeInv /\ [Next]_vars => TypeInv'
    BY TypeStep
  <1> QED
    BY <1>1, TypeInitially, PTL DEF Spec

\* Rows, folders and the running store keep their shape, whatever fails.
THEOREM PackagesTypeCorrect == Spec => []TypeOK
  <1>1. TypeInv => TypeOK
    <2> SUFFICES ASSUME TypeInv PROVE TypeOK
      OBVIOUS
    <2>1. op # NoOp => op.id \in Ids /\ op.on \in Sites /\ op.todo \in Seq(Names)
      BY StoreOrNone, PlansAreSequences DEF Stores
    <2> QED
      BY <2>1 DEF TypeInv, Types, TypeOK, RowTypes
  <1> QED
    BY <1>1, TypeInvariant, PTL
-----------------------------------------------------------------------------
(***************************************************************************)
(* What the folders hold.                                                  *)
(***************************************************************************)
\* The file that a row points to, the thumbnail and the mark of the package.
Files(d) ==
    /\ Place(rows[d]) # "none" => At(rows[d].at, d, Place(rows[d])) = "whole"
    /\ rows[d].thumb # "none" => /\ At(rows[d].at, d, rows[d].thumb) = "whole"
                                 /\ At(rows[d].at, d, "metadata.json") = "whole"

\* A complete row without a key has its video for a thumbnail: only an attempt
\* leaves one, since recovery and migration call a row without a key failed.
Unnamed(d) ==
    rows[d].status = "complete" /\ rows[d].json /\ rows[d].key = "none"
        => rows[d].thumb = "video.m4a"

\* The migration visits rows that are as they were when the process started.
Visited ==
    /\ \A d \in pass : IsLegacy(rows[d])
    /\ op \in Stores => op.id \notin pass

\* An attempt that finds no known video takes the other one for the thumbnail.
FromWhole ==
    op.kind = "attempt" =>
        /\ rows[op.id].status = "busy" /\ op.video = "whole"
        /\ \/ op.key # "none" \/ op.thumb = "video.m4a"
           \/ /\ op.thumb = "none"
              /\ \E v \in Videos : op.todo = <<v, "thumbnail.jpg", "metadata.json">>

\* A file that has got its key is not written again.
NotAgain == op.key \notin Within(op.todo) /\ op.thumb \notin Within(op.todo)

\* A store has whole copies of what it has assigned keys to, unless it was given
\* half a video.
Written ==
    op.video = "whole" =>
        /\ op.key # "none" => disk[op.on][op.id][op.key] = "whole"
        /\ op.thumb # "none" => disk[op.on][op.id][op.thumb] = "whole"
        /\ op.todo = <<>> => disk[op.on][op.id]["metadata.json"] = "whole"

\* A migration in the folder of its row has read a whole video, and leaves half
\* of one only while it copies it; the row has no thumbnail yet.
InPlace ==
    /\ op.kind = "migrate" /\ rows[op.id].status = "complete" /\ rows[op.id].at = op.on
    /\ <<op.on, op.id>> \notin removed /\ op.id \notin damaged
    => /\ op.video = "whole" /\ rows[op.id].thumb = "none"
       /\ \/ op.copying /\ Head(op.todo) = Place(rows[op.id])
          \/ At(op.on, op.id, Place(rows[op.id])) = "whole"

Storing == FromWhole /\ NotAgain /\ Written /\ InPlace

FolderInv ==
    /\ \A d \in Ids : (Intact(d) => Files(d)) /\ Unnamed(d)
    /\ Visited
    /\ op \in Stores => Storing

LEMMA NoOpHere == NoOp.on \notin Sites /\ NoOp \notin Stores
  <1>1. NoOp.on = "none" /\ NoOp.kind = "none"
    BY DEF NoOp
  <1>2. NoOp \notin Stores
    <2>1. NoOp.kind \notin {"attempt", "migrate"}
      BY <1>1
    <2> QED
      BY <2>1 DEF Stores
  <1> QED
    BY <1>1, <1>2, NoneAssumption DEF Sites

\* Between stores a complete row is intact when neither history names it.
LEMMA IntactIdle ==
  ASSUME TypeInv, op = NoOp, NEW d \in Ids, rows[d].status = "complete",
         <<rows[d].at, d>> \notin removed, d \notin damaged
  PROVE  Intact(d)
  <1>1. rows[d].at \in Sites
    BY DEF TypeInv, Types, RowTypes
  <1> QED
    BY <1>1, NoOpHere DEF Intact

\* A row that is not touched, in a folder that is not touched.
LEMMA FilesFrame ==
  ASSUME NEW d \in Ids, Files(d), rows'[d] = rows[d],
         disk'[rows[d].at][d] = disk[rows[d].at][d],
         loose'[rows[d].at][d] = loose[rows[d].at][d]
  PROVE  Files(d)'
  BY DEF Files, At

\* A row of a package has its files when they are in the folder.
LEMMA FilesThere ==
  ASSUME NEW d \in Ids, Shaped(rows'[d]), rows'[d].json,
         disk'[rows'[d].at][d]["metadata.json"] = "whole",
         \A n \in {rows'[d].key, rows'[d].thumb} :
            n # "none" => disk'[rows'[d].at][d][n] = "whole"
  PROVE  Files(d)'
  <1>1. /\ rows'[d].key \in Videos \cup {"none"} /\ rows'[d].thumb \in Thumbs
        /\ Place(rows'[d]) = rows'[d].key
    BY DEF Shaped, PathOf, Place
  <1>2. /\ rows'[d].key # "loose" /\ rows'[d].thumb # "loose"
    BY <1>1 DEF Videos, Thumbs
  <1> QED
    BY <1>1, <1>2 DEF Files, At

\* A file that is being written changes, and nothing else.
LEMMA StoreWrites ==
  ASSUME TypeInv, BeginCopy \/ EndFile
  PROVE  /\ op \in Stores /\ op.todo # <<>> /\ op' \in Stores
         /\ op'.id = op.id /\ op'.on = op.on /\ op'.kind = op.kind /\ op'.video = op.video
         /\ Head(op.todo) \in Names /\ op.on \in Sites /\ op.id \in Ids
         /\ \A m \in Sites, d \in Ids, n \in Names :
               ~(m = op.on /\ d = op.id /\ n = Head(op.todo))
                  => disk'[m][d][n] = disk[m][d][n]
         /\ EndFile /\ op.video = "whole" => disk'[op.on][op.id][Head(op.todo)] = "whole"
         /\ disk' \in [Sites -> [Ids -> [Names -> {"absent", "partial", "whole"}]]]
         /\ UNCHANGED <<config, rows, loose, pass, damaged, removed>>
  <1>1. /\ op \in Stores /\ op.todo # <<>> /\ op' \in Stores
        /\ op'.id = op.id /\ op'.on = op.on /\ op'.kind = op.kind /\ op'.video = op.video
        /\ UNCHANGED <<config, rows, loose, pass, damaged, removed>>
    BY BeginCopyDoes, EndFileDoes
  <1>2. Head(op.todo) \in Names /\ op.on \in Sites /\ op.id \in Ids
    BY <1>1, PlanFacts DEF Stores
  <1>3. CASE BeginCopy
    <2>1. SetFile("partial") /\ ~EndFile
      <3>1. SetFile("partial") /\ op'.copying
        BY <1>3, BeginCopyDoes
      <3>2. EndFile => op'.copying = FALSE
        <4>1. EndFile => op' = [op EXCEPT !.todo = Tail(op.todo), !.copying = FALSE,
                                          !.key = KeyAfter(op, Head(op.todo)),
                                          !.thumb = ThumbAfter(op, Head(op.todo))]
          BY DEF EndFile
        <4> QED
          BY <1>1, <4>1 DEF Stores
      <3> QED
        BY <3>1, <3>2
    <2> QED
      BY <1>1, <1>2, <2>1, SetFileDoes
  <1>4. CASE EndFile
    <2>1. SetFile(IF Head(op.todo) \in Videos THEN op.video ELSE "whole")
      BY <1>4, EndFileDoes
    <2>2. (IF Head(op.todo) \in Videos THEN op.video ELSE "whole")
             \in {"absent", "partial", "whole"}
      BY <1>1 DEF Stores
    <2>3. /\ disk' \in [Sites -> [Ids -> [Names -> {"absent", "partial", "whole"}]]]
          /\ \A m \in Sites, d \in Ids, n \in Names :
                disk'[m][d][n] = IF m = op.on /\ d = op.id /\ n = Head(op.todo)
                                 THEN (IF Head(op.todo) \in Videos THEN op.video ELSE "whole")
                                 ELSE disk[m][d][n]
      BY <1>1, <2>1, <2>2, SetFileDoes
    <2> QED
      BY <1>1, <1>2, <2>3
  <1> QED
    BY <1>3, <1>4

\* What is intact has its files, whatever step is taken.
LEMMA WholeStep ==
  ASSUME TypeInv, TypeInv', FolderInv, [Next]_vars, NEW d \in Ids, Intact(d)'
  PROVE  Files(d)'
  <1>0. /\ rows \in [Ids -> RowTypes] /\ rows' \in [Ids -> RowTypes]
        /\ Shaped(rows'[d]) /\ rows[d].at \in Sites
        /\ disk \in [Sites -> [Ids -> [Names -> {"absent", "partial", "whole"}]]]
        /\ op = NoOp \/ op \in Stores
    <2>1. /\ rows \in [Ids -> RowTypes] /\ rows' \in [Ids -> RowTypes] /\ Shaped(rows'[d])
          /\ disk \in [Sites -> [Ids -> [Names -> {"absent", "partial", "whole"}]]]
          /\ op = NoOp \/ op \in Stores
      BY DEF TypeInv, Types
    <2> QED
      BY <2>1 DEF RowTypes
  <1>1. Intact(d) => Files(d)
    BY DEF FolderInv
  <1>2. /\ rows'[d].status = "complete"
        /\ <<rows'[d].at, d>> \notin removed' /\ d \notin damaged'
        /\ ~(op'.id = d /\ op'.on = rows'[d].at)
    BY DEF Intact
  <1>3. ASSUME rows'[d] = rows[d], Intact(d), disk'[rows[d].at][d] = disk[rows[d].at][d],
               loose'[rows[d].at][d] = loose[rows[d].at][d]
        PROVE  Files(d)'
    BY <1>1, <1>3, FilesFrame
  <1>4. ASSUME rows'[d] = rows[d], op = NoOp, UNCHANGED <<disk, loose, damaged, removed>>
        PROVE  Files(d)'
    <2>1. Intact(d)
      BY <1>2, <1>4, IntactIdle
    <2> QED
      BY <1>3, <1>4, <2>1
  <1>5. ASSUME NEW e \in Ids, NEW video \in Media, Attempt(e, video)
        PROVE  Files(d)'
    <2>1. /\ op = NoOp /\ rows' = [rows EXCEPT ![e] = [rows[e] EXCEPT !.status = "busy"]]
          /\ UNCHANGED <<disk, loose, damaged, removed>>
      BY <1>5, AttemptDoes
    <2>2. e # d
      <3>1. e = d => rows'[d] = [rows[d] EXCEPT !.status = "busy"] /\ rows[d] \in RowTypes
        BY <1>0, <2>1
      <3>2. e = d => rows'[d].status = "busy"
        BY <3>1 DEF RowTypes
      <3> QED
        BY <1>2, <3>2
    <2>3. rows'[d] = rows[d]
      BY <1>0, <2>1, <2>2
    <2> QED
      BY <1>4, <2>1, <2>3
  <1>6. ASSUME NEW e \in Ids, DeleteDownload(e) PROVE Files(d)'
    <2>1. /\ op = NoOp /\ RemoveFolder(e) /\ damaged' = damaged
          /\ rows' \in {rows, [rows EXCEPT ![e] = NoRow]}
      BY <1>6, DeleteDoes
    <2>2. rows'[d] = rows[d]
      <3>1. NoRow.status = "absent"
        BY DEF NoRow, Row
      <3> QED
        BY <1>0, <1>2, <2>1, <3>1
    <2>3. /\ <<rows[d].at, d>> \notin removed
          /\ disk'[rows[d].at][d] = disk[rows[d].at][d]
          /\ loose'[rows[d].at][d] = loose[rows[d].at][d]
      BY <1>0, <1>2, <2>1, <2>2, RemoveFolderDoes
    <2>4. Intact(d)
      BY <1>2, <2>1, <2>2, <2>3, IntactIdle
    <2> QED
      BY <1>3, <2>2, <2>3, <2>4
  <1>7. ASSUME NEW e \in Ids, Migrate(e) PROVE Files(d)'
    BY <1>4, <1>7, MigrateDoes
  <1>8. CASE (\E e \in Ids : MigrateSkips(e)) \/ PutStorage
    BY <1>4, <1>8 DEF MigrateSkips, PutStorage, Request, Idle, files
  <1>9. CASE LoseDatabase
    <2>1. rows'[d] = NoRow /\ NoRow.status = "absent"
      BY <1>9 DEF LoseDatabase, NoRow, Row
    <2> QED
      BY <1>2, <2>1
  <1>10. CASE RecoverFromStorage
    <2>1. /\ op = NoOp /\ rows'[d] = IF d \in Found THEN Rebuilt(d) ELSE rows[d]
          /\ damaged' = (damaged \ Found) \cup {e \in Found : Adopts(e)}
          /\ removed' = removed \ ({Here} \X Found)
          /\ UNCHANGED <<disk, loose>>
      BY <1>10, RecoverDoes
    <2>2. CASE d \notin Found
      <3>1. Intact(d)
        BY <1>2, <2>1, <2>2, IntactIdle
      <3> QED
        BY <1>3, <2>1, <2>2, <3>1
    <2>3. CASE d \in Found
      <3>1. /\ rows'[d] = Rebuilt(d) /\ rows'[d].at = Here /\ rows'[d].json
            /\ rows'[d].key = FirstOf(Held(Here, d) \cap Videos)
            /\ rows'[d].thumb = FirstOf(Held(Here, d) \cap Thumbnails)
        BY <2>1, <2>3, RebuiltMade
      <3>2. /\ Held(Here, d) \cap Videos \in SUBSET Names
            /\ Held(Here, d) \cap Thumbnails \in SUBSET Names
        BY DEF Held
      <3>3. \A n \in {rows'[d].key, rows'[d].thumb} : n # "none" => n \in Held(Here, d)
        BY <3>1, <3>2, FirstOfListing
      <3>4. \A n \in {rows'[d].key, rows'[d].thumb} : At(Here, d, n) # "partial"
        BY <1>2, <2>1, <2>3, <3>1 DEF Adopts
      <3>5. \A n \in Names : n \notin {"none", "loose"}
        BY DEF Names
      <3>6. Here \in Sites
        BY HereFacts
      <3>7. \A n \in {rows'[d].key, rows'[d].thumb} : n # "none" => disk[Here][d][n] = "whole"
        <4> SUFFICES ASSUME NEW n \in {rows'[d].key, rows'[d].thumb}, n # "none"
                     PROVE  disk[Here][d][n] = "whole"
          OBVIOUS
        <4>1. n \in Names /\ disk[Here][d][n] # "absent"
          BY <3>3 DEF Held
        <4>2. disk[Here][d][n] # "partial"
          BY <3>4, <3>5, <4>1 DEF At
        <4>3. disk[Here][d][n] \in {"absent", "partial", "whole"}
          BY <1>0, <3>6, <4>1
        <4> QED
          BY <4>1, <4>2, <4>3
      <3>8. disk[Here][d]["metadata.json"] = "whole"
        BY <2>3 DEF Found
      <3> QED
        BY <1>0, <2>1, <3>1, <3>7, <3>8, FilesThere
    <2> QED
      BY <2>2, <2>3
  <1>11. CASE BeginCopy \/ EndFile
    <2>1. /\ UNCHANGED <<rows, loose, damaged, removed>> /\ op'.id = op.id /\ op'.on = op.on
          /\ \A m \in Sites, e \in Ids, n \in Names :
                ~(m = op.on /\ e = op.id /\ n = Head(op.todo)) => disk'[m][e][n] = disk[m][e][n]
          /\ disk' \in [Sites -> [Ids -> [Names -> {"absent", "partial", "whole"}]]]
      BY <1>11, StoreWrites
    <2>2. Intact(d)
      BY <1>2, <2>1 DEF Intact
    <2>3. ~(rows[d].at = op.on /\ d = op.id)
      BY <1>2, <2>1
    <2>4. disk'[rows[d].at][d] = disk[rows[d].at][d]
      <3>1. \A n \in Names : disk'[rows[d].at][d][n] = disk[rows[d].at][d][n]
        BY <1>0, <2>1, <2>3
      <3>2. /\ disk'[rows[d].at][d] \in [Names -> {"absent", "partial", "whole"}]
            /\ disk[rows[d].at][d] \in [Names -> {"absent", "partial", "whole"}]
        BY <1>0, <2>1
      <3> QED
        BY <3>1, <3>2
    <2> QED
      BY <1>3, <2>1, <2>2, <2>4
  <1>12. CASE Persist \/ Migrated
    <2>1. /\ op \in Stores /\ op.todo = <<>>
          /\ rows' = [rows EXCEPT ![op.id] = DoneRow]
          /\ DoneRow.at = op.on /\ DoneRow.key = op.key /\ DoneRow.thumb = op.thumb
          /\ DoneRow.json
          /\ removed' = removed \ {<<op.on, op.id>>}
          /\ damaged' = IF op.kind = "migrate" /\ op.video # "whole"
                        THEN damaged \cup {op.id} ELSE damaged \ {op.id}
          /\ UNCHANGED <<disk, loose>>
      BY <1>12, DoneDoes
    <2>2. CASE d = op.id
      <3>1. rows'[d] = DoneRow
        BY <1>0, <2>1, <2>2
      <3>2. FromWhole /\ Written
        BY <2>1 DEF FolderInv, Storing
      <3>3. op.kind \in {"attempt", "migrate"}
        BY <2>1 DEF Stores
      <3>4. op.video = "whole"
        BY <1>2, <2>1, <2>2, <3>2, <3>3 DEF FromWhole
      <3>5. /\ op.key # "none" => disk[op.on][d][op.key] = "whole"
            /\ op.thumb # "none" => disk[op.on][d][op.thumb] = "whole"
            /\ disk[op.on][d]["metadata.json"] = "whole"
        BY <2>1, <2>2, <3>2, <3>4 DEF Written
      <3> QED
        BY <1>0, <2>1, <3>1, <3>5, FilesThere
    <2>3. CASE d # op.id
      <3>1. rows'[d] = rows[d]
        BY <1>0, <2>1, <2>3
      <3>2. <<rows[d].at, d>> # <<op.on, op.id>>
        BY <2>3
      <3>3. Intact(d)
        BY <1>2, <2>1, <2>3, <3>1, <3>2 DEF Intact
      <3> QED
        BY <1>3, <2>1, <3>1, <3>3
    <2> QED
      BY <2>2, <2>3
  <1>13. CASE StoreFails \/ Restart
    <2>1. /\ UNCHANGED <<disk, loose, removed>>
          /\ damaged' = IF op = NoOp THEN damaged ELSE damaged \cup Halved
          /\ \/ rows' = rows
             \/ /\ op \in Stores /\ op.kind = "attempt"
                /\ rows' = [rows EXCEPT ![op.id] = [rows[op.id] EXCEPT !.status = "failed"]]
          /\ op = NoOp => rows' = rows
      BY <1>13, UndoneDoes
    <2>2. rows'[d] = rows[d]
      <3>1. ASSUME op \in Stores, d = op.id,
                   rows' = [rows EXCEPT ![op.id] = [rows[op.id] EXCEPT !.status = "failed"]]
            PROVE  FALSE
        <4>1. rows'[d] = [rows[d] EXCEPT !.status = "failed"] /\ rows[d] \in RowTypes
          BY <1>0, <3>1
        <4>2. rows'[d].status = "failed"
          BY <4>1 DEF RowTypes
        <4> QED
          BY <1>2, <4>2
      <3> QED
        BY <1>0, <2>1, <3>1
    <2>3. CASE op = NoOp
      BY <1>4, <2>1, <2>2, <2>3
    <2>4. CASE op \in Stores /\ ~(op.id = d /\ op.on = rows[d].at)
      <3>1. damaged \subseteq damaged'
        BY <2>1
      <3>2. Intact(d)
        BY <1>2, <2>1, <2>2, <2>4, <3>1 DEF Intact
      <3> QED
        BY <1>3, <2>1, <2>2, <3>2
    <2>5. CASE op \in Stores /\ op.id = d /\ op.on = rows[d].at
      <3>1. FromWhole /\ InPlace /\ op.kind \in {"attempt", "migrate"}
        BY <2>5 DEF FolderInv, Storing, Stores
      <3>2. op.kind = "migrate"
        BY <1>2, <2>2, <2>5, <3>1 DEF FromWhole
      <3>3. d \notin damaged /\ d \notin Halved
        BY <1>2, <2>1, <2>5, NoOpHere
      <3>4. ~(op.copying /\ Head(op.todo) = Place(rows[d]))
        BY <2>5, <3>2, <3>3, HalvedFacts
      <3>5. rows[d].thumb = "none" /\ At(op.on, d, Place(rows[d])) = "whole"
        BY <1>2, <2>1, <2>2, <2>5, <3>1, <3>2, <3>3, <3>4 DEF InPlace
      <3>6. Files(d)
        BY <2>5, <3>5 DEF Files
      <3> QED
        BY <2>1, <2>2, <3>6, FilesFrame
    <2> QED
      BY <1>0, <2>3, <2>4, <2>5
  <1>14. CASE UNCHANGED vars
    <2>1. Intact(d)
      BY <1>2, <1>14 DEF vars, Intact
    <2> QED
      BY <1>3, <1>14, <2>1 DEF vars
  <1> QED
    BY <1>5, <1>6, <1>7, <1>8, <1>9, <1>10, <1>11, <1>12, <1>13, <1>14 DEF Next

\* A complete row without a key comes from an attempt.
LEMMA UnnamedStep ==
  ASSUME TypeInv, FolderInv, [Next]_vars, NEW d \in Ids
  PROVE  Unnamed(d)'
  <1>0. rows \in [Ids -> RowTypes] /\ Unnamed(d)
    BY DEF TypeInv, Types, FolderInv
  <1>1. rows'[d] = rows[d] => Unnamed(d)'
    BY <1>0 DEF Unnamed
  <1>2. ASSUME NEW s \in {"busy", "failed"}, rows'[d] = [rows[d] EXCEPT !.status = s]
        PROVE  Unnamed(d)'
    <2>1. rows[d] \in RowTypes
      BY <1>0
    <2>2. rows'[d].status = s
      BY <1>2, <2>1 DEF RowTypes
    <2> QED
      BY <2>2 DEF Unnamed
  <1>3. rows'[d] = NoRow => Unnamed(d)'
    BY DEF NoRow, Row, Unnamed
  <1>4. ASSUME NEW e \in Ids, NEW video \in Media, Attempt(e, video) PROVE Unnamed(d)'
    <2>1. rows'[d] \in {rows[d], [rows[d] EXCEPT !.status = "busy"]}
      BY <1>0, <1>4, AttemptDoes
    <2> QED
      BY <1>1, <1>2, <2>1
  <1>5. ASSUME NEW e \in Ids, DeleteDownload(e) PROVE Unnamed(d)'
    <2>1. rows'[d] \in {rows[d], NoRow}
      BY <1>0, <1>5, DeleteDoes
    <2> QED
      BY <1>1, <1>3, <2>1
  <1>6. CASE LoseDatabase
    BY <1>3, <1>6 DEF LoseDatabase
  <1>7. CASE RecoverFromStorage
    <2>1. rows'[d] \in {rows[d], Rebuilt(d)}
      BY <1>7, RecoverDoes
    <2>2. rows'[d] = Rebuilt(d) => (rows'[d].key = "none" => rows'[d].status = "failed")
      BY RebuiltMade
    <2> QED
      BY <1>1, <2>1, <2>2 DEF Unnamed
  <1>8. CASE Persist \/ Migrated
    <2>1. /\ op \in Stores /\ op.todo = <<>> /\ rows' = [rows EXCEPT ![op.id] = DoneRow]
          /\ DoneRow.key = op.key /\ DoneRow.thumb = op.thumb
      BY <1>8, DoneDoes
    <2>2. FromWhole /\ op.kind \in {"attempt", "migrate"}
      BY <2>1 DEF FolderInv, Storing, Stores
    <2>3. ASSUME op.key = "none", DoneRow.status = "complete" PROVE op.thumb = "video.m4a"
      <3>1. op.kind # "migrate"
        BY <2>3 DEF DoneRow, Row
      <3> QED
        BY <2>1, <2>2, <2>3, <3>1 DEF FromWhole
    <2>4. rows'[d] = rows[d] \/ rows'[d] = DoneRow
      BY <1>0, <2>1
    <2>5. rows'[d] = DoneRow => Unnamed(d)'
      BY <2>1, <2>3 DEF Unnamed
    <2> QED
      BY <1>1, <2>4, <2>5
  <1>9. CASE StoreFails \/ Restart
    <2>1. rows'[d] \in {rows[d], [rows[d] EXCEPT !.status = "failed"]}
      BY <1>0, <1>9, UndoneDoes
    <2> QED
      BY <1>1, <1>2, <2>1
  <1>10. ASSUME NEW e \in Ids, Migrate(e) PROVE Unnamed(d)'
    BY <1>1, <1>10, MigrateDoes
  <1>11. CASE BeginCopy \/ EndFile
    BY <1>1, <1>11, StoreWrites
  <1>12. CASE (\E e \in Ids : MigrateSkips(e)) \/ PutStorage \/ UNCHANGED vars
    BY <1>1, <1>12 DEF MigrateSkips, PutStorage, vars
  <1> QED
    BY <1>4, <1>5, <1>6, <1>7, <1>8, <1>9, <1>10, <1>11, <1>12 DEF Next

\* No request is served while the migration runs, and it takes each row once.
LEMMA VisitedStep ==
  ASSUME TypeInv, FolderInv, [Next]_vars
  PROVE  Visited'
  <1>0. Visited /\ rows \in [Ids -> RowTypes] /\ pass \subseteq Ids
        /\ (op = NoOp \/ op \in Stores) /\ Stores' = Stores
    BY DEF FolderInv, TypeInv, Types, Stores
  <1>1. ASSUME NEW d \in Ids, NEW video \in Media, Attempt(d, video) PROVE Visited'
    <2>1. pass' = {}
      BY <1>1, AttemptDoes
    <2> QED
      BY <2>1 DEF Visited
  <1>2. CASE (\E d \in Ids : DeleteDownload(d)) \/ PutStorage \/ LoseDatabase
             \/ RecoverFromStorage
    <2>1. pass' = {}
      BY <1>2 DEF DeleteDownload, PutStorage, LoseDatabase, RecoverFromStorage, Request, Idle
    <2> QED
      BY <2>1 DEF Visited
  <1>3. ASSUME NEW d \in Ids, Migrate(d) PROVE Visited'
    <2>1. /\ pass' = pass \ {d} /\ rows' = rows
          /\ \E todo \in Plans : StorePackage("migrate", d, todo, Source(d))
      BY <1>3, MigrateDoes
    <2>2. op'.id = d
      BY <2>1 DEF StorePackage
    <2> QED
      BY <1>0, <2>1, <2>2 DEF Visited
  <1>4. ASSUME NEW d \in Ids, MigrateSkips(d) PROVE Visited'
    <2>1. /\ pass' = pass \ {d} /\ rows' = rows /\ op' = op
      BY <1>4 DEF MigrateSkips
    <2> QED
      BY <1>0, <2>1 DEF Visited
  <1>5. CASE BeginCopy \/ EndFile
    <2>1. op \in Stores /\ op'.id = op.id /\ UNCHANGED <<rows, pass>>
      BY <1>5, StoreWrites
    <2> QED
      BY <1>0, <2>1 DEF Visited
  <1>6. CASE Persist \/ Migrated
    <2>1. /\ op \in Stores /\ op' = NoOp /\ pass' = pass
          /\ rows' = [rows EXCEPT ![op.id] = DoneRow]
      BY <1>6, DoneDoes
    <2>2. \A d \in pass : rows'[d] = rows[d]
      BY <1>0, <2>1 DEF Visited
    <2> QED
      BY <1>0, <2>1, <2>2, NoOpHere DEF Visited, IsLegacy
  <1>7. CASE StoreFails \/ Restart
    <2>1. /\ op' = NoOp
          /\ \/ rows' = rows
             \/ op \in Stores
                /\ rows' = [rows EXCEPT ![op.id] = [rows[op.id] EXCEPT !.status = "failed"]]
          /\ pass' \in {pass, {d \in Ids : IsLegacy(rows[d])}}
          /\ rows' # rows => pass' = pass
      BY <1>7, UndoneDoes
    <2>2. CASE rows' = rows
      BY <1>0, <2>1, <2>2, NoOpHere DEF Visited, IsLegacy
    <2>3. CASE rows' # rows
      <3>1. \A d \in pass : rows'[d] = rows[d]
        BY <1>0, <2>1, <2>3 DEF Visited
      <3> QED
        BY <1>0, <2>1, <2>3, <3>1, NoOpHere DEF Visited, IsLegacy
    <2> QED
      BY <2>2, <2>3
  <1>8. CASE UNCHANGED vars
    BY <1>0, <1>8 DEF vars, Visited
  <1> QED
    BY <1>1, <1>2, <1>3, <1>4, <1>5, <1>6, <1>7, <1>8 DEF Next

\* A store begins: nothing is written yet.
LEMMA AttemptBegins ==
  ASSUME TypeInv, FolderInv, NEW d \in Ids, NEW video \in Media, Attempt(d, video)
  PROVE  Storing'
  <1>1. /\ rows' = [rows EXCEPT ![d] = [rows[d] EXCEPT !.status = "busy"]]
        /\ rows \in [Ids -> RowTypes]
    BY AttemptDoes DEF TypeInv, Types
  <1>2. PICK v \in Videos :
           /\ <<v, "thumbnail.jpg", "metadata.json">> \in Plans
           /\ StorePackage("attempt", d, <<v, "thumbnail.jpg", "metadata.json">>, "whole")
    BY AttemptDoes
  <1> DEFINE todo == <<v, "thumbnail.jpg", "metadata.json">>
  <1>3. /\ op'.kind = "attempt" /\ op'.id = d /\ op'.todo = todo
        /\ op'.key = "none" /\ op'.thumb = "none" /\ op'.video = "whole"
    BY <1>2, StorePackageDoes
  <1>4. rows'[d].status = "busy"
    <2>1. rows'[d] = [rows[d] EXCEPT !.status = "busy"] /\ rows[d] \in RowTypes
      BY <1>1
    <2> QED
      BY <2>1 DEF RowTypes
  <1>5. FromWhole'
    BY <1>3, <1>4 DEF FromWhole
  <1>6. "none" \notin Within(todo) /\ todo # <<>>
    BY DEF Within, Videos
  <1>7. NotAgain' /\ Written' /\ InPlace'
    BY <1>3, <1>6 DEF NotAgain, Written, InPlace, Within
  <1> QED
    BY <1>5, <1>7 DEF Storing

LEMMA MigrateBegins ==
  ASSUME TypeInv, FolderInv, NEW d \in Ids, Migrate(d)
  PROVE  Storing'
  <1>1. /\ op = NoOp /\ d \in pass /\ UNCHANGED <<rows, disk, loose, damaged, removed>>
        /\ Source(d) \in {"partial", "whole"}
    BY MigrateDoes
  <1>2. PICK todo \in Plans :
           todo # <<>> /\ StorePackage("migrate", d, todo, Source(d))
    BY MigrateDoes
  <1>3. /\ op'.kind = "migrate" /\ op'.id = d /\ op'.on = Here /\ op'.todo = todo
        /\ op'.key = "none" /\ op'.thumb = "none" /\ op'.video = Source(d)
    BY <1>1, <1>2, StorePackageDoes
  <1>4. "none" \notin Within(todo)
    BY <1>2 DEF Plans, Within, Videos
  <1>5. FromWhole' /\ NotAgain' /\ Written'
    BY <1>2, <1>3, <1>4 DEF FromWhole, NotAgain, Written, Within
  <1>6. ASSUME rows[d].status = "complete", rows[d].at = Here,
               <<Here, d>> \notin removed, d \notin damaged
        PROVE  /\ Source(d) = "whole" /\ rows[d].thumb = "none"
               /\ At(Here, d, Place(rows[d])) = "whole"
    <2>1. Files(d)
      BY <1>1, <1>6, IntactIdle DEF FolderInv
    <2>2. IsLegacy(rows[d]) /\ Shaped(rows[d])
      BY <1>1 DEF FolderInv, Visited, TypeInv, Types
    <2>3. SiteOf(Here) = Here
      BY HereFacts
    <2>4. \A m : At(m, d, "none") = "absent"
      BY DEF At
    <2>5. Place(rows[d]) # "none"
      BY <1>1, <2>4 DEF Source, Place
    <2>6. At(Here, d, Place(rows[d])) = "whole"
      BY <1>6, <2>1, <2>5 DEF Files
    <2>7. Source(d) = "whole"
      BY <1>6, <2>3, <2>4, <2>6 DEF Source, Place
    <2>8. rows[d].thumb = "none"
      <3>1. CASE ~rows[d].json
        BY <2>2, <3>1 DEF Shaped
      <3>2. CASE rows[d].json
        <4>1. rows[d].key # "none"
          BY <2>2, <2>5, <3>2 DEF Shaped, PathOf, Place
        <4>2. rows[d].key \in Names
          BY <2>2, <3>2, <4>1 DEF Shaped, Videos, Names
        <4> QED
          BY <2>2, <3>2, <4>2 DEF IsLegacy
      <3> QED
        BY <3>1, <3>2
    <2> QED
      BY <2>6, <2>7, <2>8
  <1>8. InPlace'
    <2> SUFFICES ASSUME rows[d].status = "complete", rows[d].at = Here,
                        <<Here, d>> \notin removed, d \notin damaged
                 PROVE  /\ op'.video = "whole" /\ rows[d].thumb = "none"
                        /\ At(op'.on, op'.id, Place(rows[d])) = "whole"
      BY <1>1, <1>3 DEF InPlace, At
    <2> QED
      BY <1>3, <1>6
  <1> QED
    BY <1>5, <1>8 DEF Storing

\* A store goes on: a file begins or ends.
LEMMA StoringGoesOn ==
  ASSUME TypeInv, FolderInv, BeginCopy \/ EndFile
  PROVE  Storing'
  <1> DEFINE n == Head(op.todo)
  <1>0. /\ op \in Stores /\ op.todo # <<>> /\ op' \in Stores
        /\ op'.id = op.id /\ op'.on = op.on /\ op'.kind = op.kind /\ op'.video = op.video
        /\ n \in Names /\ op.on \in Sites /\ op.id \in Ids
        /\ \A k \in Names : k # n => disk'[op.on][op.id][k] = disk[op.on][op.id][k]
        /\ EndFile /\ op.video = "whole" => disk'[op.on][op.id][n] = "whole"
        /\ UNCHANGED <<rows, loose, damaged, removed>>
    BY StoreWrites
  <1>1. FromWhole /\ NotAgain /\ Written /\ InPlace
    BY <1>0 DEF FolderInv, Storing
  <1>2. /\ op.todo \in Plans /\ op.key \in KnownVideos \cup {"none"} /\ op.thumb \in Thumbs
        /\ op.kind \in {"attempt", "migrate"} /\ op.video \in {"partial", "whole"}
    BY <1>0 DEF Stores
  <1>3. /\ Within(op.todo) = {n} \cup Within(Tail(op.todo)) /\ n \notin Within(Tail(op.todo))
        /\ n = "metadata.json" \/ Tail(op.todo) # <<>>
    BY <1>0, <1>2, PlanFacts
  <1>5. \/ BeginCopy /\ op'.todo = op.todo /\ op'.key = op.key /\ op'.thumb = op.thumb
           /\ op'.copying
        \/ EndFile /\ op'.todo = Tail(op.todo) /\ op'.key = KeyAfter(op, n)
           /\ op'.thumb = ThumbAfter(op, n)
    BY BeginCopyDoes, EndFileDoes
  <1>6. /\ op.key # n /\ op.thumb # n
    BY <1>1, <1>3 DEF NotAgain
  <1>7. KeyAfter(op, n) \in {n, op.key} /\ ThumbAfter(op, n) \in {n, op.thumb}
    BY DEF KeyAfter, ThumbAfter
  <1>8. FromWhole'
    <2> SUFFICES ASSUME op.kind = "attempt"
                 PROVE  \/ op'.key # "none" \/ op'.thumb = "video.m4a"
                        \/ /\ op'.thumb = "none"
                           /\ \E v \in Videos :
                                 op'.todo = <<v, "thumbnail.jpg", "metadata.json">>
      BY <1>0, <1>1 DEF FromWhole
    <2>1. CASE BeginCopy /\ op'.todo = op.todo /\ op'.key = op.key /\ op'.thumb = op.thumb
      BY <1>1, <2>1 DEF FromWhole
    <2>2. CASE EndFile /\ op'.key = KeyAfter(op, n) /\ op'.thumb = ThumbAfter(op, n)
      <3>1. CASE op.key # "none"
        BY <1>0, <2>2, <3>1 DEF KeyAfter, Names
      <3>2. CASE op.thumb = "video.m4a"
        BY <2>2, <3>2 DEF ThumbAfter
      <3>3. CASE op.key = "none" /\ op.thumb = "none"
        <4>1. PICK v \in Videos : op.todo = <<v, "thumbnail.jpg", "metadata.json">>
          BY <1>1, <3>3 DEF FromWhole
        <4>2. n = v
          BY <4>1
        <4> QED
          BY <2>2, <3>3, <4>2 DEF KeyAfter, ThumbAfter, Videos, KnownVideos
      <3> QED
        BY <1>1, <3>1, <3>2, <3>3 DEF FromWhole
    <2> QED
      BY <1>5, <2>1, <2>2
  <1>9. NotAgain'
    <2> SUFFICES op'.key \notin Within(op'.todo) /\ op'.thumb \notin Within(op'.todo)
      BY DEF NotAgain, Within
    <2>1. CASE op'.todo = op.todo /\ op'.key = op.key /\ op'.thumb = op.thumb
      BY <1>1, <2>1 DEF NotAgain
    <2>2. CASE op'.todo = Tail(op.todo) /\ op'.key \in {n, op.key} /\ op'.thumb \in {n, op.thumb}
      BY <1>1, <1>3, <2>2 DEF NotAgain
    <2> QED
      BY <1>5, <1>7, <2>1, <2>2
  <1>10. Written'
    <2> SUFFICES ASSUME op.video = "whole"
                 PROVE  /\ op'.key # "none" => disk'[op.on][op.id][op'.key] = "whole"
                        /\ op'.thumb # "none" => disk'[op.on][op.id][op'.thumb] = "whole"
                        /\ op'.todo = <<>> => disk'[op.on][op.id]["metadata.json"] = "whole"
      BY <1>0 DEF Written
    <2>1. /\ op.key # "none" => disk'[op.on][op.id][op.key] = "whole"
          /\ op.thumb # "none" => disk'[op.on][op.id][op.thumb] = "whole"
      <3>1. /\ op.key # "none" => op.key \in Names
            /\ op.thumb # "none" => op.thumb \in Names
        BY <1>2 DEF KnownVideos, Thumbs, Names
      <3> QED
        BY <1>0, <1>1, <1>6, <3>1 DEF Written
    <2>2. CASE op'.todo = op.todo /\ op'.key = op.key /\ op'.thumb = op.thumb
      BY <1>0, <2>1, <2>2
    <2>3. CASE EndFile /\ op'.todo = Tail(op.todo) /\ op'.key \in {n, op.key}
               /\ op'.thumb \in {n, op.thumb}
      BY <1>0, <1>3, <2>1, <2>3
    <2> QED
      BY <1>5, <1>7, <2>2, <2>3
  <1>11. InPlace'
    <2> SUFFICES ASSUME op.kind = "migrate", rows[op.id].status = "complete",
                        rows[op.id].at = op.on, <<op.on, op.id>> \notin removed,
                        op.id \notin damaged
                 PROVE  /\ op.video = "whole" /\ rows[op.id].thumb = "none"
                        /\ \/ op'.copying /\ Head(op'.todo) = Place(rows[op.id])
                           \/ At(op.on, op.id, Place(rows[op.id]))' = "whole"
      BY <1>0 DEF InPlace, At, Place
    <2> DEFINE p == Place(rows[op.id])
    <2>1. /\ op.video = "whole" /\ rows[op.id].thumb = "none"
          /\ (op.copying /\ n = p) \/ At(op.on, op.id, p) = "whole"
      BY <1>1 DEF InPlace
    <2>2. p \in Places
      BY <1>0 DEF TypeInv, Types, RowTypes, Place
    <2>3. Place(rows[op.id])' = p
      BY <1>0 DEF Place
    <2>4. ASSUME p # n, At(op.on, op.id, p) = "whole"
          PROVE  At(op.on, op.id, Place(rows[op.id]))' = "whole"
      <3>1. p \in Names \/ p \in {"loose", "none"}
        BY <2>2 DEF Places
      <3> QED
        BY <1>0, <2>3, <2>4, <3>1 DEF At
    <2>5. ASSUME p = n, EndFile
          PROVE  At(op.on, op.id, Place(rows[op.id]))' = "whole"
      <3>1. n # "none" /\ n # "loose"
        BY <1>0 DEF Names
      <3> QED
        BY <1>0, <2>1, <2>3, <2>5, <3>1 DEF At
    <2>6. CASE p = n
      BY <1>5, <2>1, <2>5, <2>6
    <2>7. CASE p # n
      BY <2>1, <2>4, <2>7
    <2> QED
      BY <2>1, <2>6, <2>7
  <1> QED
    BY <1>8, <1>9, <1>10, <1>11 DEF Storing

LEMMA StoringStep ==
  ASSUME TypeInv, FolderInv, [Next]_vars, op' \in Stores
  PROVE  Storing'
  <1>1. ASSUME NEW d \in Ids, NEW video \in Media, Attempt(d, video) PROVE Storing'
    BY <1>1, AttemptBegins
  <1>2. ASSUME NEW d \in Ids, Migrate(d) PROVE Storing'
    BY <1>2, MigrateBegins
  <1>3. CASE BeginCopy \/ EndFile
    BY <1>3, StoringGoesOn
  <1>4. CASE StoreFails \/ Persist \/ Migrated \/ Restart
    <2>1. op' = NoOp
      BY <1>4, DoneDoes, UndoneDoes
    <2> QED
      BY <2>1, NoOpHere
  <1>5. CASE \/ \E d \in Ids : DeleteDownload(d) \/ MigrateSkips(d)
             \/ PutStorage \/ LoseDatabase \/ RecoverFromStorage
    <2>1. op = NoOp /\ op' = op
      BY <1>5 DEF DeleteDownload, MigrateSkips, PutStorage, LoseDatabase,
                  RecoverFromStorage, Request, Idle
    <2> QED
      BY <2>1, NoOpHere
  <1>6. CASE UNCHANGED vars
    <2>1. op \in Stores /\ UNCHANGED <<rows, disk, loose, op, damaged, removed>>
      BY <1>6 DEF vars
    <2>2. Storing
      BY <2>1 DEF FolderInv
    <2> QED
      BY <2>1, <2>2 DEF Storing, FromWhole, NotAgain, Written, InPlace, At, Place, Within
  <1> QED
    BY <1>1, <1>2, <1>3, <1>4, <1>5, <1>6 DEF Next

LEMMA FolderInitially == Init => FolderInv
  <1> SUFFICES ASSUME Init PROVE FolderInv
    OBVIOUS
  <1>0. PICK old \in SUBSET Legacy :
           \E on \in [old -> Sites], name \in [old -> Media] :
              /\ rows = [d \in Ids |-> IF d \in old THEN LegacyRow(on[d]) ELSE NoRow]
              /\ loose = [m \in Sites |-> [d \in Ids |->
                             IF d \in old /\ on[d] = m THEN name[d] ELSE "none"]]
              /\ hasJob \in SUBSET old
              /\ issued = old
              /\ pass = old
    BY DEF Init
  <1>1. PICK on \in [old -> Sites], name \in [old -> Media] :
           /\ rows = [d \in Ids |-> IF d \in old THEN LegacyRow(on[d]) ELSE NoRow]
           /\ loose = [m \in Sites |-> [d \in Ids |->
                          IF d \in old /\ on[d] = m THEN name[d] ELSE "none"]]
           /\ pass = old
    BY <1>0
  <1>2. ASSUME NEW m \in Sites
        PROVE  /\ LegacyRow(m).at = m /\ LegacyRow(m).thumb = "none" /\ ~LegacyRow(m).json
               /\ LegacyRow(m).status = "complete" /\ Place(LegacyRow(m)) = "loose"
    <2>1. CASE m \in Roots
      BY <2>1 DEF LegacyRow, Row, Place
    <2>2. CASE m \notin Roots
      BY <2>2 DEF LegacyRow, Row, Place
    <2> QED
      BY <2>1, <2>2
  <1>3. ASSUME NEW d \in old
        PROVE  IsLegacy(rows[d]) /\ Files(d) /\ Unnamed(d)
    <2>1. d \in Ids /\ on[d] \in Sites /\ name[d] \in Videos
      BY LegacyAssumption, MediaAssumption DEF Videos
    <2>2. /\ rows[d] = LegacyRow(on[d]) /\ loose[on[d]][d] = name[d]
      BY <1>1, <2>1
    <2>3. loose[on[d]][d] # "none"
      BY <2>1, <2>2 DEF Videos
    <2> QED
      BY <1>2, <2>1, <2>2, <2>3 DEF IsLegacy, Files, Unnamed, At
  <1>4. ASSUME NEW d \in Ids, d \notin old
        PROVE  rows[d].status = "absent"
    BY <1>1, <1>4 DEF NoRow, Row
  <1>5. op \notin Stores
    BY NoOpHere DEF Init
  <1>6. ASSUME NEW d \in Ids PROVE (Intact(d) => Files(d)) /\ Unnamed(d)
    <2>1. CASE d \in old
      BY <1>3, <2>1
    <2>2. CASE d \notin old
      BY <1>4, <2>2 DEF Intact, Unnamed
    <2> QED
      BY <2>1, <2>2
  <1>7. Visited
    BY <1>1, <1>3, <1>5 DEF Visited
  <1> QED
    BY <1>5, <1>6, <1>7 DEF FolderInv

LEMMA FolderStep ==
  ASSUME TypeInv, FolderInv, [Next]_vars
  PROVE  FolderInv'
  <1>1. TypeInv'
    BY TypeStep
  <1>2. ASSUME NEW d \in Ids PROVE (Intact(d)' => Files(d)') /\ Unnamed(d)'
    BY <1>1, WholeStep, UnnamedStep
  <1>3. Visited' /\ (op' \in Stores => Storing') /\ Stores' = Stores
    BY VisitedStep, StoringStep DEF Stores
  <1> QED
    BY <1>2, <1>3 DEF FolderInv

LEMMA FolderInvariant == Spec => [](TypeInv /\ FolderInv)
  <1>1. Init => TypeInv /\ FolderInv
    BY TypeInitially, FolderInitially
  <1>2. TypeInv /\ FolderInv /\ [Next]_vars => (TypeInv /\ FolderInv)'
    BY TypeStep, FolderStep
  <1> QED
    BY <1>1, <1>2, PTL DEF Spec

\* What an intact complete row points to is whole, for any number of sites,
\* changes of the configuration, failures and restarts.
THEOREM CompletePackageIsWhole == Spec => []CompleteIsWhole
  <1>1. FolderInv => CompleteIsWhole
    BY DEF FolderInv, Files, CompleteIsWhole
  <1> QED
    BY <1>1, FolderInvariant, PTL
-----------------------------------------------------------------------------
\* A listing with an .m4a in it, and of videos alone, begins with it.
LEMMA FirstVideo ==
  ASSUME NEW S \in SUBSET Videos, "video.m4a" \in S
  PROVE  FirstOf(S) = "video.m4a"
  <1> DEFINE found == {i \in 1..4 : Listing[i] \in S}
             i == CHOOSE i \in found : \A j \in found : i <= j
  <1>0. /\ Listing[1] = "metadata.json" /\ Listing[2] = "thumbnail.jpg"
        /\ Listing[3] = "video.m4a" /\ Listing[4] = "video.mp4"
    BY DEF Listing
  <1>1. 1 \notin found /\ 2 \notin found /\ 3 \in found
    BY <1>0 DEF Videos
  <1>2. \A j \in found : 3 <= j
    BY <1>1
  <1>3. \E k \in found : \A j \in found : k <= j
    BY <1>1, <1>2
  <1>4. i \in found /\ \A j \in found : i <= j
    BY <1>3
  <1>5. i = 3
    BY <1>1, <1>2, <1>4
  <1>6. FirstOf(S) = Listing[i]
    BY <1>1 DEF FirstOf
  <1> QED
    BY <1>0, <1>5, <1>6

\* What names a file of the package is in the folder when the file is.
LEMMA HeldFacts ==
  ASSUME NEW site, NEW d, NEW n \in Names
  PROVE  /\ At(site, d, n) = disk[site][d][n]
         /\ n \in Held(site, d) <=> At(site, d, n) # "absent"
  BY DEF At, Held, Names

\* The keys that StorePackage assigns and those that the recovery reads off the
\* folder agree: it would rebuild a complete row as it stands.
THEOREM RecoveryAgrees == Spec => []RecoveryRebuilds
  <1>1. ASSUME TypeInv, FolderInv, NEW d \in Ids, Intact(d), rows[d].at = Here,
               rows[d].thumb # "none",
               Held(Here, d) \cap Videos = {rows[d].key} \cap KnownVideos
        PROVE  disk[Here][d]["metadata.json"] = "whole" /\ Rebuilt(d) = rows[d]
    <2>1. /\ rows[d] \in RowTypes /\ Shaped(rows[d]) /\ rows[d].status = "complete"
          /\ Files(d) /\ Unnamed(d)
      BY <1>1 DEF TypeInv, Types, FolderInv, Intact
    <2>2. /\ rows[d].json /\ rows[d].path = PathOf(Here, rows[d].key)
          /\ rows[d].thumb \in Thumbs
      BY <1>1, <2>1 DEF Shaped
    <2>3. /\ At(Here, d, rows[d].thumb) = "whole"
          /\ disk[Here][d]["metadata.json"] = "whole"
      BY <1>1, <2>1 DEF Files, At
    <2>4. rows[d].thumb \in Names /\ rows[d].thumb \in Held(Here, d)
      <3>1. rows[d].thumb \in Names
        BY <1>1, <2>2 DEF Thumbs, Names
      <3> QED
        BY <2>3, <3>1, HeldFacts
    <2>5. rows[d].key = "video.mp4" /\ Held(Here, d) \cap Videos = {"video.mp4"}
      <3>1. CASE rows[d].key = "none"
        <4>1. rows[d].thumb = "video.m4a"
          BY <2>1, <2>2, <3>1 DEF Unnamed
        <4>2. "video.m4a" \in Held(Here, d) \cap Videos
          BY <2>4, <4>1 DEF Videos
        <4> QED
          BY <1>1, <3>1, <4>2 DEF KnownVideos
      <3>2. CASE rows[d].key # "none"
        <4>1. Place(rows[d]) = rows[d].key /\ rows[d].key \in Videos
          BY <2>1, <2>2, <3>2 DEF Shaped, PathOf, Place
        <4>2. rows[d].key \in Names /\ At(Here, d, rows[d].key) = "whole"
          BY <1>1, <2>1, <3>2, <4>1 DEF Files, Videos, Names
        <4>3. rows[d].key \in Held(Here, d) \cap Videos
          BY <4>1, <4>2, HeldFacts
        <4> QED
          BY <1>1, <4>3 DEF KnownVideos
      <3> QED
        BY <3>1, <3>2
    <2>6. rows[d].thumb = "thumbnail.jpg"
      BY <1>1, <2>2, <2>4, <2>5 DEF Thumbs, Videos
    <2>7. FirstOf(Held(Here, d) \cap Videos) = "video.mp4"
      <3>1. Held(Here, d) \cap Videos \in SUBSET Names
        BY DEF Held
      <3> QED
        BY <2>5, <3>1, FirstOfListing
    <2>8. FirstOf(Held(Here, d) \cap Thumbnails) = "thumbnail.jpg"
      <3>1. Held(Here, d) \cap Thumbnails \in SUBSET Names
        BY DEF Held
      <3>2. Held(Here, d) \cap Thumbnails = {"thumbnail.jpg"}
        BY <2>4, <2>6 DEF Thumbnails
      <3> QED
        BY <3>1, <3>2, FirstOfListing
    <2>9. /\ Rebuilt(d) \in RowTypes /\ Rebuilt(d).at = Here /\ Rebuilt(d).json
          /\ Rebuilt(d).key = "video.mp4" /\ Rebuilt(d).thumb = "thumbnail.jpg"
          /\ Rebuilt(d).path = PathOf(Here, "video.mp4")
          /\ Rebuilt(d).status = "complete"
      BY <1>1, <2>7, <2>8, RebuiltMade
    <2>10. /\ rows[d].at = Rebuilt(d).at /\ rows[d].json = Rebuilt(d).json
           /\ rows[d].status = "complete"
      <3>1. rows[d].json \in BOOLEAN /\ Rebuilt(d).json \in BOOLEAN
        BY <2>1, <2>9 DEF RowTypes
      <3> QED
        BY <1>1, <2>1, <2>2, <2>9, <3>1
    <2>11. Rebuilt(d) = rows[d]
      BY <2>1, <2>2, <2>5, <2>6, <2>9, <2>10 DEF RowTypes
    <2> QED
      BY <2>3, <2>11
  <1>2. TypeInv /\ FolderInv => RecoveryRebuilds
    BY <1>1 DEF RecoveryRebuilds
  <1> QED
    BY <1>2, FolderInvariant, PTL

\* Whatever becomes of mode, root, bucket and prefix, the watch page serves the
\* rows that it can still reach.
THEOREM WatchPageServes == Spec => []WatchServes
  <1>1. ASSUME TypeInv, FolderInv, NEW d \in Ids, Intact(d)
        PROVE  /\ \/ config.mode = "local" /\ rows[d].path # "none"
                  \/ Reached(d) /\ rows[d].key # "none"
                  \/ rows[d].at = Here
                  => WatchVideo(d) = "whole"
               /\ Reached(d) /\ rows[d].thumb # "none" => WatchThumbnail(d) = rows[d].thumb
    <2>1. /\ Shaped(rows[d]) /\ rows[d].status = "complete" /\ Files(d) /\ Unnamed(d)
      BY <1>1 DEF TypeInv, Types, FolderInv, Intact
    <2>2. /\ config.mode = "local" <=> Here \in Roots
          /\ SiteOf(Here) = Here
      BY <1>1, HereFacts
    <2>3. rows[d].at \notin Roots => rows[d].path = "none"
      BY <2>1 DEF Shaped, PathOf
    <2>4. CASE config.mode = "local" /\ rows[d].path # "none"
      <3>1. At(rows[d].at, d, rows[d].path) = "whole"
        BY <2>1, <2>4 DEF Files, Place
      <3> QED
        BY <2>4, <3>1, <2>1 DEF WatchVideo, WatchThumbnail, Known, Reached, Files
    <2>5. ASSUME ~(config.mode = "local" /\ rows[d].path # "none"),
                 Reached(d), rows[d].key # "none"
          PROVE  WatchVideo(d) = "whole"
      <3>1. rows[d].path = "none"
        BY <2>3, <2>5 DEF Reached, SameKind
      <3>2. At(rows[d].at, d, rows[d].key) = "whole"
        BY <2>1, <2>5, <3>1 DEF Files, Place
      <3>3. Known(d, rows[d].key) = rows[d].key
        BY <2>5, <3>2 DEF Known, Reached
      <3> QED
        BY <2>5, <3>2, <3>3 DEF WatchVideo, Reached
    <2>6. rows[d].at = Here => Reached(d)
      BY <2>2 DEF Reached, SameKind
    <2>7. ASSUME ~(config.mode = "local" /\ rows[d].path # "none"),
                 rows[d].at = Here, rows[d].key = "none"
          PROVE  WatchVideo(d) = "whole"
      <3>1. rows[d].path = "none" /\ rows[d].json
        BY <2>1, <2>2, <2>3, <2>7 DEF Shaped
      <3>2. rows[d].thumb = "video.m4a"
        BY <2>1, <2>7, <3>1 DEF Unnamed
      <3>3. At(Here, d, "video.m4a") = "whole"
        BY <2>1, <2>7, <3>2 DEF Files
      <3>4. "video.m4a" \in Held(Here, d) \cap Videos
        <4>1. "video.m4a" \in Names /\ "video.m4a" \in Videos
          BY DEF Names, Videos
        <4> QED
          BY <3>3, <4>1, HeldFacts
      <3>5. Held(Here, d) \cap Videos \in SUBSET Videos
        OBVIOUS
      <3>6. FirstOf(Held(Here, d) \cap Videos) = "video.m4a"
        BY <3>4, <3>5, FirstVideo
      <3> QED
        BY <2>7, <3>1, <3>3, <3>6 DEF WatchVideo
    <2>8. ASSUME Reached(d), rows[d].thumb # "none"
          PROVE  WatchThumbnail(d) = rows[d].thumb
      <3>1. At(SiteOf(rows[d].at), d, rows[d].thumb) = "whole"
        BY <2>1, <2>8 DEF Files, Reached
      <3>2. Known(d, rows[d].thumb) = rows[d].thumb
        BY <2>8, <3>1 DEF Known, Reached
      <3> QED
        BY <2>8, <3>2 DEF WatchThumbnail
    <2> QED
      BY <2>4, <2>5, <2>6, <2>7, <2>8
  <1>2. TypeInv /\ FolderInv => WatchServes
    BY <1>1 DEF WatchServes
  <1> QED
    BY <1>2, FolderInvariant, PTL
=============================================================================

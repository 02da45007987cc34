--------------------------- MODULE Configuration ---------------------------
(***************************************************************************)
(* Requests that change the settings (handlers/settings.go) or the storage *)
(* configuration (handlers/storagecfg.go) and those that scan URLs         *)
(* (handlers/scan.go): the two gates in front of them (middleware), the    *)
(* decoding of the body, the statements on the one connection of the       *)
(* database, and the worker that reads both tables.                        *)
(*                                                                         *)
(* A value is named by the request it came with.  Of the storage row only  *)
(* the secret is read before it is written; the other columns are written  *)
(* in the same UPDATE.                                                     *)
(***************************************************************************)
EXTENDS Naturals, FiniteSets

CONSTANTS
    Requests,    \* PUT or POST requests, one handler each
    Keys,        \* rows of the settings table
    Urls         \* lines of a scan request

ASSUME RequestsAssumption ==
    {"initial", "nobody", "free"} \cap Requests = {}
ASSUME KeysAssumption == Keys # {}

VARIABLES
    settings,    \* per key, the request whose value is stored
    secret,      \* s3_secret_key: whose, and how often encrypted
    conn,        \* who holds the connection over several statements, or "free"
    pc,          \* where the handler of each request is
    kind,        \* what the request is
    draft,       \* settings as the open transaction has them
    left,        \* keys it has yet to write
    scans,       \* per request, the URLs that yt-dlp is at work on
    existing,    \* per request, the secret read before the row is written
    job,         \* where the worker is
    used,        \* the settings its job read at its start
    opened,      \* the secret its job opens the backend with
    saved,       \* history: requests whose values were committed
    newest,      \* history: the request whose secret was entered last
    raced        \* history: requests that keep a secret they could not read,
                 \* or one that was replaced since they read it

tableVars   == <<settings, secret, saved, newest>>
handlerVars == <<conn, pc, kind, draft, left, scans, existing, raced>>
workerVars  == <<job, used, opened>>
configVars  == <<settings, secret, conn, pc, kind, draft, left, scans,
                 existing, job, used, opened, saved, newest, raced>>

Writers == Requests \cup {"initial"}
Secrets == [of : Writers \cup {"nobody"}, sealed : 0..2]
NoSecret == [of |-> "nobody", sealed |-> 0]

\* crypto.Box: what is empty stays empty, and Decrypt undoes one Encrypt.
Encrypt(s) == IF s = NoSecret THEN s ELSE [s EXCEPT !.sealed = @ + 1]
Decrypt(s) == IF s = NoSecret THEN s ELSE [s EXCEPT !.sealed = @ - 1]

(***************************************************************************)
(* The body is JSON, JSON that does not parse, or a form; the token is in  *)
(* the header, in a field of the form, or is not the cookie's.             *)
(***************************************************************************)
Kinds ==
    {k \in [route  : {"settings", "storage", "scan"},
            body   : {"json", "broken", "form"},
            token  : {"header", "field", "wrong"},
            enters : BOOLEAN] :
        /\ k.token = "field" => k.body = "form"
        /\ k.enters => k.route = "storage" /\ k.body # "broken"}
NoKind == [route |-> "none", body |-> "none", token |-> "none",
           enters |-> FALSE]

\* "results" is the 200 of a scan.
Answers == {"200", "400", "403", "429", "500", "results"}
Ended   == Answers \cup {"cut"}

ConfigTypeOK ==
    /\ settings \in [Keys -> Writers] /\ draft \in [Keys -> Writers]
    /\ secret \in Secrets /\ secret.sealed \in 0..1
    /\ conn \in Requests \cup {"free"}
    /\ pc \in [Requests -> {"new", "admitted", "begin", "writing", "read",
                            "update", "lookup", "scanning"} \cup Ended]
    /\ scans \in [Requests -> SUBSET Urls]
    /\ kind \in [Requests -> Kinds \cup {NoKind}]
    /\ left \subseteq Keys
    /\ existing \in [Requests -> Secrets]
    /\ job \in {"resting", "fetching", "storing"}
    /\ used \in [Keys -> Writers \cup {"nobody"}] /\ opened \in Secrets
    /\ saved \subseteq Requests /\ raced \subseteq Requests
    /\ newest \in Writers \cup {"nobody"}

\* A database that was used before, with or without a secret.
ConfigInit ==
    /\ settings = [k \in Keys |-> "initial"] /\ draft = settings
    /\ secret \in {NoSecret, [of |-> "initial", sealed |-> 1]}
    /\ newest = secret.of
    /\ conn = "free"
    /\ pc = [r \in Requests |-> "new"] /\ kind = [r \in Requests |-> NoKind]
    /\ left = {} /\ scans = [r \in Requests |-> {}]
    /\ existing = [r \in Requests |-> NoSecret]
    /\ job = "resting"
    /\ used = [k \in Keys |-> "nobody"] /\ opened = NoSecret
    /\ saved = {} /\ raced = {}

Goto(r, from, to) == pc[r] = from /\ pc' = [pc EXCEPT ![r] = to]
Free == conn = "free"

\* A handler that ends without a save leaves nothing behind.
Gone(R) ==
    /\ kind' = [r \in Requests |-> IF r \in R THEN NoKind ELSE kind[r]]
    /\ existing' = [r \in Requests |-> IF r \in R THEN NoSecret
                                                  ELSE existing[r]]
-----------------------------------------------------------------------------
(***************************************************************************)
(* The gates: CSRF first, then the limiter of the client, whose bucket may *)
(* be empty.  The header is looked at first; FormValue parses a form body, *)
(* and only a form body.                                                   *)
(***************************************************************************)
TokenMatches(k) == k.token # "wrong"

Arrive(r, k) ==
    /\ TokenMatches(k)
    /\ Goto(r, "new", "admitted")
    /\ kind' = [kind EXCEPT ![r] = k]
    /\ UNCHANGED <<tableVars, workerVars, scans, conn, draft, left, existing,
                   raced>>

Forbidden(r, k) ==
    /\ ~TokenMatches(k)
    /\ Goto(r, "new", "403")
    /\ UNCHANGED <<tableVars, workerVars, scans, conn, kind, draft, left,
                   existing, raced>>

Limited(r) ==
    /\ Goto(r, "admitted", "429")
    /\ Gone({r})
    /\ UNCHANGED <<tableVars, workerVars, scans, conn, draft, left, raced>>

(***************************************************************************)
(* Decoding.  decodeJSON closes the body, whatever it read: a form that    *)
(* CSRF has not parsed cannot be parsed any more.  JSON that does not      *)
(* parse passes for a form without fields.                                 *)
(***************************************************************************)
SettingsDecoded(k) == k.body # "form" \/ k.token = "field"
OthersDecoded(k)   == k.body # "broken"

Decoded(k) == IF k.route = "settings" THEN SettingsDecoded(k)
                                       ELSE OthersDecoded(k)
FirstStep  == [settings |-> "begin", storage |-> "read", scan |-> "lookup"]

Decode(r) ==
    /\ Decoded(kind[r])
    /\ Goto(r, "admitted", FirstStep[kind[r].route])
    /\ UNCHANGED <<tableVars, workerVars, scans, conn, kind, draft, left,
                   existing, raced>>

NotDecoded(r) ==
    /\ ~Decoded(kind[r])
    /\ Goto(r, "admitted", "400")
    /\ Gone({r})
    /\ UNCHANGED <<tableVars, workerVars, scans, conn, draft, left, raced>>
-----------------------------------------------------------------------------
(***************************************************************************)
(* SaveSettings: one transaction, the keys in the order of a Go map.       *)
(***************************************************************************)
Begin(r) ==
    /\ Free
    /\ Goto(r, "begin", "writing")
    /\ conn' = r
    /\ draft' = settings
    /\ left' = Keys
    /\ UNCHANGED <<tableVars, workerVars, scans, kind, existing, raced>>

\* Mutant: each key is written by a statement of its own.
WriteKeyAlone(r, k) ==
    /\ pc[r] = "writing"
    /\ k \in left
    /\ left' = left \ {k}
    /\ draft' = [draft EXCEPT ![k] = r]
    /\ settings' = draft'
    /\ UNCHANGED <<secret, saved, newest, workerVars, scans, conn, pc, kind,
                   existing, raced>>

WriteKey(r, k) ==
    /\ pc[r] = "writing"
    /\ k \in left
    /\ left' = left \ {k}
    /\ draft' = [draft EXCEPT ![k] = r]
    /\ UNCHANGED <<tableVars, workerVars, scans, conn, pc, kind, existing,
                   raced>>

CommitSettings(r) ==
    /\ Goto(r, "writing", "200")
    /\ left = {}
    /\ settings' = draft
    /\ saved' = saved \cup {r}
    /\ conn' = "free"
    /\ UNCHANGED <<secret, newest, workerVars, scans, kind, draft, left,
                   existing, raced>>

\* An INSERT or the commit fails.
RollBack(r) ==
    /\ Goto(r, "writing", "500")
    /\ conn' = "free"
    /\ draft' = settings /\ left' = {}
    /\ Gone({r})
    /\ UNCHANGED <<tableVars, workerVars, scans, raced>>

BeginFails(r) ==
    /\ Goto(r, "begin", "500")
    /\ Gone({r})
    /\ UNCHANGED <<tableVars, workerVars, scans, conn, draft, left, raced>>
-----------------------------------------------------------------------------
(***************************************************************************)
(* PutStorage: the SELECT, then the UPDATE of the whole row.               *)
(***************************************************************************)
ReadExisting(r) ==
    /\ Free
    /\ Goto(r, "read", "update")
    /\ existing' = [existing EXCEPT ![r] = secret]
    /\ UNCHANGED <<tableVars, workerVars, scans, conn, kind, draft, left,
                   raced>>

\* Its error is ignored.
ReadExistingFails(r) ==
    /\ Goto(r, "read", "update")
    /\ raced' = IF kind[r].enters THEN raced ELSE raced \cup {r}
    /\ UNCHANGED <<tableVars, workerVars, scans, conn, kind, draft, left,
                   existing>>

\* Mutant: a blank field stands for a blank secret.
BlankSecret(r) ==
    IF kind[r].enters THEN Encrypt([of |-> r, sealed |-> 0]) ELSE NoSecret

\* Mutant: what was stored is encrypted once more.
ResealedSecret(r) ==
    Encrypt(IF kind[r].enters THEN [of |-> r, sealed |-> 0] ELSE existing[r])

\* A blank field stands for the secret that is stored.
SecretToStore(r) ==
    IF kind[r].enters THEN Encrypt([of |-> r, sealed |-> 0]) ELSE existing[r]

SaveStorageConfig(r) ==
    /\ Free
    /\ Goto(r, "update", "200")
    /\ secret' = SecretToStore(r)
    /\ saved' = saved \cup {r}
    /\ newest' = IF kind[r].enters THEN r ELSE newest
    /\ raced' = IF kind[r].enters
                THEN {q \in Requests : pc[q] = "update" /\ ~kind[q].enters}
                ELSE raced
    /\ existing' = [existing EXCEPT ![r] = NoSecret]
    /\ UNCHANGED <<settings, workerVars, scans, conn, kind, draft, left>>

\* Encrypt or the UPDATE fails.
SaveStorageFails(r) ==
    /\ Goto(r, "update", "500")
    /\ Gone({r})
    /\ UNCHANGED <<tableVars, workerVars, scans, conn, draft, left, raced>>
-----------------------------------------------------------------------------
(***************************************************************************)
(* Scan: without URLs it is refused.  The settings are read (an error is   *)
(* ignored), then each URL has a goroutine that runs yt-dlp for at most 60 *)
(* seconds and fills a slot of its own; an URL that is not valid is        *)
(* answered at once.                                                       *)
(***************************************************************************)
NoUrls(r) ==
    /\ Goto(r, "lookup", "400")
    /\ Gone({r})
    /\ UNCHANGED <<tableVars, workerVars, scans, conn, draft, left, raced>>

LookUp(r) ==
    /\ Free
    /\ Goto(r, "lookup", "scanning")
    /\ \E V \in SUBSET Urls : scans' = [scans EXCEPT ![r] = V]
    /\ UNCHANGED <<tableVars, workerVars, conn, kind, draft, left, existing,
                   raced>>

\* Mutant: without a deadline yt-dlp may run for ever.
ScanWithoutDeadline(r, u) == FALSE

ScanEnds(r, u) ==
    /\ u \in scans[r]
    /\ scans' = [scans EXCEPT ![r] = @ \ {u}]
    /\ UNCHANGED <<tableVars, workerVars, conn, pc, kind, draft, left,
                   existing, raced>>

AnswerScan(r) ==
    /\ Goto(r, "scanning", "results")
    /\ scans[r] = {}
    /\ Gone({r})
    /\ UNCHANGED <<tableVars, workerVars, scans, conn, draft, left, raced>>
-----------------------------------------------------------------------------
(***************************************************************************)
(* The worker: the settings when a job begins, the storage configuration   *)
(* when its files are there.                                               *)
(***************************************************************************)
ReadSettings ==
    /\ job = "resting" /\ Free
    /\ job' = "fetching"
    /\ used' = settings
    /\ UNCHANGED <<tableVars, handlerVars, opened>>

\* Errors are ignored, also those of rows.Next: rows that were not read are
\* taken for empty.
ReadSettingsFails ==
    /\ job = "resting" /\ Free
    /\ job' = "fetching"
    /\ \E K \in SUBSET Keys :
         used' = [k \in Keys |-> IF k \in K THEN settings[k] ELSE "nobody"]
    /\ UNCHANGED <<tableVars, handlerVars, opened>>

OpenStorage ==
    /\ job = "fetching" /\ Free
    /\ job' = "storing"
    /\ opened' = Decrypt(secret)
    /\ UNCHANGED <<tableVars, handlerVars, used>>

\* What is stored was encrypted under another APP_SECRET: the error of Decrypt
\* is ignored and the backend opened with an empty secret.
OpenWithoutSecret ==
    /\ job = "fetching" /\ Free
    /\ job' = "storing"
    /\ opened' = NoSecret
    /\ UNCHANGED <<tableVars, handlerVars, used>>

JobGone ==
    /\ job' = "resting"
    /\ used' = [k \in Keys |-> "nobody"]
    /\ opened' = NoSecret

\* It ends, with its package stored or without.
JobEnds ==
    /\ job \in {"fetching", "storing"}
    /\ JobGone
    /\ UNCHANGED <<tableVars, handlerVars>>

\* The process dies: handlers, the transaction and the job are gone.
Busy(r) == pc[r] \notin Ended \cup {"new"}

Forget ==
    /\ conn' = "free"
    /\ pc' = [r \in Requests |-> IF Busy(r) THEN "cut" ELSE pc[r]]
    /\ draft' = settings /\ left' = {}
    /\ scans' = [r \in Requests |-> {}]
    /\ Gone({r \in Requests : Busy(r)})
    /\ JobGone
    /\ UNCHANGED <<tableVars, raced>>
-----------------------------------------------------------------------------
Statement(r) ==
    \/ Begin(r) \/ (\E k \in Keys : WriteKey(r, k)) \/ CommitSettings(r)
    \/ ReadExisting(r) \/ SaveStorageConfig(r)
Scanning(r) ==
    NoUrls(r) \/ LookUp(r) \/ (\E u \in Urls : ScanEnds(r, u)) \/ AnswerScan(r)
StatementFails(r) ==
    BeginFails(r) \/ RollBack(r) \/ ReadExistingFails(r) \/ SaveStorageFails(r)
Handle(r) == Limited(r) \/ Decode(r) \/ NotDecoded(r) \/ Statement(r)
                        \/ Scanning(r)
Worker == ReadSettings \/ OpenStorage \/ JobEnds

ConfigNext ==
    \/ \E r \in Requests : \/ \E k \in Kinds : Arrive(r, k) \/ Forbidden(r, k)
                           \/ Handle(r) \/ StatementFails(r)
    \/ Worker \/ ReadSettingsFails \/ OpenWithoutSecret
    \/ Forget

ConfigSpec == ConfigInit /\ [][ConfigNext]_configVars
-----------------------------------------------------------------------------
(***************************************************************************)
(* Properties.                                                             *)
(***************************************************************************)
\* The settings are those of one save, and what a job works with was read from
\* one save: no two saves are ever mixed, although each key is a statement of
\* its own.
SettingsWhole ==
    \A k, l \in Keys :
        /\ settings[k] = settings[l]
        /\ "nobody" \notin {used[k], used[l]} => used[k] = used[l]

\* The stored secret is the one that was entered last, encrypted once, unless a
\* request with a blank field overlapped its entry or could not read it.
SecretSurvives ==
    \/ secret = NoSecret /\ newest = "nobody"
    \/ secret.of = newest /\ secret.sealed = 1
    \/ raced \cap saved # {}

\* API.md:11-13: a form is accepted on every write endpoint, so decoding one is
\* never the end of a request that the gates admitted.
FormsAccepted ==
    [][\A r \in Requests :
          pc[r] = "admitted" /\ kind[r].body = "form" => pc'[r] # "400"
      ]_configVars

\* Every request that was admitted is answered, whatever fails: the handlers
\* and the worker share one connection and none keeps it.
EveryoneAnswered ==
    \A r \in Requests : pc[r] = "admitted" ~> pc[r] \in Ended
=============================================================================

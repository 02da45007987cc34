------------------------------- MODULE Schema -------------------------------
(***************************************************************************)
(* The start of the process.  db.Open and migrate of internal/db/db.go: the *)
(* scripts that schema_migrations does not name are run in the order of    *)
(* their names, each in one transaction with the row that names it; then   *)
(* main() migrates rows of the old layout and serves.                      *)
(*                                                                         *)
(* A script either leaves alone what is there already (CREATE TABLE IF NOT *)
(* EXISTS, as 0001 does) or fails when it is run on its own result (ALTER  *)
(* TABLE ADD COLUMN, as 0002 does).  The tables are therefore the set of   *)
(* scripts whose effect they show.                                         *)
(***************************************************************************)
EXTENDS Naturals

CONSTANTS
    LastScript,  \* embedded migrations, numbered in the order of their names
    Repeatable,  \* those that may be run on their own result
    Released     \* scripts that an older release may have left applied

ASSUME ScriptsAssumption ==
    LastScript \in Nat /\ Repeatable \subseteq 1..LastScript
ASSUME ReleasedAssumption == Released \subseteq 0..LastScript

VARIABLES
    boot,       \* what main() is doing
    at,         \* the script in hand
    recorded,   \* rows of schema_migrations
    effects     \* scripts whose effect is in the tables

schemaVars == <<boot, at, recorded, effects>>

Starting == {"checking", "running", "recording", "committing", "migrating",
             "calling"}

SchemaTypeOK ==
    /\ boot \in {"down", "up"} \cup Starting
    /\ at \in 1..(LastScript + 1)
    /\ recorded \subseteq 1..LastScript
    /\ effects \subseteq 1..LastScript

SchemaInit ==
    /\ boot = "down"
    /\ at = 1
    /\ \E n \in Released : recorded = 1..n /\ effects = 1..n
-----------------------------------------------------------------------------
\* The process begins; CREATE TABLE IF NOT EXISTS schema_migrations.
Open ==
    /\ boot = "down"
    /\ boot' = "checking"
    /\ at' = 1
    /\ UNCHANGED <<recorded, effects>>

\* SELECT COUNT(*), and Begin when there is no row.
Check ==
    /\ boot = "checking"
    /\ at <= LastScript
    /\ IF at \in recorded THEN at' = at + 1 /\ UNCHANGED boot
                          ELSE boot' = "running" /\ UNCHANGED at
    /\ UNCHANGED <<recorded, effects>>

\* An ALTER TABLE meets the column that it adds.
Refuses(s) == s \in effects /\ s \notin Repeatable

\* Mutant: the script is run on the connection, outside the transaction.
RunOutside ==
    /\ boot = "running"
    /\ boot' = IF Refuses(at) THEN "down" ELSE "recording"
    /\ effects' = IF Refuses(at) THEN effects ELSE effects \cup {at}
    /\ UNCHANGED <<at, recorded>>

\* tx.Exec of the script: when it fails, the program ends with log.Fatal.
Run ==
    /\ boot = "running"
    /\ boot' = IF Refuses(at) THEN "down" ELSE "recording"
    /\ UNCHANGED <<at, recorded, effects>>

Record ==
    /\ boot = "recording"
    /\ boot' = "committing"
    /\ UNCHANGED <<at, recorded, effects>>

\* Mutant: the row is not part of the transaction and is lost.
CommitUnrecorded ==
    /\ boot = "committing"
    /\ effects' = effects \cup {at}
    /\ at' = at + 1
    /\ boot' = "checking"
    /\ UNCHANGED recorded

Commit ==
    /\ boot = "committing"
    /\ effects' = effects \cup {at}
    /\ recorded' = recorded \cup {at}
    /\ at' = at + 1
    /\ boot' = "checking"

(***************************************************************************)
(* The rest of main().  The worker pool is there before the migration of   *)
(* rows of the old layout, and ListenAndServe comes after it.              *)
(***************************************************************************)
Opened ==
    /\ boot = "checking"
    /\ at > LastScript
    /\ boot' = "migrating"
    /\ UNCHANGED <<at, recorded, effects>>

\* A row of the old layout: its metadata is asked of yt-dlp, or its files of
\* S3, with a context that has no deadline.
CallOut ==
    /\ boot = "migrating"
    /\ boot' = "calling"
    /\ UNCHANGED <<at, recorded, effects>>

\* The call is over, with an answer or an error; nothing makes it end.
CallReturns ==
    /\ boot = "calling"
    /\ boot' = "migrating"
    /\ UNCHANGED <<at, recorded, effects>>

\* No row is left, or the migration gave up: ListenAndServe.
Serve ==
    /\ boot = "migrating"
    /\ boot' = "up"
    /\ UNCHANGED <<at, recorded, effects>>

\* A statement fails and main() ends with log.Fatal, or the process dies: an
\* open transaction is rolled back.
Down ==
    /\ boot # "down"
    /\ boot' = "down"
    /\ UNCHANGED <<at, recorded, effects>>

\* What main() does by itself.
Boot == Open \/ Check \/ Run \/ Record \/ Commit \/ Opened \/ CallOut \/ Serve

SchemaNext == Boot \/ CallReturns \/ Down

SchemaSpec == SchemaInit /\ [][SchemaNext]_schemaVars
-----------------------------------------------------------------------------
\* Wherever a start is cut off, the scripts recorded are the scripts whose
\* effect the tables show, a beginning of the sequence, and the whole of it
\* once requests are served.
SchemaWhole ==
    /\ recorded = effects
    /\ \E n \in 0..LastScript : recorded = 1..n
    /\ boot = "up" => recorded = 1..LastScript

\* A start that was cut off does not spoil the next one: while somebody starts
\* the program again and mishaps cease, it comes to serve requests, or it
\* stands in a call of the migration, which may never return (migration.go:249).
ComesUp == []<>(boot \in {"up", "calling"})
=============================================================================

----------------------------- MODULE MCPipeline -----------------------------
(***************************************************************************)
(* Model values and bounds for checking Pipeline.                          *)
(***************************************************************************)
EXTENDS Pipeline, TLC

CONSTANTS d1, d2, w1, w2, r1, r2

OneWorker    == {w1}
OneDownload  == {d1}
TwoDownloads == {d1, d2}
TwoWorkers   == {w1, w2}
OneHandler   == {r1}
TwoHandlers  == {r1, r2}

\* Workers and handlers are interchangeable; used for safety only.
Symmetric == Permutations(TwoWorkers) \cup Permutations(TwoHandlers)

\* The requests of everyday use, and those that follow the loss of the
\* database, when every row comes from recovery.
AfterLossOps == {"retry", "delete", "recover"}
UserOps == {"enqueue", "retry", "delete"}

Both    == {"local", "s3"}
Local   == {"local"}
=============================================================================

----------------------------- MODULE WorkQueue ------------------------------
(***************************************************************************)
(* What the job manager promises of the work it accepts, with no queue, no *)
(* rows and no storage: each attempt that was accepted for a download is   *)
(* taken by exactly one worker, a worker has one attempt at a time, and    *)
(* only a crash takes an attempt away from those who hold it.              *)
(* Pipeline implements this module.                                        *)
(***************************************************************************)
EXTENDS Naturals

CONSTANTS Ids, Workers

VARIABLES
    backlog, \* accepted attempts not yet taken, per download
    running  \* the download each worker is at, or "none"

vars == <<backlog, running>>

Init == /\ backlog = [d \in Ids |-> 0]
        /\ running = [w \in Workers |-> "none"]

\* A request to download, or to try again, is accepted.
Accept(d) == /\ backlog' = [backlog EXCEPT ![d] = @ + 1]
             /\ UNCHANGED running

\* A free worker takes an accepted attempt.
Take(w, d) == /\ running[w] = "none"
              /\ backlog[d] > 0
              /\ backlog' = [backlog EXCEPT ![d] = @ - 1]
              /\ running' = [running EXCEPT ![w] = d]

\* It is done with it, whatever came of it.
Leave(w) == /\ running[w] # "none"
            /\ running' = [running EXCEPT ![w] = "none"]
            /\ UNCHANGED backlog

\* The backlog is in memory.
Crash == Init'

Next == \/ \E d \in Ids : Accept(d)
        \/ \E w \in Workers, d \in Ids : Take(w, d)
        \/ \E w \in Workers : Leave(w)
        \/ Crash

Spec == /\ Init /\ [][Next]_vars
        /\ WF_vars(\E w \in Workers, d \in Ids : Take(w, d))
        /\ \A w \in Workers : WF_vars(Leave(w))
=============================================================================

----------------------------- MODULE FetchCall -----------------------------
(***************************************************************************)
(* What process() relies on when it calls Runner.DownloadPackage, without  *)
(* processes, pipes and goroutines: one call at a time, which calls back   *)
(* any number of times, one callback at a time, and returns once, when no  *)
(* callback is running.                                                    *)
(***************************************************************************)
EXTENDS Naturals

VARIABLES
    phase,    \* of the call: "idle", "running", "returned"
    running,  \* callbacks that are running
    result    \* what the call returned

callVars == <<phase, running, result>>

Init == phase = "idle" /\ running = 0 /\ result = "none"

Begin ==
    /\ phase = "idle"
    /\ phase' = "running"
    /\ UNCHANGED <<running, result>>

CallBack ==
    /\ phase = "running" /\ running = 0
    /\ running' = 1
    /\ UNCHANGED <<phase, result>>

CallBackEnds ==
    /\ running = 1
    /\ running' = 0
    /\ UNCHANGED <<phase, result>>

\* The call may also fail before anything was started.
Return ==
    /\ phase \in {"idle", "running"} /\ running = 0
    /\ phase' = "returned"
    /\ result' \in (IF phase = "idle" THEN {"error"} ELSE {"file", "error"})
    /\ UNCHANGED running

Take ==
    /\ phase = "returned"
    /\ phase' = "idle"
    /\ result' = "none"
    /\ UNCHANGED running

Next == Begin \/ CallBack \/ CallBackEnds \/ Return \/ Take

Spec == Init /\ [][Next]_callVars
=============================================================================

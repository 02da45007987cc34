---------------------------- MODULE YtdlpRunner ----------------------------
(***************************************************************************)
(* Runner.DownloadPackage of internal/ytdlp/ytdlp.go: one yt-dlp process,  *)
(* two pipes of bounded capacity, one goroutine that scans each of them,   *)
(* and the caller that waits for the first goroutine and then for the      *)
(* process.                                                                *)
(*                                                                         *)
(* A pipe holds lines.  What a line says is cut down to what the scanners  *)
(* tell apart: "progress" (with a percentage), "note" and "path" (two      *)
(* plain lines, of which one was printed after the file was moved into     *)
(* place; the code cannot tell them apart) and "long" (more than the       *)
(* 64 KiB that a bufio.Scanner accepts).  yt-dlp prints what it likes; it  *)
(* blocks while the pipe it writes to is full.                             *)
(***************************************************************************)
EXTENDS Naturals, Sequences

CONSTANTS
    PipeCap,   \* lines that fit into a pipe of the operating system
    MaxLines   \* bound: lines that one yt-dlp prints

ASSUME PipeAssumption == PipeCap \in Nat \ {0} /\ MaxLines \in Nat

VARIABLES
    child,     \* yt-dlp: the write it is blocked in, or how it is
    left,      \* lines it may still print
    outPipe,   \* lines on their way from its standard output
    errPipe,   \* lines on their way from its standard error
    reader,    \* the goroutine that scans outPipe and closes done
    drain,     \* the goroutine that scans errPipe into errBuf
    caller,    \* DownloadPackage itself
    result,    \* what it returned
    path,      \* resolvedPath
    printed    \* history: the last plain line that yt-dlp printed

runnerVars == <<child, left, outPipe, errPipe, reader, drain, caller, result,
                path, printed>>

Plain    == {"note", "path"}
OutLines == Plain \cup {"progress", "long"}
ErrLines == {"line", "long"}
Writes   == [to : {"out"}, line : OutLines] \cup [to : {"err"}, line : ErrLines]
Quiet(s) == [to |-> s, line |-> "none"]
Children == Writes \cup {Quiet(s) : s \in {"none", "running", "good", "bad"}}
Exited   == child \in {Quiet("good"), Quiet("bad")}

\* A scanner has met a line that is too long and reads no further.
GaveUp == reader = "gave up" \/ drain = "gave up"

RunnerTypeOK ==
    /\ child \in Children
    /\ left \in 0..MaxLines
    /\ outPipe \in Seq(OutLines) /\ Len(outPipe) <= PipeCap
    /\ errPipe \in Seq(ErrLines) /\ Len(errPipe) <= PipeCap
    /\ reader \in {"none", "reading", "percent", "line", "ended", "gave up"}
    /\ drain \in {"none", "reading", "ended", "gave up"}
    /\ caller \in {"idle", "waiting", "reaping", "returned"}
    /\ result \in {"none", "file", "error"}
    /\ path \in Plain \cup {"none"} /\ printed \in Plain \cup {"none"}

RunnerInit ==
    /\ child = Quiet("none") /\ left = 0
    /\ outPipe = <<>> /\ errPipe = <<>>
    /\ reader = "none" /\ drain = "none"
    /\ caller = "idle" /\ result = "none"
    /\ path = "none" /\ printed = "none"
-----------------------------------------------------------------------------
(***************************************************************************)
(* yt-dlp.                                                                 *)
(***************************************************************************)
\* Mutant: a write never waits.
RoomEverywhere(w) == TRUE

Room(w) == IF w.to = "out" THEN Len(outPipe) < PipeCap
                           ELSE Len(errPipe) < PipeCap

Put(w) ==
    IF w.to = "out"
    THEN /\ outPipe' = Append(outPipe, w.line)
         /\ printed' = IF w.line \in Plain THEN w.line ELSE printed
         /\ UNCHANGED errPipe
    ELSE /\ errPipe' = Append(errPipe, w.line)
         /\ UNCHANGED <<outPipe, printed>>

WriteLine ==
    /\ child = Quiet("running")
    /\ left > 0
    /\ left' = left - 1
    /\ \E w \in Writes :
         \/ Room(w) /\ Put(w) /\ UNCHANGED child
         \/ ~Room(w) /\ child' = w /\ UNCHANGED <<outPipe, errPipe, printed>>
    /\ UNCHANGED <<reader, drain, caller, result, path>>

\* The write that found the pipe full ends.
Resume ==
    /\ child \in Writes
    /\ Room(child) /\ Put(child)
    /\ child' = Quiet("running")
    /\ UNCHANGED <<left, reader, drain, caller, result, path>>

Exit ==
    /\ child = Quiet("running")
    /\ child' \in {Quiet("good"), Quiet("bad")}
    /\ UNCHANGED <<left, outPipe, errPipe, reader, drain, caller, result, path,
                   printed>>
-----------------------------------------------------------------------------
(***************************************************************************)
(* The two goroutines.  Every line of standard output ends in a call of    *)
(* onProgress, with the percentage or with -1: Calls is where the reader   *)
(* stays during the call.                                                  *)
(***************************************************************************)
Calls == {"percent", "line"}

ReadLine ==
    /\ reader = "reading"
    /\ outPipe # <<>>
    /\ reader' = CASE Head(outPipe) = "long"     -> "gave up"
                   [] Head(outPipe) = "progress" -> "percent"
                   [] OTHER                      -> "line"
    /\ path' = IF Head(outPipe) \in Plain THEN Head(outPipe) ELSE path
    /\ outPipe' = Tail(outPipe)
    /\ UNCHANGED <<child, left, errPipe, drain, caller, result, printed>>

CallbackReturns ==
    /\ reader \in Calls
    /\ reader' = "reading"
    /\ UNCHANGED <<child, left, outPipe, errPipe, drain, caller, result, path,
                   printed>>

\* The write end closes with the process.
ReadEnd ==
    /\ reader = "reading"
    /\ outPipe = <<>>
    /\ Exited
    /\ reader' = "ended"
    /\ UNCHANGED <<child, left, outPipe, errPipe, drain, caller, result, path,
                   printed>>

DrainLine ==
    /\ drain = "reading"
    /\ errPipe # <<>>
    /\ drain' = IF Head(errPipe) = "long" THEN "gave up" ELSE "reading"
    /\ errPipe' = Tail(errPipe)
    /\ UNCHANGED <<child, left, outPipe, reader, caller, result, path, printed>>

DrainEnd ==
    /\ drain = "reading"
    /\ errPipe = <<>>
    /\ Exited
    /\ drain' = "ended"
    /\ UNCHANGED <<child, left, outPipe, errPipe, reader, caller, result, path,
                   printed>>
-----------------------------------------------------------------------------
(***************************************************************************)
(* DownloadPackage.                                                        *)
(***************************************************************************)
\* Mutant: nobody reads standard error.
StartUndrained ==
    /\ caller = "idle"
    /\ caller' = "waiting" /\ result' = "none"
    /\ child' = Quiet("running") /\ left' = MaxLines
    /\ outPipe' = <<>> /\ errPipe' = <<>>
    /\ reader' = "reading" /\ drain' = "ended"
    /\ path' = "none" /\ printed' = "none"

Start ==
    /\ caller = "idle"
    /\ caller' = "waiting" /\ result' = "none"
    /\ child' = Quiet("running") /\ left' = MaxLines
    /\ outPipe' = <<>> /\ errPipe' = <<>>
    /\ reader' = "reading" /\ drain' = "reading"
    /\ path' = "none" /\ printed' = "none"

\* No pipe could be made, or the program could not be started.
StartFails ==
    /\ caller = "idle"
    /\ caller' = "returned" /\ result' = "error"
    /\ UNCHANGED <<child, left, outPipe, errPipe, reader, drain, path, printed>>

\* Mutant: Wait is called as soon as yt-dlp has been started.
ReapAtOnce ==
    /\ caller = "waiting"
    /\ caller' = "reaping"
    /\ UNCHANGED <<child, left, outPipe, errPipe, reader, drain, result, path,
                   printed>>

\* <-done: closed when the scan of standard output ends, however it ends.
AwaitDone ==
    /\ caller = "waiting"
    /\ reader \in {"ended", "gave up"}
    /\ caller' = "reaping"
    /\ UNCHANGED <<child, left, outPipe, errPipe, reader, drain, result, path,
                   printed>>

\* cmd.Wait: returns after the process and closes the read ends, whatever is
\* left in them.  Without a path the work directory is searched.
Wait ==
    /\ caller = "reaping"
    /\ Exited
    /\ caller' = "returned"
    /\ \/ child = Quiet("bad") /\ result' = "error"
       \/ child = Quiet("good") /\ result' = "file"
       \/ child = Quiet("good") /\ path = "none" /\ result' = "error"
    /\ drain' = IF drain = "reading" THEN "ended" ELSE drain
    /\ outPipe' = <<>> /\ errPipe' = <<>>
    /\ UNCHANGED <<child, left, reader, path, printed>>

\* process() has taken the result; the locals are gone.
Discard ==
    /\ caller = "returned"
    /\ caller' = "idle" /\ result' = "none"
    /\ child' = Quiet("none") /\ left' = 0
    /\ outPipe' = <<>> /\ errPipe' = <<>>
    /\ reader' = "none" /\ drain' = "none"
    /\ path' = "none" /\ printed' = "none"
-----------------------------------------------------------------------------
Ytdlp   == WriteLine \/ Resume \/ Exit
Scan    == ReadLine \/ ReadEnd
Drain   == DrainLine \/ DrainEnd
Collect == AwaitDone \/ Wait

RunnerNext == Ytdlp \/ Scan \/ CallbackReturns \/ Drain \/ Collect \/ Start
                 \/ StartFails \/ Discard

RunnerSpec == RunnerInit /\ [][RunnerNext]_runnerVars

(***************************************************************************)
(* The goroutines run while they can and the callback returns (its SQL     *)
(* statements do, and PublishReturns of EventStream has the event).  That  *)
(* yt-dlp goes on, and ends, is an assumption about it: the context of a   *)
(* job has no deadline.                                                    *)
(***************************************************************************)
RunnerFairness ==
    /\ WF_runnerVars(Ytdlp)
    /\ WF_runnerVars(Scan) /\ WF_runnerVars(CallbackReturns)
    /\ WF_runnerVars(Drain)
    /\ WF_runnerVars(Collect)

FairRunnerSpec == RunnerSpec /\ RunnerFairness
-----------------------------------------------------------------------------
(***************************************************************************)
(* Properties.                                                             *)
(***************************************************************************)
\* DownloadPackage keeps the promise that process() relies on (and the steps
\* ReportProgress and FetchEnds of Pipeline): in particular no callback runs,
\* or is still to come, when it returns, so that no late callback writes over
\* a later status, and lastUpdate is never used by two goroutines.
Call == INSTANCE FetchCall WITH
            phase   <- CASE caller = "idle"     -> "idle"
                         [] caller = "returned" -> "returned"
                         [] OTHER               -> "running",
            running <- IF reader \in Calls THEN 1 ELSE 0
ImplementsFetchCall == Call!Spec

\* What is taken for the path of the file is the last plain line of all that
\* yt-dlp printed: standard output is read to its end before Wait closes it.
PathKept ==
    caller = "returned" /\ reader = "ended" => path = printed

\* yt-dlp, the two goroutines and the caller never wait for each other for
\* ever, whichever pipe is full: the call returns, unless a line was too long
\* for a scanner, after which nobody empties its pipe.
RunnerReturns == caller = "waiting" ~> caller = "returned" \/ GaveUp
=============================================================================

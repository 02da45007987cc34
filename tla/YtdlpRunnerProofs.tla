------------------------ MODULE YtdlpRunnerProofs ------------------------
(***************************************************************************)
(* Proofs about DownloadPackage, for pipes of any size and any number of   *)
(* lines: types and capacities, that it implements FetchCall, and that the *)
(* path printed last is kept.                                              *)
(***************************************************************************)
EXTENDS YtdlpRunner, TLAPS

LEMMA NextCases ==
  ASSUME RunnerNext
  PROVE  \/ WriteLine \/ Resume \/ Exit \/ ReadLine \/ ReadEnd
         \/ CallbackReturns \/ DrainLine \/ DrainEnd \/ AwaitDone \/ Wait
         \/ Start \/ StartFails \/ Discard
  BY DEF RunnerNext, Ytdlp, Scan, Drain, Collect

\* The length of a pipe after a line was put into it or taken from it.
LEMMA PipeLengths ==
  ASSUME NEW S, NEW q \in Seq(S), NEW e \in S
  PROVE  /\ Len(q) \in Nat
         /\ Append(q, e) \in Seq(S)
         /\ Len(Append(q, e)) = Len(q) + 1
         /\ q # <<>> => /\ Head(q) \in S
                        /\ Tail(q) \in Seq(S)
                        /\ Len(Tail(q)) = Len(q) - 1
  OBVIOUS

LEMMA LinesAre ==
  /\ "progress" \in OutLines /\ "long" \in OutLines /\ "line" \in ErrLines
  /\ \A w \in Writes : \/ w.to = "out" /\ w.line \in OutLines
                       \/ w.to = "err" /\ w.line \in ErrLines
  /\ Writes \subseteq Children
  BY DEF OutLines, ErrLines, Plain, Writes, Children

\* A write into a pipe that has room keeps the types.
LEMMA PutTyped ==
  ASSUME RunnerTypeOK, NEW w \in Writes, Room(w), Put(w)
  PROVE  /\ outPipe' \in Seq(OutLines) /\ Len(outPipe') <= PipeCap
         /\ errPipe' \in Seq(ErrLines) /\ Len(errPipe') <= PipeCap
         /\ printed' \in Plain \cup {"none"}
  <1>1. CASE w.to = "out"
    <2>1. w.line \in OutLines
      BY <1>1, LinesAre
    <2>2. Len(outPipe) \in Nat /\ Len(outPipe) < PipeCap
      <3>1. outPipe \in Seq(OutLines)
        BY DEF RunnerTypeOK
      <3> QED BY <1>1, <3>1, LinesAre, PipeLengths DEF Room
    <2>3. outPipe' = Append(outPipe, w.line) /\ errPipe' = errPipe
      BY <1>1 DEF Put
    <2>4. printed' \in Plain \cup {"none"}
      BY <1>1 DEF Put, RunnerTypeOK
    <2>5. outPipe \in Seq(OutLines)
          /\ errPipe' \in Seq(ErrLines) /\ Len(errPipe') <= PipeCap
      BY <2>3 DEF RunnerTypeOK
    <2>6. outPipe' \in Seq(OutLines) /\ Len(outPipe') = Len(outPipe) + 1
      BY <2>1, <2>3, <2>5, PipeLengths
    <2>7. Len(outPipe') <= PipeCap
      BY <2>2, <2>6, PipeAssumption
    <2> QED
      BY <2>4, <2>5, <2>6, <2>7
  <1>2. CASE w.to # "out"
    <2>1. w.line \in ErrLines
      BY <1>2, LinesAre
    <2>2. Len(errPipe) \in Nat /\ Len(errPipe) < PipeCap
      <3>1. errPipe \in Seq(ErrLines)
        BY DEF RunnerTypeOK
      <3> QED BY <1>2, <3>1, LinesAre, PipeLengths DEF Room
    <2>3. errPipe' = Append(errPipe, w.line) /\ outPipe' = outPipe
                /\ printed' = printed
      BY <1>2 DEF Put
    <2>5. /\ errPipe \in Seq(ErrLines)
          /\ outPipe' \in Seq(OutLines) /\ Len(outPipe') <= PipeCap
          /\ printed' \in Plain \cup {"none"}
      BY <2>3 DEF RunnerTypeOK
    <2>6. errPipe' \in Seq(ErrLines) /\ Len(errPipe') = Len(errPipe) + 1
      BY <2>1, <2>3, <2>5, PipeLengths
    <2>7. Len(errPipe') <= PipeCap
      BY <2>2, <2>6, PipeAssumption
    <2> QED
      BY <2>5, <2>6, <2>7
  <1> QED BY <1>1, <1>2

LEMMA EmptyPipes ==
  /\ <<>> \in Seq(OutLines) /\ <<>> \in Seq(ErrLines) /\ Len(<<>>) <= PipeCap
  BY PipeAssumption

\* Types and capacities, for each step.
LEMMA TypedStep ==
  ASSUME RunnerTypeOK, [RunnerNext]_runnerVars
  PROVE  RunnerTypeOK'
  <1>a. /\ PipeCap \in Nat /\ MaxLines \in Nat
        /\ MaxLines \in 0..MaxLines /\ 0 \in 0..MaxLines
    <2>1. PipeCap \in Nat /\ MaxLines \in Nat
      BY PipeAssumption
    <2> QED BY <2>1
  <1> USE DEF RunnerTypeOK
  <1>1. CASE WriteLine
    <2>1. PICK w \in Writes : \/ Room(w) /\ Put(w) /\ UNCHANGED child
                              \/ ~Room(w) /\ child' = w
                                 /\ UNCHANGED <<outPipe, errPipe, printed>>
      BY <1>1 DEF WriteLine
    <2>2. left' \in 0..MaxLines
      <3>1. left \in 0..MaxLines /\ left > 0 /\ left' = left - 1
        BY <1>1 DEF WriteLine
      <3> HIDE DEF RunnerTypeOK
      <3> QED BY <1>a, <3>1
    <2>3. child' \in Children
      BY <2>1, LinesAre
    <2>4. /\ outPipe' \in Seq(OutLines) /\ Len(outPipe') <= PipeCap
          /\ errPipe' \in Seq(ErrLines) /\ Len(errPipe') <= PipeCap
          /\ printed' \in Plain \cup {"none"}
      BY <2>1, PutTyped
    <2> QED
      BY <1>1, <2>2, <2>3, <2>4 DEF WriteLine
  <1>2. CASE Resume
    <2>1. /\ outPipe' \in Seq(OutLines) /\ Len(outPipe') <= PipeCap
          /\ errPipe' \in Seq(ErrLines) /\ Len(errPipe') <= PipeCap
          /\ printed' \in Plain \cup {"none"}
      BY <1>2, PutTyped DEF Resume
    <2> QED
      BY <1>2, <2>1 DEF Resume, Children
  <1>3. CASE Exit
    BY <1>3 DEF Exit, Children
  <1>4. CASE ReadLine
    <2>1. outPipe # <<>> /\ outPipe' = Tail(outPipe)
      BY <1>4 DEF ReadLine
    <2>2. outPipe' \in Seq(OutLines) /\ Len(outPipe') <= PipeCap
      <3>1. outPipe \in Seq(OutLines) /\ Len(outPipe) <= PipeCap
        OBVIOUS
      <3> HIDE DEF RunnerTypeOK
      <3>2. outPipe' \in Seq(OutLines) /\ Len(outPipe') = Len(outPipe) - 1
            /\ Len(outPipe) \in Nat
        BY <2>1, <3>1, PipeLengths, LinesAre
      <3> QED BY <1>a, <3>1, <3>2
    <2>3. path' \in Plain \cup {"none"} /\ reader' \in {"percent", "line", "gave up"}
      BY <1>4 DEF ReadLine
    <2> QED
      BY <1>4, <2>2, <2>3 DEF ReadLine
  <1>5. CASE ReadEnd
    BY <1>5 DEF ReadEnd
  <1>6. CASE CallbackReturns
    BY <1>6 DEF CallbackReturns
  <1>7. CASE DrainLine
    <2>1. errPipe # <<>> /\ errPipe' = Tail(errPipe)
      BY <1>7 DEF DrainLine
    <2>2. errPipe' \in Seq(ErrLines) /\ Len(errPipe') <= PipeCap
      <3>1. errPipe \in Seq(ErrLines) /\ Len(errPipe) <= PipeCap
        OBVIOUS
      <3> HIDE DEF RunnerTypeOK
      <3>2. errPipe' \in Seq(ErrLines) /\ Len(errPipe') = Len(errPipe) - 1
            /\ Len(errPipe) \in Nat
        BY <2>1, <3>1, PipeLengths, LinesAre
      <3> QED BY <1>a, <3>1, <3>2
    <2> QED
      BY <1>7, <2>2 DEF DrainLine
  <1>8. CASE DrainEnd
    BY <1>8 DEF DrainEnd
  <1>9. CASE AwaitDone
    BY <1>9 DEF AwaitDone
  <1>10. CASE Wait
    BY <1>10, EmptyPipes DEF Wait
  <1>11. CASE Start
    BY <1>11, <1>a, EmptyPipes DEF Start, Children
  <1>12. CASE StartFails
    BY <1>12 DEF StartFails
  <1>13. CASE Discard
    BY <1>13, <1>a, EmptyPipes DEF Discard, Children
  <1>14. CASE UNCHANGED runnerVars
    BY <1>14 DEF runnerVars
  <1> QED
    BY <1>1, <1>2, <1>3, <1>4, <1>5, <1>6, <1>7, <1>8, <1>9, <1>10, <1>11,
       <1>12, <1>13, <1>14, NextCases

\* The pipes hold lines, never more than they have room for, and the
\* goroutines and the caller are where the code can be.
THEOREM RunnerTypeCorrect == RunnerSpec => []RunnerTypeOK
  <1>1. RunnerInit => RunnerTypeOK
    BY EmptyPipes, PipeAssumption DEF RunnerInit, RunnerTypeOK, Children
  <1> QED
    BY <1>1, TypedStep, PTL DEF RunnerSpec
-----------------------------------------------------------------------------
(***************************************************************************)
(* The refinement.                                                         *)
(***************************************************************************)
\* The reader runs only while the call does.
CallInv ==
    /\ caller = "idle" => reader = "none"
    /\ caller \in {"reaping", "returned"} => reader \in {"none", "ended", "gave up"}
    /\ caller # "returned" => result = "none"

LEMMA CallStep ==
  ASSUME RunnerTypeOK, CallInv, [RunnerNext]_runnerVars
  PROVE  CallInv'
  <1> USE DEF CallInv, Calls
  <1>0. caller \in {"idle", "waiting", "reaping", "returned"}
    BY DEF RunnerTypeOK
  <1>1. CASE WriteLine
    BY <1>1 DEF WriteLine
  <1>2. CASE Resume
    BY <1>2 DEF Resume
  <1>3. CASE Exit
    BY <1>3 DEF Exit
  <1>4. CASE ReadLine
    BY <1>0, <1>4 DEF ReadLine
  <1>5. CASE ReadEnd
    BY <1>0, <1>5 DEF ReadEnd
  <1>6. CASE CallbackReturns
    BY <1>0, <1>6 DEF CallbackReturns
  <1>7. CASE DrainLine
    BY <1>7 DEF DrainLine
  <1>8. CASE DrainEnd
    BY <1>8 DEF DrainEnd
  <1>9. CASE AwaitDone
    BY <1>9 DEF AwaitDone
  <1>10. CASE Wait
    BY <1>10 DEF Wait
  <1>11. CASE Start
    BY <1>11 DEF Start
  <1>12. CASE StartFails
    BY <1>12 DEF StartFails
  <1>13. CASE Discard
    BY <1>13 DEF Discard
  <1>14. CASE UNCHANGED runnerVars
    BY <1>14 DEF runnerVars
  <1> QED
    BY <1>1, <1>2, <1>3, <1>4, <1>5, <1>6, <1>7, <1>8, <1>9, <1>10, <1>11,
       <1>12, <1>13, <1>14, NextCases

LEMMA CallInvariant == RunnerSpec => [](RunnerTypeOK /\ CallInv)
  <1>1. RunnerInit => CallInv
    BY DEF RunnerInit, CallInv
  <1>2. RunnerTypeOK /\ CallInv /\ [RunnerNext]_runnerVars => CallInv'
    BY CallStep
  <1> QED
    BY <1>1, <1>2, RunnerTypeCorrect, PTL DEF RunnerSpec

\* Each step of the runner is a step of the call or none.
LEMMA StepMaps ==
  ASSUME RunnerTypeOK, CallInv, [RunnerNext]_runnerVars
  PROVE  [Call!Next]_(Call!callVars)
  <1> USE DEF CallInv, Calls, Call!callVars
  <1>0. caller \in {"idle", "waiting", "reaping", "returned"}
    BY DEF RunnerTypeOK
  <1>1. CASE WriteLine
    BY <1>1 DEF WriteLine
  <1>2. CASE Resume
    BY <1>2 DEF Resume
  <1>3. CASE Exit
    BY <1>3 DEF Exit
  <1>4. CASE ReadLine
    <2>1. caller = "waiting" /\ caller' = caller /\ result' = result
          /\ reader = "reading" /\ reader' \in {"percent", "line", "gave up"}
      BY <1>0, <1>4 DEF ReadLine
    <2>2. CASE reader' = "gave up"
      <3>1. ~(reader' \in Calls) /\ ~(reader \in Calls)
        BY <2>1, <2>2
      <3> HIDE DEF Calls
      <3> QED BY <2>1, <3>1
    <2>3. CASE reader' # "gave up"
      <3>1. reader' \in Calls /\ ~(reader \in Calls)
        BY <2>1, <2>3
      <3> HIDE DEF Calls
      <3> QED BY <2>1, <3>1 DEF Call!Next, Call!CallBack
    <2> QED
      BY <2>2, <2>3
  <1>5. CASE ReadEnd
    BY <1>5 DEF ReadEnd
  <1>6. CASE CallbackReturns
    <2>1. caller' = caller /\ result' = result
          /\ reader \in Calls /\ ~(reader' \in Calls)
      BY <1>6 DEF CallbackReturns
    <2> HIDE DEF Calls, CallInv
    <2> QED
      BY <1>0, <2>1 DEF Call!Next, Call!CallBackEnds
  <1>7. CASE DrainLine
    BY <1>7 DEF DrainLine
  <1>8. CASE DrainEnd
    BY <1>8 DEF DrainEnd
  <1>9. CASE AwaitDone
    BY <1>9 DEF AwaitDone
  <1>10. CASE Wait
    <2>1. /\ caller = "reaping" /\ caller' = "returned" /\ reader' = reader
          /\ reader \in {"none", "ended", "gave up"}
          /\ result' \in {"file", "error"}
      BY <1>10 DEF Wait
    <2> QED
      BY <2>1 DEF Call!Next, Call!Return
  <1>11. CASE Start
    BY <1>11 DEF Start, Call!Next, Call!Begin
  <1>12. CASE StartFails
    BY <1>12 DEF StartFails, Call!Next, Call!Return
  <1>13. CASE Discard
    <2>1. caller = "returned" /\ caller' = "idle" /\ result' = "none"
      BY <1>13 DEF Discard
    <2>2. ~(reader \in Calls) /\ ~(reader' \in Calls)
      BY <1>13 DEF Discard
    <2> HIDE DEF Calls
    <2> QED
      BY <2>1, <2>2 DEF Call!Next, Call!Take
  <1>14. CASE UNCHANGED runnerVars
    BY <1>14 DEF runnerVars
  <1> QED
    BY <1>1, <1>2, <1>3, <1>4, <1>5, <1>6, <1>7, <1>8, <1>9, <1>10, <1>11,
       <1>12, <1>13, <1>14, NextCases

\* DownloadPackage implements the call that process() and Pipeline rely on: it
\* returns once, and no callback runs or is still to come when it does.
THEOREM RunnerImplementsCall == RunnerSpec => ImplementsFetchCall
  <1>1. RunnerInit => Call!Init
    BY DEF RunnerInit, Call!Init, Calls
  <1>2. RunnerTypeOK /\ CallInv /\ [RunnerNext]_runnerVars
            => [Call!Next]_(Call!callVars)
    BY StepMaps
  <1> QED
    BY <1>1, <1>2, CallInvariant, PTL DEF RunnerSpec, ImplementsFetchCall, Call!Spec
-----------------------------------------------------------------------------
(***************************************************************************)
(* The path.                                                               *)
(***************************************************************************)
NoPlain(q) == \A i \in 1..Len(q) : q[i] \notin Plain

\* x is the last plain line of q.
LastPlain(q, x) ==
    \E i \in 1..Len(q) : /\ q[i] = x /\ x \in Plain
                         /\ \A j \in 1..Len(q) : j > i => q[j] \notin Plain

\* The plain line that yt-dlp printed last is in the pipe, behind no other, or
\* it has been read.
PathOf(q) == (NoPlain(q) /\ path = printed) \/ LastPlain(q, printed)

PathInv ==
    /\ reader \in {"reading", "percent", "line", "ended"} => PathOf(outPipe)
    /\ reader = "ended" => Exited /\ outPipe = <<>>

LEMMA PutPlain ==
  ASSUME NEW q \in Seq(OutLines), NEW x \in Plain
  PROVE  LastPlain(Append(q, x), x)
  <1>1. x \in OutLines
    BY DEF OutLines
  <1>2. /\ Len(q) \in Nat /\ Len(Append(q, x)) = Len(q) + 1
        /\ Append(q, x)[Len(q) + 1] = x
    BY <1>1
  <1> QED
    BY <1>2 DEF LastPlain

LEMMA PutOther ==
  ASSUME NEW q \in Seq(OutLines), NEW e \in OutLines, e \notin Plain, NEW x
  PROVE  /\ NoPlain(q) => NoPlain(Append(q, e))
         /\ LastPlain(q, x) => LastPlain(Append(q, e), x)
  <1>1. /\ Len(q) \in Nat /\ Len(Append(q, e)) = Len(q) + 1
        /\ Append(q, e)[Len(q) + 1] = e
        /\ \A i \in 1..Len(q) : Append(q, e)[i] = q[i]
    OBVIOUS
  <1>2. \A i \in 1..Len(Append(q, e)) : i \in 1..Len(q) \/ i = Len(q) + 1
    BY <1>1
  <1>3. NoPlain(q) => NoPlain(Append(q, e))
    BY <1>1, <1>2 DEF NoPlain
  <1>4. ASSUME NEW i \in 1..Len(q), q[i] = x, x \in Plain,
               \A j \in 1..Len(q) : j > i => q[j] \notin Plain
        PROVE  LastPlain(Append(q, e), x)
    <2>1. i \in 1..Len(Append(q, e)) /\ Append(q, e)[i] = x
      BY <1>1, <1>4
    <2>2. ASSUME NEW j \in 1..Len(Append(q, e)), j > i
          PROVE  Append(q, e)[j] \notin Plain
      <3>1. CASE j \in 1..Len(q)
        BY <1>1, <1>4, <2>2, <3>1
      <3>2. CASE j = Len(q) + 1
        BY <1>1, <3>2
      <3> QED
        BY <1>2, <3>1, <3>2
    <2> QED
      BY <1>4, <2>1, <2>2 DEF LastPlain
  <1> QED
    BY <1>3, <1>4 DEF LastPlain

LEMMA TakeLine ==
  ASSUME NEW q \in Seq(OutLines), q # <<>>, NEW x
  PROVE  /\ NoPlain(q) => NoPlain(Tail(q)) /\ Head(q) \notin Plain
         /\ LastPlain(q, x) => \/ NoPlain(Tail(q)) /\ Head(q) = x /\ x \in Plain
                               \/ LastPlain(Tail(q), x)
  <1>1. /\ Len(q) \in Nat /\ Len(q) > 0 /\ Head(q) = q[1]
        /\ Len(Tail(q)) = Len(q) - 1
        /\ \A i \in 1..Len(Tail(q)) : Tail(q)[i] = q[i + 1] /\ i + 1 \in 1..Len(q)
    OBVIOUS
  <1>2. NoPlain(q) => NoPlain(Tail(q)) /\ Head(q) \notin Plain
    BY <1>1 DEF NoPlain
  <1>3. ASSUME NEW i \in 1..Len(q), q[i] = x, x \in Plain,
               \A j \in 1..Len(q) : j > i => q[j] \notin Plain
        PROVE  \/ NoPlain(Tail(q)) /\ Head(q) = x /\ x \in Plain
               \/ LastPlain(Tail(q), x)
    <2>1. CASE i = 1
      <3>1. \A j \in 1..Len(Tail(q)) : Tail(q)[j] \notin Plain
        BY <1>1, <1>3, <2>1
      <3> QED
        BY <1>1, <1>3, <2>1, <3>1 DEF NoPlain
    <2>2. CASE i # 1
      <3>1. i - 1 \in 1..Len(Tail(q)) /\ Tail(q)[i - 1] = x
        BY <1>1, <1>3, <2>2
      <3>2. \A j \in 1..Len(Tail(q)) : j > i - 1 => Tail(q)[j] \notin Plain
        BY <1>1, <1>3
      <3> QED
        BY <1>3, <3>1, <3>2 DEF LastPlain
    <2> QED
      BY <2>1, <2>2
  <1> QED
    BY <1>2, <1>3 DEF LastPlain

\* A write into the standard output keeps the last plain line in view.
LEMMA PutKeepsPath ==
  ASSUME RunnerTypeOK, NEW w \in Writes, Put(w), UNCHANGED path, PathOf(outPipe)
  PROVE  PathOf(outPipe)'
  <1>0. outPipe \in Seq(OutLines)
    BY DEF RunnerTypeOK
  <1>1. CASE w.to = "out" /\ w.line \in Plain
    <2>1. outPipe' = Append(outPipe, w.line) /\ printed' = w.line
      BY <1>1 DEF Put
    <2>2. LastPlain(Append(outPipe, w.line), w.line)
      BY <1>0, <1>1, PutPlain
    <2> QED
      BY <2>1, <2>2 DEF PathOf, LastPlain
  <1>2. CASE w.to = "out" /\ w.line \notin Plain
    <2>1. outPipe' = Append(outPipe, w.line) /\ printed' = printed
      BY <1>2 DEF Put
    <2>2. w.line \in OutLines
      BY <1>2, LinesAre
    <2>3. /\ NoPlain(outPipe) => NoPlain(Append(outPipe, w.line))
          /\ LastPlain(outPipe, printed)
                => LastPlain(Append(outPipe, w.line), printed)
      BY <1>0, <1>2, <2>2, PutOther
    <2> QED
      BY <2>1, <2>3 DEF PathOf, NoPlain, LastPlain
  <1>3. CASE w.to # "out"
    BY <1>3 DEF Put, PathOf, NoPlain, LastPlain
  <1> QED
    BY <1>1, <1>2, <1>3

LEMMA PathStep ==
  ASSUME RunnerTypeOK, CallInv, PathInv, [RunnerNext]_runnerVars
  PROVE  PathInv'
  <1> DEFINE Live == {"reading", "percent", "line", "ended"}
  <1>0. Quiet("running") \notin {Quiet("good"), Quiet("bad")}
        /\ \A w \in Writes : w \notin {Quiet("good"), Quiet("bad")}
    BY DEF Quiet, Writes, OutLines, ErrLines, Plain
  <1>1. CASE WriteLine
    <2>1. PICK w \in Writes : \/ Room(w) /\ Put(w)
                              \/ UNCHANGED <<outPipe, errPipe, printed>>
      BY <1>1 DEF WriteLine
    <2>2. reader' = reader /\ path' = path /\ ~Exited
      BY <1>0, <1>1 DEF WriteLine, Exited
    <2>3. reader # "ended"
      BY <2>2 DEF PathInv
    <2>4. reader \in Live => PathOf(outPipe)'
      <3>1. CASE Put(w)
        BY <2>2, <3>1, PutKeepsPath DEF PathInv
      <3>2. CASE UNCHANGED <<outPipe, errPipe, printed>>
        BY <2>2, <3>2 DEF PathInv, PathOf, NoPlain, LastPlain
      <3> QED
        BY <2>1, <3>1, <3>2
    <2> QED
      BY <2>2, <2>3, <2>4 DEF PathInv
  <1>2. CASE Resume
    <2>1. child \in Writes /\ Put(child) /\ reader' = reader /\ path' = path
      BY <1>2 DEF Resume
    <2>2. reader # "ended"
      BY <1>0, <2>1 DEF PathInv, Exited
    <2>3. reader \in Live => PathOf(outPipe)'
      BY <2>1, PutKeepsPath DEF PathInv
    <2> QED
      BY <2>1, <2>2, <2>3 DEF PathInv
  <1>3. CASE Exit
    <2>1. Exited'
      BY <1>3 DEF Exit, Exited
    <2> QED
      BY <1>3, <2>1 DEF Exit, PathInv, PathOf, NoPlain, LastPlain
  <1>4. CASE ReadLine
    <2>1. /\ reader = "reading" /\ outPipe # <<>> /\ printed' = printed
          /\ outPipe' = Tail(outPipe) /\ reader' # "ended"
          /\ path' = IF Head(outPipe) \in Plain THEN Head(outPipe) ELSE path
      BY <1>4 DEF ReadLine
    <2>2. outPipe \in Seq(OutLines)
      BY DEF RunnerTypeOK
    <2>3. /\ NoPlain(outPipe) => NoPlain(Tail(outPipe)) /\ Head(outPipe) \notin Plain
          /\ LastPlain(outPipe, printed)
                => \/ NoPlain(Tail(outPipe)) /\ Head(outPipe) = printed
                        /\ printed \in Plain
                   \/ LastPlain(Tail(outPipe), printed)
      BY <2>1, <2>2, TakeLine
    <2>4. PathOf(outPipe)
      BY <2>1 DEF PathInv
    <2>5. (NoPlain(Tail(outPipe)) /\ path' = printed) \/ LastPlain(Tail(outPipe), printed)
      BY <2>1, <2>3, <2>4 DEF PathOf
    <2>6. PathOf(outPipe)'
      BY <2>1, <2>5 DEF PathOf, NoPlain, LastPlain
    <2> QED
      BY <2>1, <2>6 DEF PathInv
  <1>5. CASE ReadEnd
    <2>1. Exited'
      BY <1>5 DEF ReadEnd, Exited
    <2> QED
      BY <1>5, <2>1 DEF ReadEnd, PathInv, PathOf, NoPlain, LastPlain
  <1>6. CASE CallbackReturns
    BY <1>6 DEF CallbackReturns, Calls, PathInv, PathOf, NoPlain, LastPlain
  <1>7. CASE DrainLine
    BY <1>7 DEF DrainLine, Exited, PathInv, PathOf, NoPlain, LastPlain
  <1>8. CASE DrainEnd
    BY <1>8 DEF DrainEnd, Exited, PathInv, PathOf, NoPlain, LastPlain
  <1>9. CASE AwaitDone
    BY <1>9 DEF AwaitDone, Exited, PathInv, PathOf, NoPlain, LastPlain
  <1>10. CASE Wait
    <2>1. /\ caller = "reaping" /\ outPipe' = <<>> /\ reader' = reader
          /\ path' = path /\ printed' = printed /\ child' = child /\ Exited
      BY <1>10 DEF Wait
    <2>2. reader \in {"none", "ended", "gave up"}
      BY <2>1 DEF CallInv
    <2>3. reader = "ended" => outPipe = <<>> /\ PathOf(outPipe)
      BY DEF PathInv
    <2>4. reader = "ended" => PathOf(outPipe)'
      BY <2>1, <2>3 DEF PathOf, NoPlain, LastPlain
    <2> QED
      BY <2>1, <2>2, <2>4 DEF PathInv, Exited
  <1>11. CASE Start
    <2>1. outPipe' = <<>> /\ path' = printed' /\ reader' = "reading"
      BY <1>11 DEF Start
    <2>2. NoPlain(outPipe')
      BY <2>1 DEF NoPlain
    <2> QED
      BY <2>1, <2>2 DEF PathInv, PathOf, NoPlain
  <1>12. CASE StartFails
    BY <1>12 DEF StartFails, Exited, PathInv, PathOf, NoPlain, LastPlain
  <1>13. CASE Discard
    BY <1>13 DEF Discard, PathInv
  <1>14. CASE UNCHANGED runnerVars
    BY <1>14 DEF runnerVars, Exited, PathInv, PathOf, NoPlain, LastPlain
  <1> QED
    BY <1>1, <1>2, <1>3, <1>4, <1>5, <1>6, <1>7, <1>8, <1>9, <1>10, <1>11,
       <1>12, <1>13, <1>14, NextCases

\* When DownloadPackage returns, what it takes for the path of the file is the
\* last plain line of all that yt-dlp printed.
THEOREM PathIsKept == RunnerSpec => []PathKept
  <1>1. RunnerInit => PathInv
    BY DEF RunnerInit, PathInv
  <1>2. PathInv => PathKept
    <2> SUFFICES ASSUME PathInv, caller = "returned", reader = "ended"
                 PROVE  path = printed
      BY DEF PathKept
    <2>1. outPipe = <<>> /\ PathOf(outPipe)
      BY DEF PathInv
    <2>2. ~LastPlain(<<>>, printed)
      BY DEF LastPlain
    <2> QED
      BY <2>1, <2>2 DEF PathOf
  <1>3. RunnerTypeOK /\ CallInv /\ PathInv /\ [RunnerNext]_runnerVars => PathInv'
    BY PathStep
  <1> QED
    BY <1>1, <1>2, <1>3, CallInvariant, PTL DEF RunnerSpec
=============================================================================

------------------------ MODULE EventStreamProofs ------------------------
(***************************************************************************)
(* Proofs about the event stream, for any number of writers, pages and     *)
(* handlers and channels of any capacity: types, no send on a closed       *)
(* channel, and that a page with an old table is told or has missed        *)
(* something.                                                              *)
(***************************************************************************)
EXTENDS EventStream, TLAPS

\* The steps, with their actors.
LEMMA NextCases ==
  ASSUME Next
  PROVE  \/ \E w \in Writers : \/ Change(w) \/ Lock(w) \/ Unlock(w)
                               \/ \E s \in Streams : Visit(w, s)
         \/ ChangeQuietly
         \/ \E s \in Streams : \/ Subscribe(s) \/ Forward(s) \/ Ends(s) \/ Stick(s)
                               \/ Unstick(s) \/ Unregister(s) \/ Close(s)
         \/ \E p \in Pages : \/ OnError(p) \/ TimerRunsOut(p) \/ Refresh(p)
                             \/ Select(p) \/ Refused(p) \/ Show(p)
                             \/ \E s \in Streams : Connect(p, s)
  BY DEF Next, Publishing, Serving, Listening

Handlers == {"begun", "serving", "stuck", "leaving", "left", "closed"}

LEMMA TypedPublish ==
  ASSUME TypeOK, NEW w \in Writers,
         Change(w) \/ Lock(w) \/ Unlock(w) \/ \E s \in Streams : Visit(w, s)
  PROVE  TypeOK'
  <1> USE DEF TypeOK
  <1>1. CASE Change(w)
    BY <1>1 DEF Change, TableChanges, serveVars
  <1>2. CASE Lock(w)
    BY <1>2 DEF Lock, serveVars, MissedBy, Subs
  <1>3. CASE Unlock(w)
    BY <1>3 DEF Unlock, serveVars, pageVars
  <1>4. ASSUME NEW s \in Streams, Visit(w, s) PROVE TypeOK'
    <2>1. ChanCap \in Nat
      BY ChanAssumption
    <2>2. pending' \in [Streams -> 0..ChanCap]
      BY <1>4, <2>1 DEF Visit, Send
    <2> QED
      BY <1>4, <2>2 DEF Visit, pageVars
  <1> QED
    BY <1>1, <1>2, <1>3, <1>4

LEMMA TypedServe ==
  ASSUME TypeOK, NEW s \in Streams,
         \/ Subscribe(s) \/ Forward(s) \/ Ends(s) \/ Stick(s) \/ Unstick(s)
         \/ Unregister(s) \/ Close(s)
  PROVE  TypeOK'
  <1> USE DEF TypeOK, Goto
  <1>1. CASE Subscribe(s)
    BY <1>1 DEF Subscribe, publishVars, pageVars
  <1>2. CASE Forward(s)
    <2>1. ChanCap \in Nat
      BY ChanAssumption
    <2>2. pending' \in [Streams -> 0..ChanCap]
      BY <1>2, <2>1 DEF Forward
    <2>3. timer' \in [Pages -> {"off", "running", "due"}]
      BY <1>2 DEF Forward
    <2> QED
      BY <1>2, <2>2, <2>3 DEF Forward, publishVars
  <1>3. CASE Ends(s)
    BY <1>3 DEF Ends, publishVars, MissedBy
  <1>4. CASE Stick(s)
    BY <1>4 DEF Stick, publishVars, MissedBy
  <1>5. CASE Unstick(s)
    BY <1>5 DEF Unstick, publishVars, pageVars
  <1>6. CASE Unregister(s)
    BY <1>6 DEF Unregister, publishVars, pageVars
  <1>7. CASE Close(s)
    BY <1>7 DEF Close, publishVars, pageVars
  <1> QED
    BY <1>1, <1>2, <1>3, <1>4, <1>5, <1>6, <1>7

LEMMA TypedListen ==
  ASSUME TypeOK, NEW p \in Pages,
         \/ OnError(p) \/ TimerRunsOut(p) \/ Refresh(p) \/ Select(p)
         \/ Refused(p) \/ Show(p) \/ \E s \in Streams : Connect(p, s)
  PROVE  TypeOK'
  <1>0. 0 \in 0..ChanCap
    BY ChanAssumption
  <1> USE DEF TypeOK
  <1>1. CASE OnError(p)
    BY <1>1 DEF OnError, publishVars, serveVars, MissedBy
  <1>2. CASE TimerRunsOut(p)
    BY <1>2 DEF TimerRunsOut, publishVars, serveVars
  <1>3. CASE Refresh(p)
    <2>1. again' \in [Pages -> BOOLEAN]
      BY <1>3 DEF Refresh
    <2> QED
      BY <1>3, <2>1 DEF Refresh, publishVars, serveVars
  <1>4. CASE Select(p)
    BY <1>4 DEF Select, publishVars, serveVars
  <1>5. CASE Refused(p)
    BY <1>5 DEF Refused, NextFetch, MissedBy, publishVars, serveVars
  <1>6. CASE Show(p)
    <2>1. stale' \in [Pages -> BOOLEAN] /\ missed' \in [Pages -> BOOLEAN]
      BY <1>6 DEF Show
    <2> QED
      BY <1>6, <2>1 DEF Show, NextFetch, publishVars, serveVars
  <1>7. ASSUME NEW s \in Streams, Connect(p, s) PROVE TypeOK'
    BY <1>0, <1>7 DEF Connect, publishVars
  <1> QED
    BY <1>1, <1>2, <1>3, <1>4, <1>5, <1>6, <1>7

LEMMA TypedStep ==
  ASSUME TypeOK, [Next]_vars
  PROVE  TypeOK'
  <1>1. CASE UNCHANGED vars
    BY <1>1 DEF vars, TypeOK
  <1>2. CASE ChangeQuietly
    BY <1>2 DEF ChangeQuietly, TableChanges, publishVars, serveVars, TypeOK
  <1> QED
    BY <1>1, <1>2, NextCases, TypedPublish, TypedServe, TypedListen

\* The channels hold no more than their capacity, and the handlers and the
\* pages are where the code can be.
THEOREM TypeCorrect == Spec => []TypeOK
  <1>1. Init => TypeOK
    <2>1. 0 \in 0..ChanCap
      BY ChanAssumption
    <2>2. (CHOOSE p \in Pages : TRUE) \in Pages
      BY PagesAssumption
    <2> QED
      BY <2>1, <2>2 DEF Init, TypeOK
  <1> QED
    BY <1>1, TypedStep, PTL DEF Spec
-----------------------------------------------------------------------------
(***************************************************************************)
(* The lock.                                                               *)
(***************************************************************************)
\* Whoever holds b.mu visits registered channels, and nobody else does.
LockInv ==
    /\ todo \subseteq Subs
    /\ Unlocked => todo = {}

LEMMA LockStep ==
  ASSUME TypeOK, LockInv, [Next]_vars
  PROVE  LockInv'
  <1> USE DEF LockInv, Subs, Unlocked, Goto
  <1>0. /\ pub \in [Writers -> {"none", "wrote", "holds"}]
        /\ handler \in [Streams -> Handlers]
    BY DEF TypeOK, Handlers
  <1>1. ASSUME NEW w \in Writers, Change(w) PROVE LockInv'
    BY <1>0, <1>1 DEF Change, serveVars
  <1>2. ASSUME NEW w \in Writers, Lock(w) PROVE LockInv'
    <2>1. pub'[w] = "holds" /\ todo' = Subs /\ handler' = handler
      BY <1>0, <1>2 DEF Lock, serveVars
    <2> QED
      BY <2>1
  <1>3. ASSUME NEW w \in Writers, Unlock(w) PROVE LockInv'
    <2>1. todo' = {}
      BY <1>3 DEF Unlock
    <2> QED
      BY <2>1
  <1>4. ASSUME NEW w \in Writers, NEW s \in Streams, Visit(w, s) PROVE LockInv'
    <2>1. pub'[w] = "holds" /\ todo' = todo \ {s} /\ handler' = handler
      BY <1>4 DEF Visit
    <2> QED
      BY <2>1
  <1>5. CASE ChangeQuietly
    BY <1>5 DEF ChangeQuietly, publishVars, serveVars
  <1>6. ASSUME NEW s \in Streams,
               Subscribe(s) \/ Unregister(s)
        PROVE  LockInv'
    <2>1. todo = {} /\ todo' = todo
      BY <1>6 DEF Subscribe, Unregister, publishVars
    <2> QED
      BY <2>1
  <1>7. ASSUME NEW s \in Streams, Forward(s) PROVE LockInv'
    BY <1>7 DEF Forward, publishVars
  <1>8. ASSUME NEW s \in Streams, Ends(s) \/ Stick(s) \/ Unstick(s)
        PROVE  LockInv'
    <2>1. /\ pub' = pub /\ todo' = todo
          /\ handler[s] \in {"serving", "stuck"}
          /\ \E h \in {"stuck", "leaving"} : handler' = [handler EXCEPT ![s] = h]
      BY <1>8 DEF Ends, Stick, Unstick, publishVars
    <2>2. Subs' = Subs
      BY <1>0, <2>1
    <2> QED
      BY <2>1, <2>2
  <1>9. ASSUME NEW s \in Streams, Close(s) PROVE LockInv'
    <2>1. /\ pub' = pub /\ todo' = todo /\ handler[s] = "left"
          /\ handler' = [handler EXCEPT ![s] = "closed"]
      BY <1>9 DEF Close, publishVars
    <2>2. Subs' = Subs
      BY <1>0, <2>1
    <2> QED
      BY <2>1, <2>2
  <1>10. ASSUME NEW p \in Pages,
                \/ OnError(p) \/ TimerRunsOut(p) \/ Refresh(p) \/ Select(p)
                \/ Refused(p) \/ Show(p)
         PROVE  LockInv'
    BY <1>10 DEF OnError, TimerRunsOut, Refresh, Select, Refused, Show,
                 publishVars, serveVars
  <1>11. ASSUME NEW p \in Pages, NEW s \in Streams, Connect(p, s)
         PROVE  LockInv'
    <2>1. /\ pub' = pub /\ todo' = todo /\ handler[s] = "closed"
          /\ handler' = [handler EXCEPT ![s] = "begun"]
      BY <1>11 DEF Connect, publishVars
    <2>2. Subs' = Subs
      BY <1>0, <2>1
    <2> QED
      BY <2>1, <2>2
  <1>12. CASE UNCHANGED vars
    BY <1>12 DEF vars
  <1> QED
    BY <1>1, <1>2, <1>3, <1>4, <1>5, <1>6, <1>7, <1>8, <1>9, <1>10, <1>11,
       <1>12, NextCases

LEMMA LockInvariant == Spec => [](TypeOK /\ LockInv)
  <1>1. Init => LockInv
    BY DEF Init, LockInv
  <1>2. TypeOK /\ LockInv /\ [Next]_vars => LockInv'
    BY LockStep
  <1> QED
    BY <1>1, <1>2, TypeCorrect, PTL DEF Spec

\* Publish never sends on a channel that unsubscribe has closed.
THEOREM SendsOnOpenChannels == Spec => []NoSendOnClosed
  <1>1. LockInv => NoSendOnClosed
    BY DEF LockInv, Subs, NoSendOnClosed
  <1> QED
    BY <1>1, LockInvariant, PTL
-----------------------------------------------------------------------------
(***************************************************************************)
(* Pages that show an old table.                                           *)
(***************************************************************************)
\* A handler is heard by the page that called it, and by no other.
LinkInv == \A p \in Pages : link[p] # "none" => client[link[p]] = p

\* An answer is out of date only when the page it is for is.
DatedInv == \A p \in Pages : fetch[p] = "dated" => stale[p]

LEMMA LinkStep ==
  ASSUME TypeOK, LinkInv, [Next]_vars
  PROVE  LinkInv'
  <1> USE DEF LinkInv
  <1>0. /\ link \in [Pages -> Streams \cup {"none"}]
        /\ client \in [Streams -> Pages]
    BY DEF TypeOK
  <1>1. ASSUME NEW p \in Pages, NEW s \in Streams, Connect(p, s)
        PROVE  LinkInv'
    <2>1. /\ \A q \in Pages : link[q] # s
          /\ link' = [link EXCEPT ![p] = s]
          /\ client' = [client EXCEPT ![s] = p]
      BY <1>1 DEF Connect
    <2> QED
      BY <1>0, <2>1
  <1>2. ASSUME NEW p \in Pages, OnError(p) PROVE LinkInv'
    <2>1. link' = [link EXCEPT ![p] = "none"] /\ client' = client
      BY <1>2 DEF OnError, serveVars
    <2> QED
      BY <1>0, <2>1
  <1>3. CASE UNCHANGED <<link, client>>
    BY <1>3
  <1>4. \/ \E p \in Pages : OnError(p) \/ \E s \in Streams : Connect(p, s)
        \/ UNCHANGED <<link, client>>
    BY NextCases
    DEF Change, ChangeQuietly, Lock, Unlock, Visit, Subscribe, Forward, Ends,
        Stick, Unstick, Unregister, Close, TimerRunsOut, Refresh, Select,
        Refused, Show, publishVars, serveVars, pageVars, vars
  <1> QED
    BY <1>1, <1>2, <1>3, <1>4

LEMMA DatedStep ==
  ASSUME TypeOK, DatedInv, [Next]_vars
  PROVE  DatedInv'
  <1> USE DEF DatedInv
  <1>0. /\ fetch \in [Pages -> {"none", "asked", "fresh", "dated"}]
        /\ stale \in [Pages -> BOOLEAN]
    BY DEF TypeOK
  <1>1. CASE TableChanges
    BY <1>1 DEF TableChanges
  <1>2. ASSUME NEW p \in Pages, Refresh(p) \/ Select(p) \/ Refused(p)
        PROVE  DatedInv'
    <2>1. /\ stale' = stale
          /\ \E f \in {"none", "asked", "fresh"} :
                \/ fetch' = [fetch EXCEPT ![p] = f]
                \/ fetch' = fetch
      <3>1. CASE Refresh(p)
        <4>1. stale' = stale
          BY <3>1 DEF Refresh
        <4>2. fetch' = [fetch EXCEPT ![p] = "asked"] \/ fetch' = fetch
          BY <1>0, <3>1 DEF Refresh
        <4> QED
          BY <4>1, <4>2
      <3>2. CASE Select(p)
        BY <3>2 DEF Select
      <3>3. CASE Refused(p)
        BY <3>3 DEF Refused, NextFetch
      <3> QED
        BY <1>2, <3>1, <3>2, <3>3
    <2> QED
      BY <1>0, <2>1
  <1>3. ASSUME NEW p \in Pages, Show(p) PROVE DatedInv'
    <2>1. \A q \in Pages : q # p => fetch'[q] = fetch[q] /\ stale'[q] = stale[q]
      BY <1>0, <1>3 DEF Show, NextFetch
    <2>2. fetch'[p] # "dated"
      BY <1>0, <1>3 DEF Show, NextFetch
    <2> QED
      BY <2>1, <2>2
  <1>4. CASE UNCHANGED <<fetch, stale>>
    BY <1>4
  <1>5. \/ TableChanges
        \/ \E p \in Pages : Refresh(p) \/ Select(p) \/ Refused(p) \/ Show(p)
        \/ UNCHANGED <<fetch, stale>>
    BY NextCases
    DEF Change, ChangeQuietly, Lock, Unlock, Visit, Subscribe, Forward, Ends,
        Stick, Unstick, Unregister, Close, OnError, TimerRunsOut, Connect,
        publishVars, serveVars, pageVars, vars
  <1> QED
    BY <1>1, <1>2, <1>3, <1>4, <1>5

\* What StaleIsTold says of one page.
Told(p) ==
    \/ \E w \in Writers : pub[w] = "wrote"
    \/ Coming(p)
    \/ timer[p] # "off"
    \/ fetch[p] \in {"asked", "fresh"}
    \/ again[p]

LEMMA StaleIsToldOf ==
  StaleIsTold <=> \A p \in Pages : stale[p] /\ ~missed[p] => Told(p)
  BY DEF StaleIsTold, Told

\* MissedBy remembers for ever, and remembers the pages it is about.
LEMMA MissedOnes ==
  ASSUME TypeOK, NEW P, MissedBy(P), NEW p \in Pages, ~missed'[p]
  PROVE  ~missed[p] /\ (p \in P => ~stale[p])
  BY DEF MissedBy, TypeOK

\* The writer has written, and its event is still to be published.
LEMMA ToldPublish ==
  ASSUME TypeOK, StaleIsTold, NEW w \in Writers,
         Change(w) \/ Lock(w) \/ Unlock(w) \/ \E s \in Streams : Visit(w, s),
         NEW p \in Pages, stale'[p], ~missed'[p]
  PROVE  Told(p)'
  <1>0. /\ pub \in [Writers -> {"none", "wrote", "holds"}]
        /\ pending \in [Streams -> 0..ChanCap]
        /\ link \in [Pages -> Streams \cup {"none"}]
        /\ stale[p] /\ ~missed[p] => Told(p)
    BY StaleIsToldOf DEF TypeOK
  <1>1. CASE Change(w)
    <2>1. pub'[w] = "wrote"
      BY <1>0, <1>1 DEF Change
    <2> QED
      BY <2>1 DEF Told
  <1>2. CASE Lock(w)
    <2>1. /\ MissedBy({q \in Pages : ~Hears(q)}) /\ stale' = stale
          /\ todo' = Subs /\ UNCHANGED <<handler, link>>
      BY <1>2 DEF Lock, serveVars
    <2>2. Hears(p)
      BY <2>1, MissedOnes
    <2>3. link[p] \in Subs
      BY <1>0, <2>2 DEF Hears, Subs
    <2>4. Coming(p)'
      BY <2>1, <2>2, <2>3 DEF Coming, Hears
    <2> QED
      BY <2>4 DEF Told
  <1>3. CASE Unlock(w)
    <2>1. /\ pub[w] = "holds" /\ pub' = [pub EXCEPT ![w] = "none"]
          /\ UNCHANGED <<todo, handler, pending, link, timer, fetch, again, stale,
                         missed>>
      BY <1>3 DEF Unlock, serveVars, pageVars
    <2>2. Told(p)
      BY <1>0, <2>1
    <2> QED
      BY <1>0, <2>1, <2>2 DEF Told, Coming, Hears
  <1>4. ASSUME NEW s \in Streams, Visit(w, s) PROVE Told(p)'
    <2>1. /\ todo' = todo \ {s}
          /\ UNCHANGED <<pub, handler, link, timer, fetch, again, stale, missed>>
      BY <1>4 DEF Visit, pageVars
    <2>2. Told(p)
      BY <1>0, <2>1
    <2>3. /\ \A t \in Streams : pending[t] > 0 => pending'[t] > 0
          /\ pending'[s] > 0
      <3>1. ChanCap \in Nat /\ ChanCap > 0
        BY ChanAssumption
      <3>2. pending' = [pending EXCEPT ![s] = IF pending[s] < ChanCap
                                              THEN pending[s] + 1 ELSE pending[s]]
        BY <1>4 DEF Visit, Send
      <3>3. \A t \in Streams : pending[t] \in 0..ChanCap
        BY <1>0
      <3> QED
        BY <1>0, <3>1, <3>2, <3>3
    <2>4. Coming(p) => Coming(p)'
      <3>1. Hears(p) => link[p] \in Streams
        BY <1>0 DEF Hears
      <3> QED
        BY <2>1, <2>3, <3>1 DEF Coming, Hears
    <2> QED
      BY <2>1, <2>2, <2>4 DEF Told
  <1> QED
    BY <1>1, <1>2, <1>3, <1>4

\* Only the end of its handler, and a client that sticks, take an event that
\* was on its way from a page; it has missed a change then.
LEMMA ToldServe ==
  ASSUME TypeOK, LinkInv, StaleIsTold, NEW s \in Streams,
         \/ Subscribe(s) \/ Forward(s) \/ Ends(s) \/ Stick(s) \/ Unstick(s)
         \/ Unregister(s) \/ Close(s),
         NEW p \in Pages, stale'[p], ~missed'[p]
  PROVE  Told(p)'
  <1>0. /\ handler \in [Streams -> Handlers]
        /\ pending \in [Streams -> 0..ChanCap]
        /\ link \in [Pages -> Streams \cup {"none"}]
        /\ timer \in [Pages -> {"off", "running", "due"}]
        /\ stale[p] /\ ~missed[p] => Told(p)
    BY StaleIsToldOf DEF TypeOK, Handlers
  <1>1. CASE Forward(s)
    <2>1. /\ handler[s] = "serving"
          /\ pending' = [pending EXCEPT ![s] = @ - 1]
          /\ timer' = [timer EXCEPT ![client[s]] = IF link[client[s]] = s
                                                   THEN "running" ELSE @]
          /\ UNCHANGED <<pub, todo, handler, link, fetch, again, stale, missed>>
      BY <1>1 DEF Forward, publishVars
    <2>2. Told(p)
      BY <1>0, <2>1
    <2>3. CASE link[p] = s
      <3>1. client[s] = p
        BY <2>3, StreamsAssumption DEF LinkInv
      <3>2. timer'[p] = "running"
        BY <1>0, <2>1, <2>3, <3>1
      <3> QED
        BY <3>2 DEF Told
    <2>4. CASE link[p] # s
      <3>1. Coming(p) => Coming(p)'
        BY <1>0, <2>1, <2>4 DEF Coming, Hears
      <3>2. timer[p] # "off" => timer'[p] # "off"
        BY <1>0, <2>1
      <3> QED
        BY <2>1, <2>2, <3>1, <3>2 DEF Told
    <2> QED
      BY <2>3, <2>4
  <1>2. CASE Ends(s) \/ Stick(s)
    <2>1. /\ MissedBy({q \in Pages : link[q] = s /\ Coming(q)})
          /\ \E h \in {"leaving", "stuck"} : handler' = [handler EXCEPT ![s] = h]
          /\ UNCHANGED <<pub, todo, pending, link, timer, fetch, again, stale>>
      BY <1>2 DEF Ends, Stick, Goto, publishVars
    <2>2. ~missed[p] /\ ~(link[p] = s /\ Coming(p))
      BY <2>1, MissedOnes
    <2>3. Told(p)
      BY <1>0, <2>1, <2>2
    <2>4. Coming(p) => Coming(p)'
      BY <1>0, <2>1, <2>2 DEF Coming, Hears
    <2> QED
      BY <2>1, <2>3, <2>4 DEF Told
  <1>3. CASE Subscribe(s) \/ Unstick(s) \/ Unregister(s) \/ Close(s)
    <2>1. /\ handler[s] # "serving"
          /\ \E h \in Handlers : handler' = [handler EXCEPT ![s] = h]
          /\ UNCHANGED <<pub, todo, pending, link, timer, fetch, again, stale,
                         missed>>
      BY <1>3 DEF Subscribe, Unstick, Unregister, Close, Goto, publishVars,
                  pageVars, Handlers
    <2>2. Told(p)
      BY <1>0, <2>1
    <2>3. Coming(p) => Coming(p)'
      BY <1>0, <2>1 DEF Coming, Hears
    <2> QED
      BY <2>1, <2>2, <2>3 DEF Told
  <1> QED
    BY <1>1, <1>2, <1>3

\* The page connects, or loses its connection.
LEMMA ToldConnect ==
  ASSUME TypeOK, StaleIsTold, NEW p \in Pages, stale'[p], ~missed'[p],
         NEW q \in Pages, OnError(q) \/ \E s \in Streams : Connect(q, s)
  PROVE  Told(p)'
  <1>0. /\ link \in [Pages -> Streams \cup {"none"}]
        /\ handler \in [Streams -> Handlers]
        /\ pending \in [Streams -> 0..ChanCap]
        /\ stale[p] /\ ~missed[p] => Told(p)
    BY StaleIsToldOf DEF TypeOK, Handlers
  <1>1. CASE OnError(q)
    <2>1. /\ link' = [link EXCEPT ![q] = "none"]
          /\ MissedBy(IF Coming(q) THEN {q} ELSE {})
          /\ UNCHANGED <<pub, todo, handler, pending, timer, fetch, again, stale>>
      BY <1>1 DEF OnError, publishVars, serveVars
    <2>2. ~missed[p] /\ ~(p = q /\ Coming(p))
      BY <2>1, MissedOnes
    <2>3. Told(p)
      BY <1>0, <2>1, <2>2
    <2>4. Coming(p) => Coming(p)'
      BY <1>0, <2>1, <2>2 DEF Coming, Hears
    <2> QED
      BY <2>1, <2>3, <2>4 DEF Told
  <1>2. ASSUME NEW s \in Streams, Connect(q, s) PROVE Told(p)'
    <2>1. /\ link[q] = "none" /\ (\A r \in Pages : link[r] # s)
          /\ link' = [link EXCEPT ![q] = s]
          /\ handler' = [handler EXCEPT ![s] = "begun"]
          /\ pending' = [pending EXCEPT ![s] = 0]
          /\ UNCHANGED <<pub, todo, timer, fetch, again, stale, missed>>
      BY <1>2 DEF Connect, publishVars
    <2>2. Told(p)
      BY <1>0, <2>1
    <2>3. Coming(p) => Coming(p)'
      <3>1. Coming(p) => p # q /\ link[p] \in Streams
        BY <1>0, <2>1 DEF Coming, Hears
      <3> QED
        BY <1>0, <2>1, <3>1 DEF Coming, Hears
    <2> QED
      BY <2>1, <2>2, <2>3 DEF Told
  <1> QED
    BY <1>1, <1>2

\* The page's timer runs out and it asks, once more if it is asking already.
LEMMA ToldAsk ==
  ASSUME TypeOK, StaleIsTold, NEW p \in Pages, stale'[p], ~missed'[p],
         NEW q \in Pages, TimerRunsOut(q) \/ Refresh(q) \/ Select(q)
  PROVE  Told(p)'
  <1>0. /\ timer \in [Pages -> {"off", "running", "due"}]
        /\ fetch \in [Pages -> {"none", "asked", "fresh", "dated"}]
        /\ again \in [Pages -> BOOLEAN]
        /\ stale[p] /\ ~missed[p] => Told(p)
    BY StaleIsToldOf DEF TypeOK
  <1>1. UNCHANGED <<pub, todo, handler, pending, link, stale, missed>>
    BY DEF TimerRunsOut, Refresh, Select, publishVars, serveVars
  <1>2. Told(p) /\ (Coming(p) => Coming(p)')
    BY <1>0, <1>1 DEF Coming, Hears
  <1>3. CASE TimerRunsOut(q)
    <2>1. timer[p] # "off" => timer'[p] # "off"
      BY <1>0, <1>3 DEF TimerRunsOut
    <2> QED
      BY <1>1, <1>2, <1>3, <2>1 DEF Told, TimerRunsOut
  <1>4. CASE Refresh(q)
    <2>1. CASE p = q
      <3>1. fetch'[p] \in {"asked", "fresh"} \/ (fetch[p] # "none" /\ again'[p])
        BY <1>0, <1>4, <2>1 DEF Refresh
      <3> QED
        BY <3>1 DEF Told
    <2>2. CASE p # q
      <3>1. /\ timer'[p] = timer[p] /\ fetch'[p] = fetch[p]
            /\ again'[p] = again[p]
        BY <1>0, <1>4, <2>2 DEF Refresh
      <3> QED
        BY <1>1, <1>2, <3>1 DEF Told
    <2> QED
      BY <2>1, <2>2
  <1>5. CASE Select(q)
    <2>1. fetch[p] \in {"asked", "fresh"} => fetch'[p] \in {"asked", "fresh"}
      BY <1>0, <1>5 DEF Select
    <2> QED
      BY <1>1, <1>2, <1>5, <2>1 DEF Told, Select
  <1> QED
    BY <1>3, <1>4, <1>5

\* The page is answered: an answer that is out of date leaves it as it is, and
\* only a request that waits, or an event still to come, can help it.
LEMMA ToldAnswer ==
  ASSUME TypeOK, DatedInv, StaleIsTold, NEW p \in Pages, stale'[p], ~missed'[p],
         NEW q \in Pages, Refused(q) \/ Show(q)
  PROVE  Told(p)'
  <1>0. /\ fetch \in [Pages -> {"none", "asked", "fresh", "dated"}]
        /\ again \in [Pages -> BOOLEAN]
        /\ stale \in [Pages -> BOOLEAN] /\ missed \in [Pages -> BOOLEAN]
        /\ stale[p] /\ ~missed[p] => Told(p)
    BY StaleIsToldOf DEF TypeOK
  <1>1. UNCHANGED <<pub, todo, handler, pending, link, timer>>
    BY DEF Refused, Show, publishVars, serveVars
  <1>2. Coming(p) => Coming(p)'
    BY <1>1 DEF Coming, Hears
  <1>3. p # q => fetch'[p] = fetch[p] /\ again'[p] = again[p]
    BY <1>0 DEF Refused, Show, NextFetch
  <1>4. p = q => (again[p] => fetch'[p] = "asked")
    BY <1>0 DEF Refused, Show, NextFetch
  <1>5. CASE Refused(q)
    <2>1. /\ stale' = stale /\ fetch[q] = "asked"
          /\ MissedBy(IF again[q] THEN {} ELSE {q})
      BY <1>5 DEF Refused
    <2>2. ~missed[p] /\ ~(p = q /\ ~again[q])
      BY <2>1, MissedOnes
    <2>3. Told(p)
      BY <1>0, <2>1, <2>2
    <2> QED
      BY <1>1, <1>2, <1>3, <1>4, <2>2, <2>3 DEF Told
  <1>6. CASE Show(q)
    <2>1. p # q => stale'[p] = stale[p] /\ missed'[p] = missed[p]
      BY <1>0, <1>6 DEF Show
    <2>2. p = q => fetch[p] = "dated" /\ stale[p] /\ ~missed[p]
      BY <1>0, <1>6 DEF Show, DatedInv
    <2>3. Told(p)
      BY <1>0, <2>1, <2>2
    <2> QED
      BY <1>1, <1>2, <1>3, <1>4, <2>2, <2>3 DEF Told
  <1> QED
    BY <1>5, <1>6

LEMMA ToldStep ==
  ASSUME TypeOK, LinkInv, DatedInv, StaleIsTold, [Next]_vars
  PROVE  StaleIsTold'
  <1>1. CASE UNCHANGED vars
    BY <1>1 DEF vars, StaleIsTold, Coming, Hears
  <1>2. CASE ChangeQuietly
    <2>1. \A p \in Pages : missed'[p]
      BY <1>2 DEF ChangeQuietly
    <2> QED
      BY <2>1 DEF StaleIsTold
  <1>3. ASSUME Next, ~ChangeQuietly, NEW p \in Pages, stale'[p], ~missed'[p]
        PROVE  Told(p)'
    BY <1>3, NextCases, ToldPublish, ToldServe, ToldConnect, ToldAsk, ToldAnswer
  <1>4. (\A p \in Pages : stale'[p] /\ ~missed'[p] => Told(p)') => StaleIsTold'
    BY DEF StaleIsTold, Told
  <1> QED
    BY <1>1, <1>2, <1>3, <1>4

\* A page that shows an old table is about to be told or about to ask, unless
\* it has missed a change: an event that a full channel loses is not needed.
THEOREM StalePagesAreTold == Spec => []StaleIsTold
  <1>1. Init => LinkInv /\ DatedInv /\ StaleIsTold
    BY DEF Init, LinkInv, DatedInv, StaleIsTold
  <1>2. TypeOK /\ LinkInv /\ DatedInv /\ StaleIsTold /\ [Next]_vars
            => LinkInv' /\ DatedInv' /\ StaleIsTold'
    BY LinkStep, DatedStep, ToldStep
  <1> QED
    BY <1>1, <1>2, TypeCorrect, PTL DEF Spec
=============================================================================

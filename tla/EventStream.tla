---------------------------- MODULE EventStream ----------------------------
(***************************************************************************)
(* The event stream: Broadcaster (internal/jobs/sse.go) with the goroutines *)
(* that publish through it and the handlers that serve GET /events, and    *)
(* the page that listens (web/static/app.js).                              *)
(*                                                                         *)
(* The page ignores what an event says: it reads the table again.  Events  *)
(* are therefore only counted, and a copy of the table is either what the  *)
(* table says (fresh) or not (stale, dated).  The page's two lists make    *)
(* the same request; one of them is modelled.                              *)
(***************************************************************************)
EXTENDS Naturals, FiniteSets

CONSTANTS
    Writers,   \* goroutines that change the state of downloads
    Pages,     \* browser pages
    Streams,   \* handlers of GET /events, each with its channel
    ChanCap    \* capacity of a subscriber's channel; 16 in the code

ASSUME StreamsAssumption == "none" \notin Streams
ASSUME ChanAssumption    == ChanCap \in Nat \ {0}
ASSUME PagesAssumption   == Pages # {}

VARIABLES
    pub,       \* per writer: no event, an event to publish, or it holds b.mu
    todo,      \* subscribers that the holder of b.mu has yet to visit
    handler,   \* where each handler of GET /events is
    client,    \* the page a handler was called by
    pending,   \* events in a subscriber's channel
    link,      \* the handler behind a page's EventSource, or "none"
    timer,     \* window.__vdRefreshTimer
    fetch,     \* the page's request for the table
    again,     \* htmx keeps the last trigger that came during a request
    stale,     \* the page does not show what the table says
    missed     \* history: a change since the last fresh answer whose event, or
               \* whose answer, could not reach the page

publishVars == <<pub, todo>>
serveVars   == <<handler, client, pending>>
pageVars    == <<link, timer, fetch, again, stale, missed>>
vars        == <<pub, todo, handler, client, pending, link, timer, fetch, again,
                 stale, missed>>

\* Registered channels: those in Broadcaster.subs.
Subs   == {s \in Streams : handler[s] \in {"serving", "stuck", "leaving"}}
Unlocked == \A w \in Writers : pub[w] # "holds"

\* An event published now reaches page p.
Hears(p) == link[p] # "none" /\ handler[link[p]] = "serving"

\* An event is on its way to page p through its present connection.
Coming(p) == Hears(p) /\ (pending[link[p]] > 0 \/ link[p] \in todo)

\* A page stale when its connection is lost with an event on the way, or
\* when an event is published that it does not hear, has missed a change.
MissedBy(P) == missed' = [p \in Pages |-> missed[p] \/ (p \in P /\ stale[p])]

TypeOK ==
    /\ pub \in [Writers -> {"none", "wrote", "holds"}]
    /\ todo \in SUBSET Streams
    /\ handler \in [Streams -> {"begun", "serving", "stuck", "leaving", "left",
                                "closed"}]
    /\ client \in [Streams -> Pages]
    /\ pending \in [Streams -> 0..ChanCap]
    /\ link \in [Pages -> Streams \cup {"none"}]
    /\ timer \in [Pages -> {"off", "running", "due"}]
    /\ fetch \in [Pages -> {"none", "asked", "fresh", "dated"}]
    /\ again \in [Pages -> BOOLEAN]
    /\ stale \in [Pages -> BOOLEAN]
    /\ missed \in [Pages -> BOOLEAN]

\* Pages have just been loaded: hx-trigger="load" asks for the table.
Init ==
    /\ pub = [w \in Writers |-> "none"] /\ todo = {}
    /\ handler = [s \in Streams |-> "closed"]
    /\ client = [s \in Streams |-> CHOOSE p \in Pages : TRUE]
    /\ pending = [s \in Streams |-> 0]
    /\ link = [p \in Pages |-> "none"]
    /\ timer = [p \in Pages |-> "off"]
    /\ fetch = [p \in Pages |-> "asked"]
    /\ again = [p \in Pages |-> FALSE]
    /\ stale = [p \in Pages |-> TRUE]
    /\ missed = [p \in Pages |-> FALSE]
-----------------------------------------------------------------------------
(***************************************************************************)
(* Publish, under b.mu.                                                    *)
(***************************************************************************)
Lock(w) ==
    /\ pub[w] = "wrote"
    /\ Unlocked
    /\ pub' = [pub EXCEPT ![w] = "holds"]
    /\ todo' = Subs
    /\ MissedBy({p \in Pages : ~Hears(p)})
    /\ UNCHANGED <<serveVars, link, timer, fetch, again, stale>>

\* Mutant: the send never finds the channel full.
SendUncounted(s) == pending' = [pending EXCEPT ![s] = @ + 1]

\* Mutant: the send waits for a free slot, as it would without the default.
SendBlocking(s) ==
    /\ pending[s] < ChanCap
    /\ pending' = [pending EXCEPT ![s] = @ + 1]

\* The send never waits: the event is dropped when the channel is full.
Send(s) == pending' = [pending EXCEPT ![s] = IF @ < ChanCap THEN @ + 1 ELSE @]

Visit(w, s) ==
    /\ pub[w] = "holds"
    /\ s \in todo
    /\ todo' = todo \ {s}
    /\ Send(s)
    /\ UNCHANGED <<pub, handler, client, pageVars>>

Unlock(w) ==
    /\ pub[w] = "holds"
    /\ todo = {}
    /\ pub' = [pub EXCEPT ![w] = "none"]
    /\ UNCHANGED <<todo, serveVars, pageVars>>
-----------------------------------------------------------------------------
(***************************************************************************)
(* ServeHTTP.                                                              *)
(***************************************************************************)
Goto(s, from, to) ==
    /\ handler[s] = from
    /\ handler' = [handler EXCEPT ![s] = to]

Subscribe(s) ==
    /\ Unlocked
    /\ Goto(s, "begun", "serving")
    /\ UNCHANGED <<publishVars, client, pending, pageVars>>

\* Mutant: an event that comes while the timer runs only clears it.
ForwardClearing(s) ==
    /\ handler[s] = "serving"
    /\ pending[s] > 0
    /\ pending' = [pending EXCEPT ![s] = @ - 1]
    /\ timer' = [timer EXCEPT ![client[s]] =
                    IF link[client[s]] # s THEN @
                    ELSE IF @ = "off" THEN "running" ELSE "off"]
    /\ UNCHANGED <<publishVars, handler, client, link, fetch, again, stale,
                   missed>>

\* An event is taken from the channel, written and flushed.  The page restarts
\* its timer, if it still listens to this handler.
Forward(s) ==
    /\ handler[s] = "serving"
    /\ pending[s] > 0
    /\ pending' = [pending EXCEPT ![s] = @ - 1]
    /\ timer' = [timer EXCEPT ![client[s]] = IF link[client[s]] = s
                                             THEN "running" ELSE @]
    /\ UNCHANGED <<publishVars, handler, client, link, fetch, again, stale,
                   missed>>

\* ctx.Done: the client went away, or 120 seconds have passed.
Ends(s) ==
    /\ Goto(s, "serving", "leaving")
    /\ MissedBy({p \in Pages : link[p] = s /\ Coming(p)})
    /\ UNCHANGED <<publishVars, client, pending, link, timer, fetch, again,
                   stale>>

\* A client that does not read: the handler waits in Write.
Stick(s) ==
    /\ Goto(s, "serving", "stuck")
    /\ MissedBy({p \in Pages : link[p] = s /\ Coming(p)})
    /\ UNCHANGED <<publishVars, client, pending, link, timer, fetch, again,
                   stale>>

\* Its connection breaks in the end, perhaps.
Unstick(s) ==
    /\ Goto(s, "stuck", "leaving")
    /\ UNCHANGED <<publishVars, client, pending, pageVars>>

\* Mutant: the channel is closed without b.mu.
CloseEarly(s) ==
    /\ Goto(s, "leaving", "closed")
    /\ UNCHANGED <<publishVars, client, pending, pageVars>>

Unregister(s) ==
    /\ Unlocked
    /\ Goto(s, "leaving", "left")
    /\ UNCHANGED <<publishVars, client, pending, pageVars>>

Close(s) ==
    /\ Goto(s, "left", "closed")
    /\ UNCHANGED <<publishVars, client, pending, pageVars>>
-----------------------------------------------------------------------------
(***************************************************************************)
(* app.js.                                                                 *)
(***************************************************************************)
\* connect(): at first, and three seconds after an error.  The handler is new:
\* nobody else knows it.
Connect(p, s) ==
    /\ link[p] = "none"
    /\ handler[s] = "closed"
    /\ s \notin todo
    /\ \A q \in Pages : link[q] # s
    /\ link' = [link EXCEPT ![p] = s]
    /\ handler' = [handler EXCEPT ![s] = "begun"]
    /\ client' = [client EXCEPT ![s] = p]
    /\ pending' = [pending EXCEPT ![s] = 0]
    /\ UNCHANGED <<publishVars, timer, fetch, again, stale, missed>>

\* onerror: the stream ended, the network failed or the request was refused.
\* The page reconnects, and does not ask for the table.
OnError(p) ==
    /\ link[p] # "none"
    /\ link' = [link EXCEPT ![p] = "none"]
    /\ MissedBy(IF Coming(p) THEN {p} ELSE {})
    /\ UNCHANGED <<publishVars, serveVars, timer, fetch, again, stale>>

\* 250 milliseconds without an event.
TimerRunsOut(p) ==
    /\ timer[p] = "running"
    /\ timer' = [timer EXCEPT ![p] = "due"]
    /\ UNCHANGED <<publishVars, serveVars, link, fetch, again, stale, missed>>

\* Mutant: htmx drops a trigger that comes during a request.
RefreshUnqueued(p) ==
    /\ timer[p] = "due"
    /\ timer' = [timer EXCEPT ![p] = "off"]
    /\ fetch' = [fetch EXCEPT ![p] = IF @ = "none" THEN "asked" ELSE @]
    /\ UNCHANGED <<publishVars, serveVars, link, again, stale, missed>>

\* refreshTables.
Refresh(p) ==
    /\ timer[p] = "due"
    /\ timer' = [timer EXCEPT ![p] = "off"]
    /\ fetch' = [fetch EXCEPT ![p] = IF @ = "none" THEN "asked" ELSE @]
    /\ again' = [again EXCEPT ![p] = @ \/ fetch[p] # "none"]
    /\ UNCHANGED <<publishVars, serveVars, link, stale, missed>>

\* GET /api/jobs, admitted: the SELECT.
Select(p) ==
    /\ fetch[p] = "asked"
    /\ fetch' = [fetch EXCEPT ![p] = "fresh"]
    /\ UNCHANGED <<publishVars, serveVars, link, timer, again, stale, missed>>

\* A request that is over makes room for the one that waits.
NextFetch(p) ==
    /\ fetch' = [fetch EXCEPT ![p] = IF again[p] THEN "asked" ELSE "none"]
    /\ again' = [again EXCEPT ![p] = FALSE]

\* 429 from the limiter or 500 from the SELECT: the list stays as it is.
Refused(p) ==
    /\ fetch[p] = "asked"
    /\ NextFetch(p)
    /\ MissedBy(IF again[p] THEN {} ELSE {p})
    /\ UNCHANGED <<publishVars, serveVars, link, timer, stale>>

Show(p) ==
    /\ fetch[p] \in {"fresh", "dated"}
    /\ stale' = [stale EXCEPT ![p] = fetch[p] = "dated"]
    /\ missed' = [missed EXCEPT ![p] = @ /\ fetch[p] = "dated"]
    /\ NextFetch(p)
    /\ UNCHANGED <<publishVars, serveVars, link, timer>>
-----------------------------------------------------------------------------
(***************************************************************************)
(* The writers.                                                            *)
(***************************************************************************)
TableChanges ==
    /\ stale' = [p \in Pages |-> TRUE]
    /\ fetch' = [p \in Pages |-> IF fetch[p] = "fresh" THEN "dated"
                                 ELSE fetch[p]]

\* Mutant: the row is written and no event follows.
ChangeUntold(w) ==
    /\ pub[w] = "none"
    /\ TableChanges
    /\ UNCHANGED <<publishVars, serveVars, link, timer, again, missed>>

\* setState, fail, Enqueue and Retry: the rows first, then the event.
Change(w) ==
    /\ pub[w] = "none"
    /\ pub' = [pub EXCEPT ![w] = "wrote"]
    /\ TableChanges
    /\ UNCHANGED <<todo, serveVars, link, timer, again, missed>>

\* Recovery, a delete and the last UPDATE of process() publish nothing: no
\* page can know.
ChangeQuietly ==
    /\ TableChanges
    /\ missed' = [p \in Pages |-> TRUE]
    /\ UNCHANGED <<publishVars, serveVars, link, timer, again>>
-----------------------------------------------------------------------------
Publishing(w) == Lock(w) \/ (\E s \in Streams : Visit(w, s)) \/ Unlock(w)
Serving(s)    == \/ Subscribe(s) \/ Forward(s) \/ Ends(s) \/ Stick(s)
                 \/ Unstick(s) \/ Unregister(s) \/ Close(s)
Listening(p)  == \/ OnError(p) \/ TimerRunsOut(p) \/ Refresh(p)
                 \/ Select(p) \/ Refused(p) \/ Show(p)
                 \/ \E s \in Streams : Connect(p, s)

Next == \/ \E w \in Writers : Change(w) \/ Publishing(w)
        \/ ChangeQuietly
        \/ \E s \in Streams : Serving(s)
        \/ \E p \in Pages : Listening(p)

Spec == Init /\ [][Next]_vars

(***************************************************************************)
(* A writer goes on while it can, and Go's mutex passes over nobody for    *)
(* ever; a handler forwards what it can (until its client sticks, which it *)
(* may do); timers run out and requests are answered.  Nobody has to       *)
(* change the table, and connections need not break or be made.            *)
(***************************************************************************)
Fairness ==
    /\ \A w \in Writers : SF_vars(Lock(w)) /\ WF_vars(Publishing(w))
    /\ \A s \in Streams : WF_vars(Forward(s))
    /\ \A p \in Pages :
          /\ WF_vars(TimerRunsOut(p)) /\ WF_vars(Refresh(p))
          /\ WF_vars(Select(p) \/ Refused(p)) /\ WF_vars(Show(p))

FairSpec == Spec /\ Fairness
-----------------------------------------------------------------------------
(***************************************************************************)
(* Properties.                                                             *)
(***************************************************************************)
\* A worker never sends on a closed channel (that would end the program):
\* unsubscribe takes the channel out of the map before it closes it, and
\* Publish holds the map while it sends.
NoSendOnClosed == \A s \in todo : handler[s] # "closed"

\* A page that shows an old table is about to be told or about to ask, unless
\* it has missed a change.  In particular an event that Publish drops is not
\* needed: the channel that was full still holds one.
StaleIsTold ==
    \A p \in Pages : stale[p] /\ ~missed[p] =>
        \/ \E w \in Writers : pub[w] = "wrote"
        \/ Coming(p)
        \/ timer[p] # "off"
        \/ fetch[p] \in {"asked", "fresh"}
        \/ again[p]

\* When events cease, each page comes to show the table, unless it has missed
\* a change.  (While events keep coming the debounce timer may never run out.)
PagesSettle ==
    <>[](\A w \in Writers : pub[w] = "none") =>
        \A p \in Pages : <>[](~stale[p] \/ missed[p])

\* Whatever clients do, whoever publishes gets past it: a slow reader, a
\* stuck one and one that is leaving never hold up a worker.
PublishReturns == \A w \in Writers : pub[w] = "wrote" ~> pub[w] = "none"
=============================================================================

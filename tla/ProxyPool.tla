----------------------------- MODULE ProxyPool -----------------------------
(***************************************************************************)
(* The proxy pool (internal/proxy/proxy.go) between the table of proxies   *)
(* and the saved rotation mode (internal/db/queries.go), the handlers that *)
(* edit those (internal/handlers/proxies.go, settings.go) and the workers  *)
(* that draw from it at the start of a job (internal/jobs/manager.go).     *)
(*                                                                         *)
(* Handlers and workers read a listing in one step and hand it to the pool *)
(* in a later one, with nothing held in between; every method of the pool  *)
(* is one step, under its mutex.                                           *)
(*                                                                         *)
(* Left out: names and URLs (a row is its fresh uuid), global and custom   *)
(* proxies (Resolve then does not touch the pool), ties of created_at (the *)
(* row inserted last is listed first).  The empty proxy URL is "direct".   *)
(***************************************************************************)
EXTENDS Naturals, Sequences, FiniteSets, SequencesExt

CONSTANTS
    Proxies,    \* ids that CreateProxy may hand out
    Modes,      \* rotation modes an administrator saves: any text but none
    Workers,    \* worker goroutines
    Admins,     \* handlers of /api/proxies and /api/settings running at once
    Initial,    \* rows of the table when the process starts, newest first
    InitialMode, \* the rotation mode saved then
    MaxEdits,   \* bound: edits of the table and of the settings
    MaxErrors   \* bound: reads of the database that fail

ASSUME NamesAssumption ==
    /\ Proxies \cap ({"direct", "none", "random", "round_robin", "sticky"} \cup Modes) = {}
    /\ Modes \cap {"direct", "none"} = {}
ASSUME ActorsAssumption == Workers \cap Admins = {}
ASSUME InitialAssumption == /\ Initial \in Seq([proxy : Proxies, enabled : BOOLEAN])
                            /\ InitialMode \in Modes \cup {"random"}
\* proxies.id is the primary key.
ASSUME KeysAssumption ==
    \A i, j \in DOMAIN Initial : Initial[i].proxy = Initial[j].proxy => i = j
ASSUME WorkersAssumption == IsFiniteSet(Workers)
ASSUME BoundsAssumption == MaxEdits \in Nat /\ MaxErrors \in Nat

VARIABLES
    table,   \* rows of proxies, as ListProxies orders them
    saved,   \* settings.rotation_mode
    list,    \* Pool.proxies
    mode,    \* Pool.mode
    index,   \* Pool.rrIdx
    sticky,  \* Pool.sticky, "none" when unset
    actor,   \* what each handler and worker is doing
    created, \* ids handed out so far
    edits,   \* edits so far
    errors,  \* failed reads so far
    own,     \* history: what table and settings offered since an actor began
    seen,    \* history: that, and what they had offered since those began
             \*   that a worker found at work when it began itself
    last     \* history: the proxy drawn last, since list or mode changed

store   == <<table, saved, created, edits>>
pool    == <<list, mode, index, sticky>>
vars    == <<table, saved, list, mode, index, sticky, actor, created, edits,
             errors, own, seen, last>>
history == <<own, seen>>

Actors   == Workers \cup Admins
AllModes == Modes \cup {"random"}
Draws    == Proxies \cup {"direct"}

Doing(at, rows, m, p) == [at |-> at, rows |-> rows, mode |-> m, proxy |-> p]
Resting == Doing("rest", <<>>, "none", "none")
Active(a) == actor[a].at # "rest"

\* The list that SetProxies makes of a listing: the k-th row of it is the one
\* with k enabled rows up to its place.
EnabledRows(rows) ==
    LET enabled == {i \in DOMAIN rows : rows[i].enabled}
        Rank(i) == Cardinality({j \in enabled : j <= i})
    IN  [k \in 1..Cardinality(enabled) |-> rows[CHOOSE i \in enabled : Rank(i) = k]]

\* What Next may return for a list, and what is on offer with given rows and a
\* given mode.
Picks(l)          == IF l = <<>> THEN {"direct"} ELSE {l[i].proxy : i \in DOMAIN l}
Offered(rows)     == Picks(EnabledRows(rows))
Offer(rows, m)    == Offered(rows) \cup {m}
-----------------------------------------------------------------------------
(***************************************************************************)
(* History: what is on offer is added while an actor is active.  A worker  *)
(* that starts takes over what those at work have had on offer themselves, *)
(* and nothing that they took over from others.                            *)
(***************************************************************************)
Grown(h, offer) == [a \in DOMAIN h |-> IF Active(a) THEN h[a] \cup offer ELSE {}]
Witness(offer)  == own' = Grown(own, offer) /\ seen' = Grown(seen, offer)

Start(a, step) ==
    /\ ~Active(a)
    /\ actor' = [actor EXCEPT ![a] = step]

StartSeen(a, offer) ==
    LET now == offer \cup Offer(table, saved)
        met == UNION {own[b] : b \in {c \in Actors : Active(c)}}
    IN  /\ own' = [Grown(own, offer) EXCEPT ![a] = now]
        /\ seen' = [w \in Workers |-> IF w = a THEN now \cup met ELSE Grown(seen, offer)[w]]

Rest(a) == /\ actor' = [actor EXCEPT ![a] = Resting]
           /\ own' = [own EXCEPT ![a] = {}]
           /\ seen' = [w \in Workers |-> IF w = a THEN {} ELSE seen[w]]

\* A worker goes on with its job, a handler answers.
Proceed(a, step) == IF a \in Workers
                    THEN actor' = [actor EXCEPT ![a] = step] /\ UNCHANGED history
                    ELSE Rest(a)
-----------------------------------------------------------------------------
(***************************************************************************)
(* Handlers.  An edit whose statement fails answers 500 and changes        *)
(* nothing.                                                                *)
(***************************************************************************)
\* The three statements on the table, as the rows they leave.
Inserted == {<<[proxy |-> p, enabled |-> e]>> \o table :
                p \in Proxies \ created, e \in BOOLEAN}
Updated  == {[table EXCEPT ![i].enabled = e] : i \in DOMAIN table, e \in BOOLEAN}
Deleted  == {RemoveAt(table, i) : i \in DOMAIN table}

\* CreateProxy, UpdateProxy and DeleteProxy up to refreshPool.
EditTable(a, rows) ==
    /\ edits < MaxEdits
    /\ Start(a, Doing("list", <<>>, "none", "none"))
    /\ table' = rows
    /\ created' = created \cup {rows[i].proxy : i \in DOMAIN rows}
    /\ edits' = edits + 1
    /\ StartSeen(a, Offer(rows, saved))
    /\ UNCHANGED <<saved, pool, errors, last>>

\* Mutant: an absent mode is saved as it is.
SaveSettingsBlank(a, m) ==
    /\ edits < MaxEdits
    /\ Start(a, Doing("mode", <<>>, m, "none"))
    /\ saved' = "none"
    /\ edits' = edits + 1
    /\ StartSeen(a, Offer(table, m))
    /\ UNCHANGED <<table, created, pool, errors, last>>

\* PutSettings up to SetMode; an empty mode was replaced by "random", and any
\* other is taken as it is.
SaveSettings(a, m) ==
    /\ edits < MaxEdits
    /\ Start(a, Doing("mode", <<>>, m, "none"))
    /\ saved' = m
    /\ edits' = edits + 1
    /\ StartSeen(a, Offer(table, m))
    /\ UNCHANGED <<table, created, pool, errors, last>>

\* process() reads the settings; on an error it goes on with an empty mode,
\* which Next treats as random.
StartJob(w) ==
    /\ \/ /\ Start(w, Doing("list", <<>>, saved, "none"))
          /\ StartSeen(w, {})
          /\ UNCHANGED errors
       \/ /\ errors < MaxErrors /\ errors' = errors + 1
          /\ Start(w, Doing("list", <<>>, "random", "none"))
          /\ StartSeen(w, {"random"})
    /\ UNCHANGED <<store, pool, last>>

\* ListProxies, in refreshPool and process(); both go on with an empty
\* listing when it fails.
ListProxies(a) ==
    /\ actor[a].at = "list"
    /\ \/ /\ actor' = [actor EXCEPT ![a] = Doing("set", table, @.mode, "none")]
          /\ UNCHANGED <<errors, history>>
       \/ /\ errors < MaxErrors /\ errors' = errors + 1
          /\ actor' = [actor EXCEPT ![a] = Doing("set", <<>>, @.mode, "none")]
          /\ Witness(Offered(<<>>))
    /\ UNCHANGED <<store, pool, last>>

\* Mutant: the index is reset on every refresh.
SetProxiesResets(a) ==
    /\ actor[a].at = "set"
    /\ list' = EnabledRows(actor[a].rows)
    /\ index' = 0
    /\ last' = IF list' = list THEN last ELSE "none"
    /\ Proceed(a, Doing("mode", <<>>, actor[a].mode, "none"))
    /\ UNCHANGED <<store, mode, sticky, errors>>

\* Pool.SetProxies: the index is reset when the list is too short for it;
\* the sticky choice stays.
SetProxies(a) ==
    /\ actor[a].at = "set"
    /\ list' = EnabledRows(actor[a].rows)
    /\ index' = IF index >= Len(list') THEN 0 ELSE index
    /\ last' = IF list' = list THEN last ELSE "none"
    /\ Proceed(a, Doing("mode", <<>>, actor[a].mode, "none"))
    /\ UNCHANGED <<store, mode, sticky, errors>>

\* Mutant: the sticky choice survives while the mode does not change.
SetModeKeepsSticky(a) ==
    /\ actor[a].at = "mode"
    /\ mode' = actor[a].mode
    /\ sticky' = IF mode' = mode THEN sticky ELSE "none"
    /\ last' = IF mode' = mode THEN last ELSE "none"
    /\ Proceed(a, Doing("draw", <<>>, "none", "none"))
    /\ UNCHANGED <<store, list, index, errors>>

\* Pool.SetMode: the sticky choice is forgotten, whether the mode changes or
\* not.
SetMode(a) ==
    /\ actor[a].at = "mode"
    /\ mode' = actor[a].mode
    /\ sticky' = "none"
    /\ last' = IF mode' = mode THEN last ELSE "none"
    /\ Proceed(a, Doing("draw", <<>>, "none", "none"))
    /\ UNCHANGED <<store, list, index, errors>>

\* Pool.Next, the mode deciding; p is what it returns.  A mode that the switch
\* does not name is random.
NextEmpty(p)  == list = <<>> /\ p = "direct" /\ UNCHANGED <<index, sticky>>
NextRandom(p) == /\ mode \notin {"round_robin", "sticky"} /\ list # <<>>
                 /\ p \in Picks(list)
                 /\ UNCHANGED <<index, sticky>>
NextTurn(p)   == /\ mode = "round_robin" /\ list # <<>>
                 /\ \E i \in DOMAIN list : /\ i = 1 + (index % Len(list))
                                         /\ p = list[i].proxy
                 /\ index' = index + 1
                 /\ UNCHANGED sticky
NextSticky(p) == /\ mode = "sticky" /\ list # <<>>
                 /\ IF sticky = "none" THEN p \in Picks(list) ELSE p = sticky
                 /\ sticky' = p
                 /\ UNCHANGED index

\* Pool.Resolve, for a download that uses the pool; the job goes on with p.
Resolve(w, p) ==
    /\ actor[w].at = "draw"
    /\ NextEmpty(p) \/ NextRandom(p) \/ NextTurn(p) \/ NextSticky(p)
    /\ actor' = [actor EXCEPT ![w] = Doing("busy", <<>>, mode, p)]
    /\ last' = p
    /\ UNCHANGED <<store, list, mode, errors, history>>

\* The rest of process(), or a download that needs no proxy of the pool.
EndJob(w) ==
    /\ actor[w].at \in {"draw", "busy"}
    /\ Rest(w)
    /\ UNCHANGED <<store, pool, errors, last>>
-----------------------------------------------------------------------------
\* main() fills the pool before it starts the server and the workers.
Init ==
    /\ table = Initial
    /\ saved = InitialMode
    /\ list = EnabledRows(Initial)
    /\ mode = saved
    /\ index = 0
    /\ sticky = "none"
    /\ actor = [a \in Actors |-> Resting]
    /\ created = {Initial[i].proxy : i \in DOMAIN Initial}
    /\ edits = 0 /\ errors = 0
    /\ own = [a \in Actors |-> {}]
    /\ seen = [w \in Workers |-> {}]
    /\ last = "none"

Edit(a) == \/ \E rows \in Inserted \cup Updated \cup Deleted : EditTable(a, rows)
           \/ \E m \in Modes : SaveSettings(a, m)

Next == \/ \E a \in Admins : Edit(a)
        \/ \E a \in Actors : ListProxies(a) \/ SetProxies(a) \/ SetMode(a)
        \/ \E w \in Workers : \/ StartJob(w) \/ EndJob(w)
                              \/ \E p \in Draws : Resolve(w, p)

Spec == Init /\ [][Next]_vars
-----------------------------------------------------------------------------
\* Type invariant of the table, the pool and those who use them.
Rows == Seq([proxy : Proxies, enabled : BOOLEAN])

TypeOK ==
    /\ table \in Rows /\ list \in Rows
    /\ saved \in AllModes /\ mode \in AllModes
    /\ index \in Nat
    /\ sticky \in Draws \cup {"none"}
    /\ actor \in [Actors -> [at : {"rest", "list", "set", "mode", "draw", "busy"},
                             rows : Rows, mode : AllModes \cup {"none"},
                             proxy : Draws \cup {"none"}]]
    /\ created \subseteq Proxies
    /\ edits \in Nat /\ errors \in Nat
    /\ own \in [Actors -> SUBSET (Draws \cup AllModes)]
    /\ seen \in [Workers -> SUBSET (Draws \cup AllModes)]
    /\ last \in Draws \cup {"none"}

(***************************************************************************)
(* A job is never given a choice from the past.  Whatever listings race,   *)
(* the proxy it draws (or the direct connection) was on offer in the table *)
(* at some time since the job began, or since one of those began that were *)
(* at work when it did; and so was the mode it was drawn by.  What those   *)
(* had met at their own start does not count.  It holds because every job  *)
(* lists the table anew and SetMode forgets the sticky choice that         *)
(* SetProxies keeps.                                                       *)
(***************************************************************************)
NoChoiceFromThePast ==
    \A w \in Workers : actor[w].at = "busy" =>
        {actor[w].proxy, actor[w].mode} \subseteq seen[w]

(***************************************************************************)
(* Round-robin rotation starves no proxy: as long as neither the list nor  *)
(* the mode changes, each job is given the successor of the proxy given    *)
(* last.  When several workers draw past the end of the list before one of *)
(* them lists again, SetProxies restarts the round, but never from a place *)
(* further down the list than the other workers can have drawn.            *)
(***************************************************************************)
Drawn(w)    == actor[w].at = "draw" /\ actor'[w].at = "busy"
Position(p) == CHOOSE i \in DOMAIN list : list[i].proxy = p

TakesTurns ==
    [][\A w \in Workers : Drawn(w) /\ mode = "round_robin" /\ last \in Picks(list) \ {"direct"} =>
         \/ Position(last') = 1 + (Position(last) % Len(list))
         \/ Position(last') = 1 /\ Position(last) < Cardinality(Workers)]_vars

(***************************************************************************)
(* README.md:11, "random / round-robin / sticky-session rotation": in      *)
(* sticky mode each job is given the proxy of the job before, as long as   *)
(* neither the list nor the mode changes.                                  *)
(***************************************************************************)
StickyStays ==
    [][\A w \in Workers : Drawn(w) /\ mode = "sticky" /\ last # "none" => last' = last]_vars
=============================================================================

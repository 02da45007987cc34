-------------------------- MODULE ProxyPoolProofs --------------------------
(***************************************************************************)
(* Proofs about the proxy pool, for any number of workers, handlers,       *)
(* proxies, edits and failed reads.                                        *)
(*                                                                         *)
(* That no job draws a choice from the past: the inductive invariant       *)
(* follows a listing from the table to the proxy handed out.  A listing    *)
(* and a mode that somebody still holds were on offer since he began, and  *)
(* what was on offer since one began who is at work now is seen by every   *)
(* worker; from the moment a worker has handed its own listing to the pool *)
(* the list comes from such a holder, and from its SetMode on so do the    *)
(* mode and the sticky choice.                                             *)
(*                                                                         *)
(* That rotation takes turns: the index runs past the end of the list by   *)
(* no more than the workers that have yet to draw can take it.             *)
(***************************************************************************)
EXTENDS ProxyPool, FiniteSetTheorems, SequenceTheorems, TLAPS

\* actor, own and seen are functions.
Shape ==
    /\ actor = [a \in Actors |-> actor[a]]
    /\ own = [a \in Actors |-> own[a]]
    /\ seen = [w \in Workers |-> seen[w]]

TableOwn == \A a \in Actors : Active(a) => Offer(table, saved) \subseteq own[a]

RowsOwn == \A a \in Actors :
    actor[a].at = "set" => Offered(actor[a].rows) \subseteq own[a]

HoldsMode(a) == \/ a \in Workers /\ actor[a].at \in {"list", "set"}
                \/ actor[a].at = "mode"

HeldOwn == \A a \in Actors : HoldsMode(a) => actor[a].mode \in own[a]

OwnSeen == \A a \in Actors, w \in Workers :
    Active(a) /\ Active(w) => own[a] \subseteq seen[w]

ListSeen == \A w \in Workers :
    actor[w].at \in {"mode", "draw"} => Picks(list) \subseteq seen[w]

ModeSeen == \A w \in Workers :
    actor[w].at = "draw" => mode \in seen[w] /\ sticky \in seen[w] \cup {"none"}

IInv == /\ Shape /\ TableOwn /\ RowsOwn /\ HeldOwn /\ OwnSeen
        /\ ListSeen /\ ModeSeen /\ NoChoiceFromThePast

\* The initial states satisfy the invariant: nobody is active.
LEMMA InitHolds == Init => IInv
  BY DEF Init, IInv, Shape, TableOwn, RowsOwn, HeldOwn, OwnSeen, HoldsMode, ListSeen, ModeSeen,
         NoChoiceFromThePast, Resting, Doing, Active, Actors

\* What StartSeen adds: everybody keeps his own and what he has seen, a
\* worker that starts takes over what the others have of their own, and all
\* see the new offer.
LEMMA StartFacts ==
  ASSUME NEW a \in Actors, NEW step, NEW offer,
         Shape, TableOwn, Start(a, step), StartSeen(a, offer),
         step.at # "rest"
  PROVE  LET now == offer \cup Offer(table, saved) IN
         /\ Shape'
         /\ actor[a].at = "rest" /\ actor'[a] = step
         /\ \A b \in Actors \ {a} : actor'[b] = actor[b]
         /\ own'[a] = now
         /\ \A b \in Actors \ {a} : Active(b) => own'[b] = own[b] \cup offer
         /\ \A w \in Workers \ {a} : Active(w) => seen'[w] = seen[w] \cup offer
         /\ a \in Workers => now \subseteq seen'[a]
         /\ a \in Workers => \A b \in Actors : Active(b) => own[b] \subseteq seen'[a]
  <1> DEFINE now == offer \cup Offer(table, saved)
             met == UNION {own[b] : b \in {c \in Actors : Active(c)}}
  <1>1. /\ actor[a].at = "rest" /\ actor'[a] = step
        /\ actor' = [b \in Actors |-> actor'[b]]
        /\ \A b \in Actors \ {a} : actor'[b] = actor[b]
    BY DEF Start, Active, Shape
  <1>2. DOMAIN own = Actors /\ DOMAIN seen = Workers
    BY DEF Shape
  <1>3. /\ own' = [b \in Actors |-> own'[b]]
        /\ own'[a] = now
        /\ \A b \in Actors \ {a} : Active(b) => own'[b] = own[b] \cup offer
    BY <1>2 DEF StartSeen, Grown
  <1>4. seen' = [w \in Workers |-> IF w = a THEN now \cup met ELSE Grown(seen, offer)[w]]
    BY DEF StartSeen
  <1>5. /\ seen' = [w \in Workers |-> seen'[w]]
        /\ \A w \in Workers \ {a} : Active(w) => seen'[w] = seen[w] \cup offer
        /\ a \in Workers => seen'[a] = now \cup met
    BY <1>2, <1>4 DEF Grown
  <1>6. \A b \in Actors : Active(b) => own[b] \subseteq met
    OBVIOUS
  <1>7. a \in Workers => \A b \in Actors : Active(b) => own[b] \subseteq seen'[a]
    BY <1>5, <1>6
  <1>8. a \in Workers => now \subseteq seen'[a]
    BY <1>5
  <1> HIDE DEF met
  <1> QED BY <1>1, <1>3, <1>5, <1>7, <1>8 DEF Shape

\* Whoever begins, with an offer that covers the new table, keeps the
\* invariant.
LEMMA BeginHolds ==
  ASSUME IInv, NEW a \in Actors, NEW step, NEW offer,
         Start(a, step), StartSeen(a, offer), UNCHANGED pool,
         step.at \in {"list", "mode"}, step.at = "mode" => a \notin Workers,
         a \in Workers \/ step.at = "mode" => step.mode \in offer \cup Offer(table, saved),
         Offer(table', saved') \subseteq offer \cup Offer(table, saved)
  PROVE  IInv'
  <1> DEFINE now == offer \cup Offer(table, saved)
  <1>1. /\ Shape'
        /\ actor[a].at = "rest" /\ actor'[a] = step
        /\ \A b \in Actors \ {a} : actor'[b] = actor[b]
        /\ own'[a] = now
        /\ \A b \in Actors \ {a} : Active(b) => own'[b] = own[b] \cup offer
        /\ \A w \in Workers \ {a} : Active(w) => seen'[w] = seen[w] \cup offer
        /\ a \in Workers => now \subseteq seen'[a]
        /\ a \in Workers => \A b \in Actors : Active(b) => own[b] \subseteq seen'[a]
    BY StartFacts DEF IInv
  <1>2. \A b \in Actors \ {a} : Active(b)' => Active(b)
    BY <1>1 DEF Active
  <1>3. \A b \in Actors : Active(b) => Offer(table, saved) \subseteq own[b]
    BY DEF IInv, TableOwn
  <1>4. Workers \subseteq Actors
    BY DEF Actors
  <1>5. TableOwn'
    BY <1>1, <1>2, <1>3 DEF TableOwn
  <1>6. RowsOwn'
    BY <1>1, <1>2 DEF IInv, RowsOwn, Active
  <1>7. HeldOwn'
    BY <1>1, <1>2 DEF IInv, HeldOwn, HoldsMode, Active
  <1>8. OwnSeen'
    <2> SUFFICES ASSUME NEW b \in Actors, NEW w \in Workers, Active(b)', Active(w)'
                 PROVE  own'[b] \subseteq seen'[w]
      BY DEF OwnSeen
    <2>1. CASE w = a
      BY <1>1, <1>2, <2>1
    <2>2. CASE w # a
      <3>1. Active(w) /\ seen'[w] = seen[w] \cup offer /\ own[w] \subseteq seen[w]
        BY <1>1, <1>2, <1>4, <2>2 DEF IInv, OwnSeen
      <3>2. CASE b = a
        BY <1>1, <1>3, <1>4, <3>1, <3>2
      <3>3. CASE b # a
        BY <1>1, <1>2, <3>1, <3>3 DEF IInv, OwnSeen
      <3> QED BY <3>2, <3>3
    <2> QED BY <2>1, <2>2
  <1>9. ListSeen' /\ ModeSeen' /\ NoChoiceFromThePast'
    BY <1>1, <1>4 DEF IInv, ListSeen, ModeSeen, NoChoiceFromThePast, Active, pool
  <1> QED BY <1>1, <1>5, <1>6, <1>7, <1>8, <1>9 DEF IInv

\* An edit of the table by a handler.
LEMMA EditTableHolds ==
  ASSUME IInv, NEW a \in Admins, NEW rows, EditTable(a, rows)
  PROVE  IInv'
  <1> DEFINE step  == Doing("list", <<>>, "none", "none")
             offer == Offer(rows, saved)
  <1>1. /\ Start(a, step) /\ StartSeen(a, offer) /\ UNCHANGED pool
        /\ Offer(table', saved') \subseteq offer
    BY DEF EditTable
  <1>2. step = [at |-> "list", rows |-> <<>>, mode |-> "none", proxy |-> "none"]
    BY DEF Doing
  <1>3. a \in Actors /\ a \notin Workers
    BY ActorsAssumption DEF Actors
  <1> HIDE DEF step, offer
  <1> QED BY <1>1, <1>2, <1>3, BeginHolds

\* A save of the settings by a handler.
LEMMA SaveSettingsHolds ==
  ASSUME IInv, NEW a \in Admins, NEW m, SaveSettings(a, m)
  PROVE  IInv'
  <1> DEFINE step  == Doing("mode", <<>>, m, "none")
             offer == Offer(table, m)
  <1>1. /\ Start(a, step) /\ StartSeen(a, offer) /\ UNCHANGED pool
        /\ Offer(table', saved') \subseteq offer
    BY DEF SaveSettings
  <1>2. step = [at |-> "mode", rows |-> <<>>, mode |-> m, proxy |-> "none"]
    BY DEF Doing
  <1>3. a \in Actors /\ a \notin Workers /\ m \in offer
    BY ActorsAssumption DEF Actors, Offer
  <1> HIDE DEF step, offer
  <1> QED BY <1>1, <1>2, <1>3, BeginHolds

\* The start of a job, the settings read or not.
LEMMA StartJobHolds ==
  ASSUME IInv, NEW w \in Workers, StartJob(w)
  PROVE  IInv'
  <1>1. PICK m \in {saved, "random"} :
           /\ Start(w, Doing("list", <<>>, m, "none"))
           /\ StartSeen(w, {m} \ {saved}) \/ StartSeen(w, {m})
           /\ UNCHANGED <<store, pool>>
    <2>1. CASE Start(w, Doing("list", <<>>, saved, "none")) /\ StartSeen(w, {})
      <3>1. {} = {saved} \ {saved}
        OBVIOUS
      <3> QED BY <2>1, <3>1 DEF StartJob
    <2>2. CASE Start(w, Doing("list", <<>>, "random", "none")) /\ StartSeen(w, {"random"})
      BY <2>2 DEF StartJob
    <2> QED BY <2>1, <2>2 DEF StartJob
  <1> DEFINE step == Doing("list", <<>>, m, "none")
  <1>2. step = [at |-> "list", rows |-> <<>>, mode |-> m, proxy |-> "none"]
    BY DEF Doing
  <1>3. /\ w \in Actors /\ saved \in Offer(table, saved)
        /\ Offer(table', saved') = Offer(table, saved)
        /\ UNCHANGED pool /\ Start(w, step)
    BY <1>1 DEF Actors, Offer, store
  <1> HIDE DEF step
  <1>4. CASE StartSeen(w, {m} \ {saved})
    BY <1>2, <1>3, <1>4, BeginHolds
  <1>5. CASE StartSeen(w, {m})
    BY <1>2, <1>3, <1>5, BeginHolds
  <1> QED BY <1>1, <1>4, <1>5

\* ListProxies: the listing is what the table offers, which everybody at
\* work has had on offer; an empty one is added to what they have.
LEMMA ListProxiesHolds ==
  ASSUME IInv, NEW a \in Actors, ListProxies(a)
  PROVE  IInv'
  <1>1. PICK rows : /\ actor[a].at = "list"
                    /\ actor' = [actor EXCEPT ![a] = Doing("set", rows, @.mode, "none")]
                    /\ \/ rows = table /\ UNCHANGED history
                       \/ rows = <<>> /\ Witness(Offered(<<>>))
                    /\ UNCHANGED <<table, saved, list, mode, sticky>>
    BY DEF ListProxies, store, pool
  <1>2. /\ actor' = [b \in Actors |-> actor'[b]]
        /\ actor'[a] = [at |-> "set", rows |-> rows, mode |-> actor[a].mode,
                        proxy |-> "none"]
        /\ \A b \in Actors \ {a} : actor'[b] = actor[b]
    BY <1>1 DEF IInv, Shape, Doing
  <1>3. \A b \in Actors : Active(b)' <=> Active(b)
    BY <1>1, <1>2 DEF Active
  <1>4. Workers \subseteq Actors
    BY DEF Actors
  <1>5. PICK more : /\ Offered(rows) \subseteq Offer(table, saved) \cup more
                    /\ own' = [b \in Actors |-> own'[b]]
                    /\ seen' = [w \in Workers |-> seen'[w]]
                    /\ \A b \in Actors : Active(b) => own'[b] = own[b] \cup more
                    /\ \A w \in Workers : Active(w) => seen'[w] = seen[w] \cup more
    <2>1. CASE rows = table /\ UNCHANGED history
      <3>1. Offered(rows) \subseteq Offer(table, saved) \cup {}
        BY <2>1 DEF Offer
      <3>2. /\ own' = [b \in Actors |-> own'[b]] /\ seen' = [w \in Workers |-> seen'[w]]
            /\ \A b \in Actors : own'[b] = own[b] \cup {}
            /\ \A w \in Workers : seen'[w] = seen[w] \cup {}
        BY <2>1 DEF IInv, Shape, history
      <3> QED BY <3>1, <3>2
    <2>2. CASE rows = <<>> /\ Witness(Offered(<<>>))
      <3>1. DOMAIN own = Actors /\ DOMAIN seen = Workers
        BY DEF IInv, Shape
      <3> QED BY <2>2, <3>1 DEF Witness, Grown
    <2> QED BY <1>1, <2>1, <2>2
  <1>6. Shape' /\ TableOwn'
    BY <1>1, <1>2, <1>3, <1>5 DEF IInv, Shape, TableOwn
  <1>7. RowsOwn'
    <2>1. Active(a) /\ Offer(table, saved) \subseteq own[a]
      BY <1>1 DEF Active, IInv, TableOwn
    <2> QED BY <1>2, <1>5, <2>1 DEF IInv, RowsOwn, Active
  <1>8. HeldOwn'
    BY <1>1, <1>2, <1>5 DEF IInv, HeldOwn, HoldsMode, Active
  <1>9. OwnSeen'
    BY <1>3, <1>4, <1>5 DEF IInv, OwnSeen
  <1>10. ListSeen' /\ ModeSeen' /\ NoChoiceFromThePast'
    BY <1>1, <1>2, <1>4, <1>5 DEF IInv, ListSeen, ModeSeen, NoChoiceFromThePast, Active
  <1> QED BY <1>6, <1>7, <1>8, <1>9, <1>10 DEF IInv

\* What Proceed leaves: the actor at its next step with all it has seen, or
\* at rest.
LEMMA ProceedFacts ==
  ASSUME NEW a \in Actors, NEW step, Shape, Proceed(a, step), Active(a)
  PROVE  /\ Shape'
         /\ a \in Workers => actor'[a] = step
         /\ a \notin Workers => actor'[a].at = "rest"
         /\ \A b \in Actors \ {a} : actor'[b] = actor[b]
         /\ \A b \in Actors : Active(b)' => Active(b) /\ own'[b] = own[b]
         /\ \A w \in Workers : Active(w)' => Active(w) /\ seen'[w] = seen[w]
  <1>0. Workers \subseteq Actors
    BY DEF Actors
  <1>1. CASE a \in Workers
    BY <1>0, <1>1 DEF Proceed, Shape, Active, history
  <1>2. CASE a \notin Workers
    BY <1>0, <1>2 DEF Proceed, Rest, Resting, Doing, Shape, Active
  <1> QED BY <1>1, <1>2

\* SetProxies: the new list was held by one who is at work.
LEMMA SetProxiesHolds ==
  ASSUME IInv, NEW a \in Actors, SetProxies(a)
  PROVE  IInv'
  <1> DEFINE step == Doing("mode", <<>>, actor[a].mode, "none")
  <1>1. /\ actor[a].at = "set" /\ Active(a)
        /\ list' = EnabledRows(actor[a].rows)
        /\ Proceed(a, step)
        /\ UNCHANGED <<table, saved, mode, sticky>>
    BY DEF SetProxies, store, Active
  <1>2. step = [at |-> "mode", rows |-> <<>>, mode |-> actor[a].mode, proxy |-> "none"]
    BY DEF Doing
  <1> HIDE DEF step
  <1>3. /\ Shape'
        /\ a \in Workers => actor'[a] = step
        /\ a \notin Workers => actor'[a].at = "rest"
        /\ \A b \in Actors \ {a} : actor'[b] = actor[b]
        /\ \A b \in Actors : Active(b)' => Active(b) /\ own'[b] = own[b]
        /\ \A w \in Workers : Active(w)' => Active(w) /\ seen'[w] = seen[w]
    BY <1>1, <1>2, ProceedFacts DEF IInv
  <1>4. TableOwn'
    BY <1>1, <1>3 DEF IInv, TableOwn
  <1>5. RowsOwn'
    BY <1>2, <1>3 DEF IInv, RowsOwn, Active
  <1>6. HeldOwn'
    BY <1>1, <1>2, <1>3 DEF IInv, HeldOwn, HoldsMode, Active
  <1>7. OwnSeen'
    BY <1>3 DEF IInv, OwnSeen
  <1>8. \A w \in Workers : Active(w)' => Picks(list') \subseteq seen'[w]
    <2>1. Picks(list') \subseteq own[a]
      BY <1>1 DEF IInv, RowsOwn, Offered
    <2> QED BY <1>1, <1>3, <2>1 DEF IInv, OwnSeen
  <1>9. ListSeen'
    BY <1>8 DEF ListSeen, Active
  <1>10. ModeSeen'
    BY <1>1, <1>2, <1>3 DEF IInv, ModeSeen, Active, Actors
  <1>11. NoChoiceFromThePast'
    BY <1>1, <1>2, <1>3 DEF IInv, NoChoiceFromThePast, Active, Actors
  <1> QED BY <1>3, <1>4, <1>5, <1>6, <1>7, <1>9, <1>10, <1>11 DEF IInv

\* SetMode: the new mode was held by one who is at work, and no sticky choice
\* is left.
LEMMA SetModeHolds ==
  ASSUME IInv, NEW a \in Actors, SetMode(a)
  PROVE  IInv'
  <1> DEFINE step == Doing("draw", <<>>, "none", "none")
  <1>1. /\ actor[a].at = "mode" /\ Active(a)
        /\ mode' = actor[a].mode /\ sticky' = "none"
        /\ Proceed(a, step)
        /\ UNCHANGED <<table, saved, list>>
    BY DEF SetMode, store, Active
  <1>2. step = [at |-> "draw", rows |-> <<>>, mode |-> "none", proxy |-> "none"]
    BY DEF Doing
  <1> HIDE DEF step
  <1>3. /\ Shape'
        /\ a \in Workers => actor'[a] = step
        /\ a \notin Workers => actor'[a].at = "rest"
        /\ \A b \in Actors \ {a} : actor'[b] = actor[b]
        /\ \A b \in Actors : Active(b)' => Active(b) /\ own'[b] = own[b]
        /\ \A w \in Workers : Active(w)' => Active(w) /\ seen'[w] = seen[w]
    BY <1>1, <1>2, ProceedFacts DEF IInv
  <1>4. TableOwn' /\ OwnSeen'
    BY <1>1, <1>3 DEF IInv, TableOwn, OwnSeen
  <1>5. RowsOwn' /\ HeldOwn'
    BY <1>2, <1>3 DEF IInv, RowsOwn, HeldOwn, HoldsMode, Active
  <1>6. ListSeen'
    BY <1>1, <1>2, <1>3 DEF IInv, ListSeen, Active, Actors
  <1>7. \A w \in Workers : Active(w)' => mode' \in seen'[w]
    <2>1. mode' \in own[a]
      BY <1>1 DEF IInv, HeldOwn, HoldsMode
    <2> QED BY <1>1, <1>3, <2>1 DEF IInv, OwnSeen
  <1>8. ModeSeen'
    BY <1>1, <1>7 DEF ModeSeen, Active
  <1>9. NoChoiceFromThePast'
    BY <1>1, <1>2, <1>3 DEF IInv, NoChoiceFromThePast, Active, Actors
  <1> QED BY <1>3, <1>4, <1>5, <1>6, <1>8, <1>9 DEF IInv

\* Resolve: what Next returns, and the sticky choice it leaves, come from
\* the list or from the sticky choice before.
LEMMA ResolveHolds ==
  ASSUME IInv, NEW w \in Workers, NEW p, Resolve(w, p)
  PROVE  IInv'
  <1>1. /\ actor[w].at = "draw"
        /\ actor' = [actor EXCEPT ![w] = Doing("busy", <<>>, mode, p)]
        /\ NextEmpty(p) \/ NextRandom(p) \/ NextTurn(p) \/ NextSticky(p)
        /\ UNCHANGED <<table, saved, list, mode, own, seen>>
    BY DEF Resolve, store, history
  <1>2. p \in Picks(list) \cup ({sticky} \ {"none"}) /\ sticky' \in {sticky, p}
    <2>1. CASE NextEmpty(p)
      BY <2>1 DEF NextEmpty, Picks
    <2>2. CASE NextRandom(p)
      BY <2>2 DEF NextRandom
    <2>3. CASE NextTurn(p)
      BY <2>3 DEF NextTurn, Picks
    <2>4. CASE NextSticky(p)
      BY <2>4 DEF NextSticky
    <2> QED BY <1>1, <2>1, <2>2, <2>3, <2>4
  <1>3. w \in Actors
    BY DEF Actors
  <1>4. /\ actor' = [b \in Actors |-> actor'[b]]
        /\ actor'[w] = [at |-> "busy", rows |-> <<>>, mode |-> mode, proxy |-> p]
        /\ \A b \in Actors \ {w} : actor'[b] = actor[b]
    BY <1>1, <1>3 DEF IInv, Shape, Doing
  <1>5. \A b \in Actors : Active(b)' <=> Active(b)
    BY <1>1, <1>4 DEF Active
  <1>6. Shape' /\ TableOwn'
    BY <1>1, <1>4, <1>5 DEF IInv, Shape, TableOwn
  <1>7. RowsOwn' /\ HeldOwn' /\ OwnSeen'
    BY <1>1, <1>3, <1>4, <1>5 DEF IInv, RowsOwn, HeldOwn, OwnSeen, HoldsMode, Actors
  <1>8. ListSeen'
    BY <1>1, <1>4 DEF IInv, ListSeen, Actors
  <1>9. \A v \in Workers : actor[v].at = "draw" =>
           p \in seen[v] /\ mode \in seen[v] /\ sticky' \in seen[v] \cup {"none"}
    BY <1>2 DEF IInv, ListSeen, ModeSeen
  <1>10. ModeSeen'
    BY <1>1, <1>4, <1>9 DEF ModeSeen, Actors
  <1>11. NoChoiceFromThePast'
    BY <1>1, <1>4, <1>9 DEF IInv, NoChoiceFromThePast, Actors
  <1> QED BY <1>6, <1>7, <1>8, <1>10, <1>11 DEF IInv

\* The end of a job.
LEMMA EndJobHolds ==
  ASSUME IInv, NEW w \in Workers, EndJob(w)
  PROVE  IInv'
  <1>1. /\ actor' = [actor EXCEPT ![w] = Resting]
        /\ own' = [own EXCEPT ![w] = {}]
        /\ seen' = [v \in Workers |-> IF v = w THEN {} ELSE seen[v]]
        /\ UNCHANGED <<table, saved, list, mode, sticky>>
    BY DEF EndJob, Rest, store, pool
  <1>2. /\ w \in Actors /\ Workers \subseteq Actors
        /\ actor' = [b \in Actors |-> actor'[b]]
        /\ own' = [b \in Actors |-> own'[b]]
        /\ seen' = [v \in Workers |-> seen'[v]]
        /\ actor'[w] = [at |-> "rest", rows |-> <<>>, mode |-> "none", proxy |-> "none"]
        /\ \A b \in Actors \ {w} : actor'[b] = actor[b] /\ own'[b] = own[b]
        /\ \A v \in Workers \ {w} : seen'[v] = seen[v]
    BY <1>1 DEF IInv, Shape, Actors, Resting, Doing
  <1>3. \A b \in Actors : Active(b)' => Active(b) /\ b # w
    BY <1>2 DEF Active
  <1>4. Shape' /\ TableOwn'
    BY <1>1, <1>2, <1>3 DEF IInv, Shape, TableOwn
  <1>5. RowsOwn' /\ HeldOwn' /\ OwnSeen'
    BY <1>2, <1>3 DEF IInv, RowsOwn, HeldOwn, OwnSeen, HoldsMode
  <1>6. ListSeen' /\ ModeSeen' /\ NoChoiceFromThePast'
    BY <1>1, <1>2 DEF IInv, ListSeen, ModeSeen, NoChoiceFromThePast, Actors
  <1> QED BY <1>4, <1>5, <1>6 DEF IInv

\* Every step keeps the invariant.
LEMMA NextHolds ==
  ASSUME IInv, [Next]_vars
  PROVE  IInv'
  <1>1. CASE \E a \in Admins : Edit(a)
    BY <1>1, EditTableHolds, SaveSettingsHolds DEF Edit
  <1>2. CASE \E a \in Actors : ListProxies(a) \/ SetProxies(a) \/ SetMode(a)
    BY <1>2, ListProxiesHolds, SetProxiesHolds, SetModeHolds
  <1>3. CASE \E w \in Workers : StartJob(w) \/ EndJob(w) \/ \E p \in Draws : Resolve(w, p)
    BY <1>3, StartJobHolds, EndJobHolds, ResolveHolds
  <1>4. CASE UNCHANGED vars
    BY <1>4 DEF vars, IInv, Shape, TableOwn, RowsOwn, HeldOwn, OwnSeen, HoldsMode,
                ListSeen, ModeSeen, NoChoiceFromThePast, Active
  <1> QED BY <1>1, <1>2, <1>3, <1>4 DEF Next

(***************************************************************************)
(* Whatever listings and edits race, a job draws only what was on offer    *)
(* since it began, or since one of those began that were at work when it   *)
(* did (Resolve, SetProxies and SetMode of the pool, called by process and *)
(* by the handlers).                                                       *)
(***************************************************************************)
THEOREM ChoicesAreCurrent == Spec => []NoChoiceFromThePast
  <1>1. IInv => NoChoiceFromThePast
    BY DEF IInv
  <1> QED BY InitHolds, NextHolds, <1>1, PTL DEF Spec
-----------------------------------------------------------------------------
(***************************************************************************)
(* Rows and their order.                                                   *)
(***************************************************************************)
Row  == [proxy : Proxies, enabled : BOOLEAN]

\* No proxy has two rows in a listing.
Distinct(rows) == \A i, j \in DOMAIN rows : rows[i].proxy = rows[j].proxy => i = j

\* A set of naturals that is not empty has a least element.
LEMMA LeastElement ==
  ASSUME NEW T \in SUBSET Nat, T # {}
  PROVE  \E x \in T : \A y \in T : x <= y
  <1> DEFINE R == OpToRel(<, Nat)
  <1>1. IsWellFoundedOn(R, Nat)
    BY NatLessThanWellFounded
  <1>2. \A x, y \in Nat : y < x => <<y, x>> \in R
    BY DEF OpToRel
  <1> HIDE DEF R
  <1>3. PICK x \in T : \A y \in T : ~ (<<y, x>> \in R)
    BY <1>1, WFMin
  <1>4. ASSUME NEW y \in T PROVE x <= y
    <2>1. x \in Nat /\ y \in Nat
      OBVIOUS
    <2>2. ~ (y < x)
      BY <1>2, <1>3, <2>1
    <2> QED BY <2>1, <2>2
  <1> QED BY <1>4

\* The enabled rows of a listing are rows of it, each once.
LEMMA EnabledRowsFacts ==
  ASSUME NEW rows \in Rows
  PROVE  /\ EnabledRows(rows) \in Rows
         /\ Distinct(rows) => Distinct(EnabledRows(rows))
  <1> DEFINE E       == {i \in DOMAIN rows : rows[i].enabled}
             Upto(i) == {j \in E : j <= i}
             C(i)    == Cardinality(Upto(i))
             n       == Len(rows)
             Pick(k) == CHOOSE i \in E : C(i) = k
  <1>1. /\ n \in Nat /\ DOMAIN rows = 1..n /\ E \subseteq 1..n
        /\ \A i \in E : rows[i] \in Row
    <2>1. rows \in Seq(Row)
      BY DEF Rows, Row
    <2>2. n \in Nat /\ rows \in [1..n -> Row] /\ DOMAIN rows = 1..n
      BY <2>1, LenProperties
    <2> QED BY <2>2
  <1>2. IsFiniteSet(1..n)
    BY <1>1, FS_Interval
  <1>3. IsFiniteSet(E)
    BY <1>1, <1>2, FS_Subset
  <1>4. \A i : IsFiniteSet(Upto(i)) /\ C(i) \in Nat
    BY <1>3, FS_Subset, FS_CardinalityType
  <1>5. C(0) = 0
    <2>1. Upto(0) = {}
      BY <1>1
    <2> QED BY <2>1, FS_EmptySet
  <1>6. C(n) = Cardinality(E)
    <2>1. Upto(n) = E
      BY <1>1
    <2> QED BY <2>1
  <1>7. ASSUME NEW i \in Nat
        PROVE  C(i + 1) = IF i + 1 \in E THEN C(i) + 1 ELSE C(i)
    <2>1. CASE i + 1 \in E
      <3>1. Upto(i + 1) = Upto(i) \cup {i + 1} /\ i + 1 \notin Upto(i)
        BY <1>1, <2>1
      <3> QED BY <1>4, <2>1, <3>1, FS_AddElement
    <2>2. CASE i + 1 \notin E
      <3>1. Upto(i + 1) = Upto(i)
        BY <1>1, <2>2
      <3> QED BY <2>2, <3>1
    <2> QED BY <2>1, <2>2
  <1> HIDE DEF C
  <1>8. ASSUME NEW k \in 1..Cardinality(E)
        PROVE  \E i \in E : C(i) = k
    <2> DEFINE T == {i \in Nat : C(i) >= k}
    <2>1. n \in T
      BY <1>1, <1>6
    <2>2. PICK x \in T : \A y \in T : x <= y
      BY <2>1, LeastElement
    <2>3. x \in Nat /\ C(x) >= k /\ x # 0
      BY <1>5
    <2>4. x - 1 \in Nat /\ ~(C(x - 1) >= k)
      BY <2>2, <2>3
    <2>5. C(x - 1) \in Nat /\ C(x) \in Nat
      BY <1>4 DEF C
    <2>6. C(x) = IF x \in E THEN C(x - 1) + 1 ELSE C(x - 1)
      <3>1. (x - 1) + 1 = x
        BY <2>3
      <3> QED BY <1>7, <2>4, <3>1
    <2>7. x \in E /\ C(x) = k
      BY <2>3, <2>4, <2>5, <2>6
    <2> QED BY <2>7
  <1>9. \A k \in 1..Cardinality(E) : Pick(k) \in E /\ C(Pick(k)) = k
    BY <1>8
  <1>10. Cardinality(E) \in Nat
    BY <1>3, FS_CardinalityType
  <1>11. EnabledRows(rows) = [k \in 1..Cardinality(E) |-> rows[Pick(k)]]
    BY DEF EnabledRows, C
  <1> HIDE DEF Pick, E
  <1>12. \A k \in 1..Cardinality(E) : rows[Pick(k)] \in Row
    BY <1>1, <1>9
  <1>13. EnabledRows(rows) \in Seq(Row)
    BY <1>10, <1>11, <1>12, IsASeq
  <1>14. ASSUME Distinct(rows) PROVE Distinct(EnabledRows(rows))
    <2> SUFFICES ASSUME NEW k \in 1..Cardinality(E), NEW l \in 1..Cardinality(E),
                        rows[Pick(k)].proxy = rows[Pick(l)].proxy
                 PROVE  k = l
      BY <1>11 DEF Distinct
    <2>1. Pick(k) = Pick(l)
      BY <1>1, <1>9, <1>14 DEF Distinct
    <2> QED BY <1>9, <2>1
  <1> QED BY <1>13, <1>14 DEF Rows, Row

\* What Next may return for a list is a proxy or the direct connection.
LEMMA PicksFacts ==
  ASSUME NEW l \in Rows
  PROVE  /\ Picks(l) \subseteq Draws
         /\ l # <<>> => Len(l) \in Nat \ {0} /\ Picks(l) = {l[i].proxy : i \in 1..Len(l)}
         /\ \A i \in DOMAIN l : l[i] \in Row /\ l[i].proxy \in Proxies
  <1>1. l \in Seq(Row)
    BY DEF Rows, Row
  <1>2. Len(l) \in Nat /\ DOMAIN l = 1..Len(l) /\ l \in [1..Len(l) -> Row]
    BY <1>1, LenProperties
  <1>3. l # <<>> => Len(l) # 0
    BY <1>1, EmptySeq
  <1>4. \A i \in DOMAIN l : l[i] \in Row /\ l[i].proxy \in Proxies
    BY <1>2 DEF Row
  <1> QED BY <1>2, <1>3, <1>4 DEF Picks, Draws

\* What is on offer.
Offers == Draws \cup AllModes

LEMMA OfferFacts ==
  ASSUME NEW rows \in Rows, NEW m \in AllModes
  PROVE  Offered(rows) \subseteq Offers /\ Offer(rows, m) \subseteq Offers
  <1>1. EnabledRows(rows) \in Rows
    BY EnabledRowsFacts
  <1>2. Offered(rows) \subseteq Draws
    BY <1>1, PicksFacts DEF Offered
  <1> QED BY <1>2 DEF Offer, Offers

\* A listing that failed is an empty one.
LEMMA NoRows == <<>> \in Rows /\ Distinct(<<>>)
  BY DEF Rows, Distinct

(***************************************************************************)
(* INSERT, UPDATE and DELETE leave rows with distinct ids: an id that is   *)
(* inserted was never handed out before.                                   *)
(***************************************************************************)
LEMMA StatementRows ==
  ASSUME table \in Rows, Distinct(table), created \subseteq Proxies,
         \A i \in DOMAIN table : table[i].proxy \in created,
         NEW rows \in Inserted \cup Updated \cup Deleted
  PROVE  rows \in Rows /\ Distinct(rows)
  <1> DEFINE n == Len(table)
  <1>1. table \in Seq(Row)
    BY DEF Rows, Row
  <1>2. n \in Nat /\ table \in [1..n -> Row] /\ DOMAIN table = 1..n
    BY <1>1, LenProperties
  <1>3. SUFFICES rows \in Seq(Row) /\ Distinct(rows)
    BY DEF Rows, Row
  <1>4. CASE rows \in Inserted
    <2>1. PICK p \in Proxies \ created, e \in BOOLEAN :
             rows = <<[proxy |-> p, enabled |-> e]>> \o table
      BY <1>4 DEF Inserted
    <2> DEFINE new == <<[proxy |-> p, enabled |-> e]>>
    <2>2. new \in Seq(Row) /\ Len(new) = 1 /\ new[1].proxy = p
      BY DEF Row
    <2> HIDE DEF new
    <2>3. /\ rows \in Seq(Row) /\ Len(rows) = 1 + n
          /\ \A i \in 1..1 + n : rows[i] = IF i <= 1 THEN new[i] ELSE table[i - 1]
      BY <1>1, <2>1, <2>2, ConcatProperties DEF new
    <2>4. DOMAIN rows = 1..1 + n
      BY <2>3, LenProperties
    <2>5. \A i \in 1..1 + n : IF i = 1 THEN rows[i].proxy = p
                              ELSE /\ i - 1 \in 1..n /\ rows[i].proxy = table[i - 1].proxy
                                   /\ rows[i].proxy # p
      BY <1>2, <2>2, <2>3
    <2>6. Distinct(rows)
      <3> SUFFICES ASSUME NEW i \in 1..1 + n, NEW j \in 1..1 + n,
                          rows[i].proxy = rows[j].proxy
                   PROVE  i = j
        BY <2>4 DEF Distinct
      <3>1. CASE i = 1 \/ j = 1
        BY <2>5, <3>1
      <3>2. CASE i # 1 /\ j # 1
        <4>1. i - 1 = j - 1
          BY <1>2, <2>5, <3>2 DEF Distinct
        <4> QED BY <1>2, <4>1
      <3> QED BY <3>1, <3>2
    <2> QED BY <2>3, <2>6
  <1>5. CASE rows \in Updated
    <2>1. PICK i \in 1..n, e \in BOOLEAN : rows = [table EXCEPT ![i].enabled = e]
      BY <1>2, <1>5 DEF Updated
    <2>2. [table[i] EXCEPT !.enabled = e] \in Row
      BY <1>2 DEF Row
    <2>3. /\ rows \in [1..n -> Row]
          /\ \A j \in 1..n : rows[j].proxy = table[j].proxy
      BY <1>2, <2>1, <2>2 DEF Row
    <2>4. Distinct(rows)
      BY <1>2, <2>3 DEF Distinct
    <2>5. rows = [j \in 1..n |-> rows[j]] /\ \A j \in 1..n : rows[j] \in Row
      BY <2>3
    <2>6. [j \in 1..n |-> rows[j]] \in Seq(Row)
      BY <1>2, <2>5, IsASeq
    <2> QED BY <2>4, <2>5, <2>6
  <1>6. CASE rows \in Deleted
    <2>1. PICK i \in 1..n : rows = SubSeq(table, 1, i - 1) \o SubSeq(table, i + 1, n)
      BY <1>2, <1>6 DEF Deleted, RemoveAt
    <2> DEFINE s == SubSeq(table, 1, i - 1)
               t == SubSeq(table, i + 1, n)
    <2>2. /\ s \in Seq(Row) /\ Len(s) = i - 1
          /\ \A j \in 1..i - 1 : s[j] = table[j]
      <3>1. \A j \in 1..i - 1 : table[j] \in Row
        BY <1>2
      <3>2. /\ s \in Seq(Row) /\ Len(s) = IF 1 <= i - 1 THEN (i - 1) - 1 + 1 ELSE 0
            /\ \A j \in 1..(i - 1) - 1 + 1 : s[j] = table[1 + j - 1]
        BY <1>2, <3>1, SubSeqProperties
      <3> HIDE DEF s
      <3> QED BY <3>2
    <2>3. /\ t \in Seq(Row) /\ Len(t) = n - i
          /\ \A j \in 1..n - i : t[j] = table[i + j]
      <3>1. \A j \in i + 1..n : table[j] \in Row
        BY <1>2
      <3>2. /\ t \in Seq(Row) /\ Len(t) = IF i + 1 <= n THEN n - (i + 1) + 1 ELSE 0
            /\ \A j \in 1..n - (i + 1) + 1 : t[j] = table[(i + 1) + j - 1]
        BY <1>2, <3>1, SubSeqProperties
      <3> HIDE DEF t
      <3>3. i \in 1..n /\ n \in Nat
        BY <1>2
      <3>4. Len(t) = n - i
        BY <3>2, <3>3
      <3>5. \A j \in 1..n - i : j \in 1..n - (i + 1) + 1 /\ (i + 1) + j - 1 = i + j
        BY <3>3
      <3>6. \A j \in 1..n - i : t[j] = table[i + j]
        BY <3>2, <3>5
      <3> QED BY <3>2, <3>4, <3>6
    <2> HIDE DEF s, t
    <2>4. /\ rows \in Seq(Row) /\ Len(rows) = Len(s) + Len(t)
          /\ \A j \in 1..Len(s) + Len(t) :
                rows[j] = IF j <= Len(s) THEN s[j] ELSE t[j - Len(s)]
      BY <2>1, <2>2, <2>3, ConcatProperties DEF s, t
    <2>5. DOMAIN rows = 1..n - 1
      BY <1>2, <2>2, <2>3, <2>4, LenProperties
    <2>6. \A j \in 1..n - 1 : rows[j] = IF j < i THEN table[j] ELSE table[j + 1]
      <3> SUFFICES ASSUME NEW j \in 1..n - 1
                   PROVE  rows[j] = IF j < i THEN table[j] ELSE table[j + 1]
        OBVIOUS
      <3>1. i \in 1..n /\ n \in Nat /\ j \in Int
        BY <1>2
      <3>2. Len(s) + Len(t) = n - 1 /\ Len(s) = i - 1
        BY <2>2, <2>3, <3>1
      <3>3. rows[j] = IF j <= i - 1 THEN s[j] ELSE t[j - (i - 1)]
        BY <2>4, <3>2
      <3>4. CASE j < i
        <4>1. j <= i - 1 /\ j \in 1..i - 1
          BY <3>1, <3>4
        <4> QED BY <2>2, <3>3, <3>4, <4>1
      <3>5. CASE ~ (j < i)
        <4>1. /\ ~ (j <= i - 1) /\ j - (i - 1) \in 1..n - i
              /\ i + (j - (i - 1)) = j + 1
          BY <3>1, <3>5
        <4> QED BY <2>3, <3>3, <3>5, <4>1
      <3> QED BY <3>4, <3>5
    <2>7. Distinct(rows)
      <3> SUFFICES ASSUME NEW j \in 1..n - 1, NEW k \in 1..n - 1,
                          rows[j].proxy = rows[k].proxy
                   PROVE  j = k
        BY <2>5 DEF Distinct
      <3> DEFINE at(m) == IF m < i THEN m ELSE m + 1
      <3>1. at(j) \in 1..n /\ at(k) \in 1..n
        BY <1>2
      <3>2. rows[j] = table[at(j)] /\ rows[k] = table[at(k)]
        BY <2>6
      <3>3. at(j) = at(k)
        BY <1>2, <3>1, <3>2 DEF Distinct
      <3> QED BY <1>2, <3>3
    <2> QED BY <2>4, <2>7
  <1> QED BY <1>4, <1>5, <1>6
-----------------------------------------------------------------------------
(***************************************************************************)
(* Types: whoever is about to call SetMode has a mode for it, and no       *)
(* listing, wherever it is on its way to the pool, names a proxy twice.    *)
(***************************************************************************)
ActorTypes == [at : {"rest", "list", "set", "mode", "draw", "busy"}, rows : Rows,
               mode : AllModes \cup {"none"}, proxy : Draws \cup {"none"}]

HeldModes == \A a \in Actors : HoldsMode(a) => actor[a].mode \in AllModes

RowsDistinct ==
    /\ Distinct(table) /\ Distinct(list)
    /\ \A i \in DOMAIN table : table[i].proxy \in created
    /\ \A a \in Actors : Distinct(actor[a].rows)

TypeInv == TypeOK /\ HeldModes /\ RowsDistinct

\* The initial states.
LEMMA TypeInitially == Init => TypeInv
  <1> SUFFICES ASSUME Init PROVE TypeInv
    OBVIOUS
  <1>1. Initial \in Rows /\ Distinct(Initial)
    BY InitialAssumption, KeysAssumption DEF Rows, Distinct
  <1>2. EnabledRows(Initial) \in Rows /\ Distinct(EnabledRows(Initial))
    BY <1>1, EnabledRowsFacts
  <1>3. created \subseteq Proxies
    BY <1>1, PicksFacts DEF Init
  <1>4. /\ Resting \in ActorTypes /\ Resting.at = "rest"
        /\ Distinct(Resting.rows)
    BY NoRows DEF Resting, Doing, ActorTypes
  <1>5. actor \in [Actors -> ActorTypes]
    BY <1>4 DEF Init
  <1>6. TypeOK
    BY <1>1, <1>2, <1>3, <1>5, InitialAssumption DEF Init, TypeOK, ActorTypes, AllModes
  <1>7. HeldModes /\ RowsDistinct
    BY <1>1, <1>2, <1>4 DEF Init, HeldModes, HoldsMode, RowsDistinct
  <1> QED BY <1>6, <1>7 DEF TypeInv

\* What an actor of the step's kind adds to those who stay as they are.
LEMMA ActorStep ==
  ASSUME TypeInv, NEW a \in Actors, NEW step \in ActorTypes,
         actor' = [actor EXCEPT ![a] = step],
         step.at = "mode" \/ (a \in Workers /\ step.at \in {"list", "set"}) =>
             step.mode \in AllModes,
         Distinct(step.rows)
  PROVE  /\ actor' \in [Actors -> ActorTypes] /\ HeldModes'
         /\ \A b \in Actors : Distinct(actor'[b].rows)
         /\ actor'[a] = step /\ \A b \in Actors \ {a} : actor'[b] = actor[b]
  <1>1. actor \in [Actors -> ActorTypes]
    BY DEF TypeInv, TypeOK, ActorTypes
  <1>2. /\ actor' \in [Actors -> ActorTypes]
        /\ actor'[a] = step /\ \A b \in Actors \ {a} : actor'[b] = actor[b]
    BY <1>1
  <1>3. HeldModes'
    BY <1>2 DEF TypeInv, HeldModes, HoldsMode
  <1>4. \A b \in Actors : Distinct(actor'[b].rows)
    BY <1>2 DEF TypeInv, RowsDistinct
  <1> QED BY <1>2, <1>3, <1>4

\* Steps that actors take without a listing.
LEMMA PlainStep ==
  ASSUME NEW at \in {"rest", "list", "set", "mode", "draw", "busy"},
         NEW m \in AllModes \cup {"none"}, NEW p \in Draws \cup {"none"}
  PROVE  /\ Doing(at, <<>>, m, p) \in ActorTypes
         /\ Doing(at, <<>>, m, p).at = at /\ Doing(at, <<>>, m, p).mode = m
         /\ Distinct(Doing(at, <<>>, m, p).rows)
  BY NoRows DEF Doing, ActorTypes

\* What is recorded of actors are offers.
HistoryTyped == own \in [Actors -> SUBSET Offers] /\ seen \in [Workers -> SUBSET Offers]

LEMMA HistoryIsTyped == TypeInv => HistoryTyped
  BY DEF TypeInv, TypeOK, HistoryTyped, Offers

LEMMA GrownTypes ==
  ASSUME HistoryTyped, NEW offer \in SUBSET Offers
  PROVE  /\ Grown(own, offer) \in [Actors -> SUBSET Offers]
         /\ Grown(seen, offer) \in [Workers -> SUBSET Offers]
  BY DEF HistoryTyped, Grown

LEMMA StartSeenTypes ==
  ASSUME TypeInv, NEW a \in Actors, NEW offer \in SUBSET Offers, StartSeen(a, offer)
  PROVE  HistoryTyped'
  <1> DEFINE now == offer \cup Offer(table, saved)
             met == UNION {own[b] : b \in {c \in Actors : Active(c)}}
  <1>1. HistoryTyped /\ table \in Rows /\ saved \in AllModes
    BY HistoryIsTyped DEF TypeInv, TypeOK
  <1>2. now \in SUBSET Offers
    BY <1>1, OfferFacts
  <1>3. met \in SUBSET Offers
    BY <1>1 DEF HistoryTyped
  <1>4. /\ Grown(own, offer) \in [Actors -> SUBSET Offers]
        /\ Grown(seen, offer) \in [Workers -> SUBSET Offers]
    BY <1>1, GrownTypes
  <1>5. /\ own' = [Grown(own, offer) EXCEPT ![a] = now]
        /\ seen' = [w \in Workers |-> IF w = a THEN now \cup met ELSE Grown(seen, offer)[w]]
    BY DEF StartSeen
  <1>6. now \cup met \in SUBSET Offers
    BY <1>2, <1>3
  <1> HIDE DEF now, met
  <1>7. own' \in [Actors -> SUBSET Offers]
    BY <1>2, <1>4, <1>5
  <1>8. seen' \in [Workers -> SUBSET Offers]
    BY <1>4, <1>5, <1>6
  <1> QED BY <1>7, <1>8 DEF HistoryTyped

\* Rest leaves nothing behind.
LEMMA RestTypes ==
  ASSUME TypeInv, NEW a \in Actors, Rest(a)
  PROVE  /\ actor' \in [Actors -> ActorTypes] /\ HeldModes'
         /\ \A b \in Actors : Distinct(actor'[b].rows)
         /\ HistoryTyped'
  <1> DEFINE step == Doing("rest", <<>>, "none", "none")
  <1>1. step \in ActorTypes /\ step.at = "rest" /\ Distinct(step.rows)
    BY PlainStep
  <1>2. actor' = [actor EXCEPT ![a] = step]
    BY DEF Rest, Resting
  <1> HIDE DEF step
  <1>3. /\ actor' \in [Actors -> ActorTypes] /\ HeldModes'
        /\ \A b \in Actors : Distinct(actor'[b].rows)
    BY <1>1, <1>2, ActorStep
  <1>4. HistoryTyped'
    BY HistoryIsTyped DEF Rest, HistoryTyped
  <1> QED BY <1>3, <1>4

\* Proceed, with the step that a worker goes on with.
LEMMA ProceedTypes ==
  ASSUME TypeInv, NEW a \in Actors, NEW step \in ActorTypes, Proceed(a, step),
         a \in Workers /\ step.at \in {"list", "set", "mode"} => step.mode \in AllModes,
         Distinct(step.rows)
  PROVE  /\ actor' \in [Actors -> ActorTypes] /\ HeldModes'
         /\ \A b \in Actors : Distinct(actor'[b].rows)
         /\ HistoryTyped'
  <1>1. CASE a \in Workers
    <2>1. actor' = [actor EXCEPT ![a] = step] /\ own' = own /\ seen' = seen
      BY <1>1 DEF Proceed, history
    <2>2. HistoryTyped'
      BY <2>1, HistoryIsTyped DEF HistoryTyped
    <2> QED BY <1>1, <2>1, <2>2, ActorStep
  <1>2. CASE a \notin Workers
    BY <1>2, RestTypes DEF Proceed
  <1> QED BY <1>1, <1>2

\* The type invariant, action by action.
LEMMA EditTableTypes ==
  ASSUME TypeInv, NEW a \in Actors, NEW rows \in Inserted \cup Updated \cup Deleted,
         EditTable(a, rows), a \notin Workers
  PROVE  TypeInv'
  <1>1. /\ table \in Rows /\ Distinct(table) /\ created \subseteq Proxies
        /\ \A i \in DOMAIN table : table[i].proxy \in created
        /\ saved \in AllModes
    BY DEF TypeInv, TypeOK, RowsDistinct, AllModes
  <1>2. rows \in Rows /\ Distinct(rows)
    BY <1>1, StatementRows
  <1> DEFINE step == Doing("list", <<>>, "none", "none")
  <1>3. step \in ActorTypes /\ step.at = "list" /\ Distinct(step.rows)
    BY PlainStep
  <1>4. actor' = [actor EXCEPT ![a] = step]
    BY DEF EditTable, Start
  <1> HIDE DEF step
  <1>5. /\ actor' \in [Actors -> ActorTypes] /\ HeldModes'
        /\ \A b \in Actors : Distinct(actor'[b].rows)
    BY <1>3, <1>4, ActorStep
  <1>6. StartSeen(a, Offer(rows, saved)) /\ Offer(rows, saved) \in SUBSET Offers
    BY <1>1, <1>2, OfferFacts DEF EditTable
  <1>7. HistoryTyped'
    BY <1>6, StartSeenTypes
  <1>8. /\ table' = rows /\ created' = created \cup {rows[i].proxy : i \in DOMAIN rows}
        /\ edits' = edits + 1
        /\ UNCHANGED <<saved, list, mode, index, sticky, errors, last>>
    BY DEF EditTable, pool
  <1>9. created' \subseteq Proxies /\ \A i \in DOMAIN table' : table'[i].proxy \in created'
    BY <1>1, <1>2, <1>8, PicksFacts
  <1>10. TypeOK'
    BY <1>2, <1>5, <1>7, <1>8, <1>9 DEF TypeInv, TypeOK, ActorTypes, HistoryTyped, Offers
  <1>11. RowsDistinct'
    BY <1>2, <1>5, <1>8, <1>9 DEF TypeInv, RowsDistinct
  <1> QED BY <1>5, <1>10, <1>11 DEF TypeInv

LEMMA SaveSettingsTypes ==
  ASSUME TypeInv, NEW a \in Actors, NEW m \in Modes, SaveSettings(a, m)
  PROVE  TypeInv'
  <1>1. table \in Rows /\ m \in AllModes
    BY DEF TypeInv, TypeOK, AllModes
  <1> DEFINE step == Doing("mode", <<>>, m, "none")
  <1>2. step \in ActorTypes /\ step.mode = m /\ Distinct(step.rows)
    BY <1>1, PlainStep
  <1>3. actor' = [actor EXCEPT ![a] = step]
    BY DEF SaveSettings, Start
  <1> HIDE DEF step
  <1>4. /\ actor' \in [Actors -> ActorTypes] /\ HeldModes'
        /\ \A b \in Actors : Distinct(actor'[b].rows)
    BY <1>1, <1>2, <1>3, ActorStep
  <1>5. StartSeen(a, Offer(table, m)) /\ Offer(table, m) \in SUBSET Offers
    BY <1>1, OfferFacts DEF SaveSettings
  <1>6. HistoryTyped'
    BY <1>5, StartSeenTypes
  <1>7. /\ saved' = m /\ edits' = edits + 1
        /\ UNCHANGED <<table, created, list, mode, index, sticky, errors, last>>
    BY DEF SaveSettings, pool
  <1>8. TypeOK'
    BY <1>1, <1>4, <1>6, <1>7 DEF TypeInv, TypeOK, ActorTypes, HistoryTyped, Offers
  <1>9. RowsDistinct'
    BY <1>4, <1>7 DEF TypeInv, RowsDistinct
  <1> QED BY <1>4, <1>8, <1>9 DEF TypeInv

LEMMA StartJobTypes ==
  ASSUME TypeInv, NEW w \in Workers, StartJob(w)
  PROVE  TypeInv'
  <1>1. w \in Actors /\ saved \in AllModes /\ "random" \in AllModes
    BY DEF TypeInv, TypeOK, AllModes, Actors
  <1>2. /\ errors' \in Nat
        /\ UNCHANGED <<table, saved, created, edits, list, mode, index, sticky, last>>
    BY DEF StartJob, store, pool, TypeInv, TypeOK
  <1>3. PICK m \in AllModes, offer \in SUBSET Offers :
           Start(w, Doing("list", <<>>, m, "none")) /\ StartSeen(w, offer)
    <2>1. {} \in SUBSET Offers /\ {"random"} \in SUBSET Offers
      BY <1>1 DEF Offers
    <2>2. CASE Start(w, Doing("list", <<>>, saved, "none")) /\ StartSeen(w, {})
      BY <1>1, <2>1, <2>2
    <2>3. CASE Start(w, Doing("list", <<>>, "random", "none")) /\ StartSeen(w, {"random"})
      BY <1>1, <2>1, <2>3
    <2> QED BY <2>2, <2>3 DEF StartJob
  <1> DEFINE step == Doing("list", <<>>, m, "none")
  <1>4. step \in ActorTypes /\ step.mode = m /\ Distinct(step.rows)
    BY PlainStep
  <1>5. actor' = [actor EXCEPT ![w] = step]
    BY <1>3 DEF Start
  <1> HIDE DEF step
  <1>6. /\ actor' \in [Actors -> ActorTypes] /\ HeldModes'
        /\ \A b \in Actors : Distinct(actor'[b].rows)
    BY <1>1, <1>4, <1>5, ActorStep
  <1>7. HistoryTyped'
    BY <1>1, <1>3, StartSeenTypes
  <1>8. TypeOK'
    BY <1>2, <1>6, <1>7 DEF TypeInv, TypeOK, ActorTypes, HistoryTyped, Offers
  <1>9. RowsDistinct'
    BY <1>2, <1>6 DEF TypeInv, RowsDistinct
  <1> QED BY <1>6, <1>8, <1>9 DEF TypeInv

LEMMA ListProxiesTypes ==
  ASSUME TypeInv, NEW a \in Actors, ListProxies(a)
  PROVE  TypeInv'
  <1>1. /\ actor[a].at = "list" /\ actor[a] \in ActorTypes
        /\ table \in Rows /\ Distinct(table)
        /\ actor[a].mode \in AllModes \/ a \notin Workers
    BY DEF ListProxies, TypeInv, TypeOK, RowsDistinct, HeldModes, HoldsMode, ActorTypes
  <1>2. PICK rows \in Rows :
           /\ Distinct(rows)
           /\ actor' = [actor EXCEPT ![a] = Doing("set", rows, actor[a].mode, "none")]
    BY <1>1, NoRows DEF ListProxies
  <1>3. Offered(<<>>) \in SUBSET Offers
    BY NoRows, OfferFacts DEF AllModes
  <1>4. HistoryTyped'
    <2>1. UNCHANGED <<own, seen>> \/ Witness(Offered(<<>>))
      BY DEF ListProxies, history
    <2> QED BY <1>3, <2>1, HistoryIsTyped, GrownTypes DEF Witness, HistoryTyped
  <1>5. /\ errors' \in Nat
        /\ UNCHANGED <<table, saved, created, edits, list, mode, index, sticky, last>>
    BY DEF ListProxies, store, pool, TypeInv, TypeOK
  <1> DEFINE step == Doing("set", rows, actor[a].mode, "none")
  <1>6. /\ step \in ActorTypes /\ step.rows = rows /\ step.at = "set"
        /\ step.mode = actor[a].mode
    BY <1>1 DEF Doing, ActorTypes
  <1> HIDE DEF step
  <1>7. /\ actor' \in [Actors -> ActorTypes] /\ HeldModes'
        /\ \A b \in Actors : Distinct(actor'[b].rows)
    BY <1>1, <1>2, <1>6, ActorStep DEF step
  <1>8. TypeOK'
    BY <1>4, <1>5, <1>7 DEF TypeInv, TypeOK, ActorTypes, HistoryTyped, Offers
  <1>9. RowsDistinct'
    BY <1>5, <1>7 DEF TypeInv, RowsDistinct
  <1> QED BY <1>7, <1>8, <1>9 DEF TypeInv

LEMMA SetProxiesTypes ==
  ASSUME TypeInv, NEW a \in Actors, SetProxies(a)
  PROVE  TypeInv'
  <1>1. /\ actor[a].at = "set" /\ actor[a] \in ActorTypes /\ actor[a].rows \in Rows
        /\ Distinct(actor[a].rows) /\ actor[a].mode \in AllModes \cup {"none"}
        /\ a \in Workers => actor[a].mode \in AllModes
    BY DEF SetProxies, TypeInv, TypeOK, RowsDistinct, HeldModes, HoldsMode, ActorTypes
  <1>2. list' \in Rows /\ Distinct(list')
    BY <1>1, EnabledRowsFacts DEF SetProxies
  <1> DEFINE step == Doing("mode", <<>>, actor[a].mode, "none")
  <1>3. step \in ActorTypes /\ step.mode = actor[a].mode /\ Distinct(step.rows)
    BY <1>1, PlainStep
  <1>4. Proceed(a, step)
    BY DEF SetProxies
  <1> HIDE DEF step
  <1>5. /\ actor' \in [Actors -> ActorTypes] /\ HeldModes'
        /\ \A b \in Actors : Distinct(actor'[b].rows)
        /\ HistoryTyped'
    BY <1>1, <1>3, <1>4, ProceedTypes
  <1>6. /\ index' \in Nat /\ last' \in Draws \cup {"none"}
        /\ UNCHANGED <<table, saved, created, edits, mode, sticky, errors>>
    BY DEF SetProxies, store, TypeInv, TypeOK
  <1>7. TypeOK'
    BY <1>2, <1>5, <1>6 DEF TypeInv, TypeOK, ActorTypes, HistoryTyped, Offers
  <1>8. RowsDistinct'
    BY <1>2, <1>5, <1>6 DEF TypeInv, RowsDistinct
  <1> QED BY <1>5, <1>7, <1>8 DEF TypeInv

LEMMA SetModeTypes ==
  ASSUME TypeInv, NEW a \in Actors, SetMode(a)
  PROVE  TypeInv'
  <1>1. actor[a].at = "mode" /\ actor[a].mode \in AllModes
    BY DEF SetMode, TypeInv, HeldModes, HoldsMode
  <1> DEFINE step == Doing("draw", <<>>, "none", "none")
  <1>2. step \in ActorTypes /\ step.at = "draw" /\ Distinct(step.rows)
    BY PlainStep
  <1>3. Proceed(a, step)
    BY DEF SetMode
  <1> HIDE DEF step
  <1>4. /\ actor' \in [Actors -> ActorTypes] /\ HeldModes'
        /\ \A b \in Actors : Distinct(actor'[b].rows)
        /\ HistoryTyped'
    BY <1>2, <1>3, ProceedTypes
  <1>5. /\ mode' \in AllModes /\ sticky' = "none" /\ last' \in Draws \cup {"none"}
        /\ UNCHANGED <<table, saved, created, edits, list, index, errors>>
    BY <1>1 DEF SetMode, store, TypeInv, TypeOK
  <1>6. TypeOK'
    BY <1>4, <1>5 DEF TypeInv, TypeOK, ActorTypes, HistoryTyped, Offers
  <1>7. RowsDistinct'
    BY <1>4, <1>5 DEF TypeInv, RowsDistinct
  <1> QED BY <1>4, <1>6, <1>7 DEF TypeInv

LEMMA ResolveTypes ==
  ASSUME TypeInv, NEW w \in Workers, NEW p \in Draws, Resolve(w, p)
  PROVE  TypeInv'
  <1>1. w \in Actors /\ mode \in AllModes
    BY DEF TypeInv, TypeOK, Actors
  <1> DEFINE step == Doing("busy", <<>>, mode, p)
  <1>2. step \in ActorTypes /\ step.at = "busy" /\ Distinct(step.rows)
    BY <1>1, PlainStep
  <1>3. actor' = [actor EXCEPT ![w] = step]
    BY DEF Resolve
  <1> HIDE DEF step
  <1>4. /\ actor' \in [Actors -> ActorTypes] /\ HeldModes'
        /\ \A b \in Actors : Distinct(actor'[b].rows)
    BY <1>1, <1>2, <1>3, ActorStep
  <1>5. index' \in Nat /\ sticky' \in Draws \cup {"none"}
    BY DEF Resolve, NextEmpty, NextRandom, NextTurn, NextSticky, TypeInv, TypeOK
  <1>6. /\ last' \in Draws
        /\ UNCHANGED <<table, saved, created, edits, list, mode, errors, own, seen>>
    BY DEF Resolve, store, history
  <1>7. TypeOK'
    BY <1>4, <1>5, <1>6 DEF TypeInv, TypeOK, ActorTypes, HistoryTyped, Offers
  <1>8. RowsDistinct'
    BY <1>4, <1>6 DEF TypeInv, RowsDistinct
  <1> QED BY <1>4, <1>7, <1>8 DEF TypeInv

LEMMA EndJobTypes ==
  ASSUME TypeInv, NEW w \in Workers, EndJob(w)
  PROVE  TypeInv'
  <1>1. /\ actor' \in [Actors -> ActorTypes] /\ HeldModes'
        /\ \A b \in Actors : Distinct(actor'[b].rows)
        /\ HistoryTyped'
    BY RestTypes DEF EndJob, Actors
  <1>2. UNCHANGED <<table, saved, created, edits, list, mode, index, sticky, errors, last>>
    BY DEF EndJob, store, pool
  <1>3. TypeOK'
    BY <1>1, <1>2 DEF TypeInv, TypeOK, ActorTypes, HistoryTyped, Offers
  <1>4. RowsDistinct'
    BY <1>1, <1>2 DEF TypeInv, RowsDistinct
  <1> QED BY <1>1, <1>3, <1>4 DEF TypeInv

LEMMA TypeStep ==
  ASSUME TypeInv, [Next]_vars
  PROVE  TypeInv'
  <1>1. ASSUME NEW a \in Admins, Edit(a) PROVE TypeInv'
    <2>1. a \in Actors /\ a \notin Workers
      BY ActorsAssumption DEF Actors
    <2> QED BY <1>1, <2>1, EditTableTypes, SaveSettingsTypes DEF Edit
  <1>2. ASSUME NEW a \in Actors, ListProxies(a) \/ SetProxies(a) \/ SetMode(a)
        PROVE  TypeInv'
    BY <1>2, ListProxiesTypes, SetProxiesTypes, SetModeTypes
  <1>3. ASSUME NEW w \in Workers, StartJob(w) \/ EndJob(w) \/ \E p \in Draws : Resolve(w, p)
        PROVE  TypeInv'
    BY <1>3, StartJobTypes, EndJobTypes, ResolveTypes
  <1>4. CASE UNCHANGED vars
    BY <1>4 DEF vars, TypeInv, TypeOK, HeldModes, HoldsMode, RowsDistinct
  <1> QED BY <1>1, <1>2, <1>3, <1>4 DEF Next

LEMMA TypeInvariant == Spec => []TypeInv
  <1> QED BY TypeInitially, TypeStep, PTL DEF Spec

(***************************************************************************)
(* The table, the listings on their way and the pool keep their types,     *)
(* whichever statements and reads fail and whatever is saved: the modes    *)
(* that reach SetMode are texts that somebody saved, or random.            *)
(***************************************************************************)
THEOREM ProxyPoolTypeCorrect == Spec => []TypeOK
  <1>1. TypeInv => TypeOK
    BY DEF TypeInv
  <1> QED BY <1>1, TypeInvariant, PTL
-----------------------------------------------------------------------------
(***************************************************************************)
(* Rotation.                                                               *)
(***************************************************************************)
\* A remainder, given the quotient.
LEMMA ModIs ==
  ASSUME NEW n \in Nat \ {0}, NEW q \in Nat, NEW r \in 0..n - 1
  PROVE  (n * q + r) % n = r
  OBVIOUS

LEMMA DivMod ==
  ASSUME NEW n \in Nat \ {0}, NEW i \in Nat
  PROVE  \E q \in Nat : i = n * q + (i % n)
  <1>1. i \div n \in Nat /\ i = n * (i \div n) + (i % n)
    OBVIOUS
  <1> QED BY <1>1

\* The remainder of a successor.
LEMMA ModNext ==
  ASSUME NEW n \in Nat \ {0}, NEW i \in Nat
  PROVE  (i + 1) % n = (1 + (i % n)) % n
  <1> DEFINE r == i % n
  <1>1. PICK q \in Nat : i = n * q + r
    BY DivMod
  <1>2. r \in 0..n - 1
    OBVIOUS
  <1> HIDE DEF r
  <1>3. CASE r + 1 = n
    <2>1. i + 1 = n * (q + 1) + 0
      BY <1>1, <1>2, <1>3
    <2>2. (i + 1) % n = 0
      <3>1. q + 1 \in Nat /\ 0 \in 0..n - 1
        OBVIOUS
      <3>2. (n * (q + 1) + 0) % n = 0
        BY <3>1, ModIs
      <3> QED BY <2>1, <3>2
    <2>3. (1 + r) % n = 0
      <3>1. 1 + r = n * 1 + 0
        BY <1>2, <1>3
      <3> QED BY <3>1, ModIs
    <2> QED BY <2>2, <2>3 DEF r
  <1>4. CASE r + 1 # n
    <2>1. r + 1 \in 0..n - 1 /\ i + 1 = n * q + (r + 1)
      BY <1>1, <1>2, <1>4
    <2>2. (i + 1) % n = r + 1
      BY <2>1, ModIs
    <2>3. (1 + r) % n = r + 1
      <3>1. 1 + r = n * 0 + (r + 1)
        BY <1>2
      <3> QED BY <2>1, <3>1, ModIs
    <2> QED BY <2>2, <2>3 DEF r
  <1> QED BY <1>3, <1>4

LEMMA ModFacts ==
  ASSUME NEW n \in Nat \ {0}, NEW i \in Nat
  PROVE  /\ i % n \in 0..n - 1
         /\ i < n => i % n = i
         /\ i >= n => i % n <= i - n
         /\ n % n = 0
  <1>1. i % n \in 0..n - 1
    OBVIOUS
  <1>2. i < n => i % n = i
    OBVIOUS
  <1>3. i >= n => i % n <= i - n
    OBVIOUS
  <1>4. n % n = 0
    OBVIOUS
  <1> QED BY <1>1, <1>2, <1>3, <1>4

(***************************************************************************)
(* The workers that have listed and not yet drawn: each can still take the *)
(* index one further before it is checked against the list again.          *)
(***************************************************************************)
Ahead == {w \in Workers : actor[w].at \in {"mode", "draw"}}

IndexBounded ==
    IF list = <<>> THEN index = 0
    ELSE index + Cardinality(Ahead) < Len(list) + Cardinality(Workers)

(***************************************************************************)
(* Where the index stands relative to the proxy drawn last: behind it, or  *)
(* reset after the whole list, or reset after as many as other workers can *)
(* have drawn past its end.                                                *)
(***************************************************************************)
LastTurn ==
    mode = "round_robin" /\ last \in Picks(list) \ {"direct"} =>
        \/ index > 0 /\ Position(last) = 1 + ((index - 1) % Len(list))
        \/ index = 0 /\ (Position(last) = Len(list) \/ Position(last) < Cardinality(Workers))

TurnInv == IndexBounded /\ LastTurn

LEMMA AheadFacts ==
  ASSUME NEW S \in SUBSET Workers
  PROVE  /\ IsFiniteSet(S) /\ Cardinality(S) \in Nat
         /\ Cardinality(Workers) \in Nat /\ Cardinality(S) <= Cardinality(Workers)
         /\ \A T \in SUBSET S : Cardinality(T) \in Nat /\ Cardinality(T) <= Cardinality(S)
         /\ \A w \in S : Cardinality(S \ {w}) = Cardinality(S) - 1
  <1>1. IsFiniteSet(S) /\ Cardinality(S) <= Cardinality(Workers)
    BY WorkersAssumption, FS_Subset
  <1>2. Cardinality(S) \in Nat /\ Cardinality(Workers) \in Nat
    BY <1>1, WorkersAssumption, FS_CardinalityType
  <1>3. ASSUME NEW T \in SUBSET S
        PROVE  Cardinality(T) \in Nat /\ Cardinality(T) <= Cardinality(S)
    BY <1>1, FS_Subset, FS_CardinalityType
  <1>4. ASSUME NEW w \in S PROVE Cardinality(S \ {w}) = Cardinality(S) - 1
    BY <1>1, FS_RemoveElement
  <1> QED BY <1>1, <1>2, <1>3, <1>4

\* A proxy of the list has one place in it.
LEMMA PositionFacts ==
  ASSUME list \in Rows, Distinct(list), NEW i \in DOMAIN list
  PROVE  Position(list[i].proxy) = i
  BY DEF Distinct, Position

LEMMA PositionInList ==
  ASSUME list \in Rows, NEW p \in Picks(list) \ {"direct"}
  PROVE  list # <<>> /\ Position(p) \in 1..Len(list) /\ Len(list) \in Nat \ {0}
  <1>1. list # <<>>
    BY DEF Picks
  <1>2. Len(list) \in Nat \ {0} /\ \E i \in 1..Len(list) : list[i].proxy = p
    BY <1>1, PicksFacts
  <1>3. DOMAIN list = 1..Len(list)
    BY LenProperties DEF Rows
  <1> QED BY <1>1, <1>2, <1>3 DEF Position

LEMMA TurnInitially == Init => TurnInv
  <1> SUFFICES ASSUME Init PROVE TurnInv
    OBVIOUS
  <1>1. Ahead = {}
    BY DEF Init, Ahead, Actors, Resting, Doing
  <1>2. Cardinality(Ahead) = 0 /\ Cardinality(Workers) \in Nat
    BY <1>1, FS_EmptySet, WorkersAssumption, FS_CardinalityType
  <1>3. list \in Rows /\ index = 0
    BY TypeInitially DEF TypeInv, TypeOK, Init
  <1>4. IndexBounded
    BY <1>2, <1>3, PicksFacts DEF IndexBounded
  <1>5. LastTurn
    BY <1>3, PicksFacts, NamesAssumption DEF Init, LastTurn, Picks
  <1> QED BY <1>4, <1>5 DEF TurnInv

\* Steps that leave the list, mode and index alone and bring no worker to
\* where it can draw.
LEMMA TurnKept ==
  ASSUME TypeInv, TurnInv, UNCHANGED <<list, mode, index, last>>, Ahead' \subseteq Ahead
  PROVE  TurnInv'
  <1>1. /\ Cardinality(Ahead) \in Nat /\ Cardinality(Ahead') \in Nat
        /\ Cardinality(Ahead') <= Cardinality(Ahead) /\ Cardinality(Workers) \in Nat
    BY AheadFacts DEF Ahead
  <1>2. index \in Nat /\ list \in Rows
    BY DEF TypeInv, TypeOK
  <1>3. IndexBounded'
    BY <1>1, <1>2, PicksFacts DEF TurnInv, IndexBounded
  <1>4. LastTurn'
    BY DEF TurnInv, LastTurn, Position
  <1> QED BY <1>3, <1>4 DEF TurnInv

\* SetProxies: the list is the one before and the index may be reset, or the
\* rotation begins anew.
LEMMA SetProxiesTurn ==
  ASSUME TypeInv, TypeInv', TurnInv, NEW a \in Actors, SetProxies(a)
  PROVE  TurnInv'
  <1> DEFINE W == Cardinality(Workers)
             n == Len(list)
  <1>1. /\ index' = IF index >= Len(list') THEN 0 ELSE index
        /\ last' = IF list' = list THEN last ELSE "none"
        /\ mode' = mode
    BY DEF SetProxies
  <1>2. /\ list \in Rows /\ list' \in Rows /\ index \in Nat
        /\ Distinct(list) /\ Len(list') \in Nat
        /\ list' # <<>> => Len(list') # 0
        /\ list' = <<>> => Len(list') = 0
    <2>1. list \in Rows /\ list' \in Rows /\ index \in Nat /\ Distinct(list)
      BY DEF TypeInv, TypeOK, RowsDistinct
    <2>2. list' \in Seq(Row)
      BY <2>1 DEF Rows, Row
    <2> QED BY <2>1, <2>2, LenProperties, EmptySeq
  <1>3. /\ Cardinality(Ahead) \in Nat /\ Cardinality(Ahead') \in Nat /\ W \in Nat
        /\ Cardinality(Ahead') <= W
    BY AheadFacts DEF Ahead
  <1>4. IndexBounded'
    <2>1. CASE list' = <<>>
      BY <1>1, <1>2, <2>1 DEF IndexBounded
    <2>2. CASE list' # <<>>
      <3>1. index' < Len(list') /\ index' \in Nat
        BY <1>1, <1>2, <2>2
      <3>2. index' + Cardinality(Ahead') < Len(list') + W
        BY <1>2, <1>3, <3>1
      <3> QED BY <2>2, <3>2 DEF IndexBounded
    <2> QED BY <2>1, <2>2
  <1>5. LastTurn'
    <2> SUFFICES ASSUME mode' = "round_robin", last' \in Picks(list') \ {"direct"}
                 PROVE  \/ index' > 0 /\ Position(last)' = 1 + ((index' - 1) % Len(list'))
                        \/ /\ index' = 0
                           /\ Position(last)' = Len(list') \/ Position(last)' < W
      BY DEF LastTurn
    <2>1. list' = list /\ last' = last
      <3>1. Picks(list') \subseteq Draws
        BY <1>2, PicksFacts
      <3> QED BY <1>1, <3>1, NamesAssumption DEF Draws
    <2>2. Position(last)' = Position(last)
      BY <2>1 DEF Position
    <2>3. /\ mode = "round_robin" /\ last \in Picks(list) \ {"direct"}
          /\ list # <<>> /\ Position(last) \in 1..n /\ n \in Nat \ {0}
      BY <1>1, <1>2, <2>1, PositionInList
    <2>4. \/ index > 0 /\ Position(last) = 1 + ((index - 1) % n)
          \/ index = 0 /\ (Position(last) = n \/ Position(last) < W)
      BY <2>3 DEF TurnInv, LastTurn
    <2>5. index < n + W
      <3>1. index + Cardinality(Ahead) < n + W
        BY <2>3 DEF TurnInv, IndexBounded
      <3> QED BY <1>2, <1>3, <2>3, <3>1
    <2>6. CASE index < n
      BY <1>1, <1>2, <2>1, <2>2, <2>3, <2>4, <2>6
    <2>7. CASE index >= n
      <3>1. index' = 0 /\ index > 0 /\ index - 1 \in Nat
        BY <1>1, <1>2, <2>1, <2>3, <2>7
      <3>2. Position(last) = 1 + ((index - 1) % n)
        BY <1>2, <2>4, <3>1
      <3>3. CASE index - 1 < n
        <4>1. (index - 1) % n = index - 1
          BY <2>3, <3>1, <3>3, ModFacts
        <4>2. index = n
          BY <1>2, <2>3, <2>7, <3>3
        <4> QED BY <2>1, <2>2, <2>3, <3>1, <3>2, <4>1, <4>2
      <3>4. CASE index - 1 >= n
        <4>1. (index - 1) % n <= (index - 1) - n /\ (index - 1) % n \in Nat
          <5>1. (index - 1) % n <= (index - 1) - n
            BY <2>3, <3>1, <3>4, ModFacts
          <5>2. (index - 1) % n \in 0..n - 1
            BY <2>3, <3>1, ModFacts
          <5> QED BY <2>3, <5>1, <5>2
        <4>2. Position(last) < W
          BY <1>2, <1>3, <2>3, <2>5, <3>2, <4>1
        <4> QED BY <2>2, <3>1, <4>2
      <3> QED BY <1>2, <2>3, <3>3, <3>4
    <2> QED BY <1>2, <2>3, <2>6, <2>7
  <1> QED BY <1>4, <1>5 DEF TurnInv

\* SetMode: a worker that may draw now was counted before.
LEMMA SetModeTurn ==
  ASSUME TypeInv, TurnInv, NEW a \in Actors, SetMode(a)
  PROVE  TurnInv'
  <1>1. /\ actor[a].at = "mode" /\ actor \in [Actors -> ActorTypes]
        /\ UNCHANGED <<list, index>>
        /\ last' = IF mode' = mode THEN last ELSE "none"
    BY DEF SetMode, TypeInv, TypeOK, ActorTypes
  <1>2. \A b \in Actors \ {a} : actor'[b] = actor[b]
    BY <1>1 DEF SetMode, Proceed, Rest
  <1>3. Ahead' \subseteq Ahead
    BY <1>1, <1>2 DEF Ahead, Actors
  <1>4. CASE mode' = mode
    BY <1>1, <1>3, <1>4, TurnKept
  <1>5. CASE mode' # mode
    <2>1. /\ Cardinality(Ahead) \in Nat /\ Cardinality(Ahead') \in Nat
          /\ Cardinality(Ahead') <= Cardinality(Ahead) /\ Cardinality(Workers) \in Nat
      BY <1>3, AheadFacts DEF Ahead
    <2>2. index \in Nat /\ list \in Rows
      BY DEF TypeInv, TypeOK
    <2>3. IndexBounded'
      BY <1>1, <2>1, <2>2, PicksFacts DEF TurnInv, IndexBounded
    <2>4. Picks(list') \subseteq Draws
      BY <1>1, <2>2, PicksFacts
    <2>5. LastTurn'
      BY <1>1, <1>5, <2>4, NamesAssumption DEF LastTurn, Draws
    <2> QED BY <2>3, <2>5 DEF TurnInv
  <1> QED BY <1>4, <1>5

\* Next in round-robin mode returns the row that the index is at.
LEMMA TurnTaken ==
  ASSUME TypeInv, NEW p \in Draws, list # <<>>, mode = "round_robin",
         NextEmpty(p) \/ NextRandom(p) \/ NextTurn(p) \/ NextSticky(p)
  PROVE  /\ Position(p) = 1 + (index % Len(list)) /\ index' = index + 1
         /\ Len(list) \in Nat \ {0} /\ index \in Nat
  <1>1. NextTurn(p)
    BY DEF NextEmpty, NextRandom, NextSticky
  <1>2. list \in Rows /\ Distinct(list) /\ index \in Nat
    BY DEF TypeInv, TypeOK, RowsDistinct
  <1>3. Len(list) \in Nat \ {0}
    BY <1>2, PicksFacts
  <1>4. PICK i \in DOMAIN list : i = 1 + (index % Len(list)) /\ p = list[i].proxy
    BY <1>1 DEF NextTurn
  <1>5. Position(p) = i
    BY <1>2, <1>4, PositionFacts
  <1> QED BY <1>1, <1>2, <1>3, <1>4, <1>5 DEF NextTurn

\* Resolve: the index moves on and the worker is no longer ahead of it.
LEMMA ResolveTurn ==
  ASSUME TypeInv, TurnInv, NEW w \in Workers, NEW p \in Draws, Resolve(w, p)
  PROVE  TurnInv'
  <1>1. /\ actor[w].at = "draw" /\ last' = p /\ UNCHANGED <<list, mode>>
        /\ NextEmpty(p) \/ NextRandom(p) \/ NextTurn(p) \/ NextSticky(p)
    BY DEF Resolve
  <1>2. /\ w \in Actors /\ actor \in [Actors -> ActorTypes] /\ index \in Nat
        /\ list \in Rows
    BY DEF Actors, TypeInv, TypeOK, ActorTypes
  <1>3. actor'[w].at = "busy" /\ \A b \in Actors \ {w} : actor'[b] = actor[b]
    BY <1>2 DEF Resolve, Doing
  <1>4. Ahead' = Ahead \ {w} /\ w \in Ahead
    BY <1>1, <1>3 DEF Ahead, Actors
  <1>5. /\ Cardinality(Ahead) \in Nat /\ Cardinality(Workers) \in Nat
        /\ Cardinality(Ahead') = Cardinality(Ahead) - 1
    BY <1>4, AheadFacts DEF Ahead
  <1>6. /\ index' \in {index, index + 1}
        /\ list = <<>> => index' = index
    BY <1>1 DEF NextEmpty, NextRandom, NextTurn, NextSticky
  <1>7. IndexBounded'
    <2>1. CASE list = <<>>
      BY <1>1, <1>6, <2>1 DEF TurnInv, IndexBounded
    <2>2. CASE list # <<>>
      <3>1. index + Cardinality(Ahead) < Len(list) + Cardinality(Workers)
        BY <2>2 DEF TurnInv, IndexBounded
      <3>2. Len(list) \in Nat
        BY <1>2, <2>2, PicksFacts
      <3>3. index' + Cardinality(Ahead') < Len(list) + Cardinality(Workers)
        BY <1>2, <1>5, <1>6, <3>1, <3>2
      <3> QED BY <1>1, <2>2, <3>3 DEF IndexBounded
    <2> QED BY <2>1, <2>2
  <1>8. LastTurn'
    <2> SUFFICES ASSUME mode = "round_robin", p \in Picks(list) \ {"direct"}
                 PROVE  index' > 0 /\ Position(last)' = 1 + ((index' - 1) % Len(list'))
      BY <1>1 DEF LastTurn
    <2>1. list # <<>>
      BY DEF Picks
    <2>2. /\ Position(p) = 1 + (index % Len(list)) /\ index' = index + 1
      BY <1>1, <2>1, TurnTaken
    <2>3. Position(last)' = Position(p)
      BY <1>1 DEF Position
    <2>4. index' > 0 /\ index' - 1 = index
      BY <1>2, <2>2
    <2> QED BY <1>1, <2>2, <2>3, <2>4
  <1> QED BY <1>7, <1>8 DEF TurnInv

LEMMA TurnStep ==
  ASSUME TypeInv, TypeInv', TurnInv, [Next]_vars
  PROVE  TurnInv'
  <1>0. actor \in [Actors -> ActorTypes] /\ Workers \subseteq Actors
    BY DEF TypeInv, TypeOK, ActorTypes, Actors
  <1>1. ASSUME NEW a \in Admins, Edit(a) PROVE TurnInv'
    <2>1. a \notin Workers /\ a \in Actors
      BY ActorsAssumption DEF Actors
    <2>2. UNCHANGED <<list, mode, index, last>> /\ \E step : Start(a, step)
      BY <1>1 DEF Edit, EditTable, SaveSettings, pool
    <2>3. \A w \in Workers : actor'[w] = actor[w]
      BY <1>0, <2>1, <2>2 DEF Start
    <2>4. Ahead' \subseteq Ahead
      BY <2>3 DEF Ahead
    <2> QED BY <2>2, <2>4, TurnKept
  <1>2. ASSUME NEW w \in Workers, StartJob(w) PROVE TurnInv'
    <2>1. UNCHANGED <<list, mode, index, last>>
      BY <1>2 DEF StartJob, pool
    <2>2. actor'[w].at = "list" /\ \A b \in Actors \ {w} : actor'[b] = actor[b]
      BY <1>0, <1>2 DEF StartJob, Start, Doing
    <2>3. Ahead' \subseteq Ahead
      BY <1>0, <2>2 DEF Ahead
    <2> QED BY <2>1, <2>3, TurnKept
  <1>3. ASSUME NEW a \in Actors, ListProxies(a) PROVE TurnInv'
    <2>1. UNCHANGED <<list, mode, index, last>>
      BY <1>3 DEF ListProxies, pool
    <2>2. actor'[a].at = "set" /\ \A b \in Actors \ {a} : actor'[b] = actor[b]
      BY <1>0, <1>3 DEF ListProxies, Doing
    <2>3. Ahead' \subseteq Ahead
      BY <1>0, <2>2 DEF Ahead
    <2> QED BY <2>1, <2>3, TurnKept
  <1>4. ASSUME NEW w \in Workers, EndJob(w) PROVE TurnInv'
    <2>1. UNCHANGED <<list, mode, index, last>>
      BY <1>4 DEF EndJob, pool
    <2>2. actor'[w].at = "rest" /\ \A b \in Actors \ {w} : actor'[b] = actor[b]
      BY <1>0, <1>4 DEF EndJob, Rest, Resting, Doing
    <2>3. Ahead' \subseteq Ahead
      BY <1>0, <2>2 DEF Ahead
    <2> QED BY <2>1, <2>3, TurnKept
  <1>5. CASE UNCHANGED vars
    <2>1. UNCHANGED <<list, mode, index, last>> /\ Ahead' \subseteq Ahead
      BY <1>5 DEF vars, Ahead
    <2> QED BY <2>1, TurnKept
  <1> QED BY <1>1, <1>2, <1>3, <1>4, <1>5, SetProxiesTurn, SetModeTurn, ResolveTurn DEF Next

\* Only Resolve takes a worker from where it can draw to its download.
LEMMA OnlyResolveDraws ==
  ASSUME TypeInv, Next, NEW w \in Workers, Drawn(w)
  PROVE  \E p \in Draws : Resolve(w, p)
  <1>0. actor \in [Actors -> ActorTypes] /\ Workers \subseteq Actors /\ Admins \subseteq Actors
    BY DEF TypeInv, TypeOK, ActorTypes, Actors
  <1>1. actor[w].at = "draw" /\ actor'[w].at = "busy"
    BY DEF Drawn
  <1>2. ASSUME NEW a \in Admins, Edit(a) PROVE FALSE
    BY <1>0, <1>1, <1>2 DEF Edit, EditTable, SaveSettings, Start, Doing
  <1>3. ASSUME NEW a \in Actors, ListProxies(a) PROVE FALSE
    BY <1>0, <1>1, <1>3 DEF ListProxies, Doing
  <1>4. ASSUME NEW a \in Actors, SetProxies(a) PROVE FALSE
    BY <1>0, <1>1, <1>4 DEF SetProxies, Proceed, Rest, Resting, Doing
  <1>5. ASSUME NEW a \in Actors, SetMode(a) PROVE FALSE
    BY <1>0, <1>1, <1>5 DEF SetMode, Proceed, Rest, Resting, Doing
  <1>6. ASSUME NEW v \in Workers, StartJob(v) PROVE FALSE
    BY <1>0, <1>1, <1>6 DEF StartJob, Start, Doing
  <1>7. ASSUME NEW v \in Workers, EndJob(v) PROVE FALSE
    BY <1>0, <1>1, <1>7 DEF EndJob, Rest, Resting, Doing
  <1>8. ASSUME NEW v \in Workers, NEW p \in Draws, Resolve(v, p) PROVE v = w
    BY <1>0, <1>1, <1>8 DEF Resolve
  <1> QED BY <1>2, <1>3, <1>4, <1>5, <1>6, <1>7, <1>8 DEF Next

(***************************************************************************)
(* Round-robin starves no proxy, for any number of workers and proxies and *)
(* whatever listings race: while list and mode stay, Next returns the      *)
(* successor of the proxy returned last, or restarts the round from a      *)
(* place that the other workers can have drawn up to.                      *)
(***************************************************************************)
THEOREM RotationTakesTurns == Spec => TakesTurns
  <1>1. TypeInv /\ TypeInv' /\ TurnInv /\ [Next]_vars => TurnInv'
    BY TurnStep
  <1>2. ASSUME TypeInv, TurnInv, Next, NEW w \in Workers, Drawn(w), mode = "round_robin",
               last \in Picks(list) \ {"direct"}
        PROVE  \/ Position(last') = 1 + (Position(last) % Len(list))
               \/ Position(last') = 1 /\ Position(last) < Cardinality(Workers)
    <2> DEFINE n == Len(list)
    <2>1. PICK p \in Draws : Resolve(w, p)
      BY <1>2, OnlyResolveDraws
    <2>2. last' = p /\ (NextEmpty(p) \/ NextRandom(p) \/ NextTurn(p) \/ NextSticky(p))
      BY <2>1 DEF Resolve
    <2>3. list # <<>>
      BY <1>2 DEF Picks
    <2>4. Position(last') = 1 + (index % n) /\ n \in Nat \ {0} /\ index \in Nat
      BY <1>2, <2>2, <2>3, TurnTaken
    <2>5. CASE index > 0 /\ Position(last) = 1 + ((index - 1) % n)
      <3>1. index - 1 \in Nat /\ (index - 1) + 1 = index
        BY <2>4, <2>5
      <3>2. index % n = (1 + ((index - 1) % n)) % n
        BY <2>4, <3>1, ModNext
      <3> QED BY <2>4, <2>5, <3>2
    <2>6. CASE index = 0
      <3>1. Position(last) = n \/ Position(last) < Cardinality(Workers)
        BY <1>2, <2>6 DEF TurnInv, LastTurn
      <3>2. Position(last') = 1 /\ n % n = 0
        <4>1. index % n = 0 /\ n % n = 0
          BY <2>4, <2>6, ModFacts
        <4> QED BY <2>4, <4>1
      <3> QED BY <3>1, <3>2
    <2> QED BY <1>2, <2>4, <2>5, <2>6 DEF TurnInv, LastTurn
  <1>3. TypeInv /\ TurnInv /\ [Next]_vars =>
           [\A w \in Workers :
               Drawn(w) /\ mode = "round_robin" /\ last \in Picks(list) \ {"direct"} =>
                 \/ Position(last') = 1 + (Position(last) % Len(list))
                 \/ Position(last') = 1 /\ Position(last) < Cardinality(Workers)]_vars
    BY <1>2
  <1> QED BY <1>1, <1>3, TypeInvariant, TurnInitially, PTL DEF Spec, TakesTurns
=============================================================================

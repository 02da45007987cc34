--------------------------- MODULE ServerProofs ---------------------------
(***************************************************************************)
(* Proofs about the process, for any number of migrations, requests,       *)
(* settings, URLs, crashes and failing statements.                         *)
(***************************************************************************)
EXTENDS Server, TLAPS

\* A step of the process is a step of its parts.
LEMMA StepOfParts ==
  ASSUME [Next]_vars
  PROVE  [SchemaNext]_schemaVars /\ [ConfigNext]_configVars
  <1>1. CASE Starts \/ Called
    BY <1>1 DEF Starts, Called, SchemaNext
  <1>2. CASE Works \/ WorkFails
    BY <1>2 DEF Works, WorkFails, ConfigNext
  <1>3. CASE Crash
    BY <1>3 DEF Crash, ConfigNext, SchemaNext
  <1>4. ASSUME NEW r \in Requests, Receives(r) \/ Handles(r) \/ Fails(r)
        PROVE  [SchemaNext]_schemaVars /\ [ConfigNext]_configVars
    BY <1>4 DEF Receives, Handles, Fails, ConfigNext
  <1>5. CASE UNCHANGED vars
    BY <1>5 DEF vars
  <1> QED
    BY <1>1, <1>2, <1>3, <1>4, <1>5 DEF Next
-----------------------------------------------------------------------------
(***************************************************************************)
(* The schema.                                                             *)
(***************************************************************************)
\* The scripts before the one in hand are recorded, and while one is run no
\* others are.
SchemaInv ==
    /\ at \in 1..(LastScript + 1)
    /\ recorded = effects
    /\ \E n \in 0..LastScript : recorded = 1..n
    /\ boot = "checking" => 1..(at - 1) \subseteq recorded
    /\ boot \in {"running", "recording", "committing"}
          => at <= LastScript /\ recorded = 1..(at - 1)
    /\ boot \in {"migrating", "calling", "up"} => recorded = 1..LastScript

LEMMA Beginnings ==
  ASSUME NEW i \in Nat \ {0}, NEW n \in Nat
  PROVE  /\ 1..(i - 1) \cup {i} = 1..i
         /\ 1..(i - 1) \subseteq 1..n /\ i \in 1..n => 1..i \subseteq 1..n
         /\ 1..(i - 1) \subseteq 1..n /\ i \notin 1..n => 1..n = 1..(i - 1)
  <1>1. 1..(i - 1) \subseteq 1..n => i - 1 <= n
    <2>1. CASE i = 1
      BY <2>1
    <2>2. CASE i # 1
      <3>1. i - 1 \in 1..(i - 1)
        BY <2>2
      <3> QED
        BY <3>1
    <2> QED
      BY <2>1, <2>2
  <1>2. 1..(i - 1) \cup {i} = 1..i
    OBVIOUS
  <1>3. 1..(i - 1) \subseteq 1..n /\ i \notin 1..n => n = i - 1
    BY <1>1
  <1> QED
    BY <1>2, <1>3

LEMMA SchemaStep ==
  ASSUME SchemaInv, [SchemaNext]_schemaVars
  PROVE  SchemaInv'
  <1>0. LastScript \in Nat
    BY ScriptsAssumption
  <1> USE DEF SchemaInv
  <1>1. CASE Open
    <2>1. 1 \in 1..(LastScript + 1) /\ 1..(1 - 1) = {}
      BY <1>0
    <2>2. boot' = "checking" /\ at' = 1 /\ UNCHANGED <<recorded, effects>>
      BY <1>1 DEF Open
    <2>3. 1..(at' - 1) = {}
      BY <2>1, <2>2
    <2> QED
      BY <2>1, <2>2, <2>3
  <1>2. CASE Check
    <2>1. /\ boot = "checking" /\ at <= LastScript /\ at \in Nat \ {0}
          /\ recorded' = recorded /\ effects' = effects
          /\ 1..(at - 1) \subseteq recorded
      BY <1>0, <1>2 DEF Check
    <2>2. PICK n \in 0..LastScript : recorded = 1..n
      OBVIOUS
    <2>3. n \in Nat
      BY <1>0
    <2>4. CASE at \in recorded
      <3>1. at' = at + 1 /\ boot' = "checking"
        BY <1>2, <2>4 DEF Check
      <3>2. at' \in 1..(LastScript + 1) /\ at' - 1 = at
        BY <1>0, <2>1, <3>1
      <3>3. 1..at \subseteq recorded
        BY <2>1, <2>2, <2>3, <2>4, Beginnings
      <3>4. 1..(at' - 1) \subseteq recorded'
        BY <2>1, <3>2, <3>3
      <3> QED
        BY <2>1, <2>2, <3>1, <3>2, <3>4
    <2>5. CASE at \notin recorded
      <3>1. boot' = "running" /\ at' = at
        BY <1>2, <2>5 DEF Check
      <3>2. recorded = 1..(at - 1)
        BY <2>1, <2>2, <2>3, <2>5, Beginnings
      <3> QED
        BY <2>1, <3>1, <3>2
    <2> QED
      BY <2>4, <2>5
  <1>3. CASE Run
    BY <1>3 DEF Run
  <1>4. CASE Record
    BY <1>4 DEF Record
  <1>5. CASE Commit
    <2>1. /\ boot' = "checking" /\ at' = at + 1
          /\ recorded' = recorded \cup {at} /\ effects' = effects \cup {at}
          /\ at <= LastScript /\ recorded = 1..(at - 1) /\ at \in Nat \ {0}
      BY <1>0, <1>5 DEF Commit
    <2>2. recorded' = 1..at
      BY <1>0, <2>1, Beginnings
    <2>3. at \in 0..LastScript /\ at' \in 1..(LastScript + 1) /\ at' - 1 = at
      BY <1>0, <2>1
    <2>4. 1..(at' - 1) = recorded'
      BY <2>2, <2>3
    <2> QED
      BY <2>1, <2>2, <2>3, <2>4
  <1>6. CASE Opened
    <2>1. /\ boot' = "migrating" /\ at > LastScript /\ 1..(at - 1) \subseteq recorded
          /\ UNCHANGED <<at, recorded, effects>>
      BY <1>6 DEF Opened
    <2>2. at - 1 = LastScript
      BY <1>0, <2>1
    <2>3. PICK n \in 0..LastScript : recorded = 1..n
      OBVIOUS
    <2>4. recorded = 1..LastScript
      BY <1>0, <2>1, <2>2, <2>3
    <2> QED
      BY <2>1, <2>4
  <1>7. CASE Down
    BY <1>7 DEF Down
  <1>8. CASE UNCHANGED schemaVars
    BY <1>8 DEF schemaVars
  <1>9. CASE CallOut \/ CallReturns \/ Serve
    BY <1>9 DEF CallOut, CallReturns, Serve
  <1> QED
    BY <1>1, <1>2, <1>3, <1>4, <1>5, <1>6, <1>7, <1>8, <1>9
       DEF SchemaNext, Boot

\* However often a start is cut off, the tables are what schema_migrations says,
\* and all scripts have been applied when requests are served.
THEOREM SchemaIsWhole == Spec => []SchemaWhole
  <1>1. Init => SchemaInv
    <2> SUFFICES ASSUME SchemaInit PROVE SchemaInv
      BY DEF Init
    <2>0. LastScript \in Nat /\ Released \subseteq 0..LastScript
      BY ScriptsAssumption, ReleasedAssumption
    <2> QED
      BY <2>0 DEF SchemaInit, SchemaInv
  <1>2. SchemaInv => SchemaWhole
    BY DEF SchemaInv, SchemaWhole
  <1>3. SchemaInv /\ [Next]_vars => SchemaInv'
    BY StepOfParts, SchemaStep
  <1> QED
    BY <1>1, <1>2, <1>3, PTL DEF Spec
-----------------------------------------------------------------------------
(***************************************************************************)
(* The requests.                                                           *)
(***************************************************************************)
\* The steps of handlers and worker, with the request they belong to.
LEMMA ConfigCases ==
  ASSUME ConfigNext
  PROVE  \/ \E r \in Requests :
               \/ \E k \in Kinds : Arrive(r, k) \/ Forbidden(r, k)
               \/ Limited(r) \/ Decode(r) \/ NotDecoded(r)
               \/ Begin(r) \/ (\E k \in Keys : WriteKey(r, k))
               \/ CommitSettings(r) \/ ReadExisting(r) \/ SaveStorageConfig(r)
               \/ LookUp(r) \/ (\E u \in Urls : ScanEnds(r, u))
               \/ NoUrls(r) \/ AnswerScan(r) \/ BeginFails(r) \/ RollBack(r)
               \/ ReadExistingFails(r) \/ SaveStorageFails(r)
         \/ ReadSettings \/ ReadSettingsFails \/ OpenStorage
            \/ OpenWithoutSecret \/ JobEnds
         \/ Forget
  BY DEF ConfigNext, Handle, Statement, Scanning, StatementFails, Worker

\* What the properties need of the types.
PlainTypes ==
    /\ pc \in [Requests -> {"new", "admitted", "begin", "writing", "read",
                            "update", "lookup", "scanning"} \cup Ended]
    /\ kind \in [Requests -> Kinds \cup {NoKind}]
    /\ settings \in [Keys -> Writers] /\ draft \in [Keys -> Writers]
    /\ existing \in [Requests -> Secrets]
    /\ used \in [Keys -> Writers \cup {"nobody"}]
    /\ secret \in Secrets
    /\ conn \in Requests \cup {"free"}
    /\ saved \subseteq Requests /\ raced \subseteq Requests
    /\ newest \in Writers \cup {"nobody"}
    /\ \A r \in Requests : pc[r] = "admitted" => kind[r] \in Kinds

LEMMA GoneTyped ==
  ASSUME PlainTypes, NEW R, Gone(R)
  PROVE  /\ kind' \in [Requests -> Kinds \cup {NoKind}]
         /\ existing' \in [Requests -> Secrets]
         /\ \A q \in Requests \ R : kind'[q] = kind[q] /\ existing'[q] = existing[q]
  <1>1. NoSecret \in Secrets
    BY DEF NoSecret, Secrets
  <1> QED
    BY <1>1 DEF PlainTypes, Gone

\* A secret that was entered, and one that was kept.
LEMMA SealedTyped ==
  ASSUME PlainTypes, NEW r \in Requests
  PROVE  /\ SecretToStore(r) \in Secrets
         /\ kind[r].enters => SecretToStore(r) = [of |-> r, sealed |-> 1]
         /\ ~kind[r].enters => SecretToStore(r) = existing[r]
  <1>1. r # "nobody" /\ r \in Writers
    BY RequestsAssumption DEF Writers
  <1>2. [of |-> r, sealed |-> 0] # NoSecret
    <2>1. [of |-> r, sealed |-> 0].of = r /\ NoSecret.of = "nobody"
      BY DEF NoSecret
    <2> QED
      BY <1>1, <2>1
  <1>3. Encrypt([of |-> r, sealed |-> 0]) = [of |-> r, sealed |-> 1]
    BY <1>2 DEF Encrypt
  <1>4. [of |-> r, sealed |-> 1] \in Secrets
    BY <1>1 DEF Secrets
  <1> QED
    BY <1>3, <1>4 DEF SecretToStore, PlainTypes

LEMMA PlainStep ==
  ASSUME PlainTypes, [ConfigNext]_configVars
  PROVE  PlainTypes'
  <1> DEFINE Places == {"new", "admitted", "begin", "writing", "read",
                        "update", "lookup", "scanning"} \cup Ended
  <1> USE DEF PlainTypes, Goto, tableVars, workerVars, handlerVars
  <1>0. /\ {"403", "429", "400", "200", "500", "results", "cut"} \subseteq Ended
        /\ \A r \in Requests : r \in Writers
    BY DEF Ended, Answers, Writers
  <1>1. ASSUME NEW r \in Requests, NEW k \in Kinds, Arrive(r, k) \/ Forbidden(r, k)
        PROVE  PlainTypes'
    BY <1>0, <1>1 DEF Arrive, Forbidden
  <1>2. ASSUME NEW r \in Requests,
               \/ Limited(r) \/ NotDecoded(r) \/ NoUrls(r) \/ AnswerScan(r) \/ BeginFails(r)
               \/ SaveStorageFails(r)
        PROVE  PlainTypes'
    <2>1. Gone({r}) /\ pc' \in [Requests -> Places]
      BY <1>0, <1>2 DEF Limited, NotDecoded, NoUrls, AnswerScan, BeginFails,
                        SaveStorageFails
    <2>2. UNCHANGED <<settings, draft, used, secret, conn, saved, raced, newest>>
      BY <1>2 DEF Limited, NotDecoded, NoUrls, AnswerScan, BeginFails, SaveStorageFails
    <2>3. /\ pc'[r] # "admitted"
          /\ \A q \in Requests : q # r => pc'[q] = pc[q]
      BY <1>2 DEF Limited, NotDecoded, NoUrls, AnswerScan, BeginFails, SaveStorageFails
    <2>4. /\ kind' \in [Requests -> Kinds \cup {NoKind}]
          /\ existing' \in [Requests -> Secrets]
          /\ \A q \in Requests : q # r => kind'[q] = kind[q]
      BY <2>1, GoneTyped
    <2> QED
      BY <2>1, <2>2, <2>3, <2>4
  <1>3. ASSUME NEW r \in Requests, Decode(r) PROVE PlainTypes'
    <2>1. kind[r].route \in {"settings", "storage", "scan"}
      BY <1>3 DEF Decode, Kinds
    <2>2. pc' \in [Requests -> Places] /\ pc'[r] # "admitted"
          /\ \A q \in Requests : q # r => pc'[q] = pc[q]
      BY <1>3, <2>1 DEF Decode, FirstStep
    <2>3. UNCHANGED <<kind, settings, draft, existing, used, secret, conn, saved,
                      raced, newest>>
      BY <1>3 DEF Decode
    <2> QED
      BY <2>2, <2>3
  <1>4. ASSUME NEW r \in Requests,
               Begin(r) \/ (\E k \in Keys : WriteKey(r, k)) \/ CommitSettings(r)
        PROVE  PlainTypes'
    BY <1>0, <1>4 DEF Begin, WriteKey, CommitSettings
  <1>5. ASSUME NEW r \in Requests,
               \/ ReadExisting(r) \/ ReadExistingFails(r) \/ LookUp(r)
               \/ \E u \in Urls : ScanEnds(r, u)
        PROVE  PlainTypes'
    BY <1>5 DEF ReadExisting, ReadExistingFails, LookUp, ScanEnds
  <1>6. ASSUME NEW r \in Requests, RollBack(r) PROVE PlainTypes'
    <2>1. Gone({r}) /\ pc' = [pc EXCEPT ![r] = "500"] /\ draft' = settings
          /\ UNCHANGED <<settings, used, secret, saved, raced, newest>>
          /\ conn' = "free"
      BY <1>6 DEF RollBack
    <2>2. /\ kind' \in [Requests -> Kinds \cup {NoKind}]
          /\ existing' \in [Requests -> Secrets]
          /\ \A q \in Requests : q # r => kind'[q] = kind[q]
      BY <2>1, GoneTyped
    <2> QED
      BY <1>0, <2>1, <2>2
  <1>7. ASSUME NEW r \in Requests, SaveStorageConfig(r) PROVE PlainTypes'
    <2>1. /\ secret' = SecretToStore(r) /\ pc' = [pc EXCEPT ![r] = "200"]
          /\ saved' = saved \cup {r}
          /\ newest' = IF kind[r].enters THEN r ELSE newest
          /\ existing' = [existing EXCEPT ![r] = NoSecret]
          /\ UNCHANGED <<settings, draft, used, conn, kind>>
      BY <1>7 DEF SaveStorageConfig
    <2>2. raced' \subseteq Requests
      BY <1>7 DEF SaveStorageConfig
    <2>3. NoSecret \in Secrets
      BY DEF NoSecret, Secrets
    <2> QED
      BY <1>0, <2>1, <2>2, <2>3, SealedTyped
  <1>8. CASE ReadSettings
    BY <1>8 DEF ReadSettings
  <1>9. CASE ReadSettingsFails
    <2>1. PICK K \in SUBSET Keys :
             used' = [k \in Keys |-> IF k \in K THEN settings[k] ELSE "nobody"]
      BY <1>9 DEF ReadSettingsFails
    <2>2. used' \in [Keys -> Writers \cup {"nobody"}]
      BY <2>1
    <2> QED
      BY <1>9, <2>2 DEF ReadSettingsFails
  <1>10. CASE OpenStorage \/ OpenWithoutSecret
    BY <1>10 DEF OpenStorage, OpenWithoutSecret
  <1>11. CASE JobEnds
    BY <1>11 DEF JobEnds, JobGone
  <1>12. CASE Forget
    <2>1. /\ Gone({r \in Requests : Busy(r)}) /\ conn' = "free"
          /\ pc' = [r \in Requests |-> IF Busy(r) THEN "cut" ELSE pc[r]]
          /\ draft' = settings /\ UNCHANGED <<settings, secret, saved, newest, raced>>
          /\ used' = [k \in Keys |-> "nobody"]
      BY <1>12 DEF Forget, JobGone
    <2>2. /\ pc' \in [Requests -> Places]
          /\ used' \in [Keys -> Writers \cup {"nobody"}]
      BY <1>0, <2>1
    <2>3. \A r \in Requests : pc'[r] # "admitted"
      <3>1. "admitted" \notin Ended \cup {"new"}
        BY DEF Ended, Answers
      <3> QED
        BY <2>1, <3>1 DEF Busy
    <2> QED
      BY <2>1, <2>2, <2>3, GoneTyped
  <1>13. CASE UNCHANGED configVars
    BY <1>13 DEF configVars
  <1> QED
    BY <1>1, <1>2, <1>3, <1>4, <1>5, <1>6, <1>7, <1>8, <1>9, <1>10, <1>11,
       <1>12, <1>13, ConfigCases

LEMMA PlainInvariant == Spec => []PlainTypes
  <1>1. Init => PlainTypes
    <2> SUFFICES ASSUME ConfigInit PROVE PlainTypes
      BY DEF Init
    <2>1. NoSecret \in Secrets /\ [of |-> "initial", sealed |-> 1] \in Secrets
      BY DEF NoSecret, Secrets, Writers
    <2>2. newest \in Writers \cup {"nobody"}
      BY DEF ConfigInit, NoSecret, Writers
    <2> QED
      BY <2>1, <2>2 DEF ConfigInit, PlainTypes, Writers
  <1>2. PlainTypes /\ [Next]_vars => PlainTypes'
    BY StepOfParts, PlainStep
  <1> QED
    BY <1>1, <1>2, PTL DEF Spec

\* Whoever is writing the settings has the connection, and the keys it has
\* written are its own.
SettingsInv ==
    /\ SettingsWhole
    /\ \A r \in Requests :
          pc[r] = "writing" => /\ conn = r
                               /\ \A k \in Keys \ left : draft[k] = r

LEMMA SettingsStep ==
  ASSUME PlainTypes, SettingsInv, [ConfigNext]_configVars
  PROVE  SettingsInv'
  <1> USE DEF SettingsInv, SettingsWhole, Goto, tableVars, workerVars, handlerVars
  <1>0. /\ pc \in [Requests -> {"new", "admitted", "begin", "writing", "read",
                                "update", "lookup", "scanning"} \cup Ended]
        /\ draft \in [Keys -> Writers] /\ "free" \notin Requests
    BY RequestsAssumption DEF PlainTypes
  <1>1. ASSUME NEW r \in Requests, Begin(r) PROVE SettingsInv'
    <2>1. \A q \in Requests : pc[q] # "writing"
      BY <1>0, <1>1 DEF Begin, Free
    <2>2. /\ conn' = r /\ left' = Keys /\ pc' = [pc EXCEPT ![r] = "writing"]
          /\ UNCHANGED <<settings, used>>
      BY <1>1 DEF Begin
    <2> QED
      BY <1>0, <2>1, <2>2
  <1>2. ASSUME NEW r \in Requests, NEW k \in Keys, WriteKey(r, k)
        PROVE  SettingsInv'
    <2>1. /\ pc[r] = "writing" /\ left' = left \ {k}
          /\ draft' = [draft EXCEPT ![k] = r]
          /\ UNCHANGED <<settings, used, pc, conn>>
      BY <1>2 DEF WriteKey
    <2>2. \A q \in Requests : pc[q] = "writing" => q = r
      BY <2>1
    <2> QED
      BY <1>0, <2>1, <2>2
  <1>3. ASSUME NEW r \in Requests, CommitSettings(r) PROVE SettingsInv'
    <2>1. /\ pc[r] = "writing" /\ left = {} /\ settings' = draft
          /\ pc' = [pc EXCEPT ![r] = "200"] /\ used' = used
      BY <1>3 DEF CommitSettings
    <2>2. \A k \in Keys : draft[k] = r
      BY <2>1
    <2>3. \A q \in Requests : pc'[q] # "writing"
      BY <1>0, <2>1
    <2> QED
      BY <2>1, <2>2, <2>3
  <1>4. ASSUME NEW r \in Requests, RollBack(r) PROVE SettingsInv'
    <2>1. /\ pc[r] = "writing" /\ pc' = [pc EXCEPT ![r] = "500"]
          /\ UNCHANGED <<settings, used>>
      BY <1>4 DEF RollBack
    <2>2. \A q \in Requests : pc'[q] # "writing"
      BY <1>0, <2>1
    <2> QED
      BY <2>1, <2>2
  <1>5. CASE /\ UNCHANGED <<settings, used, conn, draft, left>>
             /\ \A q \in Requests : pc'[q] = "writing" => pc[q] = "writing"
    BY <1>5
  <1>6. CASE ReadSettings
    BY <1>6 DEF ReadSettings
  <1>7. CASE ReadSettingsFails
    <2>1. PICK K \in SUBSET Keys :
             used' = [k \in Keys |-> IF k \in K THEN settings[k] ELSE "nobody"]
      BY <1>7 DEF ReadSettingsFails
    <2>2. UNCHANGED <<settings, pc, conn, draft, left>>
      BY <1>7 DEF ReadSettingsFails
    <2> QED
      BY <2>1, <2>2
  <1>8. CASE JobEnds
    BY <1>8 DEF JobEnds, JobGone
  <1>9. CASE Forget
    <2>1. /\ pc' = [r \in Requests |-> IF Busy(r) THEN "cut" ELSE pc[r]]
          /\ settings' = settings /\ used' = [k \in Keys |-> "nobody"]
      BY <1>9 DEF Forget, JobGone
    <2>2. "writing" \notin Ended \cup {"new"}
      BY DEF Ended, Answers
    <2>3. \A q \in Requests : pc'[q] # "writing"
      BY <2>1, <2>2 DEF Busy
    <2> QED
      BY <2>1, <2>3
  <1>10. CASE OpenStorage \/ OpenWithoutSecret
    BY <1>10 DEF OpenStorage, OpenWithoutSecret
  <1>11. ASSUME NEW r \in Requests,
                \/ \E k \in Kinds : Arrive(r, k) \/ Forbidden(r, k)
                \/ Limited(r) \/ Decode(r) \/ NotDecoded(r)
                \/ ReadExisting(r) \/ SaveStorageConfig(r)
                \/ LookUp(r) \/ (\E u \in Urls : ScanEnds(r, u))
                \/ NoUrls(r) \/ AnswerScan(r) \/ BeginFails(r)
                \/ ReadExistingFails(r) \/ SaveStorageFails(r)
         PROVE  SettingsInv'
    <2>1. /\ UNCHANGED <<settings, used, conn, draft, left>>
          /\ \/ pc' = pc
             \/ \E x : pc' = [pc EXCEPT ![r] = x] /\ x # "writing"
      <3>1. CASE Decode(r)
        <4>1. kind[r].route \in {"settings", "storage", "scan"}
          BY <3>1 DEF Decode, PlainTypes, Kinds
        <4>2. FirstStep[kind[r].route] # "writing"
          BY <4>1 DEF FirstStep
        <4> QED
          BY <3>1, <4>2 DEF Decode
      <3>2. CASE ~Decode(r)
        BY <1>11, <3>2
           DEF Arrive, Forbidden, Limited, NotDecoded, ReadExisting,
               SaveStorageConfig, LookUp, ScanEnds, NoUrls, AnswerScan, BeginFails,
               ReadExistingFails, SaveStorageFails
      <3> QED
        BY <3>1, <3>2
    <2> QED
      BY <1>0, <1>5, <2>1
  <1>12. CASE UNCHANGED configVars
    BY <1>12 DEF configVars
  <1> QED
    BY <1>1, <1>2, <1>3, <1>4, <1>6, <1>7, <1>8, <1>9, <1>10, <1>11, <1>12,
       ConfigCases

\* Two saves are never mixed, neither in the table nor in what a job reads.
THEOREM SettingsAreWhole == Spec => []SettingsWhole
  <1>1. Init => SettingsInv
    BY DEF Init, ConfigInit, SettingsInv, SettingsWhole
  <1>2. SettingsInv => SettingsWhole
    BY DEF SettingsInv
  <1>3. PlainTypes /\ SettingsInv /\ [Next]_vars => SettingsInv'
    BY StepOfParts, SettingsStep
  <1> QED
    BY <1>1, <1>2, <1>3, PlainInvariant, PTL DEF Spec
-----------------------------------------------------------------------------
(***************************************************************************)
(* The secret.                                                             *)
(***************************************************************************)
\* A request that is about to write back the secret it read has the one that
\* is stored, or it was overtaken, or another that was has written already.
SecretInv ==
    /\ SecretSurvives
    /\ \A r \in Requests :
          pc[r] = "update" /\ ~kind[r].enters
             => existing[r] = secret \/ r \in raced \/ raced \cap saved # {}

LEMMA SecretStep ==
  ASSUME PlainTypes, SecretInv, [ConfigNext]_configVars
  PROVE  SecretInv'
  <1> USE DEF SecretInv, Goto, tableVars, workerVars, handlerVars
  <1>0. /\ pc \in [Requests -> {"new", "admitted", "begin", "writing", "read",
                                "update", "lookup", "scanning"} \cup Ended]
        /\ kind \in [Requests -> Kinds \cup {NoKind}]
        /\ existing \in [Requests -> Secrets]
    BY DEF PlainTypes
  <1>1. ASSUME NEW r \in Requests, ReadExisting(r) PROVE SecretInv'
    <2>1. /\ pc' = [pc EXCEPT ![r] = "update"]
          /\ existing' = [existing EXCEPT ![r] = secret]
          /\ UNCHANGED <<secret, saved, newest, raced, kind>>
      BY <1>1 DEF ReadExisting
    <2> QED
      BY <1>0, <2>1 DEF SecretSurvives
  <1>2. ASSUME NEW r \in Requests, ReadExistingFails(r) PROVE SecretInv'
    <2>1. /\ pc' = [pc EXCEPT ![r] = "update"]
          /\ raced' = IF kind[r].enters THEN raced ELSE raced \cup {r}
          /\ UNCHANGED <<secret, saved, newest, existing, kind>>
      BY <1>2 DEF ReadExistingFails
    <2>2. raced \subseteq raced'
      BY <2>1
    <2>3. SecretSurvives'
      BY <2>1, <2>2 DEF SecretSurvives
    <2> QED
      BY <1>0, <2>1, <2>2, <2>3
  <1>3. ASSUME NEW r \in Requests, SaveStorageConfig(r) PROVE SecretInv'
    <2>1. /\ pc[r] = "update" /\ pc' = [pc EXCEPT ![r] = "200"]
          /\ secret' = SecretToStore(r) /\ saved' = saved \cup {r}
          /\ newest' = IF kind[r].enters THEN r ELSE newest
          /\ existing' = [existing EXCEPT ![r] = NoSecret]
          /\ kind' = kind
      BY <1>3 DEF SaveStorageConfig
    <2>2. CASE kind[r].enters
      <3>1. secret' = [of |-> r, sealed |-> 1] /\ newest' = r
        BY <2>1, <2>2, SealedTyped
      <3>2. raced' = {q \in Requests : pc[q] = "update" /\ ~kind[q].enters}
        BY <1>3, <2>2 DEF SaveStorageConfig
      <3>3. SecretSurvives'
        BY <3>1 DEF SecretSurvives
      <3>4. \A q \in Requests : pc'[q] = "update" => pc[q] = "update"
        BY <1>0, <2>1
      <3> QED
        BY <2>1, <3>2, <3>3, <3>4
    <2>3. CASE ~kind[r].enters
      <3>1. secret' = existing[r] /\ newest' = newest /\ raced' = raced
        BY <1>3, <2>1, <2>3, SealedTyped DEF SaveStorageConfig
      <3>2. CASE r \in raced \/ raced \cap saved # {}
        <4>1. (raced \cap saved # {})'
          BY <2>1, <3>1, <3>2
        <4> QED
          BY <4>1 DEF SecretSurvives
      <3>3. CASE r \notin raced /\ raced \cap saved = {}
        <4>1. secret' = secret
          BY <2>1, <2>3, <3>1, <3>3
        <4>2. SecretSurvives'
          BY <2>1, <3>1, <4>1 DEF SecretSurvives
        <4> QED
          BY <1>0, <2>1, <3>1, <4>1, <4>2
      <3> QED
        BY <3>2, <3>3
    <2> QED
      BY <2>2, <2>3
  <1>4. CASE /\ UNCHANGED <<secret, newest, raced>> /\ saved \subseteq saved'
             /\ \A q \in Requests :
                   pc'[q] = "update" => /\ pc[q] = "update"
                                        /\ kind'[q] = kind[q]
                                        /\ existing'[q] = existing[q]
    <2>1. SecretSurvives'
      BY <1>4 DEF SecretSurvives
    <2> QED
      BY <1>4, <2>1
  <1>5. ASSUME NEW r \in Requests,
               \/ Limited(r) \/ NotDecoded(r) \/ NoUrls(r) \/ AnswerScan(r) \/ BeginFails(r)
               \/ SaveStorageFails(r) \/ RollBack(r)
        PROVE  SecretInv'
    <2>1. /\ Gone({r}) /\ UNCHANGED <<secret, newest, raced, saved>>
          /\ \E x \in {"429", "400", "results", "500"} : pc' = [pc EXCEPT ![r] = x]
      BY <1>5 DEF Limited, NotDecoded, NoUrls, AnswerScan, BeginFails,
                  SaveStorageFails, RollBack
    <2>2. \A q \in Requests : q # r => kind'[q] = kind[q] /\ existing'[q] = existing[q]
      BY <2>1, GoneTyped
    <2> QED
      BY <1>0, <1>4, <2>1, <2>2
  <1>6. ASSUME NEW r \in Requests,
               \/ \E k \in Kinds : Arrive(r, k) \/ Forbidden(r, k)
               \/ Decode(r) \/ Begin(r) \/ (\E k \in Keys : WriteKey(r, k))
               \/ CommitSettings(r) \/ LookUp(r)
               \/ \E u \in Urls : ScanEnds(r, u)
        PROVE  SecretInv'
    <2>1. /\ UNCHANGED <<secret, newest, raced, existing>> /\ saved \subseteq saved'
          /\ \A q \in Requests : q # r => kind'[q] = kind[q] /\ pc'[q] = pc[q]
          /\ pc'[r] = "update" => pc'[r] = pc[r] /\ kind'[r] = kind[r]
      <3>1. CASE Decode(r)
        <4>1. kind[r].route \in {"settings", "storage", "scan"}
          BY <3>1 DEF Decode, PlainTypes, Kinds
        <4>2. FirstStep[kind[r].route] # "update"
          BY <4>1 DEF FirstStep
        <4> QED
          BY <1>0, <3>1, <4>2 DEF Decode
      <3>2. CASE ~Decode(r)
        BY <1>0, <1>6, <3>2
           DEF Arrive, Forbidden, Begin, WriteKey, CommitSettings, LookUp, ScanEnds
      <3> QED
        BY <3>1, <3>2
    <2> QED
      BY <1>4, <2>1
  <1>7. CASE ReadSettings \/ ReadSettingsFails \/ OpenStorage
            \/ OpenWithoutSecret \/ JobEnds
    <2>1. UNCHANGED <<secret, newest, raced, existing, saved, pc, kind>>
      BY <1>7 DEF ReadSettings, ReadSettingsFails, OpenStorage, OpenWithoutSecret, JobEnds
    <2> QED
      BY <1>4, <2>1
  <1>8. CASE Forget
    <2>1. /\ pc' = [r \in Requests |-> IF Busy(r) THEN "cut" ELSE pc[r]]
          /\ UNCHANGED <<secret, newest, raced, saved>>
      BY <1>8 DEF Forget
    <2>2. "update" \notin Ended \cup {"new"}
      BY DEF Ended, Answers
    <2>3. \A q \in Requests : pc'[q] # "update"
      BY <2>1, <2>2 DEF Busy
    <2> QED
      BY <1>4, <2>1, <2>3
  <1>9. CASE UNCHANGED configVars
    BY <1>9 DEF configVars, SecretSurvives
  <1> QED
    BY <1>1, <1>2, <1>3, <1>5, <1>6, <1>7, <1>8, <1>9, ConfigCases

\* A secret that was entered is what is stored, encrypted once, unless a request
\* that keeps the stored one overlapped the entry or could not read it.
THEOREM SecretIsKept == Spec => []SecretSurvives
  <1>1. Init => SecretInv
    <2> SUFFICES ASSUME ConfigInit PROVE SecretInv
      BY DEF Init
    <2>1. SecretSurvives
      <3>1. CASE secret = NoSecret
        BY <3>1 DEF ConfigInit, SecretSurvives, NoSecret
      <3>2. CASE secret = [of |-> "initial", sealed |-> 1]
        BY <3>2 DEF ConfigInit, SecretSurvives
      <3> QED
        BY <3>1, <3>2 DEF ConfigInit
    <2> QED
      BY <2>1 DEF ConfigInit, SecretInv
  <1>2. SecretInv => SecretSurvives
    BY DEF SecretInv
  <1>3. PlainTypes /\ SecretInv /\ [Next]_vars => SecretInv'
    BY StepOfParts, SecretStep
  <1> QED
    BY <1>1, <1>2, <1>3, PlainInvariant, PTL DEF Spec
-----------------------------------------------------------------------------
(***************************************************************************)
(* The types.                                                              *)
(***************************************************************************)
\* crypto.Box is used once in each direction: a secret that is stored, or that a
\* handler means to write back, was encrypted once or is none.
Sealed(s) == s = NoSecret \/ (s \in Secrets /\ s.sealed = 1)

SealInv ==
    /\ Sealed(secret) /\ opened \in Secrets
    /\ \A r \in Requests : Sealed(existing[r])

LEMMA SealStep ==
  ASSUME PlainTypes, SealInv, [ConfigNext]_configVars
  PROVE  SealInv'
  <1> USE DEF SealInv, tableVars, workerVars, handlerVars
  <1>0. /\ existing \in [Requests -> Secrets]
        /\ NoSecret \in Secrets /\ Sealed(NoSecret)
    BY DEF PlainTypes, NoSecret, Secrets, Sealed
  <1>1. ASSUME NEW r \in Requests, SaveStorageConfig(r) PROVE SealInv'
    <2>1. /\ secret' = SecretToStore(r) /\ opened' = opened
          /\ existing' = [existing EXCEPT ![r] = NoSecret]
      BY <1>1 DEF SaveStorageConfig
    <2>2. Sealed(SecretToStore(r))
      <3>1. CASE kind[r].enters
        <4>1. SecretToStore(r) = [of |-> r, sealed |-> 1]
          BY <3>1, SealedTyped
        <4>2. SecretToStore(r).sealed = 1 /\ SecretToStore(r) \in Secrets
          BY <4>1, SealedTyped
        <4> QED
          BY <4>2 DEF Sealed
      <3>2. CASE ~kind[r].enters
        BY <3>2, SealedTyped
      <3> QED
        BY <3>1, <3>2
    <2>3. Sealed(secret')
      BY <2>1, <2>2
    <2>4. \A q \in Requests : existing'[q] \in {existing[q], NoSecret}
      BY <1>0, <2>1
    <2>5. \A q \in Requests : Sealed(existing'[q])
      BY <1>0, <2>4
    <2> QED
      BY <2>1, <2>3, <2>5 DEF Sealed
  <1>2. ASSUME NEW r \in Requests, ReadExisting(r) PROVE SealInv'
    <2>1. /\ existing' = [existing EXCEPT ![r] = secret]
          /\ secret' = secret /\ opened' = opened
      BY <1>2 DEF ReadExisting
    <2>2. \A q \in Requests : existing'[q] \in {existing[q], secret}
      BY <1>0, <2>1
    <2>3. \A q \in Requests : Sealed(existing'[q])
      BY <2>2
    <2> QED
      BY <2>1, <2>3 DEF Sealed
  <1>3. CASE OpenStorage
    <2>1. opened' = Decrypt(secret) /\ secret' = secret /\ existing' = existing
      BY <1>3 DEF OpenStorage
    <2>2. Decrypt(secret) \in Secrets
      <3>1. CASE secret = NoSecret
        BY <1>0, <3>1 DEF Decrypt
      <3>2. CASE secret # NoSecret
        <4>1. secret \in Secrets /\ secret.sealed = 1
          BY <3>2 DEF Sealed
        <4>2. Decrypt(secret) = [secret EXCEPT !.sealed = 0]
          BY <3>2, <4>1 DEF Decrypt
        <4> QED
          BY <4>1, <4>2 DEF Secrets
      <3> QED
        BY <3>1, <3>2
    <2> QED
      BY <2>1, <2>2 DEF Sealed
  <1>4. ASSUME NEW R, Gone(R), UNCHANGED secret,
               opened' \in {opened, NoSecret}
        PROVE  SealInv'
    <2>1. \A q \in Requests : existing'[q] \in {existing[q], NoSecret}
      BY <1>4 DEF Gone
    <2>2. \A q \in Requests : Sealed(existing'[q])
      BY <1>0, <2>1
    <2> QED
      BY <1>0, <1>4, <2>2 DEF Sealed
  <1>5. CASE /\ UNCHANGED <<secret, existing>>
             /\ opened' \in {opened, NoSecret}
    BY <1>0, <1>5 DEF Sealed
  <1>6. ASSUME NEW r \in Requests,
               \/ Limited(r) \/ NotDecoded(r) \/ NoUrls(r) \/ AnswerScan(r) \/ BeginFails(r)
               \/ SaveStorageFails(r) \/ RollBack(r)
        PROVE  SealInv'
    <2>1. Gone({r}) /\ UNCHANGED <<secret, opened>>
      BY <1>6 DEF Limited, NotDecoded, NoUrls, AnswerScan, BeginFails,
                  SaveStorageFails, RollBack
    <2> QED
      BY <1>4, <2>1
  <1>7. ASSUME NEW r \in Requests,
               \/ \E k \in Kinds : Arrive(r, k) \/ Forbidden(r, k)
               \/ Decode(r) \/ Begin(r) \/ (\E k \in Keys : WriteKey(r, k))
               \/ CommitSettings(r) \/ ReadExistingFails(r) \/ LookUp(r)
               \/ \E u \in Urls : ScanEnds(r, u)
        PROVE  SealInv'
    <2>1. UNCHANGED <<secret, existing, opened>>
      BY <1>7 DEF Arrive, Forbidden, Decode, Begin, WriteKey, CommitSettings,
                  ReadExistingFails, LookUp, ScanEnds
    <2> QED
      BY <1>5, <2>1
  <1>8. CASE ReadSettings \/ ReadSettingsFails \/ OpenWithoutSecret \/ JobEnds
    <2>1. UNCHANGED <<secret, existing>> /\ opened' \in {opened, NoSecret}
      BY <1>8 DEF ReadSettings, ReadSettingsFails, OpenWithoutSecret, JobEnds, JobGone
    <2> QED
      BY <1>5, <2>1
  <1>9. CASE Forget
    <2>1. /\ Gone({r \in Requests : Busy(r)}) /\ UNCHANGED secret
          /\ opened' = NoSecret
      BY <1>9 DEF Forget, JobGone
    <2> QED
      BY <1>4, <2>1
  <1>10. CASE UNCHANGED configVars
    BY <1>5, <1>10 DEF configVars
  <1> QED
    BY <1>1, <1>2, <1>3, <1>6, <1>7, <1>8, <1>9, <1>10, ConfigCases

\* The rest of the types.
RestTypes ==
    /\ boot \in {"down", "up"} \cup Starting
    /\ left \subseteq Keys
    /\ scans \in [Requests -> SUBSET Urls]
    /\ job \in {"resting", "fetching", "storing"}
    /\ mishaps \in 0..MaxMishaps

LEMMA RestStep ==
  ASSUME RestTypes, [Next]_vars
  PROVE  RestTypes'
  <1> USE DEF RestTypes
  <1>1. boot' \in {"down", "up"} \cup Starting
    <2>1. [SchemaNext]_schemaVars
      BY StepOfParts
    <2> QED
      BY <2>1 DEF SchemaNext, Boot, Open, Check, Run, Record, Commit, Opened,
                  CallOut, CallReturns, Serve, Down, schemaVars, Starting
  <1>2. /\ left' \subseteq Keys /\ scans' \in [Requests -> SUBSET Urls]
        /\ job' \in {"resting", "fetching", "storing"}
    <2>1. [ConfigNext]_configVars
      BY StepOfParts
    <2>2. CASE UNCHANGED configVars
      BY <2>2 DEF configVars
    <2>3. ASSUME NEW r \in Requests,
                 \/ \E k \in Kinds : Arrive(r, k) \/ Forbidden(r, k)
                 \/ Limited(r) \/ Decode(r) \/ NotDecoded(r)
                 \/ ReadExisting(r) \/ SaveStorageConfig(r)
                 \/ NoUrls(r) \/ AnswerScan(r) \/ BeginFails(r)
                 \/ ReadExistingFails(r) \/ SaveStorageFails(r)
          PROVE  UNCHANGED <<left, scans, job>>
      BY <2>3 DEF Arrive, Forbidden, Limited, Decode, NotDecoded, ReadExisting,
                  SaveStorageConfig, NoUrls, AnswerScan, BeginFails,
                  ReadExistingFails, SaveStorageFails, workerVars
    <2>4. ASSUME NEW r \in Requests,
                 \/ Begin(r) \/ (\E k \in Keys : WriteKey(r, k))
                 \/ CommitSettings(r) \/ RollBack(r)
          PROVE  left' \subseteq Keys /\ UNCHANGED <<scans, job>>
      BY <2>4 DEF Begin, WriteKey, CommitSettings, RollBack, workerVars
    <2>5. ASSUME NEW r \in Requests, LookUp(r) \/ \E u \in Urls : ScanEnds(r, u)
          PROVE  scans' \in [Requests -> SUBSET Urls] /\ UNCHANGED <<left, job>>
      BY <2>5 DEF LookUp, ScanEnds, workerVars
    <2>6. CASE ReadSettings \/ ReadSettingsFails \/ OpenStorage
            \/ OpenWithoutSecret \/ JobEnds
      BY <2>6 DEF ReadSettings, ReadSettingsFails, OpenStorage, OpenWithoutSecret, JobEnds,
                  JobGone, handlerVars
    <2>7. CASE Forget
      BY <2>7 DEF Forget, JobGone
    <2> QED
      BY <2>1, <2>2, <2>3, <2>4, <2>5, <2>6, <2>7, ConfigCases
  <1>3. mishaps' \in 0..MaxMishaps
    <2>1. mishaps' = mishaps \/ (mishaps < MaxMishaps /\ mishaps' = mishaps + 1)
      BY DEF Next, Starts, Called, Works, WorkFails, Crash, Receives, Handles, Fails,
             Mishap, vars
    <2> QED
      BY <2>1, MishapsAssumption
  <1> QED
    BY <1>1, <1>2, <1>3

\* The state of the process keeps its shape; in particular a stored secret is
\* never encrypted twice, and a job never opens one that it has decrypted too
\* often.
THEOREM ServerTypeCorrect == Spec => []TypeOK
  <1>1. Init => SealInv /\ RestTypes
    <2> SUFFICES ASSUME SchemaInit, ConfigInit, mishaps = 0
        PROVE  SealInv /\ RestTypes
      BY DEF Init
    <2>1. SealInv
      <3>1. NoSecret \in Secrets /\ [of |-> "initial", sealed |-> 1] \in Secrets
        BY DEF NoSecret, Secrets, Writers
      <3>2. Sealed(NoSecret) /\ Sealed([of |-> "initial", sealed |-> 1])
        BY <3>1 DEF Sealed
      <3>3. \A r \in Requests : existing[r] = NoSecret
        BY DEF ConfigInit
      <3>4. Sealed(secret)
        BY <3>2 DEF ConfigInit
      <3> QED
        BY <3>1, <3>2, <3>3, <3>4 DEF ConfigInit, SealInv
    <2>2. RestTypes
      BY MishapsAssumption DEF SchemaInit, ConfigInit, RestTypes, Starting
    <2> QED
      BY <2>1, <2>2
  <1>2. PlainTypes /\ SealInv /\ [Next]_vars => SealInv'
    BY StepOfParts, SealStep
  <1>3. RestTypes /\ [Next]_vars => RestTypes'
    BY RestStep
  <1>4. Init => SchemaInv
    <2> SUFFICES ASSUME SchemaInit PROVE SchemaInv
      BY DEF Init
    <2>0. LastScript \in Nat /\ Released \subseteq 0..LastScript
      BY ScriptsAssumption, ReleasedAssumption
    <2> QED
      BY <2>0 DEF SchemaInit, SchemaInv
  <1>5. SchemaInv /\ [Next]_vars => SchemaInv'
    BY StepOfParts, SchemaStep
  <1>6. SchemaInv /\ PlainTypes /\ SealInv /\ RestTypes => TypeOK
    <2> SUFFICES ASSUME SchemaInv, PlainTypes, SealInv, RestTypes
        PROVE  TypeOK
      OBVIOUS
    <2>1. recorded \subseteq 1..LastScript /\ effects \subseteq 1..LastScript
      <3>1. LastScript \in Nat
        BY ScriptsAssumption
      <3> QED
        BY <3>1 DEF SchemaInv
    <2>2. SchemaTypeOK
      BY <2>1 DEF SchemaTypeOK, SchemaInv, RestTypes
    <2>3. secret.sealed \in 0..1
      <3>1. NoSecret.sealed = 0
        BY DEF NoSecret
      <3> QED
        BY <3>1 DEF SealInv, Sealed
    <2>4. ConfigTypeOK
      BY <2>3 DEF ConfigTypeOK, PlainTypes, SealInv, RestTypes
    <2> QED
      BY <2>2, <2>4 DEF TypeOK, RestTypes
  <1> QED
    BY <1>1, <1>2, <1>3, <1>4, <1>5, <1>6, PlainInvariant, PTL DEF Spec
=============================================================================

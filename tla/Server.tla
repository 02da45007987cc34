------------------------------- MODULE Server -------------------------------
(***************************************************************************)
(* The process: main() brings the schema up (Schema), then requests are    *)
(* served and jobs run (Configuration), until it dies and is started       *)
(* again.                                                                  *)
(***************************************************************************)
EXTENDS Schema, Configuration

CONSTANT
    MaxMishaps   \* bound: crashes and failing statements

ASSUME MishapsAssumption == MaxMishaps \in Nat

VARIABLE mishaps

vars == <<schemaVars, configVars, mishaps>>

TypeOK == SchemaTypeOK /\ ConfigTypeOK /\ mishaps \in 0..MaxMishaps

\* A database without tables holds no secret.
Init ==
    /\ SchemaInit /\ ConfigInit /\ mishaps = 0
    /\ recorded = {} => secret = NoSecret

Up == boot = "up"

Mishap == mishaps < MaxMishaps /\ mishaps' = mishaps + 1

Starts == Boot /\ UNCHANGED <<configVars, mishaps>>

Called == CallReturns /\ UNCHANGED <<configVars, mishaps>>

Receives(r) ==
    /\ Up /\ \E k \in Kinds : Arrive(r, k) \/ Forbidden(r, k)
    /\ UNCHANGED <<schemaVars, mishaps>>

Handles(r) == Up /\ Handle(r) /\ UNCHANGED <<schemaVars, mishaps>>

Fails(r) == Up /\ Mishap /\ StatementFails(r) /\ UNCHANGED schemaVars

Works == Up /\ Worker /\ UNCHANGED <<schemaVars, mishaps>>

WorkFails ==
    /\ Up /\ Mishap
    /\ ReadSettingsFails \/ OpenWithoutSecret
    /\ UNCHANGED schemaVars

Crash == Mishap /\ Down /\ Forget

Next ==
    \/ Starts \/ Called \/ Works \/ WorkFails \/ Crash
    \/ \E r \in Requests : Receives(r) \/ Handles(r) \/ Fails(r)

Spec == Init /\ [][Next]_vars

(***************************************************************************)
(* Somebody starts the process again, main() goes on, and so does a        *)
(* handler.  Nothing is assumed of the calls of the migration, which have  *)
(* no deadline.  database/sql hands the connection to those who wait for   *)
(* it in turn: a handler that finds it free again and again gets it.       *)
(***************************************************************************)
Fairness ==
    /\ WF_vars(Starts)
    /\ \A r \in Requests : SF_vars(Handles(r))

FairSpec == Spec /\ Fairness
=============================================================================

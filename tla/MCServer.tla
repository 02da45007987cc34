------------------------------ MODULE MCServer ------------------------------
(***************************************************************************)
(* Model values for Server: two migrations, the first of which may be run  *)
(* again, and two rows of settings.                                        *)
(***************************************************************************)
EXTENDS Server

CONSTANTS r1, r2, u1, u2

TwoRequests == {r1, r2}
=============================================================================

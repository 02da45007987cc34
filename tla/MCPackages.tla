----------------------------- MODULE MCPackages -----------------------------
(***************************************************************************)
(* Model values for checking Packages: buckets and prefixes, which only    *)
(* name places, are interchangeable.                                       *)
(***************************************************************************)
EXTENDS Packages, TLC

CONSTANTS d1, d2, r1, r2, b1, b2, p1, p2

Symmetry == Permutations(Buckets) \cup Permutations(Prefixes)
=============================================================================

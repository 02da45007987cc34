---------------------------- MODULE MCProxyPool ----------------------------
(***************************************************************************)
(* Model values and tables for checking ProxyPool.                         *)
(***************************************************************************)
EXTENDS ProxyPool, TLC

CONSTANTS p1, p2, p3, w1, w2, a1, a2

Row(p, e) == [proxy |-> p, enabled |-> e]

TwoRows == <<Row(p2, TRUE), Row(p1, TRUE)>>

Symmetric == Permutations({w1, w2}) \cup Permutations({a1, a2})
=============================================================================

--------------------------- MODULE MCEventStream ---------------------------
(***************************************************************************)
(* Model values for checking EventStream.                                  *)
(***************************************************************************)
EXTENDS EventStream

CONSTANTS p1, s1, s2, w1, w2

OnePage    == {p1}
TwoStreams == {s1, s2}
TwoWriters == {w1, w2}
=============================================================================

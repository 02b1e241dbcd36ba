-------------------------- MODULE MCInitialLineage --------------------------
(* Instances of InitialLineage for TLC. *)
EXTENDS InitialLineage

CONSTANTS r1, r2, s1, s2

MCFirst == {r1}
MCSecond == {r2}
MCSpecs == {s1, s2}
=============================================================================

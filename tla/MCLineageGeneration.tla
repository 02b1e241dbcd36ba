------------------------ MODULE MCLineageGeneration ------------------------
(* Instances of LineageGeneration for TLC. *)
EXTENDS LineageGeneration, TLC

CONSTANTS r1, r2, c1, c2

MCBoth == {r1, r2}
MCFirst == {r1}
MCSecond == {r2}
MCNobody == {}
MCCauses == {c1, c2}

MCSymmetry == Permutations({r1, r2}) \cup Permutations({c1, c2})
=============================================================================

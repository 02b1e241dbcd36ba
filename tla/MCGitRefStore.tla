--------------------------- MODULE MCGitRefStore ---------------------------
(* GitRefStore for TLC: two runners race on one ref. *)
EXTENDS GitRefStore, TLC

CONSTANTS r1, r2

MCRunners == {r1, r2}
=============================================================================

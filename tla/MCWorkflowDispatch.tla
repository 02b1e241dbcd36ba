------------------------- MODULE MCWorkflowDispatch -------------------------
(* The instance of WorkflowDispatch that TLC checks. *)
EXTENDS WorkflowDispatch, TLC

CONSTANTS a, b, q1, q2, q3

\* Two requests that only differ in what they are for, and one the adapter does not allow.
MCRequests == {q1, q2, q3}
MCAllowed == {q1, q2}
=============================================================================

-------------------------- MODULE MCLifecycleCycle --------------------------
(* Instances of LifecycleCycle for TLC. *)
EXTENDS LifecycleCycle

CONSTANTS sha1, sha2, event1

MCShas == {sha1, sha2}

\* Dispatched jobs, and jobs for an external request; both carry an authority envelope.
MCWakeups == {[authority |-> TRUE, event |-> x] : x \in {None, event1}}

\* A writer ends with a candidate or out of context; a reviewer ends with a pass or with
\* findings, or hands findings off and goes on.
MCReports ==
    LET report(role, state, status, verdict, sha) ==
          [role |-> role, state |-> state, status |-> status, verdict |-> verdict, sha |-> sha]
    IN  {report("WRITER", "COMPLETED", None, "UNKNOWN", None),
         report("WRITER", "COMPLETED", "CONTEXT_EXHAUSTED", "UNKNOWN", None),
         report("REVIEWER", "COMPLETED", "COMPLETE", "PASS", sha1),
         report("REVIEWER", "COMPLETED", "COMPLETE", "FINDINGS", sha1),
         report("REVIEWER", "IN_PROGRESS", "COMPLETE", "FINDINGS", sha1)}
=============================================================================

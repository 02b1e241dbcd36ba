---------------------------- MODULE CasRegister ----------------------------
(***************************************************************************)
(* What a state store promises its callers: one record that is only ever   *)
(* replaced by compare-and-swap on its version (state_store.py,            *)
(* StateStoreCapabilities.atomic_compare_and_swap and versioned_state).    *)
(* A request names the version its record was computed from; it takes      *)
(* effect at most once, and only while that version is the current one.    *)
(***************************************************************************)
EXTENDS Naturals

CONSTANT Ids      \* names of the write requests

VARIABLES
    version,      \* version of the stored record; 0 while it is missing
    requests,     \* every request issued: [id, expected]
    won           \* the requests that took effect

vars == <<version, requests, won>>

Request == [id : Ids, expected : Nat]

Init ==
    /\ version = 0
    /\ requests = {}
    /\ won = {}

\* A caller asks for a write that replaces version e, which it has read.
Issue(i, e) ==
    /\ \A p \in requests : p.id # i
    /\ requests' = requests \cup {[id |-> i, expected |-> e]}
    /\ UNCHANGED <<version, won>>

\* The store performs the write.  Nothing says that the caller is told.
Apply(q) ==
    /\ q.expected = version
    /\ version' = version + 1
    /\ won' = won \cup {q}
    /\ UNCHANGED requests

Next ==
    \/ \E i \in Ids, e \in 0..version : Issue(i, e)
    \/ \E q \in requests : Apply(q)

Spec == Init /\ [][Next]_vars

TypeOK ==
    /\ version \in Nat
    /\ requests \subseteq Request
    /\ won \subseteq requests

\* The write that replaces a version is unique, and every version that was ever
\* current was replaced by exactly one: a compare-and-swap that two racing
\* runners issued from the same version is won by at most one of them.
OneWinnerPerVersion ==
    /\ \A p, q \in won : p.expected = q.expected => p = q
    /\ \A p \in won : p.expected < version
=============================================================================

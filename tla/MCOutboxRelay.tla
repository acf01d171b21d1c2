---------------------------- MODULE MCOutboxRelay ----------------------------
(***************************************************************************)
(* Small instances of OutboxRelay for TLC.                                 *)
(***************************************************************************)
EXTENDS OutboxRelay

CONSTANTS s1, s2, a1, i1, p1, p2

\* Everything is served by p1, the single process of the design.
OneHost == [m \in Messages |-> p1]
\* Two processes, as while one deployment replaces another.
TwoHosts == [m \in Messages |-> IF m = s1 THEN p1 ELSE p2]

Kinds == [m \in Messages |-> CASE m \in {s1, s2} -> "send"
                               [] m = a1 -> "action"
                               [] m = i1 -> "ingest"]
=============================================================================

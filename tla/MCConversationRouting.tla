------------------------ MODULE MCConversationRouting ------------------------
(***************************************************************************)
(* A small instance of ConversationRouting for TLC.                        *)
(***************************************************************************)
EXTENDS ConversationRouting, TLC

CONSTANTS c1, c2, q1, q2

\* The two queues overflow into one another; the first one needs a skill that
\* agent 2 does not have.
StartQueue  == [c \in Convs |-> IF c = c1 THEN q1 ELSE q2]
Circle      == [q \in Queues |-> IF q = q1 THEN q2 ELSE q1]
Strategies  == [q \in Queues |-> IF q = q1 THEN "round_robin" ELSE "sticky"]
Pools       == [q \in Queues |-> {1, 2}]
Experts     == [q \in Queues |-> IF q = q1 THEN {1} ELSE {1, 2}]
OneEach     == [a \in Agents |-> 1]

\* Workers are only compared; no liveness is checked with it.
AnyWorker   == Permutations(Workers)
=============================================================================

----------------------------- MODULE MCAdminWeb -----------------------------
(***************************************************************************)
(* Instances of LoginSessions and AdminAccess.  The two share no variable: *)
(* a behaviour moves one of them only, so that their states add up and are *)
(* not multiplied.  What an invariant or a step of one says of the other   *)
(* is nothing, in the product of the two as here.                          *)
(***************************************************************************)
EXTENDS LoginSessions, AdminAccess, TLC

CONSTANTS alice, ida

Kinds == [e \in Emails |-> IF e = alice THEN "local" ELSE "oidc"]

Same == Permutations(Requests) \cup Permutations(Sessions)
          \cup Permutations(Users) \cup Permutations(Callers)

VARIABLE moves  \* the component that moves

Init == LoginInit /\ AccessInit /\ moves \in {"login", "access"}

Next ==
  \/ moves = "login" /\ LoginNext /\ UNCHANGED <<accessVars, moves>>
  \/ moves = "access" /\ AccessNext /\ UNCHANGED <<loginVars, moves>>

Spec == Init /\ [][Next]_<<loginVars, accessVars, moves>>

\* The variables of both modules keep their types.
TypeOK == LoginTypeOK /\ AccessTypeOK
=============================================================================

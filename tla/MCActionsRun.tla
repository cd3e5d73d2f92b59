---------------------------- MODULE MCActionsRun ----------------------------
(* A chain of two jobs, and a line of three, for TLC. *)
EXTENDS ActionsRun, TLC

(* a job, and a second one that needs it *)
Two == {1, 2}
Chain == [j \in Two |-> IF j = 2 THEN {1} ELSE {}]

(* three jobs, each of which needs the one before *)
Three == {1, 2, 3}
Line == [j \in Three |-> IF j = 1 THEN {} ELSE {j - 1}]

Symmetry == Permutations(Sessions)
=============================================================================

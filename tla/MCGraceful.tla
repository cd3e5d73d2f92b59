----------------------------- MODULE MCGraceful -----------------------------
(* Graceful for TLC: one server, a task of each kind, one function for the *)
(* termination.                                                            *)
EXTENDS Graceful

CONSTANTS s1, t1, t2, f1

=============================================================================

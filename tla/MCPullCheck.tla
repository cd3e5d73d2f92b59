---------------------------- MODULE MCPullCheck ----------------------------
(* PullCheck on two processes, for TLC. *)
EXTENDS PullCheck, TLC

CONSTANTS n1, n2, c1, c2, v1, m1, p1

(* a worker, a merge and a push on one process, a worker and a view on the *)
(* other                                                                   *)
Places ==
  (c1 :> n1) @@ (m1 :> n1) @@ (c2 :> n2) @@ (v1 :> n2) @@ (p1 :> n1)

=============================================================================

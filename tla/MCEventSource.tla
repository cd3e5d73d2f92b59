---------------------------- MODULE MCEventSource ----------------------------
(* EventSource with the streams of two users, for TLC. *)
EXTENDS EventSource, TLC

CONSTANTS u1, u2, s1, s2, s3, b1

(* a user with two streams who signs out, and one with a stream *)
Owners == (s1 :> u1) @@ (s2 :> u1) @@ (s3 :> u2) @@ (b1 :> u1)
=============================================================================

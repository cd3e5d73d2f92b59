------------------------- MODULE MCUniqueBaseQueue -------------------------
(* UniqueBaseQueue for TLC: redis_queue.cfg gives the constants. *)
EXTENDS UniqueBaseQueue

=============================================================================

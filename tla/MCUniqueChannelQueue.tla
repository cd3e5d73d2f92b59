------------------------ MODULE MCUniqueChannelQueue -----------------------
(* Who pushes what, for TLC's runs of UniqueChannelQueue. *)
EXTENDS UniqueChannelQueue

CONSTANTS p1, p2, i1, i2, i3

(* two goroutines, each with items of its own *)
OwnItems == {<<p1, i1>>, <<p1, i2>>, <<p2, i3>>}

=============================================================================

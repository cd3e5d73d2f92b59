------------------------- MODULE MCWorkerPoolQueue -------------------------
(* Instances of WorkerPoolQueue for TLC. *)
EXTENDS WorkerPoolQueue, TLC

(* Items and workers are interchangeable in the safety properties. *)
Symmetry == Permutations(Items) \cup Permutations(Workers)
=============================================================================

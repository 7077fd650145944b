---------------------------- MODULE MCFrameQueue ----------------------------
(* Instances of FrameQueue for TLC. *)
EXTENDS FrameQueue, TLC

Symmetry == Permutations(Producers) \cup Permutations(Consumers)
=============================================================================

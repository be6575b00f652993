----------------------------- MODULE MCFrameLoop -----------------------------
(* Instances of FrameLoop for TLC. *)
EXTENDS FrameLoop, TLC

WindowSymmetry == Permutations(Windows)
=============================================================================

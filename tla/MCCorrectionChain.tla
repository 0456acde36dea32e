-------------------------- MODULE MCCorrectionChain --------------------------
(* A small instance of CorrectionChain. *)
EXTENDS CorrectionChain, TLC

MCSymmetry == Permutations(Ids) \cup Permutations(Bodies)
==============================================================================

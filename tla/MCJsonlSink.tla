----------------------------- MODULE MCJsonlSink -----------------------------
(* Small instances of JsonlSink: two records share a correctionId, and one  *)
(* of them has a line longer than the file buffer.                          *)
EXTENDS JsonlSink, TLC

CONSTANTS w1, w2, small, large

MCRecords == {small, large}
MCIdOf == [r \in MCRecords |-> "id"]
MCLarge == {large}
MCSymmetry == Permutations(Writers)
==============================================================================

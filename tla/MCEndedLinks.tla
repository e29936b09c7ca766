---------------------------- MODULE MCEndedLinks ----------------------------
(* Small instances of EndedLinks for TLC. *)
EXTENDS EndedLinks, TLC

Symmetry == Permutations(Epochs) \cup Permutations(Savers)
=============================================================================

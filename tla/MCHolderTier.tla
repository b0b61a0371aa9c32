---------------------------- MODULE MCHolderTier ----------------------------
(* HolderTier for TLC: processes are model values, interchangeable.        *)
EXTENDS HolderTier, TLC

Symmetry ==
  Permutations(Daemon) \cup Permutations(Holder) \cup Permutations(Entry)
=============================================================================

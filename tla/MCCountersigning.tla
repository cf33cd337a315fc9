------------------------- MODULE MCCountersigning --------------------------
(* Finite instances of Countersigning for TLC.                              *)
EXTENDS Countersigning, TLC

(* Keys are only compared with each other.                                  *)
Symmetry == Permutations(Key)
=============================================================================

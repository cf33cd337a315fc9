-------------------------- MODULE MCVerifications --------------------------
(* Finite instances of Verifications for TLC.                               *)
EXTENDS Verifications, TLC

CONSTANTS a1, e1

(* One party and its envelope: every submission after the first renews it.  *)
OneSubject == e1 :> a1

(* Requests and tokens are only compared with each other.                   *)
Symmetry == Permutations(Request) \cup Permutations(Token)
=============================================================================

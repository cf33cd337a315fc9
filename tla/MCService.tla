----------------------------- MODULE MCService -----------------------------
(* Finite instances of Service for TLC.                                     *)
EXTENDS Service, TLC

CONSTANTS a1, e1

OneSubject == e1 :> a1
=============================================================================

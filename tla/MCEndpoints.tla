---------------------------- MODULE MCEndpoints ----------------------------
(* A finite instance of Endpoints for TLC.                                  *)
EXTENDS Endpoints, FiniteSets

(* Nothing wrong, one thing, or all of them.                                *)
OneOrAll == {f \in SUBSET Checks : Cardinality(f) <= 1} \cup {Checks}
=============================================================================

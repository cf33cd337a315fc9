--------------------------- MODULE PublishedKeys ---------------------------
(***************************************************************************)
(* The order in which jwks.json publishes the verifier's keys (JWKS of     *)
(* models.Identity): newest first, by ValidFrom, undated keys last, and by *)
(* kid where that does not decide.  The keys come from loadKeys in the     *)
(* order of their file names, which is a convention only: the same keys    *)
(* mounted under other names must be published alike.                      *)
(***************************************************************************)
EXTENDS Integers

(* Kids are texts, here their place in the order of texts; ValidFrom is     *)
(* there or not.                                                            *)
PublicKey == [kid: Nat, dated: BOOLEAN, from: Nat]

(* The less function of the sort.                                           *)
Before(a, b) ==
  \/ a.dated /\ b.dated /\ a.from > b.from
  \/ a.dated /\ ~b.dated
  \/ /\ a.dated = b.dated
     /\ a.dated => a.from = b.from
     /\ a.kid > b.kid

(* The sequence lists every key of K once.                                  *)
Lists(s, n, K) ==
  /\ s \in [1..n -> K]
  /\ \A k \in K : \E i \in 1..n : s[i] = k
  /\ \A i, j \in 1..n : s[i] = s[j] => i = j

(* What sort.SliceStable leaves: no key before one that goes before it.     *)
JWKS(s, n, K) ==
  /\ Lists(s, n, K)
  /\ \A i, j \in 1..n : i < j => ~Before(s[j], s[i])

(* The kid is taken from the key itself: nothing but init keeps two files   *)
(* from holding the same one.                                               *)
OneKeyPerKid(K) == \A k, l \in K : k.kid = l.kid => k = l
=============================================================================

---------------------------- MODULE Attestation ----------------------------
(***************************************************************************)
(* What the verifier promises, without requests, revisions or pages: each  *)
(* submission gets a token of its own, the declaration is accepted only    *)
(* through the mailed link of the address's current submission, and the    *)
(* authority receives a submission only after its declaration.             *)
(***************************************************************************)
CONSTANTS Address, Token, NoToken

VARIABLES
  live,       \* the current submission of each address
  issued,     \* the submissions that were ever current
  mailed,     \* those whose link reached the mailbox
  attested,   \* those whose declaration was accepted
  delivered   \* those the authority received

vars == <<live, issued, mailed, attested, delivered>>

Init ==
  /\ live = [a \in Address |-> NoToken]
  /\ issued = {} /\ mailed = {} /\ attested = {} /\ delivered = {}

(* Every submission restarts the attestation under a new token.            *)
Submit(a, t) ==
  /\ t \notin issued
  /\ issued' = issued \cup {t}
  /\ live' = [live EXCEPT ![a] = t]
  /\ UNCHANGED <<mailed, attested, delivered>>

Mail(t) ==
  /\ t \in issued
  /\ mailed' = mailed \cup {t}
  /\ UNCHANGED <<live, issued, attested, delivered>>

Attest(a) ==
  /\ live[a] \in mailed
  /\ attested' = attested \cup {live[a]}
  /\ UNCHANGED <<live, issued, mailed, delivered>>

Deliver(t) ==
  /\ t \in attested
  /\ delivered' = delivered \cup {t}
  /\ UNCHANGED <<live, issued, mailed, attested>>

Next ==
  \/ \E a \in Address, t \in Token : Submit(a, t)
  \/ \E t \in Token : Mail(t) \/ Deliver(t)
  \/ \E a \in Address : Attest(a)

Spec == Init /\ [][Next]_vars
=============================================================================

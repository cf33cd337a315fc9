-------------------------- MODULE Countersigning ---------------------------
(***************************************************************************)
(* The signatures of one party's envelope over its rounds: registered with *)
(* the authority, submitted to the verifier, countersigned and delivered,  *)
(* re-countersigned by the authority, returned to the party and submitted  *)
(* again.  The verifier checks the signatures that claim to be its own     *)
(* (verifyOwnSignatures) and replaces them by a fresh one (CounterSign),   *)
(* each with the identity the process at work has loaded.                  *)
(*                                                                         *)
(* The party and the authority are the environment.  One record is kept,   *)
(* and a submission replaces it; the races on it are Verifications'.       *)
(***************************************************************************)
EXTENDS IdentityFiles, Naturals, Sequences

CONSTANTS
  Server,      \* the process that runs serve
  Forger,      \* the key of a signature that only claims to be ours
  NoEnvelope   \* no envelope is stored

ASSUME ServerAssumption == Server \in Process
ASSUME ForgerAssumption == Forger \notin Key \cup {NoKey}

VARIABLES
  envelope,   \* signatures of the envelope the party holds
  stored,     \* signatures of the envelope in the record
  confirmed,  \* the record's attestation
  sent,       \* the last delivery: what was stored, what went out, the key
  issued,     \* history: keys the verifier countersigned with
  refusal     \* the last submission refused for an own signature

roundVars == <<envelope, stored, confirmed, sent, issued, refusal>>
vars == <<made, private, keyFiles, tornKeys, party, init, initResult, proc,
          envelope, stored, confirmed, sent, issued, refusal>>

(* A signature: who it claims to be from, and the key that made it.  Only   *)
(* the keys behind this verifier's name matter.                             *)
Verifier == {"verifier"}

Others == {"party", "other", "authority"}

Issuer == Verifier \cup Others

Signature == [iss: Verifier, key: Key \cup {Forger}]
               \cup [iss: Others, key: {NoKey}]

By(iss) == [iss |-> iss, key |-> NoKey]

Ours(k) == [iss |-> "verifier", key |-> k]

Own(sig) == sig.iss \in Verifier

(* The signatures that claim these issuers, in their order.                 *)
SignedBy(sigs, issuers) ==
  LET kept[n \in 0..Len(sigs)] ==
        IF n = 0 THEN <<>>
        ELSE IF sigs[n].iss \in issuers THEN Append(kept[n - 1], sigs[n])
        ELSE kept[n - 1]
  IN  kept[Len(sigs)]

NoDelivery == [from |-> <<>>, sigs |-> <<>>, key |-> NoKey]

TypeOK ==
  /\ IdentityTypeOK
  /\ envelope \in Seq(Signature)
  /\ stored = NoEnvelope \/ stored \in Seq(Signature)
  /\ confirmed \in BOOLEAN
  /\ sent \in [from: Seq(Signature), sigs: Seq(Signature), key: Key \cup {NoKey}]
  /\ issued \subseteq Key
  /\ refusal \in {"none", "forged", "genuine"}

Init ==
  /\ IdentityInit
  /\ envelope = <<By("party"), By("authority")>>
  /\ stored = NoEnvelope /\ confirmed = FALSE
  /\ sent = NoDelivery
  /\ issued = {}
  /\ refusal = "none"

-----------------------------------------------------------------------------
(* verifyOwnSignatures: each signature that claims this verifier must be    *)
(* made with a key the process knows.                                       *)
VerifyOwnSignatures(sigs, keys) ==
  \A i \in DOMAIN sigs : Own(sigs[i]) => sigs[i].key \in keys

Genuine(sigs) == VerifyOwnSignatures(sigs, issued)

(* CounterSign: earlier own signatures are dropped, everybody else's kept.  *)
(* (CounterSignAppended keeps them all.)                                    *)
CounterSignAppended(sigs, k) == Append(sigs, Ours(k))

CounterSign(sigs, k) == Append(SignedBy(sigs, Others), Ours(k))

(* Receive, for an envelope that passes every other check.  A submission    *)
(* restarts the attestation.                                                *)
ReceiveActiveOnly(sigs) ==
  /\ proc[Server].stage = "up"
  /\ \/ /\ VerifyOwnSignatures(sigs, {proc[Server].key})
        /\ stored' = sigs /\ confirmed' = FALSE
        /\ UNCHANGED refusal
     \/ /\ ~VerifyOwnSignatures(sigs, {proc[Server].key})
        /\ refusal' = IF Genuine(sigs) THEN "genuine" ELSE "forged"
        /\ UNCHANGED <<stored, confirmed>>
  /\ UNCHANGED <<envelope, sent, issued>> /\ UNCHANGED identityVars

Receive(sigs) ==
  /\ proc[Server].stage = "up"
  /\ \/ /\ VerifyOwnSignatures(sigs, proc[Server].keys)
        /\ stored' = sigs /\ confirmed' = FALSE
        /\ UNCHANGED refusal
     \/ /\ ~VerifyOwnSignatures(sigs, proc[Server].keys)
        /\ refusal' = IF Genuine(sigs) THEN "genuine" ELSE "forged"
        /\ UNCHANGED <<stored, confirmed>>
  /\ UNCHANGED <<envelope, sent, issued>> /\ UNCHANGED identityVars

Confirm ==
  /\ proc[Server].stage = "up"
  /\ stored # NoEnvelope /\ ~confirmed
  /\ confirmed' = TRUE
  /\ UNCHANGED <<envelope, stored, sent, issued, refusal>>
  /\ UNCHANGED identityVars

(* deliver, in the server or in a redeliver command: a copy of the stored   *)
(* envelope is countersigned and reaches the authority, or does not.  The   *)
(* stored envelope is never signed itself.                                  *)
Deliver(p, reached) ==
  /\ proc[p].stage = "up"
  /\ confirmed
  /\ LET k == proc[p].key IN
       /\ issued' = issued \cup {k}
       /\ sent' = IF reached
                  THEN [from |-> stored, sigs |-> CounterSign(stored, k),
                        key |-> k]
                  ELSE sent
  /\ UNCHANGED <<envelope, stored, confirmed, refusal>>
  /\ UNCHANGED identityVars

-----------------------------------------------------------------------------
(* The environment.  The authority replaces its own countersignature on     *)
(* what it received and returns the envelope to the party.                  *)
Return ==
  /\ sent # NoDelivery
  /\ envelope' = Append(SignedBy(sent.sigs, Issuer \ {"authority"}),
                        By("authority"))
  /\ UNCHANGED <<stored, confirmed, sent, issued, refusal>>
  /\ UNCHANGED identityVars

(* The party registers a changed document, which may carry the signature of *)
(* another verifier.                                                        *)
Register ==
  /\ envelope' \in {<<By("party"), By("authority")>>,
                    <<By("party"), By("other"), By("authority")>>}
  /\ UNCHANGED <<stored, confirmed, sent, issued, refusal>>
  /\ UNCHANGED identityVars

(* A submission: the party's envelope, or one with a forged signature.      *)
Submission == {envelope, Append(envelope, Ours(Forger))}

Next ==
  \/ IdentityNext /\ UNCHANGED roundVars
  \/ \E sigs \in Submission : Receive(sigs)
  \/ Confirm
  \/ \E p \in Process, reached \in BOOLEAN : Deliver(p, reached)
  \/ Return \/ Register

Spec == Init /\ [][Next]_vars

-----------------------------------------------------------------------------
(* What leaves for the authority carries exactly one signature of ours, the *)
(* fresh one, after everybody else's in their order: rounds of renewal do   *)
(* not pile signatures up ("supersede earlier rounds", CounterSign).        *)
OneFreshSignature ==
  sent # NoDelivery =>
    /\ SignedBy(sent.sigs, Verifier) = <<Ours(sent.key)>>
    /\ SignedBy(sent.sigs, Others) = SignedBy(sent.from, Others)

(* Every countersignature ever issued can be checked against the published  *)
(* keys on disk, whatever init did to the directory since and wherever it   *)
(* stopped: it keeps "every public key it has ever published".  A running   *)
(* server may still answer with an older set (RenewalAccepted).             *)
IssuedStaysVerifiable == issued \subseteq keyFiles

(* A submission with genuine signatures of ours is refused only by a server *)
(* that was started before the latest key was published.                    *)
RefusedOnlyIfStale ==
  [][refusal # "genuine" /\ refusal' = "genuine"
       => proc[Server].keys # keyFiles]_vars

(* "A subject may re-submit the fully endorsed envelope (our own earlier    *)
(* countersignature included)": genuine signatures are never refused.       *)
RenewalAccepted == refusal # "genuine"
=============================================================================

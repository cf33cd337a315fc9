------------------------- MODULE VerificationStore -------------------------
(***************************************************************************)
(* The persisted verification records: models.Verification and the two     *)
(* stores behind domain.VerificationStore, repos.MemoryVerifications and   *)
(* repos.Verifications (CouchDB).  There is one document per address       *)
(* ("verification:<address>"), never deleted, guarded by optimistic        *)
(* concurrency on its revision.                                            *)
(*                                                                         *)
(* A record is abstracted to what the handlers branch on or report.        *)
(* Timestamps that are only tested for nil become Booleans: emailSent is   *)
(* EmailSentAt # nil, confirmed is ConfirmedAt # nil; error texts become   *)
(* Booleans too.  The address is the subject of the stored envelope.       *)
(***************************************************************************)
EXTENDS Naturals

CONSTANTS
  Address,     \* subjects that register with this verifier
  Envelope,    \* registered envelopes that pass the inbox checks
  Token,       \* confirmation tokens; its size bounds the submissions
  Subject,     \* the address each envelope's party declares
  NoToken,     \* the empty token of a zero record
  NoEnvelope   \* the nil envelope of a zero record

ASSUME SubjectAssumption == Subject \in [Envelope -> Address]
ASSUME NoTokenAssumption == NoToken \notin Token
ASSUME NoEnvelopeAssumption == NoEnvelope \notin Envelope

VARIABLES
  store,       \* the document of each address; revision 0 when there is none
  issued       \* history: the tokens that were ever written to the store

storeVars == <<store, issued>>

Status == {"none", "pending", "confirmed", "delivered", "failed"}

Verification ==
  [rev: Nat, token: Token \cup {NoToken}, env: Envelope \cup {NoEnvelope},
   status: Status, emailSent: BOOLEAN, emailError: BOOLEAN,
   confirmed: BOOLEAN, attempts: Nat, deliveryError: BOOLEAN]

(* The zero record.  The empty _rev is 0, so "no document" and "a document  *)
(* with an empty revision" coincide, which is how Put compares them.        *)
Blank ==
  [rev |-> 0, token |-> NoToken, env |-> NoEnvelope, status |-> "none",
   emailSent |-> FALSE, emailError |-> FALSE, confirmed |-> FALSE,
   attempts |-> 0, deliveryError |-> FALSE]

(* NewVerification plus the token and revision upsert gives it: a pending   *)
(* record with nothing carried over from prev but its revision.             *)
(* (CarriedOver keeps what prev says of the email and the delivery.)        *)
CarriedOver(e, t, prev) ==
  [prev EXCEPT !.token = t, !.env = e, !.status = "pending"]

NewVerification(e, t, prev) ==
  [Blank EXCEPT !.rev = prev.rev, !.token = t, !.env = e, !.status = "pending"]

Validate(v) ==
  /\ v.env # NoEnvelope
  /\ v.status # "none"
  /\ v.token # NoToken

StoreInit ==
  /\ store = [a \in Address |-> Blank]
  /\ issued = {}

-----------------------------------------------------------------------------
(* Put has four outcomes for its caller.  A write under the current         *)
(* revision is applied and either acknowledged ("ok") or its answer is lost *)
(* ("lost": CouchDB unreachable, or the request context cancelled, after    *)
(* the document was saved).  A write under another revision is refused      *)
(* ("conflict").  Any write may fail before it is applied ("error").        *)
PutOutcome == {"ok", "lost", "conflict", "error"}

Applied(out) == out \in {"ok", "lost"}

Written(v) == [v EXCEPT !.rev = v.rev + 1]

(* A store that does not compare revisions: the last write wins.            *)
PutUnfenced(v, out) ==
  LET a == Subject[v.env] IN
  \/ /\ Applied(out)
     /\ Validate(v)
     /\ store' = [store EXCEPT ![a] = [v EXCEPT !.rev = store[a].rev + 1]]
     /\ issued' = issued \cup {v.token}
  \/ out = "error" /\ UNCHANGED storeVars

(* Put of either store.                                                     *)
Put(v, out) ==
  LET a == Subject[v.env] IN
  \/ /\ Applied(out)
     /\ Validate(v)
     /\ v.rev = store[a].rev
     /\ store' = [store EXCEPT ![a] = Written(v)]
     /\ issued' = issued \cup {v.token}
  \/ /\ out = "conflict"
     /\ v.rev # store[a].rev
     /\ UNCHANGED storeVars
  \/ out = "error" /\ UNCHANGED storeVars

Get(a) == store[a]

Exists(a) == store[a].rev # 0

(* The row the by_token view holds for a token, if any.                     *)
HasToken(a, t) == Exists(a) /\ store[a].token = t

StoreTypeOK ==
  /\ store \in [Address -> Verification]
  /\ issued \subseteq Token
=============================================================================

--------------------------- MODULE Verifications ---------------------------
(***************************************************************************)
(* The verification service: domain.Verifications with the HTTP handlers   *)
(* and the redeliver command that drive it.                                *)
(*                                                                         *)
(* Every request runs in a goroutine of its own (the redeliver command in  *)
(* a process of its own) and shares nothing but the store: it works on a   *)
(* private copy of the record, and other requests run between any two of   *)
(* its calls to the store, the mailer and the authority.  One action is    *)
(* one such call with the local code around it.  A request is served once; *)
(* the set Request bounds how many there are.                              *)
(*                                                                         *)
(* The mailbox, the authority's inbox and the clock are the environment.   *)
(* A submission is named by the token minted for it, so "the authority     *)
(* holds t" means: it answered 202 to a countersigned copy of the envelope *)
(* that was submitted under token t.  That it then has the envelope is     *)
(* Delivery's matter, as long as no redirect comes in between.             *)
(***************************************************************************)
EXTENDS VerificationStore

CONSTANTS
  Request,       \* requests: inbox POST, confirm GET and POST, redeliver
  AtomicLookup,  \* a token lookup is one step, as in MemoryVerifications;
                 \* FALSE is the CouchDB view, row first and document later
  NoRow          \* no view row has been read

ASSUME LookupAssumption == AtomicLookup \in BOOLEAN
ASSUME NoRowAssumption == NoRow \notin Address

VARIABLES
  op,        \* the handler a request runs: inbox, page, submit, redeliver
  pc,        \* where the request is in its handler
  link,      \* the token in the URL of a confirm request
  row,       \* the view row read by a CouchDB lookup in progress
  rec,       \* the request's own copy of the record
  resp,      \* the answer: a domain error kind or the page rendered
  minted,    \* tokens newToken has returned
  expired,   \* tokens past their TokenExpiresAt
  mailbox,   \* tokens whose link reached the party's published address
  attested,  \* history: links through which the declaration was accepted
  registry,  \* submissions the authority answered 202 to
  sends      \* history: how often Send was called for a submission

localVars == <<op, pc, link, row, rec, resp>>
envVars == <<minted, expired, mailbox, attested, registry, sends>>
vars == <<store, issued, op, pc, link, row, rec, resp, minted, expired,
          mailbox, attested, registry, sends>>

LookupPc == {"page", "confirmation", "confirm", "reread"}
PutPc == {"upsertPut", "mailPut", "confirmPut", "deliverPut"}
Pc == LookupPc \cup PutPc \cup {"idle", "mail", "deliver", "done"}

Resp == {"none", "rejected", "accepted", "not-found", "gone", "internal",
         "unavailable", "validation", "form", "recorded", "failed",
         "complete", "delivered"}

TypeOK ==
  /\ StoreTypeOK
  /\ op \in [Request -> {"none", "inbox", "page", "submit", "redeliver"}]
  /\ pc \in [Request -> Pc]
  /\ link \in [Request -> Token \cup {NoToken}]
  /\ row \in [Request -> Address \cup {NoRow}]
  /\ rec \in [Request -> Verification]
  /\ resp \in [Request -> Resp]
  /\ minted \subseteq Token
  /\ expired \subseteq Token
  /\ mailbox \subseteq Token
  /\ attested \subseteq Token
  /\ registry \subseteq Token
  /\ sends \in [Token -> Nat]

Init ==
  /\ StoreInit
  /\ op = [r \in Request |-> "none"]
  /\ pc = [r \in Request |-> "idle"]
  /\ link = [r \in Request |-> NoToken]
  /\ row = [r \in Request |-> NoRow]
  /\ rec = [r \in Request |-> Blank]
  /\ resp = [r \in Request |-> "none"]
  /\ minted = {} /\ expired = {} /\ mailbox = {}
  /\ attested = {} /\ registry = {}
  /\ sends = [t \in Token |-> 0]

-----------------------------------------------------------------------------
(* Moves of a request: on to the next call, or to its answer.               *)
Goto(r, p) == pc' = [pc EXCEPT ![r] = p] /\ UNCHANGED resp

Answer(r, a) ==
  /\ pc' = [pc EXCEPT ![r] = "done"]
  /\ resp' = [resp EXCEPT ![r] = a]

Begin(r, kind, p) ==
  /\ pc[r] = "idle"
  /\ op' = [op EXCEPT ![r] = kind]
  /\ Goto(r, p)

-----------------------------------------------------------------------------
(* POST /.well-known/gobl/inbox: handleInbox and Receive.                   *)

(* The request token, the envelope, its signatures, the authority's         *)
(* countersignature or the published email do not pass, or the token cannot *)
(* be generated or the previous record not read: nothing is stored.         *)
ReceiveRejected(r) ==
  /\ pc[r] = "idle"
  /\ op' = [op EXCEPT ![r] = "inbox"]
  /\ Answer(r, "rejected")
  /\ UNCHANGED <<link, row, rec>> /\ UNCHANGED envVars /\ UNCHANGED storeVars

(* The checks pass; upsert mints a token and reads the previous record for  *)
(* its revision.                                                            *)
Receive(r, e) ==
  /\ Begin(r, "inbox", "upsertPut")
  /\ \E t \in Token \ minted :
       /\ minted' = minted \cup {t}
       /\ rec' = [rec EXCEPT ![r] = NewVerification(e, t, Get(Subject[e]))]
  /\ UNCHANGED <<link, row, expired, mailbox, attested, registry, sends>>
  /\ UNCHANGED storeVars

(* upsert's write.  Any failure, a lost race included, answers 500.         *)
UpsertPut(r, out) ==
  /\ pc[r] = "upsertPut"
  /\ Put(rec[r], out)
  /\ IF out = "ok"
     THEN Goto(r, "mail") /\ rec' = [rec EXCEPT ![r] = Written(@)]
     ELSE Answer(r, "internal") /\ UNCHANGED rec
  /\ UNCHANGED <<op, link, row>> /\ UNCHANGED envVars

(* mailer.Send.  An error does not say whether the message went out: the    *)
(* SMTP exchange can fail after the server took it.  (MailSendUnchecked     *)
(* does not look at the error.)                                             *)
MailSendUnchecked(r, out, err) ==
  /\ pc[r] = "mail"
  /\ ~out => err
  /\ mailbox' = IF out THEN mailbox \cup {rec[r].token} ELSE mailbox
  /\ rec' = [rec EXCEPT ![r].emailSent = TRUE]
  /\ Goto(r, "mailPut")
  /\ UNCHANGED <<op, link, row, minted, expired, attested, registry, sends>>
  /\ UNCHANGED storeVars

MailSend(r, out, err) ==
  /\ pc[r] = "mail"
  /\ ~out => err
  /\ mailbox' = IF out THEN mailbox \cup {rec[r].token} ELSE mailbox
  /\ rec' = IF err THEN [rec EXCEPT ![r].emailError = TRUE]
                   ELSE [rec EXCEPT ![r].emailSent = TRUE, ![r].emailError = FALSE]
  /\ Goto(r, "mailPut")
  /\ UNCHANGED <<op, link, row, minted, expired, attested, registry, sends>>
  /\ UNCHANGED storeVars

(* The bookkeeping write after the email.  Its failure is only logged: the  *)
(* answer depends on the email alone.                                       *)
MailPut(r, out) ==
  /\ pc[r] = "mailPut"
  /\ Put(rec[r], out)
  /\ Answer(r, IF rec[r].emailError THEN "internal" ELSE "accepted")
  /\ UNCHANGED <<op, link, row, rec>> /\ UNCHANGED envVars

-----------------------------------------------------------------------------
(* Token lookups: GetByToken behind byToken.                                *)

(* The CouchDB view is read first; include_docs then loads the document of  *)
(* the row, as it is at that later moment.                                  *)
ViewRow(r) ==
  /\ ~AtomicLookup
  /\ pc[r] \in LookupPc
  /\ row[r] = NoRow
  /\ \E a \in Address : HasToken(a, link[r]) /\ row' = [row EXCEPT ![r] = a]
  /\ UNCHANGED <<op, pc, link, rec, resp>>
  /\ UNCHANGED envVars /\ UNCHANGED storeVars

(* The lookup of request r returns the record of address a.                 *)
GetByToken(r, a) ==
  IF AtomicLookup THEN HasToken(a, link[r]) ELSE row[r] = a

Misses(r) ==
  /\ row[r] = NoRow
  /\ \A a \in Address : ~HasToken(a, link[r])

TokenExpired(v) == v.token \in expired

(* byToken succeeds with the record of a.                                   *)
ByToken(r, a) ==
  /\ GetByToken(r, a)
  /\ ~TokenExpired(store[a])
  /\ row' = [row EXCEPT ![r] = NoRow]

(* byToken fails: unknown link, expired link, or the store is unavailable.  *)
(* Every caller turns the error straight into the page it shows.            *)
(* (OnlyUnknown forgets the errors other than ErrNotFound.)                 *)
OnlyUnknown(r) ==
  /\ pc[r] \in LookupPc
  /\ Misses(r) /\ Answer(r, "not-found")
  /\ UNCHANGED <<op, link, row, rec>> /\ UNCHANGED envVars /\ UNCHANGED storeVars

LookupFails(r) ==
  /\ pc[r] \in LookupPc
  /\ \/ Misses(r) /\ Answer(r, "not-found")
     \/ /\ \E a \in Address : GetByToken(r, a) /\ TokenExpired(store[a])
        /\ Answer(r, "gone")
     \/ Answer(r, "internal")
  /\ UNCHANGED <<op, link, row, rec>> /\ UNCHANGED envVars /\ UNCHANGED storeVars

(* A lookup that does not come back with the record, or not yet.            *)
NoRecordYet(r) ==
  /\ pc[r] \in LookupPc
  /\ ViewRow(r) \/ LookupFails(r)

-----------------------------------------------------------------------------
(* GET and POST /confirm/<token>.  Links are unguessable, so a request      *)
(* carries a token that was mailed.                                         *)
OpenLink(r, t, kind, p) ==
  /\ t \in mailbox
  /\ Begin(r, kind, p)
  /\ link' = [link EXCEPT ![r] = t]
  /\ UNCHANGED <<row, rec>> /\ UNCHANGED envVars /\ UNCHANGED storeVars

(* handleConfirmPage and resultView: the page follows the status.           *)
(* (ViewRaw shows the status itself.)                                       *)
ViewRaw(v) == v.status

View(v) ==
  CASE v.status = "pending" -> "form"
    [] v.status = "delivered" -> "complete"
    [] v.status = "failed" -> "failed"
    [] OTHER -> "recorded"

PageRead(r) ==
  /\ pc[r] = "page"
  /\ \E a \in Address :
       /\ ByToken(r, a)
       /\ rec' = [rec EXCEPT ![r] = store[a]]
       /\ Answer(r, View(store[a]))
  /\ UNCHANGED <<op, link>> /\ UNCHANGED envVars /\ UNCHANGED storeVars

(* handleConfirmSubmit's first read.  The checkbox is required only while   *)
(* the record is pending; a later POST is the retry button.                 *)
(* (ConfirmationUngated does not require it at all.)                        *)
ConfirmationUngated(r, accept) ==
  /\ pc[r] = "confirmation"
  /\ \E a \in Address : ByToken(r, a)
  /\ attested' = IF accept THEN attested \cup {link[r]} ELSE attested
  /\ Goto(r, "confirm")
  /\ UNCHANGED <<op, link, rec, minted, expired, mailbox, registry, sends>>
  /\ UNCHANGED storeVars

Confirmation(r, accept) ==
  /\ pc[r] = "confirmation"
  /\ \E a \in Address :
       /\ ByToken(r, a)
       /\ \/ /\ store[a].status = "pending" /\ ~accept
             /\ Answer(r, "form")
             /\ UNCHANGED attested
          \/ /\ store[a].status = "pending" /\ accept
             /\ Goto(r, "confirm")
             /\ attested' = attested \cup {link[r]}
          \/ /\ store[a].status # "pending"
             /\ Goto(r, "confirm")
             /\ UNCHANGED attested
  /\ UNCHANGED <<op, link, rec, minted, expired, mailbox, registry, sends>>
  /\ UNCHANGED storeVars

-----------------------------------------------------------------------------
(* Confirm.                                                                 *)
Confirmed(v) == [v EXCEPT !.confirmed = TRUE, !.status = "confirmed"]

(* Confirm's own read of the record, and what it decides.                   *)
ConfirmRead(r) ==
  /\ pc[r] = "confirm"
  /\ \E a \in Address :
       /\ ByToken(r, a)
       /\ \/ /\ store[a].status = "delivered"
             /\ rec' = [rec EXCEPT ![r] = store[a]]
             /\ Answer(r, "complete")
          \/ /\ store[a].status # "delivered" /\ ~store[a].confirmed
             /\ rec' = [rec EXCEPT ![r] = Confirmed(store[a])]
             /\ Goto(r, "confirmPut")
          \/ /\ store[a].status # "delivered" /\ store[a].confirmed
             /\ rec' = [rec EXCEPT ![r] = store[a]]
             /\ Goto(r, "deliver")
  /\ UNCHANGED <<op, link>> /\ UNCHANGED envVars /\ UNCHANGED storeVars

(* The attestation is written; a lost race re-reads the record.             *)
ConfirmPut(r, out) ==
  /\ pc[r] = "confirmPut"
  /\ Put(rec[r], out)
  /\ \/ /\ out = "ok"
        /\ rec' = [rec EXCEPT ![r] = Written(@)]
        /\ Goto(r, "deliver")
     \/ out = "conflict" /\ Goto(r, "reread") /\ UNCHANGED rec
     \/ out \in {"error", "lost"} /\ Answer(r, "internal") /\ UNCHANGED rec
  /\ UNCHANGED <<op, link, row>> /\ UNCHANGED envVars

(* After a lost race: whatever the record holds now is delivered, unless it *)
(* already was.  ConfirmedAt is not looked at again.                        *)
(* (ConfirmRereadUnchecked does not look at the status either.)             *)
ConfirmRereadUnchecked(r) ==
  /\ pc[r] = "reread"
  /\ \E a \in Address :
       /\ ByToken(r, a)
       /\ rec' = [rec EXCEPT ![r] = store[a]]
       /\ Goto(r, "deliver")
  /\ UNCHANGED <<op, link>> /\ UNCHANGED envVars /\ UNCHANGED storeVars

ConfirmReread(r) ==
  /\ pc[r] = "reread"
  /\ \E a \in Address :
       /\ ByToken(r, a)
       /\ rec' = [rec EXCEPT ![r] = store[a]]
       /\ IF store[a].status = "delivered" THEN Answer(r, "complete")
                                           ELSE Goto(r, "deliver")
  /\ UNCHANGED <<op, link>> /\ UNCHANGED envVars /\ UNCHANGED storeVars

-----------------------------------------------------------------------------
(* The redeliver command: an unconfirmed or missing record is refused.      *)
(* (RedeliverUnconfirmed does not look at ConfirmedAt.)                     *)
RedeliverUnconfirmed(r, a) ==
  /\ pc[r] = "idle"
  /\ op' = [op EXCEPT ![r] = "redeliver"]
  /\ Exists(a)
  /\ rec' = [rec EXCEPT ![r] = Get(a)]
  /\ Goto(r, "deliver")
  /\ UNCHANGED <<link, row>> /\ UNCHANGED envVars /\ UNCHANGED storeVars

Redeliver(r, a) ==
  /\ pc[r] = "idle"
  /\ op' = [op EXCEPT ![r] = "redeliver"]
  /\ \/ /\ Exists(a) /\ store[a].confirmed
        /\ rec' = [rec EXCEPT ![r] = Get(a)]
        /\ Goto(r, "deliver")
     \/ Exists(a) /\ ~store[a].confirmed /\ Answer(r, "validation") /\ UNCHANGED rec
     \/ ~Exists(a) /\ Answer(r, "not-found") /\ UNCHANGED rec
     \/ Answer(r, "internal") /\ UNCHANGED rec
  /\ UNCHANGED <<link, row>> /\ UNCHANGED envVars /\ UNCHANGED storeVars

-----------------------------------------------------------------------------
(* deliver: countersign a copy, POST it to the authority, write the outcome.*)
Failed(v) == [v EXCEPT !.status = "failed", !.deliveryError = TRUE]

Delivered(v) == [v EXCEPT !.status = "delivered", !.deliveryError = FALSE]

Attempted(v) == [v EXCEPT !.attempts = @ + 1]

CounterSignFails(r) ==
  /\ pc[r] = "deliver"
  /\ rec' = [rec EXCEPT ![r] = Failed(@)]
  /\ Goto(r, "deliverPut")
  /\ UNCHANGED <<op, link, row>> /\ UNCHANGED envVars /\ UNCHANGED storeVars

(* sender.Send.  An error does not say whether the authority took the       *)
(* envelope: its 202 can be lost, or arrive after deliveryTimeout.          *)
(* (DeliverSendUnchecked does not look at the error.)                       *)
DeliverSendUnchecked(r, got, err) ==
  /\ pc[r] = "deliver"
  /\ ~got => err
  /\ registry' = IF got THEN registry \cup {rec[r].token} ELSE registry
  /\ sends' = [sends EXCEPT ![rec[r].token] = @ + 1]
  /\ rec' = [rec EXCEPT ![r] = Delivered(Attempted(@))]
  /\ Goto(r, "deliverPut")
  /\ UNCHANGED <<op, link, row, minted, expired, mailbox, attested>>
  /\ UNCHANGED storeVars

DeliverSend(r, got, err) ==
  /\ pc[r] = "deliver"
  /\ ~got => err
  /\ registry' = IF got THEN registry \cup {rec[r].token} ELSE registry
  /\ sends' = [sends EXCEPT ![rec[r].token] = @ + 1]
  /\ rec' = [rec EXCEPT ![r] = IF err THEN Failed(Attempted(@))
                                      ELSE Delivered(Attempted(@))]
  /\ Goto(r, "deliverPut")
  /\ UNCHANGED <<op, link, row, minted, expired, mailbox, attested>>
  /\ UNCHANGED storeVars

(* The write of the outcome; its failure is only logged.                    *)
DeliverPut(r, out) ==
  /\ pc[r] = "deliverPut"
  /\ Put(rec[r], out)
  /\ Answer(r, IF rec[r].status = "delivered"
               THEN IF op[r] = "redeliver" THEN "delivered" ELSE "complete"
               ELSE IF op[r] = "redeliver" THEN "internal" ELSE "unavailable")
  /\ UNCHANGED <<op, link, row, rec>> /\ UNCHANGED envVars

-----------------------------------------------------------------------------
(* The clock passes a token's TokenExpiresAt.                               *)
Expire(t) ==
  /\ t \in minted \ expired
  /\ expired' = expired \cup {t}
  /\ UNCHANGED <<minted, mailbox, attested, registry, sends>>
  /\ UNCHANGED localVars /\ UNCHANGED storeVars

(* The handler panics, the process dies, or a graceful shutdown times out:  *)
(* the request is gone without an answer, and only the store remembers it.  *)
(* (MemoryVerifications dies with its process: with it only the panic.)     *)
Crash(r) ==
  /\ pc[r] \notin {"idle", "done"}
  /\ Answer(r, "none")
  /\ rec' = [rec EXCEPT ![r] = Blank]
  /\ row' = [row EXCEPT ![r] = NoRow]
  /\ UNCHANGED <<op, link>> /\ UNCHANGED envVars /\ UNCHANGED storeVars

-----------------------------------------------------------------------------
(* The calls a request makes once it has begun.                             *)
Step(r) ==
  \/ \E out \in PutOutcome : UpsertPut(r, out)
  \/ \E out, err \in BOOLEAN : MailSend(r, out, err)
  \/ \E out \in PutOutcome : MailPut(r, out)
  \/ NoRecordYet(r)
  \/ PageRead(r)
  \/ \E accept \in BOOLEAN : Confirmation(r, accept)
  \/ ConfirmRead(r)
  \/ \E out \in PutOutcome : ConfirmPut(r, out)
  \/ ConfirmReread(r)
  \/ CounterSignFails(r)
  \/ \E got, err \in BOOLEAN : DeliverSend(r, got, err)
  \/ \E out \in PutOutcome : DeliverPut(r, out)

Arrive(r) ==
  \/ ReceiveRejected(r)
  \/ \E e \in Envelope : Receive(r, e)
  \/ \E t \in Token : OpenLink(r, t, "page", "page")
  \/ \E t \in Token : OpenLink(r, t, "submit", "confirmation")
  \/ \E a \in Address : Redeliver(r, a)

Next ==
  \/ \E r \in Request : Arrive(r) \/ Step(r) \/ Crash(r)
  \/ \E t \in Token : Expire(t)

Spec == Init /\ [][Next]_vars

-----------------------------------------------------------------------------
(* What the service promises.                                               *)

(* A stored record never claims more than what happened: EmailSentAt is set *)
(* only on a record whose link reached the mailbox, the status is delivered *)
(* only if the authority answered 202 for this very submission, and the     *)
(* attempts it counts were made for it.  A renewal inherits none of them.   *)
RecordTruthful ==
  \A a \in Address :
    /\ store[a].emailSent => store[a].token \in mailbox
    /\ store[a].status = "delivered" => store[a].token \in registry
    /\ store[a].attempts > 0 => store[a].attempts <= sends[store[a].token]

(* "Nothing is ever countersigned and delivered without a fresh             *)
(* confirmation through the emailed link" (upsert): the declaration was     *)
(* accepted through the link of the very submission the authority received, *)
(* or that is stored as confirmed.                                          *)
AttestedBeforeDelivery ==
  /\ registry \subseteq attested
  /\ \A a \in Address : store[a].confirmed => store[a].token \in attested

(* Whoever writes a record last, with whatever stale copy: as long as the   *)
(* submission is the same, its attestation is not cleared, its envelope is  *)
(* not exchanged and its count of attempts does not fall.                   *)
AttestationNeverLost ==
  [][\A a \in Address :
       (Exists(a) /\ store'[a].token = store[a].token) =>
          /\ store[a].confirmed => store'[a].confirmed
          /\ store'[a].env = store[a].env
          /\ store'[a].attempts >= store[a].attempts]_vars

(* A token that was replaced by a newer submission never becomes the live   *)
(* one again: a request still holding the old record cannot put it back.    *)
DeadLinksStayDead ==
  [][\A a \in Address :
       store'[a].token # store[a].token => store'[a].token \notin issued]_vars

(* A verification that completed stays completed for everything the link    *)
(* can start: Confirm returns a delivered record unchanged, before and      *)
(* after a lost race, and a slower attempt cannot write its failure over    *)
(* another's success.  Only a redeliver, which does not look at the status, *)
(* may turn it back into failed, with the write of its own outcome.         *)
OnlyRedeliverReopens ==
  [][\A a \in Address :
       (/\ store[a].status = "delivered"
        /\ store'[a].status # "delivered"
        /\ store'[a].token = store[a].token) =>
          \E r \in Request :
            /\ op[r] = "redeliver" /\ pc[r] = "deliverPut" /\ pc'[r] = "done"
            /\ rec[r].token = store[a].token]_vars

(* The page says complete, or redeliver says delivered, only if the         *)
(* authority holds the submission: "the subject never sees success for a    *)
(* verification that did not complete" (handleConfirmSubmit).               *)
SuccessTruthful ==
  \A r \in Request :
    resp[r] \in {"complete", "delivered"} => rec[r].token \in registry

(* An inbox POST is answered 202 only when its record was stored and its    *)
(* link is in the mailbox: "a request is only acknowledged once its side    *)
(* effect is done" (Receive), whatever became of the bookkeeping write.     *)
AckMeansLinkOut ==
  \A r \in Request :
    resp[r] = "accepted" => rec[r].token \in mailbox \cap issued

(* "The attestation itself is durable from the first call" (Confirm): once  *)
(* the submitter has been told that the verification is complete or that    *)
(* the confirmation is saved, the live record of that link is confirmed.    *)
AttestationDurable ==
  \A r \in Request, a \in Address :
    (/\ op[r] = "submit" /\ resp[r] \in {"complete", "unavailable"}
     /\ HasToken(a, link[r])) => store[a].confirmed

(* The promise of the package, as Attestation states it.                    *)
Promise == INSTANCE Attestation WITH
  live <- [a \in Address |-> store[a].token],
  mailed <- mailbox,
  delivered <- registry

(* Every step of every request, crashes and lost answers included, is a     *)
(* step of the promise or changes nothing it speaks of.                     *)
RefinesAttestation == Promise!Spec

(* Recovery, as the requests of this module carry it out on submission t.   *)
WorkingOn(t, r) ==
  /\ rec[r].token = t
  /\ pc[r] \in {"mail", "mailPut", "confirmPut", "reread", "deliver", "deliverPut"}

Facts(v) == [status |-> v.status, confirmed |-> v.confirmed]

Nothing == [status |-> "pending", confirmed |-> FALSE]

Live(t) == \E a \in Address : HasToken(a, t)

LifeOf(t) ==
  IF Live(t) THEN "live" ELSE IF t \in issued THEN "replaced" ELSE "new"

RecordOf(t) ==
  IF Live(t) THEN Facts(store[CHOOSE a \in Address : HasToken(a, t)]) ELSE Nothing

PhaseOf(t) == [r \in Request |-> IF WorkingOn(t, r) THEN pc[r] ELSE "idle"]

CopyOf(t) == [r \in Request |-> IF WorkingOn(t, r) THEN Facts(rec[r]) ELSE Nothing]

CurrentOf(t) ==
  {r \in Request :
     WorkingOn(t, r) /\ rec[r].rev = store[Subject[rec[r].env]].rev}

Retrying(t) == INSTANCE Recovery WITH
  Worker <- Request,
  life <- LifeOf(t),
  record <- RecordOf(t),
  phase <- PhaseOf(t),
  copy <- CopyOf(t),
  current <- CurrentOf(t),
  expired <- t \in expired,
  held <- t \in registry

(* Whatever befalls a submission here, Recovery allows: that a confirmed    *)
(* one can always be brought to the authority is said of these handlers.    *)
RefinesRecovery ==
  /\ \A t \in Token : Retrying(t)!Init
  /\ [][\A t \in Token : [Retrying(t)!Next]_(Retrying(t)!vars)]_vars
=============================================================================

------------------------ MODULE VerificationsProofs ------------------------
(***************************************************************************)
(* Proofs about Verifications, for any number of addresses, envelopes,     *)
(* tokens and requests.                                                    *)
(*                                                                         *)
(* The argument is the revision fence.  A request works on a copy of the   *)
(* record; as long as the revision of its copy is the stored one, nobody   *)
(* wrote in between and the copy is at least as far on as the store.  A    *)
(* write moves the revision, so every other copy is behind from then on    *)
(* and its Put is refused.                                                 *)
(***************************************************************************)
EXTENDS Verifications, TLAPS

(* Where a request holds a copy it may yet write.                           *)
HeldPc == {"mail", "mailPut", "confirmPut", "deliver", "deliverPut"}

WorkPc == HeldPc \cup {"upsertPut"}

(* Where a confirm request may still look its link up.                      *)
LinkPc == LookupPc \cup {"confirmPut"}

-----------------------------------------------------------------------------
(* The inductive invariants, layer by layer.                                *)

(* Documents, rows and copies are what their place says they are.           *)
StoredForm(a) ==
  Exists(a) => /\ store[a].env \in Envelope
               /\ Subject[store[a].env] = a
               /\ store[a].status # "none"
               /\ store[a].token \in issued

CopyForm(r) ==
  /\ pc[r] \in WorkPc => /\ rec[r].env \in Envelope
                         /\ rec[r].status # "none"
                         /\ rec[r].token \in Token
  /\ row[r] # NoRow => Exists(row[r])
  /\ pc[r] \in LinkPc => link[r] \in Token

WellFormed ==
  /\ \A a \in Address : StoredForm(a)
  /\ \A r \in Request : CopyForm(r)

(* No copy and no document claims more than what happened, given the        *)
(* mailbox m, the registry g and the counts of sends n.                     *)
Truthful(v, m, g, n) ==
  /\ v.emailSent => v.token \in m
  /\ v.status = "delivered" => v.token \in g
  /\ v.attempts > 0 => v.token \in Token /\ v.attempts <= n[v.token]

TruthInv ==
  /\ \A a \in Address : Truthful(store[a], mailbox, registry, sends)
  /\ \A r \in Request : Truthful(rec[r], mailbox, registry, sends)

(* The fence: a copy that can still be written is at least as far on.       *)
AtLeast(v, s) ==
  /\ v.token = s.token /\ v.env = s.env
  /\ s.confirmed => v.confirmed
  /\ s.attempts <= v.attempts

Fenced(r) ==
  LET s == store[Subject[rec[r].env]] IN
  pc[r] \in HeldPc => /\ rec[r].rev # 0
                      /\ rec[r].rev <= s.rev
                      /\ rec[r].rev = s.rev => AtLeast(rec[r], s)
                      /\ rec[r].token \in issued

(* A submission that is not written yet has a token nobody else has.        *)
Unwritten(r) ==
  pc[r] = "upsertPut" =>
    /\ rec[r].token \in minted \ issued
    /\ \A q \in Request \ {r} :
         pc[q] = "upsertPut" => rec[q].token # rec[r].token

FenceInv ==
  /\ issued \subseteq minted
  /\ \A r \in Request : Fenced(r) /\ Unwritten(r)

(* Answers say what the copy says.                                          *)
AnswerFor(r) ==
  /\ pc[r] # "done" => resp[r] = "none"
  /\ pc[r] = "mailPut" /\ ~rec[r].emailError => rec[r].emailSent
  /\ resp[r] \in {"complete", "delivered"} => rec[r].status = "delivered"
  /\ resp[r] = "accepted" => rec[r].emailSent /\ rec[r].token \in issued

AnswerInv == \A r \in Request : AnswerFor(r)

(* With the atomic lookup: nothing moves past pending unattested.           *)
Covered(v) ==
  (v.confirmed \/ v.status \in {"confirmed", "delivered", "failed"})
    => v.token \in attested

AttestedFor(r) ==
  /\ Covered(rec[r])
  /\ pc[r] \in {"confirmPut", "deliver"} => rec[r].token \in attested
  /\ pc[r] \in {"confirm", "confirmPut", "reread"} => link[r] \in attested
  /\ pc[r] \in LinkPc => link[r] \in mailbox

AttestInv ==
  /\ registry \subseteq attested
  /\ \A a \in Address : Covered(store[a])
  /\ \A r \in Request : AttestedFor(r)

-----------------------------------------------------------------------------
(* What the operators on records and the store do.                          *)

(* The record operations of models and of deliver return records.           *)
LEMMA RecordTypes ==
  ASSUME NEW v \in Verification
  PROVE  /\ Written(v) \in Verification
         /\ Confirmed(v) \in Verification
         /\ Failed(v) \in Verification
         /\ Delivered(v) \in Verification
         /\ Attempted(v) \in Verification
<1>1. Written(v) \in Verification
  BY DEF Verification, Written
<1>2. Confirmed(v) \in Verification
  BY DEF Verification, Confirmed, Status
<1>3. Failed(v) \in Verification
  BY DEF Verification, Failed, Status
<1>4. Delivered(v) \in Verification
  BY DEF Verification, Delivered, Status
<1>5. Attempted(v) \in Verification
  BY DEF Verification, Attempted
<1>6. QED
  BY <1>1, <1>2, <1>3, <1>4, <1>5

(* A written record differs from the copy in its revision alone.           *)
LEMMA WrittenFields ==
  ASSUME NEW v \in Verification
  PROVE  LET w == Written(v) IN
         /\ w \in Verification
         /\ w.token = v.token
         /\ w.env = v.env
         /\ w.emailSent = v.emailSent
         /\ w.emailError = v.emailError
         /\ w.confirmed = v.confirmed
         /\ w.attempts = v.attempts
         /\ w.rev = v.rev + 1
         /\ w.status = v.status
BY RecordTypes DEF Verification, Written

(* The attestation sets status and confirmation alone.                     *)
LEMMA ConfirmedFields ==
  ASSUME NEW v \in Verification
  PROVE  LET w == Confirmed(v) IN
         /\ w \in Verification
         /\ w.token = v.token
         /\ w.env = v.env
         /\ w.emailSent = v.emailSent
         /\ w.emailError = v.emailError
         /\ w.confirmed = TRUE
         /\ w.attempts = v.attempts
         /\ w.rev = v.rev
         /\ w.status = "confirmed"
BY RecordTypes DEF Verification, Confirmed

(* A failed delivery changes the status, and never the attestation.         *)
LEMMA FailedFields ==
  ASSUME NEW v \in Verification
  PROVE  LET w == Failed(v) IN
         /\ w \in Verification
         /\ w.token = v.token
         /\ w.env = v.env
         /\ w.emailSent = v.emailSent
         /\ w.emailError = v.emailError
         /\ w.confirmed = v.confirmed
         /\ w.attempts = v.attempts
         /\ w.rev = v.rev
         /\ w.status = "failed"
BY RecordTypes DEF Verification, Failed

(* So does a delivery that succeeds.                                        *)
LEMMA DeliveredFields ==
  ASSUME NEW v \in Verification
  PROVE  LET w == Delivered(v) IN
         /\ w \in Verification
         /\ w.token = v.token
         /\ w.env = v.env
         /\ w.emailSent = v.emailSent
         /\ w.emailError = v.emailError
         /\ w.confirmed = v.confirmed
         /\ w.attempts = v.attempts
         /\ w.rev = v.rev
         /\ w.status = "delivered"
BY RecordTypes DEF Verification, Delivered

(* An attempt is counted, and nothing else.                                 *)
LEMMA AttemptedFields ==
  ASSUME NEW v \in Verification
  PROVE  LET w == Attempted(v) IN
         /\ w \in Verification
         /\ w.token = v.token
         /\ w.env = v.env
         /\ w.emailSent = v.emailSent
         /\ w.emailError = v.emailError
         /\ w.confirmed = v.confirmed
         /\ w.attempts = v.attempts + 1
         /\ w.rev = v.rev
         /\ w.status = v.status
BY RecordTypes DEF Verification, Attempted

(* The record upsert writes is a pending record of e.                       *)
LEMMA NewVerificationType ==
  ASSUME NEW e \in Envelope, NEW t \in Token, NEW prev \in Verification
  PROVE  NewVerification(e, t, prev) \in Verification
BY DEF Verification, NewVerification, Blank, Status

(* The zero record is a record.                                             *)
LEMMA BlankType == Blank \in Verification
BY DEF Verification, Blank, Status

(* Put either leaves the store alone or replaces the one document of the    *)
(* record's address, and only if the record carries its revision.           *)
LEMMA PutEffect ==
  ASSUME NEW v \in Verification, NEW out \in PutOutcome, StoreTypeOK, Put(v, out)
  PROVE  \/ store' = store /\ issued' = issued /\ out \in {"conflict", "error"}
         \/ /\ out \in {"ok", "lost"}
            /\ v.env \in Envelope /\ v.token \in Token /\ v.status # "none"
            /\ Subject[v.env] \in Address
            /\ v.rev = store[Subject[v.env]].rev
            /\ store' = [store EXCEPT ![Subject[v.env]] = Written(v)]
            /\ issued' = issued \cup {v.token}
<1>1. v.env \in Envelope \cup {NoEnvelope} /\ v.token \in Token \cup {NoToken}
  BY DEF Verification
<1>2. Validate(v) => /\ v.env \in Envelope /\ v.token \in Token
                     /\ v.status # "none" /\ Subject[v.env] \in Address
  BY <1>1, SubjectAssumption DEF Validate
<1>3. QED
  BY <1>2 DEF Put, Applied, storeVars, PutOutcome

(* Put keeps the store well typed and well formed, and no document and no   *)
(* issued token goes away.                                                  *)
LEMMA PutForm ==
  ASSUME NEW v \in Verification, NEW out \in PutOutcome,
         StoreTypeOK, \A a \in Address : StoredForm(a), Put(v, out)
  PROVE  /\ StoreTypeOK'
         /\ \A a \in Address : StoredForm(a)' /\ (Exists(a) => Exists(a)')
         /\ issued \subseteq issued'
<1>1. CASE store' = store /\ issued' = issued
  BY <1>1 DEF StoreTypeOK, StoredForm, Exists
<1>2. CASE /\ v.env \in Envelope /\ v.token \in Token /\ v.status # "none"
           /\ Subject[v.env] \in Address
           /\ store' = [store EXCEPT ![Subject[v.env]] = Written(v)]
           /\ issued' = issued \cup {v.token}
  <2>1. Written(v) \in Verification
    BY RecordTypes
  <2>2. StoreTypeOK'
    BY <1>2, <2>1 DEF StoreTypeOK
  <2>3. /\ Written(v).rev # 0 /\ Written(v).env = v.env
        /\ Written(v).status = v.status /\ Written(v).token = v.token
    BY DEF Written, Verification
  <2>4. ASSUME NEW a \in Address
        PROVE  StoredForm(a)' /\ (Exists(a) => Exists(a)')
    <3>1. CASE a = Subject[v.env]
      BY <1>2, <2>3, <3>1 DEF StoredForm, Exists, StoreTypeOK
    <3>2. CASE a # Subject[v.env]
      BY <1>2, <3>2 DEF StoredForm, Exists, StoreTypeOK
    <3>3. QED
      BY <3>1, <3>2
  <2>5. QED
    BY <1>2, <2>2, <2>4
<1>3. QED
  BY <1>1, <1>2, PutEffect

(* A lookup that succeeds returns an existing, well-formed document.        *)
LEMMA LookupFound ==
  ASSUME TypeOK, WellFormed, NEW r \in Request, NEW a \in Address, GetByToken(r, a)
  PROVE  /\ Exists(a)
         /\ store[a] \in Verification
         /\ store[a].env \in Envelope /\ Subject[store[a].env] = a
         /\ store[a].status # "none"
         /\ store[a].token \in issued /\ store[a].token \in Token
<1>1. Exists(a)
  BY NoRowAssumption DEF GetByToken, HasToken, WellFormed, CopyForm
<1>2. QED
  BY <1>1 DEF WellFormed, StoredForm, TypeOK, StoreTypeOK

-----------------------------------------------------------------------------
(* Type correctness.                                                        *)

TypeInv == TypeOK /\ WellFormed

(* A request that moves on keeps the types of pc and resp, and changes them *)
(* for itself alone.                                                        *)
LEMMA MoveTypes ==
  ASSUME TypeOK, NEW r \in Request,
         \/ \E p \in Pc : Goto(r, p)
         \/ \E a \in Resp : Answer(r, a)
  PROVE  pc' \in [Request -> Pc] /\ resp' \in [Request -> Resp]
BY DEF TypeOK, Goto, Answer, Pc

(* The frame of a request's step: the store only gains documents, and the   *)
(* copies of the others are untouched.                                      *)
LEMMA FormFrame ==
  ASSUME TypeInv, NEW r \in Request,
         \A a \in Address : StoredForm(a)' /\ (Exists(a) => Exists(a)'),
         \A q \in Request \ {r} :
           /\ pc'[q] = pc[q] /\ rec'[q] = rec[q]
           /\ row'[q] = row[q] /\ link'[q] = link[q],
         CopyForm(r)'
  PROVE  WellFormed'
<1>1. ASSUME NEW q \in Request \ {r} PROVE CopyForm(q)'
  <2>1. pc[q] \in WorkPc => /\ rec[q].env \in Envelope
                           /\ rec[q].status # "none"
                           /\ rec[q].token \in Token
    BY DEF TypeInv, WellFormed, CopyForm
  <2>2. row[q] # NoRow => row[q] \in Address /\ Exists(row[q])
    BY DEF TypeInv, TypeOK, WellFormed, CopyForm
  <2>3. pc[q] \in LinkPc => link[q] \in Token
    BY DEF TypeInv, WellFormed, CopyForm
  <2>4. QED
    BY <1>1, <2>1, <2>2, <2>3 DEF CopyForm
<1>2. QED
  BY <1>1 DEF WellFormed

(* What the email changes: only the two notes about it, and it is noted as  *)
(* sent only if it went out.                                                *)
LEMMA MailSendEffect ==
  ASSUME TypeOK, NEW r \in Request, NEW out \in BOOLEAN, NEW err \in BOOLEAN,
         MailSend(r, out, err)
  PROVE  LET v == rec[r]  w == rec'[r] IN
         /\ pc[r] = "mail" /\ pc'[r] = "mailPut" /\ resp' = resp
         /\ w \in Verification /\ rec' = [rec EXCEPT ![r] = w]
         /\ w.token = v.token /\ w.env = v.env /\ w.rev = v.rev
         /\ w.status = v.status /\ w.confirmed = v.confirmed
         /\ w.attempts = v.attempts
         /\ w.emailSent => v.emailSent \/ out
         /\ ~w.emailError => w.emailSent
<1>1. rec[r] \in Verification /\ pc[r] = "mail" /\ pc'[r] = "mailPut" /\ resp' = resp
  BY DEF TypeOK, MailSend, Goto
<1>2. CASE err
  <2>1. rec' = [rec EXCEPT ![r] = [rec[r] EXCEPT !.emailError = TRUE]]
    BY <1>2 DEF TypeOK, MailSend
  <2>2. QED
    BY <1>1, <2>1 DEF Verification, TypeOK
<1>3. CASE ~err
  <2>1. out /\ rec' = [rec EXCEPT ![r] = [rec[r] EXCEPT !.emailSent = TRUE, !.emailError = FALSE]]
    BY <1>3 DEF TypeOK, MailSend
  <2>2. QED
    BY <1>1, <2>1 DEF Verification, TypeOK
<1>4. QED
  BY <1>2, <1>3

(* What an attempt changes: it is counted, and recorded as delivered only   *)
(* if the authority took the envelope.                                      *)
LEMMA DeliverSendEffect ==
  ASSUME TypeOK, NEW r \in Request, NEW got \in BOOLEAN, NEW err \in BOOLEAN,
         DeliverSend(r, got, err)
  PROVE  LET v == rec[r]  w == rec'[r] IN
         /\ pc[r] = "deliver" /\ pc'[r] = "deliverPut" /\ resp' = resp
         /\ w \in Verification /\ rec' = [rec EXCEPT ![r] = w]
         /\ w.token = v.token /\ w.env = v.env /\ w.rev = v.rev
         /\ w.emailSent = v.emailSent /\ w.confirmed = v.confirmed
         /\ w.attempts = v.attempts + 1
         /\ w.status \in {"failed", "delivered"}
         /\ w.status = "delivered" => got
<1>1. rec[r] \in Verification /\ pc[r] = "deliver" /\ pc'[r] = "deliverPut" /\ resp' = resp
  BY DEF TypeOK, DeliverSend, Goto
<1>2. LET u == Attempted(rec[r]) IN
      /\ u \in Verification
      /\ u.token = rec[r].token /\ u.env = rec[r].env /\ u.rev = rec[r].rev
      /\ u.emailSent = rec[r].emailSent /\ u.confirmed = rec[r].confirmed
      /\ u.attempts = rec[r].attempts + 1
  BY <1>1, AttemptedFields
<1>3. CASE err
  <2>1. rec' = [rec EXCEPT ![r] = Failed(Attempted(rec[r]))]
    BY <1>3 DEF TypeOK, DeliverSend
  <2>2. QED
    BY <1>1, <1>2, <2>1, FailedFields DEF TypeOK
<1>4. CASE ~err
  <2>1. got /\ rec' = [rec EXCEPT ![r] = Delivered(Attempted(rec[r]))]
    BY <1>4 DEF TypeOK, DeliverSend
  <2>2. QED
    BY <1>1, <1>2, <2>1, DeliveredFields DEF TypeOK
<1>5. QED
  BY <1>3, <1>4

(* The initial state is well typed.                                         *)
LEMMA TypeInit == Init => TypeInv
<1> SUFFICES ASSUME Init PROVE TypeInv
  OBVIOUS
<1> USE DEF Init, StoreInit
<1>1. TypeOK
  BY BlankType DEF TypeOK, StoreTypeOK, Pc, Resp
<1>2. \A a \in Address : StoredForm(a)
  BY DEF StoredForm, Exists, Blank
<1>3. \A r \in Request : CopyForm(r)
  BY DEF CopyForm, WorkPc, HeldPc, LinkPc, LookupPc
<1>4. QED
  BY <1>1, <1>2, <1>3 DEF TypeInv, WellFormed

(* Every action keeps the types and the form of documents, rows and copies. *)
LEMMA TypeStep == TypeInv /\ [Next]_vars => TypeInv'
<1> SUFFICES ASSUME TypeInv, [Next]_vars PROVE TypeInv'
  OBVIOUS
<1>a. TypeOK /\ WellFormed
  BY DEF TypeInv
<1>b. \A a \in Address : store[a] \in Verification /\ StoredForm(a)
  BY <1>a DEF TypeOK, StoreTypeOK, WellFormed
<1>c. \A r \in Request : rec[r] \in Verification /\ CopyForm(r)
  BY <1>a DEF TypeOK, WellFormed
<1>d. UNCHANGED storeVars =>
        /\ StoreTypeOK'
        /\ \A a \in Address : StoredForm(a)' /\ (Exists(a) => Exists(a)')
  BY <1>a, <1>b DEF TypeOK, storeVars, StoreTypeOK, StoredForm, Exists
<1>e. \A a \in Address : View(store[a]) \in Resp
  BY DEF View, Resp
<1>1. ASSUME NEW r \in Request, ReceiveRejected(r)
      PROVE  TypeInv'
  <2>1. pc' \in [Request -> Pc] /\ resp' \in [Request -> Resp]
    BY <1>1, <1>a, MoveTypes DEF ReceiveRejected, Pc, LookupPc, PutPc, Resp
  <2>2. /\ StoreTypeOK'
        /\ \A a \in Address : StoredForm(a)' /\ (Exists(a) => Exists(a)')
    BY <1>1, <1>d DEF ReceiveRejected
  <2>3. /\ rec' \in [Request -> Verification]
        /\ row' \in [Request -> Address \cup {NoRow}]
    BY <1>1, <1>a, <1>c DEF ReceiveRejected, TypeOK
  <2>4. CopyForm(r)'
    BY <1>1, <1>a, <1>b, <1>c, <2>2, <2>3
       DEF ReceiveRejected, CopyForm, WorkPc, HeldPc, LinkPc, LookupPc, Goto,
           Answer, TypeOK
  <2>5. \A q \in Request \ {r} :
          /\ pc'[q] = pc[q] /\ rec'[q] = rec[q]
          /\ row'[q] = row[q] /\ link'[q] = link[q]
    BY <1>1, <1>a DEF ReceiveRejected, Goto, Answer, ByToken, TypeOK
  <2>6. WellFormed'
    BY <2>2, <2>4, <2>5, FormFrame
  <2>7. QED
    BY <1>1, <1>a, <2>1, <2>2, <2>3, <2>6
       DEF TypeInv, TypeOK, ReceiveRejected, envVars
<1>2. ASSUME NEW r \in Request, NEW e \in Envelope, Receive(r, e)
      PROVE  TypeInv'
  <2>1. pc' \in [Request -> Pc] /\ resp' \in [Request -> Resp]
    BY <1>2, <1>a, MoveTypes DEF Receive, Begin, Pc, LookupPc, PutPc, Resp
  <2>2. /\ StoreTypeOK'
        /\ \A a \in Address : StoredForm(a)' /\ (Exists(a) => Exists(a)')
    BY <1>2, <1>d DEF Receive, Begin
  <2>p. PICK t \in Token \ minted :
          /\ minted' = minted \cup {t}
          /\ rec' = [rec EXCEPT ![r] = NewVerification(e, t, store[Subject[e]])]
          /\ NewVerification(e, t, store[Subject[e]]) \in Verification
    BY <1>2, <1>b, NewVerificationType, SubjectAssumption DEF Receive, Get
  <2>3. /\ rec' \in [Request -> Verification]
        /\ row' \in [Request -> Address \cup {NoRow}]
    BY <1>2, <1>a, <1>c, <2>p DEF Receive, Begin, TypeOK
  <2>4. CopyForm(r)'
    BY <1>2, <1>a, <1>b, <1>c, <2>2, <2>3, <2>p
       DEF Receive, Begin, CopyForm, WorkPc, HeldPc, LinkPc, LookupPc, Goto,
           Answer, TypeOK, NewVerification, Blank, Begin
  <2>5. \A q \in Request \ {r} :
          /\ pc'[q] = pc[q] /\ rec'[q] = rec[q]
          /\ row'[q] = row[q] /\ link'[q] = link[q]
    BY <1>2, <1>a DEF Receive, Begin, Goto, Answer, ByToken, TypeOK
  <2>6. WellFormed'
    BY <2>2, <2>4, <2>5, FormFrame
  <2>7. QED
    BY <1>2, <1>a, <2>1, <2>2, <2>3, <2>6, <2>p
       DEF TypeInv, TypeOK, Receive, Begin
<1>3. ASSUME NEW r \in Request, NEW out \in PutOutcome, UpsertPut(r, out)
      PROVE  TypeInv'
  <2>1. pc' \in [Request -> Pc] /\ resp' \in [Request -> Resp]
    BY <1>3, <1>a, MoveTypes DEF UpsertPut, Pc, LookupPc, PutPc, Resp
  <2>2. /\ StoreTypeOK'
        /\ \A a \in Address : StoredForm(a)' /\ (Exists(a) => Exists(a)')
    BY <1>3, <1>a, <1>b, <1>c, PutForm DEF UpsertPut, TypeOK
  <2>3. /\ rec' \in [Request -> Verification]
        /\ row' \in [Request -> Address \cup {NoRow}]
    BY <1>3, <1>a, <1>c, RecordTypes DEF UpsertPut, TypeOK
  <2>4. CopyForm(r)'
    BY <1>3, <1>a, <1>b, <1>c, <2>2, <2>3, PutEffect, WrittenFields
       DEF UpsertPut, CopyForm, WorkPc, HeldPc, LinkPc, LookupPc, Goto,
           Answer, TypeOK, PutPc
  <2>5. \A q \in Request \ {r} :
          /\ pc'[q] = pc[q] /\ rec'[q] = rec[q]
          /\ row'[q] = row[q] /\ link'[q] = link[q]
    BY <1>3, <1>a DEF UpsertPut, Goto, Answer, ByToken, TypeOK
  <2>6. WellFormed'
    BY <2>2, <2>4, <2>5, FormFrame
  <2>7. QED
    BY <1>3, <1>a, <2>1, <2>2, <2>3, <2>6
       DEF TypeInv, TypeOK, UpsertPut, envVars
<1>4. ASSUME NEW r \in Request, NEW out \in BOOLEAN, NEW err \in BOOLEAN, MailSend(r, out, err)
      PROVE  TypeInv'
  <2>1. pc' \in [Request -> Pc] /\ resp' \in [Request -> Resp]
    BY <1>4, <1>a, MoveTypes DEF MailSend, Pc, LookupPc, PutPc, Resp
  <2>2. /\ StoreTypeOK'
        /\ \A a \in Address : StoredForm(a)' /\ (Exists(a) => Exists(a)')
    BY <1>4, <1>d DEF MailSend
  <2>3. /\ rec' \in [Request -> Verification]
        /\ row' \in [Request -> Address \cup {NoRow}]
    <3>1. row' = row
      BY <1>4 DEF MailSend
    <3>2. QED
      BY <1>4, <1>a, <3>1, MailSendEffect DEF TypeOK
  <2>4. CopyForm(r)'
    <3>1. /\ pc'[r] \in HeldPc \ LinkPc /\ pc[r] \in WorkPc
          /\ rec'[r].token = rec[r].token /\ rec'[r].env = rec[r].env
          /\ rec'[r].status # "none"
      BY <1>4, <1>a, <1>c, MailSendEffect
         DEF CopyForm, WorkPc, HeldPc, LinkPc, LookupPc
    <3>2. row' = row
      BY <1>4 DEF MailSend
    <3>3. QED
      BY <3>1, <3>2, <1>c, <2>2, <1>a DEF CopyForm, TypeOK, WorkPc
  <2>5. \A q \in Request \ {r} :
          /\ pc'[q] = pc[q] /\ rec'[q] = rec[q]
          /\ row'[q] = row[q] /\ link'[q] = link[q]
    BY <1>4, <1>a DEF MailSend, Goto, Answer, ByToken, TypeOK
  <2>6. WellFormed'
    BY <2>2, <2>4, <2>5, FormFrame
  <2>e. rec[r].token \in Token
    BY <1>4, <1>c DEF MailSend, CopyForm, WorkPc, HeldPc
  <2>7. QED
    BY <1>4, <1>a, <2>1, <2>2, <2>3, <2>6, <2>e DEF TypeInv, TypeOK, MailSend
<1>5. ASSUME NEW r \in Request, NEW out \in PutOutcome, MailPut(r, out)
      PROVE  TypeInv'
  <2>1. pc' \in [Request -> Pc] /\ resp' \in [Request -> Resp]
    BY <1>5, <1>a, MoveTypes DEF MailPut, Pc, LookupPc, PutPc, Resp
  <2>2. /\ StoreTypeOK'
        /\ \A a \in Address : StoredForm(a)' /\ (Exists(a) => Exists(a)')
    BY <1>5, <1>a, <1>b, <1>c, PutForm DEF MailPut, TypeOK
  <2>3. /\ rec' \in [Request -> Verification]
        /\ row' \in [Request -> Address \cup {NoRow}]
    BY <1>5, <1>a, <1>c DEF MailPut, TypeOK
  <2>4. CopyForm(r)'
    BY <1>5, <1>a, <1>b, <1>c, <2>2, <2>3
       DEF MailPut, CopyForm, WorkPc, HeldPc, LinkPc, LookupPc, Goto, Answer,
           TypeOK
  <2>5. \A q \in Request \ {r} :
          /\ pc'[q] = pc[q] /\ rec'[q] = rec[q]
          /\ row'[q] = row[q] /\ link'[q] = link[q]
    BY <1>5, <1>a DEF MailPut, Goto, Answer, ByToken, TypeOK
  <2>6. WellFormed'
    BY <2>2, <2>4, <2>5, FormFrame
  <2>7. QED
    BY <1>5, <1>a, <2>1, <2>2, <2>3, <2>6 DEF TypeInv, TypeOK, MailPut, envVars
<1>6. ASSUME NEW r \in Request, ViewRow(r)
      PROVE  TypeInv'
  <2>1. pc' \in [Request -> Pc] /\ resp' \in [Request -> Resp]
    BY <1>6, <1>a DEF ViewRow, TypeOK
  <2>2. /\ StoreTypeOK'
        /\ \A a \in Address : StoredForm(a)' /\ (Exists(a) => Exists(a)')
    BY <1>6, <1>d DEF ViewRow
  <2>3. /\ rec' \in [Request -> Verification]
        /\ row' \in [Request -> Address \cup {NoRow}]
    BY <1>6, <1>a, <1>c DEF ViewRow, TypeOK
  <2>4. CopyForm(r)'
    BY <1>6, <1>a, <1>b, <1>c, <2>2, <2>3
       DEF ViewRow, CopyForm, WorkPc, HeldPc, LinkPc, LookupPc, Goto, Answer,
           TypeOK, HasToken, LookupPc
  <2>5. \A q \in Request \ {r} :
          /\ pc'[q] = pc[q] /\ rec'[q] = rec[q]
          /\ row'[q] = row[q] /\ link'[q] = link[q]
    BY <1>6, <1>a DEF ViewRow, Goto, Answer, ByToken, TypeOK
  <2>6. WellFormed'
    BY <2>2, <2>4, <2>5, FormFrame
  <2>7. QED
    BY <1>6, <1>a, <2>1, <2>2, <2>3, <2>6 DEF TypeInv, TypeOK, ViewRow, envVars
<1>7. ASSUME NEW r \in Request, LookupFails(r)
      PROVE  TypeInv'
  <2>1. pc' \in [Request -> Pc] /\ resp' \in [Request -> Resp]
    BY <1>7, <1>a, MoveTypes DEF LookupFails, Pc, LookupPc, PutPc, Resp
  <2>2. /\ StoreTypeOK'
        /\ \A a \in Address : StoredForm(a)' /\ (Exists(a) => Exists(a)')
    BY <1>7, <1>d DEF LookupFails
  <2>3. /\ rec' \in [Request -> Verification]
        /\ row' \in [Request -> Address \cup {NoRow}]
    BY <1>7, <1>a, <1>c DEF LookupFails, TypeOK
  <2>4. CopyForm(r)'
    BY <1>7, <1>a, <1>b, <1>c, <2>2, <2>3
       DEF LookupFails, CopyForm, WorkPc, HeldPc, LinkPc, LookupPc, Goto,
           Answer, TypeOK, LookupPc
  <2>5. \A q \in Request \ {r} :
          /\ pc'[q] = pc[q] /\ rec'[q] = rec[q]
          /\ row'[q] = row[q] /\ link'[q] = link[q]
    BY <1>7, <1>a DEF LookupFails, Goto, Answer, ByToken, TypeOK
  <2>6. WellFormed'
    BY <2>2, <2>4, <2>5, FormFrame
  <2>7. QED
    BY <1>7, <1>a, <2>1, <2>2, <2>3, <2>6
       DEF TypeInv, TypeOK, LookupFails, envVars
<1>8. ASSUME NEW r \in Request, NEW t \in Token, OpenLink(r, t, "page", "page")
      PROVE  TypeInv'
  <2>1. pc' \in [Request -> Pc] /\ resp' \in [Request -> Resp]
    BY <1>8, <1>a, MoveTypes DEF OpenLink, Begin, Pc, LookupPc, PutPc, Resp
  <2>2. /\ StoreTypeOK'
        /\ \A a \in Address : StoredForm(a)' /\ (Exists(a) => Exists(a)')
    BY <1>8, <1>d DEF OpenLink, Begin
  <2>3. /\ rec' \in [Request -> Verification]
        /\ row' \in [Request -> Address \cup {NoRow}]
    BY <1>8, <1>a, <1>c DEF OpenLink, Begin, TypeOK
  <2>4. CopyForm(r)'
    BY <1>8, <1>a, <1>b, <1>c, <2>2, <2>3
       DEF OpenLink, Begin, CopyForm, WorkPc, HeldPc, LinkPc, LookupPc, Goto,
           Answer, TypeOK, LookupPc
  <2>5. \A q \in Request \ {r} :
          /\ pc'[q] = pc[q] /\ rec'[q] = rec[q]
          /\ row'[q] = row[q] /\ link'[q] = link[q]
    BY <1>8, <1>a DEF OpenLink, Begin, Goto, Answer, ByToken, TypeOK
  <2>6. WellFormed'
    BY <2>2, <2>4, <2>5, FormFrame
  <2>7. QED
    BY <1>8, <1>a, <2>1, <2>2, <2>3, <2>6
       DEF TypeInv, TypeOK, OpenLink, Begin, envVars
<1>9. ASSUME NEW r \in Request, NEW t \in Token, OpenLink(r, t, "submit", "confirmation")
      PROVE  TypeInv'
  <2>1. pc' \in [Request -> Pc] /\ resp' \in [Request -> Resp]
    BY <1>9, <1>a, MoveTypes DEF OpenLink, Begin, Pc, LookupPc, PutPc, Resp
  <2>2. /\ StoreTypeOK'
        /\ \A a \in Address : StoredForm(a)' /\ (Exists(a) => Exists(a)')
    BY <1>9, <1>d DEF OpenLink, Begin
  <2>3. /\ rec' \in [Request -> Verification]
        /\ row' \in [Request -> Address \cup {NoRow}]
    BY <1>9, <1>a, <1>c DEF OpenLink, Begin, TypeOK
  <2>4. CopyForm(r)'
    BY <1>9, <1>a, <1>b, <1>c, <2>2, <2>3
       DEF OpenLink, Begin, CopyForm, WorkPc, HeldPc, LinkPc, LookupPc, Goto,
           Answer, TypeOK, LookupPc
  <2>5. \A q \in Request \ {r} :
          /\ pc'[q] = pc[q] /\ rec'[q] = rec[q]
          /\ row'[q] = row[q] /\ link'[q] = link[q]
    BY <1>9, <1>a DEF OpenLink, Begin, Goto, Answer, ByToken, TypeOK
  <2>6. WellFormed'
    BY <2>2, <2>4, <2>5, FormFrame
  <2>7. QED
    BY <1>9, <1>a, <2>1, <2>2, <2>3, <2>6
       DEF TypeInv, TypeOK, OpenLink, Begin, envVars
<1>10. ASSUME NEW r \in Request, PageRead(r)
      PROVE  TypeInv'
  <2>1. pc' \in [Request -> Pc] /\ resp' \in [Request -> Resp]
    BY <1>10, <1>a, MoveTypes, <1>e DEF PageRead, Pc, LookupPc, PutPc, Resp
  <2>2. /\ StoreTypeOK'
        /\ \A a \in Address : StoredForm(a)' /\ (Exists(a) => Exists(a)')
    BY <1>10, <1>d DEF PageRead
  <2>3. /\ rec' \in [Request -> Verification]
        /\ row' \in [Request -> Address \cup {NoRow}]
    BY <1>10, <1>a, <1>b DEF PageRead, TypeOK, ByToken
  <2>4. CopyForm(r)'
    BY <1>10, <1>a, <1>b, <1>c, <2>2, <2>3
       DEF PageRead, CopyForm, WorkPc, HeldPc, LinkPc, LookupPc, Goto, Answer,
           TypeOK, ByToken
  <2>5. \A q \in Request \ {r} :
          /\ pc'[q] = pc[q] /\ rec'[q] = rec[q]
          /\ row'[q] = row[q] /\ link'[q] = link[q]
    BY <1>10, <1>a DEF PageRead, Goto, Answer, ByToken, TypeOK
  <2>6. WellFormed'
    BY <2>2, <2>4, <2>5, FormFrame
  <2>7. QED
    BY <1>10, <1>a, <2>1, <2>2, <2>3, <2>6
       DEF TypeInv, TypeOK, PageRead, envVars
<1>11. ASSUME NEW r \in Request, NEW accept \in BOOLEAN, Confirmation(r, accept)
      PROVE  TypeInv'
  <2>1. pc' \in [Request -> Pc] /\ resp' \in [Request -> Resp]
    BY <1>11, <1>a, MoveTypes DEF Confirmation, Pc, LookupPc, PutPc, Resp
  <2>2. /\ StoreTypeOK'
        /\ \A a \in Address : StoredForm(a)' /\ (Exists(a) => Exists(a)')
    BY <1>11, <1>d DEF Confirmation
  <2>3. /\ rec' \in [Request -> Verification]
        /\ row' \in [Request -> Address \cup {NoRow}]
    BY <1>11, <1>a, <1>c DEF Confirmation, TypeOK, ByToken
  <2>4. CopyForm(r)'
    BY <1>11, <1>a, <1>b, <1>c, <2>2, <2>3
       DEF Confirmation, CopyForm, WorkPc, HeldPc, LinkPc, LookupPc, Goto,
           Answer, TypeOK, ByToken
  <2>5. \A q \in Request \ {r} :
          /\ pc'[q] = pc[q] /\ rec'[q] = rec[q]
          /\ row'[q] = row[q] /\ link'[q] = link[q]
    BY <1>11, <1>a DEF Confirmation, Goto, Answer, ByToken, TypeOK
  <2>6. WellFormed'
    BY <2>2, <2>4, <2>5, FormFrame
  <2>e. link[r] \in Token
    BY <1>11, <1>c DEF Confirmation, CopyForm, LinkPc, LookupPc
  <2>7. QED
    BY <1>11, <1>a, <2>1, <2>2, <2>3, <2>6, <2>e
       DEF TypeInv, TypeOK, Confirmation
<1>12. ASSUME NEW r \in Request, ConfirmRead(r)
      PROVE  TypeInv'
  <2>1. pc' \in [Request -> Pc] /\ resp' \in [Request -> Resp]
    BY <1>12, <1>a, MoveTypes DEF ConfirmRead, Pc, LookupPc, PutPc, Resp
  <2>2. /\ StoreTypeOK'
        /\ \A a \in Address : StoredForm(a)' /\ (Exists(a) => Exists(a)')
    BY <1>12, <1>d DEF ConfirmRead
  <2>3. /\ rec' \in [Request -> Verification]
        /\ row' \in [Request -> Address \cup {NoRow}]
    BY <1>12, <1>a, <1>b, RecordTypes DEF ConfirmRead, TypeOK, ByToken
  <2>4. CopyForm(r)'
    <3>1. PICK a \in Address :
            /\ ByToken(r, a)
            /\ \/ rec' = [rec EXCEPT ![r] = store[a]]
               \/ rec' = [rec EXCEPT ![r] = Confirmed(store[a])]
      BY <1>12 DEF ConfirmRead
    <3>2. /\ store[a].env \in Envelope /\ store[a].token \in Token
          /\ store[a].status # "none" /\ store[a] \in Verification
      BY <3>1, <1>a, LookupFound DEF ByToken
    <3>3. /\ rec'[r].env \in Envelope /\ rec'[r].token \in Token
          /\ rec'[r].status # "none" /\ row'[r] = NoRow
      BY <3>1, <3>2, <1>a, ConfirmedFields DEF ByToken, TypeOK
    <3>4. pc'[r] \in LinkPc => link'[r] \in Token
      BY <1>12, <1>a, <1>c
         DEF ConfirmRead, CopyForm, Goto, Answer, TypeOK, LinkPc, LookupPc
    <3>5. QED
      BY <3>3, <3>4 DEF CopyForm
  <2>5. \A q \in Request \ {r} :
          /\ pc'[q] = pc[q] /\ rec'[q] = rec[q]
          /\ row'[q] = row[q] /\ link'[q] = link[q]
    BY <1>12, <1>a DEF ConfirmRead, Goto, Answer, ByToken, TypeOK
  <2>6. WellFormed'
    BY <2>2, <2>4, <2>5, FormFrame
  <2>7. QED
    BY <1>12, <1>a, <2>1, <2>2, <2>3, <2>6
       DEF TypeInv, TypeOK, ConfirmRead, envVars
<1>13. ASSUME NEW r \in Request, NEW out \in PutOutcome, ConfirmPut(r, out)
      PROVE  TypeInv'
  <2>1. pc' \in [Request -> Pc] /\ resp' \in [Request -> Resp]
    BY <1>13, <1>a, MoveTypes DEF ConfirmPut, Pc, LookupPc, PutPc, Resp
  <2>2. /\ StoreTypeOK'
        /\ \A a \in Address : StoredForm(a)' /\ (Exists(a) => Exists(a)')
    BY <1>13, <1>a, <1>b, <1>c, PutForm DEF ConfirmPut, TypeOK
  <2>3. /\ rec' \in [Request -> Verification]
        /\ row' \in [Request -> Address \cup {NoRow}]
    BY <1>13, <1>a, <1>c, RecordTypes DEF ConfirmPut, TypeOK
  <2>4. CopyForm(r)'
    <3>1. /\ \/ rec' = rec
             \/ rec' = [rec EXCEPT ![r] = Written(rec[r])]
          /\ row' = row /\ link' = link /\ pc[r] \in WorkPc
      BY <1>13 DEF ConfirmPut, WorkPc, HeldPc
    <3>2. /\ rec'[r].env \in Envelope /\ rec'[r].token \in Token
          /\ rec'[r].status # "none"
      BY <3>1, <1>a, <1>c, WrittenFields DEF CopyForm, TypeOK
    <3>3. pc'[r] \in LinkPc => link[r] \in Token
      BY <1>13, <1>a, <1>c
         DEF ConfirmPut, Goto, Answer, TypeOK, CopyForm, LinkPc, LookupPc,
             PutPc
    <3>4. QED
      BY <3>1, <3>2, <3>3, <1>a, <1>c, <2>2 DEF CopyForm, TypeOK
  <2>5. \A q \in Request \ {r} :
          /\ pc'[q] = pc[q] /\ rec'[q] = rec[q]
          /\ row'[q] = row[q] /\ link'[q] = link[q]
    BY <1>13, <1>a DEF ConfirmPut, Goto, Answer, ByToken, TypeOK
  <2>6. WellFormed'
    BY <2>2, <2>4, <2>5, FormFrame
  <2>7. QED
    BY <1>13, <1>a, <2>1, <2>2, <2>3, <2>6
       DEF TypeInv, TypeOK, ConfirmPut, envVars
<1>14. ASSUME NEW r \in Request, ConfirmReread(r)
      PROVE  TypeInv'
  <2>1. pc' \in [Request -> Pc] /\ resp' \in [Request -> Resp]
    BY <1>14, <1>a, MoveTypes DEF ConfirmReread, Pc, LookupPc, PutPc, Resp
  <2>2. /\ StoreTypeOK'
        /\ \A a \in Address : StoredForm(a)' /\ (Exists(a) => Exists(a)')
    BY <1>14, <1>d DEF ConfirmReread
  <2>3. /\ rec' \in [Request -> Verification]
        /\ row' \in [Request -> Address \cup {NoRow}]
    BY <1>14, <1>a, <1>b DEF ConfirmReread, TypeOK, ByToken
  <2>4. CopyForm(r)'
    BY <1>14, <1>a, <1>b, <1>c, <2>2, <2>3, LookupFound
       DEF ConfirmReread, CopyForm, WorkPc, HeldPc, LinkPc, LookupPc, Goto,
           Answer, TypeOK, ByToken
  <2>5. \A q \in Request \ {r} :
          /\ pc'[q] = pc[q] /\ rec'[q] = rec[q]
          /\ row'[q] = row[q] /\ link'[q] = link[q]
    BY <1>14, <1>a DEF ConfirmReread, Goto, Answer, ByToken, TypeOK
  <2>6. WellFormed'
    BY <2>2, <2>4, <2>5, FormFrame
  <2>7. QED
    BY <1>14, <1>a, <2>1, <2>2, <2>3, <2>6
       DEF TypeInv, TypeOK, ConfirmReread, envVars
<1>15. ASSUME NEW r \in Request, NEW a \in Address, Redeliver(r, a)
      PROVE  TypeInv'
  <2>1. pc' \in [Request -> Pc] /\ resp' \in [Request -> Resp]
    BY <1>15, <1>a, MoveTypes DEF Redeliver, Pc, LookupPc, PutPc, Resp
  <2>2. /\ StoreTypeOK'
        /\ \A b \in Address : StoredForm(b)' /\ (Exists(b) => Exists(b)')
    BY <1>15, <1>d DEF Redeliver
  <2>3. /\ rec' \in [Request -> Verification]
        /\ row' \in [Request -> Address \cup {NoRow}]
    BY <1>15, <1>a, <1>b DEF Redeliver, TypeOK, Get
  <2>4. CopyForm(r)'
    BY <1>15, <1>a, <1>b, <1>c, <2>2, <2>3
       DEF Redeliver, CopyForm, WorkPc, HeldPc, LinkPc, LookupPc, Goto,
           Answer, TypeOK, Get, StoredForm, Exists, StoreTypeOK
  <2>5. \A q \in Request \ {r} :
          /\ pc'[q] = pc[q] /\ rec'[q] = rec[q]
          /\ row'[q] = row[q] /\ link'[q] = link[q]
    BY <1>15, <1>a DEF Redeliver, Goto, Answer, ByToken, TypeOK
  <2>6. WellFormed'
    BY <2>2, <2>4, <2>5, FormFrame
  <2>7. QED
    BY <1>15, <1>a, <2>1, <2>2, <2>3, <2>6
       DEF TypeInv, TypeOK, Redeliver, envVars
<1>16. ASSUME NEW r \in Request, CounterSignFails(r)
      PROVE  TypeInv'
  <2>1. pc' \in [Request -> Pc] /\ resp' \in [Request -> Resp]
    BY <1>16, <1>a, MoveTypes DEF CounterSignFails, Pc, LookupPc, PutPc, Resp
  <2>2. /\ StoreTypeOK'
        /\ \A a \in Address : StoredForm(a)' /\ (Exists(a) => Exists(a)')
    BY <1>16, <1>d DEF CounterSignFails
  <2>3. /\ rec' \in [Request -> Verification]
        /\ row' \in [Request -> Address \cup {NoRow}]
    BY <1>16, <1>a, <1>c, RecordTypes DEF CounterSignFails, TypeOK
  <2>4. CopyForm(r)'
    BY <1>16, <1>a, <1>b, <1>c, <2>2, <2>3, FailedFields
       DEF CounterSignFails, CopyForm, WorkPc, HeldPc, LinkPc, LookupPc, Goto,
           Answer, TypeOK
  <2>5. \A q \in Request \ {r} :
          /\ pc'[q] = pc[q] /\ rec'[q] = rec[q]
          /\ row'[q] = row[q] /\ link'[q] = link[q]
    BY <1>16, <1>a DEF CounterSignFails, Goto, Answer, ByToken, TypeOK
  <2>6. WellFormed'
    BY <2>2, <2>4, <2>5, FormFrame
  <2>7. QED
    BY <1>16, <1>a, <2>1, <2>2, <2>3, <2>6
       DEF TypeInv, TypeOK, CounterSignFails, envVars
<1>17. ASSUME NEW r \in Request, NEW got \in BOOLEAN, NEW err \in BOOLEAN, DeliverSend(r, got, err)
      PROVE  TypeInv'
  <2>1. pc' \in [Request -> Pc] /\ resp' \in [Request -> Resp]
    BY <1>17, <1>a, MoveTypes DEF DeliverSend, Pc, LookupPc, PutPc, Resp
  <2>2. /\ StoreTypeOK'
        /\ \A a \in Address : StoredForm(a)' /\ (Exists(a) => Exists(a)')
    BY <1>17, <1>d DEF DeliverSend
  <2>3. /\ rec' \in [Request -> Verification]
        /\ row' \in [Request -> Address \cup {NoRow}]
    BY <1>17, <1>a, <1>c, RecordTypes DEF DeliverSend, TypeOK
  <2>4. CopyForm(r)'
    <3>1. /\ pc'[r] \in HeldPc \ LinkPc /\ pc[r] \in WorkPc
          /\ rec'[r].token = rec[r].token /\ rec'[r].env = rec[r].env
          /\ rec'[r].status # "none"
      BY <1>17, <1>a, <1>c, DeliverSendEffect
         DEF CopyForm, WorkPc, HeldPc, LinkPc, LookupPc
    <3>2. row' = row
      BY <1>17 DEF DeliverSend
    <3>3. QED
      BY <3>1, <3>2, <1>c, <2>2, <1>a DEF CopyForm, TypeOK, WorkPc
  <2>5. \A q \in Request \ {r} :
          /\ pc'[q] = pc[q] /\ rec'[q] = rec[q]
          /\ row'[q] = row[q] /\ link'[q] = link[q]
    BY <1>17, <1>a DEF DeliverSend, Goto, Answer, ByToken, TypeOK
  <2>6. WellFormed'
    BY <2>2, <2>4, <2>5, FormFrame
  <2>e. rec[r].token \in Token
    BY <1>17, <1>c DEF DeliverSend, CopyForm, WorkPc, HeldPc
  <2>7. QED
    BY <1>17, <1>a, <2>1, <2>2, <2>3, <2>6, <2>e
       DEF TypeInv, TypeOK, DeliverSend
<1>18. ASSUME NEW r \in Request, NEW out \in PutOutcome, DeliverPut(r, out)
      PROVE  TypeInv'
  <2>1. pc' \in [Request -> Pc] /\ resp' \in [Request -> Resp]
    BY <1>18, <1>a, MoveTypes DEF DeliverPut, Pc, LookupPc, PutPc, Resp
  <2>2. /\ StoreTypeOK'
        /\ \A a \in Address : StoredForm(a)' /\ (Exists(a) => Exists(a)')
    BY <1>18, <1>a, <1>b, <1>c, PutForm DEF DeliverPut, TypeOK
  <2>3. /\ rec' \in [Request -> Verification]
        /\ row' \in [Request -> Address \cup {NoRow}]
    BY <1>18, <1>a, <1>c DEF DeliverPut, TypeOK
  <2>4. CopyForm(r)'
    BY <1>18, <1>a, <1>b, <1>c, <2>2, <2>3
       DEF DeliverPut, CopyForm, WorkPc, HeldPc, LinkPc, LookupPc, Goto,
           Answer, TypeOK
  <2>5. \A q \in Request \ {r} :
          /\ pc'[q] = pc[q] /\ rec'[q] = rec[q]
          /\ row'[q] = row[q] /\ link'[q] = link[q]
    BY <1>18, <1>a DEF DeliverPut, Goto, Answer, ByToken, TypeOK
  <2>6. WellFormed'
    BY <2>2, <2>4, <2>5, FormFrame
  <2>7. QED
    BY <1>18, <1>a, <2>1, <2>2, <2>3, <2>6
       DEF TypeInv, TypeOK, DeliverPut, envVars
<1>19. ASSUME NEW r \in Request, Crash(r)
      PROVE  TypeInv'
  <2>1. pc' \in [Request -> Pc] /\ resp' \in [Request -> Resp]
    BY <1>19, <1>a, MoveTypes DEF Crash, Pc, LookupPc, PutPc, Resp
  <2>2. /\ StoreTypeOK'
        /\ \A a \in Address : StoredForm(a)' /\ (Exists(a) => Exists(a)')
    BY <1>19, <1>d DEF Crash
  <2>3. /\ rec' \in [Request -> Verification]
        /\ row' \in [Request -> Address \cup {NoRow}]
    BY <1>19, <1>a, BlankType DEF Crash, TypeOK
  <2>4. CopyForm(r)'
    BY <1>19, <1>a, <1>b, <1>c, <2>2, <2>3
       DEF Crash, CopyForm, WorkPc, HeldPc, LinkPc, LookupPc, Goto, Answer,
           TypeOK
  <2>5. \A q \in Request \ {r} :
          /\ pc'[q] = pc[q] /\ rec'[q] = rec[q]
          /\ row'[q] = row[q] /\ link'[q] = link[q]
    BY <1>19, <1>a DEF Crash, Goto, Answer, ByToken, TypeOK
  <2>6. WellFormed'
    BY <2>2, <2>4, <2>5, FormFrame
  <2>7. QED
    BY <1>19, <1>a, <2>1, <2>2, <2>3, <2>6 DEF TypeInv, TypeOK, Crash, envVars
<1>20. ASSUME NEW t \in Token, Expire(t) PROVE TypeInv'
  <2>1. TypeOK'
    BY <1>20, <1>a, <1>d DEF TypeOK, Expire, localVars
  <2>2. WellFormed'
    BY <1>20, <1>a, <1>c, <1>d
       DEF Expire, localVars, WellFormed, CopyForm, TypeOK
  <2>3. QED
    BY <2>1, <2>2 DEF TypeInv
<1>21. CASE UNCHANGED vars
  <2>1. TypeOK'
    BY <1>21, <1>a DEF TypeOK, StoreTypeOK, vars
  <2>2. WellFormed'
    BY <1>21, <1>a DEF WellFormed, StoredForm, CopyForm, Exists, vars
  <2>3. QED
    BY <2>1, <2>2 DEF TypeInv
<1>22. QED
  BY <1>1, <1>2, <1>3, <1>4, <1>5, <1>6, <1>7, <1>8, <1>9, <1>10, <1>11, <1>12,
     <1>13, <1>14, <1>15, <1>16, <1>17, <1>18, <1>19, <1>20, <1>21
     DEF Next, Arrive, Step, NoRecordYet

(* Type correctness: every document, copy and answer stays in its type, and *)
(* what is stored or about to be written always passes models.Validate.     *)
THEOREM TypeCorrect == Spec => []TypeOK
<1>1. TypeInv => TypeOK
  BY DEF TypeInv
<1>2. QED
  BY <1>1, TypeInit, TypeStep, PTL DEF Spec

-----------------------------------------------------------------------------
(* The shape of a step: what one request can change, and what it cannot.    *)

(* A request writes nothing of another one.                                 *)
LEMMA OthersFrame ==
  ASSUME TypeInv, NEW r \in Request, NEW q \in Request \ {r},
         Arrive(r) \/ Step(r) \/ Crash(r)
  PROVE  /\ pc'[q] = pc[q] /\ rec'[q] = rec[q]
         /\ link'[q] = link[q] /\ resp'[q] = resp[q]
<1> USE DEF TypeInv, TypeOK, Goto, Answer
<1>1. CASE Arrive(r)
  BY <1>1 DEF Arrive, ReceiveRejected, Receive, OpenLink, Begin, Redeliver
<1>2. CASE Crash(r)
  BY <1>2 DEF Crash
<1>3. CASE Step(r)
  <2>1. CASE \E out \in PutOutcome : UpsertPut(r, out) \/ MailPut(r, out)
    BY <2>1 DEF UpsertPut, MailPut
  <2>2. CASE \E out \in PutOutcome : ConfirmPut(r, out) \/ DeliverPut(r, out)
    BY <2>2 DEF ConfirmPut, DeliverPut
  <2>3. CASE ViewRow(r) \/ LookupFails(r) \/ PageRead(r)
    BY <2>3 DEF ViewRow, LookupFails, PageRead
  <2>4. CASE \E accept \in BOOLEAN : Confirmation(r, accept)
    BY <2>4 DEF Confirmation
  <2>5. CASE ConfirmRead(r) \/ ConfirmReread(r) \/ CounterSignFails(r)
    BY <2>5 DEF ConfirmRead, ConfirmReread, CounterSignFails
  <2>6. CASE \E out, err \in BOOLEAN : MailSend(r, out, err)
    BY <2>6 DEF MailSend
  <2>7. CASE \E got, err \in BOOLEAN : DeliverSend(r, got, err)
    BY <2>7 DEF DeliverSend
  <2>8. QED
    BY <1>3, <2>1, <2>2, <2>3, <2>4, <2>5, <2>6, <2>7 DEF Step, NoRecordYet
<1>4. QED
  BY <1>1, <1>2, <1>3

(* What happened stays happened.                                            *)
Grows ==
  /\ issued \subseteq issued' /\ minted \subseteq minted'
  /\ mailbox \subseteq mailbox' /\ attested \subseteq attested'
  /\ registry \subseteq registry'
  /\ \A t \in Token : sends[t] <= sends'[t]

(* Every request's step grows the history, and changes the store only by a  *)
(* Put of the request's own copy.                                           *)
LEMMA StoreStep ==
  ASSUME TypeInv, NEW r \in Request, Arrive(r) \/ Step(r) \/ Crash(r)
  PROVE  /\ Grows
         /\ \/ store' = store /\ issued' = issued
            \/ /\ pc[r] \in PutPc /\ pc'[r] \notin {"reread", "idle"}
               /\ rec[r].env \in Envelope /\ rec[r].token \in Token
               /\ Subject[rec[r].env] \in Address
               /\ rec[r].rev = store[Subject[rec[r].env]].rev
               /\ store' = [store EXCEPT ![Subject[rec[r].env]] = Written(rec[r])]
               /\ issued' = issued \cup {rec[r].token}
<1>a. /\ TypeOK /\ StoreTypeOK /\ rec[r] \in Verification
      /\ \A t \in Token : sends[t] \in Nat
  BY DEF TypeInv, TypeOK
<1>b. UNCHANGED envVars /\ issued \subseteq issued' => Grows
  BY <1>a DEF envVars, Grows
<1>1. CASE Arrive(r)
  BY <1>1, <1>a DEF Arrive, ReceiveRejected, Receive, OpenLink, Redeliver,
                    Grows, envVars, storeVars
<1>2. CASE Crash(r)
  BY <1>2, <1>b DEF Crash, storeVars
<1>3. CASE Step(r)
  <2>1. ASSUME NEW out \in PutOutcome,
               \/ UpsertPut(r, out) \/ MailPut(r, out)
               \/ ConfirmPut(r, out) \/ DeliverPut(r, out)
        PROVE  /\ Put(rec[r], out) /\ UNCHANGED envVars /\ pc[r] \in PutPc
               /\ out # "conflict" => pc'[r] \notin {"reread", "idle"}
    BY <2>1, <1>a DEF UpsertPut, MailPut, ConfirmPut, DeliverPut, PutPc,
                      Goto, Answer, TypeOK
  <2>2. CASE \E out \in PutOutcome :
               \/ UpsertPut(r, out) \/ MailPut(r, out)
               \/ ConfirmPut(r, out) \/ DeliverPut(r, out)
    BY <2>1, <2>2, <1>a, <1>b, PutEffect
  <2>3. CASE ViewRow(r) \/ LookupFails(r) \/ PageRead(r)
    BY <2>3, <1>b DEF ViewRow, LookupFails, PageRead, storeVars
  <2>4. CASE \E accept \in BOOLEAN : Confirmation(r, accept)
    BY <2>4, <1>a DEF Confirmation, storeVars, Grows
  <2>5. CASE ConfirmRead(r) \/ ConfirmReread(r) \/ CounterSignFails(r)
    BY <2>5, <1>b DEF ConfirmRead, ConfirmReread, CounterSignFails, storeVars
  <2>6. CASE \E out, err \in BOOLEAN : MailSend(r, out, err)
    BY <2>6, <1>a DEF MailSend, storeVars, Grows
  <2>7. CASE \E got, err \in BOOLEAN : DeliverSend(r, got, err)
    BY <2>7, <1>a DEF DeliverSend, storeVars, Grows, TypeOK
  <2>8. QED
    BY <1>3, <2>2, <2>3, <2>4, <2>5, <2>6, <2>7 DEF Step, NoRecordYet
<1>4. QED
  BY <1>1, <1>2, <1>3

(* Where a request's copy comes from.                                       *)
LEMMA CopyStep ==
  ASSUME TypeInv, NEW r \in Request, Arrive(r) \/ Step(r) \/ Crash(r)
  PROVE  \/ rec'[r] \in {rec[r], Blank, Written(rec[r])}
         \/ rec'[r] = Failed(rec[r]) /\ pc[r] = "deliver"
         \/ \E a \in Address : rec'[r] = store[a]
         \/ \E a \in Address :
              rec'[r] = Confirmed(store[a]) /\ pc[r] = "confirm" /\ GetByToken(r, a)
         \/ \E e \in Envelope, t \in Token :
              rec'[r] = NewVerification(e, t, store[Subject[e]])
         \/ \E out, err \in BOOLEAN : MailSend(r, out, err)
         \/ \E got, err \in BOOLEAN : DeliverSend(r, got, err)
<1> USE DEF TypeInv, TypeOK
<1>1. CASE Arrive(r)
  BY <1>1 DEF Arrive, ReceiveRejected, Receive, OpenLink, Redeliver, Get
<1>2. CASE Crash(r)
  BY <1>2 DEF Crash
<1>3. CASE Step(r)
  <2>1. CASE \E out \in PutOutcome : UpsertPut(r, out) \/ MailPut(r, out)
    BY <2>1 DEF UpsertPut, MailPut
  <2>2. CASE \E out \in PutOutcome : ConfirmPut(r, out) \/ DeliverPut(r, out)
    BY <2>2 DEF ConfirmPut, DeliverPut
  <2>3. CASE ViewRow(r) \/ LookupFails(r) \/ PageRead(r)
    BY <2>3 DEF ViewRow, LookupFails, PageRead
  <2>4. CASE \E accept \in BOOLEAN : Confirmation(r, accept)
    BY <2>4 DEF Confirmation
  <2>5. CASE ConfirmRead(r) \/ ConfirmReread(r) \/ CounterSignFails(r)
    BY <2>5 DEF ConfirmRead, ConfirmReread, CounterSignFails, ByToken
  <2>6. QED
    BY <1>3, <2>1, <2>2, <2>3, <2>4, <2>5 DEF Step, NoRecordYet
<1>4. QED
  BY <1>1, <1>2, <1>3

-----------------------------------------------------------------------------
(* Records claim nothing that did not happen.                               *)

(* A truthful record stays truthful as the history grows.                   *)
LEMMA TruthGrows ==
  ASSUME TypeInv, TypeInv', Grows, NEW v \in Verification,
         Truthful(v, mailbox, registry, sends)
  PROVE  Truthful(v, mailbox', registry', sends')
<1>1. \A t \in Token : sends[t] \in Nat /\ sends'[t] \in Nat /\ sends[t] <= sends'[t]
  BY DEF TypeInv, TypeOK, Grows
<1>2. v.attempts \in Nat
  BY DEF Verification
<1>3. v.attempts > 0 => v.token \in Token /\ v.attempts <= sends'[v.token]
  BY <1>1, <1>2 DEF Truthful
<1>4. QED
  BY <1>3 DEF Truthful, Grows

(* So does what Put, Confirm and a failed delivery make of it.              *)
LEMMA TruthKept ==
  ASSUME NEW v \in Verification, NEW m, NEW g, NEW n, Truthful(v, m, g, n)
  PROVE  /\ Truthful(Written(v), m, g, n)
         /\ Truthful(Confirmed(v), m, g, n)
         /\ Truthful(Failed(v), m, g, n)
<1>1. Truthful(Written(v), m, g, n)
  BY WrittenFields DEF Truthful
<1>2. Truthful(Confirmed(v), m, g, n)
  BY ConfirmedFields DEF Truthful
<1>3. Truthful(Failed(v), m, g, n)
  BY FailedFields DEF Truthful
<1>4. QED
  BY <1>1, <1>2, <1>3

(* A step keeps every document and every copy truthful.                     *)
LEMMA TruthStep == TypeInv /\ TypeInv' /\ TruthInv /\ [Next]_vars => TruthInv'
<1> SUFFICES ASSUME TypeInv, TypeInv', TruthInv, [Next]_vars PROVE TruthInv'
  OBVIOUS
<1> DEFINE Holds(v) == Truthful(v, mailbox', registry', sends')
<1>a. /\ \A a \in Address : store[a] \in Verification
      /\ \A q \in Request : rec[q] \in Verification
  BY DEF TypeInv, TypeOK, StoreTypeOK
<1>1. ASSUME NEW r \in Request, Arrive(r) \/ Step(r) \/ Crash(r) PROVE TruthInv'
  <2>1. Grows
    BY <1>1, StoreStep
  <2>2. /\ \A a \in Address : Holds(store[a])
        /\ \A q \in Request : Holds(rec[q])
    BY <1>a, <2>1, TruthGrows DEF TruthInv
  <2>3. \A a \in Address : Holds(store'[a])
    <3>1. CASE store' = store
      BY <2>2, <3>1
    <3>2. CASE /\ Subject[rec[r].env] \in Address
               /\ store' = [store EXCEPT ![Subject[rec[r].env]] = Written(rec[r])]
      <4>1. Holds(Written(rec[r]))
        BY <1>a, <2>2, TruthKept
      <4>2. QED
        BY <2>2, <3>2, <4>1 DEF TypeInv, TypeOK, StoreTypeOK
    <3>3. QED
      BY <1>1, <3>1, <3>2, StoreStep
  <2>4. \A q \in Request \ {r} : Holds(rec'[q])
    BY <1>1, <2>2, OthersFrame
  <2>5. Holds(rec'[r])
    <3>1. CASE rec'[r] \in {rec[r], Blank, Written(rec[r]), Failed(rec[r])}
      <4>1. Holds(Blank)
        BY DEF Truthful, Blank
      <4>2. QED
        BY <1>a, <2>2, <3>1, <4>1, TruthKept
    <3>2. CASE \E a \in Address : rec'[r] \in {store[a], Confirmed(store[a])}
      BY <1>a, <2>2, <3>2, TruthKept
    <3>3. CASE \E e \in Envelope, t \in Token :
                 rec'[r] = NewVerification(e, t, store[Subject[e]])
      BY <3>3 DEF Truthful, NewVerification, Blank
    <3>4. ASSUME NEW out \in BOOLEAN, NEW err \in BOOLEAN, MailSend(r, out, err)
          PROVE  Holds(rec'[r])
      <4>1. out => rec[r].token \in mailbox'
        BY <3>4 DEF MailSend
      <4>2. rec'[r].status = "delivered" => rec[r].token \in registry'
        BY <3>4, <2>2, MailSendEffect DEF Truthful, TypeInv
      <4>3. rec'[r].emailSent => rec[r].token \in mailbox'
        BY <3>4, <4>1, <2>2, MailSendEffect DEF Truthful, TypeInv
      <4>4. rec'[r].token = rec[r].token /\ rec'[r].attempts = rec[r].attempts
        BY <3>4, MailSendEffect DEF TypeInv
      <4>5. QED
        BY <2>2, <4>2, <4>3, <4>4 DEF Truthful
    <3>5. ASSUME NEW got \in BOOLEAN, NEW err \in BOOLEAN, DeliverSend(r, got, err)
          PROVE  Holds(rec'[r])
      <4>1. /\ rec'[r].token = rec[r].token /\ rec'[r].emailSent = rec[r].emailSent
            /\ rec'[r].attempts = rec[r].attempts + 1
            /\ rec'[r].status = "delivered" => got
            /\ pc[r] = "deliver"
        BY <3>5, DeliverSendEffect DEF TypeInv
      <4>2. rec[r].token \in Token /\ rec[r].attempts \in Nat /\ sends[rec[r].token] \in Nat
        BY <4>1, <1>a
           DEF TypeInv, TypeOK, WellFormed, CopyForm, WorkPc, HeldPc,
               Verification
      <4>3. /\ got => rec[r].token \in registry'
            /\ sends'[rec[r].token] = sends[rec[r].token] + 1
        BY <3>5, <4>2 DEF DeliverSend, TypeInv, TypeOK
      <4>4. rec[r].attempts <= sends[rec[r].token]
        BY <4>2 DEF TruthInv, Truthful
      <4>5. rec'[r].attempts <= sends'[rec[r].token]
        BY <4>1, <4>2, <4>3, <4>4
      <4>6. QED
        BY <2>2, <4>1, <4>2, <4>3, <4>5 DEF Truthful
    <3>6. QED
      BY <1>1, <3>1, <3>2, <3>3, <3>4, <3>5, CopyStep
  <2>6. \A q \in Request : Holds(rec'[q])
    BY <2>4, <2>5
  <2>7. QED
    BY <2>3, <2>6 DEF TruthInv
<1>2. CASE \E t \in Token : Expire(t)
  BY <1>2 DEF Expire, localVars, storeVars, TruthInv
<1>3. CASE UNCHANGED vars
  BY <1>3 DEF vars, TruthInv
<1>4. QED
  BY <1>1, <1>2, <1>3 DEF Next

(* RecordTruthful holds in every reachable state.                           *)
THEOREM RecordsAreTruthful == Spec => []RecordTruthful
<1>1. Init => TruthInv
  BY DEF Init, StoreInit, TruthInv, Truthful, Blank
<1>2. TypeInv /\ TruthInv => RecordTruthful
  BY DEF TruthInv, Truthful, RecordTruthful
<1>3. QED
  BY <1>1, <1>2, TypeInit, TypeStep, TruthStep, PTL DEF Spec

-----------------------------------------------------------------------------
(* The revision fence.                                                      *)

(* A document that changes moves its revision up.                           *)
RevMoves ==
  /\ issued \subseteq issued'
  /\ \A a \in Address : store'[a] = store[a] \/ store'[a].rev > store[a].rev

(* Every request's step moves the revision of what it writes.               *)
LEMMA RevStep ==
  ASSUME TypeInv, NEW r \in Request, Arrive(r) \/ Step(r) \/ Crash(r)
  PROVE  RevMoves
<1>1. store \in [Address -> Verification] /\ rec[r] \in Verification
  BY DEF TypeInv, TypeOK, StoreTypeOK
<1>2. Written(rec[r]).rev = rec[r].rev + 1 /\ rec[r].rev \in Nat
  BY <1>1, WrittenFields DEF Verification
<1>3. QED
  BY <1>1, <1>2, StoreStep DEF RevMoves, Grows

(* Whoever else writes, a copy stays behind its fence.                      *)
LEMMA FenceKept ==
  ASSUME TypeInv, TypeInv', RevMoves, NEW q \in Request, Fenced(q),
         pc'[q] = pc[q], rec'[q] = rec[q]
  PROVE  Fenced(q)'
<1>1. CASE pc[q] \in HeldPc
  <2>1. rec[q].env \in Envelope /\ rec[q] \in Verification
    BY <1>1 DEF TypeInv, TypeOK, WellFormed, CopyForm, WorkPc
  <2>2. PICK a \in Address : a = Subject[rec[q].env]
    BY <2>1, SubjectAssumption
  <2>3. rec[q].rev \in Nat /\ store[a].rev \in Nat /\ store'[a].rev \in Nat
    BY <2>1 DEF TypeInv, TypeOK, StoreTypeOK, Verification
  <2>4. CASE store'[a] = store[a]
    BY <1>1, <2>2, <2>4 DEF Fenced, RevMoves, AtLeast
  <2>5. CASE store'[a].rev > store[a].rev
    BY <1>1, <2>2, <2>3, <2>5 DEF Fenced, RevMoves
  <2>6. QED
    BY <2>4, <2>5 DEF RevMoves
<1>2. QED
  BY <1>1 DEF Fenced

(* A copy just read from the store, or confirmed since, is behind it.       *)
LEMMA FenceRead ==
  ASSUME TypeInv, NEW a \in Address, NEW v,
         v \in {store[a], Confirmed(store[a])}, Exists(a)
  PROVE  /\ v.env = store[a].env /\ Subject[v.env] = a
         /\ v.rev = store[a].rev /\ v.rev # 0
         /\ AtLeast(v, store[a]) /\ v.token \in issued
<1>1. store[a] \in Verification /\ StoredForm(a)
  BY DEF TypeInv, TypeOK, StoreTypeOK, WellFormed
<1>2. store[a].attempts \in Nat
  BY <1>1 DEF Verification
<1>3. CASE v = store[a]
  BY <1>1, <1>2, <1>3 DEF StoredForm, Exists, AtLeast
<1>4. CASE v = Confirmed(store[a])
  <2>1. /\ v.token = store[a].token /\ v.env = store[a].env /\ v.rev = store[a].rev
        /\ v.attempts = store[a].attempts /\ v.confirmed
    BY <1>1, <1>4, ConfirmedFields
  <2>2. QED
    BY <1>1, <1>2, <2>1 DEF StoredForm, Exists, AtLeast
<1>5. QED
  BY <1>3, <1>4

(* So the read leaves the request fenced.                                   *)
LEMMA FenceReadKept ==
  ASSUME TypeInv, NEW r \in Request, NEW a \in Address, Exists(a),
         rec'[r] \in {store[a], Confirmed(store[a])},
         store' = store, issued' = issued
  PROVE  Fenced(r)'
<1> DEFINE v == rec'[r]
<1>1. /\ v.env = store[a].env /\ Subject[v.env] = a
      /\ v.rev = store[a].rev /\ v.rev # 0
      /\ AtLeast(v, store[a]) /\ v.token \in issued
  BY FenceRead
<1>2. store[a].rev \in Nat
  BY DEF TypeInv, TypeOK, StoreTypeOK, Verification
<1>3. QED
  BY <1>1, <1>2 DEF Fenced, AtLeast

(* The request that moves keeps its own copy behind the fence.              *)
LEMMA FenceOwn ==
  ASSUME TypeInv, TypeInv', FenceInv, NEW r \in Request, Arrive(r) \/ Step(r) \/ Crash(r)
  PROVE  Fenced(r)'
<1> USE DEF TypeInv, TypeOK
<1>a. StoreTypeOK /\ rec[r] \in Verification /\ Fenced(r)
  BY DEF FenceInv
<1>b. rec[r].rev \in Nat /\ rec[r].attempts \in Nat
  BY <1>a DEF Verification
<1>1. CASE Arrive(r)
  <2>1. CASE \E a \in Address : Redeliver(r, a) /\ pc'[r] = "deliver"
    <3>1. PICK a \in Address : Redeliver(r, a) /\ pc'[r] = "deliver"
      BY <2>1
    <3>2. Exists(a) /\ rec'[r] = store[a] /\ store' = store /\ issued' = issued
      BY <3>1 DEF Redeliver, Answer, Get, storeVars
    <3>3. QED
      BY <3>2, FenceReadKept
  <2>2. CASE ~\E a \in Address : Redeliver(r, a) /\ pc'[r] = "deliver"
    <3>1. pc'[r] \notin HeldPc
      BY <1>1, <2>2 DEF Arrive, ReceiveRejected, Receive, OpenLink, Redeliver,
                        Begin, Goto, Answer, HeldPc
    <3>2. QED
      BY <3>1 DEF Fenced
  <2>3. QED
    BY <2>1, <2>2
<1>2. CASE Crash(r)
  BY <1>2 DEF Crash, Answer, Fenced, HeldPc
<1>3. CASE Step(r)
  <2>1. ASSUME NEW out \in PutOutcome, UpsertPut(r, out) \/ ConfirmPut(r, out)
        PROVE  Fenced(r)'
    <3>1. CASE out = "ok"
      <4>1. rec'[r] = Written(rec[r])
        BY <2>1, <3>1 DEF UpsertPut, ConfirmPut
      <4>2. PICK a \in Address :
              a = Subject[rec[r].env] /\ store'[a] = Written(rec[r])
              /\ rec[r].token \in issued'
        BY <2>1, <3>1, <1>a, PutEffect DEF UpsertPut, ConfirmPut, StoreTypeOK
      <4>3. /\ Written(rec[r]).env = rec[r].env /\ Written(rec[r]).token = rec[r].token
            /\ Written(rec[r]).rev = rec[r].rev + 1
            /\ Written(rec[r]).attempts = rec[r].attempts
        BY <1>a, WrittenFields
      <4>4. QED
        BY <4>1, <4>2, <4>3, <1>b DEF Fenced, AtLeast
    <3>2. CASE out # "ok"
      <4>1. pc'[r] \notin HeldPc
        BY <2>1, <3>2 DEF UpsertPut, ConfirmPut, Goto, Answer, HeldPc
      <4>2. QED
        BY <4>1 DEF Fenced
    <3>3. QED
      BY <3>1, <3>2
  <2>2. ASSUME NEW out \in PutOutcome, MailPut(r, out) \/ DeliverPut(r, out)
        PROVE  Fenced(r)'
    BY <2>2 DEF MailPut, DeliverPut, Answer, Fenced, HeldPc
  <2>3. CASE ViewRow(r) \/ LookupFails(r) \/ PageRead(r)
    BY <2>3 DEF ViewRow, LookupFails, PageRead, Answer, Fenced, HeldPc, LookupPc
  <2>4. ASSUME NEW accept \in BOOLEAN, Confirmation(r, accept)
        PROVE  Fenced(r)'
    BY <2>4 DEF Confirmation, Goto, Answer, Fenced, HeldPc
  <2>5. CASE ConfirmRead(r) \/ ConfirmReread(r)
    <3>1. PICK a \in Address :
            /\ ByToken(r, a) /\ store' = store /\ issued' = issued
            /\ rec'[r] \in {store[a], Confirmed(store[a])}
      BY <2>5 DEF ConfirmRead, ConfirmReread, storeVars
    <3>2. Exists(a)
      BY <3>1, LookupFound DEF ByToken
    <3>3. QED
      BY <3>1, <3>2, FenceReadKept
  <2>6. CASE CounterSignFails(r)
    <3>1. pc[r] = "deliver" /\ rec'[r] = Failed(rec[r]) /\ store' = store /\ issued' = issued
      BY <2>6 DEF CounterSignFails, storeVars
    <3>2. QED
      BY <3>1, <1>a, FailedFields DEF Fenced, AtLeast, HeldPc
  <2>7. ASSUME NEW out \in BOOLEAN, NEW err \in BOOLEAN, MailSend(r, out, err)
        PROVE  Fenced(r)'
    <3>1. store' = store /\ issued' = issued
      BY <2>7 DEF MailSend, storeVars
    <3>2. QED
      BY <2>7, <3>1, <1>a, MailSendEffect DEF Fenced, AtLeast, HeldPc
  <2>8. ASSUME NEW got \in BOOLEAN, NEW err \in BOOLEAN, DeliverSend(r, got, err)
        PROVE  Fenced(r)'
    <3>1. store' = store /\ issued' = issued
      BY <2>8 DEF DeliverSend, storeVars
    <3>2. rec[r].env \in Envelope
      BY <2>8 DEF DeliverSend, WellFormed, CopyForm, WorkPc, HeldPc
    <3>3. store[Subject[rec[r].env]].attempts \in Nat
      BY <3>2, SubjectAssumption DEF StoreTypeOK, Verification
    <3>4. /\ rec'[r].attempts = rec[r].attempts + 1 /\ rec'[r].confirmed = rec[r].confirmed
          /\ rec'[r].token = rec[r].token /\ rec'[r].env = rec[r].env
          /\ rec'[r].rev = rec[r].rev /\ pc[r] = "deliver"
      BY <2>8, DeliverSendEffect
    <3>5. QED
      BY <3>1, <3>3, <3>4, <1>a, <1>b DEF Fenced, AtLeast, HeldPc
  <2>9. QED
    BY <1>3, <2>1, <2>2, <2>3, <2>4, <2>5, <2>6, <2>7, <2>8 DEF Step, NoRecordYet
<1>4. QED
  BY <1>1, <1>2, <1>3

(* A token that is not written yet stays the request's own.                 *)
LEMMA UnwrittenKept ==
  ASSUME TypeInv, TypeInv', FenceInv, NEW r \in Request, Arrive(r) \/ Step(r) \/ Crash(r)
  PROVE  /\ issued' \subseteq minted'
         /\ \A q \in Request : Unwritten(q)'
<1> USE DEF TypeInv, TypeOK
<1>a. \A q \in Request : Unwritten(q) /\ Fenced(q)
  BY DEF FenceInv
<1>b. minted \subseteq minted' /\ issued \subseteq issued'
  BY StoreStep DEF Grows
<1>1. ASSUME NEW e \in Envelope, Receive(r, e)
      PROVE  /\ issued' \subseteq minted'
             /\ \A q \in Request : Unwritten(q)'
  <2>1. PICK t \in Token \ minted :
          /\ minted' = minted \cup {t} /\ pc'[r] = "upsertPut"
          /\ rec'[r].token = t /\ issued' = issued
    BY <1>1 DEF Receive, Begin, Goto, NewVerification, Blank, storeVars
  <2>2. \A q \in Request \ {r} : pc'[q] = pc[q] /\ rec'[q] = rec[q]
    BY <1>1, OthersFrame DEF Arrive
  <2>3. QED
    BY <1>a, <2>1, <2>2 DEF Unwritten, FenceInv
<1>2. ASSUME ~\E e \in Envelope : Receive(r, e)
      PROVE  pc'[r] # "upsertPut"
  <2>1. CASE Arrive(r)
    BY <1>2, <2>1
       DEF Arrive, ReceiveRejected, OpenLink, Redeliver, Begin, Goto, Answer
  <2>2. CASE Crash(r)
    BY <2>2 DEF Crash, Answer
  <2>3. CASE Step(r)
    BY <2>3
       DEF Step, NoRecordYet, UpsertPut, MailSend, MailPut, ViewRow, LookupFails, PageRead,
                Confirmation, ConfirmRead, ConfirmPut, ConfirmReread,
                CounterSignFails, DeliverSend, DeliverPut, Goto, Answer, LookupPc
  <2>4. QED
    BY <2>1, <2>2, <2>3
<1>3. CASE ~\E e \in Envelope : Receive(r, e)
  <2>1. CASE issued' = issued
    BY <1>2, <1>3, <1>a, <1>b, <2>1, OthersFrame DEF Unwritten, FenceInv
  <2>2. CASE pc[r] \in PutPc /\ issued' = issued \cup {rec[r].token}
    <3>1. CASE pc[r] = "upsertPut"
      BY <1>2, <1>3, <1>a, <1>b, <2>2, <3>1, OthersFrame DEF Unwritten, FenceInv
    <3>2. CASE pc[r] # "upsertPut"
      <4>1. rec[r].token \in issued
        BY <1>a, <2>2, <3>2 DEF PutPc, HeldPc, Fenced
      <4>2. QED
        BY <1>2, <1>3, <1>a, <1>b, <2>2, <4>1, OthersFrame
           DEF Unwritten, FenceInv
    <3>3. QED
      BY <3>1, <3>2
  <2>3. QED
    BY <2>1, <2>2, StoreStep
<1>4. QED
  BY <1>1, <1>3

(* The fence holds initially and every step keeps it.                       *)
LEMMA FenceStep == TypeInv /\ TypeInv' /\ FenceInv /\ [Next]_vars => FenceInv'
<1> SUFFICES ASSUME TypeInv, TypeInv', FenceInv, [Next]_vars PROVE FenceInv'
  OBVIOUS
<1>1. ASSUME NEW r \in Request, Arrive(r) \/ Step(r) \/ Crash(r) PROVE FenceInv'
  <2>1. \A q \in Request \ {r} : Fenced(q)'
    BY <1>1, RevStep, OthersFrame, FenceKept DEF FenceInv
  <2>2. QED
    BY <1>1, <2>1, FenceOwn, UnwrittenKept DEF FenceInv
<1>2. ASSUME UNCHANGED <<store, issued, pc, rec>>, minted \subseteq minted' PROVE FenceInv'
  BY <1>2 DEF FenceInv, Fenced, Unwritten, AtLeast
<1>3. CASE \E t \in Token : Expire(t)
  BY <1>2, <1>3 DEF Expire, localVars, storeVars
<1>4. CASE UNCHANGED vars
  BY <1>2, <1>4 DEF vars
<1>5. QED
  BY <1>1, <1>3, <1>4 DEF Next

(* The safety of the store follows from types and fence together.           *)
StoreInv == TypeInv /\ FenceInv

LEMMA StoreInvariant == Spec => []StoreInv
<1>1. Init => FenceInv
  BY DEF Init, StoreInit, FenceInv, Fenced, Unwritten, HeldPc
<1>2. QED
  BY <1>1, TypeInit, TypeStep, FenceStep, PTL DEF Spec, StoreInv

(* What one Put replaces: a document the writer's copy is at least as far   *)
(* on as, or, from upsert, one whose token is new.                          *)
LEMMA PutReplaces ==
  ASSUME StoreInv, NEW r \in Request, Arrive(r) \/ Step(r) \/ Crash(r),
         NEW a \in Address, store'[a] # store[a]
  PROVE  \/ store'[a].token \notin issued
         \/ AtLeast(store'[a], store[a])
<1> USE DEF StoreInv, TypeInv, TypeOK
<1>1. /\ pc[r] \in PutPc
      /\ Subject[rec[r].env] = a /\ rec[r].rev = store[a].rev
      /\ store'[a] = Written(rec[r])
  BY StoreStep DEF StoreTypeOK
<1>2. /\ store'[a].token = rec[r].token /\ store'[a].env = rec[r].env
      /\ store'[a].confirmed = rec[r].confirmed
      /\ store'[a].attempts = rec[r].attempts
  BY <1>1, WrittenFields
<1>3. CASE pc[r] = "upsertPut"
  BY <1>2, <1>3 DEF FenceInv, Unwritten
<1>4. CASE pc[r] # "upsertPut"
  <2>1. AtLeast(rec[r], store[a])
    BY <1>1, <1>4 DEF FenceInv, Fenced, PutPc, HeldPc
  <2>2. QED
    BY <1>2, <2>1 DEF AtLeast
<1>5. QED
  BY <1>3, <1>4

(* AttestationNeverLost holds of every step.                                *)
THEOREM AttestationKept == Spec => AttestationNeverLost
<1> DEFINE Keeps ==
      \A a \in Address :
        (Exists(a) /\ store'[a].token = store[a].token) =>
           /\ store[a].confirmed => store'[a].confirmed
           /\ store'[a].env = store[a].env
           /\ store'[a].attempts >= store[a].attempts
<1>1. ASSUME StoreInv, [Next]_vars PROVE [Keeps]_vars
  <2>1. \A a \in Address : store[a].attempts \in Nat /\ StoredForm(a)
    BY <1>1 DEF StoreInv, TypeInv, TypeOK, StoreTypeOK, WellFormed, Verification
  <2>2. CASE store' = store
    BY <2>1, <2>2
  <2>3. ASSUME NEW r \in Request, Arrive(r) \/ Step(r) \/ Crash(r) PROVE Keeps
    <3>1. StoreTypeOK'
      BY <1>1, TypeStep DEF StoreInv, TypeInv, TypeOK
    <3>2. ASSUME NEW a \in Address, Exists(a), store'[a].token = store[a].token
          PROVE  /\ store[a].confirmed => store'[a].confirmed
                 /\ store'[a].env = store[a].env
                 /\ store'[a].attempts >= store[a].attempts
      <4>1. store'[a].attempts \in Nat
        BY <3>1 DEF StoreTypeOK, Verification
      <4>2. store[a].token \in issued
        BY <2>1, <3>2 DEF StoredForm
      <4>3. QED
        BY <1>1, <2>1, <2>3, <3>2, <4>1, <4>2, PutReplaces DEF AtLeast
    <3>3. QED
      BY <3>2
  <2>4. QED
    BY <1>1, <2>2, <2>3 DEF Next, Expire, storeVars
<1>2. QED
  BY <1>1, StoreInvariant, PTL DEF Spec, AttestationNeverLost

(* DeadLinksStayDead holds of every step.                                   *)
THEOREM DeadLinks == Spec => DeadLinksStayDead
<1> DEFINE Fresh ==
      \A a \in Address :
        store'[a].token # store[a].token => store'[a].token \notin issued
<1>1. ASSUME StoreInv, [Next]_vars PROVE [Fresh]_vars
  <2>1. CASE store' = store
    BY <2>1
  <2>2. ASSUME NEW r \in Request, Arrive(r) \/ Step(r) \/ Crash(r) PROVE Fresh
    BY <1>1, <2>2, PutReplaces DEF AtLeast
  <2>3. QED
    BY <1>1, <2>1, <2>2 DEF Next, Expire, storeVars
<1>2. QED
  BY <1>1, StoreInvariant, PTL DEF Spec, DeadLinksStayDead

-----------------------------------------------------------------------------
(* Only redeliver reopens a completed verification.                         *)

(* A request of the inbox or the link that is not behind the store found    *)
(* the record not delivered; redeliver goes nowhere but to deliver.         *)
OpenFor(r) ==
  /\ pc[r] \in {"upsertPut", "confirmPut"} => rec[r].status # "delivered"
  /\ op[r] = "redeliver" => pc[r] \in {"deliver", "deliverPut", "done"}
  /\ pc[r] \in HeldPc /\ op[r] # "redeliver" =>
       LET s == store[Subject[rec[r].env]] IN
       rec[r].rev = s.rev => s.status # "delivered"

OpenInv ==
  /\ \A r \in Request : OpenFor(r)
  /\ \A a \in Address : store[a].status = "delivered" => Exists(a)

(* Whoever else writes, an open copy stays open: a write of the record      *)
(* leaves the copy behind.                                                  *)
LEMMA OpenKept ==
  ASSUME StoreInv, RevMoves, NEW q \in Request, OpenFor(q),
         pc'[q] = pc[q], rec'[q] = rec[q], op'[q] = op[q], TypeInv'
  PROVE  OpenFor(q)'
<1>1. CASE pc[q] \in HeldPc
  <2>1. rec[q].env \in Envelope /\ rec[q] \in Verification
    BY <1>1 DEF StoreInv, TypeInv, TypeOK, WellFormed, CopyForm, WorkPc
  <2>2. PICK a \in Address : a = Subject[rec[q].env]
    BY <2>1, SubjectAssumption
  <2>3. rec[q].rev \in Nat /\ store[a].rev \in Nat /\ store'[a].rev \in Nat
    BY <2>1 DEF StoreInv, TypeInv, TypeOK, StoreTypeOK, Verification
  <2>4. rec[q].rev <= store[a].rev
    BY <1>1, <2>2 DEF StoreInv, FenceInv, Fenced
  <2>5. CASE store'[a] = store[a]
    BY <1>1, <2>2, <2>5 DEF OpenFor
  <2>6. CASE store'[a].rev > store[a].rev
    <3>1. rec[q].rev # store'[a].rev
      BY <2>3, <2>4, <2>6
    <3>2. QED
      BY <1>1, <2>2, <3>1 DEF OpenFor
  <2>7. QED
    BY <2>5, <2>6 DEF RevMoves
<1>2. QED
  BY <1>1 DEF OpenFor

(* The request that moves stays open: Confirm goes on only with a record    *)
(* that is not delivered, and a first write makes it pending or confirmed.  *)
LEMMA OpenOwn ==
  ASSUME StoreInv, NEW r \in Request, OpenFor(r),
         Arrive(r) \/ Step(r) \/ Crash(r)
  PROVE  OpenFor(r)'
<1> USE DEF StoreInv, TypeInv, TypeOK
<1>a. StoreTypeOK /\ rec[r] \in Verification
  BY DEF StoreInv
<1>1. CASE Arrive(r)
  <2>1. ASSUME NEW e \in Envelope, Receive(r, e) PROVE OpenFor(r)'
    BY <2>1 DEF Receive, Begin, Goto, NewVerification, Blank, OpenFor, HeldPc
  <2>2. CASE ReceiveRejected(r)
    BY <2>2 DEF ReceiveRejected, Answer, OpenFor, HeldPc
  <2>3. ASSUME NEW t \in Token, NEW k \in {"page", "submit"},
               NEW p \in {"page", "confirmation"}, OpenLink(r, t, k, p)
        PROVE  OpenFor(r)'
    BY <2>3 DEF OpenLink, Begin, Goto, OpenFor, HeldPc
  <2>4. ASSUME NEW a \in Address, Redeliver(r, a) PROVE OpenFor(r)'
    BY <2>4 DEF Redeliver, Goto, Answer, OpenFor
  <2>5. QED
    BY <1>1, <2>1, <2>2, <2>3, <2>4 DEF Arrive
<1>2. CASE Crash(r)
  BY <1>2 DEF Crash, Answer, OpenFor, HeldPc
<1>3. CASE Step(r)
  <2>1. ASSUME NEW out \in PutOutcome, UpsertPut(r, out) \/ ConfirmPut(r, out)
        PROVE  OpenFor(r)'
    <3>1. CASE out = "ok"
      <4>1. /\ rec'[r] = Written(rec[r]) /\ op'[r] = op[r]
            /\ pc[r] \in {"upsertPut", "confirmPut"} /\ pc'[r] \in {"mail", "deliver"}
        BY <2>1, <3>1 DEF UpsertPut, ConfirmPut, Goto
      <4>2. PICK a \in Address :
              a = Subject[rec[r].env] /\ store'[a] = Written(rec[r])
        BY <2>1, <3>1, <1>a, PutEffect DEF UpsertPut, ConfirmPut, StoreTypeOK
      <4>3. Written(rec[r]).env = rec[r].env /\ Written(rec[r]).status = rec[r].status
        BY <1>a, WrittenFields
      <4>4. rec[r].status # "delivered" /\ op[r] # "redeliver"
        BY <4>1 DEF OpenFor
      <4>5. QED
        BY <4>1, <4>2, <4>3, <4>4 DEF OpenFor
    <3>2. CASE out # "ok"
      <4>1. pc'[r] \in {"done", "reread"} /\ op'[r] = op[r]
        BY <2>1, <3>2 DEF UpsertPut, ConfirmPut, Goto, Answer
      <4>2. op[r] = "redeliver" => pc'[r] = "done"
        BY <2>1, <3>2 DEF UpsertPut, ConfirmPut, OpenFor
      <4>3. QED
        BY <4>1, <4>2 DEF OpenFor, HeldPc
    <3>3. QED
      BY <3>1, <3>2
  <2>2. ASSUME NEW out \in PutOutcome, MailPut(r, out) \/ DeliverPut(r, out)
        PROVE  OpenFor(r)'
    BY <2>2 DEF MailPut, DeliverPut, Answer, OpenFor, HeldPc
  <2>3. CASE LookupFails(r) \/ PageRead(r)
    BY <2>3 DEF LookupFails, PageRead, Answer, OpenFor, HeldPc
  <2>4. CASE ViewRow(r)
    BY <2>4 DEF ViewRow, OpenFor, HeldPc, LookupPc
  <2>5. ASSUME NEW accept \in BOOLEAN, Confirmation(r, accept)
        PROVE  OpenFor(r)'
    BY <2>5 DEF Confirmation, Goto, Answer, OpenFor, HeldPc
  <2>6. CASE ConfirmRead(r) \/ ConfirmReread(r)
    <3>1. PICK a \in Address :
            /\ ByToken(r, a) /\ store' = store
            /\ rec'[r] \in {store[a], Confirmed(store[a])}
            /\ pc'[r] = "confirmPut" => rec'[r] = Confirmed(store[a])
            /\ store[a].status = "delivered" => pc'[r] = "done"
      BY <2>6 DEF ConfirmRead, ConfirmReread, storeVars, Goto, Answer
    <3>2. Exists(a) /\ store[a] \in Verification
      BY <3>1, LookupFound DEF ByToken
    <3>3. Subject[rec'[r].env] = a
      BY <3>1, <3>2, FenceRead
    <3>4. Confirmed(store[a]).status = "confirmed"
      BY <3>2, ConfirmedFields
    <3>5. /\ op'[r] = op[r] /\ op[r] # "redeliver"
          /\ pc'[r] \in {"confirmPut", "deliver", "done"}
      BY <2>6 DEF ConfirmRead, ConfirmReread, OpenFor, Goto, Answer
    <3>6. QED
      BY <3>1, <3>3, <3>4, <3>5 DEF OpenFor, HeldPc
  <2>7. CASE CounterSignFails(r)
    <3>1. /\ pc[r] = "deliver" /\ pc'[r] = "deliverPut" /\ op'[r] = op[r]
          /\ rec'[r] = Failed(rec[r]) /\ store' = store
      BY <2>7 DEF CounterSignFails, storeVars, Goto
    <3>2. QED
      BY <3>1, <1>a, FailedFields DEF OpenFor, HeldPc
  <2>8. ASSUME NEW out \in BOOLEAN, NEW err \in BOOLEAN, MailSend(r, out, err)
        PROVE  OpenFor(r)'
    <3>1. store' = store /\ op' = op
      BY <2>8 DEF MailSend, storeVars
    <3>2. QED
      BY <2>8, <3>1, MailSendEffect DEF OpenFor, HeldPc
  <2>9. ASSUME NEW got \in BOOLEAN, NEW err \in BOOLEAN, DeliverSend(r, got, err)
        PROVE  OpenFor(r)'
    <3>1. store' = store /\ op' = op /\ pc'[r] = "deliverPut"
      BY <2>9 DEF DeliverSend, storeVars, Goto
    <3>2. /\ rec'[r].env = rec[r].env /\ rec'[r].rev = rec[r].rev /\ pc[r] = "deliver"
      BY <2>9, DeliverSendEffect
    <3>3. QED
      BY <3>1, <3>2 DEF OpenFor, HeldPc
  <2>10. QED
    BY <1>3, <2>1, <2>2, <2>3, <2>4, <2>5, <2>6, <2>7, <2>8, <2>9 DEF Step, NoRecordYet
<1>4. QED
  BY <1>1, <1>2, <1>3

(* A step of one request leaves the kind of every other one alone.          *)
LEMMA OpFrame ==
  ASSUME TypeInv, NEW r \in Request, NEW q \in Request \ {r},
         Arrive(r) \/ Step(r) \/ Crash(r)
  PROVE  op'[q] = op[q]
<1> USE DEF TypeInv, TypeOK
<1>1. CASE Arrive(r)
  BY <1>1 DEF Arrive, ReceiveRejected, Receive, OpenLink, Begin, Redeliver
<1>2. CASE Step(r) \/ Crash(r)
  BY <1>2 DEF Crash, Step, NoRecordYet, UpsertPut, MailSend, MailPut, ViewRow, LookupFails,
              PageRead, Confirmation, ConfirmRead, ConfirmPut, ConfirmReread,
              CounterSignFails, DeliverSend, DeliverPut
<1>3. QED
  BY <1>1, <1>2

LEMMA OpenInvariant == Spec => [](StoreInv /\ OpenInv)
<1>1. Init => OpenInv
  BY DEF Init, StoreInit, Blank, OpenInv, OpenFor, HeldPc
<1>2. ASSUME StoreInv, StoreInv', OpenInv, [Next]_vars PROVE OpenInv'
  <2>1. ASSUME NEW r \in Request, Arrive(r) \/ Step(r) \/ Crash(r) PROVE OpenInv'
    <3>1. TypeInv /\ RevMoves
      BY <1>2, <2>1, RevStep DEF StoreInv
    <3>2. \A q \in Request \ {r} : OpenFor(q)'
      BY <1>2, <2>1, <3>1, OthersFrame, OpFrame, OpenKept DEF OpenInv, StoreInv
    <3>3. OpenFor(r)'
      BY <1>2, <2>1, OpenOwn DEF OpenInv
    <3>4. \A a \in Address : store'[a].status = "delivered" => Exists(a)'
      <4>1. \A a \in Address : store[a].rev \in Nat /\ store'[a].rev \in Nat
        BY <1>2 DEF StoreInv, TypeInv, TypeOK, StoreTypeOK, Verification
      <4>2. QED
        BY <1>2, <3>1, <4>1 DEF RevMoves, OpenInv, Exists
    <3>5. QED
      BY <3>2, <3>3, <3>4 DEF OpenInv
  <2>2. CASE \E t \in Token : Expire(t)
    BY <1>2, <2>2 DEF Expire, localVars, storeVars, OpenInv, OpenFor, Exists
  <2>3. CASE UNCHANGED vars
    BY <1>2, <2>3 DEF vars, OpenInv, OpenFor, Exists
  <2>4. QED
    BY <1>2, <2>1, <2>2, <2>3 DEF Next
<1>3. QED
  BY <1>1, <1>2, StoreInvariant, PTL DEF Spec

(* A request that has its outcome to write comes to its end with it.        *)
LEMMA OutcomeAnswers ==
  ASSUME TypeOK, NEW r \in Request, pc[r] = "deliverPut",
         Arrive(r) \/ Step(r) \/ Crash(r)
  PROVE  pc'[r] = "done"
<1> USE DEF TypeOK, Answer
<1>1. ~Arrive(r)
  BY DEF Arrive, ReceiveRejected, Receive, OpenLink, Redeliver, Begin
<1>2. CASE Crash(r)
  BY <1>2 DEF Crash
<1>3. CASE Step(r)
  <2>1. PICK out \in PutOutcome : DeliverPut(r, out)
    BY <1>3 DEF Step, UpsertPut, MailSend, MailPut, NoRecordYet, LookupPc, PageRead,
                Confirmation, ConfirmRead, ConfirmPut, ConfirmReread,
                CounterSignFails, DeliverSend
  <2>2. QED
    BY <2>1 DEF DeliverPut
<1>4. QED
  BY <1>1, <1>2, <1>3

(* OnlyRedeliverReopens holds of every step.                                *)
THEOREM CompletedStays == Spec => OnlyRedeliverReopens
<1> DEFINE ByOperator ==
      \A a \in Address :
        (/\ store[a].status = "delivered"
         /\ store'[a].status # "delivered"
         /\ store'[a].token = store[a].token) =>
           \E r \in Request :
             /\ op[r] = "redeliver" /\ pc[r] = "deliverPut" /\ pc'[r] = "done"
             /\ rec[r].token = store[a].token
<1>1. ASSUME StoreInv, OpenInv, [Next]_vars PROVE [ByOperator]_vars
  <2>1. ASSUME NEW a \in Address,
               store[a].status = "delivered", store'[a].status # "delivered",
               store'[a].token = store[a].token
        PROVE  \E r \in Request :
                 /\ op[r] = "redeliver" /\ pc[r] = "deliverPut" /\ pc'[r] = "done"
                 /\ rec[r].token = store[a].token
    <3>1. PICK r \in Request : Arrive(r) \/ Step(r) \/ Crash(r)
      BY <1>1, <2>1 DEF Next, Expire, storeVars, vars
    <3>2. /\ pc[r] \in PutPc /\ rec[r] \in Verification
          /\ Subject[rec[r].env] = a /\ rec[r].rev = store[a].rev
          /\ store'[a] = Written(rec[r])
      BY <1>1, <2>1, <3>1, StoreStep DEF StoreInv, TypeInv, TypeOK, StoreTypeOK
    <3>3. rec[r].token = store[a].token
      BY <2>1, <3>2, WrittenFields
    <3>4. store[a].token \in issued
      BY <1>1, <2>1 DEF OpenInv, StoreInv, TypeInv, WellFormed, StoredForm
    <3>5. pc[r] # "upsertPut"
      BY <1>1, <3>3, <3>4 DEF StoreInv, FenceInv, Unwritten
    <3>6. op[r] = "redeliver"
      BY <1>1, <2>1, <3>2, <3>5 DEF OpenInv, OpenFor, PutPc, HeldPc
    <3>7. pc[r] = "deliverPut"
      BY <1>1, <3>2, <3>6 DEF OpenInv, OpenFor, PutPc
    <3>8. pc'[r] = "done"
      BY <1>1, <3>1, <3>7, OutcomeAnswers DEF StoreInv, TypeInv
    <3>9. QED
      BY <3>3, <3>6, <3>7, <3>8
  <2>2. QED
    BY <2>1
<1>2. QED
  BY <1>1, OpenInvariant, PTL DEF Spec, OnlyRedeliverReopens

-----------------------------------------------------------------------------
(* Answers are truthful.                                                    *)

(* The request that moves gets an answer its copy supports.                 *)
LEMMA AnswerOwn ==
  ASSUME StoreInv, AnswerInv, NEW r \in Request, Arrive(r) \/ Step(r) \/ Crash(r)
  PROVE  AnswerFor(r)'
<1> USE DEF StoreInv, TypeInv, TypeOK
<1>a. AnswerFor(r) /\ Fenced(r) /\ issued \subseteq issued'
  BY StoreStep DEF AnswerInv, FenceInv, Grows
<1>1. CASE Arrive(r)
  BY <1>1, <1>a DEF Arrive, ReceiveRejected, Receive, OpenLink, Redeliver,
                    Begin, Goto, Answer, AnswerFor
<1>2. CASE Crash(r)
  BY <1>2, <1>a DEF Crash, Answer, AnswerFor
<1>3. CASE Step(r)
  <2>1. ASSUME NEW out \in PutOutcome, UpsertPut(r, out) \/ ConfirmPut(r, out)
        PROVE  AnswerFor(r)'
    BY <2>1, <1>a DEF UpsertPut, ConfirmPut, Goto, Answer, AnswerFor
  <2>2. ASSUME NEW out \in PutOutcome, MailPut(r, out)
        PROVE  AnswerFor(r)'
    <3>1. rec[r].token \in issued
      BY <2>2, <1>a DEF MailPut, Fenced, HeldPc
    <3>2. QED
      BY <2>2, <1>a, <3>1 DEF MailPut, Answer, AnswerFor
  <2>3. ASSUME NEW out \in PutOutcome, DeliverPut(r, out)
        PROVE  AnswerFor(r)'
    BY <2>3, <1>a DEF DeliverPut, Answer, AnswerFor
  <2>4. CASE ViewRow(r) \/ LookupFails(r)
    BY <2>4, <1>a DEF ViewRow, LookupFails, LookupPc, Answer, AnswerFor
  <2>5. CASE PageRead(r)
    BY <2>5, <1>a DEF PageRead, View, Answer, AnswerFor
  <2>6. ASSUME NEW accept \in BOOLEAN, Confirmation(r, accept)
        PROVE  AnswerFor(r)'
    BY <2>6, <1>a DEF Confirmation, Goto, Answer, AnswerFor
  <2>7. CASE ConfirmRead(r) \/ ConfirmReread(r) \/ CounterSignFails(r)
    BY <2>7, <1>a
       DEF ConfirmRead, ConfirmReread, CounterSignFails, Goto, Answer,
           AnswerFor
  <2>8. ASSUME NEW out \in BOOLEAN, NEW err \in BOOLEAN, MailSend(r, out, err)
        PROVE  AnswerFor(r)'
    BY <2>8, <1>a, MailSendEffect DEF AnswerFor
  <2>9. ASSUME NEW got \in BOOLEAN, NEW err \in BOOLEAN, DeliverSend(r, got, err)
        PROVE  AnswerFor(r)'
    BY <2>9, <1>a, DeliverSendEffect DEF AnswerFor
  <2>10. QED
    BY <1>3, <2>1, <2>2, <2>3, <2>4, <2>5, <2>6, <2>7, <2>8, <2>9 DEF Step, NoRecordYet
<1>4. QED
  BY <1>1, <1>2, <1>3

LEMMA AnswerStep == StoreInv /\ AnswerInv /\ [Next]_vars => AnswerInv'
<1> SUFFICES ASSUME StoreInv, AnswerInv, [Next]_vars PROVE AnswerInv'
  OBVIOUS
<1>1. ASSUME NEW r \in Request, Arrive(r) \/ Step(r) \/ Crash(r) PROVE AnswerInv'
  <2>1. \A q \in Request \ {r} : AnswerFor(q)'
    BY <1>1, StoreStep, OthersFrame DEF StoreInv, AnswerInv, AnswerFor, Grows
  <2>2. QED
    BY <1>1, <2>1, AnswerOwn DEF AnswerInv
<1>2. ASSUME UNCHANGED <<store, issued, pc, rec, resp>> PROVE AnswerInv'
  BY <1>2 DEF AnswerInv, AnswerFor
<1>3. QED
  BY <1>1, <1>2 DEF Next, Expire, localVars, storeVars, vars

LEMMA AnswerInvariant == Spec => [](StoreInv /\ TruthInv /\ AnswerInv)
<1>1. Init => TruthInv /\ AnswerInv
  BY DEF Init, StoreInit, TruthInv, Truthful, AnswerInv, AnswerFor, Blank
<1>2. StoreInv => TypeInv
  BY DEF StoreInv
<1>3. QED
  BY <1>1, <1>2, StoreInvariant, TypeStep, TruthStep, AnswerStep, PTL DEF Spec

(* SuccessTruthful holds in every reachable state.                          *)
THEOREM SuccessIsTruthful == Spec => []SuccessTruthful
<1>1. TruthInv /\ AnswerInv => SuccessTruthful
  BY DEF TruthInv, Truthful, AnswerInv, AnswerFor, SuccessTruthful
<1>2. QED
  BY <1>1, AnswerInvariant, PTL

(* AckMeansLinkOut holds in every reachable state.                          *)
THEOREM AcksAreTruthful == Spec => []AckMeansLinkOut
<1>1. TruthInv /\ AnswerInv => AckMeansLinkOut
  BY DEF TruthInv, Truthful, AnswerInv, AnswerFor, AckMeansLinkOut
<1>2. QED
  BY <1>1, AnswerInvariant, PTL

-----------------------------------------------------------------------------
(* What the submitter is told is durable.                                   *)

(* A request that tells of a delivery, or is about to.                      *)
Tells(r) ==
  \/ pc[r] \in {"deliver", "deliverPut"}
  \/ resp[r] \in {"complete", "delivered", "unavailable"}

(* The stored record of the submission in v is attested if v is.            *)
Durable(v) ==
  /\ v.env \in Envelope /\ v.token \in issued
  /\ LET s == store[Subject[v.env]] IN
       v.confirmed /\ s.token = v.token => s.confirmed

DurableInv == \A r \in Request : Tells(r) => Durable(rec[r])

(* "The attestation itself is durable from the first call" (Confirm), as    *)
(* far as the code makes it so: whoever is told that the verification is    *)
(* complete, or saved and not delivered yet, by a request that found or     *)
(* wrote the attestation, is told of a record that keeps it, whatever else  *)
(* writes it, until another submission replaces it.  (AttestationDurable    *)
(* fails for the requests that found none when they read the record again.) *)
DurableOnceSeen ==
  \A r \in Request :
    /\ op[r] = "submit" /\ resp[r] \in {"complete", "unavailable"}
    /\ rec[r].confirmed
    /\ store[Subject[rec[r].env]].token = rec[r].token
    => store[Subject[rec[r].env]].confirmed

(* No Put of anybody clears an attestation or brings a dead token back.     *)
LEMMA DurableKept ==
  ASSUME StoreInv, NEW r \in Request, Arrive(r) \/ Step(r) \/ Crash(r),
         NEW v, Durable(v)
  PROVE  /\ v.env \in Envelope /\ v.token \in issued'
         /\ LET s == store'[Subject[v.env]] IN
              v.confirmed /\ s.token = v.token => s.confirmed
<1>1. PICK a \in Address : a = Subject[v.env]
  BY SubjectAssumption DEF Durable
<1>2. issued \subseteq issued'
  BY StoreStep DEF StoreInv, Grows
<1>3. CASE store'[a] = store[a]
  BY <1>1, <1>2, <1>3 DEF Durable
<1>4. CASE store'[a] # store[a]
  BY <1>1, <1>2, <1>4, PutReplaces DEF Durable, AtLeast
<1>5. QED
  BY <1>3, <1>4

(* A record that was just read is as durable as it says.                    *)
LEMMA DurableRead ==
  ASSUME StoreInv, NEW a \in Address, Exists(a)
  PROVE  Durable(store[a])
  BY DEF StoreInv, TypeInv, WellFormed, StoredForm, Durable

LEMMA DurableOwn ==
  ASSUME StoreInv, StoreInv', AnswerInv, DurableInv, NEW r \in Request,
         Arrive(r) \/ Step(r) \/ Crash(r)
  PROVE  Tells(r)' => Durable(rec[r])'
<1> USE DEF StoreInv, TypeInv, TypeOK
<1>a. /\ rec[r] \in Verification /\ pc[r] # "done" => resp[r] = "none"
      /\ Tells(r) => Durable(rec[r])
  BY DEF AnswerInv, AnswerFor, DurableInv
<1>b. ASSUME store' = store, issued' = issued, NEW a \in Address, Exists(a),
             rec'[r] = store[a]
      PROVE  Durable(rec[r])'
  BY <1>b, DurableRead DEF Durable
<1>c. ASSUME Durable(rec[r]), rec'[r].env = rec[r].env, rec'[r].token = rec[r].token,
             rec'[r].confirmed = rec[r].confirmed
      PROVE  Durable(rec[r])'
  BY <1>c, DurableKept DEF Durable
<1>1. CASE Arrive(r)
  <2>1. ASSUME NEW a \in Address, Redeliver(r, a), Tells(r)'
        PROVE  Durable(rec[r])'
    <3>1. Exists(a) /\ rec'[r] = store[a] /\ store' = store /\ issued' = issued
      BY <2>1, <1>a DEF Redeliver, Goto, Answer, Tells, storeVars, Get
    <3>2. QED
      BY <3>1, <1>b
  <2>2. CASE ReceiveRejected(r) \/ (\E e \in Envelope : Receive(r, e))
    BY <2>2, <1>a DEF ReceiveRejected, Receive, Begin, Goto, Answer, Tells
  <2>3. CASE \E t \in Token : OpenLink(r, t, "page", "page")
                                \/ OpenLink(r, t, "submit", "confirmation")
    BY <2>3, <1>a DEF OpenLink, Begin, Goto, Tells
  <2>4. QED
    BY <1>1, <2>1, <2>2, <2>3 DEF Arrive
<1>2. CASE Crash(r)
  BY <1>2 DEF Crash, Answer, Tells
<1>3. CASE Step(r)
  <2>1. ASSUME NEW out \in PutOutcome, UpsertPut(r, out) \/ MailPut(r, out)
        PROVE  ~Tells(r)'
    BY <2>1, <1>a DEF UpsertPut, MailPut, Goto, Answer, Tells
  <2>2. ASSUME NEW out \in PutOutcome, ConfirmPut(r, out), Tells(r)'
        PROVE  Durable(rec[r])'
    <3>1. /\ out = "ok" /\ rec'[r] = Written(rec[r]) /\ Put(rec[r], out)
      BY <2>2, <1>a DEF ConfirmPut, Goto, Answer, Tells
    <3>2. /\ rec[r].env \in Envelope /\ Subject[rec[r].env] \in Address
          /\ store' = [store EXCEPT ![Subject[rec[r].env]] = Written(rec[r])]
          /\ issued' = issued \cup {rec[r].token}
      BY <3>1, <1>a, PutEffect
    <3>3. store'[Subject[rec[r].env]] = Written(rec[r])
      BY <3>2 DEF StoreTypeOK
    <3>4. QED
      BY <1>a, <3>1, <3>2, <3>3, WrittenFields DEF Durable
  <2>3. ASSUME NEW out \in PutOutcome, DeliverPut(r, out), Tells(r)'
        PROVE  Durable(rec[r])'
    BY <2>3, <1>a, <1>c DEF DeliverPut, Answer, Tells
  <2>4. CASE ViewRow(r) \/ LookupFails(r)
    BY <2>4, <1>a DEF ViewRow, LookupFails, LookupPc, Answer, Tells
  <2>5. CASE PageRead(r) \/ ConfirmReread(r)
    <3>1. PICK a \in Address : /\ GetByToken(r, a) /\ rec'[r] = store[a]
                               /\ store' = store /\ issued' = issued
      BY <2>5 DEF PageRead, ConfirmReread, ByToken, storeVars
    <3>2. QED
      BY <1>b, <3>1, LookupFound
  <2>6. ASSUME ConfirmRead(r), Tells(r)'
        PROVE  Durable(rec[r])'
    <3>1. PICK a \in Address : /\ GetByToken(r, a) /\ rec'[r] = store[a]
                               /\ store' = store /\ issued' = issued
      BY <2>6, <1>a DEF ConfirmRead, ByToken, storeVars, Goto, Answer, Tells
    <3>2. QED
      BY <1>b, <3>1, LookupFound
  <2>7. ASSUME NEW accept \in BOOLEAN, Confirmation(r, accept)
        PROVE  ~Tells(r)'
    BY <2>7, <1>a DEF Confirmation, Goto, Answer, Tells
  <2>8. CASE CounterSignFails(r)
    BY <2>8, <1>a, <1>c, FailedFields DEF CounterSignFails, Tells
  <2>9. ASSUME NEW out \in BOOLEAN, NEW err \in BOOLEAN, MailSend(r, out, err)
        PROVE  ~Tells(r)'
    BY <2>9, <1>a, MailSendEffect DEF Tells
  <2>10. ASSUME NEW got \in BOOLEAN, NEW err \in BOOLEAN, DeliverSend(r, got, err)
        PROVE  Durable(rec[r])'
    BY <2>10, <1>a, <1>c, DeliverSendEffect DEF Tells
  <2>11. QED
    BY <1>3, <2>1, <2>2, <2>3, <2>4, <2>5, <2>6, <2>7, <2>8, <2>9, <2>10
       DEF Step, NoRecordYet
<1>4. QED
  BY <1>1, <1>2, <1>3

LEMMA DurableStep ==
  StoreInv /\ StoreInv' /\ AnswerInv /\ DurableInv /\ [Next]_vars => DurableInv'
<1> SUFFICES ASSUME StoreInv, StoreInv', AnswerInv, DurableInv, [Next]_vars
             PROVE  DurableInv'
  OBVIOUS
<1>1. ASSUME NEW r \in Request, Arrive(r) \/ Step(r) \/ Crash(r) PROVE DurableInv'
  <2>1. ASSUME NEW q \in Request \ {r}, Tells(q)' PROVE Durable(rec[q])'
    <3>1. Tells(q) /\ rec'[q] = rec[q]
      BY <1>1, <2>1, OthersFrame DEF StoreInv, Tells
    <3>2. Durable(rec[q])
      BY <3>1 DEF DurableInv
    <3>3. QED
      BY <1>1, <3>1, <3>2, DurableKept DEF Durable
  <2>2. QED
    BY <1>1, <2>1, DurableOwn DEF DurableInv
<1>2. ASSUME UNCHANGED <<store, issued, pc, rec, resp>> PROVE DurableInv'
  BY <1>2 DEF DurableInv, Durable, Tells
<1>3. QED
  BY <1>1, <1>2 DEF Next, Expire, localVars, storeVars, vars

(* DurableOnceSeen holds in every reachable state, with either lookup.      *)
THEOREM AttestationIsDurable == Spec => []DurableOnceSeen
<1>1. Init => DurableInv
  BY DEF Init, DurableInv, Tells
<1>2. DurableInv => DurableOnceSeen
  BY DEF DurableInv, Durable, Tells, DurableOnceSeen
<1>3. QED
  BY <1>1, <1>2, AnswerInvariant, DurableStep, PTL DEF Spec

-----------------------------------------------------------------------------
(* Nothing is delivered unattested, when the lookup is one step.            *)

(* What a request's step does to a record keeps it covered.                 *)
LEMMA CoveredCopies ==
  ASSUME NEW v \in Verification, Covered(v)
  PROVE  /\ Covered(Written(v))
         /\ v.token \in attested => Covered(Confirmed(v)) /\ Covered(Failed(v))
<1>1. Covered(Written(v))
  BY WrittenFields DEF Covered
<1>2. v.token \in attested => Covered(Confirmed(v))
  BY ConfirmedFields DEF Covered
<1>3. v.token \in attested => Covered(Failed(v))
  BY FailedFields DEF Covered
<1>4. QED
  BY <1>1, <1>2, <1>3

(* The copy of the request that moves stays covered.                        *)
LEMMA CoveredOwn ==
  ASSUME AtomicLookup, StoreInv, AttestInv, NEW r \in Request,
         Arrive(r) \/ Step(r) \/ Crash(r)
  PROVE  Covered(rec'[r])
<1> USE DEF StoreInv, TypeInv, TypeOK
<1>a. /\ rec[r] \in Verification /\ AttestedFor(r) /\ Covered(rec[r])
      /\ \A a \in Address : store[a] \in Verification /\ Covered(store[a])
  BY DEF AttestInv, AttestedFor, StoreTypeOK
<1>1. CASE rec'[r] \in {rec[r], Blank, Written(rec[r])}
  <2>1. Covered(Blank)
    BY DEF Covered, Blank
  <2>2. QED
    BY <1>a, <1>1, <2>1, CoveredCopies
<1>2. CASE rec'[r] = Failed(rec[r]) /\ pc[r] = "deliver"
  BY <1>a, <1>2, CoveredCopies DEF AttestedFor
<1>3. CASE \E a \in Address : rec'[r] = store[a]
  BY <1>a, <1>3
<1>4. CASE \E a \in Address :
             rec'[r] = Confirmed(store[a]) /\ pc[r] = "confirm" /\ GetByToken(r, a)
  <2>1. PICK a \in Address :
          /\ rec'[r] = Confirmed(store[a])
          /\ store[a].token \in attested
    BY <1>a, <1>4 DEF AttestedFor, GetByToken, HasToken
  <2>2. QED
    BY <1>a, <2>1, CoveredCopies
<1>5. CASE \E e \in Envelope, t \in Token :
             rec'[r] = NewVerification(e, t, store[Subject[e]])
  BY <1>5 DEF Covered, NewVerification, Blank
<1>6. CASE \E out, err \in BOOLEAN : MailSend(r, out, err)
  BY <1>a, <1>6, MailSendEffect DEF Covered
<1>7. CASE \E got, err \in BOOLEAN : DeliverSend(r, got, err)
  BY <1>a, <1>7, DeliverSendEffect DEF Covered, AttestedFor
<1>8. QED
  BY <1>1, <1>2, <1>3, <1>4, <1>5, <1>6, <1>7, CopyStep

(* The links of confirm requests: mailed, and accepted once past the form.  *)
LEMMA LinkOwn ==
  ASSUME AtomicLookup, StoreInv, AttestInv, NEW r \in Request,
         Arrive(r) \/ Step(r) \/ Crash(r)
  PROVE  /\ pc'[r] \in {"confirmPut", "deliver"} => rec'[r].token \in attested'
         /\ pc'[r] \in {"confirm", "confirmPut", "reread"} => link'[r] \in attested'
         /\ pc'[r] \in LinkPc => link'[r] \in mailbox'
<1> USE DEF StoreInv, TypeInv, TypeOK
<1>a. /\ AttestedFor(r) /\ attested \subseteq attested' /\ mailbox \subseteq mailbox'
      /\ rec[r] \in Verification
      /\ \A a \in Address : store[a] \in Verification /\ Covered(store[a])
  BY StoreStep DEF AttestInv, Grows, StoreTypeOK
<1>b. \A a \in Address : GetByToken(r, a) => Exists(a) /\ store[a].token = link[r]
  BY DEF GetByToken, HasToken
<1>1. CASE Arrive(r)
  <2>1. CASE ReceiveRejected(r) \/ \E e \in Envelope : Receive(r, e)
    BY <2>1 DEF ReceiveRejected, Receive, Begin, Goto, Answer, LinkPc, LookupPc
  <2>2. CASE \E t \in Token : \/ OpenLink(r, t, "page", "page")
                             \/ OpenLink(r, t, "submit", "confirmation")
    BY <2>2, <1>a DEF OpenLink, Begin, Goto, LinkPc, LookupPc
  <2>3. CASE \E a \in Address : Redeliver(r, a)
    BY <2>3, <1>a DEF Redeliver, Goto, Answer, Get, Covered, LinkPc, LookupPc
  <2>4. QED
    BY <1>1, <2>1, <2>2, <2>3 DEF Arrive
<1>2. CASE Crash(r)
  BY <1>2 DEF Crash, Answer, LinkPc, LookupPc
<1>3. CASE Step(r)
  <2>1. CASE \E out \in PutOutcome : UpsertPut(r, out) \/ MailPut(r, out) \/ DeliverPut(r, out)
    BY <2>1 DEF UpsertPut, MailPut, DeliverPut, Goto, Answer, LinkPc, LookupPc
  <2>2. CASE \E out \in PutOutcome : ConfirmPut(r, out)
    <3>1. pc[r] = "confirmPut" /\ link' = link
      BY <2>2 DEF ConfirmPut
    <3>2. pc'[r] = "deliver" => rec'[r] = Written(rec[r])
      BY <2>2 DEF ConfirmPut, Goto, Answer
    <3>3. pc'[r] # "confirmPut"
      BY <2>2 DEF ConfirmPut, Goto, Answer
    <3>4. QED
      BY <3>1, <3>2, <3>3, <1>a, WrittenFields DEF AttestedFor, LinkPc
  <2>3. CASE ViewRow(r) \/ LookupFails(r) \/ PageRead(r)
    BY <2>3, <1>a DEF ViewRow, LookupFails, PageRead, Answer, LinkPc, LookupPc
  <2>4. ASSUME NEW accept \in BOOLEAN, Confirmation(r, accept)
        PROVE  pc'[r] = "confirm" => link[r] \in attested'
    <3>1. PICK a \in Address :
            /\ GetByToken(r, a)
            /\ pc'[r] = "confirm" =>
                  \/ link[r] \in attested'
                  \/ store[a].status # "pending"
      BY <2>4 DEF Confirmation, ByToken, Answer, Goto
    <3>2. store[a].status # "none" /\ store[a].status \in Status
      BY <3>1, <1>a, <1>b DEF WellFormed, StoredForm, Verification
    <3>3. store[a].status # "pending" => link[r] \in attested
      BY <3>1, <3>2, <1>a, <1>b DEF Covered, Status
    <3>4. QED
      BY <3>1, <3>3, <1>a
  <2>5. CASE \E accept \in BOOLEAN : Confirmation(r, accept)
    BY <2>4, <2>5, <1>a
       DEF Confirmation, Goto, Answer, AttestedFor, LinkPc, LookupPc
  <2>6. CASE ConfirmRead(r) \/ ConfirmReread(r)
    <3>1. pc[r] \in {"confirm", "reread"} /\ link' = link
      BY <2>6 DEF ConfirmRead, ConfirmReread
    <3>2. PICK a \in Address :
            GetByToken(r, a) /\ rec'[r] \in {store[a], Confirmed(store[a])}
      BY <2>6 DEF ConfirmRead, ConfirmReread, ByToken
    <3>3. rec'[r].token = link[r]
      <4>1. Confirmed(store[a]).token = store[a].token
        BY <1>a, ConfirmedFields
      <4>2. QED
        BY <3>2, <4>1, <1>b
    <3>4. QED
      BY <3>1, <3>3, <1>a DEF AttestedFor, LinkPc, LookupPc
  <2>7. CASE \/ \E out, err \in BOOLEAN : MailSend(r, out, err)
             \/ \E got, err \in BOOLEAN : DeliverSend(r, got, err)
    <3>1. pc'[r] \in {"mailPut", "deliverPut"}
      BY <2>7, MailSendEffect, DeliverSendEffect
    <3>2. QED
      BY <3>1 DEF LinkPc, LookupPc
  <2>8. CASE CounterSignFails(r)
    BY <2>8 DEF CounterSignFails, Goto, LinkPc, LookupPc
  <2>9. QED
    BY <1>3, <2>1, <2>2, <2>3, <2>5, <2>6, <2>7, <2>8 DEF Step, NoRecordYet
<1>4. QED
  BY <1>1, <1>2, <1>3

(* The authority receives only what was attested.                           *)
LEMMA RegistryOwn ==
  ASSUME StoreInv, AttestInv, NEW r \in Request, Arrive(r) \/ Step(r) \/ Crash(r)
  PROVE  registry' \subseteq attested'
<1> USE DEF StoreInv, TypeInv, TypeOK
<1>1. registry \subseteq attested' /\ attested \subseteq attested'
  BY StoreStep DEF AttestInv, Grows
<1>2. CASE \E got, err \in BOOLEAN : DeliverSend(r, got, err)
  <2>1. rec[r].token \in attested
    BY <1>2 DEF DeliverSend, AttestInv, AttestedFor
  <2>2. QED
    BY <1>1, <1>2, <2>1 DEF DeliverSend
<1>3. CASE ~\E got, err \in BOOLEAN : DeliverSend(r, got, err)
  <2>1. registry' = registry
    BY <1>3
       DEF Arrive, ReceiveRejected, Receive, OpenLink, Redeliver, Crash, Step, NoRecordYet,
                UpsertPut, MailSend, MailPut, ViewRow, LookupFails, PageRead,
                Confirmation, ConfirmRead, ConfirmPut, ConfirmReread,
                CounterSignFails, DeliverPut, envVars
  <2>2. QED
    BY <1>1, <2>1
<1>4. QED
  BY <1>2, <1>3

LEMMA AttestStep ==
  ASSUME AtomicLookup
  PROVE  StoreInv /\ AttestInv /\ [Next]_vars => AttestInv'
<1> SUFFICES ASSUME StoreInv, AttestInv, [Next]_vars PROVE AttestInv'
  OBVIOUS
<1>1. ASSUME NEW r \in Request, Arrive(r) \/ Step(r) \/ Crash(r) PROVE AttestInv'
  <2>1. /\ attested \subseteq attested' /\ mailbox \subseteq mailbox'
        /\ store \in [Address -> Verification] /\ rec[r] \in Verification
    BY <1>1, StoreStep DEF StoreInv, TypeInv, TypeOK, StoreTypeOK, Grows
  <2>2. \A a \in Address : Covered(store'[a])
    <3>1. Covered(Written(rec[r])) /\ \A a \in Address : Covered(store[a])
      BY <2>1, CoveredCopies DEF AttestInv, AttestedFor
    <3>2. QED
      BY <1>1, <2>1, <3>1, StoreStep DEF StoreInv
  <2>3. \A q \in Request \ {r} : AttestedFor(q)'
    BY <1>1, <2>1, OthersFrame DEF AttestInv, AttestedFor, Covered, StoreInv
  <2>4. AttestedFor(r)'
    BY <1>1, <2>1, CoveredOwn, LinkOwn DEF AttestedFor, Covered
  <2>5. QED
    BY <1>1, <2>1, <2>2, <2>3, <2>4, RegistryOwn DEF AttestInv, Covered
<1>2. ASSUME UNCHANGED <<store, pc, rec, link, attested, registry, mailbox>>
      PROVE  AttestInv'
  BY <1>2 DEF AttestInv, AttestedFor, Covered
<1>3. QED
  BY <1>1, <1>2 DEF Next, Expire, localVars, storeVars, vars

LEMMA AttestInvariant ==
  ASSUME AtomicLookup
  PROVE  Spec => [](StoreInv /\ AttestInv)
<1>1. Init => AttestInv
  BY
     DEF Init, StoreInit, AttestInv, AttestedFor, Covered, Blank, LinkPc,
         LookupPc
<1>2. QED
  BY <1>1, StoreInvariant, AttestStep, PTL DEF Spec

(* AttestedBeforeDelivery holds in every reachable state, if the lookup by  *)
(* token is one step.                                                       *)
THEOREM NothingUnattested ==
  ASSUME AtomicLookup
  PROVE  Spec => []AttestedBeforeDelivery
<1>1. AttestInv => AttestedBeforeDelivery
  BY DEF AttestInv, Covered, AttestedBeforeDelivery
<1>2. QED
  BY <1>1, AttestInvariant, PTL

-----------------------------------------------------------------------------
(* The service implements the promise, when the lookup is one step.         *)

(* A request's write either starts a submission under a new token or leaves *)
(* every live token as it was.                                              *)
LEMMA LiveStep ==
  ASSUME StoreInv, NEW r \in Request, Arrive(r) \/ Step(r) \/ Crash(r)
  PROVE  \/ /\ issued' = issued
            /\ \A a \in Address : store'[a].token = store[a].token
         \/ /\ pc[r] = "upsertPut"
            /\ \E b \in Address, t \in Token :
                 /\ t \notin issued /\ issued' = issued \cup {t}
                 /\ \A a \in Address : store'[a].token = IF a = b THEN t ELSE store[a].token
<1> USE DEF StoreInv, TypeInv, TypeOK
<1>a. rec[r] \in Verification /\ StoreTypeOK
  OBVIOUS
<1>1. CASE store' = store /\ issued' = issued
  BY <1>1
<1>2. CASE /\ pc[r] \in PutPc
           /\ rec[r].token \in Token
           /\ Subject[rec[r].env] \in Address
           /\ rec[r].rev = store[Subject[rec[r].env]].rev
           /\ store' = [store EXCEPT ![Subject[rec[r].env]] = Written(rec[r])]
           /\ issued' = issued \cup {rec[r].token}
  <2>1. /\ Written(rec[r]).token = rec[r].token
        /\ \A a \in Address : store'[a].token =
             IF a = Subject[rec[r].env] THEN rec[r].token ELSE store[a].token
    BY <1>a, <1>2, WrittenFields DEF StoreTypeOK
  <2>2. CASE pc[r] = "upsertPut"
    BY <1>2, <2>1, <2>2 DEF FenceInv, Unwritten
  <2>3. CASE pc[r] # "upsertPut"
    <3>1. /\ rec[r].token \in issued
          /\ rec[r].token = store[Subject[rec[r].env]].token
      BY <1>2, <2>3 DEF FenceInv, Fenced, AtLeast, PutPc, HeldPc
    <3>2. QED
      BY <1>2, <2>1, <3>1
  <2>4. QED
    BY <2>2, <2>3
<1>3. QED
  BY <1>1, <1>2, StoreStep

(* RefinesAttestation: requests that interleave, race, crash and lose their *)
(* answers do nothing the promise does not allow, if the lookup by token is *)
(* one step.                                                                *)
THEOREM ImplementsPromise ==
  ASSUME AtomicLookup
  PROVE  Spec => RefinesAttestation
<1> DEFINE lives == [a \in Address |-> store[a].token]
<1>1. Init => Promise!Init
  BY DEF Init, StoreInit, Promise!Init, Blank
<1>2. ASSUME StoreInv, AttestInv, [Next]_vars PROVE [Promise!Next]_(Promise!vars)
  <2> USE <1>2 DEF StoreInv, TypeInv, TypeOK
  <2>1. ASSUME NEW r \in Request, Arrive(r) \/ Step(r) \/ Crash(r)
        PROVE  [Promise!Next]_(Promise!vars)
    <3>1. CASE lives' = lives /\ UNCHANGED <<issued, mailbox, attested, registry>>
      BY <3>1 DEF Promise!vars
    <3>2. CASE \E out \in PutOutcome :
                 \/ UpsertPut(r, out) \/ MailPut(r, out)
                 \/ ConfirmPut(r, out) \/ DeliverPut(r, out)
      <4>1. UNCHANGED <<mailbox, attested, registry>>
        BY <3>2 DEF UpsertPut, MailPut, ConfirmPut, DeliverPut, envVars
      <4>2. CASE issued' = issued /\ \A a \in Address : store'[a].token = store[a].token
        BY <3>1, <4>1, <4>2
      <4>3. CASE \E b \in Address, t \in Token :
                   /\ t \notin issued /\ issued' = issued \cup {t}
                   /\ \A a \in Address : store'[a].token =
                        IF a = b THEN t ELSE store[a].token
        <5>1. PICK b \in Address, t \in Token :
                /\ t \notin issued /\ issued' = issued \cup {t}
                /\ \A a \in Address : store'[a].token =
                     IF a = b THEN t ELSE store[a].token
          BY <4>3
        <5>2. lives' = [lives EXCEPT ![b] = t]
          BY <5>1
        <5>3. Promise!Submit(b, t)
          BY <4>1, <5>1, <5>2 DEF Promise!Submit
        <5>4. QED
          BY <5>3 DEF Promise!Next
      <4>4. QED
        BY <2>1, <4>2, <4>3, LiveStep
    <3>3. ASSUME NEW out \in BOOLEAN, NEW err \in BOOLEAN, MailSend(r, out, err)
          PROVE  [Promise!Next]_(Promise!vars)
      <4>1. /\ lives' = lives /\ UNCHANGED <<issued, attested, registry>>
            /\ mailbox' \in {mailbox, mailbox \cup {rec[r].token}}
        BY <3>3 DEF MailSend, storeVars
      <4>2. rec[r].token \in issued /\ rec[r].token \in Token
        BY <3>3
           DEF MailSend, FenceInv, Fenced, WellFormed, CopyForm, WorkPc,
               HeldPc
      <4>3. CASE mailbox' = mailbox \cup {rec[r].token}
        <5>1. Promise!Mail(rec[r].token)
          BY <4>1, <4>2, <4>3 DEF Promise!Mail
        <5>2. QED
          BY <4>2, <5>1 DEF Promise!Next
      <4>4. QED
        BY <3>1, <4>1, <4>3
    <3>4. ASSUME NEW accept \in BOOLEAN, Confirmation(r, accept)
          PROVE  [Promise!Next]_(Promise!vars)
      <4>1. PICK a \in Address :
              /\ HasToken(a, link[r])
              /\ attested' \in {attested, attested \cup {link[r]}}
        BY <3>4 DEF Confirmation, ByToken, GetByToken
      <4>2. lives' = lives /\ UNCHANGED <<issued, mailbox, registry>>
        BY <3>4 DEF Confirmation, storeVars
      <4>3. link[r] \in mailbox /\ lives[a] = link[r]
        BY <3>4, <4>1
           DEF Confirmation, AttestInv, AttestedFor, LinkPc, LookupPc,
               HasToken
      <4>4. CASE attested' = attested \cup {link[r]}
        <5>1. Promise!Attest(a)
          BY <4>2, <4>3, <4>4 DEF Promise!Attest
        <5>2. QED
          BY <5>1 DEF Promise!Next
      <4>5. QED
        BY <3>1, <4>1, <4>2, <4>4
    <3>5. ASSUME NEW got \in BOOLEAN, NEW err \in BOOLEAN, DeliverSend(r, got, err)
          PROVE  [Promise!Next]_(Promise!vars)
      <4>1. /\ lives' = lives /\ UNCHANGED <<issued, mailbox, attested>>
            /\ registry' \in {registry, registry \cup {rec[r].token}}
        BY <3>5 DEF DeliverSend, storeVars
      <4>2. rec[r].token \in attested /\ rec[r].token \in Token
        BY <3>5 DEF DeliverSend, AttestInv, AttestedFor
      <4>3. CASE registry' = registry \cup {rec[r].token}
        <5>1. Promise!Deliver(rec[r].token)
          BY <4>1, <4>2, <4>3 DEF Promise!Deliver
        <5>2. QED
          BY <4>2, <5>1 DEF Promise!Next
      <4>4. QED
        BY <3>1, <4>1, <4>3
    <3>6. CASE Arrive(r) \/ Crash(r)
      <4>1. UNCHANGED <<store, issued, mailbox, attested, registry>>
        BY <3>6
           DEF Arrive, ReceiveRejected, Receive, OpenLink, Redeliver, Crash,
                    storeVars, envVars
      <4>2. QED
        BY <3>1, <4>1
    <3>7. CASE \/ ViewRow(r) \/ LookupFails(r) \/ PageRead(r) \/ ConfirmRead(r)
               \/ ConfirmReread(r) \/ CounterSignFails(r)
      <4>1. UNCHANGED <<store, issued, mailbox, attested, registry>>
        BY <3>7 DEF ViewRow, LookupFails, PageRead, ConfirmRead, ConfirmReread,
                    CounterSignFails, storeVars, envVars
      <4>2. QED
        BY <3>1, <4>1
    <3>8. QED
      BY <2>1, <3>2, <3>3, <3>4, <3>5, <3>6, <3>7 DEF Step, NoRecordYet
  <2>2. CASE \E t \in Token : Expire(t)
    BY <2>2 DEF Expire, storeVars, Promise!vars
  <2>3. CASE UNCHANGED vars
    BY <2>3 DEF vars, Promise!vars
  <2>4. QED
    BY <2>1, <2>2, <2>3 DEF Next
<1>3. QED
  BY <1>1, <1>2, AttestInvariant, PTL DEF Spec, RefinesAttestation, Promise!Spec

-----------------------------------------------------------------------------
(* No request goes round in circles.                                        *)

(* The calls a request has before it, at most: a lookup makes one more as   *)
(* long as it has no row.                                                   *)
CallsLeft(r) ==
  LET lookup == IF row[r] = NoRow THEN 1 ELSE 0 IN
  CASE pc[r] \in {"idle", "done"} -> 0
    [] pc[r] \in {"mailPut", "deliverPut"} -> 1
    [] pc[r] \in {"mail", "deliver"} -> 2
    [] pc[r] = "upsertPut" -> 3
    [] pc[r] = "page" -> 1 + lookup
    [] pc[r] = "reread" -> 3 + lookup
    [] pc[r] = "confirmPut" -> 5
    [] pc[r] = "confirm" -> 6 + lookup
    [] pc[r] = "confirmation" -> 8 + lookup

(* Whatever the stores, the mailer and the authority answer and whoever     *)
(* wins the races, each call brings a request nearer to its answer, and no  *)
(* step of another sends it back: a lost race is followed by one more read  *)
(* and never by a second write of the attestation (Confirm).                *)
StepsEnd ==
  [][\A r \in Request :
       /\ Step(r) => CallsLeft(r)' < CallsLeft(r)
       /\ CallsLeft(r)' > CallsLeft(r) => pc[r] = "idle"]_vars

LEMMA CallsLeftType ==
  ASSUME TypeOK, NEW r \in Request
  PROVE  CallsLeft(r) \in 0..9
<1>1. pc[r] \in Pc
  BY DEF TypeOK
<1>2. QED
  BY <1>1 DEF CallsLeft, Pc, LookupPc, PutPc

LEMMA RowFrame ==
  ASSUME TypeOK, NEW r \in Request, NEW q \in Request \ {r},
         Arrive(r) \/ Step(r) \/ Crash(r)
  PROVE  row'[q] = row[q]
<1> USE DEF TypeOK
<1>1. CASE Arrive(r) \/ Crash(r)
  BY <1>1 DEF Arrive, ReceiveRejected, Receive, OpenLink, Redeliver, Crash
<1>2. CASE Step(r)
  <2>1. CASE \E out \in PutOutcome : \/ UpsertPut(r, out) \/ MailPut(r, out)
                                     \/ ConfirmPut(r, out) \/ DeliverPut(r, out)
    BY <2>1 DEF UpsertPut, MailPut, ConfirmPut, DeliverPut
  <2>2. CASE ViewRow(r) \/ LookupFails(r) \/ PageRead(r) \/ CounterSignFails(r)
    BY <2>2 DEF ViewRow, LookupFails, PageRead, ByToken, CounterSignFails
  <2>3. CASE \E accept \in BOOLEAN : Confirmation(r, accept)
    BY <2>3 DEF Confirmation, ByToken
  <2>4. CASE ConfirmRead(r) \/ ConfirmReread(r)
    BY <2>4 DEF ConfirmRead, ConfirmReread, ByToken
  <2>5. CASE \E out, err \in BOOLEAN : MailSend(r, out, err) \/ DeliverSend(r, out, err)
    BY <2>5 DEF MailSend, DeliverSend
  <2>6. QED
    BY <1>2, <2>1, <2>2, <2>3, <2>4, <2>5 DEF Step, NoRecordYet
<1>3. QED
  BY <1>1, <1>2

(* Where one call leads.                                                    *)
LEMMA CallLeads ==
  ASSUME TypeOK, NEW r \in Request, Step(r)
  PROVE  \/ pc[r] = "upsertPut" /\ pc'[r] \in {"mail", "done"}
         \/ pc[r] = "mail" /\ pc'[r] = "mailPut"
         \/ pc[r] \in {"mailPut", "deliverPut"} /\ pc'[r] = "done"
         \/ /\ pc[r] \in LookupPc /\ pc'[r] = pc[r]
            /\ row[r] = NoRow /\ row'[r] # NoRow
         \/ pc[r] \in LookupPc /\ pc'[r] = "done"
         \/ pc[r] = "confirmation" /\ pc'[r] = "confirm"
         \/ pc[r] = "confirm" /\ pc'[r] \in {"confirmPut", "deliver"}
         \/ pc[r] = "confirmPut" /\ pc'[r] \in {"deliver", "reread", "done"}
         \/ pc[r] = "reread" /\ pc'[r] = "deliver"
         \/ pc[r] = "deliver" /\ pc'[r] = "deliverPut"
<1> USE DEF TypeOK, Goto, Answer
<1>1. CASE \E out \in PutOutcome : UpsertPut(r, out) \/ MailPut(r, out)
  BY <1>1 DEF UpsertPut, MailPut
<1>2. CASE \E out \in PutOutcome : ConfirmPut(r, out) \/ DeliverPut(r, out)
  BY <1>2 DEF ConfirmPut, DeliverPut
<1>3. CASE ViewRow(r)
  BY <1>3, NoRowAssumption DEF ViewRow
<1>4. CASE LookupFails(r)
  BY <1>4 DEF LookupFails
<1>5. CASE PageRead(r)
  BY <1>5 DEF PageRead, LookupPc
<1>6. CASE \E accept \in BOOLEAN : Confirmation(r, accept)
  BY <1>6 DEF Confirmation, LookupPc
<1>7. CASE ConfirmRead(r) \/ ConfirmReread(r)
  BY <1>7 DEF ConfirmRead, ConfirmReread, LookupPc
<1>8. CASE CounterSignFails(r)
  BY <1>8 DEF CounterSignFails
<1>9. CASE \E out, err \in BOOLEAN : MailSend(r, out, err) \/ DeliverSend(r, out, err)
  BY <1>9 DEF MailSend, DeliverSend
<1>10. QED
  BY <1>1, <1>2, <1>3, <1>4, <1>5, <1>6, <1>7, <1>8, <1>9 DEF Step, NoRecordYet

LEMMA StepShortens ==
  ASSUME TypeOK, NEW r \in Request, Step(r)
  PROVE  CallsLeft(r)' < CallsLeft(r)
  BY CallLeads DEF CallsLeft, LookupPc

(* StepsEnd holds of every step, with either lookup.                        *)
THEOREM NoRequestLoops == Spec => StepsEnd
<1> DEFINE Ends == \A r \in Request :
              /\ Step(r) => CallsLeft(r)' < CallsLeft(r)
              /\ CallsLeft(r)' > CallsLeft(r) => pc[r] = "idle"
<1>1. TypeInv /\ TypeInv' /\ [Next]_vars => [Ends]_vars
  <2> SUFFICES ASSUME TypeInv, TypeInv', Next PROVE Ends
    OBVIOUS
  <2>1. \A r \in Request : CallsLeft(r) \in 0..9 /\ CallsLeft(r)' \in 0..9
    BY CallsLeftType DEF TypeInv, CallsLeft, TypeOK, Pc, LookupPc, PutPc
  <2>2. ASSUME NEW r \in Request, Step(r) PROVE CallsLeft(r)' < CallsLeft(r)
    BY <2>2, StepShortens DEF TypeInv
  <2>3. ASSUME NEW r \in Request, pc[r] # "idle"
        PROVE  ~(CallsLeft(r)' > CallsLeft(r))
    <3>1. ASSUME pc'[r] = pc[r], row'[r] = row[r]
          PROVE  CallsLeft(r)' = CallsLeft(r)
      BY <3>1 DEF CallsLeft
    <3>2. ASSUME NEW q \in Request \ {r}, Arrive(q) \/ Step(q) \/ Crash(q)
          PROVE  pc'[r] = pc[r] /\ row'[r] = row[r]
      BY <3>2, OthersFrame, RowFrame DEF TypeInv
    <3>3. CASE Arrive(r)
      BY <2>3, <3>3 DEF Arrive, ReceiveRejected, Receive, OpenLink, Redeliver, Begin
    <3>4. CASE Crash(r)
      <4>1. CallsLeft(r)' = 0
        BY <3>4 DEF Crash, Answer, CallsLeft, TypeInv, TypeOK
      <4>2. QED
        BY <2>1, <4>1
    <3>5. CASE Step(r)
      BY <2>1, <2>2, <3>5
    <3>6. CASE \E t \in Token : Expire(t)
      <4>1. pc'[r] = pc[r] /\ row'[r] = row[r]
        BY <3>6 DEF Expire, localVars
      <4>2. QED
        BY <2>1, <3>1, <4>1
    <3>7. QED
      BY <2>1, <3>1, <3>2, <3>3, <3>4, <3>5, <3>6 DEF Next
  <2>4. QED
    BY <2>2, <2>3
<1>2. QED
  BY <1>1, TypeInit, TypeStep, PTL DEF Spec, StepsEnd
=============================================================================

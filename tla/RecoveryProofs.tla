--------------------------- MODULE RecoveryProofs ---------------------------
(***************************************************************************)
(* With lookups that are one step, Verifications implements Recovery: seen *)
(* from any submission, whatever a request does is a move of one worker,   *)
(* the end of the submission, or nothing.  So what the run of Recovery     *)
(* shows about those who try again is said of these handlers.              *)
(***************************************************************************)
EXTENDS VerificationsProofs

(* What the view needs besides the fence: a token is in one document at     *)
(* most, upsert writes a pending record, a confirmation works on the        *)
(* submission of its link, and one that lost its write is behind.           *)
OneDocumentPerToken ==
  \A a, b \in Address :
    (Exists(a) /\ Exists(b) /\ store[a].token = store[b].token) => a = b

ConfirmingFor(r) ==
  /\ pc[r] = "upsertPut" => rec[r].status = "pending" /\ ~rec[r].confirmed
  /\ pc[r] \in {"confirmPut", "reread"} => rec[r].token = link[r]
  /\ pc[r] = "reread" => /\ rec[r].env \in Envelope
                         /\ rec[r].rev < store[Subject[rec[r].env]].rev
                         /\ rec[r].token \in issued

RetryInv ==
  /\ OneDocumentPerToken
  /\ \A r \in Request : ConfirmingFor(r)

-----------------------------------------------------------------------------
(* The invariant.                                                           *)

(* A request's write leaves every token in one document.                    *)
LEMMA TokensApart ==
  ASSUME StoreInv, OneDocumentPerToken, NEW r \in Request,
         Arrive(r) \/ Step(r) \/ Crash(r)
  PROVE  OneDocumentPerToken'
<1> USE DEF StoreInv, TypeInv, TypeOK, StoreTypeOK
<1>a. \A a \in Address : StoredForm(a)
  BY DEF WellFormed
<1>1. CASE store' = store
  BY <1>1 DEF OneDocumentPerToken, Exists
<1>2. CASE /\ pc[r] \in PutPc
           /\ Subject[rec[r].env] \in Address
           /\ rec[r].rev = store[Subject[rec[r].env]].rev
           /\ store' = [store EXCEPT ![Subject[rec[r].env]] = Written(rec[r])]
  <2> DEFINE b == Subject[rec[r].env]
  <2>1. store'[b].token = rec[r].token
    BY <1>2, WrittenFields
  <2>2. \A a \in Address : a # b => store'[a] = store[a]
    BY <1>2
  <2>3. ASSUME NEW a \in Address, a # b, Exists(a)
        PROVE  store[a].token # rec[r].token
    <3>1. CASE pc[r] = "upsertPut"
      BY <1>a, <2>3, <3>1 DEF StoredForm, FenceInv, Unwritten
    <3>2. CASE pc[r] # "upsertPut"
      <4>1. rec[r].rev # 0 /\ AtLeast(rec[r], store[b])
        BY <1>2, <3>2 DEF FenceInv, Fenced, PutPc, HeldPc
      <4>2. Exists(b) /\ store[b].token = rec[r].token
        BY <1>2, <4>1 DEF Exists, AtLeast
      <4>3. QED
        BY <1>2, <2>3, <4>2 DEF OneDocumentPerToken
    <3>3. QED
      BY <3>1, <3>2
  <2>4. SUFFICES ASSUME NEW a \in Address, NEW c \in Address, a # c,
                        Exists(a)', Exists(c)', store'[a].token = store'[c].token
                 PROVE  FALSE
    BY DEF OneDocumentPerToken
  <2>5. CASE a = b
    BY <2>1, <2>2, <2>3, <2>4, <2>5 DEF Exists
  <2>6. CASE c = b
    BY <2>1, <2>2, <2>3, <2>4, <2>6 DEF Exists
  <2>7. CASE a # b /\ c # b
    BY <2>2, <2>4, <2>7 DEF Exists, OneDocumentPerToken
  <2>8. QED
    BY <2>5, <2>6, <2>7
<1>3. QED
  BY <1>1, <1>2, StoreStep

(* A request keeps its confirmation in order by its own steps.              *)
LEMMA ConfirmingOwn ==
  ASSUME AtomicLookup, StoreInv, NEW r \in Request, ConfirmingFor(r),
         Arrive(r) \/ Step(r) \/ Crash(r)
  PROVE  ConfirmingFor(r)'
<1> USE DEF StoreInv, TypeInv, TypeOK
<1>a. rec[r] \in Verification /\ StoreTypeOK /\ CopyForm(r) /\ Fenced(r)
  BY DEF WellFormed, FenceInv
<1>1. CASE \E e \in Envelope : Receive(r, e)
  <2>1. PICK e \in Envelope, t \in Token :
          /\ pc'[r] = "upsertPut"
          /\ rec'[r] = NewVerification(e, t, Get(Subject[e]))
    BY <1>1 DEF Receive, Begin, Goto
  <2>2. rec'[r].status = "pending" /\ rec'[r].confirmed = FALSE
    BY <2>1 DEF NewVerification, Blank
  <2>3. QED
    BY <2>1, <2>2 DEF ConfirmingFor
<1>2. CASE ConfirmRead(r)
  <2>1. PICK a \in Address :
          /\ GetByToken(r, a) /\ link' = link
          /\ \/ pc'[r] \in {"done", "deliver"}
             \/ pc'[r] = "confirmPut" /\ rec'[r] = Confirmed(store[a])
    BY <1>2 DEF ConfirmRead, ByToken, Answer, Goto
  <2>2. store[a] \in Verification /\ store[a].token = link[r]
    BY <2>1, <1>a DEF GetByToken, HasToken, StoreTypeOK
  <2>3. QED
    BY <2>1, <2>2, ConfirmedFields DEF ConfirmingFor
<1>3. CASE \E out \in PutOutcome : ConfirmPut(r, out)
  <2>1. PICK out \in PutOutcome : ConfirmPut(r, out)
    BY <1>3
  <2>2. CASE out = "conflict"
    <3>1. /\ pc[r] = "confirmPut" /\ pc'[r] = "reread"
          /\ rec' = rec /\ link' = link
          /\ Put(rec[r], "conflict")
      BY <2>1, <2>2 DEF ConfirmPut, Goto
    <3>2. store' = store /\ issued' = issued
          /\ rec[r].rev # store[Subject[rec[r].env]].rev
      BY <3>1 DEF Put, Applied, storeVars
    <3>3. /\ rec[r].env \in Envelope
          /\ rec[r].rev <= store[Subject[rec[r].env]].rev
          /\ rec[r].token \in issued
      BY <1>a, <3>1 DEF CopyForm, WorkPc, HeldPc, Fenced
    <3>4. store[Subject[rec[r].env]].rev \in Nat /\ rec[r].rev \in Nat
      BY <1>a, <3>3, SubjectAssumption DEF StoreTypeOK, Verification
    <3>5. QED
      BY <3>1, <3>2, <3>3, <3>4 DEF ConfirmingFor
  <2>3. CASE out # "conflict"
    <3>1. pc'[r] \in {"deliver", "done"}
      BY <2>1, <2>3 DEF ConfirmPut, Goto, Answer
    <3>2. QED
      BY <3>1 DEF ConfirmingFor
  <2>4. QED
    BY <2>2, <2>3
<1>4. CASE ViewRow(r)
  BY <1>4 DEF ViewRow
<1>5. CASE /\ ~\E e \in Envelope : Receive(r, e)
           /\ ~ConfirmRead(r) /\ ~ViewRow(r)
           /\ ~\E out \in PutOutcome : ConfirmPut(r, out)
  <2>1. pc'[r] \notin {"upsertPut", "confirmPut", "reread"}
    <3>1. CASE Arrive(r)
      BY <1>5, <3>1 DEF Arrive, ReceiveRejected, OpenLink, Redeliver, Begin, Goto, Answer
    <3>2. CASE Crash(r)
      BY <3>2 DEF Crash, Answer
    <3>3. CASE Step(r)
      BY <1>5, <3>3 DEF Step, NoRecordYet, UpsertPut, MailSend, MailPut,
           LookupFails, PageRead, Confirmation, ConfirmReread, CounterSignFails,
           DeliverSend, DeliverPut, Goto, Answer
    <3>4. QED
      BY <3>1, <3>2, <3>3
  <2>2. QED
    BY <2>1 DEF ConfirmingFor
<1>6. QED
  BY <1>1, <1>2, <1>3, <1>4, <1>5

LEMMA RetryStep ==
  ASSUME AtomicLookup
  PROVE  StoreInv /\ RetryInv /\ [Next]_vars => RetryInv'
<1> SUFFICES ASSUME StoreInv, RetryInv, [Next]_vars PROVE RetryInv'
  OBVIOUS
<1>1. ASSUME NEW r \in Request, Arrive(r) \/ Step(r) \/ Crash(r) PROVE RetryInv'
  <2>1. ASSUME NEW q \in Request \ {r} PROVE ConfirmingFor(q)'
    <3>1. pc'[q] = pc[q] /\ rec'[q] = rec[q] /\ link'[q] = link[q]
      BY <1>1, OthersFrame DEF StoreInv
    <3>2. RevMoves
      BY <1>1, RevStep DEF StoreInv
    <3>3. ConfirmingFor(q)
      BY DEF RetryInv
    <3>4. CASE pc[q] = "reread"
      <4> DEFINE a == Subject[rec[q].env]
      <4>1. rec[q].env \in Envelope /\ a \in Address
            /\ rec[q].rev < store[a].rev /\ rec[q].token \in issued
        BY <3>3, <3>4, SubjectAssumption DEF ConfirmingFor
      <4>2. rec[q].rev \in Nat /\ store[a].rev \in Nat /\ store'[a].rev \in Nat
        BY <1>1, <4>1, TypeStep
           DEF StoreInv, TypeInv, TypeOK, StoreTypeOK, Verification
      <4>3. rec[q].rev < store'[a].rev
        BY <3>2, <4>1, <4>2 DEF RevMoves
      <4>4. QED
        BY <3>1, <3>2, <3>3, <3>4, <4>1, <4>3 DEF ConfirmingFor, RevMoves
    <3>5. CASE pc[q] # "reread"
      BY <3>1, <3>3, <3>5 DEF ConfirmingFor
    <3>6. QED
      BY <3>4, <3>5
  <2>2. QED
    BY <1>1, <2>1, TokensApart, ConfirmingOwn DEF RetryInv
<1>2. CASE UNCHANGED <<store, issued, pc, rec, link>>
  BY <1>2 DEF RetryInv, OneDocumentPerToken, Exists, ConfirmingFor
<1>3. QED
  BY <1>1, <1>2 DEF Next, Expire, localVars, storeVars, vars

LEMMA RetryInvariant ==
  ASSUME AtomicLookup
  PROVE  Spec => [](StoreInv /\ RetryInv)
<1>1. Init => RetryInv
  BY DEF Init, StoreInit, Blank, RetryInv, OneDocumentPerToken, Exists, ConfirmingFor
<1>2. QED
  BY <1>1, RetryStep, StoreInvariant, PTL DEF Spec

-----------------------------------------------------------------------------
(* How a submission is seen before and after a step.                        *)

(* The document a token is in is the one Recovery speaks of.                *)
LEMMA RecordAt ==
  ASSUME NEW t \in Token, NEW a \in Address
  PROVE  /\ OneDocumentPerToken /\ HasToken(a, t) =>
              LifeOf(t) = "live" /\ RecordOf(t) = Facts(store[a])
         /\ (OneDocumentPerToken /\ HasToken(a, t))' =>
              LifeOf(t)' = "live" /\ RecordOf(t)' = Facts(store'[a])
<1>1. ASSUME OneDocumentPerToken, HasToken(a, t)
      PROVE  LifeOf(t) = "live" /\ RecordOf(t) = Facts(store[a])
  <2> DEFINE c == CHOOSE x \in Address : HasToken(x, t)
  <2>1. Live(t)
    BY <1>1 DEF Live
  <2>2. c \in Address /\ HasToken(c, t)
    BY <1>1
  <2>3. c = a
    BY <1>1, <2>2 DEF OneDocumentPerToken, HasToken
  <2>4. QED
    BY <2>1, <2>3 DEF LifeOf, RecordOf
<1>2. ASSUME OneDocumentPerToken', HasToken(a, t)'
      PROVE  LifeOf(t)' = "live" /\ RecordOf(t)' = Facts(store'[a])
  <2> USE DEF HasToken, Exists
  <2> DEFINE c == CHOOSE x \in Address : store'[x].rev # 0 /\ store'[x].token = t
  <2>1. Live(t)'
    BY <1>2 DEF Live
  <2>2. c \in Address /\ store'[c].rev # 0 /\ store'[c].token = t
    BY <1>2
  <2>3. c = a
    BY <1>2, <2>2 DEF OneDocumentPerToken
  <2>4. QED
    BY <2>1, <2>3 DEF LifeOf, RecordOf, Facts
<1>3. QED
  BY <1>1, <1>2

(* A document that keeps its token and its facts keeps the view of them.    *)
LEMMA RecordKept ==
  ASSUME OneDocumentPerToken, OneDocumentPerToken', issued' = issued,
         NEW t \in Token,
         \A a \in Address : HasToken(a, t)' <=> HasToken(a, t),
         \A a \in Address : HasToken(a, t) => Facts(store[a])' = Facts(store[a])
  PROVE  LifeOf(t)' = LifeOf(t) /\ RecordOf(t)' = RecordOf(t)
<1>1. CASE Live(t)
  <2>1. PICK a \in Address : HasToken(a, t)
    BY <1>1 DEF Live
  <2>2. HasToken(a, t)' /\ Facts(store[a])' = Facts(store[a])
    BY <2>1
  <2>3. QED
    BY <2>1, <2>2, RecordAt DEF Facts
<1>2. CASE ~Live(t)
  <2>1. ~Live(t)'
    BY <1>2 DEF Live
  <2>2. QED
    BY <1>2, <2>1 DEF LifeOf, RecordOf
<1>3. QED
  BY <1>1, <1>2

(* A step moves one worker of a submission at most.                         *)
LEMMA WorkerMoves ==
  ASSUME TypeInv, NEW r \in Request, NEW t \in Token,
         Arrive(r) \/ Step(r) \/ Crash(r)
  PROVE  /\ WorkingOn(t, r)' =>
              /\ PhaseOf(t)' = [PhaseOf(t) EXCEPT ![r] = pc'[r]]
              /\ CopyOf(t)' = [CopyOf(t) EXCEPT ![r] = Facts(rec'[r])]
         /\ ~WorkingOn(t, r)' =>
              /\ PhaseOf(t)' = [PhaseOf(t) EXCEPT ![r] = "idle"]
              /\ CopyOf(t)' = [CopyOf(t) EXCEPT ![r] = Nothing]
<1>1. \A q \in Request \ {r} : pc'[q] = pc[q] /\ rec'[q] = rec[q]
  BY OthersFrame
<1>2. \A q \in Request \ {r} :
        /\ WorkingOn(t, q)' <=> WorkingOn(t, q)
        /\ PhaseOf(t)'[q] = PhaseOf(t)[q]
        /\ CopyOf(t)'[q] = CopyOf(t)[q]
  BY <1>1 DEF WorkingOn, PhaseOf, CopyOf, Facts
<1>3. /\ PhaseOf(t)' = [PhaseOf(t) EXCEPT ![r] = PhaseOf(t)'[r]]
      /\ CopyOf(t)' = [CopyOf(t) EXCEPT ![r] = CopyOf(t)'[r]]
  BY <1>2 DEF PhaseOf, CopyOf
<1>4. /\ WorkingOn(t, r)' =>
           PhaseOf(t)'[r] = pc'[r] /\ CopyOf(t)'[r] = Facts(rec'[r])
      /\ ~WorkingOn(t, r)' =>
           PhaseOf(t)'[r] = "idle" /\ CopyOf(t)'[r] = Nothing
  BY DEF PhaseOf, CopyOf, Facts
<1>5. QED
  BY <1>3, <1>4

(* Without a write, only the worker that moves gets or loses a current copy.*)
LEMMA CurrentMoves ==
  ASSUME TypeInv, NEW r \in Request, NEW t \in Token,
         Arrive(r) \/ Step(r) \/ Crash(r), store' = store
  PROVE  /\ WorkingOn(t, r)' /\ rec'[r].rev = store[Subject[rec'[r].env]].rev =>
              CurrentOf(t)' = CurrentOf(t) \cup {r}
         /\ ~(WorkingOn(t, r)' /\ rec'[r].rev = store[Subject[rec'[r].env]].rev) =>
              CurrentOf(t)' = CurrentOf(t) \ {r}
<1>1. \A q \in Request \ {r} : q \in CurrentOf(t)' <=> q \in CurrentOf(t)
  BY OthersFrame DEF WorkingOn, CurrentOf
<1>2. r \in CurrentOf(t)' <=>
        WorkingOn(t, r)' /\ rec'[r].rev = store[Subject[rec'[r].env]].rev
  BY DEF CurrentOf
<1>3. CurrentOf(t) \subseteq Request /\ CurrentOf(t)' \subseteq Request
  BY DEF CurrentOf
<1>4. QED
  BY <1>1, <1>2, <1>3

(* A current copy is one of the live record.                                *)
LEMMA CurrentLive ==
  ASSUME StoreInv, RetryInv, NEW t \in Token, NEW q \in CurrentOf(t)
  PROVE  /\ pc[q] \in HeldPc
         /\ Subject[rec[q].env] \in Address
         /\ HasToken(Subject[rec[q].env], t)
<1> USE DEF StoreInv, TypeInv, TypeOK
<1>1. q \in Request /\ WorkingOn(t, q)
      /\ rec[q].rev = store[Subject[rec[q].env]].rev
  BY DEF CurrentOf
<1>2. CASE pc[q] = "reread"
  <2>1. rec[q].env \in Envelope
        /\ rec[q].rev < store[Subject[rec[q].env]].rev
    BY <1>1, <1>2 DEF RetryInv, ConfirmingFor
  <2>2. rec[q].rev \in Nat
    BY <1>1 DEF Verification
  <2>3. QED
    BY <1>1, <2>1, <2>2
<1>3. CASE pc[q] # "reread"
  <2>1. pc[q] \in HeldPc
    BY <1>1, <1>3 DEF WorkingOn, HeldPc
  <2>2. rec[q].env \in Envelope /\ rec[q].rev # 0 /\ AtLeast(rec[q], store[Subject[rec[q].env]])
    BY <1>1, <2>1 DEF FenceInv, Fenced, WellFormed, CopyForm, WorkPc
  <2>3. QED
    BY <1>1, <2>1, <2>2, SubjectAssumption DEF AtLeast, HasToken, Exists, WorkingOn
<1>4. QED
  BY <1>2, <1>3

(* A write leaves no other copy of its document current, and touches no     *)
(* copy of another one.                                                     *)
LEMMA CurrentWrites ==
  ASSUME StoreInv, RetryInv, NEW r \in Request, NEW t \in Token,
         Arrive(r) \/ Step(r) \/ Crash(r),
         Subject[rec[r].env] \in Address,
         rec[r].rev = store[Subject[rec[r].env]].rev,
         store' = [store EXCEPT ![Subject[rec[r].env]] = Written(rec[r])],
         NEW q \in Request \ {r}
  PROVE  q \in CurrentOf(t)' <=>
           q \in CurrentOf(t) /\ ~HasToken(Subject[rec[r].env], t)
<1> USE DEF StoreInv, TypeInv, TypeOK
<1> DEFINE b == Subject[rec[r].env]
           c == Subject[rec[q].env]
<1>1. pc'[q] = pc[q] /\ rec'[q] = rec[q] /\ (WorkingOn(t, q)' <=> WorkingOn(t, q))
  BY OthersFrame DEF WorkingOn
<1>2. store'[b].rev = store[b].rev + 1 /\ store[b].rev \in Nat
  BY WrittenFields DEF StoreTypeOK, Verification
<1>3. \A a \in Address : a # b => store'[a] = store[a]
  BY DEF StoreTypeOK
<1>4. CASE WorkingOn(t, q)
  <2>1. rec[q].env \in Envelope /\ c \in Address
        /\ rec[q].rev \in Nat /\ rec[q].rev <= store[c].rev
    <3>1. CASE pc[q] = "reread"
      <4>1. rec[q].env \in Envelope /\ rec[q].rev < store[c].rev
        BY <3>1 DEF RetryInv, ConfirmingFor
      <4>2. c \in Address /\ rec[q].rev \in Nat /\ store[c].rev \in Nat
        BY <4>1, SubjectAssumption DEF StoreTypeOK, Verification
      <4>3. QED
        BY <4>1, <4>2
    <3>2. CASE pc[q] # "reread"
      <4>1. pc[q] \in HeldPc
        BY <1>4, <3>2 DEF WorkingOn, HeldPc
      <4>2. rec[q].env \in Envelope /\ rec[q].rev <= store[c].rev
        BY <4>1 DEF FenceInv, Fenced, WellFormed, CopyForm, WorkPc
      <4>3. c \in Address /\ rec[q].rev \in Nat
        BY <4>2, SubjectAssumption DEF Verification
      <4>4. QED
        BY <4>2, <4>3
    <3>3. QED
      BY <3>1, <3>2
  <2>2. CASE c = b
    <3>1. q \notin CurrentOf(t)'
      BY <1>1, <1>2, <2>1, <2>2 DEF CurrentOf
    <3>2. q \in CurrentOf(t) => HasToken(b, t)
      BY <2>2, CurrentLive
    <3>3. QED
      BY <3>1, <3>2
  <2>3. CASE c # b
    <3>1. q \in CurrentOf(t)' <=> q \in CurrentOf(t)
      BY <1>1, <1>3, <2>1, <2>3 DEF CurrentOf
    <3>2. q \in CurrentOf(t) => HasToken(c, t)
      BY CurrentLive
    <3>3. HasToken(c, t) => ~HasToken(b, t)
      BY <2>1, <2>3 DEF RetryInv, OneDocumentPerToken, HasToken
    <3>4. QED
      BY <3>1, <3>2, <3>3
  <2>4. QED
    BY <2>2, <2>3
<1>5. CASE ~WorkingOn(t, q)
  BY <1>1, <1>5 DEF CurrentOf
<1>6. QED
  BY <1>4, <1>5

(* Without a write, the record is seen as before.                           *)
LEMMA RecordStays ==
  ASSUME RetryInv, RetryInv', NEW t \in Token, store' = store, issued' = issued
  PROVE  LifeOf(t)' = LifeOf(t) /\ RecordOf(t)' = RecordOf(t)
<1>1. /\ OneDocumentPerToken /\ OneDocumentPerToken'
      /\ \A a \in Address : HasToken(a, t)' <=> HasToken(a, t)
      /\ \A a \in Address : Facts(store[a])' = Facts(store[a])
  BY DEF RetryInv, HasToken, Exists, Facts
<1>2. QED
  BY <1>1, RecordKept

(* What is seen of the environment.                                         *)
SameEnv(t) == expired' = expired /\ (t \in registry' <=> t \in registry)

(* One who works on something else before and after a step is no worker.    *)
LEMMA StaysAway ==
  ASSUME TypeInv, NEW r \in Request, NEW t \in Token,
         Arrive(r) \/ Step(r) \/ Crash(r),
         ~WorkingOn(t, r), ~WorkingOn(t, r)'
  PROVE  /\ PhaseOf(t)' = PhaseOf(t) /\ CopyOf(t)' = CopyOf(t)
         /\ r \notin CurrentOf(t) /\ r \notin CurrentOf(t)'
<1>1. /\ PhaseOf(t) = [PhaseOf(t) EXCEPT ![r] = "idle"]
      /\ CopyOf(t) = [CopyOf(t) EXCEPT ![r] = Nothing]
  BY DEF PhaseOf, CopyOf
<1>2. /\ PhaseOf(t)' = [PhaseOf(t) EXCEPT ![r] = "idle"]
      /\ CopyOf(t)' = [CopyOf(t) EXCEPT ![r] = Nothing]
  BY WorkerMoves
<1>3. r \notin CurrentOf(t) /\ r \notin CurrentOf(t)'
  BY DEF CurrentOf
<1>4. QED
  BY <1>1, <1>2, <1>3

(* A step that only concerns others.                                        *)
LEMMA Stands ==
  ASSUME StoreInv, RetryInv, RetryInv', NEW r \in Request, NEW t \in Token,
         Arrive(r) \/ Step(r) \/ Crash(r), SameEnv(t),
         store' = store, issued' = issued,
         ~WorkingOn(t, r), ~WorkingOn(t, r)'
  PROVE  UNCHANGED Retrying(t)!vars
<1>1. PhaseOf(t)' = PhaseOf(t) /\ CopyOf(t)' = CopyOf(t)
  BY StaysAway DEF StoreInv
<1>2. CurrentOf(t)' = CurrentOf(t)
  <2>1. r \notin CurrentOf(t) /\ CurrentOf(t)' = CurrentOf(t) \ {r}
    BY CurrentMoves DEF StoreInv, CurrentOf
  <2>2. QED
    BY <2>1
<1>3. LifeOf(t)' = LifeOf(t) /\ RecordOf(t)' = RecordOf(t)
  BY RecordStays
<1>4. QED
  BY <1>1, <1>2, <1>3 DEF SameEnv, Retrying!vars

(* A write of another submission, under another address's document or in    *)
(* place of none of this one's.                                             *)
LEMMA OthersWrite ==
  ASSUME StoreInv, RetryInv, RetryInv', NEW r \in Request, NEW t \in Token,
         Arrive(r) \/ Step(r) \/ Crash(r), SameEnv(t),
         Subject[rec[r].env] \in Address,
         rec[r].rev = store[Subject[rec[r].env]].rev,
         store' = [store EXCEPT ![Subject[rec[r].env]] = Written(rec[r])],
         issued' = issued \cup {rec[r].token},
         rec[r].token # t, ~HasToken(Subject[rec[r].env], t),
         ~WorkingOn(t, r), ~WorkingOn(t, r)'
  PROVE  UNCHANGED Retrying(t)!vars
<1> DEFINE b == Subject[rec[r].env]
<1>a. /\ TypeInv /\ rec[r] \in Verification
      /\ store \in [Address -> Verification]
  BY DEF StoreInv, TypeInv, TypeOK, StoreTypeOK
<1>1. PhaseOf(t)' = PhaseOf(t) /\ CopyOf(t)' = CopyOf(t)
  BY <1>a, StaysAway
<1>2. CurrentOf(t)' = CurrentOf(t)
  <2>1. \A q \in Request \ {r} : q \in CurrentOf(t)' <=> q \in CurrentOf(t)
    BY CurrentWrites
  <2>2. r \notin CurrentOf(t) /\ r \notin CurrentOf(t)'
    BY <1>a, StaysAway
  <2>3. CurrentOf(t) \subseteq Request /\ CurrentOf(t)' \subseteq Request
    BY DEF CurrentOf
  <2>4. QED
    BY <2>1, <2>2, <2>3
<1>3. LifeOf(t)' = LifeOf(t) /\ RecordOf(t)' = RecordOf(t)
  <2>1. store'[b].token = rec[r].token /\ \A a \in Address : a # b => store'[a] = store[a]
    BY <1>a, WrittenFields
  <2>2. \A a \in Address : HasToken(a, t)' <=> HasToken(a, t)
    BY <2>1 DEF HasToken, Exists
  <2>3. CASE Live(t)
    <3>1. PICK a \in Address : HasToken(a, t)
      BY <2>3 DEF Live
    <3>2. HasToken(a, t)' /\ store'[a] = store[a]
      BY <2>1, <2>2, <3>1
    <3>3. QED
      BY <3>1, <3>2, RecordAt DEF RetryInv
  <2>4. CASE ~Live(t)
    <3>1. ~Live(t)' /\ (t \in issued' <=> t \in issued)
      BY <2>2, <2>4 DEF Live
    <3>2. QED
      BY <2>4, <3>1 DEF LifeOf, RecordOf
  <2>5. QED
    BY <2>3, <2>4
<1>4. QED
  BY <1>1, <1>2, <1>3 DEF SameEnv, Retrying!vars

(* A write of the live record by one who works on it.                       *)
LEMMA OwnWrite ==
  ASSUME StoreInv, RetryInv, RetryInv', NEW r \in Request, NEW t \in Token,
         Arrive(r) \/ Step(r) \/ Crash(r),
         pc[r] \in {"mailPut", "confirmPut", "deliverPut"}, rec[r].token = t,
         Subject[rec[r].env] \in Address,
         rec[r].rev = store[Subject[rec[r].env]].rev,
         store' = [store EXCEPT ![Subject[rec[r].env]] = Written(rec[r])],
         issued' = issued \cup {rec[r].token}
  PROVE  /\ r \in CurrentOf(t) /\ LifeOf(t)' = LifeOf(t)
         /\ RecordOf(t)' = CopyOf(t)[r] /\ CopyOf(t)[r] = Facts(rec[r])
         /\ \A q \in Request \ {r} : q \notin CurrentOf(t)'
         /\ HasToken(Subject[rec[r].env], t)
<1>b. PICK b \in Address : b = Subject[rec[r].env]
  OBVIOUS
<1>a. /\ TypeInv /\ rec[r] \in Verification
      /\ store \in [Address -> Verification]
  BY DEF StoreInv, TypeInv, TypeOK, StoreTypeOK
<1>1. WorkingOn(t, r) /\ r \in CurrentOf(t) /\ CopyOf(t)[r] = Facts(rec[r])
  BY DEF WorkingOn, CurrentOf, CopyOf
<1>2. HasToken(b, t)
  BY <1>1, <1>b, CurrentLive
<1>3. /\ store'[b].token = rec[r].token /\ store'[b].rev = rec[r].rev + 1
      /\ store'[b].status = rec[r].status /\ store'[b].confirmed = rec[r].confirmed
  BY <1>a, <1>b, WrittenFields
<1>4. HasToken(b, t)'
  <2>1. rec[r].rev \in Nat
    BY <1>a DEF Verification
  <2>2. QED
    BY <1>3, <2>1 DEF HasToken, Exists
<1>5. \A q \in Request \ {r} : q \notin CurrentOf(t)'
  BY <1>2, <1>b, CurrentWrites
<1>6. LifeOf(t)' = LifeOf(t) /\ RecordOf(t)' = Facts(store'[b])
  <2>1. OneDocumentPerToken /\ OneDocumentPerToken'
    BY DEF RetryInv
  <2>2. QED
    BY <1>2, <1>4, <2>1, RecordAt
<1>7. Facts(store'[b]) = Facts(rec[r])
  BY <1>3 DEF Facts
<1>8. QED
  BY <1>1, <1>b, <1>2, <1>5, <1>6, <1>7

-----------------------------------------------------------------------------
(* The moves of a worker.                                                   *)

(* A call that ends without a write.                                        *)
LEMMA Leaves ==
  ASSUME StoreInv, RetryInv, RetryInv', NEW r \in Request, NEW t \in Token,
         Arrive(r) \/ Step(r) \/ Crash(r), store' = store, issued' = issued,
         ~WorkingOn(t, r)'
  PROVE  /\ Retrying(t)!Leave(r)
         /\ LifeOf(t)' = LifeOf(t) /\ RecordOf(t)' = RecordOf(t)
<1>1. /\ PhaseOf(t)' = [PhaseOf(t) EXCEPT ![r] = "idle"]
      /\ CopyOf(t)' = [CopyOf(t) EXCEPT ![r] = Nothing]
  BY WorkerMoves DEF StoreInv
<1>2. CurrentOf(t)' = CurrentOf(t) \ {r}
  BY CurrentMoves DEF StoreInv
<1>3. Retrying(t)!Leave(r)
  BY <1>1, <1>2 DEF Retrying!Leave, Retrying!Pending, Nothing
<1>4. QED
  BY <1>3, RecordStays

(* A call that goes on to the next with the copy's revision.                *)
LEMMA GoesOn ==
  ASSUME StoreInv, RetryInv, RetryInv', NEW r \in Request, NEW t \in Token,
         Arrive(r) \/ Step(r) \/ Crash(r), store' = store, issued' = issued,
         WorkingOn(t, r), WorkingOn(t, r)',
         rec'[r].rev = rec[r].rev, rec'[r].env = rec[r].env
  PROVE  /\ Retrying(t)!Take(r, Facts(rec'[r]), pc'[r])
         /\ CurrentOf(t)' = CurrentOf(t)
         /\ LifeOf(t)' = LifeOf(t) /\ RecordOf(t)' = RecordOf(t)
<1>1. /\ PhaseOf(t)' = [PhaseOf(t) EXCEPT ![r] = pc'[r]]
      /\ CopyOf(t)' = [CopyOf(t) EXCEPT ![r] = Facts(rec'[r])]
  BY WorkerMoves DEF StoreInv
<1>2. CurrentOf(t)' = CurrentOf(t)
  <2>1. r \in CurrentOf(t) <=> rec[r].rev = store[Subject[rec[r].env]].rev
    BY DEF CurrentOf
  <2>2. CASE r \in CurrentOf(t)
    <3>1. CurrentOf(t)' = CurrentOf(t) \cup {r}
      BY <2>1, <2>2, CurrentMoves DEF StoreInv
    <3>2. QED
      BY <2>2, <3>1
  <2>3. CASE r \notin CurrentOf(t)
    <3>1. CurrentOf(t)' = CurrentOf(t) \ {r}
      BY <2>1, <2>3, CurrentMoves DEF StoreInv
    <3>2. QED
      BY <2>3, <3>1
  <2>4. QED
    BY <2>2, <2>3
<1>3. Retrying(t)!Take(r, Facts(rec'[r]), pc'[r])
  BY <1>1 DEF Retrying!Take
<1>4. QED
  BY <1>2, <1>3, RecordStays

(* A read of the live record.                                               *)
LEMMA Reads ==
  ASSUME StoreInv, RetryInv, RetryInv', NEW r \in Request, NEW t \in Token,
         Arrive(r) \/ Step(r) \/ Crash(r), store' = store, issued' = issued,
         NEW a \in Address, HasToken(a, t), WorkingOn(t, r)',
         rec'[r].rev = store[a].rev, rec'[r].env = store[a].env
  PROVE  /\ Retrying(t)!Read(r, Facts(rec'[r]), pc'[r])
         /\ LifeOf(t) = "live" /\ RecordOf(t) = Facts(store[a])
         /\ LifeOf(t)' = LifeOf(t) /\ RecordOf(t)' = RecordOf(t)
<1>1. /\ PhaseOf(t)' = [PhaseOf(t) EXCEPT ![r] = pc'[r]]
      /\ CopyOf(t)' = [CopyOf(t) EXCEPT ![r] = Facts(rec'[r])]
  BY WorkerMoves DEF StoreInv
<1>2. Subject[store[a].env] = a
  BY DEF StoreInv, TypeInv, WellFormed, StoredForm, HasToken
<1>3. CurrentOf(t)' = CurrentOf(t) \cup {r}
  BY <1>2, CurrentMoves DEF StoreInv
<1>4. Retrying(t)!Read(r, Facts(rec'[r]), pc'[r])
  BY <1>1, <1>3 DEF Retrying!Read, Retrying!Take
<1>5. LifeOf(t) = "live" /\ RecordOf(t) = Facts(store[a])
  BY RecordAt DEF RetryInv
<1>6. QED
  BY <1>4, <1>5, RecordStays

(* What a worker of t is seen with.                                         *)
LEMMA Seen ==
  ASSUME NEW t \in Token, NEW r \in Request
  PROVE  /\ WorkingOn(t, r) => PhaseOf(t)[r] = pc[r] /\ CopyOf(t)[r] = Facts(rec[r])
         /\ ~WorkingOn(t, r) => PhaseOf(t)[r] = "idle" /\ CopyOf(t)[r] = Nothing
BY DEF PhaseOf, CopyOf

(* Put as the last call of its handler, for every submission.               *)
LEMMA LastWrite ==
  ASSUME StoreInv, RetryInv, RetryInv', NEW r \in Request, NEW t \in Token,
         Arrive(r) \/ Step(r) \/ Crash(r), SameEnv(t),
         pc[r] \in {"mailPut", "confirmPut", "deliverPut"}, pc'[r] = "done",
         NEW out \in PutOutcome, Put(rec[r], out)
  PROVE  /\ rec[r].token # t => UNCHANGED Retrying(t)!vars
         /\ rec[r].token = t => /\ Retrying(t)!WriteAndLeave(r)
                                /\ LifeOf(t)' = LifeOf(t)
<1>a. /\ TypeInv /\ rec[r] \in Verification /\ StoreTypeOK
      /\ ~WorkingOn(t, r)' /\ (WorkingOn(t, r) <=> rec[r].token = t)
  BY DEF StoreInv, TypeInv, TypeOK, WorkingOn
<1>1. CASE store' = store /\ issued' = issued
  <2>1. CASE rec[r].token # t
    BY <1>a, <1>1, <2>1, Stands
  <2>2. CASE rec[r].token = t
    BY <1>a, <1>1, <2>2, Leaves DEF Retrying!WriteAndLeave
  <2>3. QED
    BY <2>1, <2>2
<1>2. CASE /\ Subject[rec[r].env] \in Address
           /\ rec[r].rev = store[Subject[rec[r].env]].rev
           /\ store' = [store EXCEPT ![Subject[rec[r].env]] = Written(rec[r])]
           /\ issued' = issued \cup {rec[r].token}
           /\ rec[r].token \in Token
  <2>1. CASE rec[r].token # t
    <3>1. HasToken(Subject[rec[r].env], rec[r].token)
      BY <1>2, OwnWrite
    <3>2. ~HasToken(Subject[rec[r].env], t)
      BY <2>1, <3>1 DEF HasToken
    <3>3. QED
      BY <1>a, <1>2, <2>1, <3>2, OthersWrite
  <2>2. CASE rec[r].token = t
    <3>1. /\ r \in CurrentOf(t) /\ LifeOf(t)' = LifeOf(t)
          /\ RecordOf(t)' = CopyOf(t)[r]
          /\ \A q \in Request \ {r} : q \notin CurrentOf(t)'
      BY <1>2, <2>2, OwnWrite
    <3>2. CurrentOf(t)' = {}
      BY <1>a, <3>1 DEF CurrentOf
    <3>3. /\ PhaseOf(t)' = [PhaseOf(t) EXCEPT ![r] = "idle"]
          /\ CopyOf(t)' = [CopyOf(t) EXCEPT ![r] = Nothing]
      BY <1>a, WorkerMoves
    <3>4. QED
      BY <2>2, <3>1, <3>2, <3>3
         DEF Retrying!WriteAndLeave, Retrying!Pending, Nothing
  <2>3. QED
    BY <2>1, <2>2
<1>3. QED
  BY <1>a, <1>1, <1>2, PutEffect

-----------------------------------------------------------------------------
(* Every step, seen from every submission.                                  *)

(* upsert's write starts one submission and may end another.                *)
LEMMA UpsertMaps ==
  ASSUME StoreInv, RetryInv, RetryInv', NEW r \in Request, NEW t \in Token,
         NEW out \in PutOutcome, UpsertPut(r, out)
  PROVE  [Retrying(t)!Next]_(Retrying(t)!vars)
<1>a. /\ TypeInv /\ rec[r] \in Verification /\ store \in [Address -> Verification]
      /\ rec \in [Request -> Verification] /\ pc \in [Request -> Pc]
      /\ resp \in [Request -> Resp]
  BY DEF StoreInv, TypeInv, TypeOK, StoreTypeOK
<1>b. /\ Arrive(r) \/ Step(r) \/ Crash(r)
      /\ SameEnv(t)
      /\ pc[r] = "upsertPut" /\ Put(rec[r], out)
      /\ ~WorkingOn(t, r)
  BY DEF UpsertPut, Step, SameEnv, envVars, WorkingOn
<1>c. /\ out = "ok" => pc'[r] = "mail" /\ rec'[r] = Written(rec[r])
      /\ out # "ok" => pc'[r] = "done"
  BY <1>a DEF UpsertPut, Goto, Answer
<1>d. /\ WorkingOn(t, r)' <=> out = "ok" /\ rec[r].token = t
      /\ StoreTypeOK
  BY <1>a, <1>c, WrittenFields DEF WorkingOn, TypeInv, TypeOK
<1>1. CASE store' = store /\ issued' = issued /\ out \in {"conflict", "error"}
  BY <1>1, <1>b, <1>d, Stands
<1>2. CASE /\ Subject[rec[r].env] \in Address
           /\ rec[r].rev = store[Subject[rec[r].env]].rev
           /\ store' = [store EXCEPT ![Subject[rec[r].env]] = Written(rec[r])]
           /\ issued' = issued \cup {rec[r].token}
           /\ rec[r].token \in Token
  <2>0. PICK b \in Address : b = Subject[rec[r].env]
    BY <1>2
  <2>1. /\ store'[b] = Written(rec[r])
        /\ \A a \in Address : a # b => store'[a] = store[a]
        /\ store'[b].token = rec[r].token /\ store'[b].rev = rec[r].rev + 1
        /\ store'[b].rev # 0
    <3>1. rec[r].rev \in Nat
      BY <1>a DEF Verification
    <3>2. QED
      BY <1>a, <1>2, <2>0, <3>1, WrittenFields
  <2>2. /\ rec[r].token \notin issued
        /\ \A a \in Address : ~HasToken(a, rec[r].token)
    BY <1>a, <1>b DEF StoreInv, FenceInv, Unwritten, TypeInv, WellFormed,
                      StoredForm, HasToken
  <2>3. CASE rec[r].token = t
    <3>1. LifeOf(t) = "new"
      BY <2>2, <2>3 DEF LifeOf, Live
    <3>2. PhaseOf(t)[r] = "idle"
      BY <1>b, Seen
    <3>3. LifeOf(t)' = "live" /\ RecordOf(t)' = Nothing
      <4>1. HasToken(b, t)' /\ OneDocumentPerToken'
        BY <2>1, <2>3 DEF HasToken, Exists, RetryInv
      <4>2. LifeOf(t)' = "live" /\ RecordOf(t)' = Facts(store'[b])
        BY <4>1, RecordAt
      <4>3. rec[r].status = "pending" /\ rec[r].confirmed = FALSE
        BY <1>a, <1>b DEF RetryInv, ConfirmingFor, Verification
      <4>4. Facts(store'[b]) = Nothing
        <5>1. store'[b].status = "pending" /\ store'[b].confirmed = FALSE
          BY <1>a, <2>1, <4>3, WrittenFields
        <5>2. QED
          BY <5>1 DEF Facts, Nothing
      <4>5. QED
        BY <4>2, <4>4
    <3>4. \A q \in Request \ {r} : q \notin CurrentOf(t)'
      <4>1. \A q \in Request \ {r} : q \notin CurrentOf(t)
        BY <2>2, <2>3, CurrentLive
      <4>2. QED
        BY <1>b, <1>2, <4>1, CurrentWrites
    <3>5. CASE out = "ok"
      <4>1. /\ WorkingOn(t, r)' /\ rec'[r] = Written(rec[r])
            /\ rec'[r].env = rec[r].env /\ pc'[r] = "mail"
        BY <1>a, <1>c, <1>d, <2>3, <3>5, WrittenFields
      <4>2. CurrentOf(t)' = {r}
        <5>1. r \in CurrentOf(t)'
          BY <2>0, <2>1, <4>1 DEF CurrentOf
        <5>2. CurrentOf(t)' \subseteq Request
          BY DEF CurrentOf
        <5>3. QED
          BY <3>4, <5>1, <5>2
      <4>3. Facts(rec'[r]) = Nothing
        <5>1. rec[r].status = "pending" /\ rec[r].confirmed = FALSE
          BY <1>a, <1>b DEF RetryInv, ConfirmingFor, Verification
        <5>2. rec'[r].status = "pending" /\ rec'[r].confirmed = FALSE
          BY <1>a, <4>1, <5>1, WrittenFields
        <5>3. QED
          BY <5>2 DEF Facts, Nothing
      <4>4. Retrying(t)!Take(r, Nothing, "mail")
        BY <1>a, <1>b, <4>1, <4>3, WorkerMoves DEF Retrying!Take
      <4>5. Retrying(t)!Submit(r)
        BY <1>b, <3>1, <3>2, <3>3, <4>2, <4>4
           DEF Retrying!Submit, Retrying!Pending, Nothing, SameEnv
      <4>6. QED
        BY <4>5 DEF Retrying!Next
    <3>6. CASE out # "ok"
      <4>1. ~WorkingOn(t, r)'
        BY <1>d, <3>6
      <4>2. /\ PhaseOf(t)' = PhaseOf(t) /\ CopyOf(t)' = CopyOf(t)
            /\ r \notin CurrentOf(t)'
        BY <1>a, <1>b, <4>1, StaysAway
      <4>3. CurrentOf(t)' = {}
        <5>1. CurrentOf(t)' \subseteq Request
          BY DEF CurrentOf
        <5>2. QED
          BY <3>4, <4>2, <5>1
      <4>4. Retrying(t)!Submit(r)
        BY <1>b, <3>1, <3>2, <3>3, <4>2, <4>3
           DEF Retrying!Submit, Retrying!Pending, Nothing, SameEnv
      <4>5. QED
        BY <4>4 DEF Retrying!Next
    <3>7. QED
      BY <3>5, <3>6
  <2>4. CASE rec[r].token # t /\ HasToken(b, t)
    <3>1. LifeOf(t) = "live"
      BY <2>4 DEF LifeOf, Live
    <3>2. \A a \in Address : ~HasToken(a, t)'
      <4>1. \A a \in Address : a # b => ~HasToken(a, t)
        BY <2>4 DEF RetryInv, OneDocumentPerToken, HasToken
      <4>2. QED
        BY <2>1, <2>4, <4>1 DEF HasToken, Exists
    <3>3. t \in issued'
      BY <1>a, <1>2, <2>4 DEF TypeInv, WellFormed, StoredForm, HasToken
    <3>4. LifeOf(t)' = "replaced" /\ RecordOf(t)' = Nothing
      BY <3>2, <3>3 DEF LifeOf, RecordOf, Live
    <3>5. /\ PhaseOf(t)' = PhaseOf(t) /\ CopyOf(t)' = CopyOf(t)
          /\ r \notin CurrentOf(t)'
      BY <1>a, <1>b, <1>d, <2>4, StaysAway
    <3>6. CurrentOf(t)' = {}
      <4>1. \A q \in Request \ {r} : q \notin CurrentOf(t)'
        BY <1>b, <1>2, <2>0, <2>4, CurrentWrites
      <4>2. CurrentOf(t)' \subseteq Request
        BY DEF CurrentOf
      <4>3. QED
        BY <3>5, <4>1, <4>2
    <3>7. Retrying(t)!Replace
      BY <1>b, <3>1, <3>4, <3>5, <3>6
         DEF Retrying!Replace, Retrying!Pending, Nothing, SameEnv
    <3>8. QED
      BY <3>7 DEF Retrying!Next
  <2>5. CASE rec[r].token # t /\ ~HasToken(b, t)
    BY <1>b, <1>d, <1>2, <2>0, <2>5, OthersWrite
  <2>6. QED
    BY <2>3, <2>4, <2>5
<1>3. QED
  BY <1>b, <1>d, <1>a, <1>1, <1>2, PutEffect

(* The email.                                                               *)
LEMMA MailMaps ==
  ASSUME StoreInv, RetryInv, RetryInv', NEW r \in Request, NEW t \in Token,
         \/ \E out \in BOOLEAN, err \in BOOLEAN : MailSend(r, out, err)
         \/ \E out \in PutOutcome : MailPut(r, out)
  PROVE  [Retrying(t)!Next]_(Retrying(t)!vars)
<1>a. /\ TypeInv /\ TypeOK /\ pc \in [Request -> Pc]
      /\ Arrive(r) \/ Step(r) \/ Crash(r)
  BY DEF StoreInv, TypeInv, TypeOK, Step
<1>1. ASSUME NEW out \in BOOLEAN, NEW err \in BOOLEAN, MailSend(r, out, err)
      PROVE  [Retrying(t)!Next]_(Retrying(t)!vars)
  <2>1. /\ pc[r] = "mail" /\ pc'[r] = "mailPut"
        /\ rec'[r].token = rec[r].token /\ rec'[r].env = rec[r].env
        /\ rec'[r].rev = rec[r].rev /\ Facts(rec'[r]) = Facts(rec[r])
    <3>1. rec \in [Request -> Verification]
      BY <1>a DEF TypeOK
    <3>2. QED
      BY <1>a, <1>1, <3>1, MailSendEffect DEF Facts
  <2>2. store' = store /\ issued' = issued /\ SameEnv(t)
    BY <1>1 DEF MailSend, storeVars, SameEnv
  <2>3. CASE rec[r].token = t
    <3>1. WorkingOn(t, r) /\ WorkingOn(t, r)'
      BY <2>1, <2>3 DEF WorkingOn
    <3>2. Retrying(t)!MailSend(r)
      BY <1>a, <2>1, <2>2, <3>1, GoesOn, Seen DEF Retrying!MailSend, SameEnv
    <3>3. QED
      BY <3>2 DEF Retrying!Next, Retrying!Work
  <2>4. CASE rec[r].token # t
    <3>1. ~WorkingOn(t, r) /\ ~WorkingOn(t, r)'
      BY <2>1, <2>4 DEF WorkingOn
    <3>2. QED
      BY <1>a, <2>2, <3>1, Stands
  <2>5. QED
    BY <2>3, <2>4
<1>2. ASSUME NEW out \in PutOutcome, MailPut(r, out)
      PROVE  [Retrying(t)!Next]_(Retrying(t)!vars)
  <2>1. /\ pc[r] = "mailPut" /\ pc'[r] = "done" /\ Put(rec[r], out) /\ SameEnv(t)
    BY <1>a, <1>2 DEF MailPut, Answer, SameEnv, envVars
  <2>2. CASE rec[r].token = t
    <3>1. WorkingOn(t, r)
      BY <2>1, <2>2 DEF WorkingOn
    <3>2. Retrying(t)!MailPut(r)
      BY <1>a, <2>1, <2>2, <3>1, LastWrite, Seen DEF Retrying!MailPut, SameEnv
    <3>3. QED
      BY <3>2 DEF Retrying!Next, Retrying!Work
  <2>3. CASE rec[r].token # t
    BY <1>a, <2>1, <2>3, LastWrite
  <2>4. QED
    BY <2>2, <2>3
<1>3. QED
  BY <1>1, <1>2

(* The attestation's write, which may lose its race.                        *)
LEMMA ConfirmPutMaps ==
  ASSUME StoreInv, RetryInv, RetryInv', NEW r \in Request, NEW t \in Token,
         NEW out \in PutOutcome, ConfirmPut(r, out)
  PROVE  [Retrying(t)!Next]_(Retrying(t)!vars)
<1>a. /\ TypeInv /\ StoreTypeOK /\ pc \in [Request -> Pc]
      /\ rec \in [Request -> Verification] /\ rec[r] \in Verification
      /\ Arrive(r) \/ Step(r) \/ Crash(r)
  BY DEF StoreInv, TypeInv, TypeOK, Step
<1>b. /\ pc[r] = "confirmPut" /\ Put(rec[r], out) /\ SameEnv(t)
      /\ WorkingOn(t, r) <=> rec[r].token = t
  BY DEF ConfirmPut, SameEnv, envVars, WorkingOn
<1>1. CASE out \in {"error", "lost"}
  <2>1. pc'[r] = "done"
    BY <1>a, <1>1 DEF ConfirmPut, Answer
  <2>2. CASE rec[r].token = t
    <3>1. Retrying(t)!ConfirmPut(r)
      BY <1>a, <1>b, <2>1, <2>2, LastWrite, Seen DEF Retrying!ConfirmPut, SameEnv
    <3>2. QED
      BY <3>1 DEF Retrying!Next, Retrying!Work
  <2>3. CASE rec[r].token # t
    BY <1>a, <1>b, <2>1, <2>3, LastWrite
  <2>4. QED
    BY <2>2, <2>3
<1>2. CASE out = "conflict"
  <2>1. /\ pc'[r] = "reread" /\ rec' = rec
        /\ store' = store /\ issued' = issued
        /\ rec[r].rev # store[Subject[rec[r].env]].rev
    BY <1>a, <1>2 DEF ConfirmPut, Goto, Put, Applied, storeVars
  <2>2. CASE rec[r].token = t
    <3>1. /\ WorkingOn(t, r) /\ WorkingOn(t, r)' /\ r \notin CurrentOf(t)
          /\ Facts(rec'[r]) = Facts(rec[r])
      BY <1>b, <2>1, <2>2 DEF WorkingOn, CurrentOf
    <3>2. Retrying(t)!Conflict(r, "reread") /\ LifeOf(t)' = LifeOf(t)
      BY <1>a, <2>1, <3>1, GoesOn, Seen DEF Retrying!Conflict
    <3>3. Retrying(t)!ConfirmPut(r)
      BY <1>b, <3>1, <3>2, Seen DEF Retrying!ConfirmPut, SameEnv
    <3>4. QED
      BY <3>3 DEF Retrying!Next, Retrying!Work
  <2>3. CASE rec[r].token # t
    <3>1. ~WorkingOn(t, r) /\ ~WorkingOn(t, r)'
      BY <2>1, <2>3 DEF WorkingOn
    <3>2. QED
      BY <1>a, <1>b, <2>1, <3>1, Stands
  <2>4. QED
    BY <2>2, <2>3
<1>3. CASE out = "ok"
  <2>1. pc'[r] = "deliver" /\ rec'[r] = Written(rec[r])
    BY <1>a, <1>3 DEF ConfirmPut, Goto
  <2>2. PICK b \in Address :
          /\ b = Subject[rec[r].env] /\ rec[r].rev = store[b].rev
          /\ store' = [store EXCEPT ![b] = Written(rec[r])]
          /\ issued' = issued \cup {rec[r].token}
          /\ rec[r].token \in Token
    BY <1>a, <1>b, <1>3, PutEffect
  <2>3. /\ rec'[r].token = rec[r].token /\ rec'[r].env = rec[r].env
        /\ Facts(rec'[r]) = Facts(rec[r])
    BY <1>a, <2>1, WrittenFields DEF Facts
  <2>4. HasToken(b, rec[r].token)
    BY <1>a, <1>b, <2>2, OwnWrite
  <2>5. CASE rec[r].token = t
    <3>1. /\ r \in CurrentOf(t) /\ LifeOf(t)' = LifeOf(t)
          /\ RecordOf(t)' = CopyOf(t)[r] /\ CopyOf(t)[r] = Facts(rec[r])
          /\ \A q \in Request \ {r} : q \notin CurrentOf(t)'
      BY <1>a, <1>b, <2>2, <2>5, OwnWrite
    <3>2. WorkingOn(t, r) /\ WorkingOn(t, r)'
      BY <1>b, <2>1, <2>3, <2>5 DEF WorkingOn
    <3>3. CurrentOf(t)' = {r}
      <4>1. store'[b] = rec'[r]
        BY <1>a, <2>1, <2>2 DEF StoreTypeOK
      <4>2. r \in CurrentOf(t)'
        BY <2>2, <2>3, <3>2, <4>1 DEF CurrentOf
      <4>3. CurrentOf(t)' \subseteq Request
        BY DEF CurrentOf
      <4>4. QED
        BY <3>1, <4>2, <4>3
    <3>4. Retrying(t)!Take(r, CopyOf(t)[r], "deliver")
      BY <1>a, <2>1, <2>3, <3>1, <3>2, WorkerMoves DEF Retrying!Take
    <3>5. Retrying(t)!Write(r, "deliver")
      BY <3>1, <3>3, <3>4 DEF Retrying!Write
    <3>6. Retrying(t)!ConfirmPut(r)
      BY <1>b, <3>1, <3>2, <3>5, Seen DEF Retrying!ConfirmPut, SameEnv
    <3>7. QED
      BY <3>6 DEF Retrying!Next, Retrying!Work
  <2>6. CASE rec[r].token # t
    <3>1. ~WorkingOn(t, r) /\ ~WorkingOn(t, r)' /\ ~HasToken(b, t)
      BY <2>3, <2>4, <2>6 DEF WorkingOn, HasToken
    <3>2. QED
      BY <1>a, <1>b, <2>2, <2>6, <3>1, OthersWrite
  <2>7. QED
    BY <2>5, <2>6
<1>4. QED
  BY <1>1, <1>2, <1>3 DEF PutOutcome

(* The clicks and the command: reads of the live record.                    *)
LEMMA ReadMaps ==
  ASSUME AtomicLookup, StoreInv, RetryInv, RetryInv',
         NEW r \in Request, NEW t \in Token,
         \/ ConfirmRead(r) \/ ConfirmReread(r)
         \/ \E a \in Address : Redeliver(r, a)
  PROVE  [Retrying(t)!Next]_(Retrying(t)!vars)
<1>a. /\ TypeInv /\ StoreTypeOK /\ pc \in [Request -> Pc]
      /\ rec \in [Request -> Verification]
      /\ store \in [Address -> Verification]
      /\ Arrive(r) \/ Step(r) \/ Crash(r)
  BY DEF StoreInv, TypeInv, TypeOK, StoreTypeOK, Step, Arrive
<1>b. store' = store /\ issued' = issued /\ SameEnv(t)
  BY DEF ConfirmRead, ConfirmReread, Redeliver, envVars, storeVars, SameEnv
<1>1. CASE ConfirmRead(r)
  <2>1. PICK a \in Address :
          /\ HasToken(a, link[r]) /\ store[a].token \notin expired
          /\ \/ store[a].status = "delivered" /\ pc'[r] = "done"
             \/ /\ store[a].status # "delivered" /\ ~store[a].confirmed
                /\ rec'[r] = Confirmed(store[a]) /\ pc'[r] = "confirmPut"
             \/ /\ store[a].status # "delivered" /\ store[a].confirmed
                /\ rec'[r] = store[a] /\ pc'[r] = "deliver"
    BY <1>a, <1>1 DEF ConfirmRead, ByToken, GetByToken, TokenExpired, Answer, Goto
  <2>2. ~WorkingOn(t, r)
    BY <1>1 DEF ConfirmRead, WorkingOn
  <2>3. CASE ~WorkingOn(t, r)'
    BY <1>a, <1>b, <2>2, <2>3, Stands
  <2>4. CASE WorkingOn(t, r)'
    <3>1. /\ store[a].status # "delivered" /\ pc'[r] # "done"
          /\ rec'[r].token = t
      BY <2>1, <2>4 DEF WorkingOn
    <3>2. /\ rec'[r].rev = store[a].rev /\ rec'[r].env = store[a].env
          /\ store[a].token = t
      <4>1. store[a] \in Verification
        BY <1>a
      <4>2. /\ Confirmed(store[a]).token = store[a].token
            /\ Confirmed(store[a]).rev = store[a].rev
            /\ Confirmed(store[a]).env = store[a].env
        BY <4>1, ConfirmedFields
      <4>3. rec'[r] = Confirmed(store[a]) \/ rec'[r] = store[a]
        BY <2>1, <3>1
      <4>4. QED
        BY <3>1, <4>2, <4>3
    <3>3. HasToken(a, t)
      BY <2>1, <3>2 DEF HasToken
    <3>4. /\ Retrying(t)!Read(r, Facts(rec'[r]), pc'[r])
          /\ LifeOf(t) = "live" /\ RecordOf(t) = Facts(store[a])
          /\ LifeOf(t)' = LifeOf(t) /\ RecordOf(t)' = RecordOf(t)
      BY <1>a, <1>b, <2>4, <3>2, <3>3, Reads
    <3>5. /\ RecordOf(t).status = store[a].status
          /\ RecordOf(t).confirmed = store[a].confirmed
          /\ PhaseOf(t)[r] = "idle" /\ t \notin expired
      <4>1. /\ Facts(store[a]).status = store[a].status
            /\ Facts(store[a]).confirmed = store[a].confirmed
        BY DEF Facts
      <4>2. PhaseOf(t)[r] = "idle" /\ t \notin expired
        BY <2>1, <2>2, <3>2, Seen
      <4>3. QED
        BY <3>4, <4>1, <4>2
    <3>6. CASE store[a].confirmed
      <4>1. rec'[r] = store[a] /\ pc'[r] = "deliver"
        BY <2>1, <3>1, <3>6
      <4>2. Facts(rec'[r]) = RecordOf(t)
        BY <3>4, <4>1 DEF Facts
      <4>3. Retrying(t)!Read(r, RecordOf(t), "deliver")
        BY <3>4, <4>1, <4>2
      <4>4. Retrying(t)!Click(r)
        BY <1>b, <3>1, <3>4, <3>5, <3>6, <4>3 DEF Retrying!Click, SameEnv
      <4>5. QED
        BY <4>4 DEF Retrying!Next
    <3>7. CASE ~store[a].confirmed
      <4>1. pc'[r] = "confirmPut" /\ rec'[r] = Confirmed(store[a])
        BY <2>1, <3>1, <3>7
      <4>2. Facts(rec'[r]) = [status |-> "confirmed", confirmed |-> TRUE]
        <5>1. store[a] \in Verification
          BY <1>a
        <5>2. /\ Confirmed(store[a]).status = "confirmed"
              /\ Confirmed(store[a]).confirmed = TRUE
          BY <5>1, ConfirmedFields
        <5>3. QED
          BY <4>1, <5>2 DEF Facts
      <4>3. Retrying(t)!Click(r)
        BY <1>b, <3>1, <3>4, <3>5, <3>7, <4>1, <4>2 DEF Retrying!Click, SameEnv
      <4>4. QED
        BY <4>3 DEF Retrying!Next
    <3>8. QED
      BY <3>6, <3>7
  <2>5. QED
    BY <2>3, <2>4
<1>2. CASE ConfirmReread(r)
  <2>1. PICK a \in Address :
          /\ HasToken(a, link[r]) /\ store[a].token \notin expired
          /\ rec'[r] = store[a]
          /\ \/ store[a].status = "delivered" /\ pc'[r] = "done"
             \/ store[a].status # "delivered" /\ pc'[r] = "deliver"
    BY <1>a, <1>2 DEF ConfirmReread, ByToken, GetByToken, TokenExpired, Answer, Goto
  <2>2. /\ pc[r] = "reread" /\ rec[r].token = store[a].token
        /\ WorkingOn(t, r) <=> store[a].token = t
    BY <1>2, <2>1 DEF ConfirmReread, RetryInv, ConfirmingFor, HasToken, WorkingOn
  <2>3. CASE store[a].token # t
    <3>1. ~WorkingOn(t, r)'
      BY <2>1, <2>3 DEF WorkingOn
    <3>2. QED
      BY <1>a, <1>b, <2>2, <2>3, <3>1, Stands
  <2>4. CASE store[a].token = t /\ pc'[r] = "done"
    <3>1. ~WorkingOn(t, r)'
      BY <2>4 DEF WorkingOn
    <3>2. Retrying(t)!Reread(r)
      BY <1>a, <1>b, <2>2, <2>4, <3>1, Leaves, Seen DEF Retrying!Reread, SameEnv
    <3>3. QED
      BY <3>2 DEF Retrying!Next, Retrying!Work
  <2>5. CASE store[a].token = t /\ pc'[r] = "deliver" /\ store[a].status # "delivered"
    <3>1. HasToken(a, t) /\ WorkingOn(t, r)' /\ t \notin expired
      BY <2>1, <2>5 DEF HasToken, WorkingOn
    <3>2. /\ Retrying(t)!Read(r, RecordOf(t), "deliver")
          /\ LifeOf(t) = "live" /\ RecordOf(t) = Facts(store[a])
          /\ LifeOf(t)' = LifeOf(t) /\ RecordOf(t)' = RecordOf(t)
      BY <1>a, <1>b, <2>1, <2>5, <3>1, Reads
    <3>3. RecordOf(t).status # "delivered" /\ PhaseOf(t)[r] = "reread"
      <4>1. Facts(store[a]).status = store[a].status
        BY DEF Facts
      <4>2. QED
        BY <2>2, <2>5, <3>2, <4>1, Seen
    <3>4. Retrying(t)!Reread(r)
      BY <1>b, <3>1, <3>2, <3>3 DEF Retrying!Reread, SameEnv
    <3>5. QED
      BY <3>4 DEF Retrying!Next, Retrying!Work
  <2>6. QED
    BY <2>1, <2>3, <2>4, <2>5
<1>3. CASE \E a \in Address : Redeliver(r, a)
  <2>1. PICK a \in Address : Redeliver(r, a)
    BY <1>3
  <2>2. ~WorkingOn(t, r)
    BY <2>1 DEF Redeliver, WorkingOn
  <2>3. CASE ~WorkingOn(t, r)'
    BY <1>a, <1>b, <2>2, <2>3, Stands
  <2>4. CASE WorkingOn(t, r)'
    <3>1. /\ Exists(a) /\ store[a].confirmed
          /\ rec'[r] = store[a] /\ pc'[r] = "deliver"
      <4>1. pc'[r] # "done"
        BY <2>4 DEF WorkingOn
      <4>2. QED
        BY <1>a, <2>1, <4>1 DEF Redeliver, Answer, Goto, Get
    <3>2. HasToken(a, t)
      BY <2>4, <3>1 DEF WorkingOn, HasToken
    <3>3. /\ Retrying(t)!Read(r, RecordOf(t), "deliver")
          /\ LifeOf(t) = "live" /\ RecordOf(t) = Facts(store[a])
          /\ LifeOf(t)' = LifeOf(t) /\ RecordOf(t)' = RecordOf(t)
      BY <1>a, <1>b, <2>4, <3>1, <3>2, Reads
    <3>4. RecordOf(t).confirmed /\ PhaseOf(t)[r] = "idle"
      <4>1. Facts(store[a]).confirmed = store[a].confirmed
        BY DEF Facts
      <4>2. QED
        BY <2>2, <3>1, <3>3, <4>1, Seen
    <3>5. Retrying(t)!Redeliver(r)
      BY <1>b, <3>3, <3>4 DEF Retrying!Redeliver, SameEnv
    <3>6. QED
      BY <3>5 DEF Retrying!Next
  <2>5. QED
    BY <2>3, <2>4
<1>4. QED
  BY <1>1, <1>2, <1>3

(* A lookup that fails, a countersignature, a POST and its outcome, and the *)
(* end of a request in the middle of them.                                  *)
LEMMA DeliverMaps ==
  ASSUME StoreInv, RetryInv, RetryInv', NEW r \in Request, NEW t \in Token,
         \/ LookupFails(r) \/ CounterSignFails(r) \/ Crash(r)
         \/ \E got \in BOOLEAN, err \in BOOLEAN : DeliverSend(r, got, err)
         \/ \E out \in PutOutcome : DeliverPut(r, out)
  PROVE  [Retrying(t)!Next]_(Retrying(t)!vars)
<1>a. /\ TypeInv /\ TypeOK /\ pc \in [Request -> Pc]
      /\ rec \in [Request -> Verification]
      /\ Arrive(r) \/ Step(r) \/ Crash(r)
  BY DEF StoreInv, TypeInv, TypeOK, Step, NoRecordYet, LookupFails
<1>1. CASE LookupFails(r)
  <2>1. /\ pc[r] \in LookupPc /\ pc'[r] = "done"
        /\ store' = store /\ issued' = issued /\ SameEnv(t)
    BY <1>a, <1>1 DEF LookupFails, Answer, storeVars, envVars, SameEnv
  <2>2. ~WorkingOn(t, r)'
    BY <2>1 DEF WorkingOn
  <2>3. CASE WorkingOn(t, r)
    <3>1. PhaseOf(t)[r] = "reread"
      BY <2>1, <2>3, Seen DEF LookupPc, WorkingOn
    <3>2. Retrying(t)!Reread(r)
      BY <1>a, <2>1, <2>2, <3>1, Leaves DEF Retrying!Reread, SameEnv
    <3>3. QED
      BY <3>2 DEF Retrying!Next, Retrying!Work
  <2>4. CASE ~WorkingOn(t, r)
    BY <1>a, <2>1, <2>2, <2>4, Stands
  <2>5. QED
    BY <2>3, <2>4
<1>2. CASE CounterSignFails(r)
  <2>1. /\ pc[r] = "deliver" /\ pc'[r] = "deliverPut" /\ rec'[r] = Failed(rec[r])
        /\ store' = store /\ issued' = issued /\ SameEnv(t)
    BY <1>a, <1>2 DEF CounterSignFails, Goto, storeVars, envVars, SameEnv
  <2>2. /\ rec'[r].token = rec[r].token /\ rec'[r].env = rec[r].env
        /\ rec'[r].rev = rec[r].rev
        /\ rec'[r].status = "failed" /\ rec'[r].confirmed = rec[r].confirmed
    BY <1>a, <2>1, FailedFields
  <2>3. Facts(rec'[r]) = [Facts(rec[r]) EXCEPT !.status = "failed"]
    BY <2>2 DEF Facts
  <2>4. CASE rec[r].token = t
    <3>1. WorkingOn(t, r) /\ WorkingOn(t, r)'
      BY <2>1, <2>2, <2>4 DEF WorkingOn
    <3>2. Retrying(t)!CounterSignFails(r)
      BY <1>a, <2>1, <2>2, <2>3, <3>1, GoesOn, Seen
         DEF Retrying!CounterSignFails, SameEnv
    <3>3. QED
      BY <3>2 DEF Retrying!Next, Retrying!Work
  <2>5. CASE rec[r].token # t
    <3>1. ~WorkingOn(t, r) /\ ~WorkingOn(t, r)'
      BY <2>2, <2>5 DEF WorkingOn
    <3>2. QED
      BY <1>a, <2>1, <3>1, Stands
  <2>6. QED
    BY <2>4, <2>5
<1>3. CASE Crash(r)
  <2>1. /\ pc[r] \notin {"idle", "done"} /\ pc'[r] = "done"
        /\ store' = store /\ issued' = issued /\ SameEnv(t)
    BY <1>a, <1>3 DEF Crash, Answer, storeVars, envVars, SameEnv
  <2>2. ~WorkingOn(t, r)'
    BY <2>1 DEF WorkingOn
  <2>3. CASE WorkingOn(t, r)
    <3>1. PhaseOf(t)[r] # "idle"
      BY <2>1, <2>3, Seen
    <3>2. Retrying(t)!Crash(r)
      BY <1>a, <2>1, <2>2, <3>1, Leaves DEF Retrying!Crash, SameEnv
    <3>3. QED
      BY <3>2 DEF Retrying!Next
  <2>4. CASE ~WorkingOn(t, r)
    BY <1>a, <2>1, <2>2, <2>4, Stands
  <2>5. QED
    BY <2>3, <2>4
<1>4. ASSUME NEW got \in BOOLEAN, NEW err \in BOOLEAN, DeliverSend(r, got, err)
      PROVE  [Retrying(t)!Next]_(Retrying(t)!vars)
  <2>1. /\ pc[r] = "deliver" /\ pc'[r] = "deliverPut"
        /\ store' = store /\ issued' = issued /\ expired' = expired
        /\ registry' = IF got THEN registry \cup {rec[r].token} ELSE registry
        /\ ~got => err
    BY <1>a, <1>4 DEF DeliverSend, Goto, storeVars
  <2>2. /\ rec'[r] = IF err THEN Failed(Attempted(rec[r]))
                           ELSE Delivered(Attempted(rec[r]))
        /\ rec[r] \in Verification /\ Attempted(rec[r]) \in Verification
    BY <1>a, <1>4, RecordTypes DEF DeliverSend
  <2>3. /\ rec'[r].token = rec[r].token /\ rec'[r].env = rec[r].env
        /\ rec'[r].rev = rec[r].rev /\ rec'[r].confirmed = rec[r].confirmed
        /\ rec'[r].status = IF err THEN "failed" ELSE "delivered"
    BY <2>2, AttemptedFields, FailedFields, DeliveredFields
  <2>4. CASE rec[r].token = t
    <3>1. WorkingOn(t, r) /\ WorkingOn(t, r)'
      BY <2>1, <2>3, <2>4 DEF WorkingOn
    <3>2. /\ Retrying(t)!Take(r, Facts(rec'[r]), "deliverPut")
          /\ CurrentOf(t)' = CurrentOf(t)
          /\ LifeOf(t)' = LifeOf(t) /\ RecordOf(t)' = RecordOf(t)
      BY <1>a, <2>1, <2>3, <3>1, GoesOn
    <3>3. PhaseOf(t)[r] = "deliver" /\ CopyOf(t)[r] = Facts(rec[r])
      BY <2>1, <3>1, Seen
    <3>4. CASE err
      <4>1. Facts(rec'[r]) = [Facts(rec[r]) EXCEPT !.status = "failed"]
        BY <2>3, <3>4 DEF Facts
      <4>2. (t \in registry)' \in {(t \in registry), TRUE}
        BY <2>1, <2>4
      <4>3. Retrying(t)!SendFails(r)
        BY <2>1, <3>2, <3>3, <4>1, <4>2 DEF Retrying!SendFails
      <4>4. QED
        BY <4>3 DEF Retrying!Next, Retrying!Work
    <3>5. CASE ~err
      <4>1. Facts(rec'[r]) = [Facts(rec[r]) EXCEPT !.status = "delivered"]
        BY <2>3, <3>5 DEF Facts
      <4>2. (t \in registry)' = TRUE
        BY <2>1, <2>4, <3>5
      <4>3. Retrying(t)!SendSucceeds(r)
        BY <2>1, <3>2, <3>3, <4>1, <4>2 DEF Retrying!SendSucceeds
      <4>4. QED
        BY <4>3 DEF Retrying!Next, Retrying!Work
    <3>6. QED
      BY <3>4, <3>5
  <2>5. CASE rec[r].token # t
    <3>1. ~WorkingOn(t, r) /\ ~WorkingOn(t, r)' /\ SameEnv(t)
      BY <2>1, <2>3, <2>5 DEF WorkingOn, SameEnv
    <3>2. QED
      BY <1>a, <2>1, <3>1, Stands
  <2>6. QED
    BY <2>4, <2>5
<1>5. ASSUME NEW out \in PutOutcome, DeliverPut(r, out)
      PROVE  [Retrying(t)!Next]_(Retrying(t)!vars)
  <2>1. /\ pc[r] = "deliverPut" /\ pc'[r] = "done" /\ Put(rec[r], out) /\ SameEnv(t)
    BY <1>a, <1>5 DEF DeliverPut, Answer, SameEnv, envVars
  <2>2. CASE rec[r].token = t
    <3>1. WorkingOn(t, r)
      BY <2>1, <2>2 DEF WorkingOn
    <3>2. Retrying(t)!DeliverPut(r)
      BY <1>a, <2>1, <2>2, <3>1, LastWrite, Seen DEF Retrying!DeliverPut, SameEnv
    <3>3. QED
      BY <3>2 DEF Retrying!Next, Retrying!Work
  <2>3. CASE rec[r].token # t
    BY <1>a, <2>1, <2>3, LastWrite
  <2>4. QED
    BY <2>2, <2>3
<1>6. QED
  BY <1>1, <1>2, <1>3, <1>4, <1>5

(* What starts a request, and the pages, concern no submission.             *)
LEMMA RestMaps ==
  ASSUME StoreInv, RetryInv, RetryInv', NEW r \in Request, NEW t \in Token,
         \/ ReceiveRejected(r) \/ \E e \in Envelope : Receive(r, e)
         \/ \E u \in Token : OpenLink(r, u, "page", "page")
         \/ \E u \in Token : OpenLink(r, u, "submit", "confirmation")
         \/ PageRead(r) \/ \E accept \in BOOLEAN : Confirmation(r, accept)
  PROVE  [Retrying(t)!Next]_(Retrying(t)!vars)
<1>1. /\ TypeInv /\ pc \in [Request -> Pc]
      /\ Arrive(r) \/ Step(r) \/ Crash(r)
  BY DEF StoreInv, TypeInv, TypeOK, Step, Arrive
<1>2. store' = store /\ issued' = issued /\ SameEnv(t)
  BY DEF ReceiveRejected, Receive, OpenLink, PageRead, Confirmation,
         storeVars, envVars, SameEnv
<1>3. pc[r] \in {"idle", "page", "confirmation"}
  BY DEF ReceiveRejected, Receive, OpenLink, PageRead, Confirmation, Begin
<1>4. pc'[r] \in {"done", "upsertPut", "page", "confirmation", "confirm"}
  BY <1>1 DEF ReceiveRejected, Receive, OpenLink, PageRead, Confirmation,
              Begin, Goto, Answer
<1>5. ~WorkingOn(t, r) /\ ~WorkingOn(t, r)'
  BY <1>3, <1>4 DEF WorkingOn
<1>6. QED
  BY <1>1, <1>2, <1>5, Stands

(* The clock of one token.                                                  *)
LEMMA ExpireMaps ==
  ASSUME RetryInv, RetryInv', NEW t \in Token, NEW u \in Token, Expire(u)
  PROVE  [Retrying(t)!Next]_(Retrying(t)!vars)
<1>1. /\ store' = store /\ issued' = issued /\ pc' = pc /\ rec' = rec
      /\ registry' = registry /\ u \notin expired /\ expired' = expired \cup {u}
  BY DEF Expire, storeVars, localVars
<1>2. /\ PhaseOf(t)' = PhaseOf(t) /\ CopyOf(t)' = CopyOf(t)
      /\ CurrentOf(t)' = CurrentOf(t)
  BY <1>1 DEF PhaseOf, CopyOf, CurrentOf, WorkingOn, Facts
<1>3. LifeOf(t)' = LifeOf(t) /\ RecordOf(t)' = RecordOf(t)
  BY <1>1, RecordStays
<1>4. CASE u = t
  <2>1. Retrying(t)!Expire
    BY <1>1, <1>2, <1>3, <1>4 DEF Retrying!Expire
  <2>2. QED
    BY <2>1 DEF Retrying!Next
<1>5. CASE u # t
  <2>1. (t \in expired' <=> t \in expired) /\ (t \in registry' <=> t \in registry)
    BY <1>1, <1>5
  <2>2. UNCHANGED Retrying(t)!vars
    BY <1>2, <1>3, <2>1 DEF Retrying!vars
  <2>3. QED
    BY <2>2
<1>6. QED
  BY <1>4, <1>5

(* At the start no submission is stored and nobody works on one.            *)
LEMMA InitMaps ==
  ASSUME NEW t \in Token, Init
  PROVE  Retrying(t)!Init
<1>1. ~Live(t) /\ t \notin issued /\ t \notin expired /\ t \notin registry
  BY DEF Init, StoreInit, Blank, Live, HasToken, Exists
<1>2. \A r \in Request : ~WorkingOn(t, r)
  BY DEF Init, WorkingOn
<1>3. /\ PhaseOf(t) = [r \in Request |-> "idle"]
      /\ CopyOf(t) = [r \in Request |-> Nothing]
      /\ CurrentOf(t) = {}
  BY <1>2 DEF PhaseOf, CopyOf, CurrentOf
<1>4. LifeOf(t) = "new" /\ RecordOf(t) = Nothing
  BY <1>1 DEF LifeOf, RecordOf
<1>5. QED
  BY <1>1, <1>3, <1>4 DEF Retrying!Init, Retrying!Pending, Nothing

LEMMA NextMaps ==
  ASSUME AtomicLookup, StoreInv, RetryInv, RetryInv', [Next]_vars, NEW t \in Token
  PROVE  [Retrying(t)!Next]_(Retrying(t)!vars)
<1>1. ASSUME NEW r \in Request, Arrive(r)
      PROVE  [Retrying(t)!Next]_(Retrying(t)!vars)
  BY <1>1, RestMaps, ReadMaps DEF Arrive
<1>2. ASSUME NEW r \in Request, Step(r)
      PROVE  [Retrying(t)!Next]_(Retrying(t)!vars)
  <2>1. CASE \E out \in PutOutcome : UpsertPut(r, out)
    BY <2>1, UpsertMaps
  <2>2. CASE \/ \E out, err \in BOOLEAN : MailSend(r, out, err)
             \/ \E out \in PutOutcome : MailPut(r, out)
    BY <2>2, MailMaps
  <2>3. CASE NoRecordYet(r)
    BY <2>3, DeliverMaps DEF NoRecordYet, ViewRow
  <2>4. CASE PageRead(r) \/ \E accept \in BOOLEAN : Confirmation(r, accept)
    BY <2>4, RestMaps
  <2>5. CASE ConfirmRead(r) \/ ConfirmReread(r)
    BY <2>5, ReadMaps
  <2>6. CASE \E out \in PutOutcome : ConfirmPut(r, out)
    BY <2>6, ConfirmPutMaps
  <2>7. CASE \/ CounterSignFails(r)
             \/ \E got, err \in BOOLEAN : DeliverSend(r, got, err)
             \/ \E out \in PutOutcome : DeliverPut(r, out)
    BY <2>7, DeliverMaps
  <2>8. QED
    BY <1>2, <2>1, <2>2, <2>3, <2>4, <2>5, <2>6, <2>7 DEF Step
<1>3. ASSUME NEW r \in Request, Crash(r)
      PROVE  [Retrying(t)!Next]_(Retrying(t)!vars)
  BY <1>3, DeliverMaps
<1>4. CASE \E u \in Token : Expire(u)
  BY <1>4, ExpireMaps
<1>5. CASE UNCHANGED vars
  <2>1. store' = store /\ issued' = issued /\ pc' = pc /\ rec' = rec
        /\ registry' = registry /\ expired' = expired
    BY <1>5 DEF vars
  <2>2. /\ PhaseOf(t)' = PhaseOf(t) /\ CopyOf(t)' = CopyOf(t)
        /\ CurrentOf(t)' = CurrentOf(t)
    BY <2>1 DEF PhaseOf, CopyOf, CurrentOf, WorkingOn, Facts
  <2>3. LifeOf(t)' = LifeOf(t) /\ RecordOf(t)' = RecordOf(t)
    BY <2>1, RecordStays
  <2>4. UNCHANGED Retrying(t)!vars
    BY <2>1, <2>2, <2>3 DEF Retrying!vars
  <2>5. QED
    BY <2>4
<1>6. QED
  BY <1>1, <1>2, <1>3, <1>4, <1>5 DEF Next

(* RefinesRecovery: whatever requests do, crashes and lost answers          *)
(* included, is on every submission a move of Recovery or none, if the      *)
(* lookup by token is one step.  The workers and calls that Recovery brings *)
(* to the authority are those of the handlers and the redeliver command.    *)
THEOREM ImplementsRecovery ==
  ASSUME AtomicLookup
  PROVE  Spec => RefinesRecovery
<1>1. Init => \A t \in Token : Retrying(t)!Init
  BY InitMaps
<1>2. StoreInv /\ RetryInv /\ RetryInv' /\ [Next]_vars =>
        [\A t \in Token : [Retrying(t)!Next]_(Retrying(t)!vars)]_vars
  BY NextMaps
<1>3. QED
  BY <1>1, <1>2, RetryInvariant, PTL DEF Spec, RefinesRecovery
=============================================================================

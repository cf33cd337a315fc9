--------------------------- MODULE RecoverySafety ---------------------------
(***************************************************************************)
(* Proofs about Recovery for any number of workers: the facts on which the *)
(* button and the operator rely, that an attested submission stays so      *)
(* until it is replaced and that no worker goes round in circles.  That    *)
(* the submission arrives in the end is left to TLC.                       *)
(***************************************************************************)
EXTENDS Recovery, Naturals, TLAPS

Fact == [status: {"pending", "confirmed", "delivered", "failed"},
         confirmed: BOOLEAN]

PhaseName == {"idle", "mail", "mailPut", "confirmPut", "reread", "deliver",
              "deliverPut"}

(* A copy that Put would still accept knows of the attestation.             *)
Fenced ==
  \A w \in current : record.confirmed => copy[w].confirmed

(* delivered is said only of what the authority took.                       *)
DeliveredIsHeld ==
  /\ record.status = "delivered" => held
  /\ \A w \in Worker : copy[w].status = "delivered" => held

RecoveryInv == RecoveryTypeOK /\ Fenced /\ DeliveredIsHeld

-----------------------------------------------------------------------------
(* What the moves of a worker do to the types.                              *)
LEMMA PendingIsFact == Pending \in Fact /\ ~Pending.confirmed /\ Pending.status = "pending"
  BY DEF Pending, Fact

(* The moves keep the invariant when the fields around them are kept.       *)
LEMMA LeaveKeeps ==
  ASSUME RecoveryInv, NEW w \in Worker, Leave(w), UNCHANGED <<life, record, expired>>,
         held' \in {held, TRUE}
  PROVE  RecoveryInv'
<1> USE DEF RecoveryInv
<1>1. RecoveryTypeOK'
  BY PendingIsFact DEF Leave, RecoveryTypeOK, Fact
<1>2. Fenced'
  BY DEF Leave, Fenced, RecoveryTypeOK
<1>3. DeliveredIsHeld'
  BY PendingIsFact DEF Leave, DeliveredIsHeld, RecoveryTypeOK
<1>4. QED
  BY <1>1, <1>2, <1>3

(* A step that gives the worker another copy and another call.              *)
LEMMA TakeKeeps ==
  ASSUME RecoveryInv, NEW w \in Worker, NEW v \in Fact, NEW p \in PhaseName \ {"idle"},
         Take(w, v, p), UNCHANGED <<life, record, expired>>,
         held' \in {held, TRUE}, v.status = "delivered" => held',
         current' \in {current, current \cup {w}},
         (w \in current' /\ record.confirmed) => v.confirmed
  PROVE  RecoveryInv'
<1> USE DEF RecoveryInv
<1>1. RecoveryTypeOK'
  <2>1. phase' \in [Worker -> PhaseName] /\ copy' \in [Worker -> Fact]
    BY DEF Take, RecoveryTypeOK, Fact, PhaseName
  <2>2. current' \subseteq {u \in Worker : phase'[u] # "idle"}
    BY DEF Take, RecoveryTypeOK
  <2>3. QED
    BY <2>1, <2>2 DEF RecoveryTypeOK, Fact, PhaseName
<1>2. Fenced'
  BY DEF Take, Fenced, RecoveryTypeOK
<1>3. DeliveredIsHeld'
  BY DEF Take, DeliveredIsHeld, RecoveryTypeOK
<1>4. QED
  BY <1>1, <1>2, <1>3

(* A write that is applied: everybody else's copy is stale.                 *)
LEMMA WriteKeeps ==
  ASSUME RecoveryInv, NEW w \in Worker, phase[w] # "idle", w \in current,
         record' = copy[w], UNCHANGED <<life, expired, held>>,
         \/ \E p \in PhaseName \ {"idle"} : Take(w, copy[w], p) /\ current' = {w}
         \/ /\ phase' = [phase EXCEPT ![w] = "idle"]
            /\ copy' = [copy EXCEPT ![w] = Pending] /\ current' = {}
  PROVE  RecoveryInv'
<1> USE DEF RecoveryInv
<1>1. RecoveryTypeOK'
  <2>1. record' \in Fact
    BY DEF RecoveryTypeOK, Fact
  <2>2. phase' \in [Worker -> PhaseName] /\ copy' \in [Worker -> Fact]
    BY PendingIsFact DEF Take, RecoveryTypeOK, Fact, PhaseName
  <2>3. current' \subseteq {u \in Worker : phase'[u] # "idle"}
    BY DEF Take, RecoveryTypeOK
  <2>4. QED
    BY <2>1, <2>2, <2>3 DEF RecoveryTypeOK, Fact, PhaseName
<1>2. Fenced'
  BY DEF Take, Fenced, RecoveryTypeOK
<1>3. DeliveredIsHeld'
  BY PendingIsFact DEF Take, DeliveredIsHeld, RecoveryTypeOK
<1>4. QED
  BY <1>1, <1>2, <1>3

LEMMA WriteAndLeaveKeeps ==
  ASSUME RecoveryInv, NEW w \in Worker, phase[w] # "idle", WriteAndLeave(w),
         UNCHANGED <<life, expired, held>>
  PROVE  RecoveryInv'
  BY LeaveKeeps, WriteKeeps DEF WriteAndLeave

LEMMA RecoveryInit == Init => RecoveryInv
<1> SUFFICES ASSUME Init PROVE RecoveryInv
  OBVIOUS
<1>1. RecoveryTypeOK
  BY PendingIsFact DEF Init, RecoveryTypeOK, Fact
<1>2. Fenced /\ DeliveredIsHeld
  BY PendingIsFact DEF Init, Fenced, DeliveredIsHeld
<1>3. QED
  BY <1>1, <1>2 DEF RecoveryInv

LEMMA RecoveryStep == RecoveryInv /\ [Next]_vars => RecoveryInv'
<1> SUFFICES ASSUME RecoveryInv, [Next]_vars PROVE RecoveryInv'
  OBVIOUS
<1>a. /\ record \in Fact /\ held \in BOOLEAN
      /\ \A w \in Worker : copy[w] \in Fact
      /\ \A w \in Worker : copy[w].status = "delivered" => held
      /\ record.status = "delivered" => held
      /\ \A w \in current : record.confirmed => copy[w].confirmed
  BY DEF RecoveryInv, RecoveryTypeOK, Fact, DeliveredIsHeld, Fenced
<1>b. ASSUME NEW w \in Worker
      PROVE  /\ [copy[w] EXCEPT !.status = "failed"] \in Fact
             /\ [copy[w] EXCEPT !.status = "delivered"] \in Fact
             /\ [copy[w] EXCEPT !.status = "failed"].confirmed = copy[w].confirmed
             /\ [copy[w] EXCEPT !.status = "delivered"].confirmed = copy[w].confirmed
             /\ [copy[w] EXCEPT !.status = "failed"].status = "failed"
  BY <1>a DEF Fact
<1>1. ASSUME NEW w \in Worker, Submit(w) PROVE RecoveryInv'
  <2>1. RecoveryTypeOK'
    BY <1>1, PendingIsFact DEF Submit, Take, RecoveryInv, RecoveryTypeOK, Fact
  <2>2. Fenced'
    BY <1>1, PendingIsFact DEF Submit, Fenced
  <2>3. DeliveredIsHeld'
    BY <1>1, PendingIsFact DEF Submit, Take, RecoveryInv, RecoveryTypeOK, DeliveredIsHeld
  <2>4. QED
    BY <2>1, <2>2, <2>3 DEF RecoveryInv
<1>2. ASSUME NEW w \in Worker, MailSend(w) PROVE RecoveryInv'
  BY <1>2, <1>a, TakeKeeps DEF MailSend, PhaseName
<1>3. ASSUME NEW w \in Worker, MailPut(w) \/ DeliverPut(w) PROVE RecoveryInv'
  BY <1>3, WriteAndLeaveKeeps DEF MailPut, DeliverPut
<1>4. ASSUME NEW w \in Worker, Click(w) PROVE RecoveryInv'
  <2>1. [status |-> "confirmed", confirmed |-> TRUE] \in Fact
    BY DEF Fact
  <2>2. CASE record.confirmed
    BY <1>4, <1>a, <2>2, TakeKeeps DEF Click, Read, PhaseName
  <2>3. CASE ~record.confirmed
    BY <1>4, <1>a, <2>1, <2>3, TakeKeeps DEF Click, Read, PhaseName
  <2>4. QED
    BY <2>2, <2>3
<1>5. ASSUME NEW w \in Worker, ConfirmPut(w) PROVE RecoveryInv'
  <2>1. CASE Write(w, "deliver")
    BY <1>5, <2>1, WriteKeeps DEF ConfirmPut, Write, PhaseName
  <2>2. CASE Conflict(w, "reread")
    BY <1>5, <1>a, <2>2, TakeKeeps DEF ConfirmPut, Conflict, PhaseName
  <2>3. CASE WriteAndLeave(w)
    BY <1>5, <2>3, WriteAndLeaveKeeps DEF ConfirmPut
  <2>4. QED
    BY <1>5, <2>1, <2>2, <2>3 DEF ConfirmPut
<1>6. ASSUME NEW w \in Worker, Reread(w) PROVE RecoveryInv'
  <2>1. CASE Leave(w)
    BY <1>6, <2>1, LeaveKeeps DEF Reread
  <2>2. CASE Read(w, record, "deliver")
    BY <1>6, <1>a, <2>2, TakeKeeps DEF Reread, Read, PhaseName
  <2>3. QED
    BY <1>6, <2>1, <2>2 DEF Reread
<1>7. ASSUME NEW w \in Worker, Redeliver(w) PROVE RecoveryInv'
  BY <1>7, <1>a, TakeKeeps DEF Redeliver, Read, PhaseName
<1>8. ASSUME NEW w \in Worker, CounterSignFails(w) PROVE RecoveryInv'
  BY <1>8, <1>a, <1>b, TakeKeeps DEF CounterSignFails, PhaseName
<1>9. ASSUME NEW w \in Worker, SendFails(w) PROVE RecoveryInv'
  BY <1>9, <1>a, <1>b, TakeKeeps DEF SendFails, PhaseName
<1>10. ASSUME NEW w \in Worker, SendSucceeds(w) PROVE RecoveryInv'
  BY <1>10, <1>a, <1>b, TakeKeeps DEF SendSucceeds, PhaseName
<1>11. ASSUME NEW w \in Worker, Crash(w) PROVE RecoveryInv'
  BY <1>11, LeaveKeeps DEF Crash
<1>12. CASE Replace
  BY <1>12, PendingIsFact
     DEF Replace, RecoveryInv, RecoveryTypeOK, Fenced, DeliveredIsHeld, Fact
<1>13. CASE Expire \/ UNCHANGED vars
  BY <1>13 DEF Expire, vars, RecoveryInv, RecoveryTypeOK, Fenced, DeliveredIsHeld
<1>14. QED
  BY <1>1, <1>2, <1>3, <1>4, <1>5, <1>6, <1>7, <1>8, <1>9, <1>10, <1>11,
     <1>12, <1>13 DEF Next, Work

LEMMA RecoveryInvariant == Spec => []RecoveryInv
  BY RecoveryInit, RecoveryStep, PTL DEF Spec

(* Types of the recovery, for any number of workers.                        *)
THEOREM RecoveryTypes == Spec => []RecoveryTypeOK
<1>1. RecoveryInv => RecoveryTypeOK
  BY DEF RecoveryInv
<1>2. QED  BY <1>1, RecoveryInvariant, PTL

(* No record and no copy says delivered unless the authority has taken the  *)
(* submission, so that giving up on a delivered record (Confirm) never      *)
(* gives up on one that still has to get there.                             *)
THEOREM DeliveredStaysTrue == Spec => []DeliveredIsHeld
<1>1. RecoveryInv => DeliveredIsHeld
  BY DEF RecoveryInv
<1>2. QED  BY <1>1, RecoveryInvariant, PTL

(* Once attested a submission stays so, whoever writes it with whatever     *)
(* copy, until another replaces it: a retry finds what it needs (Confirm,   *)
(* Redeliver, deliver).                                                     *)
ConfirmedStays ==
  [][Confirmed => Confirmed' \/ life' = "replaced"]_vars

(* ConfirmedStays, for any number of workers.                               *)
THEOREM AttestedStays == Spec => ConfirmedStays
<1> DEFINE Stays == Confirmed => Confirmed' \/ life' = "replaced"
<1>1. RecoveryInv /\ [Next]_vars => [Stays]_vars
  <2> SUFFICES ASSUME RecoveryInv, Next, life = "live", record.confirmed
               PROVE  (life' = "live" /\ record'.confirmed) \/ life' = "replaced"
    BY DEF Confirmed
  <2>1. ASSUME NEW w \in Worker, w \in current, record' = copy[w], life' = life
        PROVE  life' = "live" /\ record'.confirmed
    BY <2>1 DEF RecoveryInv, Fenced
  <2>2. ASSUME NEW w \in Worker, Work(w)
        PROVE  life' = "live" /\ record'.confirmed
    BY <2>1, <2>2 DEF Work, MailSend, MailPut, ConfirmPut, Reread, DeliverPut,
                      CounterSignFails, SendFails, SendSucceeds, Write, Conflict,
                      WriteAndLeave
  <2>3. ASSUME NEW w \in Worker, Submit(w) \/ Click(w) \/ Redeliver(w) \/ Crash(w)
        PROVE  life' = "live" /\ record'.confirmed
    BY <2>3 DEF Submit, Click, Redeliver, Crash
  <2>4. CASE Replace \/ Expire
    BY <2>4 DEF Replace, Expire
  <2>5. QED
    BY <2>2, <2>3, <2>4 DEF Next
<1>2. QED
  BY <1>1, RecoveryInvariant, PTL DEF Spec, ConfirmedStays

(* The calls a worker still has before it.                                  *)
CallsLeft(w) ==
  CASE phase[w] = "idle" -> 0
    [] phase[w] = "deliverPut" -> 1
    [] phase[w] = "deliver" -> 2
    [] phase[w] = "reread" -> 3
    [] phase[w] = "confirmPut" -> 4
    [] phase[w] = "mailPut" -> 1
    [] phase[w] = "mail" -> 2

(* No worker goes round in circles: a lost race is followed by one more     *)
(* read and never by another write of the attestation (Confirm), so that    *)
(* every call brings it nearer to its end, whatever the others do.          *)
WorkEnds ==
  [][\A w \in Worker :
       /\ Work(w) => CallsLeft(w)' < CallsLeft(w)
       /\ CallsLeft(w)' > CallsLeft(w) => phase[w] = "idle"]_vars

(* WorkEnds, for any number of workers.                                     *)
THEOREM NoWorkerLoops == Spec => WorkEnds
<1> DEFINE Ends == \A w \in Worker :
              /\ Work(w) => CallsLeft(w)' < CallsLeft(w)
              /\ CallsLeft(w)' > CallsLeft(w) => phase[w] = "idle"
<1>1. RecoveryInv /\ RecoveryInv' /\ [Next]_vars => [Ends]_vars
  <2> SUFFICES ASSUME RecoveryInv, RecoveryInv', Next PROVE Ends
    OBVIOUS
  <2>1. /\ phase \in [Worker -> PhaseName] /\ phase' \in [Worker -> PhaseName]
    BY DEF RecoveryInv, RecoveryTypeOK, PhaseName
  <2>2. ASSUME NEW w \in Worker, Work(w)
        PROVE  CallsLeft(w)' < CallsLeft(w)
    <3>1. \/ phase[w] = "mail" /\ phase'[w] = "mailPut"
          \/ phase[w] \in {"mailPut", "deliverPut"} /\ phase'[w] = "idle"
          \/ phase[w] = "confirmPut" /\ phase'[w] \in {"deliver", "reread", "idle"}
          \/ phase[w] = "reread" /\ phase'[w] \in {"deliver", "idle"}
          \/ phase[w] = "deliver" /\ phase'[w] = "deliverPut"
      BY <2>1, <2>2 DEF Work, MailSend, MailPut, ConfirmPut, Reread, DeliverPut,
                        CounterSignFails, SendFails, SendSucceeds, Write,
                        Conflict, WriteAndLeave, Leave, Take, Read
    <3>2. QED
      BY <3>1 DEF CallsLeft
  <2>3. ASSUME NEW w \in Worker, phase[w] # "idle",
               ~(CallsLeft(w)' <= CallsLeft(w))
        PROVE  FALSE
    <3>1. CASE phase'[w] = phase[w]
      BY <2>1, <2>3, <3>1 DEF CallsLeft, PhaseName
    <3>2. CASE phase'[w] = "idle"
      BY <2>1, <2>3, <3>2 DEF CallsLeft, PhaseName
    <3>3. CASE Work(w)
      BY <2>1, <2>2, <2>3, <3>3 DEF CallsLeft, PhaseName
    <3>4. ASSUME NEW v \in Worker, v # w,
                 Submit(v) \/ Click(v) \/ Redeliver(v) \/ Work(v) \/ Crash(v)
          PROVE  phase'[w] = phase[w]
      BY <2>1, <3>4 DEF Submit, Click, Redeliver, Crash, Work, MailSend, MailPut,
                   ConfirmPut, Reread, DeliverPut, CounterSignFails, SendFails,
                   SendSucceeds, Write, Conflict, WriteAndLeave, Leave, Take, Read
    <3>5. CASE Submit(w) \/ Click(w) \/ Redeliver(w)
      BY <2>3, <3>5 DEF Submit, Click, Redeliver
    <3>6. CASE Crash(w)
      BY <2>1, <3>2, <3>6 DEF Crash, Leave
    <3>7. CASE Replace \/ Expire
      BY <3>1, <3>7 DEF Replace, Expire
    <3>8. QED
      BY <3>1, <3>3, <3>4, <3>5, <3>6, <3>7 DEF Next
  <2>4. QED
    <3>1. \A w \in Worker : CallsLeft(w) \in Nat /\ CallsLeft(w)' \in Nat
      BY <2>1 DEF CallsLeft, PhaseName
    <3>2. QED
      BY <2>2, <2>3, <3>1
<1>2. QED
  BY <1>1, RecoveryInvariant, PTL DEF Spec, WorkEnds
=============================================================================

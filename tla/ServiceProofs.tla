--------------------------- MODULE ServiceProofs ---------------------------
(***************************************************************************)
(* Proofs about Service, for any number of addresses, envelopes, tokens    *)
(* and requests, and with either form of lookup.                           *)
(***************************************************************************)
EXTENDS Service, RecoveryProofs

(* A process that is on its way out cleanly has no handler left, and stays  *)
(* without one: it accepts nothing any more.                                *)
CleanInv ==
  /\ exit = "clean" => server \in {"leaving", "down"}
  /\ CleanExitCutsNobody

(* The part of Verifications' types the argument needs.                     *)
Places ==
  /\ op \in [Request -> {"none", "inbox", "page", "submit", "redeliver"}]
  /\ pc \in [Request -> Pc]

-----------------------------------------------------------------------------
(* The service does nothing the verifications do not allow.                 *)

(* What a handler can still do without the store is part of what it can do. *)
LEMMA StepsWithoutStore ==
  ASSUME NEW r \in Request, StepWithoutStore(r)
  PROVE  Step(r)
<1>1. "error" \in PutOutcome
  BY DEF PutOutcome
<1>2. CASE \/ UpsertPut(r, "error") \/ MailPut(r, "error")
           \/ ConfirmPut(r, "error") \/ DeliverPut(r, "error")
  BY <1>1, <1>2 DEF Step
<1>3. CASE LookupFails(r) \/ CounterSignFails(r)
  <2>1. LookupFails(r) => NoRecordYet(r)
    BY DEF LookupFails, NoRecordYet
  <2>2. QED
    BY <1>3, <2>1 DEF Step
<1>4. CASE \E out, err \in BOOLEAN : MailSend(r, out, err) \/ DeliverSend(r, out, err)
  BY <1>4 DEF Step
<1>5. QED
  BY <1>2, <1>3, <1>4 DEF StepWithoutStore

(* A step of a handler is an arrival, a step or a crash of that handler.    *)
LEMMA HandlingKinds ==
  ASSUME NEW r \in Request, Handling(r)
  PROVE  Arrive(r) \/ Step(r) \/ Crash(r)
<1>1. CASE HttpArrive(r)
  BY <1>1 DEF HttpArrive, Arrive
<1>2. CASE \E a \in Address : Redeliver(r, a)
  BY <1>2 DEF Arrive
<1>3. CASE HttpStep(r)
  BY <1>3, StepsWithoutStore DEF HttpStep
<1>4. CASE CommandStep(r)
  BY <1>4 DEF CommandStep
<1>5. QED
  BY <1>1, <1>2, <1>3, <1>4 DEF Handling, Goes

(* What the process does of its own accord leaves the handlers alone.       *)
ProcessStep ==
  \/ Start \/ Signal \/ ServeFails \/ Own \/ DrainDue \/ Kill

LEMMA ProcessFrame == ProcessStep => UNCHANGED vars
  BY DEF ProcessStep, Start, Signal, ServeFails, Own, DrainDue, Kill,
         BuildFails, Build, BeginShutdown, DrainDone, DrainTimesOut,
         CloseStore, Exit

LEMMA ServiceNextKinds == ServiceNext => [Next]_vars
<1> SUFFICES ASSUME ServiceNext PROVE [Next]_vars
  OBVIOUS
<1>1. CASE ProcessStep
  BY <1>1, ProcessFrame
<1>2. ASSUME NEW r \in Request, Handling(r) PROVE Next
  BY <1>2, HandlingKinds DEF Next
<1>3. ASSUME NEW t \in Token, Expire(t) PROVE Next
  BY <1>3 DEF Next
<1>4. QED
  BY <1>1, <1>2, <1>3 DEF ServiceNext, ProcessStep

(* Whatever Verifications promises holds across restarts, drains, cut-off   *)
(* handlers and closed database handles (serveCmd, buildDomain).            *)
THEOREM ServiceImplements == ServiceSpec => RefinesVerifications
<1>1. ServiceInit => Init
  BY DEF ServiceInit
<1>2. [ServiceNext]_serviceVars => [Next]_vars
  BY ServiceNextKinds DEF serviceVars
<1>3. QED
  BY <1>1, <1>2, PTL DEF ServiceSpec, Spec, RefinesVerifications

(* What a handler does next, in the server or in the command, is a step of  *)
(* Verifications.                                                           *)
LEMMA GoesIsStep ==
  ASSUME NEW r \in Request, Goes(r)
  PROVE  Step(r)
  BY StepsWithoutStore DEF Goes, HttpStep, CommandStep

(* So restarts, drains, cut-off handlers, closed handles and the operator's *)
(* command beside them break none of the service's promises: what the       *)
(* records claim, what is told to the subject, the authority and the        *)
(* operator, and what an earlier write or a dead link may still do.         *)
THEOREM PromisesAcrossRestarts ==
  ServiceSpec => /\ []TypeOK
                 /\ []RecordTruthful
                 /\ []SuccessTruthful
                 /\ []AckMeansLinkOut
                 /\ []DurableOnceSeen
                 /\ AttestationNeverLost
                 /\ DeadLinksStayDead
                 /\ OnlyRedeliverReopens
  BY ServiceImplements, TypeCorrect, RecordsAreTruthful, SuccessIsTruthful,
     AcksAreTruthful, AttestationIsDurable, AttestationKept, DeadLinks,
     CompletedStays, PTL DEF RefinesVerifications

(* Every call of a handler brings it nearer to its end, with the database   *)
(* handle closed under it as with it open: a drain waits for no more than   *)
(* nine calls of each (Shutdown).                                           *)
HandlersShorten ==
  [][\A r \in Request :
       Goes(r) => CallsLeft(r)' < CallsLeft(r) /\ CallsLeft(r) <= 9]_serviceVars

(* HandlersShorten, for any requests and with either lookup.                *)
THEOREM HandlersGetOn == ServiceSpec => HandlersShorten
<1> DEFINE Shorten == \A r \in Request :
              Goes(r) => CallsLeft(r)' < CallsLeft(r) /\ CallsLeft(r) <= 9
<1>1. TypeOK => [Shorten]_serviceVars
  <2>1. ASSUME TypeOK, NEW r \in Request, Goes(r)
        PROVE  CallsLeft(r)' < CallsLeft(r) /\ CallsLeft(r) <= 9
    BY <2>1, GoesIsStep, StepShortens, CallsLeftType
  <2>2. QED
    BY <2>1
<1>2. QED
  BY <1>1, ServiceImplements, TypeCorrect, PTL
     DEF RefinesVerifications, HandlersShorten

-----------------------------------------------------------------------------
(* The life of the process.                                                 *)

(* Types of the process, with the handle open only while it serves, drains  *)
(* or leaves (serveCmd's deferred cleanup).                                 *)
THEOREM ServiceTypes == ServiceSpec => []ServiceTypeOK
<1>1. ServiceInit => ServiceTypeOK
  BY DEF ServiceInit, ServiceTypeOK
<1>2. ServiceTypeOK /\ [ServiceNext]_serviceVars => ServiceTypeOK'
  <2> SUFFICES ASSUME ServiceTypeOK, [ServiceNext]_serviceVars
               PROVE  ServiceTypeOK'
    OBVIOUS
  <2> USE DEF ServiceTypeOK
  <2>1. CASE UNCHANGED lifeVars
    BY <2>1 DEF lifeVars
  <2>2. CASE Start
    BY <2>2 DEF Start
  <2>3. CASE Signal
    BY <2>3 DEF Signal
  <2>4. CASE ServeFails
    BY <2>4 DEF ServeFails
  <2>5. CASE DrainDue
    BY <2>5 DEF DrainDue
  <2>6. CASE Kill
    BY <2>6 DEF Kill
  <2>7. CASE BuildFails
    BY <2>7 DEF BuildFails
  <2>8. CASE Build
    BY <2>8 DEF Build
  <2>9. CASE BeginShutdown \/ DrainDone \/ DrainTimesOut
    BY <2>9 DEF BeginShutdown, DrainDone, DrainTimesOut
  <2>10. CASE CloseStore
    BY <2>10 DEF CloseStore
  <2>11. CASE Exit
    BY <2>11 DEF Exit
  <2>12. QED
    BY <2>1, <2>2, <2>3, <2>4, <2>5, <2>6, <2>7, <2>8, <2>9, <2>10, <2>11
       DEF ServiceNext, Own, Handling, Goes, serviceVars
<1>3. QED
  BY <1>1, <1>2, PTL DEF ServiceSpec

(* The steps of serveCmd that a process has before it, at most.             *)
LifeLeft ==
  CASE server = "down" -> 0
    [] server = "leaving" -> IF storeOpen THEN 2 ELSE 1
    [] server = "draining" -> 3
    [] server = "serving" -> 4
    [] server = "starting" -> 5

(* Each step the process takes brings it nearer to its exit, and nothing    *)
(* but a new process puts it further away: no signal, handler or request    *)
(* makes it serve again once it drains, or open the handle once it is       *)
(* closed.  ShutdownEnds is this and fairness.                              *)
ProcessEnds ==
  [][/\ Own => LifeLeft' < LifeLeft
     /\ LifeLeft' > LifeLeft => Start]_serviceVars

(* ProcessEnds, for any requests.                                           *)
THEOREM NoServerLoops == ServiceSpec => ProcessEnds
<1> DEFINE Ends == /\ Own => LifeLeft' < LifeLeft
                   /\ LifeLeft' > LifeLeft => Start
<1>1. ASSUME ServiceTypeOK, ServiceNext PROVE Ends
  <2> USE <1>1 DEF ServiceTypeOK, LifeLeft
  <2>1. CASE UNCHANGED lifeVars
    <3>1. ~(LifeLeft' > LifeLeft)
      BY <2>1 DEF lifeVars
    <3>2. ~Own
      BY <2>1 DEF lifeVars, Own, BuildFails, Build, BeginShutdown, DrainDone,
                  DrainTimesOut, CloseStore, Exit
    <3> HIDE DEF LifeLeft
    <3>3. QED
      BY <3>1, <3>2
  <2>2. CASE Own
    BY <2>2 DEF Own, BuildFails, Build, BeginShutdown, DrainDone,
                DrainTimesOut, CloseStore, Exit
  <2>3. CASE Start
    BY <2>3 DEF Start, Own, BuildFails, Build, BeginShutdown, DrainDone,
                DrainTimesOut, CloseStore, Exit
  <2>4. CASE Signal \/ DrainDue
    BY <2>4 DEF Signal, DrainDue, Own, BuildFails, Build, BeginShutdown, DrainDone,
                DrainTimesOut, CloseStore, Exit
  <2>5. CASE ServeFails \/ Kill
    BY <2>5 DEF ServeFails, Kill
  <2>6. QED
    BY <2>1, <2>2, <2>3, <2>4, <2>5 DEF ServiceNext, Handling, Goes
<1>2. QED
  BY <1>1, ServiceTypes, PTL DEF ServiceSpec, ProcessEnds

(* A handler that is not running takes no step.                             *)
LEMMA StepRuns ==
  ASSUME NEW r \in Request, Step(r)
  PROVE  pc[r] \notin {"idle", "done"}
  BY DEF Step, NoRecordYet, UpsertPut, MailSend, MailPut, ViewRow,
         LookupFails, PageRead,
         Confirmation, ConfirmRead, ConfirmPut, ConfirmReread,
         CounterSignFails, DeliverSend, DeliverPut, LookupPc

(* What a step of one handler does to the places of all.                    *)
LEMMA HandlerPlaces ==
  ASSUME Places, NEW r \in Request, Arrive(r) \/ Step(r) \/ Crash(r)
  PROVE  /\ \E p \in Pc : pc' = [pc EXCEPT ![r] = p]
         /\ \E k \in {"none", "inbox", "page", "submit", "redeliver"} :
              op' = [op EXCEPT ![r] = k]
         /\ Arrive(r) \/ op' = op
<1> USE DEF Places, Pc, LookupPc, PutPc
<1>1. CASE Arrive(r)
  BY <1>1 DEF Arrive, ReceiveRejected, Receive, OpenLink, Redeliver, Begin,
              Goto, Answer
<1>2. CASE Crash(r)
  BY <1>2 DEF Crash, Answer
<1>3. CASE Step(r)
  <2>1. op' = op
    BY <1>3 DEF Step, NoRecordYet, UpsertPut, MailSend, MailPut, ViewRow, LookupFails,
                PageRead, Confirmation, ConfirmRead, ConfirmPut,
                ConfirmReread, CounterSignFails, DeliverSend, DeliverPut
  <2>2. \E p \in Pc : pc' = [pc EXCEPT ![r] = p]
    <3>1. CASE \E out \in PutOutcome : \/ UpsertPut(r, out) \/ MailPut(r, out)
                                       \/ ConfirmPut(r, out) \/ DeliverPut(r, out)
      BY <3>1 DEF UpsertPut, MailPut, ConfirmPut, DeliverPut, Goto, Answer
    <3>2. CASE ViewRow(r) \/ LookupFails(r) \/ PageRead(r) \/ CounterSignFails(r)
      BY <3>2 DEF ViewRow, LookupFails, PageRead, CounterSignFails, Goto, Answer
    <3>3. CASE ConfirmRead(r) \/ ConfirmReread(r)
      BY <3>3 DEF ConfirmRead, ConfirmReread, Goto, Answer
    <3>4. CASE \E accept \in BOOLEAN : Confirmation(r, accept)
      BY <3>4 DEF Confirmation, Goto, Answer
    <3>5. CASE \E out, err \in BOOLEAN : MailSend(r, out, err) \/ DeliverSend(r, out, err)
      BY <3>5 DEF MailSend, DeliverSend, Goto
    <3>6. QED
      BY <1>3, <3>1, <3>2, <3>3, <3>4, <3>5 DEF Step, NoRecordYet
  <2>3. op' = [op EXCEPT ![r] = op[r]]
    BY <2>1
  <2>4. op[r] \in {"none", "inbox", "page", "submit", "redeliver"}
    OBVIOUS
  <2>5. QED
    BY <2>1, <2>2, <2>3, <2>4
<1>4. QED
  BY <1>1, <1>2, <1>3

LEMMA PlacesStep == Places /\ [Next]_vars => Places'
<1> SUFFICES ASSUME Places, [Next]_vars PROVE Places'
  OBVIOUS
<1>1. ASSUME NEW r \in Request, Arrive(r) \/ Step(r) \/ Crash(r)
      PROVE  Places'
  BY <1>1, HandlerPlaces DEF Places
<1>2. ASSUME NEW t \in Token, Expire(t) PROVE Places'
  BY <1>2 DEF Expire, localVars, Places
<1>3. CASE UNCHANGED vars
  BY <1>3 DEF vars, Places
<1>4. QED
  BY <1>1, <1>2, <1>3 DEF Next

(* After a drain that succeeded no handler begins and none is left to step. *)
LEMMA HandlingClean ==
  ASSUME Places, CleanInv, NEW r \in Request, Handling(r)
  PROVE  CleanInv'
<1>1. UNCHANGED lifeVars
  BY DEF Handling, Goes
<1>2. CASE exit # "clean"
  BY <1>1, <1>2 DEF CleanInv, CleanExitCutsNobody, lifeVars
<1>3. CASE exit = "clean"
  <2>1. server \in {"leaving", "down"} /\ Quiet
    BY <1>3 DEF CleanInv, CleanExitCutsNobody
  <2>2. ~HttpArrive(r)
    BY <1>3, <2>1 DEF HttpArrive, Accepting
  <2>3. ~HttpStep(r)
    <3>1. HttpStep(r) => Step(r) /\ Http(r)
      BY StepsWithoutStore DEF HttpStep
    <3>2. QED
      BY <2>1, <3>1, StepRuns DEF Quiet, Running
  <2>4. CASE (\E a \in Address : Redeliver(r, a)) \/ CommandStep(r)
    <3>1. op' = [op EXCEPT ![r] = "redeliver"]
      <4>1. CASE \E a \in Address : Redeliver(r, a)
        BY <4>1 DEF Redeliver
      <4>2. CASE CommandStep(r)
        <5>1. op' = op /\ op[r] = "redeliver"
          BY <4>2 DEF CommandStep, Step, NoRecordYet, UpsertPut, MailSend, MailPut, ViewRow,
                      LookupFails, PageRead, Confirmation, ConfirmRead,
                      ConfirmPut, ConfirmReread, CounterSignFails,
                      DeliverSend, DeliverPut
        <5>2. QED
          BY <5>1 DEF Places
      <4>3. QED
        BY <2>4, <4>1, <4>2
    <3>2. \E p \in Pc : pc' = [pc EXCEPT ![r] = p]
      BY <2>4, HandlerPlaces DEF CommandStep, Arrive
    <3>3. Quiet'
      BY <2>1, <3>1, <3>2 DEF Quiet, Running, Http, Places
    <3>4. QED
      BY <1>1, <2>1, <3>3 DEF CleanInv, CleanExitCutsNobody, lifeVars
  <2>5. CASE Crash(r)
    <3>1. pc' = [pc EXCEPT ![r] = "done"] /\ op' = op
      BY <2>5 DEF Crash, Answer
    <3>2. Quiet'
      BY <2>1, <3>1 DEF Quiet, Running, Http, Places
    <3>3. QED
      BY <1>1, <2>1, <3>2 DEF CleanInv, CleanExitCutsNobody, lifeVars
  <2>6. QED
    BY <2>2, <2>3, <2>4, <2>5 DEF Handling, Goes
<1>4. QED
  BY <1>2, <1>3

LEMMA ProcessClean ==
  ASSUME CleanInv, ProcessStep
  PROVE  CleanInv'
<1>1. Quiet' = Quiet
  BY ProcessFrame DEF vars, Quiet, Running, Http
<1>2. CASE Start \/ Signal \/ ServeFails \/ DrainDue \/ Kill
  BY <1>1, <1>2 DEF CleanInv, CleanExitCutsNobody, Start, Signal, ServeFails,
                    DrainDue, Kill
<1>3. CASE Own
  BY <1>1, <1>3 DEF CleanInv, CleanExitCutsNobody, Own, BuildFails, Build,
                    BeginShutdown, DrainDone, DrainTimesOut, CloseStore, Exit
<1>4. QED
  BY <1>2, <1>3 DEF ProcessStep

(* A process that exits with status 0 cut no handler off (serveCmd).        *)
THEOREM CleanExitIsClean == ServiceSpec => []CleanExitCutsNobody
<1>1. ServiceInit => Places /\ CleanInv
  BY DEF ServiceInit, Init, Places, Pc, CleanInv, CleanExitCutsNobody
<1>2. Places /\ CleanInv /\ [ServiceNext]_serviceVars => (Places /\ CleanInv)'
  <2> SUFFICES ASSUME Places, CleanInv, [ServiceNext]_serviceVars
               PROVE  Places' /\ CleanInv'
    OBVIOUS
  <2>1. Places'
    BY PlacesStep, ServiceNextKinds DEF serviceVars
  <2>2. CASE ProcessStep
    BY <2>1, <2>2, ProcessClean
  <2>3. ASSUME NEW r \in Request, Handling(r) PROVE CleanInv'
    BY <2>3, HandlingClean
  <2>4. ASSUME UNCHANGED <<op, pc, lifeVars>> PROVE CleanInv'
    <3>1. Quiet' = Quiet
      BY <2>4 DEF Quiet, Running, Http
    <3>2. QED
      BY <2>4, <3>1 DEF CleanInv, CleanExitCutsNobody, lifeVars
  <2>5. ASSUME NEW t \in Token, Expire(t), UNCHANGED lifeVars
        PROVE  CleanInv'
    BY <2>4, <2>5 DEF Expire, localVars
  <2>6. CASE UNCHANGED serviceVars
    BY <2>1, <2>4, <2>6 DEF serviceVars, vars
  <2>7. QED
    BY <2>1, <2>2, <2>3, <2>5, <2>6 DEF ServiceNext, ProcessStep
<1>3. CleanInv => CleanExitCutsNobody
  BY DEF CleanInv
<1>4. QED
  BY <1>1, <1>2, <1>3, PTL DEF ServiceSpec
=============================================================================

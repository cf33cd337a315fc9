-------------------------- MODULE DeliveryProofs --------------------------
(***************************************************************************)
(* Send of the sender goes over vetted connections only and, as long as no *)
(* redirect turns its POST into a GET, implements Exchange, for any        *)
(* addresses and any limit on redirects.                                   *)
(***************************************************************************)
EXTENDS Delivery, TLAPS

(* What is left to dial was vetted; a 202 to a POST was given for what was  *)
(* taken; a GET comes of a 303, and a redirect of the kind never leads back *)
(* to a POST.                                                               *)
VettedInv == step = "dial" => ips \subseteq Public
AnswerInv == step = "classify" /\ status = 202 => taken \/ method = "GET"
MethodInv == method = "GET" => 303 \in Redirects

DeliveryInv ==
  /\ DeliveryTypeOK /\ DialsOnlyVetted
  /\ VettedInv /\ AnswerInv /\ MethodInv

(* Inductive: a lookup that finds anything else ends Send, and Dial only    *)
(* takes from what the lookup left.                                         *)
THEOREM DeliveryInvariant == Spec => []DeliveryInv
<1>1. Init => DeliveryInv
  <2> SUFFICES ASSUME Init PROVE DeliveryInv
    OBVIOUS
  <2>1. hops \in 0..MaxRedirects
    BY DeliveryAssumption DEF Init
  <2>2. DeliveryTypeOK
    BY <2>1, DeliveryAssumption, Zenon DEF Init, DeliveryTypeOK, Step, Outcome
  <2>3. DialsOnlyVetted /\ VettedInv /\ AnswerInv /\ MethodInv
    BY DEF Init, DialsOnlyVetted, VettedInv, AnswerInv, MethodInv
  <2> QED
    BY <2>2, <2>3 DEF DeliveryInv
<1>2. DeliveryInv /\ [Next]_vars => DeliveryInv'
  <2> SUFFICES ASSUME DeliveryInv, [Next]_vars PROVE DeliveryInv'
    OBVIOUS
  <2> USE DeliveryAssumption
      DEF DeliveryInv, DeliveryTypeOK, DialsOnlyVetted, VettedInv,
          AnswerInv, MethodInv, Step, Outcome
  <2>1. CASE Prepare
    BY <2>1 DEF Prepare
  <2>2. CASE Connect
    BY <2>2 DEF Connect
  <2>3. ASSUME NEW found \in SUBSET IP, Lookup(found) PROVE DeliveryInv'
    BY <2>3 DEF Lookup
  <2>4. CASE Dial
    BY <2>4 DEF Dial
  <2>5. CASE Request
    BY <2>5 DEF Request
  <2>6. CASE FollowRedirect
    BY <2>6 DEF FollowRedirect
  <2>7. CASE Classify
    BY <2>7 DEF Classify, Classified, Status
  <2>8. CASE TimedOut
    BY <2>8 DEF TimedOut
  <2>9. CASE Break
    BY <2>9 DEF Break
  <2>10. CASE Take
    BY <2>10 DEF Take
  <2>11. CASE Answer
    BY <2>11 DEF Answer, Status
  <2>12. CASE Deadline
    BY <2>12 DEF Deadline
  <2>13. CASE UNCHANGED vars
    BY <2>13 DEF vars
  <2> QED
    BY <2>1, <2>2, <2>3, <2>4, <2>5, <2>6, <2>7, <2>8, <2>9, <2>10, <2>11, <2>12, <2>13
    DEF Next, Send, Resolve
<1> QED
  BY <1>1, <1>2, PTL DEF Spec

(* Types, among them that a request is sent only over a connection: a       *)
(* lookup without addresses does not get that far (safeDialContext).        *)
THEOREM DeliveryTypes == Spec => []DeliveryTypeOK
BY DeliveryInvariant, PTL DEF DeliveryInv

(* Every connection goes to an address that passed isPublicIP in the lookup *)
(* made for it, through any number of redirects.                            *)
THEOREM ConnectionsAreVetted == Spec => []DialsOnlyVetted
BY DeliveryInvariant, PTL DEF DeliveryInv

(* Send implements Exchange but for the success of a GET: a nil of the POST *)
(* means that an inbox took the envelope.                                   *)
THEOREM SuccessOfPostIsTaken == Spec => ExchangeUnlessRedirected
<1>1. Init => Promise!Init
  BY DEF Init, Promise!Init, Returned
<1> DEFINE Allowed == SuccessOfGet \/ Promise!Next \/ UNCHANGED Promise!vars
<1>2. DeliveryInv /\ [Next]_vars => Allowed
  <2> SUFFICES ASSUME DeliveryInv, [Next]_vars PROVE Allowed
    OBVIOUS
  <2> USE DEF SuccessOfGet, Promise!Next, Promise!vars, Returned
  <2>1. CASE Prepare
    BY <2>1 DEF Prepare, Promise!Fail
  <2>2. CASE Connect
    BY <2>2 DEF Connect
  <2>3. ASSUME NEW found \in SUBSET IP, Lookup(found)
        PROVE Allowed
    BY <2>3 DEF Lookup, Promise!Fail
  <2>4. CASE Dial
    BY <2>4 DEF Dial, Promise!Fail
  <2>5. CASE Request
    BY <2>5 DEF Request
  <2>6. CASE FollowRedirect
    BY <2>6 DEF FollowRedirect, Promise!Fail
  <2>7. CASE Classify
    BY <2>7 DEF Classify, Classified, Promise!Succeed, Promise!Fail,
                  DeliveryInv, AnswerInv
  <2>8. CASE TimedOut
    BY <2>8 DEF TimedOut, Promise!Fail
  <2>9. CASE Break
    BY <2>9 DEF Break, Promise!Fail
  <2>10. CASE Take
    BY <2>10 DEF Take, Promise!Take
  <2>11. CASE Answer
    BY <2>11 DEF Answer
  <2>12. CASE Deadline
    BY <2>12 DEF Deadline
  <2>13. CASE UNCHANGED vars
    BY <2>13 DEF vars
  <2> QED
    BY <2>1, <2>2, <2>3, <2>4, <2>5, <2>6, <2>7, <2>8, <2>9, <2>10, <2>11, <2>12, <2>13
    DEF Next, Send, Resolve
<1> QED
  BY <1>1, <1>2, DeliveryInvariant, PTL DEF Spec, ExchangeUnlessRedirected

(* Where no host answers the POST with a redirect that makes it a GET, Send *)
(* implements Exchange, which is what Verifications makes of a 202.         *)
THEOREM DeliveryImplementsExchange ==
  ASSUME 303 \notin Redirects
  PROVE  Spec => Promise!Spec
<1>1. DeliveryInv => ~SuccessOfGet
  BY DEF DeliveryInv, DeliveryTypeOK, MethodInv, SuccessOfGet
<1>2. /\ DeliveryInv
      /\ [SuccessOfGet \/ Promise!Next \/ UNCHANGED Promise!vars]_vars
      => [Promise!Next]_(Promise!vars)
  BY <1>1, Zenon DEF vars, Promise!vars, Returned
<1> QED
  BY <1>2, DeliveryInvariant, SuccessOfPostIsTaken, PTL
  DEF ExchangeUnlessRedirected, Promise!Spec

-----------------------------------------------------------------------------
(* Send goes forward.                                                       *)
Place == [prepare |-> 0, connect |-> 1, lookup |-> 2, dial |-> 3,
          request |-> 4, answer |-> 5, classify |-> 6]

(* It returns, follows one more of a bounded number of redirects, comes to  *)
(* a later place, or has one address less to dial.                          *)
Advance ==
  \/ outcome' # "none"
  \/ hops < hops' /\ hops' <= MaxRedirects
  \/ hops' = hops /\ Place[step] < Place[step']
  \/ hops' = hops /\ step' = step /\ ips' \subseteq ips /\ ips' # ips

(* Redirects that lead in circles, names that resolve to many addresses and *)
(* hosts that fail one after the other do not keep Send going: each thing   *)
(* it does and each answer it gets is an advance, nothing else moves it,    *)
(* and what it returned it has returned (Send, safeDialContext).            *)
SendAdvances ==
  [][/\ Send \/ Resolve \/ Break \/ Answer => outcome = "none" /\ Advance
     /\ Take \/ Deadline => UNCHANGED <<step, hops, ips, outcome>>]_vars

(* SendAdvances holds, for any addresses and any limit on redirects.        *)
THEOREM NoRedirectLoops == Spec => SendAdvances
<1> DEFINE Moves == Send \/ Resolve \/ Break \/ Answer
<1>1. ASSUME DeliveryTypeOK, Moves PROVE outcome = "none" /\ Advance
  <2> USE DEF Advance, Place
  <2>1. CASE Prepare
    BY <2>1 DEF Prepare
  <2>2. CASE Connect
    BY <2>2 DEF Connect
  <2>3. CASE Resolve
    BY <2>3 DEF Resolve, Lookup
  <2>4. CASE Dial
    BY <2>4 DEF Dial
  <2>5. CASE Request
    BY <2>5 DEF Request
  <2>6. CASE FollowRedirect
    BY <1>1, <2>6, DeliveryAssumption DEF FollowRedirect, DeliveryTypeOK
  <2>7. CASE Classify
    BY <2>7 DEF Classify, Classified
  <2>8. CASE TimedOut \/ Break
    BY <2>8 DEF TimedOut, Break
  <2>9. CASE Answer
    BY <2>9 DEF Answer
  <2> HIDE DEF Advance, Place
  <2> QED
    BY <1>1, <2>1, <2>2, <2>3, <2>4, <2>5, <2>6, <2>7, <2>8, <2>9 DEF Send
<1>2. Take \/ Deadline => UNCHANGED <<step, hops, ips, outcome>>
  BY DEF Take, Deadline
<1> QED
  BY <1>1, <1>2, DeliveryTypes, PTL DEF SendAdvances
=============================================================================

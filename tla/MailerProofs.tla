--------------------------- MODULE MailerProofs ---------------------------
(***************************************************************************)
(* Send of the mailer leaves no connection behind, keeps what it sends     *)
(* encrypted when the server offers it, and implements Exchange, whatever  *)
(* the server answers or leaves unanswered.                                *)
(***************************************************************************)
EXTENDS Mailer, Naturals, TLAPS

(* Where Send is once the server's offer is dealt with.                     *)
LateStep == {"ehloTLS", "auth", "mail", "rcpt", "data", "body", "terminator", "quit"}

(* An offer is made in the answer to EHLO, and past it the exchange is      *)
(* encrypted or about to fail of the lost answer; the message is taken only *)
(* at the end.                                                              *)
OfferInv ==
  /\ offered => step \in LateStep \cup {"ehlo", "starttls"}
  /\ offered /\ step = "ehlo" => wire \in {"accepted", "lost"}
  /\ offered /\ step \in LateStep =>
       secured \/ (step \in {"auth", "mail"} /\ wire = "lost")
  /\ taken => step \in {"log", "terminator", "quit"}

(* Send goes past the terminating dot only with the server's yes, and has   *)
(* nothing else to be content with.                                         *)
TakenInv ==
  /\ step = "body" => wire = "quiet"
  /\ step = "terminator" /\ wire = "accepted" => taken
  /\ step = "quit" => taken
  /\ result = "ok" => taken

(* The smtp client is there with its Close deferred, and whoever returns    *)
(* without one has no connection open.                                      *)
CloseInv ==
  /\ deferred <=> step \in ClientStep \cup {"ehlo", "helo"}
  /\ result # "none" /\ ~deferred => conn # "open"
  /\ ConnectionReleased

MailInv == TypeOK /\ CloseInv /\ OfferInv /\ TakenInv

(* The commands that Proceed follows, and what it follows them with.        *)
LEMMA FollowingIs ==
  /\ DOMAIN Following = {"auth", "mail", "rcpt", "data", "terminator"}
  /\ Following["auth"] = "mail"
  /\ Following["mail"] = "rcpt" /\ Following["rcpt"] = "data"
  /\ Following["data"] = "body" /\ Following["terminator"] = "quit"
BY DEF Following

LEMMA StepIs ==
  Step = {"greeting", "auth", "mail", "rcpt", "data", "terminator", "ehlo", "helo",
          "starttls", "ehloTLS", "quit", "start", "log", "dial", "setDeadline", "body"}
BY FollowingIs DEF Step, Command

(* What every state keeps, and every step.                                  *)
THEOREM MailInvariant == Spec => []MailInv
<1>1. Init => MailInv
  BY StepIs DEF Init, MailInv, TypeOK, CloseInv, ConnectionReleased, OfferInv,
                TakenInv, LateStep, ClientStep
<1>2. MailInv /\ [Next]_vars => MailInv'
  <2> SUFFICES ASSUME MailInv, [Next]_vars PROVE MailInv'
    OBVIOUS
  <2> USE StepIs, FollowingIs
      DEF At, facts, socket, returns, ClientStep, MailInv, TypeOK, CloseInv, ConnectionReleased, OfferInv,
          TakenInv, LateStep
  <2>1. CASE Start
    BY <2>1 DEF Start
  <2>2. CASE Log
    BY <2>2 DEF Log
  <2>3. CASE Connected
    BY <2>3 DEF Connected
  <2>4. CASE SetDeadline
    BY <2>4 DEF SetDeadline
  <2>5. CASE Greeted
    BY <2>5 DEF Greeted
  <2>6. CASE Issue
    BY <2>6 DEF Issue, Command
  <2>7. CASE Extension
    BY <2>7 DEF Extension, Login
  <2>8. CASE ExtensionDropped
    BY <2>8 DEF ExtensionDropped, Login
  <2>9. CASE StartTLS
    BY <2>9 DEF StartTLS
  <2>10. CASE LoggingIn
    BY <2>10 DEF LoggingIn, Login
  <2>11. CASE Proceed
    BY <2>11 DEF Proceed
  <2>12. CASE Body
    BY <2>12 DEF Body
  <2>13. CASE Quit
    BY <2>13 DEF Quit
  <2>14. CASE DialFails
    BY <2>14 DEF DialFails
  <2>15. CASE SetDeadlineFails
    BY <2>15 DEF SetDeadlineFails
  <2>16. CASE GreetingFails
    BY <2>16 DEF GreetingFails
  <2>17. CASE Fail
    BY <2>17 DEF Fail
  <2>18. CASE Return
    <3>1. conn' # "open" /\ (conn' = "none" <=> conn = "none")
      BY <2>18 DEF Return
    <3>2. QED
      BY <2>18, <3>1 DEF Return
  <2>19. CASE Take
    BY <2>19 DEF Take
  <2>20. CASE Answer
    BY <2>20 DEF Answer
  <2>21. CASE Deadline
    BY <2>21 DEF Deadline
  <2>22. CASE UNCHANGED vars
    BY <2>22 DEF vars
  <2> QED
    BY <2>1, <2>2, <2>3, <2>4, <2>5, <2>6, <2>7, <2>8, <2>9, <2>10, <2>11,
       <2>12, <2>13, <2>14, <2>15, <2>16, <2>17, <2>18, <2>19, <2>20, <2>21,
       <2>22
    DEF Next, Send
<1> QED
  BY <1>1, <1>2, PTL DEF Spec

(* Types, among them that a connection exists exactly from the dial on.     *)
THEOREM MailTypes == Spec => []TypeOK
BY MailInvariant, PTL DEF MailInv

(* No call of Send, failing or not, leaves its connection open: each way    *)
(* out before the deferred Close exists closes for itself, and the Close is *)
(* deferred before any other way out.                                       *)
THEOREM NoConnectionLeft == Spec => []ConnectionReleased
BY MailInvariant, PTL DEF MailInv, CloseInv

(* No message leaves in the clear to a server that offered STARTTLS.        *)
THEOREM OfferIsTaken == Spec => []EncryptedIfOffered
<1>1. MailInv => EncryptedIfOffered
  BY DEF MailInv, OfferInv, EncryptedIfOffered, LateStep
<1> QED
  BY <1>1, MailInvariant, PTL

(* Send over SMTP or to the log implements Exchange: nil means that the     *)
(* message is out, which is what MailSend of Verifications assumes.         *)
THEOREM MailerImplementsExchange == Spec => RefinesExchange
<1>1. Init => Promise!Init
  BY DEF Init, Promise!Init
<1>2. MailInv /\ [Next]_vars => [Promise!Next]_(Promise!vars)
  <2> SUFFICES ASSUME MailInv, [Next]_vars
               PROVE [Promise!Next]_(Promise!vars)
    OBVIOUS
  <2> USE DEF At, facts, socket, returns, Promise!Next, Promise!vars
  <2>1. CASE Start
    BY <2>1 DEF Start
  <2>2. CASE Log
    BY <2>2 DEF Log, Promise!Take, MailInv, TypeOK
  <2>3. CASE Connected
    BY <2>3 DEF Connected
  <2>4. CASE SetDeadline
    BY <2>4 DEF SetDeadline
  <2>5. CASE Greeted
    BY <2>5 DEF Greeted
  <2>6. CASE Issue
    BY <2>6 DEF Issue
  <2>7. CASE Extension
    BY <2>7 DEF Extension
  <2>8. CASE ExtensionDropped
    BY <2>8 DEF ExtensionDropped
  <2>9. CASE StartTLS
    BY <2>9 DEF StartTLS
  <2>10. CASE LoggingIn
    BY <2>10 DEF LoggingIn
  <2>11. CASE Proceed
    BY <2>11 DEF Proceed
  <2>12. CASE Body
    BY <2>12 DEF Body
  <2>13. CASE Quit
    BY <2>13 DEF Quit
  <2>14. CASE DialFails
    BY <2>14 DEF DialFails
  <2>15. CASE SetDeadlineFails
    BY <2>15 DEF SetDeadlineFails
  <2>16. CASE GreetingFails
    BY <2>16 DEF GreetingFails
  <2>17. CASE Fail
    BY <2>17 DEF Fail
  <2>18. CASE Return
    BY <2>18 DEF Return, Promise!Fail, Promise!Succeed, MailInv, TypeOK, TakenInv
  <2>19. CASE Take
    BY <2>19 DEF Take, Promise!Take
  <2>20. CASE Answer
    BY <2>20 DEF Answer
  <2>21. CASE Deadline
    BY <2>21 DEF Deadline
  <2>22. CASE UNCHANGED vars
    BY <2>22 DEF vars
  <2> QED
    BY <2>1, <2>2, <2>3, <2>4, <2>5, <2>6, <2>7, <2>8, <2>9, <2>10, <2>11,
       <2>12, <2>13, <2>14, <2>15, <2>16, <2>17, <2>18, <2>19, <2>20, <2>21,
       <2>22
    DEF Next, Send
<1> QED
  BY <1>1, <1>2, MailInvariant, PTL DEF Spec, RefinesExchange, Promise!Spec

-----------------------------------------------------------------------------
(* Send waits for the server only with a deadline, and goes forward.        *)

(* The wait for an answer ends at the deadline: the dial has the context,   *)
(* every command the deadline that SetDeadline put on the connection before *)
(* the first of them, TLS or not (Send).                                    *)
EveryWaitEnds == wire = "asked" /\ result = "none" /\ due => Unanswered

(* The connection is armed before anything is read from it, and is closed   *)
(* only to return.                                                          *)
ArmedInv ==
  /\ step \in {"start", "log"} => wire = "quiet"
  /\ step = "setDeadline" => wire = "quiet"
  /\ conn = "open" /\ step # "setDeadline" => armed
  /\ conn = "closed" => result # "none"

(* No silence of the server is without an end: what DeadlineBoundsSend      *)
(* rests on, apart from fairness.                                           *)
THEOREM WaitsAreBounded == Spec => []EveryWaitEnds
<1>1. Init => ArmedInv
  BY DEF Init, ArmedInv
<1>2. MailInv /\ MailInv' /\ ArmedInv /\ [Next]_vars => ArmedInv'
  <2> SUFFICES ASSUME MailInv, MailInv', ArmedInv, [Next]_vars PROVE ArmedInv'
    OBVIOUS
  <2> USE StepIs, FollowingIs
      DEF At, facts, socket, returns, ClientStep, MailInv, TypeOK, ArmedInv
  <2>1. CASE Start
    BY <2>1 DEF Start
  <2>2. CASE Log
    BY <2>2 DEF Log
  <2>3. CASE Connected
    BY <2>3 DEF Connected
  <2>4. CASE SetDeadline
    BY <2>4 DEF SetDeadline
  <2>5. CASE Greeted
    BY <2>5 DEF Greeted
  <2>6. CASE Issue
    BY <2>6 DEF Issue, Command
  <2>7. CASE Extension
    BY <2>7 DEF Extension, Login
  <2>8. CASE ExtensionDropped
    BY <2>8 DEF ExtensionDropped, Login
  <2>9. CASE StartTLS
    BY <2>9 DEF StartTLS
  <2>10. CASE LoggingIn
    BY <2>10 DEF LoggingIn, Login
  <2>11. CASE Proceed
    BY <2>11 DEF Proceed
  <2>12. CASE Body
    BY <2>12 DEF Body
  <2>13. CASE Quit
    BY <2>13 DEF Quit
  <2>14. CASE DialFails
    BY <2>14 DEF DialFails
  <2>15. CASE SetDeadlineFails
    BY <2>15 DEF SetDeadlineFails
  <2>16. CASE GreetingFails
    BY <2>16 DEF GreetingFails
  <2>17. CASE Fail
    BY <2>17 DEF Fail
  <2>18. CASE Return
    BY <2>18 DEF Return
  <2>19. CASE Take
    BY <2>19 DEF Take
  <2>20. CASE Answer
    BY <2>20 DEF Answer
  <2>21. CASE Deadline
    BY <2>21 DEF Deadline
  <2>22. CASE UNCHANGED vars
    BY <2>22 DEF vars
  <2> QED
    BY <2>1, <2>2, <2>3, <2>4, <2>5, <2>6, <2>7, <2>8, <2>9, <2>10, <2>11,
       <2>12, <2>13, <2>14, <2>15, <2>16, <2>17, <2>18, <2>19, <2>20, <2>21,
       <2>22
    DEF Next, Send
<1>3. MailInv /\ ArmedInv => EveryWaitEnds
  BY DEF MailInv, TypeOK, ArmedInv, EveryWaitEnds, Unanswered
<1> QED
  BY <1>1, <1>2, <1>3, MailInvariant, PTL DEF Spec

(* The commands in their order; an offer of TLS is a detour.                *)
Stage == [start |-> 0, log |-> 1, dial |-> 1, setDeadline |-> 2, greeting |-> 3,
          ehlo |-> 4, helo |-> 5, starttls |-> 5, ehloTLS |-> 6, auth |-> 7,
          mail |-> 8, rcpt |-> 9, data |-> 10, body |-> 11, terminator |-> 12,
          quit |-> 13]

Waited == [quiet |-> 0, asked |-> 1, accepted |-> 2, refused |-> 2, lost |-> 2]

Advance ==
  \/ outcome' # "none"
  \/ result = "none" /\ result' # "none"
  \/ Stage[step] < Stage[step']
  \/ step' = step /\ Waited[wire] < Waited[wire']

(* Send issues each command once: whatever it is answered it goes on to a   *)
(* later one or returns, so a message goes out once at most, and what it    *)
(* returned it has returned, however late the server takes or answers.      *)
SendAdvances ==
  [][/\ Send => outcome = "none" /\ Advance
     /\ Answer => Waited[wire] < Waited[wire'] /\ UNCHANGED <<step, returns>>
     /\ Take \/ Deadline => UNCHANGED <<step, wire, returns>>]_vars

(* SendAdvances holds, whatever the server answers or leaves unanswered.    *)
THEOREM NoCommandTwice == Spec => SendAdvances
<1>1. ASSUME TypeOK, Send PROVE outcome = "none" /\ Advance
  <2> USE <1>1, StepIs, FollowingIs
      DEF At, facts, socket, returns, ClientStep, TypeOK, Advance, Stage, Waited
  <2>1. CASE Start
    BY <2>1 DEF Start
  <2>2. CASE Log
    BY <2>2 DEF Log
  <2>3. CASE Connected
    BY <2>3 DEF Connected
  <2>4. CASE SetDeadline
    BY <2>4 DEF SetDeadline
  <2>5. CASE Greeted
    BY <2>5 DEF Greeted
  <2>6. CASE Issue
    BY <2>6 DEF Issue
  <2>7. CASE Extension
    BY <2>7 DEF Extension, Login
  <2>8. CASE ExtensionDropped
    BY <2>8 DEF ExtensionDropped, Login
  <2>9. CASE StartTLS
    BY <2>9 DEF StartTLS
  <2>10. CASE LoggingIn
    BY <2>10 DEF LoggingIn, Login
  <2>11. CASE Proceed
    BY <2>11 DEF Proceed
  <2>12. CASE Body
    BY <2>12 DEF Body
  <2>13. CASE Quit
    BY <2>13 DEF Quit
  <2>14. CASE DialFails
    BY <2>14 DEF DialFails
  <2>15. CASE SetDeadlineFails
    BY <2>15 DEF SetDeadlineFails
  <2>16. CASE GreetingFails
    BY <2>16 DEF GreetingFails
  <2>17. CASE Fail
    BY <2>17 DEF Fail
  <2>18. CASE Return
    BY <2>18 DEF Return
  <2> QED
    BY <1>1, <2>1, <2>2, <2>3, <2>4, <2>5, <2>6, <2>7, <2>8, <2>9, <2>10,
       <2>11, <2>12, <2>13, <2>14, <2>15, <2>16, <2>17, <2>18
    DEF Send
<1>2. Answer => Waited[wire] < Waited[wire'] /\ UNCHANGED <<step, returns>>
  BY DEF Answer, Waited, returns
<1>3. Take \/ Deadline => UNCHANGED <<step, wire, returns>>
  BY DEF Take, Deadline, returns
<1> QED
  BY <1>1, <1>2, <1>3, MailTypes, PTL DEF SendAdvances
=============================================================================

------------------------------ MODULE Mailer ------------------------------
(***************************************************************************)
(* One Send of the mailer: over SMTP to a server that may accept, refuse,  *)
(* break off or keep silent at every command, or to the log.  net/smtp     *)
(* knows no context; only the deadline on the connection ends a wait.      *)
(***************************************************************************)
VARIABLES
  mailer,     \* how buildMailer and the message are: the transport, and
              \* whether there is a username and a destination
  step,       \* the call Send is in; once it returned, the one it ended in
  wire,       \* the pending command: none, with the server, or its answer
  conn,       \* Send's end of the connection
  deferred,   \* Send has deferred the Close of the smtp client
  armed,      \* the deadline is set on the connection
  due,        \* the deadline has passed
  offered,    \* the server answered EHLO with STARTTLS on its list
  secured,    \* the commands travel under TLS
  taken,      \* the server (the log) has the message
  result,     \* what Send is about to return: none while it goes on
  outcome     \* what Send returned

vars == <<mailer, step, wire, conn, deferred, armed, due, offered, secured,
          taken, result, outcome>>

socket == <<conn, deferred, armed>>
facts == <<mailer, due, offered, secured, taken>>
returns == <<result, outcome>>

(* The commands with a follower of their own; the others are branches.      *)
Following == [auth |-> "mail", mail |-> "rcpt", rcpt |-> "data",
              data |-> "body", terminator |-> "quit"]

Command == DOMAIN Following \cup {"ehlo", "helo", "starttls", "ehloTLS", "quit"}

Step == Command \cup {"start", "log", "dial", "setDeadline", "greeting", "body"}

Login == IF mailer.username THEN "auth" ELSE "mail"

Init ==
  /\ mailer \in [transport : {"log", "smtp"}, username : BOOLEAN, to : BOOLEAN]
  /\ step = "start" /\ wire = "quiet"
  /\ conn = "none" /\ deferred = FALSE
  /\ armed = FALSE /\ due = FALSE
  /\ offered = FALSE /\ secured = FALSE /\ taken = FALSE
  /\ result = "none" /\ outcome = "none"

-----------------------------------------------------------------------------
(* Send.                                                                    *)

(* Send is at one of the given calls and has no result yet.                 *)
At(calls) == step \in calls /\ result = "none"

Start ==
  /\ At({"start"})
  /\ \/ /\ mailer.transport = "log"
        /\ step' = "log" /\ UNCHANGED <<wire, result>>
     \/ /\ mailer.transport = "smtp" /\ ~mailer.to
        /\ result' = "error" /\ UNCHANGED <<step, wire>>
     \/ /\ mailer.transport = "smtp" /\ mailer.to
        /\ step' = "dial" /\ wire' = "asked" /\ UNCHANGED result
  /\ UNCHANGED <<outcome, facts, socket>>

(* LogMailer: the line, then nil; it has no condition on the message.       *)
Log ==
  /\ At({"log"})
  /\ taken' = TRUE /\ result' = "ok"
  /\ UNCHANGED <<mailer, step, wire, due, offered, secured, outcome, socket>>

(* (ConnectedUnkept goes on without the connection DialContext returned.)   *)
ConnectedUnkept ==
  /\ At({"dial"}) /\ wire = "accepted"
  /\ step' = "setDeadline" /\ wire' = "quiet"
  /\ UNCHANGED <<facts, socket, returns>>

Connected ==
  /\ At({"dial"}) /\ wire = "accepted"
  /\ step' = "setDeadline" /\ wire' = "quiet" /\ conn' = "open"
  /\ UNCHANGED <<deferred, armed, facts, returns>>

(* From here on every read and write of the connection, TLS or not, ends at *)
(* the deadline.  The server speaks first.  (SetDeadlineForgotten: smtp     *)
(* over a connection that never times out.)                                 *)
SetDeadlineForgotten ==
  /\ At({"setDeadline"})
  /\ step' = "greeting" /\ wire' = "asked"
  /\ UNCHANGED <<facts, socket, returns>>

SetDeadline ==
  /\ At({"setDeadline"})
  /\ armed' = TRUE
  /\ step' = "greeting" /\ wire' = "asked"
  /\ UNCHANGED <<conn, deferred, facts, returns>>

(* NewClient has read the greeting; the Close of its client is deferred.    *)
(* (GreetedUndeferred leaves that to Quit.)                                 *)
GreetedUndeferred ==
  /\ At({"greeting"}) /\ wire = "accepted"
  /\ step' = "ehlo" /\ wire' = "quiet"
  /\ UNCHANGED <<facts, socket, returns>>

Greeted ==
  /\ At({"greeting"}) /\ wire = "accepted"
  /\ step' = "ehlo" /\ wire' = "quiet" /\ deferred' = TRUE
  /\ UNCHANGED <<conn, armed, facts, returns>>

Issue ==
  /\ At(Command) /\ wire = "quiet"
  /\ wire' = "asked"
  /\ UNCHANGED <<step, facts, socket, returns>>

(* The pending call will not get an answer: the connection broke, or its    *)
(* deadline, for the dial that of the context, has passed.                  *)
Unanswered == wire = "lost" \/ (due /\ (armed \/ step = "dial"))

(* Extension: EHLO, or HELO when EHLO is refused, which offers nothing.     *)
Extension ==
  /\ At({"ehlo"})
  /\ \/ wire = "accepted" /\ step' = IF offered THEN "starttls" ELSE Login
     \/ wire = "refused" /\ step' = "helo"
  /\ wire' = "quiet"
  /\ UNCHANGED <<facts, socket, returns>>

(* The error of Extension is dropped and reads as a server without          *)
(* STARTTLS.  The smtp client keeps it, for its next call to return: that   *)
(* call has lost its answer before it begins.                               *)
ExtensionDropped ==
  /\ At({"ehlo", "helo"})
  /\ Unanswered \/ (step = "helo" /\ wire = "refused")
  /\ step' = Login /\ wire' = "lost"
  /\ UNCHANGED <<facts, socket, returns>>

(* STARTTLS, the handshake and a second EHLO; any of them may fail.         *)
StartTLS ==
  /\ At({"starttls"}) /\ wire = "accepted"
  /\ secured' = TRUE
  /\ step' = "ehloTLS" /\ wire' = "quiet"
  /\ UNCHANGED <<mailer, due, offered, taken, socket, returns>>

LoggingIn ==
  /\ At({"helo", "ehloTLS"}) /\ wire = "accepted"
  /\ step' = Login /\ wire' = "quiet"
  /\ UNCHANGED <<facts, socket, returns>>

(* (ProceedUnchecked does not look at the server's answer.)                 *)
ProceedUnchecked ==
  /\ At(DOMAIN Following) /\ wire \in {"accepted", "refused"}
  /\ step' = Following[step] /\ wire' = "quiet"
  /\ UNCHANGED <<facts, socket, returns>>

Proceed ==
  /\ At(DOMAIN Following) /\ wire = "accepted"
  /\ step' = Following[step] /\ wire' = "quiet"
  /\ UNCHANGED <<facts, socket, returns>>

(* The body is only written; the terminating dot is what is answered.       *)
Body ==
  /\ At({"body"})
  /\ step' = "terminator"
  /\ UNCHANGED <<wire, facts, socket, returns>>

(* Quit closes the connection itself once it is answered.                   *)
Quit ==
  /\ At({"quit"}) /\ wire = "accepted"
  /\ result' = "ok" /\ conn' = "closed"
  /\ UNCHANGED <<step, wire, deferred, armed, outcome, facts>>

-----------------------------------------------------------------------------
(* The ways out with an error.                                              *)

(* DialContext failed: there is no connection.                              *)
DialFails ==
  /\ At({"dial"})
  /\ wire = "refused" \/ Unanswered
  /\ result' = "error"
  /\ UNCHANGED <<step, wire, outcome, facts, socket>>

(* SetDeadline or NewClient failed, each with a Close of its own.           *)
SetDeadlineFails ==
  /\ At({"setDeadline"})
  /\ conn' = "closed" /\ result' = "error"
  /\ UNCHANGED <<step, wire, deferred, armed, outcome, facts>>

GreetingFails ==
  /\ At({"greeting"})
  /\ wire = "refused" \/ Unanswered
  /\ conn' = "closed" /\ result' = "error"
  /\ UNCHANGED <<step, wire, deferred, armed, outcome, facts>>

(* The calls on the smtp client fail of the server's refusal, a broken      *)
(* connection or the deadline, Write of itself, and PlainAuth refuses to    *)
(* show the password to an unencrypted connection.                          *)
Broken ==
  \/ wire = "refused"
  \/ Unanswered
  \/ step = "body"
  \/ step = "auth" /\ wire = "quiet" /\ ~secured

ClientStep ==
  {"starttls", "ehloTLS", "auth", "mail", "rcpt", "data", "body", "terminator",
   "quit"}

(* (FailUnlessTLS goes on in the clear when STARTTLS is refused.)           *)
FailUnlessTLS ==
  /\ At(ClientStep) /\ Broken
  /\ IF step = "starttls" /\ wire = "refused"
     THEN step' = Login /\ wire' = "quiet" /\ UNCHANGED result
     ELSE result' = "error" /\ UNCHANGED <<step, wire>>
  /\ UNCHANGED <<outcome, facts, socket>>

Fail ==
  /\ At(ClientStep) /\ Broken
  /\ result' = "error"
  /\ UNCHANGED <<step, wire, outcome, facts, socket>>

(* Send returns: what was deferred runs, and only that.                     *)
Return ==
  /\ result # "none" /\ outcome = "none"
  /\ outcome' = result
  /\ conn' = IF deferred THEN "closed" ELSE conn
  /\ UNCHANGED <<step, wire, deferred, armed, result, facts>>

Send ==
  \/ Start \/ Log \/ Connected \/ SetDeadline \/ Greeted \/ Issue \/ Extension
  \/ ExtensionDropped \/ StartTLS \/ LoggingIn \/ Proceed \/ Body \/ Quit
  \/ DialFails \/ SetDeadlineFails \/ GreetingFails \/ Fail \/ Return

-----------------------------------------------------------------------------
(* The server, the network and the clock.                                   *)

(* The server takes the message on its terminating dot, even when nobody is *)
(* listening any more.                                                      *)
Take ==
  /\ step = "terminator" /\ wire \in {"asked", "lost"} /\ ~taken
  /\ taken' = TRUE
  /\ UNCHANGED <<mailer, step, wire, due, offered, secured, socket, returns>>

(* STARTTLS may be on the list of an EHLO answer that does not arrive whole. *)
Answer ==
  /\ wire = "asked"
  /\ \/ wire' = "accepted" /\ (step = "terminator" => taken)
     \/ wire' = "refused"  /\ (step = "terminator" => ~taken)
     \/ wire' = "lost"
  /\ offered' \in BOOLEAN
  /\ offered' # offered => step = "ehlo" /\ wire' # "refused"
  /\ UNCHANGED <<mailer, step, due, secured, taken, socket, returns>>

Deadline ==
  /\ ~due
  /\ due' = TRUE
  /\ UNCHANGED <<mailer, step, wire, offered, secured, taken, socket, returns>>

Next == Send \/ Take \/ Answer \/ Deadline

Spec == Init /\ [][Next]_vars

(* Send's own calls go on and time passes.  Nothing is asked of the server. *)
FairSpec == Spec /\ WF_vars(Send) /\ WF_vars(Deadline)

-----------------------------------------------------------------------------
(* Types, and that a connection is there from the dial on.                  *)
TypeOK ==
  /\ mailer \in [transport : {"log", "smtp"}, username : BOOLEAN, to : BOOLEAN]
  /\ step \in Step
  /\ wire \in {"quiet", "asked", "accepted", "refused", "lost"}
  /\ conn \in {"none", "open", "closed"}
  /\ conn = "none" <=> step \in {"start", "log", "dial"}
  /\ deferred \in BOOLEAN /\ armed \in BOOLEAN /\ due \in BOOLEAN
  /\ offered \in BOOLEAN /\ secured \in BOOLEAN /\ taken \in BOOLEAN
  /\ result \in {"none", "ok", "error"} /\ outcome \in {"none", "ok", "error"}
  /\ outcome # "none" => outcome = result

(* Whichever call fails, Send leaves no connection behind: until the smtp   *)
(* client is there each way out closes by itself, from then on the deferred *)
(* Close has to be in place, as no later way out closes anything.           *)
ConnectionReleased == outcome # "none" => conn # "open"

(* STARTTLS is "negotiated whenever the server offers it" (type SMTP): no   *)
(* message leaves in the clear to a server that offered it, although Send   *)
(* ignores the error of Extension: also when the offer did not arrive.      *)
EncryptedIfOffered == taken /\ offered => secured

(* "The context deadline bounds the whole exchange" (Send): a server that   *)
(* falls silent at any command, or never answers at all, ends as an error.  *)
DeadlineBoundsSend == <>(outcome # "none")

(* Success means the message is out; this is what Verifications builds on.  *)
Promise == INSTANCE Exchange
RefinesExchange == Promise!Spec

(* Once the server has accepted the message, Send does not report it as     *)
(* failed: "The email is out: a bookkeeping failure here must not fail the  *)
(* request and trigger a duplicate send" (sendConfirmation).                *)
AcceptedIsSuccess == step = "quit" => outcome # "error"
=============================================================================

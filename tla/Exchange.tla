----------------------------- MODULE Exchange -----------------------------
(***************************************************************************)
(* What a caller of Mailer.Send or Sender.Send may rely on: success means  *)
(* the other side has the message.  An error means nothing either way: the *)
(* other side may have taken it before, or may still take it afterwards.   *)
(* This is all that Verifications assumes of MailSend and DeliverSend.     *)
(***************************************************************************)
VARIABLES
  taken,      \* the other side has the message
  outcome     \* "none" until Send returns, then "ok" or "error"

vars == <<taken, outcome>>

Init == taken = FALSE /\ outcome = "none"

Take == ~taken /\ taken' = TRUE /\ UNCHANGED outcome

Succeed == taken /\ outcome = "none" /\ outcome' = "ok" /\ UNCHANGED taken

Fail == outcome = "none" /\ outcome' = "error" /\ UNCHANGED taken

Next == Take \/ Succeed \/ Fail

Spec == Init /\ [][Next]_vars
=============================================================================

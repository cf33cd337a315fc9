------------------------------ MODULE Recovery ------------------------------
(***************************************************************************)
(* How one confirmed submission reaches the authority after deliveries     *)
(* failed.  Nothing in the process retries: recovery is the subject        *)
(* pressing the retry button of the result page again, or the operator     *)
(* running redeliver again, each against whoever else works on the record. *)
(*                                                                         *)
(* Verifications seen from one link, with workers that come back: a        *)
(* worker without a call in hand is idle, and reads that change nothing    *)
(* are not steps.  Revisions are reduced to what Put compares: a copy is   *)
(* current until anybody else writes the record.                           *)
(***************************************************************************)
CONSTANT Worker   \* requests and commands working on the record at once

VARIABLES
  life,     \* new: not stored yet; live; replaced by a later submission
  record,   \* what the stored record says while it is live
  phase,    \* the call each worker is about to make
  copy,     \* the record as each worker has it
  current,  \* workers whose copy has the stored revision
  expired,  \* the link is past its TokenExpiresAt
  held      \* the authority has taken the submission

vars == <<life, record, phase, copy, current, expired, held>>

Pending == [status |-> "pending", confirmed |-> FALSE]

RecoveryTypeOK ==
  LET Facts == [status: {"pending", "confirmed", "delivered", "failed"},
                confirmed: BOOLEAN]
  IN
  /\ life \in {"new", "live", "replaced"}
  /\ record \in Facts
  /\ phase \in [Worker -> {"idle", "mail", "mailPut", "confirmPut", "reread",
                           "deliver", "deliverPut"}]
  /\ copy \in [Worker -> Facts]
  /\ current \subseteq {w \in Worker : phase[w] # "idle"}
  /\ expired \in BOOLEAN /\ held \in BOOLEAN

Init ==
  /\ life = "new" /\ record = Pending
  /\ phase = [w \in Worker |-> "idle"]
  /\ copy = [w \in Worker |-> Pending]
  /\ current = {}
  /\ expired = FALSE /\ held = FALSE

-----------------------------------------------------------------------------
(* Moves of a worker.  Its copy dies with its call.  (LeaveHolding keeps it *)
(* for the next one.)                                                       *)
LeaveHolding(w) ==
  /\ phase' = [phase EXCEPT ![w] = "idle"]
  /\ UNCHANGED <<copy, current>>

Leave(w) ==
  /\ phase' = [phase EXCEPT ![w] = "idle"]
  /\ copy' = [copy EXCEPT ![w] = Pending]
  /\ current' = current \ {w}

Take(w, v, p) ==
  /\ phase' = [phase EXCEPT ![w] = p]
  /\ copy' = [copy EXCEPT ![w] = v]

(* A copy read from the store now.                                          *)
Read(w, v, p) == Take(w, v, p) /\ current' = current \cup {w}

(* Put: applied while the copy is current, which no other copy then is any  *)
(* more; refused otherwise; or failing before or after it was applied.      *)
Write(w, p) ==
  /\ w \in current
  /\ record' = copy[w]
  /\ Take(w, copy[w], p)
  /\ current' = {w}

Conflict(w, p) ==
  /\ w \notin current
  /\ Take(w, copy[w], p)
  /\ UNCHANGED <<record, current>>

WriteAndLeave(w) ==
  \/ /\ w \in current
     /\ record' = copy[w]
     /\ phase' = [phase EXCEPT ![w] = "idle"]
     /\ copy' = [copy EXCEPT ![w] = Pending]
     /\ current' = {}
  \/ Leave(w) /\ UNCHANGED record

-----------------------------------------------------------------------------
(* upsert stores the submission: with an answer, or without.                *)
Submit(w) ==
  /\ life = "new" /\ phase[w] = "idle"
  /\ life' = "live" /\ record' = Pending
  /\ \/ Take(w, Pending, "mail") /\ current' = {w}
     \/ UNCHANGED <<phase, copy>> /\ current' = {}
  /\ UNCHANGED <<expired, held>>

MailSend(w) ==
  /\ phase[w] = "mail"
  /\ Take(w, copy[w], "mailPut")
  /\ UNCHANGED <<life, record, current, expired, held>>

MailPut(w) ==
  /\ phase[w] = "mailPut"
  /\ WriteAndLeave(w)
  /\ UNCHANGED <<life, expired, held>>

(* Confirm's read: the first click attests, every later one goes straight   *)
(* to the delivery; a delivered record is returned as it is.                *)
(* (ClickOnce takes an attested record for done.)                           *)
ClickOnce(w) ==
  /\ life = "live" /\ ~expired /\ phase[w] = "idle"
  /\ ~record.confirmed
  /\ Read(w, [status |-> "confirmed", confirmed |-> TRUE], "confirmPut")
  /\ UNCHANGED <<life, record, expired, held>>

Click(w) ==
  /\ life = "live" /\ ~expired /\ phase[w] = "idle"
  /\ record.status # "delivered"
  /\ IF record.confirmed
     THEN Read(w, record, "deliver")
     ELSE Read(w, [status |-> "confirmed", confirmed |-> TRUE], "confirmPut")
  /\ UNCHANGED <<life, record, expired, held>>

ConfirmPut(w) ==
  /\ phase[w] = "confirmPut"
  /\ Write(w, "deliver") \/ Conflict(w, "reread") \/ WriteAndLeave(w)
  /\ UNCHANGED <<life, expired, held>>

(* After a lost race; the lookup may also fail.                             *)
Reread(w) ==
  /\ phase[w] = "reread"
  /\ \/ /\ life = "live" /\ ~expired /\ record.status # "delivered"
        /\ Read(w, record, "deliver")
     \/ Leave(w)
  /\ UNCHANGED <<life, record, expired, held>>

(* The operator's command: any confirmed record, whatever its status.       *)
(* (RedeliverPending knows nothing of failed deliveries.)                   *)
RedeliverPending(w) ==
  /\ life = "live" /\ phase[w] = "idle"
  /\ record.status = "confirmed"
  /\ Read(w, record, "deliver")
  /\ UNCHANGED <<life, record, expired, held>>

Redeliver(w) ==
  /\ life = "live" /\ phase[w] = "idle"
  /\ record.confirmed
  /\ Read(w, record, "deliver")
  /\ UNCHANGED <<life, record, expired, held>>

(* deliver: the countersignature fails, or the POST; or the authority takes *)
(* it, with or without its answer arriving.                                 *)
CounterSignFails(w) ==
  /\ phase[w] = "deliver"
  /\ Take(w, [copy[w] EXCEPT !.status = "failed"], "deliverPut")
  /\ UNCHANGED <<life, record, current, expired, held>>

SendFails(w) ==
  /\ phase[w] = "deliver"
  /\ held' \in {held, TRUE}
  /\ Take(w, [copy[w] EXCEPT !.status = "failed"], "deliverPut")
  /\ UNCHANGED <<life, record, current, expired>>

SendSucceeds(w) ==
  /\ phase[w] = "deliver"
  /\ held' = TRUE
  /\ Take(w, [copy[w] EXCEPT !.status = "delivered"], "deliverPut")
  /\ UNCHANGED <<life, record, current, expired>>

DeliverPut(w) ==
  /\ phase[w] = "deliverPut"
  /\ WriteAndLeave(w)
  /\ UNCHANGED <<life, expired, held>>

Crash(w) ==
  /\ phase[w] # "idle"
  /\ Leave(w)
  /\ UNCHANGED <<life, record, expired, held>>

(* A later submission of the address takes the record over.                 *)
Replace ==
  /\ life = "live"
  /\ life' = "replaced" /\ record' = Pending /\ current' = {}
  /\ UNCHANGED <<phase, copy, expired, held>>

Expire ==
  /\ ~expired
  /\ expired' = TRUE
  /\ UNCHANGED <<life, record, phase, copy, current, held>>

-----------------------------------------------------------------------------
Work(w) ==
  \/ MailSend(w) \/ MailPut(w) \/ ConfirmPut(w) \/ Reread(w)
  \/ CounterSignFails(w) \/ SendFails(w) \/ SendSucceeds(w) \/ DeliverPut(w)

Next ==
  \/ \E w \in Worker :
       Submit(w) \/ Click(w) \/ Redeliver(w) \/ Work(w) \/ Crash(w)
  \/ Replace \/ Expire

Spec == Init /\ [][Next]_vars

(* Calls return, and the authority's inbox, posted to over and over, takes  *)
(* the envelope at last: ErrUnavailable is "retry later".  The processes    *)
(* may crash, and the other calls fail, as often as they like.              *)
FairSpec ==
  /\ Spec
  /\ \A w \in Worker : WF_vars(Work(w))
  /\ SF_vars(\E w \in Worker : SendSucceeds(w))

-----------------------------------------------------------------------------
Confirmed == life = "live" /\ record.confirmed

(* A subject who keeps pressing the button gets a confirmed submission to   *)
(* the authority, whatever failed before, crashed in between or is tried at *)
(* the same time, unless the link expires or is replaced first (Confirm).   *)
ButtonRecovers ==
  WF_vars(\E w \in Worker : Click(w)) =>
    (Confirmed ~> (held \/ expired \/ life = "replaced"))

(* An operator who keeps running redeliver does so even after the link has  *)
(* expired (Redeliver).                                                     *)
OperatorRecovers ==
  WF_vars(\E w \in Worker : Redeliver(w)) =>
    (Confirmed ~> (held \/ life = "replaced"))
=============================================================================

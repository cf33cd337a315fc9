------------------------------ MODULE Service ------------------------------
(***************************************************************************)
(* The serve command around the verification service: a process that       *)
(* builds its domain, listens, drains on a signal and exits, may be killed *)
(* at any moment, and is started again on the same store.  It composes     *)
(* Verifications with the life of the process its HTTP handlers run in.    *)
(* A redeliver command is a process of its own: no state of the server     *)
(* concerns it.                                                            *)
(*                                                                         *)
(* After a shutdown that timed out, and after a listener that failed, the  *)
(* deferred cleanup closes the database handle and the process ends while  *)
(* handlers may still be running.                                          *)
(***************************************************************************)
EXTENDS Verifications

VARIABLES
  server,     \* where the serve command is
  exit,       \* how its last run ended: none while it has not
  signalled,  \* SIGINT or SIGTERM has cancelled its context
  drainDue,   \* ShutdownTimeout has passed since the drain began
  storeOpen   \* its CouchDB handle is open

lifeVars == <<server, exit, signalled, drainDue, storeOpen>>
serviceVars == <<vars, lifeVars>>

ServiceTypeOK ==
  /\ server \in {"down", "starting", "serving", "draining", "leaving"}
  /\ exit \in {"none", "clean", "failed", "killed"}
  /\ signalled \in BOOLEAN /\ drainDue \in BOOLEAN /\ storeOpen \in BOOLEAN
  /\ storeOpen => server \in {"serving", "draining", "leaving"}

ServiceInit ==
  /\ Init
  /\ server = "down" /\ exit = "none"
  /\ signalled = FALSE /\ drainDue = FALSE /\ storeOpen = FALSE

Http(r) == op[r] \in {"inbox", "page", "submit"}

(* A handler of the server that has begun and not come to its end.          *)
Running(r) == Http(r) /\ pc[r] \notin {"idle", "done"}

Quiet == \A r \in Request : ~Running(r)

-----------------------------------------------------------------------------
(* The life of the process.                                                 *)

(* A new process: the handlers of the one before died with it.              *)
Start ==
  /\ server = "down" /\ Quiet
  /\ server' = "starting" /\ exit' = "none"
  /\ signalled' = FALSE /\ drainDue' = FALSE /\ storeOpen' = FALSE
  /\ UNCHANGED vars

(* The options are refused, or buildDomain fails: the identity does not     *)
(* load, the authority does not parse, CouchDB does not answer, or the      *)
(* signal cancelled the context it is asked with.                           *)
BuildFails ==
  /\ server = "starting"
  /\ server' = "down" /\ exit' = "failed"
  /\ UNCHANGED <<signalled, drainDue, storeOpen>> /\ UNCHANGED vars

Build ==
  /\ server = "starting" /\ ~signalled
  /\ server' = "serving" /\ storeOpen' = TRUE
  /\ UNCHANGED <<exit, signalled, drainDue>> /\ UNCHANGED vars

(* NotifyContext keeps catching signals, so one more changes nothing.       *)
Signal ==
  /\ server \in {"starting", "serving"} /\ ~signalled
  /\ signalled' = TRUE
  /\ UNCHANGED <<server, exit, drainDue, storeOpen>> /\ UNCHANGED vars

(* ListenAndServe cannot bind, or stops accepting: RunE returns its error   *)
(* without a Shutdown.                                                      *)
ServeFails ==
  /\ server = "serving"
  /\ server' = "leaving" /\ exit' = "failed"
  /\ UNCHANGED <<signalled, drainDue, storeOpen>> /\ UNCHANGED vars

BeginShutdown ==
  /\ server = "serving" /\ signalled
  /\ server' = "draining"
  /\ UNCHANGED <<exit, signalled, drainDue, storeOpen>> /\ UNCHANGED vars

(* Shutdown returns nil once no handler is left.                            *)
(* (CloseAtOnce is Server.Close, which waits for nobody.)                   *)
CloseAtOnce ==
  /\ server = "draining"
  /\ server' = "leaving" /\ exit' = "clean"
  /\ UNCHANGED <<signalled, drainDue, storeOpen>> /\ UNCHANGED vars

DrainDone ==
  /\ server = "draining" /\ Quiet
  /\ server' = "leaving" /\ exit' = "clean"
  /\ UNCHANGED <<signalled, drainDue, storeOpen>> /\ UNCHANGED vars

(* ShutdownTimeout passes.  (NeverDue is a Shutdown without a deadline.)    *)
NeverDue == FALSE /\ UNCHANGED serviceVars

DrainDue ==
  /\ server = "draining" /\ ~drainDue
  /\ drainDue' = TRUE
  /\ UNCHANGED <<server, exit, signalled, storeOpen>> /\ UNCHANGED vars

(* Shutdown returns the error of its context, whoever is still running.     *)
DrainTimesOut ==
  /\ server = "draining" /\ drainDue
  /\ server' = "leaving" /\ exit' = "failed"
  /\ UNCHANGED <<signalled, drainDue, storeOpen>> /\ UNCHANGED vars

(* The deferred cleanup.  A call to the store is one step here, so none is  *)
(* running that Close would have to wait for.                               *)
CloseStore ==
  /\ server = "leaving" /\ storeOpen
  /\ storeOpen' = FALSE
  /\ UNCHANGED <<server, exit, signalled, drainDue>> /\ UNCHANGED vars

(* main returns, or exits with status 1.  (ExitUnclosed forgets the         *)
(* cleanup; ExitForgetting takes the records along, as MemoryVerifications  *)
(* would.)                                                                  *)
ExitUnclosed ==
  /\ server = "leaving"
  /\ server' = "down"
  /\ UNCHANGED <<exit, signalled, drainDue, storeOpen>> /\ UNCHANGED vars

ExitForgetting ==
  /\ server = "leaving" /\ ~storeOpen
  /\ server' = "down"
  /\ store' = [a \in Address |-> Blank]
  /\ UNCHANGED <<exit, signalled, drainDue, storeOpen>>
  /\ UNCHANGED <<issued, op, pc, link, row, rec, resp>> /\ UNCHANGED envVars

Exit ==
  /\ server = "leaving" /\ ~storeOpen
  /\ server' = "down"
  /\ UNCHANGED <<exit, signalled, drainDue, storeOpen>> /\ UNCHANGED vars

(* SIGKILL, an out-of-memory kill, a power cut.                             *)
Kill ==
  /\ server # "down"
  /\ server' = "down" /\ exit' = "killed" /\ storeOpen' = FALSE
  /\ UNCHANGED <<signalled, drainDue>> /\ UNCHANGED vars

-----------------------------------------------------------------------------
(* The handlers inside the process.                                         *)

(* Connections accepted before the listener closed may still bring a        *)
(* request; a drain that succeeded has closed them all.                     *)
Accepting ==
  \/ server \in {"serving", "draining"}
  \/ server = "leaving" /\ exit = "failed"

HttpArrive(r) ==
  /\ Accepting
  /\ \/ ReceiveRejected(r)
     \/ storeOpen /\ \E e \in Envelope : Receive(r, e)
     \/ \E t \in Token : OpenLink(r, t, "page", "page")
     \/ \E t \in Token : OpenLink(r, t, "submit", "confirmation")

(* With the database handle closed every call to the store fails at once;   *)
(* the mailer and the sender still work.                                    *)
StepWithoutStore(r) ==
  \/ UpsertPut(r, "error") \/ MailPut(r, "error")
  \/ ConfirmPut(r, "error") \/ DeliverPut(r, "error")
  \/ LookupFails(r) /\ Answer(r, "internal")
  \/ CounterSignFails(r)
  \/ \E out, err \in BOOLEAN : MailSend(r, out, err) \/ DeliverSend(r, out, err)

HttpStep(r) ==
  /\ server # "down" /\ Http(r)
  /\ IF storeOpen THEN Step(r) ELSE StepWithoutStore(r)

(* redeliver runs in its own process, with its own database handle.         *)
CommandStep(r) == op[r] = "redeliver" /\ Step(r)

(* The next call of a handler or a command: the email and the delivery are  *)
(* bounded by deliveryTimeout, the store by its connection.                 *)
Goes(r) == (HttpStep(r) \/ CommandStep(r)) /\ UNCHANGED lifeVars

(* Crash: a handler panics, or its process has gone.                        *)
Handling(r) ==
  \/ /\ HttpArrive(r) \/ (\E a \in Address : Redeliver(r, a)) \/ Crash(r)
     /\ UNCHANGED lifeVars
  \/ Goes(r)

-----------------------------------------------------------------------------
Own ==
  \/ BuildFails \/ Build \/ BeginShutdown \/ DrainDone \/ DrainTimesOut
  \/ CloseStore \/ Exit

ServiceNext ==
  \/ Start \/ Signal \/ ServeFails \/ Own \/ DrainDue \/ Kill
  \/ \E r \in Request : Handling(r)
  \/ (\E t \in Token : Expire(t)) /\ UNCHANGED lifeVars

ServiceSpec == ServiceInit /\ [][ServiceNext]_serviceVars

(* The process goes on by itself and its clock runs.  Nothing is assumed of *)
(* the handlers: a client may send its body as slowly as it likes.          *)
FairServiceSpec ==
  /\ ServiceSpec
  /\ WF_serviceVars(Own)
  /\ WF_serviceVars(DrainDue)

-----------------------------------------------------------------------------
(* An exit with status 0 cut nobody off: every handler that had begun has   *)
(* come to its end before the store was closed (serveCmd, Shutdown).        *)
CleanExitCutsNobody == exit = "clean" => Quiet

(* A signal ends the process, however long its handlers take, and however   *)
(* many requests old connections still bring: within ShutdownTimeout.       *)
ShutdownEnds == (signalled /\ server # "down") ~> server = "down"

(* Every handler finishes, and every redeliver: whatever the store, the     *)
(* mail server and the authority answer, with the database handle closed    *)
(* under it, and whatever other requests do, a request that has begun is    *)
(* answered, or goes down with its process.                                 *)
HandlersFinish ==
  (\A r \in Request : WF_serviceVars(Goes(r))) =>
    \A r \in Request :
      pc[r] # "idle" ~> (pc[r] = "done" \/ (Http(r) /\ server = "down"))

(* Restarts, drains, cut-off handlers and closed handles are nothing        *)
(* Verifications does not allow: whatever it promises holds across them.    *)
RefinesVerifications == Spec
=============================================================================

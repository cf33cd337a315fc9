----------------------------- MODULE Delivery -----------------------------
(***************************************************************************)
(* One HTTPSender.Send: the POST of an envelope to the authority's inbox,  *)
(* with the vetted dialling of safeDialContext under it and the redirects  *)
(* that http.Client follows by itself.  Names resolve differently from one *)
(* lookup to the next, and the answer may be lost or never come.           *)
(***************************************************************************)
EXTENDS Naturals

CONSTANTS
  IP, Public,      \* what names resolve to, and the public ones among it
  NoIP,            \* no connection
  NoStatus,        \* no answer
  Redirects,       \* the redirects a host may answer with: 303 stands for
                   \* those that become a GET, 307 for those that repeat
  MaxRedirects     \* net/http gives up after ten

ASSUME DeliveryAssumption ==
  /\ Public \subseteq IP /\ NoIP \notin IP
  /\ NoStatus \notin Nat /\ MaxRedirects \in Nat
  /\ Redirects \subseteq {303, 307}

VARIABLES
  step,       \* where Send is
  method,     \* of the request being made: "POST", or "GET" after a redirect
  hops,       \* redirects followed
  ips,        \* what the last lookup found and was not yet tried
  conn,       \* the address the connection in use goes to
  posted,     \* the envelope may be on its way to an inbox
  status,     \* of the last answer
  due,        \* the deadline of the context has passed
  taken,      \* an inbox took the envelope
  outcome     \* nil or the sentinel Send wraps

vars == <<step, method, hops, ips, conn, posted, status, due, taken, outcome>>

Step == {"prepare", "connect", "lookup", "dial", "request", "answer", "classify"}

(* One of each class Send or net/http tells apart, and the plain 200.       *)
Status == {200, 202, 404, 429, 500} \cup Redirects

Outcome == {"none", "ok", "sendFailed", "unavailable", "rejected"}

(* The transport may still hold a connection of an earlier Send.            *)
Init ==
  /\ step = "prepare" /\ method = "POST" /\ hops = 0
  /\ ips = {} /\ conn \in Public \cup {NoIP}
  /\ posted = FALSE /\ status = NoStatus /\ due = FALSE
  /\ taken = FALSE /\ outcome = "none"

-----------------------------------------------------------------------------
(* Send.                                                                    *)

(* No envelope, no valid address, no body, no request or no token: nothing  *)
(* has left yet.                                                            *)
Prepare ==
  /\ step = "prepare" /\ outcome = "none"
  /\ \/ outcome' = "sendFailed" /\ UNCHANGED step
     \/ step' = "connect" /\ UNCHANGED outcome
  /\ UNCHANGED <<method, hops, ips, conn, posted, status, due, taken>>

(* The transport takes an idle connection to the host or dials a new one.   *)
Connect ==
  /\ step = "connect" /\ outcome = "none"
  /\ \/ conn # NoIP /\ step' = "request" /\ UNCHANGED conn
     \/ step' = "lookup" /\ conn' = NoIP
  /\ UNCHANGED <<method, hops, ips, posted, status, due, taken, outcome>>

(* Everything that is found must be public, or none of it is dialled.       *)
Lookup(found) ==
  /\ step = "lookup" /\ outcome = "none"
  /\ IF found \subseteq Public
     THEN ips' = found /\ step' = "dial" /\ UNCHANGED outcome
     ELSE outcome' = "unavailable" /\ UNCHANGED <<ips, step>>
  /\ UNCHANGED <<method, hops, conn, posted, status, due, taken>>

(* The addresses are tried in turn, each for dialTimeout at most; after the *)
(* last, or without any, the dial has failed.  (DialByName resolves again;  *)
(* DialUnguarded lacks the error for an empty list.)                        *)
DialByName ==
  /\ step = "dial" /\ outcome = "none"
  /\ \/ ips = {} /\ outcome' = "unavailable" /\ UNCHANGED <<step, ips, conn>>
     \/ /\ ips # {}
        /\ conn' \in IP
        /\ step' = "request" /\ UNCHANGED <<ips, outcome>>
     \/ \E ip \in ips : ips' = ips \ {ip} /\ UNCHANGED <<step, conn, outcome>>
  /\ UNCHANGED <<method, hops, posted, status, due, taken>>

DialUnguarded ==
  /\ step = "dial" /\ outcome = "none"
  /\ \/ ips = {} /\ step' = "request" /\ UNCHANGED <<ips, conn, outcome>>
     \/ \E ip \in ips :
          \/ conn' = ip /\ step' = "request" /\ UNCHANGED <<ips, outcome>>
          \/ ips' = ips \ {ip} /\ UNCHANGED <<step, conn, outcome>>
  /\ UNCHANGED <<method, hops, posted, status, due, taken>>

Dial ==
  /\ step = "dial" /\ outcome = "none"
  /\ \/ ips = {} /\ outcome' = "unavailable" /\ UNCHANGED <<step, ips, conn>>
     \/ \E ip \in ips :
          \/ conn' = ip /\ step' = "request" /\ UNCHANGED <<ips, outcome>>
          \/ ips' = ips \ {ip} /\ UNCHANGED <<step, conn, outcome>>
  /\ UNCHANGED <<method, hops, posted, status, due, taken>>

Request ==
  /\ step = "request" /\ outcome = "none"
  /\ posted' = (posted \/ method = "POST")
  /\ step' = "answer"
  /\ UNCHANGED <<method, hops, ips, conn, status, due, taken, outcome>>

(* A redirect that names a place is followed, 303 (and 301, 302) with a GET *)
(* and 307 (and 308) with the request itself, until net/http has enough:    *)
(* the client has no CheckRedirect.                                         *)
FollowRedirect ==
  /\ step = "classify" /\ outcome = "none" /\ status \in Redirects
  /\ IF hops < MaxRedirects
     THEN /\ hops' = hops + 1
          /\ method' = IF status = 303 THEN "GET" ELSE method
          /\ step' = "connect" /\ UNCHANGED outcome
     ELSE outcome' = "unavailable" /\ UNCHANGED <<hops, method, step>>
  /\ UNCHANGED <<ips, conn, posted, status, due, taken>>

(* The switch over the status.  (Accept2xx takes every 2xx for a delivery.) *)
Accept2xx(code) ==
  IF code \in 200..299 THEN "ok"
  ELSE IF code = 429 \/ code >= 500 THEN "unavailable" ELSE "rejected"

Classified(code) ==
  IF code = 202 THEN "ok"
  ELSE IF code = 429 \/ code >= 500 THEN "unavailable" ELSE "rejected"

Classify ==
  /\ step = "classify" /\ outcome = "none"
  /\ outcome' = Classified(status)
  /\ UNCHANGED <<step, method, hops, ips, conn, posted, status, due, taken>>

(* The context ends whatever the client waits for.  (TimedOutDialling: the  *)
(* request does not carry the context, only the dial does.)                 *)
TimedOutDialling ==
  /\ outcome = "none" /\ due /\ step \in {"lookup", "dial"}
  /\ outcome' = "unavailable"
  /\ UNCHANGED <<step, method, hops, ips, conn, posted, status, due, taken>>

TimedOut ==
  /\ outcome = "none" /\ due /\ step \in Step \ {"prepare", "classify"}
  /\ outcome' = "unavailable"
  /\ UNCHANGED <<step, method, hops, ips, conn, posted, status, due, taken>>

Send ==
  \/ Prepare \/ Connect \/ Dial \/ Request \/ FollowRedirect \/ Classify \/ TimedOut

-----------------------------------------------------------------------------
(* The name service, the inbox, the network and the clock.                  *)

Resolve == \E found \in SUBSET IP : Lookup(found)

(* A lookup, handshake, request or answer that breaks is a transport error. *)
Break ==
  /\ step \in {"lookup", "request", "answer"} /\ outcome = "none"
  /\ outcome' = "unavailable"
  /\ UNCHANGED <<step, method, hops, ips, conn, posted, status, due, taken>>

(* An inbox takes what was posted, even when nobody waits any more.         *)
Take ==
  /\ posted /\ ~taken
  /\ taken' = TRUE
  /\ UNCHANGED <<step, method, hops, ips, conn, posted, status, due, outcome>>

(* An inbox answers 202 to a POST only when the envelope was taken.  A GET  *)
(* brings no envelope, and whoever it reaches may answer 202 as it likes;   *)
(* other answers say nothing.                                               *)
Answer ==
  /\ step = "answer" /\ outcome = "none"
  /\ status' \in Status
  /\ status' = 202 => taken \/ method = "GET"
  /\ step' = "classify"
  /\ UNCHANGED <<method, hops, ips, conn, posted, due, taken, outcome>>

Deadline ==
  /\ ~due
  /\ due' = TRUE
  /\ UNCHANGED <<step, method, hops, ips, conn, posted, status, taken, outcome>>

Next == Send \/ Resolve \/ Break \/ Take \/ Answer \/ Deadline

Spec == Init /\ [][Next]_vars

(* Send's own steps go on and time passes.  No answer is owed by anybody.   *)
FairSpec == Spec /\ WF_vars(Send) /\ WF_vars(Deadline)

-----------------------------------------------------------------------------
(* Types, and that a request has a connection to go over: safeDialContext   *)
(* never returns neither a connection nor an error.                         *)
DeliveryTypeOK ==
  /\ step \in Step /\ method \in {"POST", "GET"} /\ hops \in 0..MaxRedirects
  /\ ips \subseteq IP /\ conn \in IP \cup {NoIP}
  /\ step \in {"request", "answer", "classify"} => conn # NoIP
  /\ posted \in BOOLEAN /\ due \in BOOLEAN /\ taken \in BOOLEAN
  /\ status \in Status \cup {NoStatus} /\ outcome \in Outcome

(* Every connection goes to an address that passed isPublicIP in the lookup *)
(* made for it, whatever the name resolves to at any other time and however *)
(* many hosts a redirect leads to ("Dial the IPs we just vetted").          *)
DialsOnlyVetted == conn # NoIP => conn \in Public

(* The caller's deadline ends Send, whoever keeps silent.                   *)
DeadlineBoundsSend == <>(outcome # "none")

(* What Verifications stores as delivered must have been "successfully      *)
(* POSTed to the authority's /inbox (202 received)" (StatusDelivered).      *)
(* Every step of Send, through redirects, lost answers and inboxes that     *)
(* take late, is one of Exchange, where nil means taken, but for a nil that *)
(* some page gave to a GET: that one is a nil for whatever answered.        *)
Returned == IF outcome \in {"none", "ok"} THEN outcome ELSE "error"
Promise == INSTANCE Exchange WITH outcome <- Returned
SuccessOfGet == method = "GET" /\ outcome' = "ok"
ExchangeUnlessRedirected ==
  /\ Promise!Init
  /\ [][SuccessOfGet \/ Promise!Next \/ UNCHANGED Promise!vars]_vars
=============================================================================

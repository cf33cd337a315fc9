----------------------------- MODULE Endpoints -----------------------------
(***************************************************************************)
(* The endpoints that need a request token: the inbox and who, behind      *)
(* requireAuth.  Readers ask for the verifier's own party envelope, which  *)
(* is signed once per process; submitters post envelopes, which Receive    *)
(* checks one by one, each check asking somebody else's key endpoint.      *)
(*                                                                         *)
(* Verifications starts where these checks have passed: all the ways to be *)
(* refused are its ReceiveRejected.  One action is one call to another     *)
(* host, to the store or to the mailer, with the local checks after it.    *)
(* Callers are outside src/: told to retry they do, told no they give up.  *)
(***************************************************************************)
EXTENDS Naturals

CONSTANTS
  Reader,       \* callers of GET /.well-known/gobl/who
  Submitter,    \* callers of POST /.well-known/gobl/inbox
  Flawed,       \* the requests considered, as what is wrong with each
  NoReader      \* nobody: no signature, no document

Caller == Reader \cup Submitter

(* What can be wrong with a request, in the order in which it is found.     *)
Checks ==
  {"token", "body", "party", "signature", "own", "authority", "email"}

ASSUME CallersApart == Reader \cap Submitter = {}
ASSUME FlawedAssumption == Flawed \subseteq SUBSET Checks
ASSUME NoReaderAssumption == NoReader \notin Caller

VARIABLES
  flaws,    \* what is wrong with the request of each caller
  at,       \* the call its handler is about to make
  answer,   \* the status it was last answered; 0 for none
  cache,    \* PartyEnvelope's sync.Once: fresh, signing, signed or failed
  signer,   \* the request inside the Once; afterwards it names the document
  read,     \* the document each reader was served by this process
  stored    \* submitters whose envelope has been stored

vars == <<flaws, at, answer, cache, signer, read, stored>>

Retryable == {500, 503}

Final == {400, 401, 403, 413, 422}

EndpointsTypeOK ==
  /\ flaws \in [Caller -> Flawed]
  /\ at \in [Caller -> {"idle", "auth", "who", "signing", "party",
                        "authority", "upsert", "mail"}]
  /\ answer \in [Caller -> {0, 200, 202} \cup Retryable \cup Final]
  /\ \A c \in Caller : answer[c] # IF c \in Reader THEN 202 ELSE 200
  /\ cache \in {"fresh", "signing", "signed", "failed"}
  /\ signer \in Reader \cup {NoReader}
  /\ read \in [Reader -> Reader \cup {NoReader}]
  /\ stored \subseteq Submitter

Init ==
  /\ flaws \in [Caller -> Flawed]
  /\ \A c \in Reader : flaws[c] \subseteq {"token"}
  /\ at = [c \in Caller |-> "idle"]
  /\ answer = [c \in Caller |-> 0]
  /\ cache = "fresh" /\ signer = NoReader
  /\ read = [c \in Reader |-> NoReader]
  /\ stored = {}

-----------------------------------------------------------------------------
(* Status codes of the domain errors.  (StatusForgotten writes none.)       *)
StatusForgotten(kind) == 200

StatusForError(kind) ==
  CASE kind = "validation" -> 422
    [] kind = "unauthorized" -> 401
    [] kind = "forbidden" -> 403
    [] kind = "unavailable" -> 503
    [] OTHER -> 500

Goto(c, p) == at' = [at EXCEPT ![c] = p] /\ UNCHANGED answer

Answer(c, status) ==
  /\ at' = [at EXCEPT ![c] = "idle"]
  /\ answer' = [answer EXCEPT ![c] = status]

Fail(c, kind) == Answer(c, StatusForError(kind))

(* A first request, or one more after an answer that allows it.             *)
Ask(c) ==
  /\ at[c] = "idle"
  /\ answer[c] \notin Final \cup {202}
  /\ Goto(c, "auth")
  /\ UNCHANGED <<flaws, cache, signer, read, stored>>

-----------------------------------------------------------------------------
(* requireAuth: the token is checked against its issuer's key endpoint,     *)
(* which need not answer.  (AuthAnyError takes every error for a bad        *)
(* token.)                                                                  *)
AuthAnyError(c, up) ==
  /\ at[c] = "auth"
  /\ \/ /\ up /\ "token" \notin flaws[c]
        /\ Goto(c, IF c \in Reader THEN "who" ELSE "party")
     \/ ("token" \in flaws[c] \/ ~up) /\ Answer(c, 401)
  /\ UNCHANGED <<flaws, cache, signer, read, stored>>

Auth(c, up) ==
  /\ at[c] = "auth"
  /\ \/ /\ up /\ "token" \notin flaws[c]
        /\ Goto(c, IF c \in Reader THEN "who" ELSE "party")
     \/ "token" \in flaws[c] /\ Answer(c, 401)
     \/ ~up /\ Answer(c, 503)
  /\ UNCHANGED <<flaws, cache, signer, read, stored>>

-----------------------------------------------------------------------------
(* GET who: PartyEnvelope.                                                  *)

(* The first request to come by signs, while it holds the Once.             *)
(* (BeginUnguarded only looks whether there is a document yet.)             *)
BeginUnguarded(c) ==
  /\ at[c] = "who" /\ cache \in {"fresh", "signing"}
  /\ cache' = "signing" /\ UNCHANGED signer
  /\ Goto(c, "signing")
  /\ UNCHANGED <<flaws, read, stored>>

BeginSigning(c) ==
  /\ at[c] = "who" /\ cache = "fresh"
  /\ cache' = "signing" /\ UNCHANGED signer
  /\ Goto(c, "signing")
  /\ UNCHANGED <<flaws, read, stored>>

(* Envelop and Sign: a new envelope, or an error, which is kept as well.    *)
(* (SignForgetful leaves the Once undone when signing fails.)               *)
SignForgetful(c, ok) ==
  /\ at[c] = "signing"
  /\ IF ok
     THEN /\ cache' = "signed" /\ signer' = c
          /\ read' = [read EXCEPT ![c] = c]
          /\ Answer(c, 200)
     ELSE /\ Answer(c, 500) /\ UNCHANGED <<cache, signer, read>>
  /\ UNCHANGED <<flaws, stored>>

Sign(c, ok) ==
  /\ at[c] = "signing"
  /\ IF ok
     THEN /\ cache' = "signed" /\ signer' = c
          /\ read' = [read EXCEPT ![c] = c]
          /\ Answer(c, 200)
     ELSE /\ cache' = "failed" /\ UNCHANGED <<signer, read>>
          /\ Answer(c, 500)
  /\ UNCHANGED <<flaws, stored>>

(* Everybody else waits for the first to finish and gets what it got.       *)
Who(c) ==
  /\ at[c] = "who"
  /\ \/ /\ cache = "signed"
        /\ read' = [read EXCEPT ![c] = signer]
        /\ Answer(c, 200)
     \/ cache = "failed" /\ Answer(c, 500) /\ UNCHANGED read
  /\ UNCHANGED <<flaws, cache, signer, stored>>

-----------------------------------------------------------------------------
(* POST inbox: handleInbox and Receive.                                     *)

(* The body is read, parsed and validated without another host: it is too   *)
(* large, no envelope at all, or not a valid one.                           *)
Reject(c) ==
  /\ at[c] = "party" /\ "body" \in flaws[c]
  /\ \E status \in {413, 400, StatusForError("validation")} : Answer(c, status)
  /\ UNCHANGED <<flaws, cache, signer, read, stored>>

(* VerifyParty asks the subject's key endpoint; verifyOwnSignatures, which  *)
(* comes next, asks nobody.  (VerifyPartyAlone forgets about it.)           *)
VerifyPartyAlone(c, up) ==
  /\ at[c] = "party" /\ "body" \notin flaws[c]
  /\ \/ ~up /\ Fail(c, "unavailable")
     \/ "party" \in flaws[c] /\ Fail(c, "validation")
     \/ "signature" \in flaws[c] /\ "party" \notin flaws[c] /\ Fail(c, "unauthorized")
     \/ up /\ flaws[c] \cap {"party", "signature"} = {} /\ Goto(c, "authority")
  /\ UNCHANGED <<flaws, cache, signer, read, stored>>

VerifyParty(c, up) ==
  /\ at[c] = "party" /\ "body" \notin flaws[c]
  /\ \/ ~up /\ Fail(c, "unavailable")
     \/ "party" \in flaws[c] /\ Fail(c, "validation")
     \/ "signature" \in flaws[c] /\ "party" \notin flaws[c] /\ Fail(c, "unauthorized")
     \/ /\ up /\ flaws[c] \cap {"party", "signature"} = {}
        /\ IF "own" \in flaws[c] THEN Fail(c, "unauthorized")
                                 ELSE Goto(c, "authority")
  /\ UNCHANGED <<flaws, cache, signer, read, stored>>

(* VerifyAuthority asks the registration authority's key endpoint; then the *)
(* party must publish an email.  (AuthorityAnyError takes every error for a *)
(* missing countersignature.)                                               *)
AuthorityAnyError(c, up) ==
  /\ at[c] = "authority"
  /\ \/ ("authority" \in flaws[c] \/ ~up) /\ Fail(c, "forbidden")
     \/ /\ up /\ "authority" \notin flaws[c]
        /\ IF "email" \in flaws[c] THEN Fail(c, "validation")
                                   ELSE Goto(c, "upsert")
  /\ UNCHANGED <<flaws, cache, signer, read, stored>>

VerifyAuthority(c, up) ==
  /\ at[c] = "authority"
  /\ \/ ~up /\ Fail(c, "unavailable")
     \/ "authority" \in flaws[c] /\ Fail(c, "forbidden")
     \/ /\ up /\ "authority" \notin flaws[c]
        /\ IF "email" \in flaws[c] THEN Fail(c, "validation")
                                   ELSE Goto(c, "upsert")
  /\ UNCHANGED <<flaws, cache, signer, read, stored>>

(* upsert: its error does not say whether the record was stored.            *)
Upsert(c, done, err) ==
  /\ at[c] = "upsert"
  /\ ~done => err
  /\ stored' = IF done THEN stored \cup {c} ELSE stored
  /\ IF err THEN Fail(c, "internal") ELSE Goto(c, "mail")
  /\ UNCHANGED <<flaws, cache, signer, read>>

SendConfirmation(c, err) ==
  /\ at[c] = "mail"
  /\ IF err THEN Fail(c, "internal") ELSE Answer(c, 202)
  /\ UNCHANGED <<flaws, cache, signer, read, stored>>

-----------------------------------------------------------------------------
(* The process ends and another takes over: nobody in it is answered, and   *)
(* the party is to be signed again.                                         *)
Restart ==
  /\ at' = [c \in Caller |-> "idle"]
  /\ answer' = [c \in Caller |-> IF at[c] = "idle" THEN answer[c] ELSE 0]
  /\ cache' = "fresh" /\ signer' = NoReader
  /\ read' = [c \in Reader |-> NoReader]
  /\ UNCHANGED <<flaws, stored>>

-----------------------------------------------------------------------------
Step(c) ==
  \/ \E up \in BOOLEAN : Auth(c, up) \/ VerifyParty(c, up) \/ VerifyAuthority(c, up)
  \/ Reject(c)
  \/ c \in Reader /\ (BeginSigning(c) \/ Who(c) \/ \E ok \in BOOLEAN : Sign(c, ok))
  \/ \E done, err \in BOOLEAN : Upsert(c, done, err)
  \/ \E err \in BOOLEAN : SendConfirmation(c, err)

Next == (\E c \in Caller : Ask(c) \/ Step(c)) \/ Restart

Spec == Init /\ [][Next]_vars

(* Handlers go on, callers who may retry do, and a call made over and over  *)
(* goes well at last, however often processes are replaced.                 *)
FairSpec ==
  /\ Spec
  /\ \A c \in Caller : WF_vars(Step(c))
  /\ \A c \in Submitter : WF_vars(Ask(c))
  /\ \A c \in Submitter :
       /\ SF_vars(Auth(c, TRUE))
       /\ SF_vars(VerifyParty(c, TRUE))
       /\ SF_vars(VerifyAuthority(c, TRUE))
       /\ SF_vars(Upsert(c, TRUE, FALSE))
       /\ SF_vars(SendConfirmation(c, FALSE))

-----------------------------------------------------------------------------
(* Only a request that passes every check is stored, 202 or not (Receive).  *)
StoredIsSound == \A c \in stored : flaws[c] = {}

(* Nobody is told to give up because somebody else's host was down: "a      *)
(* token that cannot be checked is not an invalid token" (requireAuth), and *)
(* neither is a signature.                                                  *)
RefusedIsFlawed == \A c \in Caller : answer[c] \in Final => flaws[c] # {}

(* "The same static document for every authorized caller" (handleWho):      *)
(* whoever asks a process at whatever moment gets the one envelope it       *)
(* signed, never one half done and never a second one.                      *)
OneDocument ==
  \A c, d \in Reader :
    (read[c] # NoReader /\ read[d] # NoReader) => read[c] = read[d]

(* A sound submission that is sent again as long as the answers allow it    *)
(* gets in, through outages of the key endpoints, the store and the mail    *)
(* server, and through restarts.                                            *)
SoundIsAccepted ==
  \A c \in Submitter : flaws[c] = {} ~> answer[c] = 202

(* Nobody is left waiting for PartyEnvelope: whoever is inside the Once     *)
(* comes out, with a document, an error or the end of its process.          *)
SigningEnds == cache = "signing" ~> cache # "signing"
=============================================================================

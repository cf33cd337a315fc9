-------------------------- MODULE EndpointsProofs --------------------------
(***************************************************************************)
(* Proofs about Endpoints, for any number of readers and submitters and    *)
(* any requests.                                                           *)
(***************************************************************************)
EXTENDS Endpoints, TLAPS

(* How far a request has come says which checks it has passed.              *)
PassedBy(p) ==
  CASE p = "party" -> {"token"}
    [] p = "authority" -> {"token", "body", "party", "signature", "own"}
    [] p \in {"upsert", "mail"} -> Checks
    [] OTHER -> {}

Passed(c) ==
  /\ at[c] \in {"party", "authority", "upsert", "mail"} => c \in Submitter
  /\ at[c] \in {"who", "signing"} => c \in Reader
  /\ flaws[c] \cap PassedBy(at[c]) = {}

PassInv ==
  /\ \A c \in Caller : Passed(c)
  /\ StoredIsSound /\ RefusedIsFlawed

(* One request at most is inside the Once, and only before there is a       *)
(* document; every document that was served is the one that is kept.        *)
OnceInv ==
  /\ \A c \in Caller : at[c] = "signing" => cache = "signing"
  /\ \A c, d \in Caller : (at[c] = "signing" /\ at[d] = "signing") => c = d
  /\ cache # "signed" => signer = NoReader
  /\ \A c \in Reader : read[c] # NoReader => read[c] = signer

(* What every step but Restart does to the places and the answers.          *)
LEMMA OthersStay ==
  ASSUME EndpointsTypeOK, NEW c \in Caller, Ask(c) \/ Step(c)
  PROVE  /\ flaws' = flaws
         /\ \A d \in Caller \ {c} : at'[d] = at[d] /\ answer'[d] = answer[d]
<1> USE DEF EndpointsTypeOK, Goto, Answer, Fail
<1>1. CASE Ask(c)
  BY <1>1 DEF Ask
<1>2. ASSUME NEW up \in BOOLEAN,
             Auth(c, up) \/ VerifyParty(c, up) \/ VerifyAuthority(c, up)
      PROVE  /\ flaws' = flaws
             /\ \A d \in Caller \ {c} : at'[d] = at[d] /\ answer'[d] = answer[d]
  BY <1>2 DEF Auth, VerifyParty, VerifyAuthority
<1>3. CASE Reject(c)
  BY <1>3 DEF Reject
<1>4. ASSUME NEW ok \in BOOLEAN, Sign(c, ok)
      PROVE  /\ flaws' = flaws
             /\ \A d \in Caller \ {c} : at'[d] = at[d] /\ answer'[d] = answer[d]
  BY <1>4 DEF Sign
<1>5. ASSUME NEW done \in BOOLEAN, NEW err \in BOOLEAN,
             Upsert(c, done, err) \/ SendConfirmation(c, err)
      PROVE  /\ flaws' = flaws
             /\ \A d \in Caller \ {c} : at'[d] = at[d] /\ answer'[d] = answer[d]
  BY <1>5 DEF Upsert, SendConfirmation
<1>6. CASE BeginSigning(c) \/ Who(c)
  BY <1>6 DEF BeginSigning, Who
<1>7. QED
  BY <1>1, <1>2, <1>3, <1>4, <1>5, <1>6 DEF Step

-----------------------------------------------------------------------------
(* Types.                                                                   *)
LEMMA StatusKinds ==
  /\ StatusForError("validation") = 422 /\ StatusForError("unauthorized") = 401
  /\ StatusForError("forbidden") = 403 /\ StatusForError("unavailable") = 503
  /\ StatusForError("internal") = 500
  BY DEF StatusForError

LEMMA TypeStep ==
  ASSUME EndpointsTypeOK, PassInv, [Next]_vars
  PROVE  EndpointsTypeOK'
<1> USE CallersApart, NoReaderAssumption
        DEF EndpointsTypeOK, Goto, Answer, Caller, Final, Retryable
<1>1. ASSUME NEW c \in Caller, Ask(c) PROVE EndpointsTypeOK'
  BY <1>1 DEF Ask
<1>2. ASSUME NEW c \in Caller, NEW up \in BOOLEAN, Auth(c, up)
      PROVE  EndpointsTypeOK'
  BY <1>2 DEF Auth
<1>3. ASSUME NEW c \in Caller, Reject(c) PROVE EndpointsTypeOK'
  <2>1. c \in Submitter
    BY <1>3 DEF Reject, PassInv, Passed
  <2>2. QED
    BY <1>3, <2>1, StatusKinds DEF Reject
<1>4. ASSUME NEW c \in Caller, NEW up \in BOOLEAN, VerifyParty(c, up)
      PROVE  EndpointsTypeOK'
  BY <1>4, StatusKinds DEF VerifyParty, Fail
<1>5. ASSUME NEW c \in Caller, NEW up \in BOOLEAN, VerifyAuthority(c, up)
      PROVE  EndpointsTypeOK'
  BY <1>5, StatusKinds DEF VerifyAuthority, Fail
<1>6. ASSUME NEW c \in Reader, BeginSigning(c) \/ Who(c)
      PROVE  EndpointsTypeOK'
  BY <1>6 DEF BeginSigning, Who
<1>7. ASSUME NEW c \in Reader, NEW ok \in BOOLEAN, Sign(c, ok)
      PROVE  EndpointsTypeOK'
  BY <1>7 DEF Sign
<1>8. ASSUME NEW c \in Caller, NEW done \in BOOLEAN, NEW err \in BOOLEAN,
             Upsert(c, done, err)
      PROVE  EndpointsTypeOK'
  <2>1. c \in Submitter
    BY <1>8 DEF Upsert, PassInv, Passed
  <2>2. QED
    BY <1>8, <2>1, StatusKinds DEF Upsert, Fail
<1>9. ASSUME NEW c \in Caller, NEW err \in BOOLEAN, SendConfirmation(c, err)
      PROVE  EndpointsTypeOK'
  <2>1. c \in Submitter
    BY <1>9 DEF SendConfirmation, PassInv, Passed
  <2>2. QED
    BY <1>9, <2>1, StatusKinds DEF SendConfirmation, Fail
<1>10. CASE Restart
  BY <1>10 DEF Restart
<1>11. CASE UNCHANGED vars
  BY <1>11 DEF vars
<1>12. QED
  BY <1>1, <1>2, <1>3, <1>4, <1>5, <1>6, <1>7, <1>8, <1>9, <1>10, <1>11
     DEF Next, Step

-----------------------------------------------------------------------------
(* The checks.                                                              *)

(* The request that moves has passed what its place says, is refused only   *)
(* for a flaw, and is stored only without one.                              *)
LEMMA PassOwn ==
  ASSUME EndpointsTypeOK, PassInv, NEW c \in Caller,
         Ask(c) \/ Step(c)
  PROVE  /\ Passed(c)'
         /\ answer'[c] \in Final => flaws[c] # {}
         /\ stored' = stored \/ (stored' = stored \cup {c} /\ flaws[c] = {})
<1> DEFINE Good == /\ Passed(c)'
                   /\ answer'[c] \in Final => flaws[c] # {}
                   /\ \/ stored' = stored
                      \/ stored' = stored \cup {c} /\ flaws[c] = {}
<1> USE DEF EndpointsTypeOK, Goto, Answer
<1>a. flaws[c] \subseteq Checks /\ (c \in Reader \/ c \in Submitter)
  BY FlawedAssumption DEF Caller
<1>b. /\ flaws' = flaws
      /\ flaws[c] \cap PassedBy(at[c]) = {}
      /\ answer[c] \in Final => flaws[c] # {}
      /\ at[c] \in {"party", "authority", "upsert", "mail"} => c \in Submitter
      /\ at[c] \in {"who", "signing"} => c \in Reader
  BY OthersStay DEF PassInv, Passed, RefusedIsFlawed
<1>c. /\ PassedBy("idle") = {} /\ PassedBy("auth") = {}
      /\ PassedBy("who") = {} /\ PassedBy("signing") = {}
      /\ PassedBy("party") = {"token"}
      /\ PassedBy("authority") = {"token", "body", "party", "signature", "own"}
      /\ PassedBy("upsert") = Checks /\ PassedBy("mail") = Checks
  BY DEF PassedBy
(* It is answered, and stores nothing.                                      *)
<1>d. ASSUME at'[c] = "idle", stored' = stored,
             answer'[c] \in Final => flaws[c] # {}
      PROVE  Good
  BY <1>b, <1>c, <1>d DEF Passed
(* It goes on to a place whose checks it has passed, and stores nothing.    *)
<1>e. ASSUME stored' = stored, answer' = answer,
             flaws[c] \cap PassedBy(at'[c]) = {},
             at'[c] \in {"party", "authority", "upsert", "mail"} => c \in Submitter,
             at'[c] \in {"who", "signing"} => c \in Reader
      PROVE  Good
  BY <1>b, <1>e DEF Passed
<1>f. 0 \notin Final /\ 200 \notin Final /\ 202 \notin Final
      /\ 500 \notin Final /\ 503 \notin Final
  BY DEF Final
<1>1. CASE Ask(c)
  BY <1>1, <1>c, <1>e DEF Ask
<1>2. ASSUME NEW up \in BOOLEAN, Auth(c, up) PROVE Good
  <2>1. CASE at'[c] = "idle"
    BY <1>2, <1>d, <1>f, <2>1 DEF Auth
  <2>2. CASE at'[c] # "idle"
    <3>1. /\ "token" \notin flaws[c] /\ stored' = stored /\ answer' = answer
          /\ at'[c] = IF c \in Reader THEN "who" ELSE "party"
      BY <1>2, <2>2 DEF Auth
    <3>2. QED
      BY <1>a, <1>c, <1>e, <3>1
  <2>3. QED
    BY <2>1, <2>2
<1>3. CASE Reject(c)
  BY <1>3, <1>d DEF Reject
<1>4. ASSUME NEW up \in BOOLEAN, VerifyParty(c, up) PROVE Good
  <2>1. CASE at'[c] = "idle"
    BY <1>4, <1>d, <1>f, <2>1, StatusKinds DEF VerifyParty, Fail
  <2>2. CASE at'[c] # "idle"
    <3>1. /\ flaws[c] \cap {"body", "party", "signature", "own"} = {}
          /\ at[c] = "party" /\ at'[c] = "authority"
          /\ stored' = stored /\ answer' = answer
      BY <1>4, <2>2 DEF VerifyParty, Fail
    <3>2. QED
      BY <1>b, <1>c, <1>e, <3>1
  <2>3. QED
    BY <2>1, <2>2
<1>5. ASSUME NEW up \in BOOLEAN, VerifyAuthority(c, up) PROVE Good
  <2>1. CASE at'[c] = "idle"
    BY <1>5, <1>d, <1>f, <2>1, StatusKinds DEF VerifyAuthority, Fail
  <2>2. CASE at'[c] # "idle"
    <3>1. /\ flaws[c] \cap {"authority", "email"} = {}
          /\ at[c] = "authority" /\ at'[c] = "upsert"
          /\ stored' = stored /\ answer' = answer
      BY <1>5, <2>2 DEF VerifyAuthority, Fail
    <3>2. flaws[c] = {}
      BY <1>a, <1>b, <1>c, <3>1 DEF Checks
    <3>3. QED
      BY <1>b, <1>e, <3>1, <3>2
  <2>3. QED
    BY <2>1, <2>2
<1>6. CASE BeginSigning(c)
  BY <1>6, <1>b, <1>c, <1>e DEF BeginSigning
<1>7. CASE Who(c)
  BY <1>7, <1>d, <1>f DEF Who
<1>8. ASSUME NEW ok \in BOOLEAN, Sign(c, ok) PROVE Good
  BY <1>8, <1>d, <1>f DEF Sign
<1>9. ASSUME NEW done \in BOOLEAN, NEW err \in BOOLEAN, Upsert(c, done, err)
      PROVE  Good
  <2>1. /\ flaws[c] = {} /\ c \in Submitter
        /\ stored' = stored \/ stored' = stored \cup {c}
        /\ \/ at'[c] = "idle" /\ answer'[c] = 500
           \/ at'[c] = "mail" /\ answer' = answer
    BY <1>9, <1>a, <1>b, <1>c, StatusKinds DEF Upsert, Fail
  <2>2. QED
    BY <1>b, <1>f, <2>1 DEF Passed
<1>10. ASSUME NEW err \in BOOLEAN, SendConfirmation(c, err) PROVE Good
  BY <1>10, <1>d, <1>f, StatusKinds DEF SendConfirmation, Fail
<1>11. QED
  BY <1>1, <1>2, <1>3, <1>4, <1>5, <1>6, <1>7, <1>8, <1>9, <1>10 DEF Step

LEMMA PassStep == EndpointsTypeOK /\ PassInv /\ [Next]_vars => PassInv'
<1> SUFFICES ASSUME EndpointsTypeOK, PassInv, [Next]_vars PROVE PassInv'
  OBVIOUS
<1>1. ASSUME NEW c \in Caller, Ask(c) \/ Step(c) PROVE PassInv'
  <2>1. \A d \in Caller : Passed(d)'
    BY <1>1, OthersStay, PassOwn DEF PassInv, Passed
  <2>2. RefusedIsFlawed'
    BY <1>1, OthersStay, PassOwn DEF PassInv, RefusedIsFlawed
  <2>3. StoredIsSound'
    BY <1>1, OthersStay, PassOwn DEF PassInv, StoredIsSound
  <2>4. QED
    BY <2>1, <2>2, <2>3 DEF PassInv
<1>2. CASE Restart
  <2>1. /\ flaws' = flaws /\ stored' = stored
        /\ \A c \in Caller : at'[c] = "idle" /\ answer'[c] \in {answer[c], 0}
    BY <1>2 DEF Restart
  <2>2. \A c \in Caller : Passed(c)'
    BY <2>1 DEF Passed, PassedBy
  <2>3. 0 \notin Final
    BY DEF Final
  <2>4. QED
    BY <2>1, <2>2, <2>3 DEF PassInv, RefusedIsFlawed, StoredIsSound
<1>3. CASE UNCHANGED vars
  BY <1>3 DEF vars, PassInv, Passed, RefusedIsFlawed, StoredIsSound
<1>4. QED
  BY <1>1, <1>2, <1>3 DEF Next

LEMMA PassInvariant == Spec => [](EndpointsTypeOK /\ PassInv)
<1>1. Init => EndpointsTypeOK /\ PassInv
  BY CallersApart, NoReaderAssumption
     DEF Init, EndpointsTypeOK, PassInv, Passed, PassedBy, StoredIsSound,
         RefusedIsFlawed, Final, Retryable, Caller
<1>2. EndpointsTypeOK /\ PassInv /\ [Next]_vars => (EndpointsTypeOK /\ PassInv)'
  BY TypeStep, PassStep
<1>3. QED
  BY <1>1, <1>2, PTL DEF Spec

(* Types of the endpoints, among them that the inbox answers no 200 and who *)
(* no 202.                                                                  *)
THEOREM EndpointsTypes == Spec => []EndpointsTypeOK
  BY PassInvariant, PTL

(* Only requests that pass every check are stored (Receive).                *)
THEOREM StoredAreSound == Spec => []StoredIsSound
<1>1. PassInv => StoredIsSound
  BY DEF PassInv
<1>2. QED
  BY <1>1, PassInvariant, PTL

(* No outage makes a sound request fail for good (requireAuth, Receive).    *)
THEOREM RefusedAreFlawed == Spec => []RefusedIsFlawed
<1>1. PassInv => RefusedIsFlawed
  BY DEF PassInv
<1>2. QED
  BY <1>1, PassInvariant, PTL

-----------------------------------------------------------------------------
(* The Once.                                                                *)
LEMMA OnceStep ==
  EndpointsTypeOK /\ OnceInv /\ [Next]_vars => OnceInv'
<1> SUFFICES ASSUME EndpointsTypeOK, OnceInv, [Next]_vars PROVE OnceInv'
  OBVIOUS
<1> USE DEF EndpointsTypeOK
<1>1. ASSUME NEW c \in Caller, Ask(c) \/ Step(c),
             UNCHANGED <<cache, signer, read>>, at'[c] # "signing"
      PROVE  OnceInv'
  BY <1>1, OthersStay DEF OnceInv
<1>2. ASSUME NEW c \in Reader, BeginSigning(c) PROVE OnceInv'
  BY <1>2 DEF BeginSigning, Goto, OnceInv, Caller
<1>3. ASSUME NEW c \in Reader, NEW ok \in BOOLEAN, Sign(c, ok) PROVE OnceInv'
  <2>1. cache = "signing" /\ signer = NoReader
    BY <1>3 DEF Sign, OnceInv, Caller
  <2>2. \A d \in Caller : at'[d] # "signing"
    BY <1>3 DEF Sign, Answer, OnceInv, Caller
  <2>3. \A d \in Reader : read[d] = NoReader
    BY <2>1 DEF OnceInv
  <2>4. QED
    BY <1>3, <2>1, <2>2, <2>3 DEF Sign, OnceInv
<1>4. ASSUME NEW c \in Reader, Who(c) PROVE OnceInv'
  BY <1>4 DEF Who, Answer, OnceInv, Caller
<1>5. CASE Restart
  BY <1>5 DEF Restart, OnceInv
<1>6. CASE UNCHANGED vars
  BY <1>6 DEF vars, OnceInv
<1>7. ASSUME NEW c \in Caller,
             \/ Ask(c) \/ Reject(c)
             \/ \E up \in BOOLEAN : Auth(c, up) \/ VerifyParty(c, up) \/ VerifyAuthority(c, up)
             \/ \E done, err \in BOOLEAN : Upsert(c, done, err)
             \/ \E err \in BOOLEAN : SendConfirmation(c, err)
      PROVE  OnceInv'
  <2>1. UNCHANGED <<cache, signer, read>> /\ at'[c] # "signing"
    BY <1>7 DEF Ask, Reject, Auth, VerifyParty, VerifyAuthority, Upsert,
                SendConfirmation, Goto, Answer, Fail
  <2>2. Ask(c) \/ Step(c)
    BY <1>7 DEF Step
  <2>3. QED
    BY <1>1, <2>1, <2>2
<1>8. QED
  BY <1>2, <1>3, <1>4, <1>5, <1>6, <1>7 DEF Next, Step

(* A process serves one party envelope, whatever requests come together and *)
(* whether signing works or not (PartyEnvelope).                            *)
THEOREM OneDocumentServed == Spec => []OneDocument
<1>1. Init => OnceInv
  BY DEF Init, OnceInv
<1>2. OnceInv => OneDocument
  BY DEF OnceInv, OneDocument
<1>3. QED
  BY <1>1, <1>2, OnceStep, EndpointsTypes, PTL DEF Spec

(* Whoever waits for PartyEnvelope waits for a request that is signing: the *)
(* Once is not left taken by a request that has gone, be it answered with   *)
(* an error or ended with its process.  SigningEnds is this and fairness.   *)
OnceIsHeld == cache = "signing" => \E c \in Reader : at[c] = "signing"

(* OnceIsHeld, for any readers.                                             *)
THEOREM NobodyWaitsForNobody == Spec => []OnceIsHeld
<1>1. Init => OnceIsHeld
  BY DEF Init, OnceIsHeld
<1>2. EndpointsTypeOK /\ OnceIsHeld /\ [Next]_vars => OnceIsHeld'
  <2> SUFFICES ASSUME EndpointsTypeOK, OnceIsHeld, [Next]_vars PROVE OnceIsHeld'
    OBVIOUS
  <2> USE DEF EndpointsTypeOK
  <2>1. ASSUME NEW c \in Caller, Ask(c) \/ Step(c), cache' = cache,
               at[c] # "signing"
        PROVE  OnceIsHeld'
    BY <2>1, OthersStay DEF OnceIsHeld, Caller
  <2>2. ASSUME NEW c \in Caller,
               \/ Ask(c) \/ Reject(c)
               \/ \E up \in BOOLEAN : Auth(c, up) \/ VerifyParty(c, up) \/ VerifyAuthority(c, up)
               \/ \E done, err \in BOOLEAN : Upsert(c, done, err)
               \/ \E err \in BOOLEAN : SendConfirmation(c, err)
        PROVE  OnceIsHeld'
    <3>1. cache' = cache /\ at[c] # "signing"
      BY <2>2 DEF Ask, Reject, Auth, VerifyParty, VerifyAuthority, Upsert,
                  SendConfirmation
    <3>2. Ask(c) \/ Step(c)
      BY <2>2 DEF Step
    <3>3. QED
      BY <2>1, <3>1, <3>2
  <2>3. ASSUME NEW c \in Reader, BeginSigning(c) PROVE OnceIsHeld'
    BY <2>3 DEF BeginSigning, Goto, OnceIsHeld, Caller
  <2>4. ASSUME NEW c \in Reader, NEW ok \in BOOLEAN, Sign(c, ok) PROVE OnceIsHeld'
    BY <2>4 DEF Sign, OnceIsHeld
  <2>5. ASSUME NEW c \in Reader, Who(c) PROVE OnceIsHeld'
    BY <2>5 DEF Who, OnceIsHeld
  <2>6. CASE Restart
    BY <2>6 DEF Restart, OnceIsHeld
  <2>7. CASE UNCHANGED vars
    BY <2>7 DEF vars, OnceIsHeld
  <2>8. QED
    BY <2>2, <2>3, <2>4, <2>5, <2>6, <2>7 DEF Next, Step
<1>3. QED
  BY <1>1, <1>2, EndpointsTypes, PTL DEF Spec

-----------------------------------------------------------------------------
(* Answers.                                                                 *)

(* What a 202 stands for: the envelope is stored, and stays so whatever     *)
(* processes end; an error of the store or the mail server is none          *)
(* (handleInbox, Receive).                                                  *)
AcceptedIsStored ==
  \A c \in Caller : (answer[c] = 202 \/ at[c] = "mail") => c \in stored

(* AcceptedIsStored, for any submitters.                                    *)
THEOREM AcceptedAreStored == Spec => []AcceptedIsStored
<1>1. Init => AcceptedIsStored
  BY DEF Init, AcceptedIsStored
<1>2. EndpointsTypeOK /\ AcceptedIsStored /\ [Next]_vars => AcceptedIsStored'
  <2> SUFFICES ASSUME EndpointsTypeOK, AcceptedIsStored, [Next]_vars
               PROVE  AcceptedIsStored'
    OBVIOUS
  <2> USE DEF EndpointsTypeOK
  <2>1. ASSUME NEW c \in Caller, Ask(c) \/ Step(c), stored \subseteq stored',
               (answer'[c] = 202 \/ at'[c] = "mail") => c \in stored'
        PROVE  AcceptedIsStored'
    BY <2>1, OthersStay DEF AcceptedIsStored
  <2>2. ASSUME NEW c \in Caller, Ask(c) \/ Step(c)
        PROVE  /\ stored \subseteq stored'
               /\ (answer'[c] = 202 \/ at'[c] = "mail") => c \in stored'
    <3> USE DEF Goto, Answer, Fail, AcceptedIsStored
    <3>1. CASE Ask(c)
      BY <3>1 DEF Ask
    <3>2. CASE \E up \in BOOLEAN : Auth(c, up)
      BY <3>2 DEF Auth
    <3>3. CASE \E up \in BOOLEAN : VerifyParty(c, up) \/ VerifyAuthority(c, up)
      BY <3>3, StatusKinds DEF VerifyParty, VerifyAuthority
    <3>4. CASE Reject(c)
      BY <3>4, StatusKinds DEF Reject
    <3>5. CASE BeginSigning(c) \/ Who(c) \/ \E ok \in BOOLEAN : Sign(c, ok)
      BY <3>5 DEF BeginSigning, Who, Sign
    <3>6. CASE \E done, err \in BOOLEAN : Upsert(c, done, err)
      BY <3>6, StatusKinds DEF Upsert
    <3>7. CASE \E err \in BOOLEAN : SendConfirmation(c, err)
      BY <3>7, StatusKinds DEF SendConfirmation
    <3>8. QED
      BY <2>2, <3>1, <3>2, <3>3, <3>4, <3>5, <3>6, <3>7 DEF Step
  <2>3. CASE Restart
    <3>1. /\ stored' = stored
          /\ \A c \in Caller : at'[c] = "idle" /\ answer'[c] \in {answer[c], 0}
      BY <2>3 DEF Restart
    <3>2. QED
      BY <3>1 DEF AcceptedIsStored
  <2>4. CASE UNCHANGED vars
    BY <2>4 DEF vars, AcceptedIsStored
  <2>5. QED
    BY <2>1, <2>2, <2>3, <2>4 DEF Next
<1>3. QED
  BY <1>1, <1>2, EndpointsTypes, PTL DEF Spec

(* The calls a handler has before it, at most.                              *)
CallsLeft(c) ==
  CASE at[c] = "idle" -> 0
    [] at[c] \in {"mail", "signing"} -> 1
    [] at[c] \in {"upsert", "who"} -> 2
    [] at[c] = "authority" -> 3
    [] at[c] = "party" -> 4
    [] at[c] = "auth" -> 5

(* Each call brings a handler nearer to its answer, whatever fails, and no  *)
(* other caller sends it back; it begins again only when its caller comes   *)
(* again after an answer that allows it.                                    *)
RequestsEnd ==
  [][\A c \in Caller :
       /\ Step(c) => CallsLeft(c)' < CallsLeft(c)
       /\ CallsLeft(c)' > CallsLeft(c) => Ask(c)]_vars

(* RequestsEnd, for any callers and any flaws.                              *)
THEOREM NoHandlerLoops == Spec => RequestsEnd
<1> DEFINE Ends == \A c \in Caller :
              /\ Step(c) => CallsLeft(c)' < CallsLeft(c)
              /\ CallsLeft(c)' > CallsLeft(c) => Ask(c)
<1>1. ASSUME EndpointsTypeOK, EndpointsTypeOK', Next PROVE Ends
  <2> USE DEF EndpointsTypeOK
  <2>1. \A c \in Caller : CallsLeft(c) \in 0..5 /\ CallsLeft(c)' \in 0..5
    BY <1>1 DEF CallsLeft
  <2>2. ASSUME NEW c \in Caller, Step(c) PROVE CallsLeft(c)' < CallsLeft(c)
    <3>1. \/ at[c] = "auth" /\ at'[c] \in {"who", "party", "idle"}
          \/ at[c] = "who" /\ at'[c] \in {"signing", "idle"}
          \/ at[c] = "party" /\ at'[c] \in {"authority", "idle"}
          \/ at[c] = "authority" /\ at'[c] \in {"upsert", "idle"}
          \/ at[c] = "upsert" /\ at'[c] \in {"mail", "idle"}
          \/ at[c] \in {"mail", "signing"} /\ at'[c] = "idle"
      <4> USE DEF Goto, Answer, Fail
      <4>1. CASE \E up \in BOOLEAN : Auth(c, up)
        BY <1>1, <4>1 DEF Auth
      <4>2. CASE \E up \in BOOLEAN : VerifyParty(c, up)
        BY <1>1, <4>2 DEF VerifyParty
      <4>3. CASE \E up \in BOOLEAN : VerifyAuthority(c, up)
        BY <1>1, <4>3 DEF VerifyAuthority
      <4>4. CASE Reject(c)
        BY <1>1, <4>4 DEF Reject
      <4>5. CASE BeginSigning(c) \/ Who(c) \/ \E ok \in BOOLEAN : Sign(c, ok)
        BY <1>1, <4>5 DEF BeginSigning, Who, Sign
      <4>6. CASE \E done, err \in BOOLEAN : Upsert(c, done, err)
        BY <1>1, <4>6 DEF Upsert
      <4>7. CASE \E err \in BOOLEAN : SendConfirmation(c, err)
        BY <1>1, <4>7 DEF SendConfirmation
      <4>8. QED
        BY <2>2, <4>1, <4>2, <4>3, <4>4, <4>5, <4>6, <4>7 DEF Step
    <3>2. QED
      BY <3>1 DEF CallsLeft
  <2>3. ASSUME NEW c \in Caller, ~Ask(c) PROVE ~(CallsLeft(c)' > CallsLeft(c))
    <3>1. ASSUME at'[c] = at[c] PROVE CallsLeft(c)' = CallsLeft(c)
      BY <3>1 DEF CallsLeft
    <3>2. ASSUME NEW d \in Caller \ {c}, Ask(d) \/ Step(d) PROVE at'[c] = at[c]
      BY <1>1, <3>2, OthersStay
    <3>3. CASE Restart
      <4>1. CallsLeft(c)' = 0
        BY <3>3 DEF Restart, CallsLeft
      <4>2. QED
        BY <2>1, <4>1
    <3>4. QED
      BY <1>1, <2>1, <2>2, <2>3, <3>1, <3>2, <3>3 DEF Next
  <2>4. QED
    BY <2>2, <2>3
<1>2. QED
  BY <1>1, EndpointsTypes, PTL DEF Spec, RequestsEnd
=============================================================================

# A formal model of gobl.kyb.sandbox

TLA+ modules, TLC configurations and machine-checked proofs about the sandbox
KYB verifier in this repository: a service that receives registered party
envelopes, emails the party's published address, records the declaration made
through the emailed link, and returns a countersigned envelope to the
registration authority.  Paths below are relative to the repository.

## 1. The system

| Component | Code | State | Operations |
|---|---|---|---|
| Verification service | `internal/domain/verifications.go` | none of its own; every request holds a private copy of a record | `Receive` (`upsert`, `sendConfirmation`), `Confirmation`, `Confirm`, `Redeliver`, `deliver` |
| Verification store | `internal/domain/repos/verifications.go` (CouchDB), `verifications_memory.go` | one document per address, with a revision | `Put`, `Get`, `GetByToken` |
| Record | `internal/domain/models/verification.go` | status, token and expiry, envelope, attestation, email and delivery notes | `NewVerification`, `Validate`, `TokenExpired` |
| Web handlers | `internal/interfaces/web` | none | inbox POST, confirm GET and POST, who, keys, JWKS, health; `requireAuth` |
| Identity service | `internal/domain/identity.go` | the loaded identity, the cached party envelope | `CounterSign`, `PartyEnvelope`, `VerifyRequest` |
| Identity directory | `internal/domain/repos/identity.go` | `private.jwk`, `keys/<kid>.json`, `party.json` | `InitIdentity`, `LoadIdentity` |
| Delivery sender | `internal/domain/delivery` | connection pool | `Send` |
| Mailer | `internal/domain/mailer` | none | `Send` over SMTP, or to the log |
| Commands | `cmd/gobl.kyb.sandbox` | the process, its store handle, its context | `init`, `serve` (build, listen, drain, clean up), `redeliver` |
| Configuration | `internal/config` | none | environment and flags |

How they interact.  An HTTP request runs in a goroutine of its own; `redeliver`
runs in a process of its own.  Neither holds a lock across calls: a handler
reads the record, works on its copy, calls the mailer or the authority for up to
30 seconds, and writes the copy back under the revision it read.  The only
thing requests share is the store, and the only thing that orders them is the
revision check of `Put`.  The signing identity is read from disk once per
process, while `init` may rewrite it.

What is hard:

- *Concurrency.*  A confirmation runs against the email bookkeeping of the
  inbox request that mailed its link, against other confirmations and
  redeliveries of the same record, and against a new submission that replaces
  the record and its link.
- *Atomicity.*  CouchDB looks a token up in two steps.  The confirm handler
  reads the record once for the checkbox and again in `Confirm`.
- *Lost answers.*  The mail server, the authority and the database may all act
  and then fail to say so.
- *Crashes* between any two calls, and between two file writes of `init`.
- *Time.*  A link expires between two reads of one request; shutdown waits
  10 seconds for deliveries that may take 30, and then closes the store under
  the handlers that are left.
- *Outages.*  A token or a signature may be impossible to check for the moment,
  which is not the same as being bad.
- *Recovery.*  Nothing in the process retries a failed delivery; people do, and
  may do it at the same time.
- *Once.*  The party envelope is signed by whichever reader comes first, while
  the others wait.
- *Rounds.*  An envelope comes back with our own earlier countersignature,
  possibly by a key this process has not loaded.

What makes each component correct: the store never lets a stale copy win; the
service delivers only what was declared through the mailed link, never shows
success without a 202, acknowledges only what it stored and mailed, and answers
every request; a process that is told to stop stops, and what it cuts off
harms no record; only what is flawed is refused for good; the identity directory on disk always holds the keys a running
process signs with; countersigning replaces our own signature and nobody else's.

## 2. Modules

| Module | Models |
|---|---|
| `VerificationStore` | the record, `NewVerification`, and `Put`/`Get` of either store |
| `Verifications` | the handlers and the redeliver command over the store, with mailbox, authority and clock as environment; extends `VerificationStore` |
| `Attestation` | the promise of the service, without requests, revisions or pages |
| `VerificationsProofs` | theorems about `Verifications`, and that it implements `Attestation` |
| `Recovery` | one submission whose deliveries fail, and those who try again |
| `RecoveryProofs` | that `Verifications`, seen from any token, implements `Recovery` |
| `RecoverySafety` | theorems about `Recovery` itself |
| `Service` | the serve command around the handlers: start, signals, drain, cleanup, exit, kill; extends `Verifications` |
| `ServiceProofs` | theorems about `Service`, that it implements `Verifications`, and what it inherits; extends `RecoveryProofs` |
| `Endpoints` | `requireAuth`, the inbox's checks one by one, and who with its `sync.Once` |
| `EndpointsProofs` | theorems about `Endpoints` |
| `IdentityFiles` | the identity directory, `init`, and processes that load it |
| `Countersigning` | an envelope's signatures over rounds of renewal; extends `IdentityFiles` |
| `PublishedKeys` | the order of `jwks.json` |
| `CountersigningProofs` | theorems about `IdentityFiles`, `Countersigning` and `PublishedKeys` |
| `Exchange` | what a caller of either `Send` may rely on |
| `Mailer` | one `Send` of the mailer, over SMTP or to the log |
| `Delivery` | one `Send` of the HTTP sender, with its dialling and redirects |
| `MailerProofs`, `DeliveryProofs` | theorems about them, and that both implement `Exchange` |
| `MCVerifications`, `MCService`, `MCEndpoints`, `MCCountersigning` | the finite instances for TLC |

### Verifications

One action is one call to the store, the mailer or the authority together with
the local code around it, because other requests run between any two such
calls.  The program counters follow the handlers:

| Handler | `pc` | Code |
|---|---|---|
| inbox POST | `idle` -> `upsertPut` -> `mail` -> `mailPut` -> `done` | `Receive`, `upsert`, `sendConfirmation` |
| confirm GET | `page` -> `done` | `handleConfirmPage` |
| confirm POST | `confirmation` -> `confirm` -> `confirmPut` (-> `reread`) -> `deliver` -> `deliverPut` -> `done` | `handleConfirmSubmit`, `Confirm`, `deliver` |
| redeliver | `idle` -> `deliver` -> `deliverPut` -> `done` | `Redeliver`, `deliver` |

`upsert`'s `Get` is one step with the minting of the token, which nobody else
sees before the write.  `deliver` begins with the countersigning of a copy,
which either fails (`CounterSignFails`) or precedes the `Send` of the same
step; both leave the shared state alone.

*Data.*  An envelope is a member of a set with the address it declares; a
submission is named by its token; times are Booleans (`EmailSentAt # nil`), and
so are error texts.  `resp` is the error kind or the page shown.  A revision is
a counter: the code compares revisions only for equality, and each write makes
one that was never there before.

*Failure.*  `Put` may be acknowledged, refused for its revision, fail, or be
applied with its answer lost.  `MailSend` and `DeliverSend` may report an error
for something that happened.  `Crash` ends a request anywhere.  These outcomes
are kept when `AtomicLookup` is TRUE too, so that instance covers more than
`MemoryVerifications`, whose writes do not get lost: it is the whole service
over any store whose token lookup is one step.

*Constants.*  `AtomicLookup` chooses the lookup of `MemoryVerifications` (TRUE)
or the two steps of the CouchDB view (FALSE).  `Token` bounds the submissions
and `Request` the requests; there is no other bound.

### Service

`Service` adds the life of the server's process: `server` is where `serveCmd` is
(building its domain, serving, draining in `Shutdown`, leaving through its
deferred cleanup), `exit` how it ended.  A handler may arrive while the process
accepts, which includes connections that were open before the listener closed,
and after a drain that timed out or a listener that failed, until the process
is gone.  Once `CloseStore` has run every call to the store fails at once
(`StepWithoutStore`) while the mailer and the sender still work.  `Kill` may come at
any moment; the handlers of a dead process end in `Crash`, and a new process
starts when none of them is left.  A second signal changes nothing:
`signal.NotifyContext` keeps catching it.  `redeliver` is a process of its own and
no state of the server concerns it; that it dies is its `Crash`.

`RefinesVerifications` is the point of the composition: none of this is a step
`Verifications` does not allow, so everything proved about `Verifications` holds
across shutdowns and restarts.

### Recovery

`Verifications` serves each request once, so it cannot say that trying again
helps.  `Recovery` is the same handlers seen from one submission, by workers that
come back; revisions are reduced to what `Put` compares, whether the copy is
still the stored one.  `RefinesRecovery` ties it to the code's model: seen from
any token, every step of `Verifications` is a step of `Recovery`.  The mapping
(`LifeOf`, `RecordOf`, `PhaseOf`, `CopyOf`, `CurrentOf`) reads the document that has
the token and the requests whose copy carries it.

### Endpoints

In `Verifications` every way to be refused before anything is stored is the one
action `ReceiveRejected`.  `Endpoints` takes them one by one, because which answer
a caller gets decides whether it comes again: a request has a set of flaws,
found in the order of the code, and each check that asks another host's key
endpoint may find it down.  Callers are outside the repository; told 5xx they
may try again with the same request, told 4xx or 202 they do not.  `cache` and
`signer` are `PartyEnvelope`'s `sync.Once`: whoever begins signing holds it, the
others wait in `Who`.  `Restart` is another process with another `Once`.

### PublishedKeys

`Before` is the comparison `JWKS` sorts with and `JWKS(s, n, K)` says that `s` is a
listing `sort.SliceStable` may leave.  Keys come from `loadKeys` in the order of
file names, which are a convention only.

### IdentityFiles and Countersigning

`os.WriteFile` truncates and then writes, so each file of `InitIdentity` takes
two steps and `InitCrash` may fall anywhere.  A process loads in three:
`party.json`, `private.jwk`, `keys/`.  Reading the `keys` directory is one step:
complete key files only ever join it, so what a listing and the reads after it
find was there at one moment, or the load fails.  One `init` runs at a time.
`Key` bounds the runs of `init`.

"Published" in `ActiveKeyPublished` and `IssuedStaysVerifiable` means on disk, in `keys/`.
A relying party asks a running server, which answers with the set it loaded at its
start and so may lack the newest key: that gap is the finding `renewal_refused`, and
`RefusedOnlyIfStale` bounds it.

`Countersigning` follows one party's envelope.  A signature is who it claims to
be from and, for our own name, the key behind it.  `Receive` stands for
`Receive`'s own-signature check with all other checks passing, `Deliver` for
`countersignedCopy` and `Send` in whichever process runs it.  The races on the
record are `Verifications`' business; here one record is kept and `Deliver` may
be repeated, as the retry button, concurrent confirmations and `redeliver` do.

### Mailer and Delivery

`Verifications` takes the outcome of `mailer.Send` and `sender.Send` as one step
each: nil means that the other side has it, an error means nothing.  `Exchange`
states exactly that, with one thing more: the other side may still take it after
`Send` gave up.  `Verifications` lets it be taken at once in that case, which
loses nothing, since whoever reacts to a mail or an envelope may always wait.
`Mailer` and `Delivery` are the two implementations and are shown to
implement `Exchange`, `Delivery` but for the success of a POST that a redirect turned
into a GET (`ExchangeUnlessRedirected`, see findings).  `Verifications` counts as held what was answered with a 202, as the
code does.

In `Mailer`, `step` is the call `SMTP.Send` is in and `wire` the state of the
pending command: issued, with the server, answered, or lost.  An answer moves to
the next call (`Greeted`, `Proceed`; `Extension`, `StartTLS` and `LoggingIn` where the
code branches).  The ways out are as many as the code's: `DialFails` without a
connection, `SetDeadlineFails` and `GreetingFails` with a `Close` each, and `Fail`, which
closes nothing; `Return` then runs what was deferred, if it was.  Three things come
from net/smtp: a command is one exchange; EHLO is followed by HELO when refused,
and its error, which Send drops, is kept for the next call (`ExtensionDropped`: that
call finds its answer lost); `PlainAuth` refuses an unencrypted connection (also to
a local server, where it would not, so failing there is one outcome more).  An offer
of STARTTLS counts as made when the server made it, read or not: were the kept
error forgotten, `EncryptedIfOffered` would fail.  The server takes the message at the terminating
dot, possibly after the client is gone.  The transport, the username and the
destination are chosen at the start.

In `Delivery`, an address is a member of `IP` and `isPublicIP` the set `Public`.
Every lookup finds any set, so names may change as they like; the order in which
the found addresses are tried is any.  A status is one of each class that `Send`
or net/http tells apart, with 200 besides.  The transport may hold a vetted
connection of an earlier `Send`.  From net/http come the redirects: 301, 302 and
303 become a GET, 307 and 308 repeat the POST, and after ten the client fails.
Of an inbox one thing is assumed: it answers 202 to a POST only when the envelope
was taken.  A GET brings no envelope and may be answered 202 by whoever it reaches.
`Redirects` says which of the two kinds hosts answer with, both in the run.
`MaxRedirects` is ten in net/http and two in the run; the proofs hold for any.

## 3. Runs

| Run | Instance | Distinct states | Shows |
|---|---|---|---|
| `atomic_lookup` | 3 requests, 2 submissions, 1 address, atomic lookup | 56 thousand | `TypeOK`, `RecordTruthful`, `AttestedBeforeDelivery`, `SuccessTruthful`, `AckMeansLinkOut`, `AttestationNeverLost`, `DeadLinksStayDead`, `OnlyRedeliverReopens`, and that the service implements `Attestation` and, for each submission, `Recovery` |
| `service_life` | 2 requests, 2 submissions, CouchDB lookup, any number of starts, signals and kills | 138 thousand | `CleanExitCutsNobody`, `ShutdownEnds`, `HandlersFinish`, that `Service` implements `Verifications`, and `RecordTruthful` and `AttestationNeverLost` with the two-step lookup across restarts |
| `recovery` | 3 workers on one submission | 23 thousand | `ButtonRecovers`, `OperatorRecovers` |
| `authenticated_endpoints` | 2 readers, 1 submitter; no flaw, any one, or all | 80 thousand | `StoredIsSound`, `RefusedIsFlawed`, `OneDocument`, `SoundIsAccepted`, `SigningEnds` |
| `signature_rounds` | 2 keys, a server and a redeliver process | 760 thousand | `ActiveKeyPublished`, `OneFreshSignature`, `IssuedStaysVerifiable`, `RefusedOnlyIfStale` |
| `smtp_exchange` | one `Send`, all transports and options | 906 | `ConnectionReleased`, `EncryptedIfOffered`, `DeadlineBoundsSend`, and that `Mailer` implements `Exchange` |
| `http_delivery` | 2 public addresses, 1 private, 2 redirects of any kind | 2.8 thousand | `DialsOnlyVetted`, `DeadlineBoundsSend`, `ExchangeUnlessRedirected` |
| `unattested_delivery` | 3 requests, 2 submissions, CouchDB lookup | violation | see findings |
| `attestation_not_durable` | 3 requests, 1 submission | violation | see findings |
| `renewal_refused`, `force_does_not_repair` | 2 keys | violation | see findings |
| `quit_fails` | as `smtp_exchange` | violation | see findings |

*Why the bounds are enough to be interesting.*  Two submissions of one address
are what a replaced link needs; the races over a record are between an inbox
request and a confirmation, two confirmations, a confirmation and a redelivery,
or any of these and a second submission: three requests.  `service_life` makes do
with two, one of which may be the `redeliver` of another process: what the server's
life adds is a handler against its own process, and the races among more
handlers are those of `atomic_lookup` and of the proofs, which hold for any number.
Three workers in `recovery` are the one that tries again, one whose write defeats
it, and one that comes back meanwhile.  In `authenticated_endpoints` two readers are
what a `Once` needs, and submitters do not meet.  Addresses do not interact (a record is found by its
own token, and `Put` touches one document), so one is enough for TLC; the
proofs cover any number.  Two keys give a directory with an old and a new key, a
process that loaded the old set, and a torn file that stays.  Requests, tokens
and keys are only compared for equality, so their permutations are symmetries;
the runs with liveness properties use none.

The `Verifications` runs allow deadlock: a request is served once, so a behaviour
may end when none is left.  So do those of `Mailer` and `Delivery`, which follow
one `Send` to its end.

*Fairness.*  Each specification assumes no more than its properties need, and
what only one of them needs is a hypothesis of that property.

- `Service`: the process itself goes on and the shutdown timeout passes; closing the
  database handle returns, as the calls it may have to wait for are single steps here.  Nothing is
  assumed of the handlers for `ShutdownEnds`: a client may send its body as slowly as
  it likes.  `HandlersFinish` assumes that each handler's next call returns (the email
  and the delivery have `deliveryTimeout`, the store its connection), of no particular
  outcome; with `Crash` left unfair.
- `Recovery`: calls return; and the authority, posted to over and over, takes the
  envelope at last, which is strong fairness because attempts come and go:
  `ErrUnavailable` is documented as "retry later".  An authority that rejects for good
  (`ErrInboxRejected`), or an identity that cannot countersign, is outside this
  assumption: there retrying does not help and nothing is promised.  That the subject keeps pressing, or
  the operator keeps running `redeliver`, is the hypothesis of `ButtonRecovers` or
  `OperatorRecovers`.  Both promise that the authority takes the submission, not that
  the record says so: two who try again for ever may refuse each other's writes for
  ever.
- `Endpoints`: handlers go on; submitters who may try again do; and each call to a
  key endpoint, the store or the mail server that is made over and over goes well at
  last (`SoundIsAccepted`).  A process may be replaced at any time, as often as one
  likes.
- `Mailer`, `Delivery`: the client's own steps go on and the deadline passes
  (`context.WithTimeout` in `sendConfirmation` and `deliver`); nothing is assumed of the
  server, the name service or the network, so `DeadlineBoundsSend` is what lets the
  handlers count on `Send` returning.

### Findings

1. **A delivered verification without an attestation** (`attestation_not_durable`).
   When `Confirm`'s write conflicts, the code takes the winner for another
   confirmation.  It can be the bookkeeping write of the inbox request that
   mailed the link.  The re-read record, still unconfirmed, is delivered and
   stored as delivered or failed with `ConfirmedAt` nil, and `redeliver` refuses
   it afterwards.
2. **A confirmation through a replaced link** (`unattested_delivery`).  With
   CouchDB the document is loaded after the view row and its token is not
   compared again, so a request with an old link can confirm and deliver a
   submission whose own link nobody used.
3. **A genuine countersignature refused** (`renewal_refused`).  After
   `init --force`, `redeliver` signs with the new key while the running server
   still checks against the set it loaded.
4. **A sent email reported as failed** (`quit_fails`).  `SMTP.Send` returns the
   error of QUIT after the server has accepted the message; the inbox answers 500
   and the sender submits again, which replaces the mailed link.
5. **`--force` does not repair** (`force_does_not_repair`).  A key file torn by
   an `init` that died is never rewritten and makes every later load fail.

Seen while reading, without a run of its own:

- The sender's client follows redirects by itself (no `CheckRedirect`,
  `internal/domain/delivery/delivery.go`): a POST answered 301, 302 or 303 goes on as a
  GET without the envelope, and a 202 to that makes the record delivered, where
  `StatusDelivered` says "successfully POSTed".  `Delivery` does it too; it is the
  exception `SuccessOfGet` in `ExchangeUnlessRedirected`, and without the exception TLC
  shows that trace.  `Verifications` leaves the case out.
- The README's known limitation that each confirmation appends a countersignature
  no longer describes `CounterSign`, which replaces earlier ones.
- `ErrInboxRejected` is documented as a non-429 4xx, but a plain 200 or a redirect
  without a place also ends in the switch's default.
- `ErrConflict` is documented as the answer to a lost race
  (`internal/domain/errors.go`) but no path returns it; a lost race in `upsert`
  answers 500.
- `handleInbox` says the email is queued, and `delivery.Send` speaks of an
  asynchronous loop, where both are synchronous.

## 4. Proofs

For any sets of addresses, envelopes, tokens, requests, keys, processes and IP
addresses, under the named assumptions of the modules (null values are not members, each
envelope declares an address, the server is a process).

| Theorem | Says | With |
|---|---|---|
| `TypeCorrect` | `[]TypeOK` | |
| `RecordsAreTruthful` | `[]RecordTruthful` | |
| `AttestationKept` | `AttestationNeverLost` | |
| `DeadLinks` | `DeadLinksStayDead` | |
| `CompletedStays` | `OnlyRedeliverReopens` | |
| `SuccessIsTruthful` | `[]SuccessTruthful` | |
| `AcksAreTruthful` | `[]AckMeansLinkOut` | |
| `AttestationIsDurable` | `[]DurableOnceSeen`: a confirmation that found or wrote the attestation is told of a record that keeps it | |
| `NoRequestLoops` | `StepsEnd`: each call brings a request nearer to its answer, nine at most | |
| `NothingUnattested` | `[]AttestedBeforeDelivery` | `AtomicLookup` |
| `ImplementsPromise` | the service implements `Attestation` | `AtomicLookup` |
| `ImplementsRecovery` | the service, seen from any token, implements `Recovery` | `AtomicLookup` |
| `RecoveryTypes` | `[]RecoveryTypeOK` | |
| `DeliveredStaysTrue` | `[]DeliveredIsHeld`: nothing says delivered that the authority has not | |
| `AttestedStays` | `ConfirmedStays`: attested stays attested until replaced | |
| `NoWorkerLoops` | `WorkEnds`: each call brings a worker nearer to its end | |
| `ServiceImplements` | `Service` implements `Verifications` | |
| `PromisesAcrossRestarts` | eight of the results above, of `Service` | |
| `ServiceTypes` | `[]ServiceTypeOK` | |
| `CleanExitIsClean` | `[]CleanExitCutsNobody` | |
| `HandlersGetOn` | `HandlersShorten`: so does each call of a handler, its store open or closed | |
| `NoServerLoops` | `ProcessEnds`: each step of the process brings it nearer to its exit | |
| `EndpointsTypes` | `[]EndpointsTypeOK` | |
| `StoredAreSound` | `[]StoredIsSound` | |
| `RefusedAreFlawed` | `[]RefusedIsFlawed` | |
| `AcceptedAreStored` | `[]AcceptedIsStored`: a 202 is for what is stored | |
| `OneDocumentServed` | `[]OneDocument` | |
| `NobodyWaitsForNobody` | `[]OnceIsHeld`: while the `Once` is taken, somebody is signing | |
| `NoHandlerLoops` | `RequestsEnd`: only its caller makes a request begin again | |
| `SignaturesTyped` | `[]TypeOK` of `Countersigning` | |
| `DeliveredOnceSigned` | `[]OneFreshSignature` | |
| `ForgeriesKeptOut` | `[]NoForgery`: no record, delivery or returned envelope carries a forgery | |
| `ActiveKeyIsPublished` | `[]ActiveKeyPublished` | |
| `IssuedIsVerifiable` | `[]IssuedStaysVerifiable` | |
| `OnlyStaleRefuses` | `RefusedOnlyIfStale` | |
| `InitFailsOnlyOnTorn` | `FailsOnlyOnTorn`: `init` fails to load only over a torn key file | |
| `OneOrder` | two listings of the same keys are equal | one key per kid |
| `NewestFirst` | of two keys the earlier listed is no older | |
| `MailTypes`, `DeliveryTypes` | `[]TypeOK` of `Mailer`, `[]DeliveryTypeOK` | |
| `NoConnectionLeft` | `[]ConnectionReleased` | |
| `OfferIsTaken` | `[]EncryptedIfOffered` | |
| `MailerImplementsExchange` | `Mailer` implements `Exchange` | |
| `WaitsAreBounded` | `[]EveryWaitEnds`: no wait for the server is without a deadline | |
| `NoCommandTwice` | `SendAdvances`: a command is issued once | |
| `ConnectionsAreVetted` | `[]DialsOnlyVetted` | |
| `SuccessOfPostIsTaken` | `ExchangeUnlessRedirected` | |
| `DeliveryImplementsExchange` | `Delivery` implements `Exchange` | `303 \notin Redirects` |
| `NoRedirectLoops` | `SendAdvances`: each step goes forward, whatever redirects and lookups say | |

The argument about `Verifications` is a revision fence, in layers, each proved
on top of the one before:

- `TypeInv`: types, and that a stored document and a copy about to be written
  are well formed.  `TypeOK` alone is not inductive, since `Put` indexes the
  store by the address of the copy's envelope.
- `TruthInv`: not only the stored record but every copy claims no more than
  what happened; needed because copies are what gets written.
- `FenceInv`: a copy whose revision is still the stored one belongs to the same
  submission and is at least as far on; a copy that is behind stays behind, as
  revisions only grow; a token not yet written is nobody else's.  The two action
  properties follow: an applied `Put` writes a copy with the stored revision.
- `AnswerInv`: what a request answered is what its copy says.
- `AttestInv`, with the atomic lookup only: whatever is past pending, stored or
  copied, carries an attested token, and a request between its checks holds an
  attested link.  `unattested_delivery` shows why the condition is needed.
- `DurableInv`, with either lookup: a request that delivers, or tells of a delivery,
  from a copy that is attested is about a stored record that is attested, or about a
  replaced submission.  `attestation_not_durable` is the request whose copy is not.

The refinement maps the live token, the mailbox and the authority's register to
the variables of `Attestation`; every action but `UpsertPut`, `MailSend`,
`Confirmation` and `DeliverSend` is a stutter.

`RefinesRecovery` rests on the fence and on `RetryInv`: a token is in at most one
document, so the record it is mapped to is well defined; `upsert` writes a
pending record, which is how a submission of `Recovery` begins; a confirmation
works on the submission of its link, and one whose write was refused is behind
the store, so it is not among the current copies.  A write that is applied then
leaves no other current copy of its submission (`CurrentWrites`), ends the one
it replaces, and stands still for all others (`OthersWrite`).

`OnlyRedeliverReopens` needs one layer more, `OpenInv`: a copy that a request of a
link is about to deliver or has delivered, and that could still be written, is of
a record that is not delivered.

`RecoveryInv`, of `Recovery` alone, is the same fence without revisions: a current copy
knows of the attestation if the record does, and a copy says delivered only of what is
held.  It is proved anew, not inherited: `Recovery` may do more than the service does.

The theorems about calls that are left (`NoRequestLoops`, `HandlersGetOn`,
`NoWorkerLoops`, `NoHandlerLoops`, `NoServerLoops`) each name a number that every
step of the actor lowers and no step of another raises; those about `Send` name an
order, as the redirects, the addresses of a lookup and the commands are counted
apart.  Together with `NobodyWaitsForNobody` and `WaitsAreBounded` they are the safety half of the
liveness properties: what remains to TLC is that the steps are taken.

`Service` refines `Verifications` with every variable mapped to itself; the one case
that is not a step as it stands is `StepWithoutStore`, each of whose calls is
one of the failures `Verifications` allows.  `CleanExitCutsNobody` rests on no handler being
able to begin once a drain has succeeded.

For `Endpoints` the invariant says how far each handler can be given the flaws of
its request: past a check, it has not the flaw the check looks for; and that at
most one reader is inside the `Once`, only while the cache says so, and that
whatever was read is the signer's document.  `OneOrder` takes the first place where
two listings part and finds each of the two keys before the other.

The argument about keys is that the directory only gains complete key files and
a process comes up only with its active key among those it read; `DirectoryInv`
adds the types and that `init` has chosen its key before it writes, and `Written`
what it has written by its next step.

The argument about signatures needs what a filter does to sequences of any length.
`SignedBy` is a recursive function over the prefixes of its argument, and its lemmas
(what it keeps of an appended signature, of a sequence filtered before, of one
that holds none of the issuers) come by induction over the length of the prefix.
As the library's induction theorems take an operator as a parameter, `NatLeast` states
induction as a fact about sets of numbers: one that is not empty has a least member.
`SignaturesInv` then says that record, envelope and delivery are sequences of signatures,
that those in our name were issued, and that what was sent is `CounterSign` of what
it was sent from.

For `Mailer` the invariant says where an offer of STARTTLS and a taken message
can be, that an offer not followed by TLS has an error pending, that `Send` passes
the terminating dot only with the server's yes, and that the `Close` is deferred
exactly from the smtp client on, while whoever returns before it has closed; for
`Delivery`, that what is left to dial was vetted, that a 202 to a POST was given for
a taken envelope, and that only a 303 makes a GET.

For the waits of `Mailer`, `ArmedInv`: the deadline is on the connection before the first
read from it, and a closed connection is one `Send` has returned from.

*Only model-checked:* the liveness properties (`ShutdownEnds`, `HandlersFinish`,
`ButtonRecovers`, `OperatorRecovers`, `SoundIsAccepted`, `SigningEnds` and both
`DeadlineBoundsSend`), which need fairness.  Every invariant and every action
property of a passing run is proved; `RefinesVerifications`, `RefinesAttestation`,
`RefinesRecovery` and both `RefinesExchange` are too.  Properties that no run lists were
checked by TLC on the instances of the runs before they were proved.

## 5. Not modelled

- gobl, gobl/net, couch and kivik are outside the repository: their checks appear
  as outcomes.  That kivik fails the calls made after `Close` is taken from how the
  handle is used.
- Pages, log lines and the text of the email are formatting; the one thing of them
  that matters, the token in the link, is in the record.
- The configuration is read once, before anything runs, and is a value nothing
  changes; what of it decides behaviour is a constant or an action of a module
  (the shutdown timeout, missing options, the mail transport and its credentials).
- The key endpoints, `jwks.json`, the health endpoint and the access log have no
  state of their own.  The order of `jwks.json` is in `PublishedKeys`, without a run:
  the theorems about it hold for every set of keys.
- The build and the packaging have no behaviour.
- What a human does with a mailed link is any choice at any time.  That callers of
  the inbox come again after a 5xx and not after a 4xx is an assumption of
  `Endpoints`.
- Two `init` commands at once, and identity files edited by hand.

## 6. Plan

Done: the service, its store and its promise; the identity directory and the
rounds of renewal; mailer and sender; the server's life; recovery after failed
deliveries; the authenticated endpoints; the order of the published keys.  Left:

1. The part of `AttestedBeforeDelivery` that survives the CouchDB lookup, as a
   property and a proof.
2. Two processes of `serve` over one database, each with a handle of its own.

--------------------------- MODULE IdentityFiles ---------------------------
(***************************************************************************)
(* The verifier's identity directory: private.jwk, keys/<kid>.json and     *)
(* party.json, as InitIdentity writes them and LoadIdentity reads them.    *)
(* serve and redeliver are processes that load the directory once when     *)
(* they start and work with what they read until they end; init may run    *)
(* meanwhile.  os.WriteFile truncates a file before it writes it, and any  *)
(* process may die between two steps, so a file can be found torn.         *)
(***************************************************************************)

CONSTANTS
  Key,      \* signing keys, named by their kid; bounds the runs of init
  NoKey,    \* private.jwk does not exist
  Torn,     \* private.jwk is truncated
  Process   \* processes that load the identity

ASSUME KeyAssumption == NoKey \notin Key /\ Torn \notin Key

VARIABLES
  made,       \* the directory exists and is not empty
  private,    \* what private.jwk holds
  keyFiles,   \* the kids with a complete file under keys/
  tornKeys,   \* the kids with a truncated file under keys/
  party,      \* party.json: absent, torn or ok
  init,       \* the init command: its next step and its new key
  initResult, \* what the last init reported
  proc        \* what each process has loaded

fileVars == <<made, private, keyFiles, tornKeys, party>>
identityVars == <<made, private, keyFiles, tornKeys, party, init, initResult,
                  proc>>

InitStep == {"idle", "private", "privateData", "key", "keyData", "party",
             "partyData", "load"}

Stage == {"down", "private", "keys", "up"}

Identity == [stage: Stage, key: Key \cup {NoKey}, keys: SUBSET Key]

Down == [stage |-> "down", key |-> NoKey, keys |-> {}]

IdentityTypeOK ==
  /\ made \in BOOLEAN
  /\ private \in Key \cup {NoKey, Torn}
  /\ keyFiles \subseteq Key
  /\ tornKeys \subseteq Key
  /\ party \in {"absent", "torn", "ok"}
  /\ init \in [step: InitStep, kid: Key \cup {NoKey}]
  /\ initResult \in {"none", "created", "error"}
  /\ proc \in [Process -> Identity]

IdentityInit ==
  /\ made = FALSE /\ private = NoKey
  /\ keyFiles = {} /\ tornKeys = {} /\ party = "absent"
  /\ init = [step |-> "idle", kid |-> NoKey]
  /\ initResult = "none"
  /\ proc = [p \in Process |-> Down]

-----------------------------------------------------------------------------
(* init: InitIdentity.                                                      *)

(* The kids in use.  A generated key has a new one.                         *)
Taken == keyFiles \cup tornKeys \cup {private} \cup {proc[p].key : p \in Process}

(* A directory that is not empty needs --force; MkdirAll makes it one.  One *)
(* init runs at a time.                                                     *)
InitBegin(force) ==
  /\ init.step = "idle"
  /\ ~made \/ force
  /\ \E k \in Key \ Taken :
       init' = [step |-> "private", kid |-> k]
  /\ made' = TRUE
  /\ UNCHANGED <<private, keyFiles, tornKeys, party, initResult, proc>>

InitNext(step) == init' = [init EXCEPT !.step = step]

WritePrivate ==
  /\ \/ init.step = "private" /\ private' = Torn /\ InitNext("privateData")
     \/ init.step = "privateData" /\ private' = init.kid /\ InitNext("key")
  /\ UNCHANGED <<made, keyFiles, tornKeys, party, initResult, proc>>

(* The new public key joins the ones that are there; none is removed.       *)
(* (WriteOnlyKey clears the directory first.)                               *)
WriteOnlyKey ==
  /\ \/ /\ init.step = "key"
        /\ tornKeys' = {init.kid} /\ keyFiles' = {}
        /\ InitNext("keyData")
     \/ /\ init.step = "keyData"
        /\ tornKeys' = {} /\ keyFiles' = {init.kid}
        /\ InitNext("party")
  /\ UNCHANGED <<made, private, party, initResult, proc>>

WriteKey ==
  /\ \/ /\ init.step = "key"
        /\ tornKeys' = tornKeys \cup {init.kid} /\ UNCHANGED keyFiles
        /\ InitNext("keyData")
     \/ /\ init.step = "keyData"
        /\ tornKeys' = tornKeys \ {init.kid}
        /\ keyFiles' = keyFiles \cup {init.kid}
        /\ InitNext("party")
  /\ UNCHANGED <<made, private, party, initResult, proc>>

WriteParty ==
  /\ \/ init.step = "party" /\ party' = "torn" /\ InitNext("partyData")
     \/ init.step = "partyData" /\ party' = "ok" /\ InitNext("load")
  /\ UNCHANGED <<made, private, keyFiles, tornKeys, initResult, proc>>

(* The tests LoadIdentity puts what it reads to.                            *)
Loadable(k, files, torn) == torn = {} /\ k \in files

(* InitIdentity ends by loading what it wrote, and reports the result.      *)
InitLoad ==
  /\ init.step = "load"
  /\ initResult' = IF party = "ok" /\ Loadable(private, keyFiles, tornKeys)
                   THEN "created" ELSE "error"
  /\ InitNext("idle")
  /\ UNCHANGED fileVars /\ UNCHANGED proc

(* init dies, or a write fails.                                             *)
InitCrash ==
  /\ init.step # "idle"
  /\ InitNext("idle")
  /\ UNCHANGED fileVars /\ UNCHANGED <<initResult, proc>>

-----------------------------------------------------------------------------
(* LoadIdentity in a starting process: party.json, private.jwk, keys/.  A   *)
(* step that fails ends the process.                                        *)
LoadParty(p) ==
  /\ proc[p].stage = "down"
  /\ party = "ok"
  /\ proc' = [proc EXCEPT ![p].stage = "private"]
  /\ UNCHANGED fileVars /\ UNCHANGED <<init, initResult>>

(* (LoadPrivateUnparsed takes private.jwk as it finds it.)                  *)
LoadPrivateUnparsed(p) ==
  /\ proc[p].stage = "private"
  /\ proc' = [proc EXCEPT ![p] = [stage |-> "keys", key |-> private, keys |-> {}]]
  /\ UNCHANGED fileVars /\ UNCHANGED <<init, initResult>>

LoadPrivate(p) ==
  /\ proc[p].stage = "private"
  /\ proc' = [proc EXCEPT ![p] =
                IF private \in Key
                THEN [stage |-> "keys", key |-> private, keys |-> {}]
                ELSE Down]
  /\ UNCHANGED fileVars /\ UNCHANGED <<init, initResult>>

(* loadKeys, in one step: complete key files only ever join the directory,  *)
(* so what a listing followed by the reads finds was there at one moment.   *)
(* (LoadKeysUnmatched does not look for the active key among the published.)*)
LoadKeysUnmatched(p) ==
  /\ proc[p].stage = "keys"
  /\ proc' = [proc EXCEPT ![p] =
                IF tornKeys = {} THEN [@ EXCEPT !.stage = "up", !.keys = keyFiles]
                                 ELSE Down]
  /\ UNCHANGED fileVars /\ UNCHANGED <<init, initResult>>

LoadKeys(p) ==
  /\ proc[p].stage = "keys"
  /\ proc' = [proc EXCEPT ![p] =
                IF Loadable(proc[p].key, keyFiles, tornKeys)
                THEN [@ EXCEPT !.stage = "up", !.keys = keyFiles]
                ELSE Down]
  /\ UNCHANGED fileVars /\ UNCHANGED <<init, initResult>>

(* The process ends: shut down, crashed, or its command is done.            *)
Stop(p) ==
  /\ proc[p].stage # "down"
  /\ proc' = [proc EXCEPT ![p] = Down]
  /\ UNCHANGED fileVars /\ UNCHANGED <<init, initResult>>

IdentityNext ==
  \/ \E force \in BOOLEAN : InitBegin(force)
  \/ WritePrivate \/ WriteKey \/ WriteParty \/ InitLoad \/ InitCrash
  \/ \E p \in Process : LoadParty(p) \/ LoadPrivate(p) \/ LoadKeys(p) \/ Stop(p)

-----------------------------------------------------------------------------
(* A process works with a key that relying parties can look up, whatever    *)
(* init wrote, tore or replaced since: "the active private key's kid MUST   *)
(* appear in the published set" (LoadIdentity).                             *)
ActiveKeyPublished ==
  \A p \in Process :
    proc[p].stage = "up" => /\ proc[p].key \in proc[p].keys
                            /\ proc[p].keys \subseteq keyFiles

(* init --force "overwrites an existing non-empty directory": an init that  *)
(* runs to its end leaves an identity that loads.                           *)
ForceRepairs == initResult # "error"
=============================================================================

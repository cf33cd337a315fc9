------------------------ MODULE CountersigningProofs ------------------------
(***************************************************************************)
(* Proofs about the identity directory, the keys behind the                *)
(* countersignatures and the signatures of an envelope over its rounds,    *)
(* for any number of keys, processes and rounds, and about the order in    *)
(* which the keys are published.                                           *)
(*                                                                         *)
(* The directory only gains complete key files, so what a process loaded   *)
(* stays published, and a process signs only with a key it found among     *)
(* those it loaded.  What an envelope carries follows from what SignedBy   *)
(* computes, which is proved by induction over the prefixes of a sequence: *)
(* Reaches below is that induction, over a set of prefix lengths.          *)
(***************************************************************************)
EXTENDS Countersigning, PublishedKeys, TLAPS, SequenceTheorems, WellFoundedInduction

(* A set of numbers has a least one; an induction looks for the least at    *)
(* which it fails.                                                          *)
LEMMA NatLeast ==
  ASSUME NEW T \in SUBSET Nat, T # {}
  PROVE  \E m \in T : \A k \in T : ~(k < m)
<1>1. PICK m \in T : \A k \in T : ~(<<k, m>> \in OpToRel(<, Nat))
  BY NatLessThanWellFounded, WFMin
<1>2. QED
  BY <1>1 DEF OpToRel

(* A key is chosen before init takes its first step.                        *)
KeyChosen == init.step # "idle" => init.kid \in Key

DirectoryInv == IdentityTypeOK /\ KeyChosen /\ ActiveKeyPublished

PublishedInv == DirectoryInv /\ IssuedStaysVerifiable

LEMMA PublishedInit == Init => PublishedInv
<1> SUFFICES ASSUME IdentityInit, issued = {} PROVE PublishedInv
  BY DEF Init
<1>1. proc \in [Process -> Identity] /\ ActiveKeyPublished
  BY DEF IdentityInit, Identity, Stage, Down, ActiveKeyPublished
<1>2. IdentityTypeOK /\ KeyChosen
  BY <1>1 DEF IdentityInit, IdentityTypeOK, KeyChosen, InitStep
<1>3. QED
  BY <1>1, <1>2 DEF PublishedInv, DirectoryInv, IssuedStaysVerifiable

(* No step of init or of a loading process removes a complete key file.     *)
LEMMA KeyFilesGrow ==
  ASSUME IdentityNext
  PROVE  keyFiles \subseteq keyFiles'
  BY DEF IdentityNext, InitBegin, WritePrivate, WriteKey, WriteParty, InitLoad,
         InitCrash, LoadParty, LoadPrivate, LoadKeys, Stop, fileVars

(* A step that leaves the processes alone cannot unpublish their keys.      *)
LEMMA PublishedKept ==
  ASSUME DirectoryInv, proc' = proc, keyFiles \subseteq keyFiles'
  PROVE  ActiveKeyPublished'
  BY DEF DirectoryInv, ActiveKeyPublished

LEMMA DirectoryStep ==
  ASSUME DirectoryInv, IdentityNext
  PROVE  DirectoryInv'
<1> USE DEF DirectoryInv, IdentityTypeOK, KeyChosen
<1>1. ASSUME NEW force \in BOOLEAN, InitBegin(force) PROVE DirectoryInv'
  <2>1. ActiveKeyPublished'  BY <1>1, PublishedKept DEF InitBegin
  <2>2. QED  BY <1>1, <2>1 DEF InitBegin, InitStep
<1>2. CASE WritePrivate
  <2>1. ActiveKeyPublished'  BY <1>2, PublishedKept DEF WritePrivate
  <2>2. QED  BY <1>2, <2>1 DEF WritePrivate, InitNext, InitStep
<1>3. CASE WriteKey
  <2>1. ActiveKeyPublished'  BY <1>3, PublishedKept DEF WriteKey
  <2>2. QED  BY <1>3, <2>1 DEF WriteKey, InitNext, InitStep
<1>4. CASE WriteParty
  <2>1. ActiveKeyPublished'  BY <1>4, PublishedKept DEF WriteParty
  <2>2. QED  BY <1>4, <2>1 DEF WriteParty, InitNext, InitStep
<1>5. CASE InitLoad
  <2>1. ActiveKeyPublished'  BY <1>5, PublishedKept DEF InitLoad, fileVars
  <2>2. QED  BY <1>5, <2>1 DEF InitLoad, InitNext, InitStep, fileVars
<1>6. CASE InitCrash
  <2>1. ActiveKeyPublished'  BY <1>6, PublishedKept DEF InitCrash, fileVars
  <2>2. QED  BY <1>6, <2>1 DEF InitCrash, InitNext, InitStep, fileVars
<1>7. ASSUME NEW p \in Process, LoadParty(p) PROVE DirectoryInv'
  BY <1>7 DEF LoadParty, fileVars, Identity, Stage, ActiveKeyPublished
<1>8. ASSUME NEW p \in Process, LoadPrivate(p) PROVE DirectoryInv'
  BY <1>8 DEF LoadPrivate, fileVars, Identity, Stage, Down, ActiveKeyPublished
<1>9. ASSUME NEW p \in Process, LoadKeys(p) PROVE DirectoryInv'
  BY <1>9 DEF LoadKeys, Loadable, fileVars, Identity, Stage, Down,
              ActiveKeyPublished
<1>10. ASSUME NEW p \in Process, Stop(p) PROVE DirectoryInv'
  BY <1>10 DEF Stop, fileVars, Identity, Stage, Down, ActiveKeyPublished
<1>11. QED
  BY <1>1, <1>2, <1>3, <1>4, <1>5, <1>6, <1>7, <1>8, <1>9, <1>10 DEF IdentityNext

(* Steps of the rounds leave the directory and the processes alone.         *)
LEMMA RoundStep ==
  ASSUME DirectoryInv, UNCHANGED identityVars
  PROVE  DirectoryInv'
  BY DEF DirectoryInv, IdentityTypeOK, KeyChosen, ActiveKeyPublished, identityVars

LEMMA PublishedStep == PublishedInv /\ [Next]_vars => PublishedInv'
<1> SUFFICES ASSUME PublishedInv, [Next]_vars PROVE PublishedInv'
  OBVIOUS
<1> USE DEF PublishedInv, IssuedStaysVerifiable
<1>1. CASE IdentityNext /\ UNCHANGED roundVars
  BY <1>1, DirectoryStep, KeyFilesGrow DEF roundVars
<1>2. ASSUME NEW p \in Process, NEW reached \in BOOLEAN, Deliver(p, reached)
      PROVE  PublishedInv'
  <2>1. proc[p].key \in keyFiles
    BY <1>2 DEF Deliver, DirectoryInv, ActiveKeyPublished
  <2>2. QED  BY <1>2, <2>1, RoundStep DEF Deliver, identityVars
<1>3. ASSUME NEW sigs \in Submission, Receive(sigs) PROVE PublishedInv'
  BY <1>3, RoundStep DEF Receive, identityVars
<1>4. CASE Confirm \/ Return \/ Register
  BY <1>4, RoundStep DEF Confirm, Return, Register, identityVars
<1>5. CASE UNCHANGED vars
  BY <1>5, RoundStep DEF vars, identityVars
<1>6. QED
  BY <1>1, <1>2, <1>3, <1>4, <1>5 DEF Next

LEMMA PublishedAlways == Spec => []PublishedInv
  BY PublishedInit, PublishedStep, PTL DEF Spec

(* A process that has loaded the identity signs with a key relying parties  *)
(* can look up, whatever init wrote or tore, and wherever it stopped.       *)
THEOREM ActiveKeyIsPublished == Spec => []ActiveKeyPublished
<1>1. PublishedInv => ActiveKeyPublished
  BY DEF PublishedInv, DirectoryInv
<1>2. QED  BY <1>1, PublishedAlways, PTL

(* Every countersignature ever issued verifies against a published key.     *)
THEOREM IssuedIsVerifiable == Spec => []IssuedStaysVerifiable
<1>1. PublishedInv => IssuedStaysVerifiable
  BY DEF PublishedInv
<1>2. QED  BY <1>1, PublishedAlways, PTL

(* A server that knows every published key refuses no countersignature of   *)
(* ours: what was ever issued is among them (verifyOwnSignatures).          *)
THEOREM OnlyStaleRefuses == Spec => RefusedOnlyIfStale
<1> DEFINE Refusal == refusal # "genuine" /\ refusal' = "genuine"
                        => proc[Server].keys # keyFiles
<1>1. PublishedInv /\ [Next]_vars => [Refusal]_vars
  <2> SUFFICES ASSUME PublishedInv, Next,
                      refusal # "genuine", refusal' = "genuine",
                      proc[Server].keys = keyFiles
               PROVE  FALSE
    BY DEF vars
  <2>1. PICK sigs \in Submission : Receive(sigs)
    BY DEF Next, roundVars, Confirm, Deliver, Return, Register
  <2>2. /\ ~VerifyOwnSignatures(sigs, keyFiles)
        /\ VerifyOwnSignatures(sigs, issued)
    BY <2>1 DEF Receive, Genuine
  <2>3. issued \subseteq keyFiles
    BY DEF PublishedInv, IssuedStaysVerifiable
  <2>4. QED
    BY <2>2, <2>3 DEF VerifyOwnSignatures
<1>2. QED
  BY <1>1, PublishedAlways, PTL DEF Spec, RefusedOnlyIfStale

(* What init has written when it takes its next step.                       *)
Written ==
  /\ init.step \in {"key", "keyData", "party", "partyData", "load"}
       => private = init.kid
  /\ init.step \in {"party", "partyData", "load"} => init.kid \in keyFiles
  /\ init.step = "load" => party = "ok"

LEMMA WrittenStep ==
  ASSUME DirectoryInv, Written, [Next]_vars
  PROVE  Written'
<1> USE DEF Written
<1>1. CASE UNCHANGED identityVars
  BY <1>1 DEF identityVars
<1>2. CASE IdentityNext
  <2> USE DEF DirectoryInv, IdentityTypeOK
  <2>1. ASSUME NEW force \in BOOLEAN, InitBegin(force) PROVE Written'
    BY <2>1 DEF InitBegin
  <2>2. CASE WritePrivate
    BY <2>2 DEF WritePrivate, InitNext
  <2>3. CASE WriteKey
    BY <2>3 DEF WriteKey, InitNext
  <2>4. CASE WriteParty
    BY <2>4 DEF WriteParty, InitNext
  <2>5. CASE InitLoad \/ InitCrash
    BY <2>5 DEF InitLoad, InitCrash, InitNext
  <2>6. ASSUME NEW p \in Process,
               LoadParty(p) \/ LoadPrivate(p) \/ LoadKeys(p) \/ Stop(p)
        PROVE  Written'
    BY <2>6 DEF LoadParty, LoadPrivate, LoadKeys, Stop, fileVars
  <2>7. QED
    BY <1>2, <2>1, <2>2, <2>3, <2>4, <2>5, <2>6 DEF IdentityNext
<1>3. QED
  BY <1>1, <1>2 DEF Next, vars, Receive, Confirm, Deliver, Return, Register,
                    identityVars

(* init reports an error only for a key file that an earlier run left torn: *)
(* what it wrote itself loads, over whatever was there (ForceRepairs does   *)
(* not hold: init --force leaves the torn file where it is).                *)
FailsOnlyOnTorn ==
  [][initResult # "error" /\ initResult' = "error" => tornKeys # {}]_vars

(* FailsOnlyOnTorn, for any keys, processes and crashes of init.            *)
THEOREM InitFailsOnlyOnTorn == Spec => FailsOnlyOnTorn
<1> DEFINE Failure == initResult # "error" /\ initResult' = "error" => tornKeys # {}
<1>1. Init => Written
  BY DEF Init, IdentityInit, Written
<1>2. PublishedInv /\ Written /\ [Next]_vars => Written'
  BY WrittenStep DEF PublishedInv
<1>3. Written /\ [Next]_vars => [Failure]_vars
  <2> SUFFICES ASSUME Written, Next, initResult # "error", initResult' = "error"
               PROVE  tornKeys # {}
    BY DEF vars
  <2>1. InitLoad
    BY DEF Next, roundVars, IdentityNext, InitBegin, WritePrivate, WriteKey,
           WriteParty, InitCrash, LoadParty, LoadPrivate, LoadKeys, Stop,
           Receive, Confirm, Deliver, Return, Register, identityVars
  <2>2. QED
    BY <2>1 DEF InitLoad, Written, Loadable
<1>4. QED
  BY <1>1, <1>2, <1>3, PublishedAlways, PTL DEF Spec, FailsOnlyOnTorn

-----------------------------------------------------------------------------
(* What selecting the signatures of some issuers returns.                   *)

(* f[i] holds the signatures of issuers among the first i of s.             *)
Keeps(f, n, s, I) ==
  f = [i \in 0..n |-> IF i = 0 THEN <<>>
                      ELSE IF s[i].iss \in I THEN Append(f[i - 1], s[i])
                      ELSE f[i - 1]]

LEMMA Reaches ==
  ASSUME NEW n \in Nat, NEW T \in SUBSET (0..n), 0 \in T,
         \A i \in 1..n : i - 1 \in T => i \in T
  PROVE  T = 0..n
<1>1. SUFFICES ASSUME (0..n) \ T # {} PROVE FALSE
  OBVIOUS
<1>2. PICK m \in (0..n) \ T : \A k \in (0..n) \ T : ~(k < m)
  BY <1>1, NatLeast, (0..n) \ T \in SUBSET Nat
<1>3. m \in 1..n /\ m - 1 \in 0..n /\ m - 1 < m
  BY <1>2
<1>4. QED
  BY <1>2, <1>3

LEMMA KeepsExists ==
  ASSUME NEW S, NEW s \in Seq(S), NEW I
  PROVE  \E f : Keeps(f, Len(s), s, I)
<1> DEFINE T == {n \in 0..Len(s) : \E f : Keeps(f, n, s, I)}
<1>1. 0 \in T
  <2>1. Keeps([i \in 0..0 |-> <<>>], 0, s, I)
    BY DEF Keeps
  <2>2. QED
    BY <2>1, LenProperties
<1>2. ASSUME NEW m \in 1..Len(s), m - 1 \in T PROVE m \in T
  <2>0. m \in Nat /\ m # 0 /\ m \in 0..Len(s)
    BY LenProperties
  <2>1. PICK f : Keeps(f, m - 1, s, I)
    BY <1>2
  <2> DEFINE Last == IF s[m].iss \in I THEN Append(f[m - 1], s[m]) ELSE f[m - 1]
             g == [i \in 0..m |-> IF i = m THEN Last ELSE f[i]]
  <2>2. ASSUME NEW i \in 1..m
        PROVE  g[i] = IF s[i].iss \in I THEN Append(g[i - 1], s[i]) ELSE g[i - 1]
    <3>1. g[i - 1] = f[i - 1]
      BY <2>0
    <3>2. CASE i = m
      BY <3>1, <3>2, <2>0
    <3>3. CASE i # m
      <4>1. i \in 0..(m - 1) /\ i # 0 /\ g[i] = f[i]
        BY <3>3, <2>0
      <4>2. f[i] = IF s[i].iss \in I THEN Append(f[i - 1], s[i]) ELSE f[i - 1]
        BY <2>1, <4>1 DEF Keeps
      <4>3. QED
        BY <3>1, <4>1, <4>2
    <3>4. QED
      BY <3>2, <3>3
  <2>3. g[0] = <<>>
    <3>1. f[0] = <<>> /\ 0 \in 0..m /\ 0 # m
      BY <2>0, <2>1 DEF Keeps
    <3>2. QED
      BY <3>1
  <2>4. g = [i \in 0..m |-> g[i]]
    OBVIOUS
  <2> HIDE DEF g
  <2>5. Keeps(g, m, s, I)
    BY <2>0, <2>2, <2>3, <2>4 DEF Keeps
  <2>6. QED
    BY <2>0, <2>5
<1> HIDE DEF T
<1>3. T = 0..Len(s)
  <2>1. T \in SUBSET (0..Len(s))
    BY DEF T
  <2>2. QED
    BY <1>1, <1>2, <2>1, Reaches, LenProperties
<1>4. QED
  BY <1>3, LenProperties DEF T

(* What the definition computes, prefix by prefix.                          *)
LEMMA SignedByPrefixes ==
  ASSUME NEW S, NEW s \in Seq(S), NEW I
  PROVE  \E f : /\ f[0] = <<>>
                /\ \A n \in 1..Len(s) :
                     f[n] = IF s[n].iss \in I THEN Append(f[n - 1], s[n])
                                              ELSE f[n - 1]
                /\ SignedBy(s, I) = f[Len(s)]
<1>1. PICK g : Keeps(g, Len(s), s, I)
  BY KeepsExists
<1>2. \E f : Keeps(f, Len(s), s, I) /\ SignedBy(s, I) = f[Len(s)]
  BY <1>1 DEF SignedBy, Keeps
<1>3. PICK f : Keeps(f, Len(s), s, I) /\ SignedBy(s, I) = f[Len(s)]
  BY <1>2
<1>4. f[0] = <<>>
  BY <1>3, LenProperties DEF Keeps
<1>5. ASSUME NEW n \in 1..Len(s)
      PROVE  f[n] = IF s[n].iss \in I THEN Append(f[n - 1], s[n]) ELSE f[n - 1]
  <2>1. n \in 0..Len(s) /\ n # 0
    BY LenProperties
  <2>2. QED
    BY <1>3, <2>1 DEF Keeps
<1>6. QED
  BY <1>3, <1>4, <1>5

LEMMA SignedByType ==
  ASSUME NEW S, NEW s \in Seq(S), NEW I
  PROVE  SignedBy(s, I) \in Seq(S)
<1>1. PICK f : /\ f[0] = <<>>
               /\ \A n \in 1..Len(s) :
                    f[n] = IF s[n].iss \in I THEN Append(f[n - 1], s[n])
                                             ELSE f[n - 1]
               /\ SignedBy(s, I) = f[Len(s)]
  BY SignedByPrefixes
<1> DEFINE T == {n \in 0..Len(s) : f[n] \in Seq(S)}
<1>2. 0 \in T
  <2>1. <<>> \in Seq(S)
    OBVIOUS
  <2>2. f[0] \in Seq(S) /\ 0 \in 0..Len(s)
    BY <1>1, <2>1, LenProperties
  <2>3. QED
    BY <2>2
<1>3. ASSUME NEW n \in 1..Len(s), n - 1 \in T PROVE n \in T
  <2>1. n \in 0..Len(s) /\ s[n] \in S /\ f[n - 1] \in Seq(S)
    BY <1>3, LenProperties, ElementOfSeq
  <2>2. Append(f[n - 1], s[n]) \in Seq(S)
    BY <2>1, AppendProperties
  <2>3. QED
    BY <1>1, <2>1, <2>2
<1>4. T = 0..Len(s)
  <2>1. T \in SUBSET (0..Len(s))
    OBVIOUS
  <2> HIDE DEF T
  <2>2. QED
    BY <1>2, <1>3, <2>1, Reaches, LenProperties
<1>5. QED
  BY <1>1, <1>4, LenProperties

LEMMA SignedByAppend ==
  ASSUME NEW S, NEW s \in Seq(S), NEW x \in S, NEW I
  PROVE  SignedBy(Append(s, x), I) = IF x.iss \in I THEN Append(SignedBy(s, I), x)
                                                    ELSE SignedBy(s, I)
<1> DEFINE a == Append(s, x)
<1>1. PICK f : /\ f[0] = <<>>
               /\ \A n \in 1..Len(s) :
                    f[n] = IF s[n].iss \in I THEN Append(f[n - 1], s[n])
                                             ELSE f[n - 1]
               /\ SignedBy(s, I) = f[Len(s)]
  BY SignedByPrefixes
<1>2. a \in Seq(S) /\ Len(a) = Len(s) + 1 /\ a[Len(s) + 1] = x
      /\ \A n \in 1..Len(s) : a[n] = s[n]
  BY AppendProperties
<1>3. PICK g : /\ g[0] = <<>>
               /\ \A n \in 1..Len(a) :
                    g[n] = IF a[n].iss \in I THEN Append(g[n - 1], a[n])
                                             ELSE g[n - 1]
               /\ SignedBy(a, I) = g[Len(a)]
  <2> HIDE DEF a
  <2>1. QED
    BY <1>2, SignedByPrefixes
<1> HIDE DEF a
<1> DEFINE T == {n \in 0..Len(s) : f[n] = g[n]}
<1>4. 0 \in T
  BY <1>1, <1>3, LenProperties
<1>5. ASSUME NEW n \in 1..Len(s), n - 1 \in T PROVE n \in T
  <2>1. n \in 0..Len(s) /\ n \in 1..Len(a) /\ a[n] = s[n] /\ f[n - 1] = g[n - 1]
    BY <1>2, <1>5, LenProperties
  <2>2. QED
    BY <1>1, <1>3, <2>1
<1>6. T = 0..Len(s)
  <2>1. T \in SUBSET (0..Len(s))
    OBVIOUS
  <2> HIDE DEF T
  <2>2. QED
    BY <1>4, <1>5, <2>1, Reaches, LenProperties
<1>7. f[Len(s)] = g[Len(s)]
  BY <1>6, LenProperties
<1>8. Len(a) \in 1..Len(a) /\ Len(a) - 1 = Len(s) /\ a[Len(a)] = x
  BY <1>2, LenProperties
<1>9. SignedBy(a, I) = IF x.iss \in I THEN Append(SignedBy(s, I), x)
                                      ELSE SignedBy(s, I)
  BY <1>1, <1>3, <1>7, <1>8
<1>10. QED
  BY <1>9 DEF a

LEMMA SignedByEmpty ==
  ASSUME NEW I
  PROVE  SignedBy(<<>>, I) = <<>>
<1>1. <<>> \in Seq({}) /\ Len(<<>>) = 0
  OBVIOUS
<1> DEFINE s == <<>>
<1>2. s \in Seq({}) /\ Len(s) = 0
  BY <1>1
<1> HIDE DEF s
<1>3. PICK f : /\ f[0] = <<>>
               /\ \A n \in 1..Len(s) :
                    f[n] = IF s[n].iss \in I THEN Append(f[n - 1], s[n])
                                             ELSE f[n - 1]
               /\ SignedBy(s, I) = f[Len(s)]
  BY <1>2, SignedByPrefixes
<1>4. SignedBy(s, I) = <<>>
  BY <1>2, <1>3
<1>5. QED
  BY <1>4 DEF s

(* Selecting twice is selecting what both take.                             *)
LEMMA SignedByTwice ==
  ASSUME NEW S, NEW s \in Seq(S), NEW I, NEW J
  PROVE  SignedBy(SignedBy(s, J), I) = SignedBy(s, I \cap J)
<1>1. PICK f : /\ f[0] = <<>>
               /\ \A n \in 1..Len(s) :
                    f[n] = IF s[n].iss \in J THEN Append(f[n - 1], s[n])
                                             ELSE f[n - 1]
               /\ SignedBy(s, J) = f[Len(s)]
  BY SignedByPrefixes
<1>2. PICK g : /\ g[0] = <<>>
               /\ \A n \in 1..Len(s) :
                    g[n] = IF s[n].iss \in I \cap J THEN Append(g[n - 1], s[n])
                                                    ELSE g[n - 1]
               /\ SignedBy(s, I \cap J) = g[Len(s)]
  BY SignedByPrefixes
<1> DEFINE T == {n \in 0..Len(s) : f[n] \in Seq(S) /\ SignedBy(f[n], I) = g[n]}
<1>3. 0 \in T
  <2>1. <<>> \in Seq(S)
    OBVIOUS
  <2>2. f[0] \in Seq(S) /\ SignedBy(f[0], I) = g[0] /\ 0 \in 0..Len(s)
    BY <1>1, <1>2, <2>1, SignedByEmpty, LenProperties
  <2>3. QED
    BY <2>2
<1>4. ASSUME NEW n \in 1..Len(s), n - 1 \in T PROVE n \in T
  <2>1. n \in 0..Len(s) /\ s[n] \in S /\ f[n - 1] \in Seq(S)
        /\ SignedBy(f[n - 1], I) = g[n - 1]
    BY <1>4, LenProperties, ElementOfSeq
  <2>2. CASE s[n].iss \in J
    <3>1. f[n] = Append(f[n - 1], s[n])
      BY <1>1, <2>2
    <3>2. f[n] \in Seq(S)
      BY <2>1, <3>1, AppendProperties
    <3>3. SignedBy(Append(f[n - 1], s[n]), I) =
            IF s[n].iss \in I THEN Append(SignedBy(f[n - 1], I), s[n])
                              ELSE SignedBy(f[n - 1], I)
      <4> DEFINE h == f[n - 1]
                 x == s[n]
      <4>1. h \in Seq(S) /\ x \in S
        BY <2>1
      <4> HIDE DEF h, x
      <4>2. SignedBy(Append(h, x), I) = IF x.iss \in I THEN Append(SignedBy(h, I), x)
                                                       ELSE SignedBy(h, I)
        BY <4>1, SignedByAppend
      <4>3. QED
        BY <4>2 DEF h, x
    <3>4. g[n] = IF s[n].iss \in I THEN Append(g[n - 1], s[n]) ELSE g[n - 1]
      BY <1>2, <2>2
    <3>5. SignedBy(f[n], I) = g[n]
      BY <2>1, <3>1, <3>3, <3>4
    <3>6. QED
      BY <2>1, <3>2, <3>5
  <2>3. CASE s[n].iss \notin J
    BY <1>1, <1>2, <2>1, <2>3
  <2>4. QED
    BY <2>2, <2>3
<1>5. T = 0..Len(s)
  <2>1. T \in SUBSET (0..Len(s))
    OBVIOUS
  <2> HIDE DEF T
  <2>2. QED
    BY <1>3, <1>4, <2>1, Reaches, LenProperties
<1>6. QED
  BY <1>1, <1>2, <1>5, LenProperties

(* Selecting for nobody leaves nothing.                                     *)
LEMMA SignedByNobody ==
  ASSUME NEW S, NEW s \in Seq(S)
  PROVE  SignedBy(s, {}) = <<>>
<1>1. PICK f : /\ f[0] = <<>>
               /\ \A n \in 1..Len(s) :
                    f[n] = IF s[n].iss \in {} THEN Append(f[n - 1], s[n])
                                              ELSE f[n - 1]
               /\ SignedBy(s, {}) = f[Len(s)]
  BY SignedByPrefixes
<1> DEFINE T == {n \in 0..Len(s) : f[n] = <<>>}
<1>2. 0 \in T
  BY <1>1, LenProperties
<1>3. ASSUME NEW n \in 1..Len(s), n - 1 \in T PROVE n \in T
  BY <1>1, <1>3, LenProperties
<1>4. T = 0..Len(s)
  <2>1. T \in SUBSET (0..Len(s))
    OBVIOUS
  <2> HIDE DEF T
  <2>2. QED
    BY <1>2, <1>3, <2>1, Reaches, LenProperties
<1>5. QED
  BY <1>1, <1>4, LenProperties

(* What a countersigned envelope carries, whatever the record held.         *)
LEMMA CounterSigned ==
  ASSUME NEW s \in Seq(Signature), NEW k \in Key
  PROVE  /\ CounterSign(s, k) \in Seq(Signature)
         /\ SignedBy(CounterSign(s, k), Verifier) = <<Ours(k)>>
         /\ SignedBy(CounterSign(s, k), Others) = SignedBy(s, Others)
<1> DEFINE kept == SignedBy(s, Others)
<1>1. kept \in Seq(Signature)
  BY SignedByType
<1>2. Ours(k) \in Signature /\ Ours(k).iss \in Verifier /\ Ours(k).iss \notin Others
  BY DEF Ours, Signature, Verifier, Others
<1>3. SignedBy(kept, Verifier) = <<>>
  <2>1. SignedBy(kept, Verifier) = SignedBy(s, Verifier \cap Others)
    BY SignedByTwice
  <2>2. Verifier \cap Others = {}
    BY DEF Verifier, Others
  <2>3. QED
    BY <2>1, <2>2, SignedByNobody
<1>4. SignedBy(kept, Others) = kept
  <2>1. SignedBy(kept, Others) = SignedBy(s, Others \cap Others)
    BY SignedByTwice
  <2>2. QED
    BY <2>1
<1> HIDE DEF kept
<1>5. Append(kept, Ours(k)) \in Seq(Signature)
  BY <1>1, <1>2, AppendProperties
<1>6. SignedBy(Append(kept, Ours(k)), Verifier) = Append(<<>>, Ours(k))
  BY <1>1, <1>2, <1>3, SignedByAppend
<1>7. SignedBy(Append(kept, Ours(k)), Others) = kept
  BY <1>1, <1>2, <1>4, SignedByAppend
<1>8. Append(<<>>, Ours(k)) = <<Ours(k)>>
  OBVIOUS
<1>9. QED
  BY <1>5, <1>6, <1>7, <1>8 DEF CounterSign, kept

(* The signatures that verifyOwnSignatures accepts with these keys.         *)
Accepted(keys) == {sig \in Signature : Own(sig) => sig.key \in keys}

LEMMA AcceptedSeq ==
  ASSUME NEW s \in Seq(Signature), NEW keys
  PROVE  VerifyOwnSignatures(s, keys) <=> s \in Seq(Accepted(keys))
<1>1. ASSUME VerifyOwnSignatures(s, keys) PROVE s \in Seq(Accepted(keys))
  <2>1. \A i \in 1..Len(s) : s[i] \in Accepted(keys)
    BY <1>1, ElementOfSeq DEF VerifyOwnSignatures, Accepted
  <2>2. QED
    BY <2>1, SeqDef, LenProperties
<1>2. ASSUME s \in Seq(Accepted(keys)) PROVE VerifyOwnSignatures(s, keys)
  <2>1. \A i \in DOMAIN s : s[i] \in Accepted(keys)
    BY <1>2, ElementOfSeq, LenProperties
  <2>2. QED
    BY <2>1 DEF VerifyOwnSignatures, Accepted
<1>3. QED
  BY <1>1, <1>2

(* Signatures that were accepted stay so when keys are added or signatures  *)
(* dropped, and so does a signature made with one of the keys.              *)
LEMMA AcceptedKept ==
  ASSUME NEW s \in Seq(Signature), NEW keys, NEW more, NEW I,
         VerifyOwnSignatures(s, keys), keys \subseteq more
  PROVE  /\ VerifyOwnSignatures(s, more)
         /\ VerifyOwnSignatures(SignedBy(s, I), more)
<1>1. VerifyOwnSignatures(s, more)
  BY DEF VerifyOwnSignatures
<1>2. s \in Seq(Accepted(more))
  BY <1>1, AcceptedSeq
<1>3. SignedBy(s, I) \in Seq(Accepted(more)) /\ SignedBy(s, I) \in Seq(Signature)
  BY <1>2, SignedByType
<1>4. QED
  BY <1>1, <1>3, AcceptedSeq

LEMMA AcceptedAppend ==
  ASSUME NEW s \in Seq(Signature), NEW keys, NEW x \in Accepted(keys),
         VerifyOwnSignatures(s, keys)
  PROVE  VerifyOwnSignatures(Append(s, x), keys)
<1>1. s \in Seq(Accepted(keys)) /\ x \in Signature
  BY AcceptedSeq DEF Accepted
<1>2. Append(s, x) \in Seq(Accepted(keys)) /\ Append(s, x) \in Seq(Signature)
  BY <1>1, AppendProperties
<1>3. QED
  BY <1>2, AcceptedSeq

-----------------------------------------------------------------------------
(* The rounds of an envelope.                                               *)
StoredWhenConfirmed == confirmed => stored # NoEnvelope

SentCountersigned ==
  sent # NoDelivery => /\ sent.sigs = CounterSign(sent.from, sent.key)
                       /\ sent.key \in Key

(* No signature that only claims to be ours is in the party's envelope, in  *)
(* a record or in a delivery.                                               *)
NoForgery ==
  /\ Genuine(envelope)
  /\ stored # NoEnvelope => Genuine(stored)
  /\ Genuine(sent.sigs)

SignaturesInv ==
  PublishedInv /\ TypeOK /\ StoredWhenConfirmed /\ SentCountersigned /\ NoForgery

LEMMA SignaturesInit == Init => SignaturesInv
<1> SUFFICES ASSUME Init PROVE SignaturesInv
  OBVIOUS
<1>1. PublishedInv /\ IdentityTypeOK
  BY PublishedInit DEF PublishedInv, DirectoryInv
<1>2. By("party") \in Signature /\ By("authority") \in Signature
  BY DEF By, Signature, Others
<1>3. envelope \in Seq(Signature)
  BY <1>2 DEF Init
<1>4. TypeOK
  BY <1>1, <1>3, EmptySeq DEF Init, TypeOK, NoDelivery
<1>5. NoForgery
  <2>1. Genuine(envelope)
    BY DEF Init, Genuine, VerifyOwnSignatures, Own, Verifier, By
  <2>2. Genuine(sent.sigs)
    BY DEF Init, Genuine, VerifyOwnSignatures, NoDelivery
  <2>3. QED
    BY <2>1, <2>2 DEF Init, NoForgery
<1>6. QED
  BY <1>1, <1>4, <1>5 DEF Init, SignaturesInv, StoredWhenConfirmed, SentCountersigned

LEMMA ReceiveStep ==
  ASSUME SignaturesInv, PublishedInv', NEW sigs \in Submission, Receive(sigs)
  PROVE  SignaturesInv'
<1>1. /\ envelope \in Seq(Signature) /\ Genuine(envelope)
      /\ proc[Server].keys \subseteq Key /\ IdentityTypeOK'
  BY ServerAssumption DEF SignaturesInv, TypeOK, NoForgery, IdentityTypeOK, Identity,
                          PublishedInv, DirectoryInv
<1>2. Ours(Forger) \in Signature
  BY DEF Ours, Signature, Verifier
<1>3. sigs \in Seq(Signature)
  BY <1>1, <1>2, AppendProperties DEF Submission
<1>4. ASSUME VerifyOwnSignatures(sigs, proc[Server].keys)
      PROVE  Genuine(sigs)
  <2>1. CASE sigs = envelope
    BY <1>1, <2>1
  <2>2. CASE sigs = Append(envelope, Ours(Forger))
    <3>1. Len(sigs) \in DOMAIN sigs /\ sigs[Len(sigs)] = Ours(Forger)
      BY <1>1, <1>2, <2>2, AppendProperties, LenProperties
    <3>2. Forger \in proc[Server].keys
      BY <1>4, <3>1 DEF VerifyOwnSignatures, Own, Ours, Verifier
    <3>3. QED
      BY <1>1, <3>2, ForgerAssumption
  <2>3. QED
    BY <2>1, <2>2 DEF Submission
<1>5. TypeOK'
  BY <1>1, <1>3 DEF Receive, SignaturesInv, TypeOK
<1>6. StoredWhenConfirmed'
  BY DEF Receive, SignaturesInv, StoredWhenConfirmed
<1>7. SentCountersigned'
  BY DEF Receive, SignaturesInv, SentCountersigned
<1>8. NoForgery'
  BY <1>4 DEF Receive, SignaturesInv, NoForgery, Genuine
<1>9. QED
  BY <1>5, <1>6, <1>7, <1>8 DEF SignaturesInv

LEMMA DeliverStep ==
  ASSUME SignaturesInv, PublishedInv', NEW p \in Process,
         NEW reached \in BOOLEAN, Deliver(p, reached)
  PROVE  SignaturesInv'
<1> DEFINE k == proc[p].key
<1>1. k \in Key /\ IdentityTypeOK'
  BY DEF Deliver, SignaturesInv, PublishedInv, DirectoryInv, ActiveKeyPublished,
         IdentityTypeOK
<1>2. stored # NoEnvelope /\ stored \in Seq(Signature) /\ Genuine(stored)
  BY DEF Deliver, SignaturesInv, StoredWhenConfirmed, TypeOK, NoForgery
<1>3. issued' = issued \cup {k} /\ issued \subseteq Key
  BY DEF Deliver, SignaturesInv, TypeOK
<1>4. CounterSign(stored, k) \in Seq(Signature)
  BY <1>1, <1>2, CounterSigned
<1>5. VerifyOwnSignatures(CounterSign(stored, k), issued')
  <2>1. VerifyOwnSignatures(SignedBy(stored, Others), issued')
    BY <1>2, <1>3, AcceptedKept DEF Genuine
  <2>2. SignedBy(stored, Others) \in Seq(Signature)
    BY <1>2, SignedByType
  <2>3. Ours(k) \in Accepted(issued')
    BY <1>1, <1>3 DEF Accepted, Ours, Signature, Verifier
  <2>4. QED
    BY <2>1, <2>2, <2>3, AcceptedAppend DEF CounterSign
<1>6. \/ sent' = [from |-> stored, sigs |-> CounterSign(stored, k), key |-> k]
      \/ sent' = sent
  BY DEF Deliver
<1>7. TypeOK'
  BY <1>1, <1>2, <1>3, <1>4, <1>6 DEF Deliver, SignaturesInv, TypeOK
<1>8. StoredWhenConfirmed'
  BY DEF Deliver, SignaturesInv, StoredWhenConfirmed
<1>9. SentCountersigned'
  BY <1>1, <1>6 DEF SignaturesInv, SentCountersigned
<1>10. NoForgery'
  <2>1. Genuine(envelope)' /\ Genuine(stored)'
    BY <1>2, <1>3, AcceptedKept DEF Deliver, SignaturesInv, NoForgery, Genuine, TypeOK
  <2>2. VerifyOwnSignatures(sent.sigs, issued')
    <3>1. sent.sigs \in Seq(Signature) /\ VerifyOwnSignatures(sent.sigs, issued)
      BY DEF SignaturesInv, NoForgery, Genuine, TypeOK
    <3>2. QED
      BY <1>3, <3>1 DEF VerifyOwnSignatures
  <2>3. VerifyOwnSignatures(sent'.sigs, issued')
    BY <1>5, <1>6, <2>2
  <2>4. QED
    BY <2>1, <2>3 DEF NoForgery, Genuine
<1>11. QED
  BY <1>7, <1>8, <1>9, <1>10 DEF SignaturesInv

LEMMA ShortSeq ==
  ASSUME NEW S, NEW a \in S, NEW b \in S, NEW c \in S
  PROVE  <<a, c>> \in Seq(S) /\ <<a, b, c>> \in Seq(S)
  OBVIOUS

(* The environment gives the party an envelope; nothing else changes.       *)
LEMMA EnvelopeStep ==
  ASSUME SignaturesInv, PublishedInv', envelope' \in Seq(Signature),
         Genuine(envelope'),
         UNCHANGED <<stored, confirmed, sent, issued, refusal>>
  PROVE  SignaturesInv'
<1>1. TypeOK'
  BY DEF SignaturesInv, TypeOK, PublishedInv, DirectoryInv
<1>2. NoForgery'
  BY DEF SignaturesInv, NoForgery, Genuine
<1>3. QED
  BY <1>1, <1>2 DEF SignaturesInv, StoredWhenConfirmed, SentCountersigned

LEMMA SignaturesStep == SignaturesInv /\ [Next]_vars => SignaturesInv'
<1> SUFFICES ASSUME SignaturesInv, [Next]_vars PROVE SignaturesInv'
  OBVIOUS
<1>0. PublishedInv' /\ IdentityTypeOK'
  BY PublishedStep DEF SignaturesInv, PublishedInv, DirectoryInv
<1>a. By("party") \in Accepted(issued) /\ By("other") \in Accepted(issued)
      /\ By("authority") \in Accepted(issued) /\ Accepted(issued) \subseteq Signature
  BY DEF By, Accepted, Signature, Others, Own, Verifier
<1>1. CASE UNCHANGED roundVars
  BY <1>0, <1>1 DEF roundVars, SignaturesInv, TypeOK, StoredWhenConfirmed,
                    SentCountersigned, NoForgery, Genuine
<1>2. ASSUME NEW sigs \in Submission, Receive(sigs) PROVE SignaturesInv'
  BY <1>0, <1>2, ReceiveStep
<1>3. CASE Confirm
  BY <1>0, <1>3 DEF Confirm, SignaturesInv, TypeOK, StoredWhenConfirmed,
                    SentCountersigned, NoForgery, Genuine
<1>4. ASSUME NEW p \in Process, NEW reached \in BOOLEAN, Deliver(p, reached)
      PROVE  SignaturesInv'
  BY <1>0, <1>4, DeliverStep
<1>5. CASE Return
  <2> DEFINE left == SignedBy(sent.sigs, Issuer \ {"authority"})
  <2>1. sent.sigs \in Seq(Signature) /\ Genuine(sent.sigs)
    BY DEF SignaturesInv, TypeOK, NoForgery
  <2>2. left \in Seq(Signature) /\ VerifyOwnSignatures(left, issued)
    BY <2>1, SignedByType, AcceptedKept DEF Genuine
  <2>3. envelope' = Append(left, By("authority"))
    BY <1>5 DEF Return
  <2> HIDE DEF left
  <2>4. envelope' \in Seq(Signature) /\ VerifyOwnSignatures(envelope', issued)
    BY <1>a, <2>2, <2>3, AppendProperties, AcceptedAppend
  <2>5. QED
    BY <1>0, <1>5, <2>4, EnvelopeStep DEF Return, Genuine
<1>6. CASE Register
  <2>0. \/ envelope' = <<By("party"), By("authority")>>
        \/ envelope' = <<By("party"), By("other"), By("authority")>>
    BY <1>6 DEF Register
  <2>1. envelope' \in Seq(Accepted(issued))
    BY <1>a, <2>0, ShortSeq
  <2>2. envelope' \in Seq(Signature)
    BY <1>a, <2>0, ShortSeq
  <2>3. VerifyOwnSignatures(envelope', issued)
    BY <2>1, <2>2, AcceptedSeq
  <2>4. QED
    BY <1>0, <1>6, <2>2, <2>3, EnvelopeStep DEF Register, Genuine
<1>7. QED
  BY <1>1, <1>2, <1>3, <1>4, <1>5, <1>6 DEF Next, vars, roundVars

LEMMA SignaturesAlways == Spec => []SignaturesInv
  BY SignaturesInit, SignaturesStep, PTL DEF Spec

(* The state of the directory, the processes, the record and the deliveries *)
(* stays well typed over any number of rounds.                              *)
THEOREM SignaturesTyped == Spec => []TypeOK
<1>1. SignaturesInv => TypeOK
  BY DEF SignaturesInv
<1>2. QED  BY <1>1, SignaturesAlways, PTL

(* CounterSign supersedes earlier rounds: whatever number of rounds, keys   *)
(* and verifiers an envelope went through, what leaves for the authority    *)
(* carries one signature of ours and everybody else's in their order.       *)
THEOREM DeliveredOnceSigned == Spec => []OneFreshSignature
<1>1. SignaturesInv => OneFreshSignature
  BY CounterSigned DEF SignaturesInv, SentCountersigned, TypeOK, OneFreshSignature
<1>2. QED  BY <1>1, SignaturesAlways, PTL

(* verifyOwnSignatures keeps forgeries out: every signature in our name in  *)
(* a record, in a delivery or in the envelope the authority returns was     *)
(* made by this verifier, whichever keys init replaced meanwhile.           *)
THEOREM ForgeriesKeptOut == Spec => []NoForgery
<1>1. SignaturesInv => NoForgery
  BY DEF SignaturesInv
<1>2. QED  BY <1>1, SignaturesAlways, PTL

-----------------------------------------------------------------------------
(* The order of the published keys.                                         *)

(* The less function compares any two keys of different kids one way, as a  *)
(* sort needs it to.                                                        *)
LEMMA BeforeDecides ==
  ASSUME NEW k \in PublicKey, NEW l \in PublicKey, k.kid # l.kid
  PROVE  (Before(k, l) \/ Before(l, k)) /\ ~(Before(k, l) /\ Before(l, k))
<1>1. /\ k.kid \in Nat /\ l.kid \in Nat /\ k.from \in Nat /\ l.from \in Nat
      /\ k.dated \in BOOLEAN /\ l.dated \in BOOLEAN
  BY DEF PublicKey
<1>2. CASE k.dated /\ l.dated
  BY <1>1, <1>2 DEF Before
<1>3. CASE k.dated /\ ~l.dated
  BY <1>1, <1>3 DEF Before
<1>4. CASE ~k.dated /\ l.dated
  BY <1>1, <1>4 DEF Before
<1>5. CASE ~k.dated /\ ~l.dated
  BY <1>1, <1>5 DEF Before
<1> QED
  BY <1>1, <1>2, <1>3, <1>4, <1>5

(* And it is transitive.                                                    *)
LEMMA BeforeTransitive ==
  ASSUME NEW k \in PublicKey, NEW l \in PublicKey, NEW m \in PublicKey,
         Before(k, l), Before(l, m)
  PROVE  Before(k, m)
<1>1. /\ k.kid \in Nat /\ l.kid \in Nat /\ m.kid \in Nat
      /\ k.from \in Nat /\ l.from \in Nat /\ m.from \in Nat
      /\ k.dated \in BOOLEAN /\ l.dated \in BOOLEAN /\ m.dated \in BOOLEAN
  BY DEF PublicKey
<1>2. CASE k.dated /\ m.dated
  <2>1. l.dated
    BY <1>2 DEF Before
  <2>2. CASE k.from > l.from \/ l.from > m.from
    <3>1. k.from >= l.from /\ l.from >= m.from
      BY <1>1, <1>2, <2>1 DEF Before
    <3>2. k.from > m.from
      BY <1>1, <2>2, <3>1
    <3> QED BY <1>2, <3>2 DEF Before
  <2>3. CASE ~(k.from > l.from \/ l.from > m.from)
    <3>1. k.from = l.from /\ l.from = m.from /\ k.kid > l.kid /\ l.kid > m.kid
      BY <1>1, <1>2, <2>1, <2>3 DEF Before
    <3>2. k.kid > m.kid /\ k.from = m.from /\ k.dated = m.dated
      BY <1>1, <1>2, <3>1
    <3> QED BY <3>2 DEF Before
  <2> QED BY <2>2, <2>3
<1>3. CASE k.dated /\ ~m.dated
  BY <1>3 DEF Before
<1>4. CASE ~k.dated
  BY <1>1, <1>4 DEF Before
<1> QED
  BY <1>2, <1>3, <1>4

(* The place where two enumerations of the same keys first part: each has   *)
(* the other's key later on.                                                *)
LEMMA PartingPlace ==
  ASSUME NEW n \in Nat, NEW K, NEW s, NEW t, Lists(s, n, K), Lists(t, n, K),
         NEW i \in 1..n, s[i] # t[i],
         \A j \in 1..n : j < i => s[j] = t[j]
  PROVE  \E j \in 1..n : i < j /\ t[j] = s[i]
<1>1. PICK j \in 1..n : t[j] = s[i]
  BY DEF Lists
<1>2. j # i
  BY <1>1
<1>3. ~(j < i)
  <2>1. SUFFICES ASSUME j < i PROVE FALSE
    OBVIOUS
  <2>2. s[j] = s[i]
    BY <1>1, <2>1
  <2>3. j = i
    BY <2>2 DEF Lists
  <2> QED BY <2>3, <1>2
<1> QED
  BY <1>1, <1>2, <1>3

(* jwks.json depends on the keys alone: whatever the order in which the     *)
(* directory gave them to loadKeys, as long as no two have the same kid.    *)
THEOREM OneOrder ==
  ASSUME NEW n \in Nat, NEW K \in SUBSET PublicKey, OneKeyPerKid(K),
         NEW s, NEW t, JWKS(s, n, K), JWKS(t, n, K)
  PROVE  s = t
<1> DEFINE Parted == {i \in 1..n : s[i] # t[i]}
<1>1. Lists(s, n, K) /\ Lists(t, n, K)
  BY DEF JWKS
<1>2. s \in [1..n -> K] /\ t \in [1..n -> K]
  BY <1>1 DEF Lists
<1>3. Parted = {}
  <2>1. SUFFICES ASSUME Parted # {} PROVE FALSE
    OBVIOUS
  <2>2. PICK i \in Parted : \A j \in Parted : ~(j < i)
    <3>1. Parted \in SUBSET Nat
      OBVIOUS
    <3> HIDE DEF Parted
    <3> QED BY <2>1, <3>1, NatLeast
  <2>3. i \in 1..n /\ s[i] # t[i]
    OBVIOUS
  <2>4. ASSUME NEW j \in 1..n, j < i PROVE s[j] = t[j]
    BY <2>2, <2>4
  <2>5. PICK j \in 1..n : i < j /\ t[j] = s[i]
    <3> HIDE DEF Parted
    <3> QED BY <1>1, <2>3, <2>4, PartingPlace
  <2>6. PICK k \in 1..n : i < k /\ s[k] = t[i]
    <3> HIDE DEF Parted
    <3> QED BY <1>1, <2>3, <2>4, PartingPlace
  <2>7. ~Before(s[i], t[i])
    BY <2>3, <2>5 DEF JWKS
  <2>8. ~Before(t[i], s[i])
    BY <2>3, <2>6 DEF JWKS
  <2>9. s[i].kid # t[i].kid
    BY <1>2, <2>3 DEF OneKeyPerKid
  <2> QED
    BY <1>2, <2>3, <2>7, <2>8, <2>9, BeforeDecides
<1> QED
  BY <1>2, <1>3

(* "Newest first (sorted by ValidFrom descending; keys with no ValidFrom    *)
(* sort last)" (JWKS): of two keys the earlier listed is no older.          *)
THEOREM NewestFirst ==
  ASSUME NEW n \in Nat, NEW K \in SUBSET PublicKey, NEW s, JWKS(s, n, K),
         NEW i \in 1..n, NEW j \in 1..n, i < j, s[j].dated
  PROVE  s[i].dated /\ s[i].from >= s[j].from
<1>1. s[i] \in PublicKey /\ s[j] \in PublicKey
  BY DEF JWKS, Lists
<1>2. ~Before(s[j], s[i])
  BY DEF JWKS
<1>3. /\ s[i].from \in Nat /\ s[j].from \in Nat
      /\ s[i].dated \in BOOLEAN /\ s[j].dated \in BOOLEAN
  BY <1>1 DEF PublicKey
<1>4. CASE s[i].dated
  BY <1>2, <1>3, <1>4 DEF Before
<1>5. CASE ~s[i].dated
  BY <1>2, <1>5 DEF Before
<1> QED
  BY <1>4, <1>5
=============================================================================

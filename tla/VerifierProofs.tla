--------------------------- MODULE VerifierProofs ---------------------------
(***************************************************************************)
(* What a Verifier promises for any threads, clones, signers and entries,  *)
(* on any curve whose group is of prime order.  The keys remembered are    *)
(* right whatever FixedKey::verify answers; that the answers are right     *)
(* rests on FixedKeyCorrect of SecpProofs.                                 *)
(***************************************************************************)
EXTENDS Verifier, SecpProofs

\* A thread about to remember a key has found it allowed, and its signers have
\* not changed since.
Learning ==
  \A t \in Thread : pc[t] = "remembering" => RecoverKey(Signed(entry[t])) \in Allowed(t)

\* The signers of every clone are among its options.
Optional == \A c \in Clone : signers[c] \in Options[c]

\* What the threads are at, and what the keys are.
Typed == VerifierTypeOK /\ Learning /\ Optional
KeysInv == OneKeyPerSigner /\ TablesForSigners

-----------------------------------------------------------------------------
(* Types, and where the threads are *)

\* The clone of a thread has signers among the keys.
LEMMA AllowedKeys ==
  ASSUME Typed, NEW t \in Thread
  PROVE  Using[t] \in Clone /\ Allowed(t) \subseteq Key /\ Allowed(t) \subseteq Signer
<1>1. Using[t] \in Clone
  BY UsingAssumption
<1>. QED
  BY <1>1 DEF Typed, VerifierTypeOK, Optional, Allowed, Signer

LEMMA SignedHere ==
  ASSUME Typed, NEW t \in Thread, pc[t] # "idle"
  PROVE  entry[t] \in Inputs[t] /\ entry[t] # None
BY DEF Typed, VerifierTypeOK

\* What a thread that waits for recovery is checking can be recovered from.
LEMMA WellSignedHere ==
  ASSUME Typed, NEW t \in Thread, pc[t] \in {"recovering", "remembering"}
  PROVE  WellSigned(entry[t])
BY DEF Typed, VerifierTypeOK, WellSigned, Signed

LEMMA ToSetKeys == Typed => ToSet(keys) \subseteq Key
BY DEF Typed, VerifierTypeOK, ToSet

LEMMA TypeInit == VerifierInit => Typed
<1>. SUFFICES ASSUME VerifierInit PROVE Typed
  OBVIOUS
<1>1. /\ keys \in Seq(Key)
      /\ pc \in [Thread -> {"idle", "checking", "recovering", "remembering"}]
      /\ answer \in [Thread -> BOOLEAN]
      /\ before \in [Thread -> SUBSET Key]
      /\ DOMAIN entry = Thread /\ \A t \in Thread : entry[t] = None /\ pc[t] = "idle"
  BY PreloadAssumption DEF VerifierInit
<1>2. Optional /\ signers \in [Clone -> SUBSET Key]
  BY OptionsAssumption DEF VerifierInit, Optional
<1>3. VerifierTypeOK
  BY <1>1, <1>2 DEF VerifierTypeOK
<1>. QED
  BY <1>1, <1>2, <1>3 DEF Typed, Learning

\* A thread that answers has nothing in hand afterwards, and the others go on.
LEMMA ReturnType ==
  ASSUME Typed, NEW t \in Thread, NEW b \in BOOLEAN, Return(t, b), keys' \in Seq(Key)
  PROVE  Typed'
<1>1. /\ signers' = signers /\ answer' \in [Thread -> BOOLEAN] /\ DOMAIN entry' = Thread
      /\ pc' \in [Thread -> {"idle", "checking", "recovering", "remembering"}]
      /\ before' \in [Thread -> SUBSET Key]
  BY DEF Typed, VerifierTypeOK, Return
<1>2. \A u \in Thread : IF u = t THEN entry'[u] = None /\ pc'[u] = "idle"
                                 ELSE entry'[u] = entry[u] /\ pc'[u] = pc[u]
  BY DEF Typed, VerifierTypeOK, Return
<1>. QED
  BY <1>1, <1>2 DEF Typed, VerifierTypeOK, Learning, Optional, Allowed

\* A step that moves thread t on and leaves its entry and the signers alone.
LEMMA MoveType ==
  ASSUME Typed, NEW t \in Thread, NEW p \in {"recovering", "remembering"},
         pc' = [pc EXCEPT ![t] = p], UNCHANGED <<promised, keys>>,
         pc[t] # "idle", WellSigned(entry[t]),
         p = "remembering" => RecoverKey(Signed(entry[t])) \in Allowed(t)
  PROVE  Typed'
<1>1. /\ entry' = entry /\ answer' = answer /\ signers' = signers /\ keys' = keys
      /\ before' = before
      /\ pc' \in [Thread -> {"idle", "checking", "recovering", "remembering"}]
  BY DEF promised, Typed, VerifierTypeOK
<1>2. \A u \in Thread : pc'[u] = IF u = t THEN p ELSE pc[u]
  BY DEF Typed, VerifierTypeOK
<1>. QED
  BY <1>1, <1>2 DEF Typed, VerifierTypeOK, Learning, Optional, Allowed, WellSigned, Signed

LEMMA TypeStep == Typed /\ [VerifierNext]_verifierVars => Typed'
<1>. SUFFICES ASSUME Typed, [VerifierNext]_verifierVars PROVE Typed'
  OBVIOUS
<1>1. ASSUME NEW t \in Thread, NEW e \in Inputs[t], Call(t, e) PROVE Typed'
  <2>1. /\ keys' = keys /\ answer' = answer /\ signers' = signers /\ DOMAIN entry' = Thread
        /\ pc' \in [Thread -> {"idle", "checking", "recovering", "remembering"}]
        /\ before' \in [Thread -> SUBSET Key]
    BY <1>1, ToSetKeys DEF Call, Typed, VerifierTypeOK
  <2>2. e # None
    BY InputsAssumption
  <2>3. \A u \in Thread : pc'[u] = IF u = t THEN "checking" ELSE pc[u]
    BY <1>1 DEF Call, Typed, VerifierTypeOK
  <2>4. entry[t] = None /\ \A u \in Thread : u # t => entry'[u] = entry[u]
    BY <1>1 DEF Call, Typed, VerifierTypeOK
  <2>5. entry'[t] \in Inputs[t] \cup {None} /\ entry'[t] # None
    BY <1>1, <2>2 DEF Call, Typed, VerifierTypeOK
  <2>. QED
    BY <2>1, <2>3, <2>4, <2>5 DEF Typed, VerifierTypeOK, Learning, Optional, Allowed
<1>2. ASSUME NEW t \in Thread, Unsigned(t) PROVE Typed'
  BY <1>2, ReturnType DEF Unsigned, Typed, VerifierTypeOK
<1>3. ASSUME NEW t \in Thread, FastPath(t) PROVE Typed'
  <2>1. CASE Recognised(t)
    BY <1>3, <2>1, ReturnType DEF FastPath, Typed, VerifierTypeOK
  <2>2. CASE ~Recognised(t)
    BY <1>3, <2>2, MoveType DEF FastPath
  <2>. QED
    BY <2>1, <2>2
<1>4. ASSUME NEW t \in Thread, Recover(t) PROVE Typed'
  <2>1. WellSigned(entry[t])
    BY <1>4 DEF Recover, Typed, VerifierTypeOK, WellSigned, Signed
  <2>2. CASE RecoverKey(Signed(entry[t])) \in Allowed(t)
    BY <1>4, <2>1, <2>2, MoveType DEF Recover
  <2>3. CASE RecoverKey(Signed(entry[t])) \notin Allowed(t)
    BY <1>4, <2>3, ReturnType DEF Recover, Typed, VerifierTypeOK
  <2>. QED
    BY <2>2, <2>3
<1>5. ASSUME NEW t \in Thread, Remember(t) PROVE Typed'
  <2>. DEFINE k == RecoverKey(Signed(entry[t]))
  <2>1. k \in Key
    BY <1>5, AllowedKeys DEF Remember, Typed, Learning
  <2>. HIDE DEF k
  <2>2. Remembered(k) \in Seq(Key)
    BY <2>1 DEF Remembered, Typed, VerifierTypeOK
  <2>3. keys' \in Seq(Key) /\ Return(t, TRUE)
    BY <1>5, <2>2 DEF Remember, k
  <2>. QED
    BY <2>3, ReturnType
<1>6. ASSUME NEW c \in Clone, NEW allowed \in Options[c], Change(c, allowed) PROVE Typed'
  <2>1. /\ signers' = [signers EXCEPT ![c] = allowed] /\ allowed \in SUBSET Key
        /\ entry' = entry /\ answer' = answer /\ keys' = keys /\ pc' = pc /\ before' = before
    BY <1>6, OptionsAssumption DEF Change
  <2>2. Optional' /\ signers' \in [Clone -> SUBSET Key]
    BY <2>1 DEF Typed, VerifierTypeOK, Optional
  <2>3. ASSUME NEW t \in Thread, pc[t] = "remembering" PROVE Allowed(t)' = Allowed(t)
    <3>1. Using[t] # c /\ Using[t] \in Clone
      BY <1>6, <2>3, UsingAssumption DEF Change, Typed, VerifierTypeOK
    <3>. QED
      BY <2>1, <3>1 DEF Allowed, Typed, VerifierTypeOK
  <2>4. Learning'
    BY <2>1, <2>3 DEF Typed, Learning
  <2>. QED
    BY <2>1, <2>2, <2>4 DEF Typed, VerifierTypeOK
<1>7. CASE UNCHANGED verifierVars
  BY <1>7 DEF verifierVars, promised, Typed, VerifierTypeOK, Learning, Optional, Allowed
<1>. QED
  BY <1>1, <1>2, <1>3, <1>4, <1>5, <1>6, <1>7 DEF VerifierNext, VerifierStep

(***************************************************************************)
(* Every variable holds a value of its type, and a thread has an entry     *)
(* exactly while it checks one.                                            *)
(***************************************************************************)
THEOREM TypeCorrect == VerifierSpec => []VerifierTypeOK
<1>1. Typed => VerifierTypeOK
  BY DEF Typed
<1>. QED
  BY TypeInit, TypeStep, <1>1, PTL DEF VerifierSpec
-----------------------------------------------------------------------------
(* The keys remembered *)

LEMMA KeysInit == VerifierInit => KeysInv
BY PreloadAssumption DEF VerifierInit, KeysInv, OneKeyPerSigner, TablesForSigners

\* Remembering a key adds it, unless it is there.
LEMMA RememberedKeys ==
  ASSUME keys \in Seq(Key), IsInjective(keys), NEW k
  PROVE  /\ IsInjective(Remembered(k))
         /\ ToSet(Remembered(k)) = ToSet(keys) \cup {k}
<1>1. CASE k \in ToSet(keys)
  BY <1>1 DEF Remembered
<1>2. CASE k \notin ToSet(keys)
  <2>1. /\ Remembered(k) = Append(keys, k)
        /\ Len(keys) \in Nat /\ DOMAIN keys = 1 .. Len(keys)
        /\ DOMAIN Append(keys, k) = 1 .. Len(keys) + 1
        /\ \A i \in 1 .. Len(keys) + 1 :
             Append(keys, k)[i] = IF i <= Len(keys) THEN keys[i] ELSE k
    BY <1>2 DEF Remembered
  <2>2. \A i \in DOMAIN keys : keys[i] # k
    BY <1>2 DEF ToSet
  <2>3. IsInjective(Append(keys, k))
    BY <2>1, <2>2 DEF IsInjective
  <2>4. ToSet(Append(keys, k)) = ToSet(keys) \cup {k}
    BY <2>1 DEF ToSet
  <2>. QED
    BY <2>1, <2>3, <2>4
<1>. QED
  BY <1>1, <1>2

LEMMA KeysStep == Typed /\ KeysInv /\ [VerifierNext]_verifierVars => KeysInv'
<1>. SUFFICES ASSUME Typed, KeysInv, [VerifierNext]_verifierVars PROVE KeysInv'
  OBVIOUS
<1>1. ASSUME NEW t \in Thread, Remember(t) PROVE KeysInv'
  <2>. DEFINE k == RecoverKey(Signed(entry[t]))
  <2>1. k \in Signer /\ keys' = Remembered(k)
    BY <1>1, AllowedKeys DEF Remember, Typed, Learning
  <2>. HIDE DEF k
  <2>2. keys \in Seq(Key)
    BY DEF Typed, VerifierTypeOK
  <2>3. IsInjective(keys') /\ ToSet(keys') \subseteq ToSet(keys) \cup {k}
    BY <2>1, <2>2, RememberedKeys DEF KeysInv, OneKeyPerSigner
  <2>. QED
    BY <2>1, <2>3 DEF KeysInv, OneKeyPerSigner, TablesForSigners
<1>2. CASE \A t \in Thread : ~Remember(t)
  <2>1. keys' = keys
    BY <1>2 DEF VerifierNext, VerifierStep, verifierVars, Call, Unsigned, FastPath, Recover, Change
  <2>. QED
    BY <2>1 DEF KeysInv, OneKeyPerSigner, TablesForSigners
<1>. QED
  BY <1>1, <1>2

(***************************************************************************)
(* However many threads learn a key at once, its tables are kept once, and *)
(* only keys that some clone allowed are kept at all.                      *)
(***************************************************************************)
THEOREM KeysCorrect == VerifierSpec => [](OneKeyPerSigner /\ TablesForSigners)
<1>1. KeysInv => OneKeyPerSigner /\ TablesForSigners
  BY DEF KeysInv
<1>. QED
  BY TypeInit, TypeStep, KeysInit, KeysStep, <1>1, PTL DEF VerifierSpec

\* Whatever is received, tables are built for keys that some clone allowed and for
\* the preloaded ones, so the memory they take is bounded.
COROLLARY OnlySignersHaveTables == VerifierSpec => []TablesForSigners
BY KeysCorrect, PTL

-----------------------------------------------------------------------------
(* FixedKey *)

\* FixedKey::verify tells the signer of every entry from the others.
LEMMA Sound ==
  ASSUME NEW t \in Thread, NEW e \in Inputs[t], WellSigned(e)
  PROVE  Agrees(e)
<1>. DEFINE sig(id) == [digest |-> e.digest[1], r |-> e.r, s |-> e.s, recid |-> id]
<1>1. e.digest[1] \in Int
  BY InputsAssumption DEF WellSigned
<1>2. Signed(e) = sig(RecoveryId(e.v)) /\ \A id : [Signed(e) EXCEPT !.recid = id] = sig(id)
  BY DEF Signed
<1>3. ASSUME NEW k \in Signer PROVE Verify(k, Signed(e)) <=> k \in Makers(e)
  <2>1. k \in Key /\ k # None
    BY OptionsAssumption, OrderAssumption DEF Signer
  <2>2. Verify(k, sig(RecoveryId(e.v))) <=> \E id \in 0 .. 3 : RecoverKey(sig(id)) = k
    BY <1>1, <2>1, FixedKeyCorrect
  <2>3. k \in Makers(e) <=> \E id \in 0 .. 3 : RecoverKey(sig(id)) = k
    BY <1>2, <2>1 DEF Makers
  <2>. QED
    BY <1>2, <2>2, <2>3
<1>. QED
  BY <1>3 DEF Agrees

(***************************************************************************)
(* FixedKey::verify accepts the signature of the entry a thread checks for *)
(* exactly those signers that recovery finds: FixedKeyCorrect, for what    *)
(* the threads are given.                                                  *)
(***************************************************************************)
THEOREM FixedKeyAlwaysAgrees == VerifierSpec => []FixedKeyAgrees
<1>1. Typed => FixedKeyAgrees
  BY SignedHere, Sound DEF FixedKeyAgrees
<1>. QED
  BY TypeInit, TypeStep, <1>1, PTL DEF VerifierSpec

-----------------------------------------------------------------------------
(* The answers *)

\* Recovery attributes a signature to one of the keys that made it.
LEMMA RecoveredMade ==
  ASSUME NEW e, WellSigned(e), RecoverKey(Signed(e)) # None
  PROVE  RecoverKey(Signed(e)) \in Makers(e)
<1>1. [Signed(e) EXCEPT !.recid = RecoveryId(e.v)] = Signed(e)
  BY DEF Signed
<1>. QED
  BY <1>1 DEF Makers, WellSigned

\* What a thread knew when it asked is known still, and none of the keys it knew
\* and may accept made what it is about to recover from.
Known == \A t \in Thread : before[t] \subseteq ToSet(keys)
Missed ==
  \A t \in Thread : pc[t] = "recovering" =>
    \A k \in before[t] \cap Allowed(t) : ~Verify(k, Signed(entry[t]))
HistoryInv == Known /\ Missed

LEMMA HistoryInit == VerifierInit => HistoryInv
BY DEF VerifierInit, HistoryInv, Known, Missed

\* Keys are remembered for good.
LEMMA KeysGrow == Typed /\ [VerifierNext]_verifierVars => ToSet(keys) \subseteq ToSet(keys')
<1>. SUFFICES ASSUME Typed, [VerifierNext]_verifierVars PROVE ToSet(keys) \subseteq ToSet(keys')
  OBVIOUS
<1>1. ASSUME NEW t \in Thread, Remember(t) PROVE ToSet(keys) \subseteq ToSet(keys')
  <2>. DEFINE k == RecoverKey(Signed(entry[t]))
  <2>1. keys' = Remembered(k) /\ keys \in Seq(Key)
    BY <1>1 DEF Remember, Typed, VerifierTypeOK
  <2>. HIDE DEF k
  <2>2. CASE k \in ToSet(keys)
    BY <2>1, <2>2 DEF Remembered
  <2>3. CASE k \notin ToSet(keys)
    BY <2>1, <2>3 DEF Remembered, ToSet
  <2>. QED
    BY <2>2, <2>3
<1>2. CASE \A t \in Thread : ~Remember(t)
  BY <1>2 DEF VerifierNext, VerifierStep, verifierVars, Call, Unsigned, FastPath, Recover, Change
<1>. QED
  BY <1>1, <1>2

\* After an answer there is nothing left of what the thread knew.
LEMMA ReturnHistory ==
  ASSUME Typed, HistoryInv, NEW t \in Thread, NEW b, Return(t, b),
         ToSet(keys) \subseteq ToSet(keys')
  PROVE  HistoryInv'
<1>1. \A u \in Thread : /\ before'[u] = IF u = t THEN {} ELSE before[u]
                        /\ u = t => pc'[u] = "idle"
                        /\ u # t => pc'[u] = pc[u] /\ entry'[u] = entry[u]
                        /\ signers' = signers
  BY DEF Typed, VerifierTypeOK, Return
<1>2. Known'
  BY <1>1 DEF HistoryInv, Known
<1>3. Missed'
  BY <1>1 DEF HistoryInv, Missed, Allowed
<1>. QED
  BY <1>2, <1>3 DEF HistoryInv

LEMMA HistoryStep == Typed /\ HistoryInv /\ [VerifierNext]_verifierVars => HistoryInv'
<1>. SUFFICES ASSUME Typed, HistoryInv, [VerifierNext]_verifierVars PROVE HistoryInv'
  OBVIOUS
<1>0. ToSet(keys) \subseteq ToSet(keys')
  BY KeysGrow
<1>1. ASSUME NEW t \in Thread, NEW e \in Inputs[t], Call(t, e) PROVE HistoryInv'
  <2>1. \A u \in Thread : /\ before'[u] = IF u = t THEN ToSet(keys) ELSE before[u]
                          /\ u = t => pc'[u] = "checking"
                          /\ u # t => pc'[u] = pc[u] /\ entry'[u] = entry[u]
                          /\ signers' = signers /\ keys' = keys
    BY <1>1 DEF Typed, VerifierTypeOK, Call
  <2>2. Known'
    BY <2>1 DEF HistoryInv, Known
  <2>3. Missed'
    BY <2>1 DEF HistoryInv, Missed, Allowed
  <2>. QED
    BY <2>2, <2>3 DEF HistoryInv
<1>2. ASSUME NEW t \in Thread, Unsigned(t) PROVE HistoryInv'
  BY <1>0, <1>2, ReturnHistory DEF Unsigned
<1>3. ASSUME NEW t \in Thread, FastPath(t) PROVE HistoryInv'
  <2>1. CASE Recognised(t)
    BY <1>0, <1>3, <2>1, ReturnHistory DEF FastPath
  <2>2. CASE ~Recognised(t)
    <3>1. /\ before' = before /\ keys' = keys /\ signers' = signers /\ entry' = entry
          /\ \A u \in Thread : u # t => pc'[u] = pc[u]
      BY <1>3, <2>2 DEF FastPath, promised, Typed, VerifierTypeOK
    <3>2. \A k \in before[t] \cap Allowed(t) : ~Verify(k, Signed(entry[t]))
      BY <2>2 DEF Recognised, HistoryInv, Known
    <3>. QED
      BY <3>1, <3>2 DEF HistoryInv, Known, Missed, Allowed
  <2>. QED
    BY <2>1, <2>2
<1>4. ASSUME NEW t \in Thread, Recover(t) PROVE HistoryInv'
  <2>1. CASE RecoverKey(Signed(entry[t])) \in Allowed(t)
    <3>1. /\ before' = before /\ keys' = keys /\ signers' = signers /\ entry' = entry
          /\ \A u \in Thread : pc'[u] = "recovering" => pc[u] = "recovering"
      BY <1>4, <2>1 DEF Recover, promised, Typed, VerifierTypeOK
    <3>. QED
      BY <3>1 DEF HistoryInv, Known, Missed, Allowed
  <2>2. CASE RecoverKey(Signed(entry[t])) \notin Allowed(t)
    BY <1>0, <1>4, <2>2, ReturnHistory DEF Recover
  <2>. QED
    BY <2>1, <2>2
<1>5. ASSUME NEW t \in Thread, Remember(t) PROVE HistoryInv'
  BY <1>0, <1>5, ReturnHistory DEF Remember
<1>6. ASSUME NEW c \in Clone, NEW allowed \in Options[c], Change(c, allowed) PROVE HistoryInv'
  <2>1. /\ signers' = [signers EXCEPT ![c] = allowed]
        /\ entry' = entry /\ before' = before /\ keys' = keys /\ pc' = pc
    BY <1>6 DEF Change
  <2>2. ASSUME NEW t \in Thread, pc[t] = "recovering" PROVE Allowed(t)' = Allowed(t)
    <3>1. Using[t] # c /\ Using[t] \in Clone
      BY <1>6, <2>2, UsingAssumption DEF Change
    <3>. QED
      BY <2>1, <3>1 DEF Allowed, Typed, VerifierTypeOK
  <2>. QED
    BY <2>1, <2>2 DEF HistoryInv, Known, Missed
<1>7. CASE UNCHANGED verifierVars
  BY <1>7 DEF verifierVars, promised, HistoryInv, Known, Missed, Allowed
<1>. QED
  BY <1>1, <1>2, <1>3, <1>4, <1>5, <1>6, <1>7 DEF VerifierNext, VerifierStep

\* An answer of the code is one of Acceptance.
LEMMA ReturnAnswer ==
  ASSUME Typed, NEW t \in Thread, NEW b, pc[t] # "idle", Return(t, b)
  PROVE  Promise!Answer(t, b) /\ entry[t] # None
BY SignedHere DEF Return, Promise!Answer

LEMMA AcceptanceInit == VerifierInit => Promise!Init
BY DEF VerifierInit, Promise!Init

LEMMA AcceptanceStep ==
  Typed /\ KeysInv /\ HistoryInv /\ [VerifierNext]_verifierVars
    => [Promise!Next]_(Promise!vars)
<1>. SUFFICES ASSUME Typed, KeysInv, HistoryInv, [VerifierNext]_verifierVars
              PROVE  [Promise!Next]_(Promise!vars)
  OBVIOUS
<1>0. \A t : Promise!Allowed(t) = Allowed(t)
  BY DEF Promise!Allowed, Allowed
<1>1. ASSUME NEW t \in Thread, NEW e \in Inputs[t], Call(t, e) PROVE Promise!Next
  <2>1. Promise!Ask(t, e)
    BY <1>1 DEF Call, Promise!Ask, Typed, VerifierTypeOK
  <2>. QED
    BY <2>1 DEF Promise!Next
<1>2. ASSUME NEW t \in Thread, Unsigned(t) PROVE Promise!Next
  <2>1. Promise!Answer(t, FALSE) /\ entry[t] # None
    BY <1>2, ReturnAnswer DEF Unsigned
  <2>2. Recovered(entry[t]) = None /\ Made(entry[t]) = {}
    BY <1>2 DEF Unsigned, Recovered, Made
  <2>3. None \notin Allowed(t)
    BY AllowedKeys, OrderAssumption
  <2>4. ToSet(keys') = ToSet(keys)
    BY <1>2 DEF Unsigned
  <2>5. Promise!Refuse(t)
    BY <1>0, <2>1, <2>2, <2>3, <2>4 DEF Promise!Refuse
  <2>. QED
    BY <2>5 DEF Promise!Next
<1>3. ASSUME NEW t \in Thread, FastPath(t) PROVE [Promise!Next]_(Promise!vars)
  <2>1. CASE Recognised(t)
    <3>. PICK k \in ToSet(keys) \cap Allowed(t) : Verify(k, Signed(entry[t]))
      BY <2>1 DEF Recognised
    <3>1. entry[t] \in Inputs[t] /\ WellSigned(entry[t]) /\ k \in Signer
      BY <1>3, SignedHere, AllowedKeys DEF FastPath
    <3>2. k \in Made(entry[t])
      BY <3>1, Sound DEF Agrees, Made
    <3>3. Promise!Answer(t, TRUE) /\ entry[t] # None /\ ToSet(keys') = ToSet(keys)
      BY <1>3, <2>1, ReturnAnswer DEF FastPath
    <3>4. Promise!Recognise(t)
      BY <1>0, <3>2, <3>3 DEF Promise!Recognise
    <3>. QED
      BY <3>4 DEF Promise!Next
  <2>2. CASE ~Recognised(t)
    BY <1>3, <2>2 DEF FastPath, promised, Promise!vars
  <2>. QED
    BY <2>1, <2>2
<1>4. ASSUME NEW t \in Thread, Recover(t) PROVE [Promise!Next]_(Promise!vars)
  <2>1. CASE RecoverKey(Signed(entry[t])) \in Allowed(t)
    BY <1>4, <2>1 DEF Recover, promised, Promise!vars
  <2>2. CASE RecoverKey(Signed(entry[t])) \notin Allowed(t)
    <3>1. Promise!Answer(t, FALSE) /\ entry[t] # None /\ ToSet(keys') = ToSet(keys)
      BY <1>4, <2>2, ReturnAnswer DEF Recover
    <3>2. WellSigned(entry[t]) /\ entry[t] \in Inputs[t]
      BY <1>4, WellSignedHere, SignedHere DEF Recover
    <3>3. Recovered(entry[t]) \notin Allowed(t)
      BY <2>2, <3>2 DEF Recovered
    <3>4. ASSUME NEW k \in before[t] \cap Allowed(t) PROVE k \notin Made(entry[t])
      <4>1. k \in Signer /\ ~Verify(k, Signed(entry[t]))
        BY <1>4, <3>4, AllowedKeys DEF Recover, HistoryInv, Missed
      <4>. QED
        BY <3>2, <4>1, Sound DEF Agrees, Made
    <3>5. Promise!Refuse(t)
      BY <1>0, <3>1, <3>3, <3>4 DEF Promise!Refuse
    <3>. QED
      BY <3>5 DEF Promise!Next
  <2>. QED
    BY <2>1, <2>2
<1>5. ASSUME NEW t \in Thread, Remember(t) PROVE Promise!Next
  <2>. DEFINE k == RecoverKey(Signed(entry[t]))
  <2>1. k \in Allowed(t) /\ WellSigned(entry[t])
    BY <1>5, WellSignedHere DEF Remember, Typed, Learning
  <2>2. Recovered(entry[t]) = k
    BY <2>1 DEF Recovered
  <2>3. Promise!Answer(t, TRUE) /\ entry[t] # None /\ keys' = Remembered(k)
    BY <1>5, ReturnAnswer DEF Remember
  <2>. HIDE DEF k
  <2>4. ToSet(keys') = ToSet(keys) \cup {k}
    BY <2>3, RememberedKeys DEF Typed, VerifierTypeOK, KeysInv, OneKeyPerSigner
  <2>5. Promise!Learn(t)
    BY <1>0, <2>1, <2>2, <2>3, <2>4 DEF Promise!Learn
  <2>. QED
    BY <2>5 DEF Promise!Next
<1>6. ASSUME NEW c \in Clone, NEW allowed \in Options[c], Change(c, allowed) PROVE Promise!Next
  <2>1. Promise!SetSigners(c, allowed)
    BY <1>6 DEF Change, Promise!SetSigners, Typed, VerifierTypeOK
  <2>. QED
    BY <2>1 DEF Promise!Next
<1>7. CASE UNCHANGED verifierVars
  BY <1>7 DEF verifierVars, promised, Promise!vars
<1>. QED
  BY <1>1, <1>2, <1>3, <1>4, <1>5, <1>6, <1>7 DEF VerifierNext, VerifierStep

(***************************************************************************)
(* Whatever threads and clones do, the answers are those of Acceptance: an *)
(* entry whose recovery id gives an allowed signer is accepted, one that   *)
(* no allowed signer made is refused, and what was learned for others      *)
(* decides only about an allowed signer's entry with a wrong recovery id,  *)
(* which is refused unless a key known by then made it.                    *)
(***************************************************************************)
THEOREM Refinement == VerifierSpec => ImplementsAcceptance
BY TypeInit, TypeStep, KeysInit, KeysStep, HistoryInit, HistoryStep,
   AcceptanceInit, AcceptanceStep, PTL
   DEF VerifierSpec, ImplementsAcceptance, Promise!Spec

\* A key that is known and allowed is recognised by its signature.
LEMMA RecognisedStep ==
  Typed /\ [VerifierNext]_verifierVars =>
    [\A t \in Thread :
       pc[t] = "checking" /\ pc'[t] = "recovering"
         => RecoverKey(Signed(entry[t])) \notin ToSet(keys) \cap Allowed(t)]_pc
<1>. SUFFICES ASSUME Typed, [VerifierNext]_verifierVars, NEW t \in Thread,
                     pc[t] = "checking", pc'[t] = "recovering"
              PROVE  RecoverKey(Signed(entry[t])) \notin ToSet(keys) \cap Allowed(t)
  OBVIOUS
<1>. DEFINE k == RecoverKey(Signed(entry[t]))
<1>1. WellSigned(entry[t]) /\ ~Recognised(t)
  <2>1. FastPath(t)
    BY DEF VerifierNext, VerifierStep, verifierVars, Typed, VerifierTypeOK,
           Call, Unsigned, FastPath, Recover, Remember, Change, Return
  <2>2. ~Recognised(t)
    BY <2>1 DEF FastPath, Return, Typed, VerifierTypeOK
  <2>. QED
    BY <2>1, <2>2 DEF FastPath
<1>2. SUFFICES ASSUME k \in ToSet(keys) \cap Allowed(t) PROVE FALSE
  OBVIOUS
<1>3. k \in Key /\ k \in Signer /\ entry[t] \in Inputs[t]
  BY <1>2, AllowedKeys, SignedHere
<1>4. k \in Makers(entry[t])
  BY <1>1, <1>3, OrderAssumption, RecoveredMade
<1>. HIDE DEF k
<1>5. Verify(k, Signed(entry[t]))
  BY <1>1, <1>3, <1>4, Sound DEF Agrees
<1>. QED
  BY <1>1, <1>2, <1>5 DEF Recognised

(***************************************************************************)
(* Nobody recovers a key that is known: once learned, every signature of   *)
(* an allowed signer takes the fast path.                                  *)
(***************************************************************************)
THEOREM Recognition == VerifierSpec => KnownIsRecognised
BY TypeInit, TypeStep, RecognisedStep, PTL DEF VerifierSpec, KnownIsRecognised
=============================================================================

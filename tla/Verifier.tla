------------------------------ MODULE Verifier ------------------------------
(***************************************************************************)
(* A Verifier and its clones, used by several threads at once              *)
(* (src/src/verify.rs).  All share the keys learned so far; each clone has *)
(* signers of its own, which may change between calls.  A known key's      *)
(* signature takes a fast path; another is recovered, and its key kept.    *)
(*                                                                         *)
(* A step is what happens under one lock, or between two.  An address      *)
(* stands for its key.                                                     *)
(***************************************************************************)
EXTENDS Secp, SequencesExt

CONSTANTS
  Thread,       \* the threads that check entries
  Clone,        \* the Verifiers cloned from one
  Using,        \* thread -> the clone it uses
  Inputs,       \* thread -> the entries it checks
  Options,      \* clone -> the sets of signers it may be given
  Preloaded     \* the keys remembered before the first call: MAINNET_VERIFIER has one

ASSUME UsingAssumption == Using \in [Thread -> Clone]
ASSUME OptionsAssumption == \A c \in Clone : Options[c] \subseteq SUBSET Key
ASSUME InputsAssumption ==
  \A t \in Thread : \A e \in Inputs[t] : e # None /\ (e.digest # None => e.digest[1] \in Nat)
ASSUME PreloadAssumption == Preloaded \in Seq(Key) /\ IsInjective(Preloaded)

VARIABLES
  entry,        \* per thread: the entry it is checking, or None
  answer,       \* per thread: the last answer it got
  signers,      \* per clone: Verifier.signers
  keys,         \* the keys remembered, under the lock the clones share
  pc,           \* where each thread is
  before        \* history, per thread: the keys remembered when it asked

promised == <<entry, answer, signers, before>>
verifierVars == <<promised, keys, pc>>

-----------------------------------------------------------------------------
(* Signed: the parts of a signature, from an entry [digest, r, s, v].  The *)
(* digest is None if a field of the entry cannot be encoded.  A signer may *)
(* have written v as 27 + recovery id.                                     *)

RecoveryId(v) == IF v \in 27 .. 30 THEN v - 27 ELSE v

\* Wrong: any v will do.
WrongWellSignedAnyV(e) == e.digest # None

WellSigned(e) == e.digest # None /\ RecoveryId(e.v) \in 0 .. 3

Signed(e) == [digest |-> e.digest[1], r |-> e.r, s |-> e.s, recid |-> RecoveryId(e.v)]

\* The keys that made a signature, for one recovery id or another.
Makers(e) == {RecoverKey([Signed(e) EXCEPT !.recid = id]) : id \in 0 .. 3} \ {None}

-----------------------------------------------------------------------------
(* accepts_with *)

Allowed(t) == signers[Using[t]]

Return(t, b) ==
  /\ answer' = [answer EXCEPT ![t] = b]
  /\ entry' = [entry EXCEPT ![t] = None]
  /\ before' = [before EXCEPT ![t] = {}]
  /\ pc' = [pc EXCEPT ![t] = "idle"]
  /\ UNCHANGED signers

Call(t, e) ==
  /\ pc[t] = "idle"
  /\ entry' = [entry EXCEPT ![t] = e]
  /\ before' = [before EXCEPT ![t] = ToSet(keys)]
  /\ pc' = [pc EXCEPT ![t] = "checking"]
  /\ UNCHANGED <<answer, signers, keys>>

\* No usable signature.
Unsigned(t) ==
  /\ pc[t] = "checking"
  /\ ~WellSigned(entry[t])
  /\ Return(t, FALSE)
  /\ UNCHANGED keys

\* Wrong: every key remembered counts, also one a clone does not allow.
WrongRecognisedAnyKey(t) == \E k \in ToSet(keys) : Verify(k, Signed(entry[t]))

\* A remembered key that is still allowed made the signature.
Recognised(t) == \E k \in ToSet(keys) \cap Allowed(t) : Verify(k, Signed(entry[t]))

\* The fast path, under the read lock.
FastPath(t) ==
  /\ pc[t] = "checking"
  /\ WellSigned(entry[t])
  /\ IF Recognised(t)
     THEN Return(t, TRUE)
     ELSE pc' = [pc EXCEPT ![t] = "recovering"] /\ UNCHANGED promised
  /\ UNCHANGED keys

\* Wrong: any signer is learned, and only then compared with those allowed.
WrongRecoverAny(t) ==
  /\ pc[t] = "recovering"
  /\ IF RecoverKey(Signed(entry[t])) # None
     THEN pc' = [pc EXCEPT ![t] = "remembering"] /\ UNCHANGED promised
     ELSE Return(t, FALSE)
  /\ UNCHANGED keys

\* Recover the key, without a lock.
Recover(t) ==
  /\ pc[t] = "recovering"
  /\ IF RecoverKey(Signed(entry[t])) \in Allowed(t)
     THEN pc' = [pc EXCEPT ![t] = "remembering"] /\ UNCHANGED promised
     ELSE Return(t, FALSE)
  /\ UNCHANGED keys

\* Wrong: nobody looks whether another thread learned the key in the meantime.
WrongRemembered(k) == Append(keys, k)

Remembered(k) == IF k \in ToSet(keys) THEN keys ELSE Append(keys, k)

\* remember(), under the write lock.
Remember(t) ==
  /\ pc[t] = "remembering"
  /\ keys' = Remembered(RecoverKey(Signed(entry[t])))
  /\ Return(t, TRUE)

\* The owner of a clone changes its signers, while nobody is using it.
Change(c, allowed) ==
  /\ \A t \in Thread : Using[t] = c => pc[t] = "idle"
  /\ signers' = [signers EXCEPT ![c] = allowed]
  /\ UNCHANGED <<entry, answer, keys, pc, before>>

-----------------------------------------------------------------------------
VerifierInit ==
  /\ entry = [t \in Thread |-> None]
  /\ answer = [t \in Thread |-> FALSE]
  /\ signers \in [Clone -> UNION {Options[c] : c \in Clone}]
  /\ \A c \in Clone : signers[c] \in Options[c]
  /\ keys = Preloaded
  /\ pc = [t \in Thread |-> "idle"]
  /\ before = [t \in Thread |-> {}]

VerifierStep(t) == Unsigned(t) \/ FastPath(t) \/ Recover(t) \/ Remember(t)

VerifierNext ==
  \/ \E t \in Thread : VerifierStep(t) \/ \E e \in Inputs[t] : Call(t, e)
  \/ \E c \in Clone : \E allowed \in Options[c] : Change(c, allowed)

VerifierSpec == VerifierInit /\ [][VerifierNext]_verifierVars

-----------------------------------------------------------------------------
(* Properties *)

\* Every variable holds a value of its type, a thread has an entry exactly while
\* it is checking one, and what reaches recovery can be read by it.
VerifierTypeOK ==
  /\ keys \in Seq(Key)
  /\ pc \in [Thread -> {"idle", "checking", "recovering", "remembering"}]
  /\ signers \in [Clone -> SUBSET Key]
  /\ answer \in [Thread -> BOOLEAN]
  /\ before \in [Thread -> SUBSET Key]
  /\ DOMAIN entry = Thread
  /\ \A t \in Thread :
       /\ entry[t] \in Inputs[t] \cup {None}
       /\ pc[t] = "idle" <=> entry[t] = None
       /\ pc[t] \in {"recovering", "remembering"}
            => entry[t].digest # None /\ Signed(entry[t]).recid \in 0 .. 3

\* Every key that is allowed at some time.
Signer == UNION UNION {Options[c] : c \in Clone}

\* A signer's tables are kept once, however many threads learn its key at once.
OneKeyPerSigner == IsInjective(keys)

(***************************************************************************)
(* Tables are built for signers only: whatever is received, no more keys   *)
(* are kept than there ever were allowed signers.                          *)
(***************************************************************************)
TablesForSigners == ToSet(keys) \subseteq ToSet(Preloaded) \cup Signer

\* The key an entry's signature and recovery id give.
Recovered(e) == IF WellSigned(e) THEN RecoverKey(Signed(e)) ELSE None

\* The keys that made the signature of an entry.
Made(e) == IF WellSigned(e) THEN Makers(e) ELSE {}

Promise == INSTANCE Acceptance WITH Preloaded <- ToSet(Preloaded), known <- ToSet(keys)

(***************************************************************************)
(* The answers are those of Acceptance.  An entry with the right recovery  *)
(* id is accepted whatever clones have learned, and one that no allowed    *)
(* signer made is refused: signers since removed and the shortcuts of      *)
(* FixedKey (no doubling, high s, x as r + n) make no difference.  An      *)
(* allowed signer's entry with a wrong recovery id is refused until some   *)
(* clone knows the key, and never after.                                   *)
(***************************************************************************)
ImplementsAcceptance == Promise!Spec

\* Whether FixedKey::verify tells the signer of e from the others.
Agrees(e) == \A k \in Signer : Verify(k, Signed(e)) <=> k \in Makers(e)

(***************************************************************************)
(* FixedKey::verify accepts a signature for exactly those signers that     *)
(* recovery finds with one recovery id or another: signed digits and their *)
(* last carry, sums that would double, x as r + n, r and s out of range.   *)
(***************************************************************************)
FixedKeyAgrees ==
  \A t \in Thread : pc[t] = "checking" /\ WellSigned(entry[t]) => Agrees(entry[t])

(***************************************************************************)
(* Nobody recovers what is known: a signature that recovery attributes to  *)
(* an allowed signer takes the fast path once its key is remembered.       *)
(***************************************************************************)
KnownIsRecognised ==
  [][\A t \in Thread :
       pc[t] = "checking" /\ pc'[t] = "recovering"
         => RecoverKey(Signed(entry[t])) \notin ToSet(keys) \cap Allowed(t)]_pc
=============================================================================

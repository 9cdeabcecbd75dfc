----------------------------- MODULE Acceptance -----------------------------
(***************************************************************************)
(* What a Verifier promises (src/src/verify.rs), however many threads and  *)
(* clones use it.  An entry whose recovery id gives an allowed signer is   *)
(* accepted, one that no allowed signer made is refused, whatever was      *)
(* asked before.  If an allowed signer made it but its recovery id gives   *)
(* another key, the answer is a matter of history: it is accepted if the   *)
(* signer's key was known when it was asked about, refused if it is not    *)
(* known yet, and either if the key is learned in between.                 *)
(***************************************************************************)
CONSTANTS
  Thread,         \* the threads that check entries
  Clone,          \* the Verifiers cloned from one
  Using,          \* thread -> the clone it uses
  Inputs,         \* thread -> the entries it checks
  Options,        \* clone -> the sets of signers it may be given
  Preloaded,      \* the keys known from the start
  None,           \* no entry
  Recovered(_),   \* the key an entry's signature and recovery id give, or no key
  Made(_)         \* the keys that made its signature

VARIABLES
  entry,          \* per thread: the entry it is checking, or None
  answer,         \* per thread: the last answer it got
  signers,        \* per clone: Verifier.signers
  known,          \* the keys learned so far, by any clone
  before          \* per thread: the keys known when it asked

vars == <<entry, answer, signers, known, before>>

Allowed(t) == signers[Using[t]]

Ask(t, e) ==
  /\ entry[t] = None
  /\ entry' = [entry EXCEPT ![t] = e]
  /\ before' = [before EXCEPT ![t] = known]
  /\ UNCHANGED <<answer, signers, known>>

Answer(t, b) ==
  /\ answer' = [answer EXCEPT ![t] = b]
  /\ entry' = [entry EXCEPT ![t] = None]
  /\ before' = [before EXCEPT ![t] = {}]
  /\ UNCHANGED signers

\* A key that is known and still allowed made the signature.
Recognise(t) ==
  /\ entry[t] # None
  /\ Made(entry[t]) \cap known \cap Allowed(t) # {}
  /\ Answer(t, TRUE)
  /\ UNCHANGED known

\* The entry tells its signer itself, who is known from now on.
Learn(t) ==
  /\ entry[t] # None
  /\ Recovered(entry[t]) \in Allowed(t)
  /\ Answer(t, TRUE)
  /\ known' = known \cup {Recovered(entry[t])}

\* It does not, and no allowed key known when it was asked about made it.
Refuse(t) ==
  /\ entry[t] # None
  /\ Recovered(entry[t]) \notin Allowed(t)
  /\ Made(entry[t]) \cap before[t] \cap Allowed(t) = {}
  /\ Answer(t, FALSE)
  /\ UNCHANGED known

\* The owner of a clone changes its signers, while nobody is using it.
SetSigners(c, allowed) ==
  /\ \A t \in Thread : Using[t] = c => entry[t] = None
  /\ signers' = [signers EXCEPT ![c] = allowed]
  /\ UNCHANGED <<entry, answer, known, before>>

Init ==
  /\ entry = [t \in Thread |-> None]
  /\ answer = [t \in Thread |-> FALSE]
  /\ signers \in [Clone -> UNION {Options[c] : c \in Clone}]
  /\ \A c \in Clone : signers[c] \in Options[c]
  /\ known = Preloaded
  /\ before = [t \in Thread |-> {}]

Next ==
  \/ \E t \in Thread : \/ Recognise(t) \/ Learn(t) \/ Refuse(t)
                       \/ \E e \in Inputs[t] : Ask(t, e)
  \/ \E c \in Clone : \E allowed \in Options[c] : SetSigners(c, allowed)

Spec == Init /\ [][Next]_vars
=============================================================================

----------------------------- MODULE DedupProofs -----------------------------
(***************************************************************************)
(* What Dedup promises for every set of sources, numbers and hashes, every *)
(* window and every frame.  The inductive invariant has four parts, each   *)
(* preserved with the ones before it: Typed, the types; WindowInv, how the *)
(* window relates to the history of deliveries; BoundInv, how much the     *)
(* window may hold; SlowInv, how requests for new connections relate to    *)
(* the messages counted.  The counters are sums over the sources, folds of *)
(* FoldFunction; what they are is proved here by induction, as the absence *)
(* of a least counterexample.                                              *)
(***************************************************************************)
EXTENDS Dedup, FiniteSetTheorems, WellFoundedInduction, TLAPS

\* Every type, and that a source between the locks has an entry in hand.
Typed == TypeOK /\ EntryInHand

\* How the window relates to what was delivered.
WindowInv == WatermarkRemembered /\ WindowIsHistory /\ ForgottenIsBehind

\* The numbers remembered that lie at least a window after m.
Beyond(m) == {k \in DOMAIN seen : k >= m + REORG_WINDOW}

\* All that is remembered lies after m, some of it within a window, and less than
\* two windows' worth of it beyond.
Bottom(m) ==
  /\ \A k \in DOMAIN seen : m <= k
  /\ \E k \in DOMAIN seen : k < m + REORG_WINDOW
  /\ Cardinality(Beyond(m)) <= 2 * REORG_WINDOW - 1

\* There is such an m, which need not be remembered itself.
BoundInv == IsFiniteSet(DOMAIN seen) /\ (DOMAIN seen # {} => \E m \in Nat : Bottom(m))

\* How requests for new connections relate to the messages counted.
SlowInv == ReplaceWithinFrame /\ NoReconnectStorm

-----------------------------------------------------------------------------
(* Lemmas about the operators *)

\* An entry that is not a copy has a number.
LEMMA NumberOfNews ==
  ASSUME TypeOK, NEW e \in Entry, ~IsDuplicate(e.seq, e.hash)
  PROVE  e.seq \in SeqNum /\ e.hash \in Hashes /\ e.good \in BOOLEAN
<1>1. e.seq \in Number /\ e.hash \in Hashes /\ e.good \in BOOLEAN
  BY FlagAssumption DEF Entry, Signature
<1>2. CASE IsNew(e.seq, e.hash)
  BY <1>1, <1>2, SeqNumAssumption DEF IsNew, TypeOK, Number
<1>3. CASE IsReorg(e.seq, e.hash)
  BY <1>1, <1>3 DEF IsReorg, TypeOK
<1>4. QED
  BY <1>2, <1>3 DEF IsDuplicate

\* Forgetting keeps some of the numbers, the new watermark among them, and
\* what it drops lies behind what it keeps.
LEMMA KeptNumbers ==
  ASSUME NEW numbers \in SUBSET SeqNum, NEW n \in numbers
  PROVE  /\ Kept(numbers, n) \subseteq numbers
         /\ n \in Kept(numbers, n)
         /\ \A lost \in numbers \ Kept(numbers, n), k \in Kept(numbers, n) : lost < k
  BY SeqNumAssumption, WindowAssumption DEF Kept

\* An entry in hand, and the ones behind it.
LEMMA EntriesInHand ==
  ASSUME TypeOK, NEW s \in Source, todo[s] # <<>>
  PROVE  /\ Head(todo[s]) \in Entry
         /\ Tail(todo[s]) \in Seq(Entry)
  BY DEF TypeOK

\* Counting a message in a window keeps the types.
LEMMA CheckSlowType ==
  ASSUME TypeOK, NEW s \in Source, NEW w \in Window, CheckSlow(s, w)
  PROVE  recent' \in [Source -> Window] /\ replace' \in [Source -> BOOLEAN]
<1>1. NewWindow \in Window
  BY DEF NewWindow, Window
<1>. QED
  BY <1>1 DEF CheckSlow, TypeOK

LEMMA LateCopyType ==
  ASSUME TypeOK, NEW s \in Source, NEW n \in Number, LateCopy(s, n)
  PROVE  /\ stats' \in [Counter -> Nat]
         /\ sources' \in [Source -> SourceStats]
         /\ recent' \in [Source -> Window]
         /\ replace' \in [Source -> BOOLEAN]
<1>. stats \in [Counter -> Nat] /\ sources \in [Source -> SourceStats]
  BY DEF TypeOK
<1>1. stats' \in [Counter -> Nat]
  BY DEF LateCopy, Counter
<1>2. CASE live[s] /\ n \in DOMAIN seen
  <2>. recent[s] \in Window
    BY DEF TypeOK
  <2>1. [recent[s] EXCEPT !.late = @ + 1] \in Window
    BY DEF Window
  <2>2. recent' \in [Source -> Window] /\ replace' \in [Source -> BOOLEAN]
    BY <1>2, <2>1, CheckSlowType DEF LateCopy
  <2>3. sources' \in [Source -> SourceStats]
    BY <1>2 DEF LateCopy, SourceStats
  <2>. QED
    BY <1>1, <2>2, <2>3
<1>3. CASE ~(live[s] /\ n \in DOMAIN seen)
  BY <1>1, <1>3 DEF LateCopy, TypeOK
<1>. QED
  BY <1>2, <1>3

LEMMA CountFirstType ==
  ASSUME TypeOK, NEW s \in Source, NEW reorg, CountFirst(s, reorg)
  PROVE  /\ stats' \in [Counter -> Nat]
         /\ sources' \in [Source -> SourceStats]
         /\ recent' \in [Source -> Window]
         /\ replace' \in [Source -> BOOLEAN]
<1>. stats \in [Counter -> Nat] /\ sources \in [Source -> SourceStats]
  BY DEF TypeOK
<1>1. stats' \in [Counter -> Nat]
  BY DEF CountFirst, Bit
<1>2. sources' \in [Source -> SourceStats]
  BY DEF CountFirst, SourceStats
<1>3. CASE live[s]
  <2>. recent[s] \in Window
    BY DEF TypeOK
  <2>1. [recent[s] EXCEPT !.first = @ + 1] \in Window
    BY DEF Window
  <2>. QED
    BY <1>1, <1>2, <1>3, <2>1, CheckSlowType DEF CountFirst
<1>4. CASE ~live[s]
  BY <1>1, <1>2, <1>4 DEF CountFirst, TypeOK
<1>. QED
  BY <1>3, <1>4

LEMMA RememberType ==
  ASSUME TypeOK, NEW n \in SeqNum, NEW h \in Hashes, Remember(n, h)
  PROVE  DOMAIN seen' \subseteq SeqNum /\ seen' \in [DOMAIN seen' -> Hashes]
<1>1. /\ DOMAIN Put(seen, n, h) = DOMAIN seen \cup {n}
      /\ Put(seen, n, h) \in [DOMAIN seen \cup {n} -> Hashes]
  BY DEF Put, TypeOK
<1>2. Kept(DOMAIN seen \cup {n}, n) \subseteq DOMAIN seen \cup {n}
  BY KeptNumbers, ZenonT(40) DEF TypeOK
<1>. QED
  BY <1>1, <1>2 DEF Remember, Restrict, TypeOK

LEMMA FramesAreSequences == Frames \subseteq Seq(Entry)
BY DEF Frames, BoundedSeq, SeqOf

-----------------------------------------------------------------------------
(* Type correctness *)

LEMMA TypeInit == Init => Typed
<1>. SUFFICES ASSUME Init PROVE Typed
  OBVIOUS
<1>1. /\ NewWindow \in Window
      /\ [first |-> 0, late |-> 0, replaced |-> 0, reconnects |-> 0] \in SourceStats
      /\ Contract!Nothing \in [seq : Number, hash : Hashes, reorg : BOOLEAN, good : BOOLEAN]
  BY DEF NewWindow, Window, SourceStats, Contract!Nothing, Number, Hashes
<1>. QED
  BY <1>1 DEF Init, Typed, TypeOK, EntryInHand, Number, Hashes, Place

\* The steps that take the entry in hand and leave the watermark alone.
LEMMA TypeDropStep ==
  ASSUME Typed, NEW s \in Source, DropCopy(s) \/ LoseRace(s) \/ Reject(s)
  PROVE  Typed'
<1>. TypeOK /\ EntryInHand /\ todo[s] # <<>>
  BY DEF Typed, EntryInHand, DropCopy, LoseRace, Reject
<1>1. Head(todo[s]).seq \in Number
  BY EntriesInHand DEF Entry
<1>2. /\ stats' \in [Counter -> Nat]
      /\ sources' \in [Source -> SourceStats]
      /\ recent' \in [Source -> Window]
      /\ replace' \in [Source -> BOOLEAN]
  <2>1. CASE DropCopy(s) \/ LoseRace(s)
    BY <1>1, <2>1, LateCopyType DEF DropCopy, LoseRace
  <2>2. CASE Reject(s)
    <3>. stats \in [Counter -> Nat]
      BY DEF TypeOK
    <3>1. stats' \in [Counter -> Nat]
      BY <2>2 DEF Reject, Counter
    <3>. QED
      BY <2>2, <3>1 DEF Reject, TypeOK
  <2>. QED
    BY <2>1, <2>2
<1>3. todo' \in [Source -> Seq(Entry)]
  <2>1. todo \in [Source -> Seq(Entry)] /\ Tail(todo[s]) \in Seq(Entry)
    BY EntriesInHand DEF TypeOK
  <2>. QED
    BY <2>1 DEF DropCopy, LoseRace, Reject
<1>4. pc' \in [Source -> Place] /\ \A t \in Source : t # s => pc'[t] = pc[t] /\ todo'[t] = todo[t]
  BY DEF DropCopy, LoseRace, Reject, TypeOK, Place
<1>5. pc'[s] = "checking"
  BY DEF DropCopy, LoseRace, Reject, TypeOK
<1>. QED
  <2>1. UNCHANGED <<highest_seq, seen, connected, asked, live, out, slow, held, latest, received>>
    BY DEF DropCopy, LoseRace, Reject, history
  <2>2. EntryInHand'
    BY <1>4, <1>5 DEF EntryInHand
  <2>. QED
    BY <1>2, <1>3, <1>4, <2>1, <2>2 DEF Typed, TypeOK

LEMMA TypeClaimStep ==
  ASSUME Typed, NEW s \in Source, Claim(s)
  PROVE  Typed'
<1>. TypeOK /\ EntryInHand /\ todo[s] # <<>>
  BY DEF Typed, EntryInHand, Claim
<1>. DEFINE e == Head(todo[s])
<1>1. e \in Entry /\ e.seq \in SeqNum /\ e.hash \in Hashes /\ e.good \in BOOLEAN
  BY EntriesInHand, NumberOfNews DEF Claim
<1>. HIDE DEF e
<1>2. highest_seq' \in Number
  BY <1>1 DEF Claim, MoveTo, Number, e
<1>3. DOMAIN seen' \subseteq SeqNum /\ seen' \in [DOMAIN seen' -> Hashes]
  BY <1>1, RememberType DEF Claim, e
<1>4. /\ stats' \in [Counter -> Nat]
      /\ sources' \in [Source -> SourceStats]
      /\ recent' \in [Source -> Window]
      /\ replace' \in [Source -> BOOLEAN]
  BY CountFirstType DEF Claim
<1>5. out' \in [Source -> Seq(Message)]
  <2>1. IsReorg(e.seq, e.hash) \in BOOLEAN
    BY DEF IsReorg, Changed
  <2>2. [seq |-> e.seq, hash |-> e.hash, reorg |-> IsReorg(e.seq, e.hash)] \in Message
    BY <1>1, <2>1 DEF Message, Hashes
  <2>. QED
    BY <2>2 DEF Claim, TypeOK, e
<1>6. DOMAIN held' \subseteq SeqNum /\ held' \in [DOMAIN held' -> Hashes]
  BY <1>1 DEF Claim, Put, TypeOK, e
<1>7. latest' \in [seq : Number, hash : Hashes, reorg : BOOLEAN, good : BOOLEAN]
  <2>1. IsReorg(e.seq, e.hash) \in BOOLEAN
    BY DEF IsReorg, Changed
  <2>. QED
    BY <1>1, <2>1 DEF Claim, Number, e
<1>8. todo' \in [Source -> Seq(Entry)] /\ pc' \in [Source -> Place]
  BY EntriesInHand DEF Claim, TypeOK, Place
<1>9. EntryInHand'
  BY DEF Claim, TypeOK, EntryInHand
<1>10. UNCHANGED <<connected, asked, live, slow, received>>
  BY DEF Claim
<1>. QED
  BY <1>2, <1>3, <1>4, <1>5, <1>6, <1>7, <1>8, <1>9, <1>10 DEF Typed, TypeOK

LEMMA TypeStep == Typed /\ [Next]_vars => Typed'
<1>. SUFFICES ASSUME Typed, [Next]_vars PROVE Typed'
  OBVIOUS
<1>. USE DEF state, history
<1>. TypeOK /\ EntryInHand
  BY DEF Typed
<1>1. ASSUME NEW s \in Source, Dial(s) PROVE Typed'
  BY <1>1 DEF Dial, Typed, TypeOK, EntryInHand, Place
<1>2. ASSUME NEW s \in Source, Connect(s) PROVE Typed'
  BY <1>2 DEF Connect, Typed, TypeOK, EntryInHand, Place
<1>3. ASSUME NEW s \in Source, Fail(s) PROVE Typed'
  <2>1. sources' \in [Source -> SourceStats]
    <3>. sources \in [Source -> SourceStats]
      BY DEF TypeOK
    <3>. QED
      BY <1>3 DEF Fail, SourceStats
  <2>. QED
    BY <1>3, <2>1 DEF Fail, Typed, TypeOK, EntryInHand, Place
<1>4. ASSUME NEW s \in Source, NEW frame \in Frames, NEW current \in BOOLEAN,
             Receive(s, frame, current)
      PROVE  Typed'
  <2>1. frame \in Seq(Entry)
    BY FramesAreSequences
  <2>. QED
    BY <1>4, <2>1 DEF Receive, Typed, TypeOK, EntryInHand, Place
<1>5. ASSUME NEW s \in Source, DropCopy(s) \/ LoseRace(s) \/ Reject(s) PROVE Typed'
  BY <1>5, TypeDropStep
<1>6. ASSUME NEW s \in Source, Accept(s) PROVE Typed'
  BY <1>6 DEF Accept, Typed, TypeOK, EntryInHand, Place
<1>7. ASSUME NEW s \in Source, Claim(s) PROVE Typed'
  BY <1>7, TypeClaimStep
<1>8. ASSUME NEW s \in Source, TakeReplace(s) PROVE Typed'
  BY <1>8 DEF TakeReplace, Typed, TypeOK, EntryInHand, Place
<1>9. ASSUME NEW s \in Source, Send(s) PROVE Typed'
  BY <1>9 DEF Send, Typed, TypeOK, EntryInHand, Place
<1>10. ASSUME NEW s \in Source, ReadOn(s) PROVE Typed'
  BY <1>10 DEF ReadOn, Typed, TypeOK, EntryInHand, Place
<1>11. ASSUME NEW s \in Source, ReplaceSlow(s) PROVE Typed'
  <2>1. sources' \in [Source -> SourceStats]
    <3>. sources \in [Source -> SourceStats]
      BY DEF TypeOK
    <3>1. [sources[s] EXCEPT !.replaced = @ + 1] \in SourceStats
      BY DEF SourceStats
    <3>. QED
      BY <1>11, <3>1 DEF ReplaceSlow
  <2>. QED
    BY <1>11, <2>1 DEF ReplaceSlow, Typed, TypeOK, EntryInHand, Place
<1>12. ASSUME NEW s \in Source, NEW aborted \in BOOLEAN, Stop(s, aborted) PROVE Typed'
  BY <1>12 DEF Stop, Typed, TypeOK, EntryInHand, Place
<1>13. CASE UNCHANGED vars
  BY <1>13 DEF vars, task, Typed, TypeOK, EntryInHand
<1>. QED
  BY <1>1, <1>2, <1>3, <1>4, <1>5, <1>6, <1>7, <1>8, <1>9, <1>10, <1>11, <1>12, <1>13
  DEF Next, Ingest

\* Every reachable state is well typed.
THEOREM TypeCorrect == Spec => []TypeOK
<1>1. Typed => TypeOK
  BY DEF Typed
<1>. QED
  BY TypeInit, TypeStep, <1>1, PTL DEF Spec

-----------------------------------------------------------------------------
(* The window and the history *)

\* A claimed entry: what a step of Claim means for the window and the history.
LEMMA ClaimedEntry ==
  ASSUME Typed, WindowInv, NEW s \in Source, Claim(s)
  PROVE  \E e \in Entry :
           /\ e.seq \in SeqNum
           /\ IsNew(e.seq, e.hash) \/ IsReorg(e.seq, e.hash)
           /\ Accepted(e)
           /\ highest_seq' = e.seq
           /\ DOMAIN seen' = Kept(DOMAIN seen \cup {e.seq}, e.seq)
           /\ \A k \in DOMAIN seen' : seen'[k] = IF k = e.seq THEN e.hash ELSE seen[k]
           /\ DOMAIN held' = DOMAIN held \cup {e.seq}
           /\ held' = Put(held, e.seq, e.hash)
           /\ latest' = [seq |-> e.seq, hash |-> e.hash,
                         reorg |-> IsReorg(e.seq, e.hash), good |-> e.good]
<1>. TypeOK /\ todo[s] # <<>>
  BY DEF Typed, EntryInHand, Claim
<1>. DEFINE e == Head(todo[s])
<1>1. e \in Entry /\ e.seq \in SeqNum /\ ~IsDuplicate(e.seq, e.hash)
  BY EntriesInHand, NumberOfNews DEF Claim
<1>. HIDE DEF e
<1>2. DOMAIN seen' = Kept(DOMAIN seen \cup {e.seq}, e.seq)
  BY DEF Claim, Remember, Restrict, Put, e
<1>3. Kept(DOMAIN seen \cup {e.seq}, e.seq) \subseteq DOMAIN seen \cup {e.seq}
  <2>. DEFINE all == DOMAIN seen \cup {e.seq}
  <2>1. all \in SUBSET SeqNum /\ e.seq \in all
    BY <1>1 DEF TypeOK
  <2>. QED
    BY <2>1, KeptNumbers
<1>4. \A k \in DOMAIN seen' : seen'[k] = IF k = e.seq THEN e.hash ELSE seen[k]
  BY <1>2, <1>3 DEF Claim, Remember, Restrict, Put, e
<1>5. DOMAIN held' = DOMAIN held \cup {e.seq}
  BY DEF Claim, Put, e
<1>6. IsNew(e.seq, e.hash) \/ IsReorg(e.seq, e.hash)
  BY <1>1 DEF IsDuplicate
<1>7. /\ Accepted(e)
      /\ highest_seq' = e.seq
      /\ held' = Put(held, e.seq, e.hash)
      /\ latest' = [seq |-> e.seq, hash |-> e.hash,
                    reorg |-> IsReorg(e.seq, e.hash), good |-> e.good]
  BY DEF Claim, MoveTo, e
<1>. QED
  BY <1>1, <1>2, <1>4, <1>5, <1>6, <1>7

LEMMA WindowInit == Init => WindowInv
BY DEF Init, WindowInv, WatermarkRemembered, WindowIsHistory, ForgottenIsBehind, Contract!Nothing

\* Nothing that was delivered and forgotten reaches up to the watermark.
LEMMA ForgottenBehindWatermark ==
  ASSUME WindowInv
  PROVE  \A n \in DOMAIN held \ DOMAIN seen : n < highest_seq
BY DEF WindowInv, WatermarkRemembered, ForgottenIsBehind

LEMMA WindowClaimStep ==
  ASSUME Typed, WindowInv, NEW s \in Source, Claim(s)
  PROVE  WindowInv'
<1>. TypeOK
  BY DEF Typed
<1>. PICK e \in Entry :
       /\ e.seq \in SeqNum
       /\ IsNew(e.seq, e.hash) \/ IsReorg(e.seq, e.hash)
       /\ highest_seq' = e.seq
       /\ DOMAIN seen' = Kept(DOMAIN seen \cup {e.seq}, e.seq)
       /\ \A k \in DOMAIN seen' : seen'[k] = IF k = e.seq THEN e.hash ELSE seen[k]
       /\ DOMAIN held' = DOMAIN held \cup {e.seq}
       /\ held' = Put(held, e.seq, e.hash)
       /\ latest' = [seq |-> e.seq, hash |-> e.hash,
                     reorg |-> IsReorg(e.seq, e.hash), good |-> e.good]
  BY ClaimedEntry
<1>. DEFINE all == DOMAIN seen \cup {e.seq}
<1>. all \in SUBSET SeqNum /\ e.seq \in Nat /\ highest_seq \in Int
  BY SeqNumAssumption DEF TypeOK, Number
<1>1. /\ DOMAIN seen' \subseteq all
      /\ e.seq \in DOMAIN seen'
      /\ \A lost \in all \ DOMAIN seen', k \in DOMAIN seen' : lost < k
  BY KeptNumbers
<1>2. WatermarkRemembered'
  BY <1>1 DEF WatermarkRemembered
<1>3. WindowIsHistory'
  BY <1>1 DEF WindowInv, WindowIsHistory, Put
<1>4. ASSUME NEW lost \in DOMAIN held' \ DOMAIN seen', NEW k \in DOMAIN seen'
      PROVE  lost < k
  <2>1. CASE lost \in all
    BY <1>1, <2>1
  <2>2. CASE lost \notin all
    <3>. lost \in DOMAIN held \ DOMAIN seen /\ lost \in Nat
      BY <2>2, SeqNumAssumption DEF TypeOK
    <3>1. CASE k \in DOMAIN seen
      BY <3>1 DEF WindowInv, ForgottenIsBehind
    <3>2. CASE k = e.seq /\ IsNew(e.seq, e.hash)
      BY <3>2, ForgottenBehindWatermark DEF IsNew
    <3>3. CASE k = e.seq /\ IsReorg(e.seq, e.hash)
      BY <3>1, <3>3 DEF IsReorg
    <3>. QED
      BY <1>1, <3>1, <3>2, <3>3
  <2>. QED
    BY <2>1, <2>2
<1>5. ForgottenIsBehind'
  BY <1>4 DEF ForgottenIsBehind
<1>. QED
  BY <1>2, <1>3, <1>5 DEF WindowInv

\* Every other step leaves the window and the history as they are.
LEMMA OnlyClaimMoves ==
  ASSUME [Next]_vars, \A s \in Source : ~Claim(s)
  PROVE  UNCHANGED <<highest_seq, seen, held, latest>>
BY DEF Next, Ingest, Dial, Connect, Fail, Receive, DropCopy, Accept, Reject, LoseRace,
       TakeReplace, Send, ReadOn, ReplaceSlow, Stop, vars, state, history

LEMMA WindowStep == Typed /\ WindowInv /\ [Next]_vars => WindowInv'
<1>. SUFFICES ASSUME Typed, WindowInv, [Next]_vars PROVE WindowInv'
  OBVIOUS
<1>1. CASE \E s \in Source : Claim(s)
  BY <1>1, WindowClaimStep
<1>2. CASE \A s \in Source : ~Claim(s)
  <2>1. UNCHANGED <<highest_seq, seen, held, latest>>
    BY <1>2, OnlyClaimMoves
  <2>. QED
    BY <2>1 DEF WindowInv, WatermarkRemembered, WindowIsHistory, ForgottenIsBehind
<1>. QED
  BY <1>1, <1>2

(***************************************************************************)
(* The watermark is always the last delivery and always remembered, and    *)
(* what the window forgot can never look new again.                        *)
(***************************************************************************)
THEOREM WindowCorrect == Spec => [](WatermarkRemembered /\ WindowIsHistory /\ ForgottenIsBehind)
<1>1. Typed /\ WindowInv => WatermarkRemembered /\ WindowIsHistory /\ ForgottenIsBehind
  BY DEF WindowInv
<1>. QED
  BY TypeInit, TypeStep, WindowInit, WindowStep, <1>1, PTL DEF Spec

\* What is remembered of a number is what was last delivered for it: however the
\* window forgets, it never remembers a block that was replaced since.
COROLLARY WindowAgrees == Spec => []WindowIsHistory
BY WindowCorrect, PTL

\* What was delivered and forgotten lies behind all that is remembered, so that no
\* rewind makes it look new again.
COROLLARY ForgottenStaysBehind == Spec => []ForgottenIsBehind
BY WindowCorrect, PTL

-----------------------------------------------------------------------------
(* How much the window holds *)

\* Forgetting does nothing, or drops all that is a window behind n.
LEMMA KeptCases ==
  ASSUME NEW numbers \in SUBSET SeqNum, NEW n \in numbers
  PROVE  \/ Cardinality(numbers) <= 2 * REORG_WINDOW /\ Kept(numbers, n) = numbers
         \/ Kept(numbers, n) = {k \in numbers : k > n - REORG_WINDOW}
         \/ Cardinality(numbers) \notin Nat
BY WindowAssumption DEF Kept

LEMMA BoundInit == Init => BoundInv
BY FS_EmptySet DEF Init, BoundInv

LEMMA BoundClaimStep ==
  ASSUME Typed, WindowInv, BoundInv, NEW s \in Source, Claim(s)
  PROVE  BoundInv'
<1>. TypeOK
  BY DEF Typed
<1>. PICK n \in SeqNum :
       /\ n \in DOMAIN seen \/ n > highest_seq
       /\ DOMAIN seen' = Kept(DOMAIN seen \cup {n}, n)
  BY ClaimedEntry DEF IsNew, IsReorg
<1>. DEFINE all == DOMAIN seen \cup {n}
<1>. /\ all \in SUBSET SeqNum /\ n \in Nat /\ all \subseteq Nat
     /\ REORG_WINDOW \in Nat \ {0} /\ highest_seq \in Int
  BY SeqNumAssumption, WindowAssumption DEF TypeOK, Number
<1>1. IsFiniteSet(DOMAIN seen) /\ IsFiniteSet(all) /\ Cardinality(all) \in Nat
  BY FS_AddElement, FS_CardinalityType DEF BoundInv
<1>2. DOMAIN seen' \subseteq all /\ n \in DOMAIN seen'
  BY KeptNumbers
<1>3. IsFiniteSet(DOMAIN seen')
  BY <1>1, <1>2, FS_Subset
<1>4. DOMAIN seen # {} => highest_seq \in DOMAIN seen
  BY SeqNumAssumption DEF WindowInv, WatermarkRemembered, WindowIsHistory
<1>5. CASE DOMAIN seen = {}
  <2>1. DOMAIN seen' = {n}
    BY <1>2, <1>5
  <2>2. Beyond(n)' = {}
    BY <2>1 DEF Beyond
  <2>3. Cardinality(Beyond(n)') = 0
    BY <2>2, FS_EmptySet
  <2>4. \A k \in DOMAIN seen' : n <= k
    BY <2>1
  <2>5. \E k \in DOMAIN seen' : k < n + REORG_WINDOW
    <3>1. n < n + REORG_WINDOW
      OBVIOUS
    <3>. QED
      BY <2>1, <3>1
  <2>6. 0 <= 2 * REORG_WINDOW - 1
    OBVIOUS
  <2>7. Bottom(n)'
    BY <2>3, <2>4, <2>5, <2>6 DEF Bottom
  <2>. QED
    BY <1>3, <2>7 DEF BoundInv
<1>6. CASE DOMAIN seen # {}
  <2>. PICK m \in Nat : Bottom(m)
    BY <1>6 DEF BoundInv
  <2>1. m <= n
    BY <1>4, <1>6 DEF Bottom
  <2>2. CASE Cardinality(all) <= 2 * REORG_WINDOW /\ DOMAIN seen' = all
    <3>. PICK low \in DOMAIN seen : low < m + REORG_WINDOW
      BY DEF Bottom
    <3>1. Beyond(m)' \subseteq all \ {low}
      BY <2>2 DEF Beyond
    <3>2. IsFiniteSet(all \ {low}) /\ Cardinality(all \ {low}) = Cardinality(all) - 1
      BY <1>1, FS_RemoveElement
    <3>3. Cardinality(Beyond(m)') <= Cardinality(all \ {low}) /\ Cardinality(Beyond(m)') \in Nat
      BY <3>1, <3>2, FS_Subset, FS_CardinalityType
    <3>4. Cardinality(Beyond(m)') <= 2 * REORG_WINDOW - 1
      BY <1>1, <2>2, <3>2, <3>3
    <3>5. Bottom(m)'
      BY <2>1, <2>2, <3>4 DEF Bottom
    <3>. QED
      BY <1>3, <3>5 DEF BoundInv
  <2>3. CASE DOMAIN seen' = {k \in all : k > n - REORG_WINDOW}
    <3>. DEFINE low == IF m > n - REORG_WINDOW THEN m ELSE n - REORG_WINDOW + 1
    <3>1. low \in Nat /\ m <= low /\ n < low + REORG_WINDOW
      BY <2>1
    <3>2. \A k \in DOMAIN seen' : low <= k
      BY <2>1, <2>3 DEF Bottom
    <3>. HIDE DEF low
    <3>3. Beyond(low)' \subseteq Beyond(m)
      BY <2>3, <3>1 DEF Beyond
    <3>4. IsFiniteSet(Beyond(m))
      BY <1>1, FS_Subset DEF Beyond
    <3>5. Cardinality(Beyond(low)') <= 2 * REORG_WINDOW - 1
      BY <3>3, <3>4, FS_Subset, FS_CardinalityType DEF Bottom
    <3>6. Bottom(low)'
      BY <1>2, <3>1, <3>2, <3>5 DEF Bottom
    <3>. QED
      BY <1>3, <3>1, <3>6 DEF BoundInv
  <2>. QED
    BY <1>1, <2>2, <2>3, KeptCases
<1>. QED
  BY <1>5, <1>6

LEMMA BoundStep == Typed /\ WindowInv /\ BoundInv /\ [Next]_vars => BoundInv'
<1>. SUFFICES ASSUME Typed, WindowInv, BoundInv, [Next]_vars PROVE BoundInv'
  OBVIOUS
<1>1. CASE \E s \in Source : Claim(s)
  BY <1>1, BoundClaimStep
<1>2. CASE \A s \in Source : ~Claim(s)
  BY <1>2, OnlyClaimMoves DEF BoundInv, Bottom, Beyond
<1>. QED
  BY <1>1, <1>2

\* Up to a window after m there is room for a window of numbers.
LEMMA BoundSuffices == Typed /\ BoundInv => WindowBounded
<1>. SUFFICES ASSUME Typed, BoundInv, DOMAIN seen # {} PROVE WindowBounded
  BY FS_EmptySet, WindowAssumption DEF WindowBounded
<1>. /\ REORG_WINDOW \in Nat \ {0} /\ IsFiniteSet(DOMAIN seen) /\ DOMAIN seen \subseteq Nat
  BY SeqNumAssumption, WindowAssumption DEF Typed, TypeOK, BoundInv
<1>. PICK m \in Nat : Bottom(m)
  BY DEF BoundInv
<1>. DEFINE top == m + REORG_WINDOW - 1
            near == m .. top
<1>1. DOMAIN seen \subseteq near \cup Beyond(m)
  BY DEF Beyond, Bottom
<1>2. IsFiniteSet(near) /\ Cardinality(near) = REORG_WINDOW
  <2>1. m \in Int /\ top \in Int /\ m <= top /\ top - m + 1 = REORG_WINDOW
    OBVIOUS
  <2>. HIDE DEF top
  <2>2. IsFiniteSet(m .. top) /\ Cardinality(m .. top) = IF m > top THEN 0 ELSE top - m + 1
    BY <2>1, FS_Interval
  <2>. QED
    BY <2>1, <2>2
<1>3. IsFiniteSet(Beyond(m)) /\ Cardinality(Beyond(m)) \in Nat
  BY FS_Subset, FS_CardinalityType DEF Beyond
<1>4. near \cap Beyond(m) = {}
  BY DEF Beyond
<1>5. /\ IsFiniteSet(near \cup Beyond(m))
      /\ Cardinality(near \cup Beyond(m)) = REORG_WINDOW + Cardinality(Beyond(m))
  <2>. HIDE DEF near
  <2>1. /\ IsFiniteSet(near \cup Beyond(m))
        /\ Cardinality(near \cup Beyond(m))
             = Cardinality(near) + Cardinality(Beyond(m)) - Cardinality(near \cap Beyond(m))
    BY <1>2, <1>3, FS_Union
  <2>2. Cardinality(near \cap Beyond(m)) = 0
    BY <1>4, FS_EmptySet
  <2>. QED
    BY <1>2, <1>3, <2>1, <2>2
<1>6. /\ Cardinality(DOMAIN seen) <= Cardinality(near \cup Beyond(m))
      /\ Cardinality(DOMAIN seen) \in Nat
  BY <1>1, <1>5, FS_Subset, FS_CardinalityType
<1>. QED
  BY <1>3, <1>5, <1>6 DEF WindowBounded, Bottom

(***************************************************************************)
(* The window never holds three windows' worth of numbers, whatever gaps   *)
(* and rewinds arrive.                                                     *)
(***************************************************************************)
THEOREM BoundCorrect == Spec => []WindowBounded
BY TypeInit, TypeStep, WindowInit, WindowStep, BoundInit, BoundStep, BoundSuffices, PTL DEF Spec

-----------------------------------------------------------------------------
(* Dedup implements Delivery *)

LEMMA DeliveryInit == Init => Contract!Init
BY DEF Init, Contract!Init

LEMMA DeliveryStep == Typed /\ WindowInv /\ [Next]_vars => [Contract!Next]_(Contract!vars)
<1>. SUFFICES ASSUME Typed, WindowInv, [Next]_vars PROVE [Contract!Next]_(Contract!vars)
  OBVIOUS
<1>. TypeOK
  BY DEF Typed
<1>1. ASSUME NEW s \in Source, Claim(s) PROVE Contract!Next
  <2>. PICK e \in Entry :
         /\ e.seq \in SeqNum
         /\ IsNew(e.seq, e.hash) \/ IsReorg(e.seq, e.hash)
         /\ Accepted(e)
         /\ held' = Put(held, e.seq, e.hash)
         /\ latest' = [seq |-> e.seq, hash |-> e.hash,
                       reorg |-> IsReorg(e.seq, e.hash), good |-> e.good]
    BY <1>1, ClaimedEntry
  <2>. e.seq \in Nat /\ highest_seq \in Int /\ latest.seq = highest_seq
    BY SeqNumAssumption DEF TypeOK, Number, WindowInv, WatermarkRemembered
  <2>1. IF e.seq \in DOMAIN held THEN Changed(held[e.seq], e.hash) ELSE e.seq > latest.seq
    <3>1. CASE e.seq \in DOMAIN seen
      BY <3>1 DEF IsNew, IsReorg, WindowInv, WindowIsHistory
    <3>2. CASE e.seq \notin DOMAIN seen
      BY <3>2, ForgottenBehindWatermark, SeqNumAssumption DEF IsNew, IsReorg, TypeOK
    <3>. QED
      BY <3>1, <3>2
  <2>2. IsReorg(e.seq, e.hash) = (e.seq <= latest.seq)
    BY DEF IsNew, IsReorg, Changed
  <2>3. Contract!Deliver(e.seq, e.hash, e.good)
    BY <2>1, <2>2 DEF Contract!Deliver, Contract!Changed, Changed, Accepted, Put
  <2>4. e.hash \in Hash \cup {NoHash} /\ e.good \in BOOLEAN
    BY FlagAssumption DEF Entry, Hashes, Signature
  <2>. QED
    BY <2>3, <2>4 DEF Contract!Next
<1>2. CASE \A s \in Source : ~Claim(s)
  BY <1>2, OnlyClaimMoves DEF Contract!vars
<1>. QED
  BY <1>1, <1>2

(***************************************************************************)
(* However many sources race and whatever they send, the feed delivers a   *)
(* number again only with another block, marks exactly the rewinds, and,   *)
(* with a verifier, delivers signed messages only: the bounded window is   *)
(* as good as one that never forgets.                                      *)
(***************************************************************************)
THEOREM Refinement == Spec => ImplementsDelivery
BY TypeInit, TypeStep, WindowInit, WindowStep, DeliveryInit, DeliveryStep, PTL
   DEF Spec, ImplementsDelivery, Contract!Spec

-----------------------------------------------------------------------------
(* Reconnects *)

\* Messages are only ever added to the history.
LEMMA HeldGrows ==
  ASSUME Typed, WindowInv, [Next]_vars
  PROVE  DOMAIN held \subseteq DOMAIN held'
<1>1. CASE \E s \in Source : Claim(s)
  BY <1>1, ClaimedEntry
<1>2. CASE \A s \in Source : ~Claim(s)
  BY <1>2, OnlyClaimMoves
<1>. QED
  BY <1>1, <1>2

LEMMA AskedStep ==
  Typed /\ WindowInv /\ AskedWasDelivered /\ [Next]_vars => AskedWasDelivered'
<1>. SUFFICES ASSUME Typed, WindowInv, AskedWasDelivered, [Next]_vars
              PROVE  AskedWasDelivered'
  OBVIOUS
<1>1. DOMAIN held \subseteq DOMAIN held'
  BY HeldGrows
<1>2. CASE \E s \in Source : Dial(s)
  <2>. PICK s \in Source : Dial(s)
    BY <1>2
  <2>1. highest_seq = -1 \/ highest_seq \in DOMAIN held
    BY DEF WindowInv, WatermarkRemembered, WindowIsHistory
  <2>. QED
    BY <1>1, <2>1 DEF Dial, AskedWasDelivered, Typed, TypeOK
<1>3. CASE \A s \in Source : ~Dial(s)
  <2>1. asked' = asked
    BY <1>3 DEF Next, Ingest, Connect, Fail, Receive, DropCopy, Accept, Reject, LoseRace, Claim,
                TakeReplace, Send, ReadOn, ReplaceSlow, Stop, vars, task
  <2>. QED
    BY <1>1, <2>1 DEF AskedWasDelivered
<1>. QED
  BY <1>2, <1>3

(***************************************************************************)
(* A reconnect only ever asks a server for a number that was delivered,    *)
(* hence, with a verifier, for one that was signed.                        *)
(***************************************************************************)
THEOREM AskedCorrect == Spec => []AskedWasDelivered
<1>1. Init => AskedWasDelivered
  BY DEF Init, AskedWasDelivered
<1>. QED
  BY TypeInit, TypeStep, WindowInit, WindowStep, AskedStep, <1>1, PTL DEF Spec

\* Counting one more message in the window adds at most one to what is spent.
LEMMA CheckSlowSpends ==
  ASSUME TypeOK, NEW s \in Source, NEW w \in Window, CheckSlow(s, w),
         w.first + w.late = recent[s].first + recent[s].late + 1
  PROVE  SLOW_WINDOW * Bit(replace'[s]) + recent'[s].first + recent'[s].late
           <= SLOW_WINDOW * Bit(replace[s]) + recent[s].first + recent[s].late + 1
<1>. /\ recent[s] \in Window /\ replace[s] \in BOOLEAN /\ SLOW_WINDOW \in Nat
     /\ recent \in [Source -> Window] /\ replace \in [Source -> BOOLEAN]
  BY SlowAssumption DEF TypeOK
<1>. recent[s].first \in Nat /\ recent[s].late \in Nat /\ w.first \in Nat /\ w.late \in Nat
  BY DEF Window
<1>1. CASE w.first + w.late >= SLOW_WINDOW
  <2>1. recent'[s].first = 0 /\ recent'[s].late = 0
    BY <1>1 DEF CheckSlow, NewWindow
  <2>2. SLOW_WINDOW * Bit(replace'[s]) \in 0 .. SLOW_WINDOW
    BY DEF Bit
  <2>3. SLOW_WINDOW * Bit(replace[s]) \in Nat
    BY DEF Bit
  <2>. QED
    BY <1>1, <2>1, <2>2, <2>3
<1>2. CASE ~(w.first + w.late >= SLOW_WINDOW)
  <2>1. recent'[s] = w /\ replace'[s] = replace[s]
    BY <1>2 DEF CheckSlow
  <2>2. SLOW_WINDOW * Bit(replace[s]) \in Nat
    BY DEF Bit
  <2>. QED
    BY <2>1, <2>2
<1>. QED
  BY <1>1, <1>2

\* Spent, multiplied out.
LEMMA SpentSum ==
  ASSUME TypeOK, NEW s \in Source
  PROVE  /\ SLOW_WINDOW * sources[s].replaced \in Nat
         /\ SLOW_WINDOW * Bit(replace[s]) \in Nat
         /\ SLOW_WINDOW * Bit(pc[s] = "sending" /\ slow[s]) \in 0 .. SLOW_WINDOW
         /\ Spent(s) = SLOW_WINDOW * sources[s].replaced + SLOW_WINDOW * Bit(replace[s])
                       + SLOW_WINDOW * Bit(pc[s] = "sending" /\ slow[s])
                       + recent[s].first + recent[s].late
<1>1. /\ sources[s].replaced \in Nat /\ SLOW_WINDOW \in Nat
      /\ recent[s].first \in Nat /\ recent[s].late \in Nat
      /\ Bit(replace[s]) \in Nat /\ Bit(pc[s] = "sending" /\ slow[s]) \in {0, 1}
  BY SlowAssumption DEF TypeOK, SourceStats, Window, Bit
<1>2. \A x, y, z \in Nat :
        /\ SLOW_WINDOW * x \in Nat
        /\ SLOW_WINDOW * (x + (y + z)) = SLOW_WINDOW * x + SLOW_WINDOW * y + SLOW_WINDOW * z
  BY <1>1
<1>. QED
  BY <1>1, <1>2 DEF Spent

\* Source s counts one live message.
LEMMA CountStep ==
  ASSUME Typed, Typed', NEW s \in Source, Spent(s) <= sources[s].first + sources[s].late,
         pc[s] # "sending", pc'[s] # "sending",
         NEW w \in Window, CheckSlow(s, w),
         w.first + w.late = recent[s].first + recent[s].late + 1,
         sources'[s].first + sources'[s].late = sources[s].first + sources[s].late + 1,
         sources'[s].replaced = sources[s].replaced
  PROVE  Spent(s)' <= sources'[s].first + sources'[s].late
<1>1. Spent(s) = SLOW_WINDOW * sources[s].replaced + SLOW_WINDOW * Bit(replace[s])
                 + recent[s].first + recent[s].late
  BY SpentSum, SlowAssumption DEF Bit, Typed
<1>2. Spent(s)' = SLOW_WINDOW * sources[s].replaced + SLOW_WINDOW * Bit(replace'[s])
                  + recent'[s].first + recent'[s].late
  <2>1. TypeOK' /\ SLOW_WINDOW \in Nat
    BY SlowAssumption DEF Typed
  <2>2. sources[s].replaced \in Nat /\ recent'[s].first \in Nat /\ recent'[s].late \in Nat
        /\ replace'[s] \in BOOLEAN
    BY <2>1 DEF Typed, TypeOK, SourceStats, Window
  <2>3. Spent(s)' = SLOW_WINDOW * (sources[s].replaced + (Bit(replace'[s]) + 0))
                    + recent'[s].first + recent'[s].late
    BY DEF Spent, Bit
  <2>. QED
    BY <2>1, <2>2, <2>3 DEF Bit
<1>3. SLOW_WINDOW * Bit(replace'[s]) + recent'[s].first + recent'[s].late
        <= SLOW_WINDOW * Bit(replace[s]) + recent[s].first + recent[s].late + 1
  BY CheckSlowSpends DEF Typed
<1>4. /\ SLOW_WINDOW * sources[s].replaced \in Nat
      /\ SLOW_WINDOW * Bit(replace[s]) \in Nat /\ SLOW_WINDOW * Bit(replace'[s]) \in Nat
      /\ recent[s].first \in Nat /\ recent[s].late \in Nat
      /\ recent'[s].first \in Nat /\ recent'[s].late \in Nat
      /\ sources[s].first \in Nat /\ sources[s].late \in Nat
  <2>1. /\ sources[s].replaced \in Nat /\ Bit(replace[s]) \in Nat /\ Bit(replace'[s]) \in Nat
        /\ recent[s] \in Window /\ recent'[s] \in Window /\ sources[s] \in SourceStats
    BY DEF Typed, TypeOK, SourceStats, Bit
  <2>2. \A x \in Nat : SLOW_WINDOW * x \in Nat
    BY SlowAssumption
  <2>. QED
    BY <2>1, <2>2 DEF Window, SourceStats
<1>. QED
  BY <1>1, <1>2, <1>3, <1>4

\* Source s takes no message into account and asks for nothing new.
LEMMA IdleStep ==
  ASSUME Typed, Typed', NEW s \in Source, Spent(s) <= sources[s].first + sources[s].late,
         recent'[s] = recent[s], replace'[s] = replace[s],
         pc'[s] = "sending" /\ slow'[s] => pc[s] = "sending" /\ slow[s],
         sources'[s].first >= sources[s].first, sources'[s].late >= sources[s].late,
         sources'[s].replaced = sources[s].replaced
  PROVE  Spent(s)' <= sources'[s].first + sources'[s].late
<1>. DEFINE before == Bit(pc[s] = "sending" /\ slow[s])
            after == Bit(pc'[s] = "sending" /\ slow'[s])
            rest == SLOW_WINDOW * (sources[s].replaced + Bit(replace[s])) 
                    + recent[s].first + recent[s].late
<1>1. before \in {0, 1} /\ after \in {0, 1} /\ after <= before
  BY DEF Bit
<1>2. /\ sources[s].replaced \in Nat /\ Bit(replace[s]) \in Nat /\ SLOW_WINDOW \in Nat
      /\ recent[s] \in Window /\ sources[s] \in SourceStats /\ sources'[s] \in SourceStats
  BY SlowAssumption DEF Typed, TypeOK, SourceStats, Bit
<1>3. Spent(s) = rest + SLOW_WINDOW * before /\ Spent(s)' = rest + SLOW_WINDOW * after
  <2>1. \A x, y, z \in Nat : SLOW_WINDOW * (x + (y + z)) = SLOW_WINDOW * (x + y) + SLOW_WINDOW * z
    BY <1>2
  <2>2. Spent(s) = SLOW_WINDOW * (sources[s].replaced + (Bit(replace[s]) + before))
                   + recent[s].first + recent[s].late
    BY DEF Spent
  <2>3. Spent(s)' = SLOW_WINDOW * (sources[s].replaced + (Bit(replace[s]) + after))
                    + recent[s].first + recent[s].late
    BY DEF Spent
  <2>4. \A x \in Nat : SLOW_WINDOW * x \in Nat
    BY <1>2
  <2>. HIDE DEF before, after
  <2>. QED
    BY <1>1, <1>2, <2>1, <2>2, <2>3, <2>4 DEF Window
<1>4. SLOW_WINDOW * after <= SLOW_WINDOW * before
  <2>. HIDE DEF before, after
  <2>. QED
    BY <1>1, <1>2
<1>5. rest \in Nat /\ SLOW_WINDOW * after \in Nat /\ SLOW_WINDOW * before \in Nat
  <2>1. \A x \in Nat : SLOW_WINDOW * x \in Nat
    BY <1>2
  <2>. HIDE DEF before, after
  <2>. QED
    BY <1>1, <1>2, <2>1 DEF Window
<1>. HIDE DEF rest, before, after
<1>. QED
  BY <1>2, <1>3, <1>4, <1>5 DEF SourceStats

\* A step moves one source at most; for the others nothing changes.
LEMMA LateCopySpends ==
  ASSUME Typed, Typed', SlowInv, NEW s \in Source, NEW n \in Number, LateCopy(s, n),
         pc[s] # "sending", pc'[s] # "sending",
         \A t \in Source \ {s} : pc'[t] = pc[t], UNCHANGED slow
  PROVE  NoReconnectStorm'
<1>. TypeOK
  BY DEF Typed
<1>. SUFFICES ASSUME NEW t \in Source PROVE Spent(t)' <= sources'[t].first + sources'[t].late
  BY DEF NoReconnectStorm
<1>0. Spent(t) <= sources[t].first + sources[t].late
  BY DEF SlowInv, NoReconnectStorm
<1>. sources[t] \in SourceStats /\ sources \in [Source -> SourceStats]
  BY DEF TypeOK
<1>1. CASE live[s] /\ n \in DOMAIN seen /\ t = s
  <2>. DEFINE w == [recent[s] EXCEPT !.late = @ + 1]
  <2>. recent[s] \in Window
    BY DEF TypeOK
  <2>1. w \in Window /\ w.first + w.late = recent[s].first + recent[s].late + 1
    BY DEF Window
  <2>2. /\ sources'[s].first + sources'[s].late = sources[s].first + sources[s].late + 1
        /\ sources'[s].replaced = sources[s].replaced
    BY <1>1 DEF LateCopy, SourceStats
  <2>3. CheckSlow(s, w)
    BY <1>1 DEF LateCopy
  <2>. QED
    BY <1>0, <1>1, <2>1, <2>2, <2>3, CountStep
<1>2. CASE ~(live[s] /\ n \in DOMAIN seen) \/ t # s
  <2>1. recent'[t] = recent[t] /\ replace'[t] = replace[t] /\ sources'[t] = sources[t]
    BY <1>2 DEF LateCopy, CheckSlow, TypeOK
  <2>2. pc'[t] = "sending" /\ slow'[t] => pc[t] = "sending" /\ slow[t]
    OBVIOUS
  <2>3. sources'[t].first >= sources[t].first /\ sources'[t].late >= sources[t].late
    BY <2>1 DEF SourceStats
  <2>. QED
    BY <1>0, <2>1, <2>2, <2>3, IdleStep
<1>. QED
  BY <1>1, <1>2

LEMMA ClaimSpends ==
  ASSUME Typed, Typed', SlowInv, NEW s \in Source, Claim(s)
  PROVE  NoReconnectStorm'
<1>. TypeOK
  BY DEF Typed
<1>. SUFFICES ASSUME NEW t \in Source PROVE Spent(t)' <= sources'[t].first + sources'[t].late
  BY DEF NoReconnectStorm
<1>. PICK reorg : CountFirst(s, reorg)
  BY DEF Claim
<1>0. /\ Spent(t) <= sources[t].first + sources[t].late
      /\ pc[s] # "sending" /\ pc'[s] # "sending" /\ \A u \in Source \ {s} : pc'[u] = pc[u]
      /\ UNCHANGED slow
  BY DEF SlowInv, NoReconnectStorm, Claim, TypeOK
<1>. sources[t] \in SourceStats /\ sources \in [Source -> SourceStats]
  BY DEF TypeOK
<1>1. CASE live[s] /\ t = s
  <2>. DEFINE w == [recent[s] EXCEPT !.first = @ + 1]
  <2>. recent[s] \in Window
    BY DEF TypeOK
  <2>1. w \in Window /\ w.first + w.late = recent[s].first + recent[s].late + 1
    BY DEF Window
  <2>2. /\ sources'[s].first + sources'[s].late = sources[s].first + sources[s].late + 1
        /\ sources'[s].replaced = sources[s].replaced
    BY <1>1 DEF CountFirst, SourceStats
  <2>3. CheckSlow(s, w)
    BY <1>1 DEF CountFirst
  <2>. QED
    BY <1>0, <1>1, <2>1, <2>2, <2>3, CountStep
<1>2. CASE ~live[s] \/ t # s
  <2>1. recent'[t] = recent[t] /\ replace'[t] = replace[t]
    BY <1>2 DEF CountFirst, CheckSlow, TypeOK
  <2>2. pc'[t] = "sending" /\ slow'[t] => pc[t] = "sending" /\ slow[t]
    BY <1>0
  <2>3. /\ sources'[t].first >= sources[t].first /\ sources'[t].late >= sources[t].late
        /\ sources'[t].replaced = sources[t].replaced
    BY DEF CountFirst, SourceStats
  <2>. QED
    BY <1>0, <2>1, <2>2, <2>3, IdleStep
<1>. QED
  BY <1>1, <1>2

\* The frame of s is done: its request is taken, not forgotten.
LEMMA TakeReplaceSpends ==
  ASSUME Typed, Typed', SlowInv, NEW s \in Source, TakeReplace(s)
  PROVE  NoReconnectStorm'
<1>. TypeOK /\ TypeOK'
  BY DEF Typed
<1>. SUFFICES ASSUME NEW t \in Source PROVE Spent(t)' <= sources'[t].first + sources'[t].late
  BY DEF NoReconnectStorm
<1>0. Spent(t) <= sources[t].first + sources[t].late
  BY DEF SlowInv, NoReconnectStorm
<1>1. UNCHANGED <<recent, sources>>
  BY DEF TakeReplace
<1>2. CASE t = s
  <2>1. Bit(replace[s]) + Bit(pc[s] = "sending" /\ slow[s])
          = Bit(replace'[s]) + Bit(pc'[s] = "sending" /\ slow'[s])
    BY DEF TakeReplace, TypeOK, Bit
  <2>. QED
    BY <1>0, <1>1, <1>2, <2>1 DEF Spent
<1>3. CASE t # s
  BY <1>0, <1>1, <1>3 DEF TakeReplace, TypeOK, Spent
<1>. QED
  BY <1>2, <1>3

\* The slow connection of s is replaced: the request is spent.
LEMMA ReplaceSlowSpends ==
  ASSUME Typed, Typed', SlowInv, NEW s \in Source, ReplaceSlow(s)
  PROVE  NoReconnectStorm'
<1>. TypeOK /\ TypeOK'
  BY DEF Typed
<1>. SUFFICES ASSUME NEW t \in Source PROVE Spent(t)' <= sources'[t].first + sources'[t].late
  BY DEF NoReconnectStorm
<1>0. Spent(t) <= sources[t].first + sources[t].late
  BY DEF SlowInv, NoReconnectStorm
<1>1. UNCHANGED <<recent, replace, slow>>
  BY DEF ReplaceSlow
<1>. sources[t] \in SourceStats /\ sources \in [Source -> SourceStats]
  BY DEF TypeOK
<1>2. CASE t = s
  <2>1. /\ sources'[s].replaced = sources[s].replaced + 1
        /\ sources'[s].first = sources[s].first /\ sources'[s].late = sources[s].late
    BY <1>2 DEF ReplaceSlow, SourceStats
  <2>2. /\ Bit(pc[s] = "sending" /\ slow[s]) = 1
        /\ Bit(pc'[s] = "sending" /\ slow'[s]) = 0
        /\ Bit(replace'[s]) = Bit(replace[s]) /\ Bit(replace[s]) \in Nat
    BY DEF ReplaceSlow, TypeOK, Bit
  <2>3. sources[s].replaced + (Bit(replace[s]) + 1) = sources'[s].replaced + (Bit(replace[s]) + 0)
    BY <1>2, <2>1, <2>2 DEF SourceStats
  <2>. QED
    BY <1>0, <1>1, <1>2, <2>1, <2>2, <2>3 DEF Spent
<1>3. CASE t # s
  BY <1>0, <1>1, <1>3 DEF ReplaceSlow, TypeOK, Spent
<1>. QED
  BY <1>2, <1>3

LEMMA SlowStep == Typed /\ SlowInv /\ [Next]_vars => SlowInv'
<1>. SUFFICES ASSUME Typed, SlowInv, [Next]_vars PROVE SlowInv'
  OBVIOUS
<1>. Typed' /\ TypeOK
  BY TypeStep DEF Typed
<1>1. ReplaceWithinFrame'
  <2>1. ASSUME NEW s \in Source, Ingest(s) PROVE ReplaceWithinFrame'
    <3>1. \/ pc'[s] \in {"checking", "accepting"}
          \/ pc'[s] = "sending" /\ replace'[s] = FALSE
      BY <2>1 DEF Ingest, DropCopy, Accept, Reject, LoseRace, Claim, TakeReplace, TypeOK
    <3>2. ASSUME NEW t \in Source, t # s PROVE pc'[t] = pc[t] /\ replace'[t] = replace[t]
      <4>1. pc'[t] = pc[t]
        BY <2>1, <3>2 DEF Ingest, DropCopy, Accept, Reject, LoseRace, Claim, TakeReplace, TypeOK
      <4>2. CASE DropCopy(s) \/ LoseRace(s) \/ Claim(s)
        BY <3>2, <4>1, <4>2 DEF DropCopy, LoseRace, Claim, LateCopy, CountFirst, CheckSlow, TypeOK
      <4>3. CASE Accept(s) \/ Reject(s) \/ TakeReplace(s)
        BY <3>2, <4>1, <4>3 DEF Accept, Reject, TakeReplace, TypeOK, state
      <4>. QED
        BY <2>1, <4>2, <4>3 DEF Ingest
    <3>. QED
      BY <3>1, <3>2 DEF SlowInv, ReplaceWithinFrame
  <2>2. CASE \A s \in Source : ~Ingest(s)
    BY <2>2 DEF Next, Dial, Connect, Fail, Receive, Send, ReadOn, ReplaceSlow, Stop, TypeOK,
         SlowInv, ReplaceWithinFrame, state, task, vars
  <2>. QED
    BY <2>1, <2>2
<1>2. NoReconnectStorm'
  <2>1. ASSUME NEW s \in Source, DropCopy(s) \/ LoseRace(s) PROVE NoReconnectStorm'
    <3>1. todo[s] # <<>>
      BY <2>1 DEF DropCopy, LoseRace, Typed, EntryInHand
    <3>2. Head(todo[s]).seq \in Number /\ LateCopy(s, Head(todo[s]).seq)
      BY <2>1, <3>1, EntriesInHand DEF DropCopy, LoseRace, Entry
    <3>3. /\ pc[s] # "sending" /\ pc'[s] # "sending"
          /\ \A t \in Source \ {s} : pc'[t] = pc[t]
          /\ UNCHANGED slow
      BY <2>1 DEF DropCopy, LoseRace, TypeOK
    <3>. QED
      BY <3>2, <3>3, LateCopySpends
  <2>2. ASSUME NEW s \in Source, Claim(s) PROVE NoReconnectStorm'
    BY <2>2, ClaimSpends
  <2>3. ASSUME NEW s \in Source, TakeReplace(s) PROVE NoReconnectStorm'
    BY <2>3, TakeReplaceSpends
  <2>4. ASSUME NEW s \in Source, ReplaceSlow(s) PROVE NoReconnectStorm'
    BY <2>4, ReplaceSlowSpends
  <2>5. CASE /\ UNCHANGED <<recent, replace>>
             /\ \A t \in Source : /\ pc'[t] = "sending" /\ slow'[t] => pc[t] = "sending" /\ slow[t]
                                  /\ sources'[t].first = sources[t].first
                                  /\ sources'[t].late = sources[t].late
                                  /\ sources'[t].replaced = sources[t].replaced
    <3>. SUFFICES ASSUME NEW t \in Source
                  PROVE  Spent(t)' <= sources'[t].first + sources'[t].late
      BY DEF NoReconnectStorm
    <3>1. sources[t].first \in Nat /\ sources[t].late \in Nat
      BY DEF TypeOK, SourceStats
    <3>. QED
      BY <2>5, <3>1, IdleStep DEF SlowInv, NoReconnectStorm
  <2>6. ASSUME NEW s \in Source, Fail(s) PROVE NoReconnectStorm'
    <3>. sources \in [Source -> SourceStats]
      BY DEF TypeOK
    <3>1. \A t \in Source : /\ sources'[t].first = sources[t].first
                            /\ sources'[t].late = sources[t].late
                            /\ sources'[t].replaced = sources[t].replaced
      BY <2>6 DEF Fail, SourceStats
    <3>2. UNCHANGED <<recent, replace>> /\ \A t \in Source : pc'[t] = "sending" => pc[t] = "sending"
      BY <2>6 DEF Fail, TypeOK
    <3>3. UNCHANGED slow
      BY <2>6 DEF Fail
    <3>. QED
      BY <2>5, <3>1, <3>2, <3>3
  <2>7. CASE /\ UNCHANGED <<recent, replace, sources>>
             /\ \A t \in Source : pc'[t] = "sending" /\ slow'[t] => pc[t] = "sending" /\ slow[t]
    BY <2>5, <2>7
  <2>8. ASSUME NEW s \in Source,
               \/ Dial(s) \/ Connect(s) \/ Accept(s) \/ Reject(s) \/ Send(s) \/ ReadOn(s)
               \/ \E frame \in Frames, current \in BOOLEAN : Receive(s, frame, current)
               \/ \E aborted \in BOOLEAN : Stop(s, aborted)
        PROVE  NoReconnectStorm'
    <3>1. UNCHANGED <<recent, replace, sources>>
      BY <2>8 DEF Dial, Connect, Accept, Reject, Send, ReadOn, Receive, Stop, state
    <3>2. \A t \in Source : pc'[t] = "sending" /\ slow'[t] => pc[t] = "sending" /\ slow[t]
      BY <2>8 DEF Dial, Connect, Accept, Reject, Send, ReadOn, Receive, Stop, TypeOK
    <3>. QED
      BY <2>7, <3>1, <3>2
  <2>9. CASE UNCHANGED vars
    BY <2>7, <2>9 DEF vars, state, task
  <2>. QED
    BY <2>1, <2>2, <2>3, <2>4, <2>6, <2>8, <2>9 DEF Next, Ingest
<1>. QED
  BY <1>1, <1>2 DEF SlowInv

(***************************************************************************)
(* A source never has its connection replaced more often than once per     *)
(* SLOW_WINDOW live messages, and a request never outlives its frame.      *)
(***************************************************************************)
THEOREM NoStorm == Spec => [](ReplaceWithinFrame /\ NoReconnectStorm)
<1>1. Init => SlowInv
  <2>. SUFFICES ASSUME Init, NEW s \in Source PROVE Spent(s) <= sources[s].first + sources[s].late
    BY DEF Init, SlowInv, ReplaceWithinFrame, NoReconnectStorm
  <2>1. Bit(replace[s]) + Bit(pc[s] = "sending" /\ slow[s]) = 0
    BY DEF Init, Bit
  <2>2. /\ sources[s].replaced = 0 /\ sources[s].first = 0 /\ sources[s].late = 0
        /\ recent[s].first = 0 /\ recent[s].late = 0
    BY DEF Init, NewWindow
  <2>3. SLOW_WINDOW * (0 + 0) = 0
    BY SlowAssumption
  <2>. QED
    BY <2>1, <2>2, <2>3 DEF Spent
<1>2. SlowInv => ReplaceWithinFrame /\ NoReconnectStorm
  BY DEF SlowInv
<1>. QED
  BY TypeInit, TypeStep, SlowStep, <1>1, <1>2, PTL DEF Spec

\* A request for a new connection is taken up by the frame that caused it and never
\* hits the connection after.
COROLLARY ReplaceTakenInFrame == Spec => []ReplaceWithinFrame
BY NoStorm, PTL

-----------------------------------------------------------------------------
(* Sums over a finite set *)

Total(f) == FoldFunction(LAMBDA a, b : a + b, 0, f)

\* A non-empty set of naturals has a least one.
LEMMA Least ==
  ASSUME NEW T, T \subseteq Nat, T # {}
  PROVE  \E n \in T : \A m \in T : n <= m
<1>. DEFINE R == OpToRel(<, Nat)
<1>1. IsWellFoundedOn(R, Nat)
  BY NatLessThanWellFounded
<1>2. \A m, n \in Nat : <<m, n>> \in R <=> m < n
  BY DEF OpToRel
<1>. HIDE DEF R
<1>3. PICK n \in T : \A m \in T : ~(<<m, n>> \in R)
  BY <1>1, WFMin
<1>4. \A m \in T : ~(m < n)
  BY <1>2, <1>3
<1>5. \A m \in T : n <= m
  BY <1>4
<1>. QED
  BY <1>5

Chosen(s) == CHOOSE x \in s : TRUE

\* iter has the sum of f over each set of SS.
Sums(iter, f, SS) == iter = [s \in SS |-> IF s = {} THEN 0 ELSE f[Chosen(s)] + iter[s \ {Chosen(s)}]]

LEMMA TotalSums ==
  ASSUME NEW f
  PROVE  Total(f) = (CHOOSE iter : Sums(iter, f, SUBSET DOMAIN f))[DOMAIN f]
BY DEF Total, FoldFunction, FoldFunctionOnSet, MapThenFoldSet, Sums, Chosen

\* Taking an element from a set leaves a smaller one.
LEMMA Smaller ==
  ASSUME NEW S, IsFiniteSet(S), NEW s \in SUBSET S, s # {}
  PROVE  /\ Chosen(s) \in s /\ s \ {Chosen(s)} \in SUBSET S
         /\ Cardinality(s) \in Nat \ {0} /\ Cardinality(s \ {Chosen(s)}) = Cardinality(s) - 1
<1>1. Chosen(s) \in s
  BY DEF Chosen
<1>2. IsFiniteSet(s)
  BY FS_Subset
<1>3. Cardinality(s) \in Nat /\ (Cardinality(s) = 0 <=> s = {})
  BY <1>2, FS_CardinalityType, FS_EmptySet
<1>4. Cardinality(s \ {Chosen(s)}) = Cardinality(s) - 1
  BY <1>1, <1>2, FS_RemoveElement
<1>. QED
  BY <1>1, <1>3, <1>4

\* There is such a function: one for sets of up to n elements gives one for n + 1.
LEMMA SumExists ==
  ASSUME NEW f, NEW S, IsFiniteSet(S)
  PROVE  \E iter : Sums(iter, f, SUBSET S)
<1>. DEFINE Small(n) == {s \in SUBSET S : Cardinality(s) <= n}
            Bad == {n \in Nat : ~\E iter : Sums(iter, f, Small(n))}
<1>1. Cardinality(S) \in Nat /\ Small(Cardinality(S)) = SUBSET S
  <2>1. \A s \in SUBSET S : Cardinality(s) <= Cardinality(S)
    BY FS_Subset
  <2>. QED
    BY <2>1, FS_CardinalityType
<1>2. SUFFICES ASSUME Bad # {} PROVE FALSE
  BY <1>1
<1>3. PICK n \in Bad : \A m \in Bad : n <= m
  BY <1>2, Least
<1>4. n \in Nat /\ ~\E iter : Sums(iter, f, Small(n))
  BY <1>3
<1>5. n # 0
  <2>. DEFINE g == [s \in Small(0) |-> 0]
  <2>1. ASSUME NEW s \in SUBSET S, Cardinality(s) <= 0, s # {} PROVE FALSE
    <3>1. Cardinality(s) \in Nat \ {0}
      BY <2>1, Smaller
    <3>. QED
      BY <2>1, <3>1
  <2>2. Sums(g, f, Small(0))
    BY <2>1 DEF Sums
  <2>. QED
    BY <1>4, <2>2
<1>6. n - 1 \in Nat /\ n - 1 \notin Bad
  <2>1. n - 1 \in Nat
    BY <1>4, <1>5
  <2>2. ~(n <= n - 1)
    BY <1>4
  <2>. QED
    BY <1>3, <2>1, <2>2
<1>7. PICK g : Sums(g, f, Small(n - 1))
  BY <1>6
<1>. DEFINE h == [s \in Small(n) |-> IF s = {} THEN 0 ELSE f[Chosen(s)] + g[s \ {Chosen(s)}]]
<1>8. \A s \in Small(n) : s # {} => s \ {Chosen(s)} \in Small(n - 1)
  <2>. SUFFICES ASSUME NEW s \in SUBSET S, Cardinality(s) <= n, s # {}
                PROVE  s \ {Chosen(s)} \in SUBSET S /\ Cardinality(s \ {Chosen(s)}) <= n - 1
    OBVIOUS
  <2>1. s \ {Chosen(s)} \in SUBSET S /\ Cardinality(s) \in Nat /\ Cardinality(s \ {Chosen(s)}) = Cardinality(s) - 1
    BY Smaller
  <2>. QED
    BY <1>4, <2>1
<1>9. \A s \in Small(n - 1) : s \in Small(n)
  <2>1. \A s \in SUBSET S : Cardinality(s) \in Nat
    BY FS_Subset, FS_CardinalityType
  <2>. QED
    BY <1>4, <2>1
<1>. HIDE DEF Small
<1>10. \A s \in Small(n - 1) : h[s] = g[s]
  <2>. SUFFICES ASSUME NEW s \in Small(n - 1) PROVE h[s] = g[s]
    OBVIOUS
  <2>1. g[s] = IF s = {} THEN 0 ELSE f[Chosen(s)] + g[s \ {Chosen(s)}]
    BY <1>7 DEF Sums
  <2>. QED
    BY <1>9, <2>1
<1>11. Sums(h, f, Small(n))
  BY <1>8, <1>10 DEF Sums
<1>. QED
  BY <1>4, <1>11

\* The sum over all of a function's domain, as one of those.
LEMMA TotalOf ==
  ASSUME NEW f, IsFiniteSet(DOMAIN f)
  PROVE  \E iter : Sums(iter, f, SUBSET DOMAIN f) /\ Total(f) = iter[DOMAIN f]
<1>. DEFINE iter == CHOOSE g : Sums(g, f, SUBSET DOMAIN f)
<1>1. Sums(iter, f, SUBSET DOMAIN f)
  BY SumExists
<1>2. Total(f) = iter[DOMAIN f]
  BY TotalSums
<1>. QED
  BY <1>1, <1>2

\* Nothing adds up to nothing.
LEMMA TotalZero ==
  ASSUME NEW S, IsFiniteSet(S)
  PROVE  Total([x \in S |-> 0]) = 0
<1>. DEFINE f == [x \in S |-> 0]
<1>0. DOMAIN f = S /\ \A x \in S : f[x] = 0
  OBVIOUS
<1>. HIDE DEF f
<1>1. PICK F : Sums(F, f, SUBSET S) /\ Total(f) = F[S]
  BY <1>0, TotalOf
<1>. DEFINE Bad == {n \in Nat : \E s \in SUBSET S : Cardinality(s) = n /\ F[s] # 0}
<1>2. ASSUME Bad # {} PROVE FALSE
  <2>1. PICK n \in Bad : \A m \in Bad : n <= m
    BY <1>2, Least
  <2>2. PICK s \in SUBSET S : Cardinality(s) = n /\ F[s] # 0
    BY <2>1
  <2>3. F[s] = IF s = {} THEN 0 ELSE f[Chosen(s)] + F[s \ {Chosen(s)}]
    BY <1>1 DEF Sums
  <2>4. s # {}
    BY <2>2, <2>3
  <2>5. /\ Chosen(s) \in s /\ s \ {Chosen(s)} \in SUBSET S
        /\ n \in Nat \ {0} /\ Cardinality(s \ {Chosen(s)}) = n - 1
    BY <2>2, <2>4, Smaller
  <2>6. f[Chosen(s)] = 0 /\ F[s \ {Chosen(s)}] # 0
    BY <1>0, <2>2, <2>3, <2>4, <2>5
  <2>7. n - 1 \in Bad
    BY <2>5, <2>6
  <2>8. n <= n - 1
    BY <2>1, <2>7
  <2>. QED
    BY <2>5, <2>8
<1>3. Cardinality(S) \in Nat
  BY FS_CardinalityType
<1>4. F[S] = 0
  BY <1>2, <1>3
<1>. QED
  BY <1>1, <1>4 DEF f

\* Where one value changes, the sum changes with it.
LEMMA TotalUpdate ==
  ASSUME NEW S, IsFiniteSet(S), NEW f \in [S -> Int], NEW g \in [S -> Int], NEW x \in S, NEW d \in Int,
         g[x] = f[x] + d, \A y \in S : y # x => g[y] = f[y]
  PROVE  Total(f) \in Int /\ Total(g) = Total(f) + d
<1>1. DOMAIN f = S /\ DOMAIN g = S
  OBVIOUS
<1>2. PICK F : Sums(F, f, SUBSET S) /\ Total(f) = F[S]
  BY <1>1, TotalOf
<1>3. PICK G : Sums(G, g, SUBSET S) /\ Total(g) = G[S]
  BY <1>1, TotalOf
<1>. DEFINE Added(s) == IF x \in s THEN d ELSE 0
            Right(s) == F[s] \in Int /\ G[s] = F[s] + Added(s)
            Bad == {n \in Nat : \E s \in SUBSET S : Cardinality(s) = n /\ ~Right(s)}
<1>4. ASSUME Bad # {} PROVE FALSE
  <2>1. PICK n \in Bad : \A m \in Bad : n <= m
    BY <1>4, Least
  <2>2. PICK s \in SUBSET S : Cardinality(s) = n /\ ~Right(s)
    BY <2>1
  <2>3. /\ F[s] = IF s = {} THEN 0 ELSE f[Chosen(s)] + F[s \ {Chosen(s)}]
        /\ G[s] = IF s = {} THEN 0 ELSE g[Chosen(s)] + G[s \ {Chosen(s)}]
    BY <1>2, <1>3 DEF Sums
  <2>4. s # {}
    BY <2>2, <2>3
  <2>. DEFINE a == Chosen(s)
              t == s \ {a}
  <2>5. a \in s /\ a \in S /\ t \in SUBSET S /\ n \in Nat \ {0} /\ Cardinality(t) = n - 1
    BY <2>2, <2>4, Smaller
  <2>6. F[s] = f[a] + F[t] /\ G[s] = g[a] + G[t]
    BY <2>3, <2>4
  <2>7. f[a] \in Int /\ g[a] = f[a] + IF a = x THEN d ELSE 0
    BY <2>5
  <2>8. Added(s) = Added(t) + IF a = x THEN d ELSE 0
    BY <2>5
  <2>9. Added(t) \in Int
    OBVIOUS
  <2>. HIDE DEF Added, a, t
  <2>10. ~Right(t)
    <3>1. SUFFICES ASSUME F[t] \in Int, G[t] = F[t] + Added(t) PROVE FALSE
      OBVIOUS
    <3>2. F[s] \in Int /\ G[s] = F[s] + Added(s)
      BY <2>6, <2>7, <2>8, <2>9, <3>1
    <3>. QED
      BY <2>2, <3>2
  <2>11. n - 1 \in Bad
    BY <2>5, <2>10
  <2>12. n <= n - 1
    BY <2>1, <2>11
  <2>. QED
    BY <2>5, <2>12
<1>5. Cardinality(S) \in Nat
  BY FS_CardinalityType
<1>6. Right(S)
  BY <1>4, <1>5
<1>. QED
  BY <1>2, <1>3, <1>6

-----------------------------------------------------------------------------
(* The counters *)

\* Outside of ingest() a source has no entries in hand.
AtRest == \A s \in Source : pc[s] \notin {"checking", "accepting"} => todo[s] = <<>>

\* How many entries a source has in hand, and how many messages it was first with.
Remaining == [s \in Source |-> Len(todo[s])]
Firsts == [s \in Source |-> sources[s].first]

\* Both in all.
InHand == Total(Remaining)
AllFirsts == Total(Firsts)

Counted ==
  /\ received = stats.live + stats.backlog + stats.duplicate + stats.unverified + InHand
  /\ stats.live + stats.backlog = AllFirsts

LEMMA CountedMeans == Counted <=> EveryEntryCounted
BY DEF Counted, EveryEntryCounted, InHand, AllFirsts, Remaining, Firsts, Total

LEMMA CountersOf ==
  ASSUME Typed
  PROVE  /\ Remaining \in [Source -> Int] /\ Firsts \in [Source -> Int] /\ received \in Nat
         /\ \A c \in Counter : stats[c] \in Nat
         /\ \A s \in Source : todo[s] \in Seq(Entry) /\ Len(todo[s]) \in Nat /\ sources[s].first \in Nat
<1>1. /\ \A s \in Source : todo[s] \in Seq(Entry) /\ sources[s] \in SourceStats
      /\ received \in Nat /\ stats \in [Counter -> Nat]
  BY DEF Typed, TypeOK
<1>2. \A s \in Source : Len(todo[s]) \in Nat /\ sources[s].first \in Nat
  BY <1>1 DEF SourceStats
<1>. QED
  BY <1>1, <1>2 DEF Remaining, Firsts

\* A step that takes entries in hand or puts them down, in sum.
LEMMA RemainingChanges ==
  ASSUME IsFiniteSet(Source), Typed, Typed', NEW s \in Source, NEW d \in Int,
         Len(todo'[s]) = Len(todo[s]) + d, \A u \in Source : u # s => todo'[u] = todo[u]
  PROVE  InHand \in Int /\ InHand' = InHand + d
<1>1. Remaining \in [Source -> Int] /\ Remaining' \in [Source -> Int]
  <2>1. Remaining \in [Source -> Int]
    BY CountersOf
  <2>2. \A u \in Source : todo'[u] \in Seq(Entry)
    BY DEF Typed, TypeOK
  <2>3. \A u \in Source : Len(todo'[u]) \in Int
    BY <2>2
  <2>4. Remaining' \in [Source -> Int]
    BY <2>3 DEF Remaining
  <2>. QED
    BY <2>1, <2>4
<1>2. Remaining'[s] = Remaining[s] + d /\ \A u \in Source : u # s => Remaining'[u] = Remaining[u]
  BY DEF Remaining
<1>. DEFINE f == Remaining
            g == Remaining'
<1>3. f \in [Source -> Int] /\ g \in [Source -> Int] /\ g[s] = f[s] + d /\ \A u \in Source : u # s => g[u] = f[u]
  BY <1>1, <1>2
<1>. HIDE DEF f, g
<1>4. Total(f) \in Int /\ Total(g) = Total(f) + d
  BY ONLY IsFiniteSet(Source), s \in Source, d \in Int, <1>3, TotalUpdate
<1>. QED
  BY <1>4 DEF f, g, InHand

LEMMA FirstsChange ==
  ASSUME IsFiniteSet(Source), Typed, Typed', NEW s \in Source, NEW d \in Int,
         sources'[s].first = sources[s].first + d, \A u \in Source : u # s => sources'[u].first = sources[u].first
  PROVE  AllFirsts \in Int /\ AllFirsts' = AllFirsts + d
<1>1. Firsts \in [Source -> Int] /\ Firsts' \in [Source -> Int]
  <2>1. Firsts \in [Source -> Int]
    BY CountersOf
  <2>2. \A u \in Source : sources'[u] \in SourceStats
    BY DEF Typed, TypeOK
  <2>3. \A u \in Source : sources'[u].first \in Int
    BY <2>2 DEF SourceStats
  <2>4. Firsts' \in [Source -> Int]
    BY <2>3 DEF Firsts
  <2>. QED
    BY <2>1, <2>4
<1>2. Firsts'[s] = Firsts[s] + d /\ \A u \in Source : u # s => Firsts'[u] = Firsts[u]
  BY DEF Firsts
<1>. DEFINE f == Firsts
            g == Firsts'
<1>3. f \in [Source -> Int] /\ g \in [Source -> Int] /\ g[s] = f[s] + d /\ \A u \in Source : u # s => g[u] = f[u]
  BY <1>1, <1>2
<1>. HIDE DEF f, g
<1>4. Total(f) \in Int /\ Total(g) = Total(f) + d
  BY ONLY IsFiniteSet(Source), s \in Source, d \in Int, <1>3, TotalUpdate
<1>. QED
  BY <1>4 DEF f, g, AllFirsts

LEMMA CountedInit == IsFiniteSet(Source) /\ Init => AtRest /\ Counted
<1>. SUFFICES ASSUME IsFiniteSet(Source), Init PROVE AtRest /\ Counted
  OBVIOUS
<1>1. Remaining = [s \in Source |-> 0] /\ Firsts = [s \in Source |-> 0]
  BY DEF Init, Remaining, Firsts
<1>2. InHand = 0 /\ AllFirsts = 0
  BY <1>1, TotalZero DEF InHand, AllFirsts
<1>3. received = 0 /\ stats.live = 0 /\ stats.backlog = 0 /\ stats.duplicate = 0 /\ stats.unverified = 0
  BY DEF Init, Counter
<1>. QED
  BY <1>2, <1>3 DEF Init, AtRest, Counted

LEMMA AtRestStep == Typed /\ AtRest /\ [Next]_vars => AtRest'
<1>. SUFFICES ASSUME Typed, AtRest, [Next]_vars PROVE AtRest'
  OBVIOUS
<1>t. DOMAIN pc = Source /\ DOMAIN todo = Source
  BY DEF Typed, TypeOK
<1>1. ASSUME NEW s \in Source, NEW u \in Source,
             \/ Dial(s) \/ Connect(s) \/ Fail(s)
             \/ \E frame \in Frames, current \in BOOLEAN : Receive(s, frame, current)
             \/ Ingest(s) \/ Send(s) \/ ReadOn(s) \/ ReplaceSlow(s)
             \/ \E aborted \in BOOLEAN : Stop(s, aborted),
             pc'[u] \notin {"checking", "accepting"}
      PROVE  todo'[u] = <<>>
  <2>1. CASE u # s
    <3>1. pc'[u] = pc[u] /\ todo'[u] = todo[u]
      BY <1>1, <1>t, <2>1
         DEF Dial, Connect, Fail, Receive, Ingest, DropCopy, Accept, Reject, LoseRace, Claim, TakeReplace,
             Send, ReadOn, ReplaceSlow, Stop
    <3>. QED
      BY <1>1, <3>1 DEF AtRest
  <2>2. CASE u = s /\ TakeReplace(s)
    BY <2>2 DEF TakeReplace
  <2>3. CASE u = s /\ ~TakeReplace(s)
    <3>1. todo' = todo /\ pc[s] \notin {"checking", "accepting"}
      BY <1>1, <1>t, <2>3
         DEF Dial, Connect, Fail, Receive, Ingest, DropCopy, Accept, Reject, LoseRace, Claim,
             Send, ReadOn, ReplaceSlow, Stop
    <3>. QED
      BY <2>3, <3>1 DEF AtRest
  <2>. QED
    BY <2>1, <2>2, <2>3
<1>2. CASE UNCHANGED vars
  BY <1>2 DEF vars, task, AtRest
<1>. QED
  BY <1>1, <1>2 DEF Next, AtRest

\* The entry in hand is put down: it was a copy, not signed well, or new.
LEMMA PutDown ==
  ASSUME IsFiniteSet(Source), Typed, Typed', NEW s \in Source, todo[s] # <<>>,
         todo' = [todo EXCEPT ![s] = Tail(@)]
  PROVE  InHand \in Int /\ InHand' = InHand - 1
<1>1. todo[s] \in Seq(Entry) /\ todo'[s] = Tail(todo[s]) /\ \A u \in Source : u # s => todo'[u] = todo[u]
  BY DEF Typed, TypeOK
<1>. DEFINE q == todo[s]
<1>q. q \in Seq(Entry) /\ q # <<>> /\ todo'[s] = Tail(q)
  BY <1>1
<1>. HIDE DEF q
<1>t. Len(Tail(q)) = Len(q) - 1 /\ Len(q) \in Nat
  BY <1>q
<1>2. Len(todo'[s]) = Len(todo[s]) - 1 /\ Len(todo[s]) \in Nat
  BY <1>q, <1>t DEF q
<1>3. Len(todo'[s]) = Len(todo[s]) + (-1) /\ -1 \in Int
  BY <1>2
<1>4. InHand \in Int /\ InHand' = InHand + (-1)
  BY <1>1, <1>3, RemainingChanges
<1>. QED
  BY <1>4

LEMMA SameFirsts ==
  ASSUME IsFiniteSet(Source), Typed, Typed', NEW s \in Source,
         \A u \in Source : sources'[u].first = sources[u].first
  PROVE  AllFirsts \in Int /\ AllFirsts' = AllFirsts
<1>1. Len(todo[s]) \in Nat /\ sources[s].first \in Nat
  BY CountersOf
<1>2. sources'[s].first = sources[s].first + 0 /\ 0 \in Int
  BY <1>1
<1>3. AllFirsts \in Int /\ AllFirsts' = AllFirsts + 0
  BY <1>2, FirstsChange
<1>. QED
  BY <1>3

LEMMA CopyCounted ==
  ASSUME IsFiniteSet(Source), Typed, Typed', Counted, NEW s \in Source, DropCopy(s) \/ LoseRace(s)
  PROVE  Counted'
<1>1. PICK n : LateCopy(s, n)
  BY DEF DropCopy, LoseRace
<1>2. todo[s] # <<>> /\ todo' = [todo EXCEPT ![s] = Tail(@)] /\ received' = received
  BY DEF DropCopy, LoseRace, Typed, EntryInHand, history
<1>3. stats' = [stats EXCEPT !.duplicate = @ + 1] /\ stats \in [Counter -> Nat]
  BY <1>1 DEF LateCopy, Typed, TypeOK
<1>4. /\ stats'.duplicate = stats.duplicate + 1 /\ stats'.live = stats.live
      /\ stats'.backlog = stats.backlog /\ stats'.unverified = stats.unverified
      /\ stats.live \in Nat /\ stats.backlog \in Nat /\ stats.duplicate \in Nat /\ stats.unverified \in Nat
  BY <1>3 DEF Counter
<1>5. \A u \in Source : sources'[u].first = sources[u].first
  <2>1. sources \in [Source -> SourceStats]
    BY DEF Typed, TypeOK
  <2>. QED
    BY <1>1, <2>1 DEF LateCopy, SourceStats
<1>6. InHand \in Int /\ InHand' = InHand - 1
  BY <1>2, PutDown
<1>7. AllFirsts \in Int /\ AllFirsts' = AllFirsts
  BY <1>5, SameFirsts
<1>8. received = stats.live + stats.backlog + stats.duplicate + stats.unverified + InHand /\ stats.live + stats.backlog = AllFirsts
  BY DEF Counted
<1>9. stats'.live + stats'.backlog = AllFirsts'
  BY <1>4, <1>7, <1>8
<1>10. received' = stats'.live + stats'.backlog + stats'.duplicate + stats'.unverified + InHand'
  <2>1. received' = received
    BY <1>2
  <2>. QED
    BY ONLY <2>1, <1>4, <1>6, <1>8
<1>. QED
  BY <1>9, <1>10 DEF Counted

LEMMA RejectCounted ==
  ASSUME IsFiniteSet(Source), Typed, Typed', Counted, NEW s \in Source, Reject(s)
  PROVE  Counted'
<1>2. /\ todo[s] # <<>> /\ todo' = [todo EXCEPT ![s] = Tail(@)] /\ received' = received
      /\ sources' = sources /\ stats' = [stats EXCEPT !.unverified = @ + 1] /\ stats \in [Counter -> Nat]
  BY DEF Reject, Typed, TypeOK, EntryInHand, history
<1>4. /\ stats'.unverified = stats.unverified + 1 /\ stats'.live = stats.live
      /\ stats'.backlog = stats.backlog /\ stats'.duplicate = stats.duplicate
      /\ stats.live \in Nat /\ stats.backlog \in Nat /\ stats.duplicate \in Nat /\ stats.unverified \in Nat
  BY <1>2 DEF Counter
<1>6. InHand \in Int /\ InHand' = InHand - 1
  BY <1>2, PutDown
<1>7. AllFirsts \in Int /\ AllFirsts' = AllFirsts
  BY <1>2, SameFirsts
<1>8. received = stats.live + stats.backlog + stats.duplicate + stats.unverified + InHand /\ stats.live + stats.backlog = AllFirsts
  BY DEF Counted
<1>9. stats'.live + stats'.backlog = AllFirsts'
  BY <1>4, <1>7, <1>8
<1>10. received' = stats'.live + stats'.backlog + stats'.duplicate + stats'.unverified + InHand'
  <2>1. received' = received
    BY <1>2
  <2>. QED
    BY ONLY <2>1, <1>4, <1>6, <1>8
<1>. QED
  BY <1>9, <1>10 DEF Counted

LEMMA ClaimCounted ==
  ASSUME IsFiniteSet(Source), Typed, Typed', Counted, NEW s \in Source, Claim(s)
  PROVE  Counted'
<1>1. PICK reorg : CountFirst(s, reorg)
  BY DEF Claim
<1>2. todo[s] # <<>> /\ todo' = [todo EXCEPT ![s] = Tail(@)] /\ received' = received
  BY DEF Claim, Typed, EntryInHand
<1>3. /\ stats \in [Counter -> Nat] /\ sources \in [Source -> SourceStats]
      /\ live[s] \in BOOLEAN
  BY DEF Typed, TypeOK
<1>. DEFINE counted == {IF live[s] THEN "live" ELSE "backlog"} \cup {c \in {"reorgs"} : reorg}
<1>4. /\ stats' = [c \in Counter |-> stats[c] + Bit(c \in counted)]
      /\ sources' = [sources EXCEPT ![s].first = @ + 1]
  BY <1>1 DEF CountFirst
<1>5. /\ stats.live \in Nat /\ stats.backlog \in Nat /\ stats.duplicate \in Nat /\ stats.unverified \in Nat
      /\ stats'.duplicate = stats.duplicate /\ stats'.unverified = stats.unverified
      /\ stats'.live + stats'.backlog = stats.live + stats.backlog + 1
      /\ stats'.live \in Nat /\ stats'.backlog \in Nat
  <2>1. \A c \in Counter : stats[c] \in Nat /\ stats'[c] = stats[c] + Bit(c \in counted)
    BY <1>3, <1>4
  <2>2. {"live", "backlog", "duplicate", "unverified"} \subseteq Counter
    BY DEF Counter
  <2>3. /\ "duplicate" \notin counted /\ "unverified" \notin counted
        /\ "live" \in counted <=> live[s]
        /\ "backlog" \in counted <=> ~live[s]
    OBVIOUS
  <2>. HIDE DEF counted
  <2>4. /\ Bit("duplicate" \in counted) = 0 /\ Bit("unverified" \in counted) = 0
        /\ \/ Bit("live" \in counted) = 1 /\ Bit("backlog" \in counted) = 0
           \/ Bit("live" \in counted) = 0 /\ Bit("backlog" \in counted) = 1
    BY <2>3 DEF Bit
  <2>. QED
    BY <2>1, <2>2, <2>4
<1>6. InHand \in Int /\ InHand' = InHand - 1
  BY <1>2, PutDown
<1>7. AllFirsts \in Int /\ AllFirsts' = AllFirsts + 1
  <2>1. /\ sources'[s].first = sources[s].first + 1
        /\ \A u \in Source : u # s => sources'[u].first = sources[u].first
    BY <1>3, <1>4 DEF SourceStats
  <2>2. 1 \in Int
    OBVIOUS
  <2>. QED
    BY <2>1, <2>2, FirstsChange
<1>8. received = stats.live + stats.backlog + stats.duplicate + stats.unverified + InHand /\ stats.live + stats.backlog = AllFirsts
  BY DEF Counted
<1>9. stats'.live + stats'.backlog = AllFirsts'
  BY <1>5, <1>7, <1>8
<1>10. received' = stats'.live + stats'.backlog + stats'.duplicate + stats'.unverified + InHand'
  <2>1. received' = received
    BY <1>2
  <2>. QED
    BY ONLY <2>1, <1>5, <1>6, <1>8
<1>. QED
  BY <1>9, <1>10 DEF Counted

LEMMA ReceiveCounted ==
  ASSUME IsFiniteSet(Source), Typed, Typed', AtRest, Counted, NEW s \in Source,
         NEW frame \in Frames, NEW current \in BOOLEAN, Receive(s, frame, current)
  PROVE  Counted'
<1>1. /\ pc[s] = "reading" /\ todo' = [todo EXCEPT ![s] = frame] /\ received' = received + Len(frame)
      /\ stats' = stats /\ sources' = sources
  BY DEF Receive, state
<1>2. todo[s] = <<>> /\ Len(todo[s]) = 0
  BY <1>1 DEF AtRest
<1>3. frame \in Seq(Entry) /\ Len(frame) \in Nat
  BY FramesAreSequences
<1>4. Len(todo'[s]) = Len(todo[s]) + Len(frame) /\ \A u \in Source : u # s => todo'[u] = todo[u]
  BY <1>1, <1>2, <1>3 DEF Typed, TypeOK
<1>5. InHand \in Int /\ InHand' = InHand + Len(frame)
  BY <1>3, <1>4, RemainingChanges, SMTT(20)
<1>6. AllFirsts \in Int /\ AllFirsts' = AllFirsts
  BY <1>1, SameFirsts
<1>7. /\ stats.live \in Nat /\ stats.backlog \in Nat /\ stats.duplicate \in Nat /\ stats.unverified \in Nat
      /\ received \in Nat
  BY CountersOf DEF Counter
<1>8. /\ received = stats.live + stats.backlog + stats.duplicate + stats.unverified + InHand
      /\ stats.live + stats.backlog = AllFirsts
  BY DEF Counted
<1>9. received' = stats.live + stats.backlog + stats.duplicate + stats.unverified + InHand'
  <2>1. received' = received + Len(frame)
    BY <1>1
  <2>2. received + Len(frame) = stats.live + stats.backlog + stats.duplicate + stats.unverified
                                + (InHand + Len(frame))
    <3>1. stats.live \in Nat /\ stats.backlog \in Nat /\ stats.duplicate \in Nat /\ stats.unverified \in Nat
      BY <1>7
    <3>2. InHand \in Int /\ received \in Nat /\ Len(frame) \in Nat
      BY <1>3, <1>5, <1>7
    <3>3. received = stats.live + stats.backlog + stats.duplicate + stats.unverified + InHand
      BY <1>8
    <3>. QED
      BY ONLY <3>1, <3>2, <3>3, SMTT(30)
  <2>. QED
    BY ONLY <1>5, <2>1, <2>2, ZenonT(20)
<1>. QED
  BY <1>1, <1>6, <1>8, <1>9 DEF Counted

LEMMA CountedStep ==
  IsFiniteSet(Source) /\ Typed /\ Typed' /\ AtRest /\ Counted /\ [Next]_vars => Counted'
<1>. SUFFICES ASSUME IsFiniteSet(Source), Typed, Typed', AtRest, Counted, [Next]_vars PROVE Counted'
  OBVIOUS
<1>1. ASSUME NEW s \in Source, Dial(s) \/ Connect(s) \/ Accept(s) \/ TakeReplace(s) \/ Send(s) \/ ReadOn(s)
                              \/ \E aborted \in BOOLEAN : Stop(s, aborted)
      PROVE  Counted'
  <2>1. UNCHANGED <<todo, stats, sources, received>>
    BY <1>1 DEF Dial, Connect, Accept, TakeReplace, Send, ReadOn, Stop, state, history
  <2>. QED
    BY <2>1 DEF Counted, InHand, AllFirsts, Remaining, Firsts
<1>2. ASSUME NEW s \in Source, Fail(s) \/ ReplaceSlow(s) PROVE Counted'
  <2>1. /\ UNCHANGED <<todo, stats, received>>
        /\ \/ sources' = [sources EXCEPT ![s].reconnects = @ + 1]
           \/ sources' = [sources EXCEPT ![s].replaced = @ + 1]
    BY <1>2 DEF Fail, ReplaceSlow, history
  <2>2. ASSUME NEW u \in Source PROVE sources'[u].first = sources[u].first
    <3>1. sources \in [Source -> SourceStats]
      BY DEF Typed, TypeOK
    <3>2. CASE sources' = [sources EXCEPT ![s].reconnects = @ + 1]
      BY <3>1, <3>2 DEF SourceStats
    <3>3. CASE sources' = [sources EXCEPT ![s].replaced = @ + 1]
      BY <3>1, <3>3 DEF SourceStats
    <3>. QED
      BY <2>1, <3>2, <3>3
  <2>3. Firsts' = Firsts /\ Remaining' = Remaining
    BY <2>1, <2>2 DEF Firsts, Remaining
  <2>. QED
    BY <2>1, <2>3 DEF Counted, InHand, AllFirsts
<1>3. CASE UNCHANGED vars
  BY <1>3 DEF vars, state, task, history, Counted, InHand, AllFirsts, Remaining, Firsts
<1>. QED
  BY <1>1, <1>2, <1>3, CopyCounted, RejectCounted, ClaimCounted, ReceiveCounted DEF Next, Ingest

(***************************************************************************)
(* No entry is lost or counted twice by the early exits of ingest(), and a *)
(* delivered message has exactly one source that was first (consume.rs),   *)
(* for any finite set of sources.                                          *)
(***************************************************************************)
THEOREM CountCorrect == ASSUME IsFiniteSet(Source) PROVE Spec => []EveryEntryCounted
BY TypeInit, TypeStep, CountedInit, AtRestStep, CountedStep, CountedMeans, PTL DEF Spec
=============================================================================

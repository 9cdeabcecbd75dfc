---------------------------- MODULE OrderProofs ----------------------------
(***************************************************************************)
(* What a Feed skips, loses and puts in order.  Without any assumption, it *)
(* skips no number that it never delivered (NoGap).  As long as the        *)
(* sequencer never goes back, only a block claimed from a backlog is lost  *)
(* (LostToBacklog).  With a single source, an older block comes after a    *)
(* newer one only with a step back to a lower number (ConsumedForward),    *)
(* and not even then on one connection or without reorgs                   *)
(* (ConsumedInOrder).                                                      *)
(***************************************************************************)
EXTENDS FeedProofs

\* The sequencer starts at 0, and counts on from a block or goes back.
Steps ==
  \A r \in 1 .. Len(emitted) :
    IF r = 1 THEN emitted[r] = 0 ELSE emitted[r] <= emitted[r - 1] + 1

\* The chain of a block has a block for every number up to its own.
Linked == \A r \in 1 .. Len(emitted) : \A k \in 0 .. emitted[r] : \E i \in Chain(r) : emitted[i] = k

\* Number k was delivered, or source s will ingest a block with it before block i.
Covered(s, k, i) == k \in DOMAIN held \/ \E j \in Pending(s) : j < i /\ emitted[j] = k

\* No number is missing: not below a number that was delivered, and not below a
\* block under way to a source, or the next one its relay gets, unless a block
\* ahead of it on the same connection has the number.
Unbroken ==
  /\ \A n \in DOMAIN held : 0 .. n \subseteq DOMAIN held
  /\ \A s \in Source : asked[s] = -1 \/ asked[s] \in DOMAIN held
  /\ \A s \in Source : \A i \in Pending(s) : \A k \in 0 .. emitted[i] - 1 : Covered(s, k, i)
  /\ \A s \in Source :
       Online(s) /\ relayed[s] > 0 => \A k \in 0 .. emitted[relayed[s]] : Covered(s, k, relayed[s] + 1)

GapInv == HeldInv /\ Steps /\ Linked /\ Unbroken

-----------------------------------------------------------------------------
(* What the sequencer emits *)

LEMMA EmittedNumbers ==
  ASSUME FeedTyped
  PROVE  Len(emitted) \in Nat /\ \A i \in 1 .. Len(emitted) : emitted[i] \in Nat
<1>1. emitted \in Seq(SeqNum)
  BY DEF FeedTyped
<1>2. Len(emitted) \in Nat /\ \A i \in 1 .. Len(emitted) : emitted[i] \in SeqNum
  BY <1>1, LenProperties, ElementOfSeq
<1>. QED
  BY <1>2, SeqNumAssumption

\* A block emitted is the first, with number 0, or at most one ahead of the last.
LEMMA EmittedNext ==
  ASSUME FeedTyped, [FeedNext]_feedVars, emitted' # emitted
  PROVE  \E n \in Nat :
           /\ Len(emitted') = Len(emitted) + 1 /\ emitted'[Len(emitted) + 1] = n
           /\ IF Len(emitted) = 0 THEN n = 0 ELSE n <= emitted[Len(emitted)] + 1
<1>1. PICK n \in SeqNum : Emit(n)
  BY DEF FeedNext, Step, Age, Forward, Overdue, FeedFail, FeedDial, FeedConnect, FeedReplaceSlow,
     FeedReceive, FeedIngest, FeedReadOn, TrySend, Wait, SendGranted, FeedStop, Recv, DropFeed,
     feedVars, world
<1>2. n \in Nat /\ Len(emitted) \in Nat /\ \A i \in 1 .. Len(emitted) : emitted[i] \in Nat
  BY EmittedNumbers, SeqNumAssumption
<1>3. Len(emitted') = Len(emitted) + 1 /\ emitted'[Len(emitted) + 1] = n
  BY <1>1, AppendProperties DEF Emit, FeedTyped
<1>4. CASE Len(emitted) = 0
  <2>1. emitted = <<>>
    BY <1>4, EmptySeq DEF FeedTyped
  <2>2. n = 0
    BY <1>1, <2>1 DEF Emit
  <2>. QED
    BY <1>2, <1>3, <1>4, <2>2
<1>5. CASE Len(emitted) # 0
  <2>1. emitted # <<>> /\ Len(emitted) \in 1 .. Len(emitted)
    BY <1>2, <1>5, EmptySeq DEF FeedTyped
  <2>2. Last(emitted) = emitted[Len(emitted)]
    BY DEF Last
  <2>3. n = emitted[Len(emitted)] + 1 \/ n <= emitted[Len(emitted)]
    BY <1>1, <2>1, <2>2 DEF Emit
  <2>. QED
    BY <1>2, <1>3, <1>5, <2>1, <2>3
<1>. QED
  BY <1>4, <1>5

LEMMA StepsStep ==
  ASSUME FeedTyped, Steps, [FeedNext]_feedVars
  PROVE  Steps'
<1>1. CASE emitted' = emitted
  BY <1>1 DEF Steps
<1>2. CASE emitted' # emitted
  <2>1. Len(emitted) \in Nat /\ \A i \in 1 .. Len(emitted) : emitted[i] \in Nat /\ emitted'[i] = emitted[i]
    BY EmittedNumbers, EmittedGrows
  <2>2. PICK n \in Nat :
          /\ Len(emitted') = Len(emitted) + 1 /\ emitted'[Len(emitted) + 1] = n
          /\ IF Len(emitted) = 0 THEN n = 0 ELSE n <= emitted[Len(emitted)] + 1
    BY <1>2, EmittedNext
  <2>. SUFFICES ASSUME NEW r \in 1 .. Len(emitted')
                PROVE  IF r = 1 THEN emitted'[r] = 0 ELSE emitted'[r] <= emitted'[r - 1] + 1
    BY DEF Steps
  <2>3. CASE r = Len(emitted) + 1
    BY <2>1, <2>2, <2>3
  <2>4. CASE r # Len(emitted) + 1
    <3>1. r \in 1 .. Len(emitted) /\ (r # 1 => r - 1 \in 1 .. Len(emitted))
      BY <2>1, <2>2, <2>4
    <3>. QED
      BY <2>1, <3>1 DEF Steps
  <2>. QED
    BY <2>3, <2>4
<1>. QED
  BY <1>1, <1>2

LEMMA LinkedStep ==
  ASSUME FeedTyped, Linked, [FeedNext]_feedVars
  PROVE  Linked'
<1>1. CASE emitted' = emitted
  BY <1>1 DEF Linked, Chain
<1>2. CASE emitted' # emitted
  <2>1. Len(emitted) \in Nat /\ \A i \in 1 .. Len(emitted) : emitted[i] \in Nat /\ emitted'[i] = emitted[i]
    BY EmittedNumbers, EmittedGrows
  <2>2. PICK n \in Nat :
          /\ Len(emitted') = Len(emitted) + 1 /\ emitted'[Len(emitted) + 1] = n
          /\ IF Len(emitted) = 0 THEN n = 0 ELSE n <= emitted[Len(emitted)] + 1
    BY <1>2, EmittedNext
  <2>. SUFFICES ASSUME NEW r \in 1 .. Len(emitted'), NEW k \in 0 .. emitted'[r]
                PROVE  \E i \in Chain(r)' : emitted'[i] = k
    BY DEF Linked
  <2>3. CASE r # Len(emitted) + 1
    <3>1. r \in 1 .. Len(emitted)
      BY <2>1, <2>2, <2>3
    <3>2. PICK i \in Chain(r) : emitted[i] = k
      BY <2>1, <3>1 DEF Linked
    <3>3. i \in 1 .. r /\ \A j \in i + 1 .. r : emitted[j] > emitted[i]
      BY <3>2 DEF Chain
    <3>4. 1 .. r \subseteq 1 .. Len(emitted) /\ i + 1 .. r \subseteq 1 .. r
      BY <3>1, <3>3
    <3>5. i \in Chain(r)' /\ emitted'[i] = k
      BY <2>1, <3>2, <3>3, <3>4 DEF Chain
    <3>. QED
      BY <3>5
  <2>4. CASE r = Len(emitted) + 1
    <3>1. CASE k = n
      <4>1. r \in Chain(r)' /\ emitted'[r] = k
        BY <2>1, <2>2, <2>4, <3>1 DEF Chain
      <4>. QED
        BY <4>1
    <3>2. CASE k # n
      <4>1. k \in 0 .. n - 1 /\ Len(emitted) \in 1 .. Len(emitted) /\ k \in 0 .. emitted[Len(emitted)]
        BY <2>1, <2>2, <2>4, <3>2
      <4>2. PICK i \in Chain(Len(emitted)) : emitted[i] = k
        BY <4>1 DEF Linked
      <4>3. i \in 1 .. Len(emitted) /\ \A j \in i + 1 .. Len(emitted) : emitted[j] > k
        BY <4>2 DEF Chain
      <4>4. \A j \in i + 1 .. r : j \in i + 1 .. Len(emitted) \/ j = r
        BY <2>1, <2>4, <4>3
      <4>5. \A j \in i + 1 .. Len(emitted) : j \in 1 .. Len(emitted)
        BY <2>1, <4>3
      <4>6. \A j \in i + 1 .. r : emitted'[j] > emitted'[i]
        BY <2>1, <2>2, <2>4, <4>1, <4>2, <4>3, <4>4, <4>5
      <4>7. i \in Chain(r)' /\ emitted'[i] = k
        BY <2>1, <2>4, <4>2, <4>3, <4>6 DEF Chain
      <4>. QED
        BY <4>7
    <3>. QED
      BY <3>1, <3>2
  <2>. QED
    BY <2>3, <2>4
<1>. QED
  BY <1>1, <1>2

-----------------------------------------------------------------------------
(* What a connection brings, and what is dropped *)

\* A new connection has its backlog before it.
LEMMA PendingConnected ==
  ASSUME Base, NEW s \in Source, FeedConnect(s)
  PROVE  Pending(s)' = Backlog(s, asked[s]) /\ UNCHANGED <<emitted, relayed, asked>>
<1>. FeedTyped /\ Flow /\ TypeOK
  BY DEF Base, Typed
<1>1. PICK q \in Ascending(Backlog(s, asked[s])) : stream' = [stream EXCEPT ![s] = q]
  BY DEF FeedConnect
<1>2. todo'[s] = <<>> /\ stream'[s] = q /\ UNCHANGED <<emitted, relayed, asked>>
  BY <1>1, OfflineEmpty DEF FeedConnect, Connect, Online, Flow, FeedTyped, world, state
<1>3. Pending(s)' = Range(q)
  <2>1. DOMAIN todo'[s] = {}
    BY <1>2
  <2>. QED
    BY <1>2, <2>1 DEF Pending, Range
<1>. QED
  BY <1>2, <1>3, BacklogBlocks

\* The backlog has all numbers up to those of its blocks, or they were delivered.
LEMMA BacklogCovers ==
  ASSUME FeedTyped, Flow, Linked, Unbroken, NEW s \in Source, relayed[s] > 0
  PROVE  /\ \A k \in 0 .. emitted[relayed[s]] :
              k \in DOMAIN held \/ \E j \in Backlog(s, asked[s]) : emitted[j] = k
         /\ \A i \in Backlog(s, asked[s]) : \A k \in 0 .. emitted[i] - 1 :
              k \in DOMAIN held \/ \E j \in Backlog(s, asked[s]) : j < i /\ emitted[j] = k
<1>. DEFINE r == relayed[s]
            number == asked[s]
            chain == Chain(r)
            found == \E i \in chain : emitted[i] = number
<1>1. r \in 1 .. Len(emitted) /\ 1 .. r \subseteq 1 .. Len(emitted)
  BY DEF Flow, Flowing, FeedTyped
<1>2. \A i \in chain : i \in 1 .. r /\ i \in Int /\ emitted[i] \in Nat
  BY <1>1, EmittedNumbers DEF Chain
<1>3. Backlog(s, number) = {i \in chain : found => emitted[i] >= number}
  BY DEF Backlog
<1>4. ASSUME NEW k \in 0 .. emitted[r]
      PROVE  k \in DOMAIN held \/ \E j \in Backlog(s, number) : emitted[j] = k
  <2>1. PICK j \in chain : emitted[j] = k
    BY <1>1 DEF Linked
  <2>2. CASE found => k >= number
    BY <1>3, <2>1, <2>2
  <2>3. CASE found /\ ~(k >= number)
    <3>1. number \in DOMAIN held /\ number \in Nat
      BY <1>2, <2>3 DEF Unbroken
    <3>2. k \in 0 .. number
      BY <2>3, <3>1
    <3>. QED
      BY <3>1, <3>2 DEF Unbroken
  <2>. QED
    BY <2>2, <2>3
<1>5. ASSUME NEW i \in Backlog(s, number), NEW k \in 0 .. emitted[i] - 1
      PROVE  k \in DOMAIN held \/ \E j \in Backlog(s, number) : j < i /\ emitted[j] = k
  <2>1. i \in chain /\ i \in 1 .. r /\ \A j \in i + 1 .. r : emitted[j] > emitted[i]
    BY <1>3 DEF Chain
  <2>2. emitted[i] <= emitted[r] /\ emitted[i] \in Nat /\ emitted[r] \in Nat /\ r \in Nat
    <3>1. emitted[i] \in Nat /\ emitted[r] \in Nat /\ r \in Nat
      BY <1>1, <1>2, <2>1, EmittedNumbers
    <3>2. CASE i = r
      BY <3>1, <3>2
    <3>3. CASE i # r
      BY <2>1, <3>1, <3>3
    <3>. QED
      BY <3>1, <3>2, <3>3
  <2>3. k \in 0 .. emitted[r] /\ k < emitted[i]
    BY <2>2
  <2>4. CASE k \in DOMAIN held
    BY <2>4
  <2>5. ASSUME NEW j \in Backlog(s, number), emitted[j] = k PROVE j < i
    <3>1. j \in 1 .. r
      BY <1>3 DEF Chain
    <3>2. ~(j \in i + 1 .. r) /\ i # j
      BY <2>1, <2>2, <2>3, <2>5
    <3>. QED
      BY <2>1, <2>2, <3>1, <3>2
  <2>. QED
    BY <1>4, <2>3, <2>4, <2>5
<1>. QED
  BY <1>4, <1>5

\* The number of a block that a source ingests without claiming it was delivered.
LEMMA DroppedIsHeld ==
  ASSUME Base, Unbroken, NEW s \in Source, FeedIngest(s), ~Claim(s), todo' # todo
  PROVE  \E i \in 1 .. Len(emitted) :
           todo[s] # <<>> /\ Head(todo[s]) = EntryOf(i) /\ emitted[i] \in DOMAIN held
<1>. FeedTyped /\ Flow /\ TypeOK /\ EntryInHand /\ WindowInv
  BY DEF Base, Typed
<1>1. DropCopy(s) \/ LoseRace(s) \/ Reject(s)
  BY DEF FeedIngest, Ingest, Accept, TakeReplace
<1>2. todo[s] # <<>>
  BY <1>1 DEF DropCopy, LoseRace, Reject, EntryInHand
<1>. DEFINE i == Head(todo[s]).hash
<1>3. i \in 1 .. Len(emitted) /\ Head(todo[s]) = EntryOf(i)
  <2>1. 1 \in DOMAIN todo[s] /\ Head(todo[s]) = todo[s][1]
    BY <1>2, HeadTailProperties, LenProperties, EmptySeq DEF TypeOK
  <2>2. i \in 1 .. relayed[s] /\ Head(todo[s]) = EntryOf(i) /\ relayed[s] <= Len(emitted)
    BY <2>1 DEF Flow, Flowing, FrameInv
  <2>. QED
    BY <2>2 DEF FeedTyped
<1>4. IsDuplicate(emitted[i], i)
  <2>1. Head(todo[s]).seq = emitted[i] /\ Head(todo[s]).good
    BY <1>3 DEF EntryOf
  <2>2. ~Reject(s)
    BY <2>1 DEF Reject, Accepted
  <2>. QED
    BY <1>1, <2>1, <2>2 DEF DropCopy, LoseRace
<1>. HIDE DEF i
<1>5. emitted[i] \in Nat /\ highest_seq \in Int
  BY <1>3, EmittedNumbers, SeqNumAssumption DEF TypeOK, Number
<1>6. CASE emitted[i] \in DOMAIN seen
  BY <1>2, <1>3, <1>6 DEF WindowInv, WindowIsHistory
<1>7. CASE emitted[i] \notin DOMAIN seen
  <2>1. emitted[i] <= highest_seq
    BY <1>4, <1>5, <1>7 DEF IsDuplicate, IsNew
  <2>2. highest_seq \in DOMAIN held
    BY <1>5, <2>1 DEF WindowInv, WatermarkRemembered, WindowIsHistory
  <2>3. emitted[i] \in 0 .. highest_seq
    BY <1>5, <2>1
  <2>. QED
    BY <1>2, <1>3, <2>2, <2>3 DEF Unbroken
<1>. QED
  BY <1>6, <1>7

-----------------------------------------------------------------------------
(* No number is skipped *)

\* Numbers that were delivered stay delivered, and a claim adds its own.
LEMMA DeliveredBlock ==
  ASSUME Base, [FeedNext]_feedVars
  PROVE  \/ held' = held /\ latest' = latest
         \/ \E s \in Source, i \in 1 .. Len(emitted) :
              /\ FeedIngest(s) /\ Claim(s) /\ emitted' = emitted /\ asked' = asked /\ pc' = [pc EXCEPT ![s] = "checking"]
              /\ i \in Pending(s) /\ Pending(s) \subseteq Pending(s)' \cup {i}
              /\ \A t \in Source \ {s} : Pending(t)' = Pending(t)
              /\ \A j \in Pending(s)' : j \in Pending(s) /\ i < j
              /\ held' = Put(held, emitted[i], i) /\ DOMAIN held' = DOMAIN held \cup {emitted[i]}
              /\ latest'.seq = emitted[i]
<1>1. ASSUME NEW s \in Source, FeedIngest(s), Claim(s)
      PROVE  \E i \in 1 .. Len(emitted) :
              /\ emitted' = emitted /\ asked' = asked /\ pc' = [pc EXCEPT ![s] = "checking"]
              /\ i \in Pending(s) /\ Pending(s) \subseteq Pending(s)' \cup {i}
              /\ \A t \in Source \ {s} : Pending(t)' = Pending(t)
              /\ \A j \in Pending(s)' : j \in Pending(s) /\ i < j
              /\ held' = Put(held, emitted[i], i) /\ DOMAIN held' = DOMAIN held \cup {emitted[i]}
              /\ latest'.seq = emitted[i]
  <2>1. PICK i \in 1 .. relayed[s] :
           /\ i <= Len(emitted)
           /\ todo[s] # <<>> /\ Head(todo[s]) = EntryOf(i) /\ i \in Pending(s)
           /\ UNCHANGED <<emitted, stream>>
           /\ \A j \in Pending(s)' : j \in Pending(s) /\ i < j
           /\ \A t \in Source \ {s} : Pending(t)' = Pending(t)
           /\ held' = Put(held, emitted[i], i)
           /\ latest'.seq = emitted[i]
    BY <1>1, ClaimedBlock
  <2>2. asked' = asked /\ pc' = [pc EXCEPT ![s] = "checking"] /\ todo'[s] = Tail(todo[s])
    BY <1>1 DEF Claim, Base, Typed, TypeOK
  <2>3. Pending(s) = Pending(s)' \cup {i}
    <3>1. Head(todo[s]).hash = i /\ stream'[s] = stream[s]
      BY <2>1 DEF EntryOf
    <3>. QED
      BY <2>1, <2>2, <3>1, PendingTail DEF Base, Typed, Flow
  <2>4. i \in 1 .. Len(emitted)
    BY <2>1, EmittedNumbers DEF Base, FeedTyped
  <2>5. DOMAIN held' = DOMAIN held \cup {emitted[i]}
    BY <2>1 DEF Put
  <2>. QED
    BY <2>1, <2>2, <2>3, <2>4, <2>5
<1>. QED
  BY <1>1, ClaimOrNot

\* What a source asks for is the watermark it finds.
LEMMA AskedMoves ==
  ASSUME Base, [FeedNext]_feedVars, NEW s \in Source
  PROVE  asked'[s] = asked[s] \/ asked'[s] = highest_seq
<1>1. [Next]_vars /\ TypeOK
  BY FeedIsDedupStep DEF Base, Typed
<1>2. ASSUME NEW t \in Source, Dial(t) PROVE asked'[s] = asked[s] \/ asked'[s] = highest_seq
  BY <1>1, <1>2 DEF Dial, TypeOK
<1>3. ASSUME \A t \in Source : ~Dial(t) PROVE asked' = asked
  BY <1>1, <1>3, ZenonT(40) DEF Next, Ingest, Connect, Fail, Receive, DropCopy, Accept, Reject, LoseRace, Claim,
            TakeReplace, Send, ReadOn, ReplaceSlow, Stop, vars, task
<1>. QED
  BY <1>2, <1>3

\* The numbers delivered have no gaps, and what is asked for is one of them.
LEMMA HeldUnbroken ==
  ASSUME Base, GapInv, [FeedNext]_feedVars
  PROVE  /\ \A n \in DOMAIN held' : 0 .. n \subseteq DOMAIN held'
         /\ \A s \in Source : asked'[s] = -1 \/ asked'[s] \in DOMAIN held'
         /\ DOMAIN held \subseteq DOMAIN held'
<1>. FeedTyped /\ Flow /\ WindowInv /\ Unbroken /\ HeldInv
  BY DEF Base, GapInv
<1>1. highest_seq = -1 \/ highest_seq \in DOMAIN held
  BY DEF WindowInv, WatermarkRemembered, WindowIsHistory
<1>2. \A s \in Source : asked'[s] = -1 \/ asked'[s] \in DOMAIN held
  BY <1>1, AskedMoves DEF Unbroken
<1>3. CASE held' = held
  BY <1>2, <1>3 DEF Unbroken
<1>4. CASE held' # held
  <2>1. PICK s \in Source, i \in 1 .. Len(emitted) :
          /\ i \in Pending(s) /\ DOMAIN held' = DOMAIN held \cup {emitted[i]}
          /\ \A j \in Pending(s)' : j \in Pending(s) /\ i < j
          /\ Pending(s) \subseteq Pending(s)' \cup {i}
    BY <1>4, DeliveredBlock
  <2>2. \A j \in Pending(s) : ~(j < i)
    <3>1. \A j \in Pending(s) : j \in Int
      BY PendingOfRelay DEF Flow
    <3>. QED
      BY <2>1, <3>1
  <2>3. emitted[i] \in Nat
    BY <2>1, EmittedNumbers
  <2>4. \A k \in 0 .. emitted[i] - 1 : k \in DOMAIN held
    BY <2>1, <2>2 DEF Unbroken, Covered
  <2>5. 0 .. emitted[i] \subseteq DOMAIN held'
    <3>1. \A k \in 0 .. emitted[i] : k \in 0 .. emitted[i] - 1 \/ k = emitted[i]
      BY <2>3
    <3>. QED
      BY <2>1, <2>4, <3>1
  <2>. QED
    BY <1>2, <2>1, <2>5 DEF Unbroken
<1>. QED
  BY <1>3, <1>4

LEMMA UnbrokenStep ==
  ASSUME Base, GapInv, [FeedNext]_feedVars
  PROVE  Unbroken'
<1>. FeedTyped /\ Flow /\ TypeOK /\ Unbroken /\ HeldInv /\ Steps /\ Linked
  BY DEF Base, Typed, GapInv
<1>1. /\ DOMAIN held \subseteq DOMAIN held'
      /\ Len(emitted) \in Nat
      /\ \A i \in 1 .. Len(emitted) : emitted'[i] = emitted[i] /\ emitted[i] \in Nat
  BY HeldUnbroken, EmittedGrows, EmittedNumbers
<1>2. SUFFICES ASSUME NEW s \in Source
               PROVE  /\ \A i \in Pending(s)' : \A k \in 0 .. emitted'[i] - 1 :
                           k \in DOMAIN held' \/ \E j \in Pending(s)' : j < i /\ emitted'[j] = k
                      /\ Online(s)' /\ relayed'[s] > 0 =>
                           \A k \in 0 .. emitted'[relayed'[s]] :
                             k \in DOMAIN held' \/ \E j \in Pending(s)' : j < relayed'[s] + 1 /\ emitted'[j] = k
  BY HeldUnbroken, Zenon DEF Unbroken, Covered
<1>. DEFINE StillCovered(k, i) == k \in DOMAIN held' \/ \E j \in Pending(s)' : j < i /\ emitted'[j] = k
<1>3. /\ \A i \in Pending(s) : /\ i \in 1 .. Len(emitted) /\ i <= relayed[s] /\ emitted'[i] = emitted[i]
                               /\ emitted[i] \in Nat
      /\ relayed[s] \in Nat /\ relayed[s] <= Len(emitted)
      /\ relayed[s] > 0 => relayed[s] \in 1 .. Len(emitted) /\ emitted'[relayed[s]] = emitted[relayed[s]]
  BY <1>1, PendingOfRelay DEF Flow, Flowing, FeedTyped
\* What covers a number still covers it, as long as no block is taken away.
<1>4. ASSUME NEW k, NEW i, Covered(s, k, i), Pending(s) \subseteq Pending(s)'
      PROVE  StillCovered(k, i)
  BY <1>1, <1>3, <1>4 DEF Covered
<1>5. CASE Pending(s)' = Pending(s) /\ relayed'[s] = relayed[s] /\ Online(s)' = Online(s)
  BY <1>3, <1>4, <1>5 DEF Unbroken
<1>6. CASE Pending(s)' = {} /\ relayed'[s] = relayed[s] /\ ~Online(s)'
  BY <1>6
<1>7. CASE Forward(s)
  <2>. DEFINE new == relayed[s] + 1
  <2>1. relayed'[s] = new /\ Online(s)' = Online(s) /\ emitted' = emitted /\ new \in 1 .. Len(emitted)
    BY <1>3, <1>7 DEF Forward, Online, vars, task, FeedTyped
  <2>2. Pending(s)' = IF Online(s) THEN Pending(s) \cup {new} ELSE Pending(s)
    BY <1>7, PendingForwarded
  <2>3. ASSUME Online(s), NEW k \in 0 .. emitted[new] - 1 PROVE StillCovered(k, new)
    <3>1. relayed[s] > 0 /\ k \in 0 .. emitted[relayed[s]]
      <4>1. new = 1 => emitted[new] = 0
        BY <2>1 DEF Steps
      <4>2. new # 1 => emitted[new] <= emitted[relayed[s]] + 1 /\ relayed[s] \in 1 .. Len(emitted)
        BY <1>3, <2>1 DEF Steps
      <4>. QED
        BY <1>1, <1>3, <2>1, <2>3, <4>1, <4>2
    <3>. QED
      BY <1>4, <2>2, <2>3, <3>1 DEF Unbroken
  <2>4. ASSUME NEW i \in Pending(s), NEW k \in 0 .. emitted[i] - 1 PROVE StillCovered(k, i)
    BY <1>4, <2>2, <2>4 DEF Unbroken
  <2>5. ASSUME Online(s), NEW k \in 0 .. emitted[new] PROVE StillCovered(k, new + 1)
    <3>1. CASE k = emitted[new]
      <4>1. new \in Pending(s)' /\ new < new + 1 /\ emitted'[new] = k
        BY <1>3, <2>1, <2>2, <2>5, <3>1
      <4>. QED
        BY <4>1
    <3>2. CASE k # emitted[new]
      <4>1. k \in 0 .. emitted[new] - 1
        BY <1>1, <2>1, <3>2
      <4>2. StillCovered(k, new)
        BY <2>3, <2>5, <4>1
      <4>3. \A j \in Pending(s)' : j < new => j < new + 1
        BY <1>3, <2>1, <2>2
      <4>. QED
        BY <4>2, <4>3
    <3>. QED
      BY <3>1, <3>2
  <2>. HIDE DEF new
  <2>6. \A i \in Pending(s)' : \A k \in 0 .. emitted'[i] - 1 : StillCovered(k, i)
    BY <2>1, <2>2, <2>3, <2>4
  <2>7. Online(s)' => \A k \in 0 .. emitted'[relayed'[s]] : StillCovered(k, relayed'[s] + 1)
    BY <2>1, <2>5
  <2>. QED
    BY <2>6, <2>7
<1>8. CASE FeedConnect(s)
  <2>1. Pending(s)' = Backlog(s, asked[s]) /\ UNCHANGED <<emitted, relayed>>
    BY <1>8, PendingConnected
  <2>2. CASE relayed[s] > 0
    <3>1. \A i \in Backlog(s, asked[s]) : \A k \in 0 .. emitted[i] - 1 :
            k \in DOMAIN held \/ \E j \in Backlog(s, asked[s]) : j < i /\ emitted[j] = k
      BY <2>2, BacklogCovers
    <3>2. \A k \in 0 .. emitted[relayed[s]] :
            k \in DOMAIN held \/ \E j \in Backlog(s, asked[s]) : emitted[j] = k
      BY <2>2, BacklogCovers
    <3>3. \A j \in Backlog(s, asked[s]) : j < relayed[s] + 1
      BY <1>3 DEF Backlog, Chain
    <3>. QED
      BY <1>1, <2>1, <3>1, <3>2, <3>3
  <2>3. CASE ~(relayed[s] > 0)
    <3>1. Backlog(s, asked[s]) = {}
      BY <1>3, <2>3 DEF Backlog, Chain
    <3>. QED
      BY <2>1, <2>3, <3>1
  <2>. QED
    BY <2>2, <2>3
<1>9. CASE /\ FeedIngest(s) /\ todo[s] # <<>> /\ todo'[s] = Tail(todo[s])
           /\ relayed'[s] = relayed[s] /\ stream'[s] = stream[s] /\ Online(s)
  <2>. DEFINE h == Head(todo[s]).hash
  <2>1. Pending(s) = Pending(s)' \cup {h} /\ Head(todo[s]) = EntryOf(h) /\ h \in Pending(s)
    BY <1>9, PendingTail DEF Flow
  <2>2. emitted[h] \in DOMAIN held'
    <3>1. CASE Claim(s)
      <4>1. PICK i \in 1 .. relayed[s] : Head(todo[s]) = EntryOf(i) /\ held' = Put(held, emitted[i], i)
        BY <1>9, <3>1, ClaimedBlock
      <4>2. i = h
        BY <4>1 DEF EntryOf
      <4>. QED
        BY <4>1, <4>2 DEF Put
    <3>2. CASE ~Claim(s)
      <4>1. todo' # todo
        <5>1. todo[s] \in Seq(Entry)
          BY DEF TypeOK
        <5>2. Len(Tail(todo[s])) = Len(todo[s]) - 1 /\ Len(todo[s]) \in Nat
          BY <1>9, <5>1, HeadTailProperties, LenProperties
        <5>3. Len(Tail(todo[s])) # Len(todo[s])
          BY ONLY <5>2
        <5>4. Tail(todo[s]) # todo[s]
          BY <5>3, Zenon
        <5>. QED
          BY <1>9, <5>4
      <4>2. PICK i \in 1 .. Len(emitted) : Head(todo[s]) = EntryOf(i) /\ emitted[i] \in DOMAIN held
        BY <1>9, <3>2, <4>1, DroppedIsHeld
      <4>3. i = h
        BY <4>2 DEF EntryOf
      <4>. QED
        BY <1>1, <4>2, <4>3
    <3>. QED
      BY <3>1, <3>2
  <2>. HIDE DEF h
  <2>3. ASSUME NEW k, NEW i, Covered(s, k, i) PROVE StillCovered(k, i)
    <3>1. CASE k \in DOMAIN held
      BY <1>1, <3>1 DEF Covered
    <3>2. ASSUME NEW j \in Pending(s), j < i, emitted[j] = k PROVE StillCovered(k, i)
      BY <1>3, <2>1, <2>2, <3>2 DEF Covered
    <3>. QED
      BY <2>3, <3>1, <3>2 DEF Covered
  <2>4. Pending(s)' \subseteq Pending(s)
    BY <2>1
  <2>. QED
    BY <1>3, <1>9, <2>3, <2>4 DEF Unbroken
<1>. QED
  BY <1>5, <1>6, <1>7, <1>8, <1>9, PendingStep

LEMMA GapInit == FeedInit => Base /\ GapInv
<1>. SUFFICES ASSUME FeedInit PROVE GapInv
  BY FeedTypedInit DEF Base
<1>1. /\ DOMAIN held = {} /\ Len(emitted) = 0 /\ emitted = <<>>
      /\ \A s \in Source : asked[s] = -1 /\ pc[s] = "idle" /\ todo[s] = <<>> /\ stream[s] = <<>>
  BY DEF FeedInit, Init
<1>2. \A s \in Source : ~Online(s) /\ Pending(s) = {}
  BY <1>1 DEF Online, Pending
<1>. QED
  BY <1>1, <1>2 DEF GapInv, HeldInv, Steps, Linked, Unbroken

LEMMA GapStep ==
  ASSUME Base, GapInv, [FeedNext]_feedVars
  PROVE  Base' /\ GapInv'
<1>1. Base' /\ HeldInv'
  BY BaseStep, HeldStep DEF GapInv
<1>2. Steps' /\ Linked'
  BY StepsStep, LinkedStep DEF GapInv, Base
<1>. QED
  BY <1>1, <1>2, UnbrokenStep DEF GapInv

(***************************************************************************)
(* The feed skips no number that it did not deliver before, with any       *)
(* number of sources, whatever the sequencer goes back to, whatever        *)
(* connections fail, and however the relays lag behind each other.         *)
(***************************************************************************)
THEOREM NoGapCorrect == FeedSpec => NoGap
<1>1. Base /\ GapInv /\ [FeedNext]_feedVars
        => [latest.seq # -1 => latest.seq + 1 .. latest'.seq - 1 \subseteq DOMAIN held]_latest
  <2>. SUFFICES ASSUME Base, GapInv, [FeedNext]_feedVars, latest' # latest, latest.seq # -1
                PROVE  latest.seq + 1 .. latest'.seq - 1 \subseteq DOMAIN held
    OBVIOUS
  <2>1. PICK s \in Source, i \in 1 .. Len(emitted) :
          /\ i \in Pending(s) /\ latest'.seq = emitted[i] /\ DOMAIN held' = DOMAIN held \cup {emitted[i]}
    BY DeliveredBlock
  <2>2. emitted[i] \in Nat /\ 0 .. emitted[i] \subseteq DOMAIN held'
    BY <2>1, EmittedNumbers, HeldUnbroken DEF Base
  <2>3. latest.seq \in Int /\ latest.seq >= -1
    BY SeqNumAssumption DEF Base, Typed, TypeOK, Number
  <2>4. \A k \in latest.seq + 1 .. emitted[i] - 1 : k \in 0 .. emitted[i] /\ k # emitted[i]
    BY <2>2, <2>3
  <2>. QED
    BY <2>1, <2>2, <2>4
<1>. QED
  BY <1>1, GapInit, GapStep, PTL DEF FeedSpec, NoGap

-----------------------------------------------------------------------------
(* Copies *)

\* Only one block ever has a number.
LEMMA HeldStraight ==
  ASSUME Straight, HeldInv, FeedTyped, NEW n \in DOMAIN held
  PROVE  n \in Nat /\ held[n] = n + 1
<1>1. held[n] \in 1 .. Len(emitted) /\ emitted[held[n]] = n /\ Len(emitted) \in Nat
  BY DEF HeldInv, FeedTyped
<1>2. n = held[n] - 1
  BY <1>1 DEF Straight
<1>. QED
  BY <1>1, <1>2

\* As long as the Feed is there, all that was delivered is on its way to the
\* consumer or has reached it, or was claimed from a backlog.
DeliveredIsShown ==
  open => \A n \in DOMAIN held : held[n] \in skipped \/ \E m \in Shown : m.hash = held[n]

\* What is remembered as skipped stays so, and a claim from a backlog is added.
LEMMA SkippedStep ==
  ASSUME Base, [FeedNext]_feedVars
  PROVE  /\ skipped \subseteq skipped'
         /\ \A s \in Source : FeedIngest(s) /\ Claim(s) /\ latest' # latest /\ ~live[s] => latest'.hash \in skipped'
<1>1. ASSUME NEW s \in Source, FeedIngest(s)
      PROVE  skipped \subseteq skipped' /\ (latest' # latest /\ ~live[s] => latest'.hash \in skipped')
  BY <1>1 DEF FeedIngest
<1>2. CASE \A s \in Source : ~FeedIngest(s)
  <2>1. skipped' = skipped
    BY <1>2 DEF FeedNext, Step, Age, Forward, Emit, Overdue, FeedFail, FeedDial, FeedConnect,
       FeedReplaceSlow, FeedReceive, FeedReadOn, TrySend, Wait, SendGranted, FeedStop, Recv, DropFeed, feedVars
  <2>. QED
    BY <1>2, <2>1
<1>. QED
  BY <1>1, <1>2

\* The last delivery is what is remembered of its number.
LatestInv == latest.hash = IF latest.seq = -1 THEN 0 ELSE held[latest.seq]

LEMMA LatestStep ==
  ASSUME Base, LatestInv, [FeedNext]_feedVars
  PROVE  LatestInv'
<1>1. CASE UNCHANGED <<highest_seq, seen, held, latest>>
  BY <1>1 DEF LatestInv
<1>2. ASSUME NEW s \in Source, FeedIngest(s), Claim(s) PROVE LatestInv'
  <2>1. PICK i \in 1 .. relayed[s] :
          /\ held' = Put(held, emitted[i], i) /\ latest'.seq = emitted[i] /\ latest'.hash = i
          /\ emitted[i] \in SeqNum
    BY <1>2, ClaimedBlock
  <2>2. emitted[i] # -1 /\ held'[emitted[i]] = i
    BY <2>1, SeqNumAssumption DEF Put
  <2>. QED
    BY <2>1, <2>2 DEF LatestInv
<1>. QED
  BY <1>1, <1>2, ClaimOrNot

\* What is claimed is not the block delivered last.
LEMMA ClaimIsNews ==
  ASSUME Base, LatestInv, NEW s \in Source, FeedIngest(s), Claim(s)
  PROVE  latest' # latest
<1>1. PICK i \in 1 .. relayed[s] :
        /\ emitted[i] \in SeqNum
        /\ latest'.seq = emitted[i] /\ latest'.hash = i
        /\ IsNew(emitted[i], i) \/ IsReorg(emitted[i], i)
  BY ClaimedBlock
<1>2. WindowInv
  BY DEF Base
<1>. SUFFICES ASSUME latest' = latest PROVE FALSE
  OBVIOUS
<1>3. emitted[i] = highest_seq /\ latest.hash = i /\ latest.seq = highest_seq
  BY <1>1, <1>2 DEF WindowInv, WatermarkRemembered
<1>4. highest_seq \in Nat /\ highest_seq # -1
  <2>1. highest_seq \in SeqNum
    BY <1>1, <1>3, Zenon
  <2>. QED
    BY ONLY <2>1, SeqNumAssumption
<1>5. highest_seq \in DOMAIN seen /\ seen[highest_seq] = held[highest_seq]
  BY <1>2, <1>4 DEF WindowInv, WatermarkRemembered, WindowIsHistory
<1>6. seen[emitted[i]] = i
  BY <1>3, <1>4, <1>5 DEF LatestInv
<1>. QED
  BY <1>1, <1>3, <1>4, <1>6 DEF IsNew, IsReorg, Changed

LEMMA DeliveredStep ==
  ASSUME Base, LatestInv, DeliveredIsShown, [FeedNext]_feedVars
  PROVE  DeliveredIsShown'
<1>1. SUFFICES ASSUME open', NEW n \in DOMAIN held'
               PROVE  held'[n] \in skipped' \/ \E m \in Shown' : m.hash = held'[n]
  BY DEF DeliveredIsShown
<1>2. open
  BY <1>1 DEF FeedNext, Step, Age, Forward, Emit, Overdue, FeedFail, FeedDial, FeedConnect,
     FeedReplaceSlow, FeedReceive, FeedIngest, FeedReadOn, TrySend, Wait, SendGranted, FeedStop, Recv,
     DropFeed, feedVars
<1>3. Shown \subseteq Shown' /\ skipped \subseteq skipped'
  BY <1>1, ShownStep, SkippedStep
<1>4. ASSUME n \in DOMAIN held, held'[n] = held[n]
      PROVE  held'[n] \in skipped' \/ \E m \in Shown' : m.hash = held'[n]
  BY <1>2, <1>3, <1>4 DEF DeliveredIsShown
<1>5. ASSUME NEW s \in Source, FeedIngest(s), Claim(s)
      PROVE  held'[n] \in skipped' \/ \E m \in Shown' : m.hash = held'[n]
  <2>1. PICK i \in 1 .. relayed[s] : held' = Put(held, emitted[i], i) /\ latest'.hash = i
    BY <1>5, ClaimedBlock
  <2>2. CASE n # emitted[i]
    BY <1>4, <2>1, <2>2 DEF Put
  <2>3. CASE n = emitted[i]
    <3>1. held'[n] = latest'.hash
      BY <2>1, <2>3 DEF Put
    <3>2. CASE live[s]
      BY <1>5, <3>1, <3>2, ClaimedMessage, ShownClaimed
    <3>3. CASE ~live[s]
      BY <1>5, <3>1, <3>3, ClaimIsNews, SkippedStep
    <3>. QED
      BY <3>2, <3>3
  <2>. QED
    BY <2>2, <2>3
<1>6. CASE UNCHANGED <<highest_seq, seen, held, latest>>
  BY <1>1, <1>4, <1>6
<1>. QED
  BY <1>5, <1>6, ClaimOrNot

\* A copy is counted when a source drops an entry it did not claim.
LEMMA CopyDropped ==
  ASSUME Base, [FeedNext]_feedVars, NEW s \in Source, NEW i, Drops(s, i)
  PROVE  FeedIngest(s) /\ ~Claim(s) /\ todo' # todo /\ Head(todo[s]).hash = i
<1>. TypeOK /\ FeedTyped /\ stats'["duplicate"] > stats["duplicate"] /\ todo'[s] # todo[s]
  BY DEF Base, Typed, Drops
<1>1. stats' # stats
  BY DEF TypeOK, Counter
<1>2. PICK t \in Source : FeedIngest(t)
  BY <1>1 DEF FeedNext, Step, Age, Forward, Emit, Overdue, FeedFail, FeedDial, FeedConnect,
     FeedReplaceSlow, FeedReceive, FeedReadOn, TrySend, Wait, SendGranted, FeedStop, Recv,
     DropFeed, feedVars, vars, state, Dial, Connect, Fail, Receive, ReplaceSlow, ReadOn, Send, Stop
<1>3. t = s
  BY <1>2, IngestFlow DEF FeedIngest, Base
<1>4. ~Claim(s)
  BY SMTT(20) DEF Claim, CountFirst, TypeOK, Counter, Bit
<1>. QED
  BY <1>2, <1>3, <1>4 DEF Drops

(***************************************************************************)
(* As long as the sequencer never goes back, whatever the sources drop as  *)
(* copies is handed over by one of them, or was claimed from a backlog:    *)
(* races between sources and failing connections lose nothing.             *)
(***************************************************************************)
THEOREM LostCorrect ==
  ASSUME MaxReorgs = 0
  PROVE  FeedSpec => LostToBacklog
<1>. DEFINE Inv == Base /\ GapInv /\ Straight /\ LatestInv /\ DeliveredIsShown
<1>1. FeedInit => Inv
  <2>. SUFFICES ASSUME FeedInit PROVE Straight /\ LatestInv /\ DeliveredIsShown
    BY GapInit
  <2>1. Len(emitted) = 0 /\ DOMAIN held = {} /\ latest.hash = 0 /\ latest.seq = -1
    BY BlockAssumption DEF FeedInit, Init, Contract!Nothing
  <2>. QED
    BY <2>1 DEF Straight, LatestInv, DeliveredIsShown
<1>2. Inv /\ [FeedNext]_feedVars => Inv'
  <2>1. Base /\ Straight /\ [FeedNext]_feedVars => Straight'
    BY StraightStep DEF Base
  <2>. QED
    BY <2>1, GapStep, LatestStep, DeliveredStep
<1>3. ASSUME Inv, [FeedNext]_feedVars, NEW s \in Source, NEW i \in Blocks, open, Drops(s, i), i \notin skipped
      PROVE  \E m \in Shown : m.hash = i
  <2>1. FeedIngest(s) /\ ~Claim(s) /\ todo' # todo /\ Head(todo[s]).hash = i
    BY <1>3, CopyDropped
  <2>2. PICK j \in 1 .. Len(emitted) : Head(todo[s]) = EntryOf(j) /\ emitted[j] \in DOMAIN held
    BY <1>3, <2>1, DroppedIsHeld DEF GapInv
  <2>3. j = i /\ emitted[j] = j - 1
    BY <1>3, <2>1, <2>2 DEF EntryOf, Straight
  <2>4. held[emitted[j]] = j
    BY <1>3, <2>2, <2>3, HeldStraight DEF GapInv, Base
  <2>. QED
    BY <1>3, <2>2, <2>3, <2>4 DEF DeliveredIsShown
<1>4. Inv /\ [FeedNext]_feedVars
        => [\A s \in Source, i \in Blocks :
              open /\ Drops(s, i) /\ i \notin skipped => \E m \in Shown : m.hash = i]_stats
  BY <1>3
<1>. QED
  BY <1>1, <1>2, <1>4, PTL DEF FeedSpec, LostToBacklog

-----------------------------------------------------------------------------
(* The order in which one source's messages arrive *)

\* Every message of a queue is related by R to those after it, and every message
\* of one queue to those of another.
Ordered(R, q) == \A i, j \in DOMAIN q : i < j => <<q[i], q[j]>> \in R
Before(R, p, q) == \A a \in ToSet(p), b \in ToSet(q) : <<a, b>> \in R

\* From the consumer back to the source, which is the only one.
AllOrdered(R) ==
  /\ Ordered(R, consumed) /\ Ordered(R, channel) /\ Before(R, consumed, channel)
  /\ \A s \in Source : Ordered(R, out[s]) /\ Before(R, consumed, out[s]) /\ Before(R, channel, out[s])

\* Of two messages the second is newer, at all or unless it has a lower number.
Newer == {p \in Message \X Message : p[1].hash < p[2].hash}
NewerUnlessLower == {p \in Message \X Message : p[1].seq <= p[2].seq => p[1].hash < p[2].hash}

LEMMA OrderedAppend ==
  ASSUME NEW R, NEW q \in Seq(Message), NEW m \in Message, Ordered(R, q), \A a \in ToSet(q) : <<a, m>> \in R
  PROVE  Ordered(R, Append(q, m))
<1>1. /\ Len(q) \in Nat /\ DOMAIN q = 1 .. Len(q) /\ DOMAIN Append(q, m) = 1 .. Len(q) + 1
      /\ Append(q, m)[Len(q) + 1] = m /\ \A k \in 1 .. Len(q) : Append(q, m)[k] = q[k]
  BY AppendProperties, LenProperties
<1>2. \A k \in DOMAIN q : <<q[k], m>> \in R
  BY DEF ToSet
<1>3. \A j, k \in DOMAIN Append(q, m) : j < k =>
        /\ j \in DOMAIN q /\ Append(q, m)[j] = q[j]
        /\ \/ k \in DOMAIN q /\ Append(q, m)[k] = q[k]
           \/ k = Len(q) + 1 /\ Append(q, m)[k] = m
  BY <1>1
<1>. QED
  BY <1>2, <1>3 DEF Ordered

LEMMA OrderedTail ==
  ASSUME NEW R, NEW q \in Seq(Message), q # <<>>, Ordered(R, q)
  PROVE  Ordered(R, Tail(q)) /\ \A a \in ToSet(Tail(q)) : <<Head(q), a>> \in R
<1>1. /\ Len(q) \in Nat /\ DOMAIN q = 1 .. Len(q) /\ 1 \in DOMAIN q /\ Head(q) = q[1]
      /\ DOMAIN Tail(q) = 1 .. Len(q) - 1 /\ \A k \in 1 .. Len(q) - 1 : Tail(q)[k] = q[k + 1]
  BY HeadTailProperties, LenProperties, EmptySeq
<1>2. \A k \in DOMAIN Tail(q) : k \in Int /\ k + 1 \in DOMAIN q /\ 1 < k + 1 /\ Tail(q)[k] = q[k + 1]
  BY <1>1
<1>3. \A j, k \in DOMAIN Tail(q) : j < k => j + 1 < k + 1
  BY <1>2
<1>4. Ordered(R, Tail(q))
  BY <1>2, <1>3 DEF Ordered
<1>5. \A k \in DOMAIN Tail(q) : <<q[1], Tail(q)[k]>> \in R
  BY <1>1, <1>2 DEF Ordered
<1>. QED
  BY <1>1, <1>4, <1>5 DEF ToSet

LEMMA HashOfMessage == \A m \in Message : m.hash \in Nat
<1>1. \A m \in Message : m.hash \in Hash \cup {NoHash}
  BY DEF Message
<1>2. Hash \cup {NoHash} \subseteq Nat
  BY BlockAssumption
<1>. QED
  BY <1>1, <1>2

LEMMA ShownMessages ==
  ASSUME TypeOK, FeedTyped, NEW m \in Shown
  PROVE  m \in Message /\ m.hash \in Nat
<1>1. ASSUME NEW q \in Seq(Message), m \in ToSet(q) PROVE m \in Message
  BY <1>1, LenProperties, ElementOfSeq DEF ToSet
<1>2. m \in Message
  BY <1>1, ShownIn DEF TypeOK, FeedTyped
<1>. QED
  BY <1>2, HashOfMessage

LEMMA OrderedClaimed ==
  ASSUME NEW R, Alone, Base, AllOrdered(R), NEW s \in Source, UNCHANGED <<channel, consumed>>,
         NEW m \in Message, out' = [out EXCEPT ![s] = Append(out[s], m)], \A a \in Shown : <<a, m>> \in R
  PROVE  AllOrdered(R)'
<1>0. out \in [Source -> Seq(Message)]
  BY DEF Base, Typed, TypeOK
<1>. \A t \in Source : t = s
  BY DEF Alone
<1>1. out'[s] = Append(out[s], m) /\ ToSet(out'[s]) = ToSet(out[s]) \cup {m}
  BY <1>0, ToSetAppend
<1>2. /\ \A a \in ToSet(out[s]) : <<a, m>> \in R
      /\ \A a \in ToSet(consumed) : <<a, m>> \in R
      /\ \A a \in ToSet(channel) : <<a, m>> \in R
  BY ShownIn
<1>3. Ordered(R, out'[s])
  BY <1>0, <1>1, <1>2, OrderedAppend DEF AllOrdered
<1>4. Before(R, consumed, out'[s]) /\ Before(R, channel, out'[s])
  BY <1>1, <1>2 DEF AllOrdered, Before
<1>. QED
  BY <1>3, <1>4 DEF AllOrdered

LEMMA OrderedSent ==
  ASSUME NEW R, Alone, Base, AllOrdered(R), NEW s \in Source, out[s] # <<>>,
         out' = [out EXCEPT ![s] = Tail(out[s])], channel' = Append(channel, Head(out[s])), UNCHANGED consumed
  PROVE  AllOrdered(R)'
<1>0. out \in [Source -> Seq(Message)] /\ channel \in Seq(Message)
  BY DEF Base, Typed, TypeOK, FeedTyped
<1>. \A t \in Source : t = s
  BY DEF Alone
<1>. DEFINE m == Head(out[s])
<1>1. m \in Message /\ ToSet(out[s]) = ToSet(Tail(out[s])) \cup {m}
  BY <1>0, ToSetTail, HeadTailProperties
<1>2. out'[s] = Tail(out[s]) /\ ToSet(channel') = ToSet(channel) \cup {m}
  BY <1>0, <1>1, ToSetAppend
<1>3. Ordered(R, out'[s]) /\ \A a \in ToSet(out'[s]) : <<m, a>> \in R
  BY <1>0, <1>2, OrderedTail DEF AllOrdered
<1>4. \A a \in ToSet(consumed) \cup ToSet(channel) : <<a, m>> \in R
  BY <1>1 DEF AllOrdered, Before
<1>5. Ordered(R, channel')
  BY <1>0, <1>1, <1>4, OrderedAppend DEF AllOrdered
<1>. HIDE DEF m
<1>6. Before(R, consumed, channel')
  BY <1>2, <1>4 DEF AllOrdered, Before
<1>7. Before(R, consumed, out'[s]) /\ Before(R, channel', out'[s])
  BY <1>1, <1>2, <1>3 DEF AllOrdered, Before
<1>. QED
  BY <1>3, <1>5, <1>6, <1>7 DEF AllOrdered

LEMMA OrderedConsumed ==
  ASSUME NEW R, Base, AllOrdered(R), channel # <<>>, channel' = Tail(channel),
         consumed' = Append(consumed, Head(channel)), UNCHANGED out
  PROVE  AllOrdered(R)'
<1>0. channel \in Seq(Message) /\ consumed \in Seq(Message)
  BY DEF Base, FeedTyped
<1>. DEFINE m == Head(channel)
<1>1. m \in Message /\ ToSet(channel) = ToSet(channel') \cup {m}
  BY <1>0, ToSetTail, HeadTailProperties
<1>2. ToSet(consumed') = ToSet(consumed) \cup {m}
  BY <1>0, <1>1, ToSetAppend
<1>3. Ordered(R, channel') /\ \A a \in ToSet(channel') : <<m, a>> \in R
  BY <1>0, OrderedTail DEF AllOrdered
<1>4. \A a \in ToSet(consumed) : <<a, m>> \in R
  BY <1>1 DEF AllOrdered, Before
<1>5. Ordered(R, consumed')
  BY <1>0, <1>1, <1>4, OrderedAppend DEF AllOrdered
<1>. HIDE DEF m
<1>6. Before(R, consumed', channel')
  BY <1>1, <1>2, <1>3 DEF AllOrdered, Before
<1>7. \A s \in Source : Before(R, consumed', out[s]) /\ Before(R, channel', out[s])
  BY <1>1, <1>2 DEF AllOrdered, Before
<1>. QED
  BY <1>3, <1>5, <1>6, <1>7 DEF AllOrdered

\* The order is kept if what is claimed fits behind all that is on its way.
LEMMA OrderedStep ==
  ASSUME NEW R, Alone, Base, AllOrdered(R), [FeedNext]_feedVars,
         \A s \in Source, m \in Message :
           FeedIngest(s) /\ Claim(s) /\ m.hash = latest'.hash /\ m.seq = latest'.seq
             => \A a \in Shown : <<a, m>> \in R
  PROVE  AllOrdered(R)'
<1>1. Ordered(R, <<>>) /\ ToSet(<<>>) = {}
  BY DEF Ordered, ToSet
<1>2. CASE UNCHANGED <<out, channel, consumed>>
  BY <1>2 DEF AllOrdered
<1>3. ASSUME UNCHANGED consumed, channel' = <<>> \/ UNCHANGED channel,
             \A s \in Source : out'[s] = <<>> \/ out'[s] = out[s]
      PROVE  AllOrdered(R)'
  <2>1. Ordered(R, channel') /\ ToSet(channel') \subseteq ToSet(channel)
    BY <1>1, <1>3 DEF AllOrdered
  <2>2. ASSUME NEW s \in Source PROVE Ordered(R, out'[s]) /\ ToSet(out'[s]) \subseteq ToSet(out[s])
    BY <1>1, <1>3 DEF AllOrdered
  <2>. QED
    BY <1>3, <2>1, <2>2 DEF AllOrdered, Before
<1>4. ASSUME NEW s \in Source, out' = [out EXCEPT ![s] = <<>>]
      PROVE  \A t \in Source : out'[t] = <<>> \/ out'[t] = out[t]
  BY <1>4 DEF Base, Typed, TypeOK
<1>. QED
  BY <1>2, <1>3, <1>4, QueueStep, OrderedClaimed, OrderedSent, OrderedConsumed

\* The only source claims nothing older than what it showed with its number or a
\* lower one.
LEMMA ClaimForward ==
  ASSUME Base, OrderInv, ShownInv, NEW s \in Source, FeedIngest(s), Claim(s),
         NEW m \in Message, m.hash = latest'.hash, m.seq = latest'.seq, NEW a \in Shown
  PROVE  <<a, m>> \in NewerUnlessLower
<1>. FeedTyped /\ TypeOK /\ Flow /\ HeldInv /\ Order
  BY DEF Base, Typed, OrderInv
<1>1. a \in Message /\ a.hash \in Nat
  BY ShownMessages
<1>2. PICK i \in Pending(s) : /\ latest'.hash = i /\ latest'.seq = emitted[i]
                              /\ IsNew(emitted[i], i) \/ IsReorg(emitted[i], i)
  <2>1. \E i \in 1 .. relayed[s] : /\ i \in Pending(s) /\ latest'.hash = i /\ latest'.seq = emitted[i]
                                   /\ IsNew(emitted[i], i) \/ IsReorg(emitted[i], i)
    BY ClaimedBlock
  <2>. QED
    BY <2>1
<1>3. a.seq \in DOMAIN held /\ a.hash <= held[a.seq] /\ held[a.seq] \in Int
  BY DEF ShownInv, HeldInv
<1>4. ASSUME a.seq <= m.seq PROVE a.hash < m.hash
  <2>1. held[a.seq] < i
    BY <1>2, <1>3, <1>4, ClaimedIsNewer
  <2>2. i \in Int
    BY PendingOfRelay DEF Flow
  <2>. QED
    BY <1>1, <1>2, <1>3, <2>1, <2>2
<1>. QED
  BY <1>1, <1>4 DEF NewerUnlessLower

LEMMA NothingOrdered ==
  ASSUME NEW R, FeedInit
  PROVE  AllOrdered(R) /\ ShownInv /\ LatestInv /\ Shown = {}
<1>1. /\ consumed = <<>> /\ channel = <<>> /\ latest.hash = 0 /\ latest.seq = -1
      /\ \A s \in Source : out[s] = <<>>
  BY BlockAssumption DEF FeedInit, Init, Contract!Nothing
<1>2. ToSet(<<>>) = {} /\ Ordered(R, <<>>)
  BY DEF ToSet, Ordered
<1>3. Shown = {}
  BY <1>1, <1>2, ShownIn
<1>. QED
  BY <1>1, <1>2, <1>3 DEF AllOrdered, Before, LatestInv, ShownInv

(***************************************************************************)
(* What a single source delivers goes forward, whatever the sequencer goes *)
(* back to and however many connections fail: the consumer gets an older   *)
(* block after a newer one only with a step back to a lower number.        *)
(***************************************************************************)
THEOREM ForwardCorrect ==
  ASSUME Alone
  PROVE  FeedSpec => []ConsumedForward
<1>. DEFINE Inv == Base /\ OrderInv /\ ShownInv /\ AllOrdered(NewerUnlessLower)
<1>1. FeedInit => Inv
  BY FeedTypedInit, OrderInit, NothingOrdered DEF Base
<1>2. Inv /\ [FeedNext]_feedVars => Inv'
  BY BaseStep, OrderStep, ShownInvStep, OrderedStep, ClaimForward
<1>3. Inv => ConsumedForward
  BY DEF AllOrdered, Ordered, NewerUnlessLower, ConsumedForward
<1>. QED
  BY <1>1, <1>2, <1>3, PTL DEF FeedSpec

\* A source that is alone is never asked to replace its connection.
NeverSlow == \A s \in Source : ~slow[s] /\ ~replace[s]

LEMMA AloneIsNotSlow ==
  ASSUME Alone, TypeOK, NeverSlow, NEW s \in Source, NEW w, CheckSlow(s, w)
  PROVE  \A t \in Source : ~replace'[t]
<1>1. {o \in Source : connected[o]} = {} \/ {o \in Source : connected[o]} = {s}
  <2>1. \A o \in Source : o = s
    BY DEF Alone
  <2>2. CASE connected[s]
    BY <2>1, <2>2
  <2>3. CASE ~connected[s]
    BY <2>1, <2>3
  <2>. QED
    BY <2>2, <2>3
<1>2. Cardinality({o \in Source : connected[o]}) \in {0, 1}
  BY <1>1, FS_EmptySet, FS_Singleton
<1>3. ~(Cardinality({o \in Source : connected[o]}) > 1)
  BY <1>2
<1>4. replace' = [replace EXCEPT ![s] = replace[s]]
  BY <1>3 DEF CheckSlow, TypeOK, NeverSlow
<1>. QED
  BY <1>4 DEF NeverSlow, TypeOK

LEMMA NeverSlowStep ==
  ASSUME Alone, Typed, NeverSlow, [Next]_vars
  PROVE  NeverSlow'
<1>. TypeOK
  BY DEF Typed
<1>1. ASSUME NEW s \in Source, NEW n, LateCopy(s, n) PROVE \A t \in Source : ~replace'[t]
  BY <1>1, AloneIsNotSlow DEF LateCopy, NeverSlow
<1>2. ASSUME NEW s \in Source, NEW r, CountFirst(s, r) PROVE \A t \in Source : ~replace'[t]
  BY <1>2, AloneIsNotSlow DEF CountFirst, NeverSlow
<1>3. ASSUME NEW s \in Source, Ingest(s) PROVE NeverSlow'
  <2>1. CASE DropCopy(s) \/ LoseRace(s)
    BY <1>1, <2>1 DEF DropCopy, LoseRace, NeverSlow
  <2>2. CASE Claim(s)
    BY <1>2, <2>2 DEF Claim, NeverSlow
  <2>3. CASE Accept(s) \/ Reject(s) \/ TakeReplace(s)
    BY <2>3, ZenonT(40) DEF Accept, Reject, TakeReplace, NeverSlow, state, TypeOK
  <2>. QED
    BY <1>3, <2>1, <2>2, <2>3 DEF Ingest
<1>4. ASSUME NEW s \in Source,
             \/ Dial(s) \/ Connect(s) \/ Fail(s) \/ Send(s) \/ ReadOn(s) \/ ReplaceSlow(s)
             \/ \E frame \in Frames, current \in BOOLEAN : Receive(s, frame, current)
             \/ \E aborted \in BOOLEAN : Stop(s, aborted)
      PROVE  NeverSlow'
  <2>1. replace' = replace /\ (slow' = slow \/ slow' = [slow EXCEPT ![s] = FALSE])
    BY <1>4 DEF Dial, Connect, Fail, Send, ReadOn, ReplaceSlow, Receive, Stop, state
  <2>2. slow \in [Source -> BOOLEAN]
    BY DEF TypeOK
  <2>. QED
    BY <2>1, <2>2 DEF NeverSlow
<1>5. CASE UNCHANGED vars
  BY <1>5 DEF vars, state, task, NeverSlow
<1>. QED
  BY <1>3, <1>4, <1>5 DEF Next

\* On its only connection a source has only newer blocks before it.
OneConnection ==
  \A s \in Source :
    /\ pc[s] \in {"idle", "dialing"} => latest.hash = 0
    /\ latest.hash <= relayed[s]
    /\ \A i \in Pending(s) : latest.hash < i

LEMMA OneConnectionStep ==
  ASSUME Alone, MaxReconnects = 0, Base, NeverSlow, OneConnection, [FeedNext]_feedVars
  PROVE  OneConnection'
<1>. TypeOK /\ FeedTyped /\ Flow
  BY DEF Base, Typed
<1>0. /\ latest.hash \in Nat /\ relayed \in [Source -> Nat]
      /\ \A s \in Source : \A i \in Pending(s) : i \in Nat
  <2>1. latest.hash \in Nat
    BY BlockAssumption DEF TypeOK, Hashes
  <2>2. \A s \in Source : \A i \in Pending(s) : i \in Nat
    BY PendingOfRelay DEF Flow
  <2>. QED
    BY <2>1, <2>2 DEF FeedTyped
<1>1. ASSUME NEW s \in Source, FeedIngest(s), Claim(s) PROVE OneConnection'
  <2>1. PICK i \in 1 .. relayed[s] :
          /\ latest'.hash = i /\ UNCHANGED relayed
          /\ \A j \in Pending(s)' : i < j
    BY <1>1, ClaimedBlock
  <2>2. pc'[s] = "checking"
    BY <1>1 DEF Claim, TypeOK
  <2>3. latest'.hash <= relayed'[s]
    BY <1>0, <2>1
  <2>. SUFFICES ASSUME NEW t \in Source
                PROVE  /\ pc'[t] \in {"idle", "dialing"} => latest'.hash = 0
                       /\ latest'.hash <= relayed'[t]
                       /\ \A j \in Pending(t)' : latest'.hash < j
    BY DEF OneConnection
  <2>4. t = s
    BY DEF Alone
  <2>. QED
    BY <2>1, <2>2, <2>3, <2>4
<1>2. ASSUME UNCHANGED latest PROVE OneConnection'
  <2>. SUFFICES ASSUME NEW s \in Source
                PROVE  /\ pc'[s] \in {"idle", "dialing"} => latest.hash = 0
                       /\ latest.hash <= relayed'[s]
                       /\ \A j \in Pending(s)' : latest.hash < j
    BY <1>2 DEF OneConnection
  <2>1. pc'[s] \in {"idle", "dialing"} => pc[s] \in {"idle", "dialing"}
    <3>1. [Next]_vars
      BY FeedIsDedupStep DEF Base
    <3>2. ASSUME NEW t \in Source, Fail(t) \/ ReplaceSlow(t) PROVE FALSE
      <4>1. sources[t].reconnects \in Nat
        BY DEF TypeOK, SourceStats
      <4>. QED
        BY <3>2, <4>1 DEF Fail, ReplaceSlow, NeverSlow
    <3>3. ASSUME NEW t \in Source, Ingest(t) PROVE pc'[s] \in {pc[s], "checking", "accepting", "sending"}
      BY <3>3, IngestFlow DEF Base
    <3>4. ASSUME NEW t \in Source,
                 \/ Dial(t) \/ Connect(t) \/ Send(t) \/ ReadOn(t)
                 \/ \E frame \in Frames, current \in BOOLEAN : Receive(t, frame, current)
                 \/ \E aborted \in BOOLEAN : Stop(t, aborted)
          PROVE  pc'[s] \in {pc[s], "reading", "checking", "stopped"} \/ pc[s] = "idle"
      BY <3>4 DEF Dial, Connect, Send, ReadOn, Receive, Stop, TypeOK
    <3>5. CASE UNCHANGED vars
      BY <3>5 DEF vars, task
    <3>. QED
      BY <3>1, <3>2, <3>3, <3>4, <3>5 DEF Next
  <2>2. CASE Pending(s)' = Pending(s) /\ relayed'[s] = relayed[s]
    BY <2>1, <2>2 DEF OneConnection
  <2>3. CASE Pending(s)' = {} /\ relayed'[s] = relayed[s]
    BY <2>1, <2>3 DEF OneConnection
  <2>4. CASE Forward(s)
    <3>1. relayed'[s] = relayed[s] + 1
      BY <1>0, <2>4 DEF Forward
    <3>2. \A j \in Pending(s)' : j \in Pending(s) \/ j = relayed[s] + 1
      BY <2>4, PendingForwarded
    <3>3. latest.hash <= relayed[s] /\ relayed[s] \in Nat
      BY <1>0 DEF OneConnection
    <3>4. latest.hash <= relayed'[s] /\ latest.hash < relayed[s] + 1
      BY <1>0, <3>1, <3>3
    <3>5. \A j \in Pending(s)' : latest.hash < j
      BY <3>2, <3>4 DEF OneConnection
    <3>. QED
      BY <2>1, <3>4, <3>5 DEF OneConnection
  <2>5. CASE FeedConnect(s)
    <3>1. latest.hash = 0
      BY <2>5 DEF FeedConnect, Connect, OneConnection
    <3>2. Pending(s)' = Backlog(s, asked[s]) /\ relayed' = relayed
      BY <2>5, PendingConnected
    <3>3. \A j \in Backlog(s, asked[s]) : 0 < j
      BY DEF Backlog, Chain
    <3>. QED
      BY <1>0, <2>1, <3>1, <3>2, <3>3
  <2>6. CASE /\ FeedIngest(s) /\ todo[s] # <<>> /\ todo'[s] = Tail(todo[s])
             /\ relayed'[s] = relayed[s] /\ stream'[s] = stream[s]
    <3>1. Pending(s)' \subseteq Pending(s)
      BY <2>6, PendingTail DEF Flow
    <3>. QED
      BY <2>1, <2>6, <3>1 DEF OneConnection
  <2>. QED
    BY <2>2, <2>3, <2>4, <2>5, <2>6, PendingStep
<1>. QED
  BY <1>1, <1>2, ClaimOrNot

\* What is shown is not newer than the last delivery.
ShownBefore == \A a \in Shown : a.hash <= latest.hash

\* A single source claims newer and newer blocks: on its only connection, or from
\* a sequencer that never goes back.
LEMMA ClaimAscends ==
  ASSUME Alone, MaxReorgs = 0 \/ MaxReconnects = 0, Base, OrderInv, LatestInv,
         MaxReconnects = 0 => OneConnection,
         NEW s \in Source, FeedIngest(s), Claim(s)
  PROVE  latest.hash < latest'.hash
<1>. FeedTyped /\ TypeOK /\ Flow /\ HeldInv /\ Order /\ WindowInv
  BY DEF Base, Typed, OrderInv
<1>1. PICK i \in Pending(s) : /\ latest'.hash = i /\ emitted[i] \in SeqNum
                              /\ IsNew(emitted[i], i) \/ IsReorg(emitted[i], i)
  <2>1. \E i \in 1 .. relayed[s] : /\ i \in Pending(s) /\ latest'.hash = i /\ emitted[i] \in SeqNum
                                   /\ IsNew(emitted[i], i) \/ IsReorg(emitted[i], i)
    BY ClaimedBlock
  <2>. QED
    BY <2>1
<1>2. i \in 1 .. Len(emitted) /\ emitted[i] \in Nat
  BY PendingOfRelay DEF Flow
<1>3. CASE MaxReconnects = 0
  BY <1>1, <1>3 DEF OneConnection
<1>4. CASE MaxReorgs = 0 /\ latest.seq = -1
  BY <1>1, <1>2, <1>4 DEF LatestInv
<1>5. CASE MaxReorgs = 0 /\ latest.seq # -1
  <2>1. Straight
    BY <1>5 DEF OrderInv
  <2>2. latest.seq = highest_seq /\ latest.seq \in DOMAIN held /\ latest.hash = held[latest.seq]
    BY <1>5 DEF WindowInv, WatermarkRemembered, WindowIsHistory, LatestInv
  <2>3. latest.seq <= emitted[i]
    <3>1. ASSUME emitted[i] \in DOMAIN seen PROVE seen[emitted[i]] = i
      <4>1. emitted[i] \in DOMAIN held /\ seen[emitted[i]] = held[emitted[i]]
        BY <3>1 DEF WindowInv, WindowIsHistory
      <4>2. held[emitted[i]] = emitted[i] + 1
        BY <2>1, <4>1, HeldStraight
      <4>. QED
        BY <1>2, <2>1, <4>1, <4>2 DEF Straight
    <3>2. ~IsReorg(emitted[i], i)
      BY <3>1 DEF IsReorg, Changed
    <3>3. highest_seq \in Int
      BY SeqNumAssumption DEF TypeOK, Number
    <3>. QED
      BY <1>1, <1>2, <2>2, <3>2, <3>3 DEF IsNew
  <2>. QED
    BY <1>1, <2>2, <2>3, ClaimedIsNewer
<1>. QED
  BY <1>3, <1>4, <1>5

LEMMA ShownBeforeStep ==
  ASSUME Base, ShownBefore, [FeedNext]_feedVars,
         \A s \in Source : FeedIngest(s) /\ Claim(s) => latest.hash < latest'.hash
  PROVE  ShownBefore'
<1>1. /\ latest.hash \in Int /\ latest'.hash \in Int
      /\ \A m \in Shown : m.hash \in Int
  <2>1. TypeOK /\ TypeOK' /\ FeedTyped
    BY BaseStep DEF Base, Typed
  <2>2. latest.hash \in Hashes /\ latest'.hash \in Hashes
    BY <2>1 DEF TypeOK
  <2>. QED
    BY <2>1, <2>2, BlockAssumption, ShownMessages DEF Hashes
<1>2. CASE \E s \in Source : FeedIngest(s) /\ Claim(s)
  <2>1. \A m \in Shown' : m \in Shown \/ m.hash = latest'.hash
    BY ShownStep
  <2>2. latest.hash < latest'.hash
    BY <1>2
  <2>. QED
    BY <1>1, <2>1, <2>2 DEF ShownBefore
<1>3. CASE ~\E s \in Source : FeedIngest(s) /\ Claim(s)
  <2>1. latest' = latest /\ Shown' \subseteq Shown
    BY <1>3, ClaimOrNot, ShownStep
  <2>. QED
    BY <2>1 DEF ShownBefore
<1>. QED
  BY <1>2, <1>3

(***************************************************************************)
(* The messages of a single source reach the consumer in the order the     *)
(* sequencer emitted their blocks, on one connection whatever the          *)
(* sequencer does, and over any number of connections as long as it does   *)
(* not go back.                                                            *)
(***************************************************************************)
THEOREM InOrderCorrect ==
  ASSUME Alone, MaxReorgs = 0 \/ MaxReconnects = 0
  PROVE  FeedSpec => []ConsumedInOrder
<1>. DEFINE Inv == /\ Base /\ OrderInv /\ LatestInv /\ ShownBefore /\ AllOrdered(Newer) /\ NeverSlow
                   /\ MaxReconnects = 0 => OneConnection
<1>1. FeedInit => Inv
  <2>. SUFFICES ASSUME FeedInit PROVE LatestInv /\ ShownBefore /\ AllOrdered(Newer) /\ NeverSlow /\ OneConnection
    BY FeedTypedInit, OrderInit DEF Base
  <2>1. latest.hash = 0 /\ \A s \in Source : /\ todo[s] = <<>> /\ stream[s] = <<>> /\ relayed[s] = 0
                                             /\ ~slow[s] /\ ~replace[s]
    BY BlockAssumption DEF FeedInit, Init, Contract!Nothing
  <2>2. \A s \in Source : Pending(s) = {}
    BY <2>1 DEF Pending
  <2>3. LatestInv /\ ShownBefore /\ AllOrdered(Newer)
    BY NothingOrdered DEF ShownBefore
  <2>. QED
    BY <2>1, <2>2, <2>3 DEF NeverSlow, OneConnection
<1>2. Inv /\ [FeedNext]_feedVars => Inv'
  <2>. SUFFICES ASSUME Inv, [FeedNext]_feedVars PROVE Inv'
    OBVIOUS
  <2>1. \A s \in Source : FeedIngest(s) /\ Claim(s) => latest.hash < latest'.hash
    BY ClaimAscends
  <2>2. ASSUME NEW s \in Source, NEW m \in Message, FeedIngest(s), Claim(s), m.hash = latest'.hash, NEW a \in Shown
        PROVE  <<a, m>> \in Newer
    <3>1. a \in Message /\ a.hash \in Int /\ m.hash \in Int /\ latest.hash \in Int
      <4>1. latest.hash \in Hashes
        BY DEF Base, Typed, TypeOK
      <4>. QED
        BY <4>1, BlockAssumption, HashOfMessage, ShownMessages DEF Base, Typed, Hashes
    <3>2. a.hash <= latest.hash /\ latest.hash < m.hash
      BY <2>1, <2>2 DEF ShownBefore
    <3>. QED
      BY <3>1, <3>2 DEF Newer
  <2>3. AllOrdered(Newer)'
    BY <2>2, OrderedStep
  <2>4. Base' /\ OrderInv' /\ LatestInv' /\ ShownBefore'
    BY <2>1, BaseStep, OrderStep, LatestStep, ShownBeforeStep
  <2>5. NeverSlow'
    BY FeedIsDedupStep, NeverSlowStep DEF Base
  <2>6. MaxReconnects = 0 => OneConnection'
    BY OneConnectionStep
  <2>. QED
    BY <2>3, <2>4, <2>5, <2>6
<1>3. Inv => ConsumedInOrder
  BY DEF AllOrdered, Ordered, Newer, ConsumedInOrder
<1>. QED
  BY <1>1, <1>2, <1>3, PTL DEF FeedSpec
=============================================================================

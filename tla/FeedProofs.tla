----------------------------- MODULE FeedProofs -----------------------------
(***************************************************************************)
(* What a whole Feed promises for every number of sources, every capacity  *)
(* of the channel and every bound.  The inductive invariant has the parts  *)
(* Typed and WindowInv of DedupProofs, FeedTyped, the types, and Flow, how *)
(* the blocks under way to a source relate to what its relay has.  On top  *)
(* of these, each promise has an invariant of its own.                     *)
(*                                                                         *)
(* Two of them have known exceptions, where several sources meet a reorg.  *)
(* Their absence is a hypothesis of the theorem: a single source, or a     *)
(* sequencer that never goes back.                                         *)
(***************************************************************************)
EXTENDS Feed, DedupProofs, SequenceTheorems

\* Every type of the variables this module adds.
FeedTyped ==
  /\ emitted \in Seq(SeqNum) /\ Len(emitted) <= MaxBlocks
  /\ aged \in Nat
  /\ relayed \in [Source -> Nat]
  /\ stream \in [Source -> Seq(Hash)]
  /\ overdue \in [Source -> BOOLEAN]
  /\ channel \in Seq(Message) /\ consumed \in Seq(Message)
  /\ waiters \in Seq(Source)
  /\ granted \subseteq Source /\ IsFiniteSet(granted)
  /\ open \in BOOLEAN

\* A frame in hand holds blocks of the relay in the order they were emitted.
FrameInv(s) ==
  /\ \A k \in DOMAIN todo[s] : /\ todo[s][k].hash \in 1 .. relayed[s]
                               /\ todo[s][k] = EntryOf(todo[s][k].hash)
  /\ \A j, k \in DOMAIN todo[s] : j < k => todo[s][j].hash < todo[s][k].hash
  /\ pc[s] \notin {"checking", "accepting"} => todo[s] = <<>>

\* So does the connection, and they come after the frame.
StreamInv(s) ==
  /\ \A k \in DOMAIN stream[s] : stream[s][k] \in 1 .. relayed[s]
  /\ \A j, k \in DOMAIN stream[s] : j < k => stream[s][j] < stream[s][k]
  /\ \A j \in DOMAIN todo[s], k \in DOMAIN stream[s] : todo[s][j].hash < stream[s][k]
  /\ ~Online(s) => stream[s] = <<>>

Flowing(s) == relayed[s] <= Len(emitted) /\ FrameInv(s) /\ StreamInv(s)

Flow == \A s \in Source : Flowing(s)

-----------------------------------------------------------------------------
(* The sources of a Feed are sources of Dedup *)

LEMMA EntryOfType ==
  ASSUME FeedTyped, NEW i \in 1 .. Len(emitted)
  PROVE  EntryOf(i) \in Entry
<1>1. emitted[i] \in SeqNum
  BY DEF FeedTyped
<1>2. i \in Hash
  BY BlockAssumption DEF FeedTyped
<1>. QED
  BY <1>1, <1>2 DEF EntryOf, Entry, Number, Hashes, Signature

\* A frame taken from the connection is a frame of the blocks' entries.
LEMMA NextFrame ==
  ASSUME FeedTyped, Flow, NEW s \in Source, NEW k \in 1 .. Len(stream[s]), k <= MaxFrame
  PROVE  /\ [i \in 1 .. k |-> EntryOf(SubSeq(stream[s], 1, k)[i])] \in Frames
         /\ \A i \in 1 .. k : SubSeq(stream[s], 1, k)[i] = stream[s][i]
         /\ SubSeq(stream[s], k + 1, Len(stream[s])) \in Seq(Hash)
         /\ Len(SubSeq(stream[s], k + 1, Len(stream[s]))) = Len(stream[s]) - k
         /\ \A i \in 1 .. Len(stream[s]) - k :
              SubSeq(stream[s], k + 1, Len(stream[s]))[i] = stream[s][k + i]
<1>. DEFINE q == stream[s]
<1>1. q \in Seq(Hash) /\ Len(q) \in Nat /\ k \in Nat /\ \A i \in 1 .. Len(q) : q[i] \in Hash
  BY DEF FeedTyped
<1>. HIDE DEF q
<1>2. \A i \in 1 .. k : SubSeq(q, 1, k)[i] = q[i]
  BY <1>1, SubSeqProperties DEF q
<1>3. /\ SubSeq(q, k + 1, Len(q)) \in Seq(Hash)
      /\ Len(SubSeq(q, k + 1, Len(q))) = Len(q) - k
      /\ \A i \in 1 .. Len(q) - k : SubSeq(q, k + 1, Len(q))[i] = q[k + i]
  BY <1>1, SubSeqProperties DEF q
<1>4. \A i \in 1 .. k : q[i] \in 1 .. Len(emitted)
  BY <1>1 DEF Flow, Flowing, StreamInv, q, FeedTyped
<1>5. \A i \in 1 .. k : EntryOf(q[i]) \in Entry
  BY <1>4, EntryOfType
<1>6. [i \in 1 .. k |-> EntryOf(SubSeq(q, 1, k)[i])] \in [1 .. k -> Entry]
  BY <1>2, <1>5
<1>7. k \in 0 .. MaxFrame
  BY BoundAssumption
<1>. QED
  BY <1>2, <1>3, <1>6, <1>7 DEF q, Frames, BoundedSeq, SeqOf

LEMMA FeedIsDedupStep ==
  ASSUME FeedTyped, Flow, [FeedNext]_feedVars
  PROVE  [Next]_vars
<1>1. ASSUME NEW s \in Source, FeedReceive(s) PROVE Next
  <2>. PICK k \in 1 .. Len(stream[s]) :
         /\ k <= MaxFrame
         /\ Receive(s, [i \in 1 .. k |-> EntryOf(SubSeq(stream[s], 1, k)[i])],
                    Recent(Last(SubSeq(stream[s], 1, k))) \/ overdue[s])
    BY <1>1 DEF FeedReceive
  <2>. DEFINE frame == [i \in 1 .. k |-> EntryOf(SubSeq(stream[s], 1, k)[i])]
              current == Recent(Last(SubSeq(stream[s], 1, k))) \/ overdue[s]
  <2>1. frame \in Frames /\ current \in BOOLEAN
    BY NextFrame DEF FeedTyped, Recent
  <2>2. Receive(s, frame, current)
    OBVIOUS
  <2>. HIDE DEF frame, current
  <2>. QED
    BY <2>1, <2>2 DEF Next
<1>2. ASSUME NEW s \in Source,
             \/ FeedFail(s) \/ FeedDial(s) \/ FeedConnect(s) \/ FeedReplaceSlow(s)
             \/ FeedIngest(s) \/ FeedReadOn(s) \/ TrySend(s) \/ SendGranted(s)
             \/ \E aborted \in BOOLEAN : FeedStop(s, aborted)
      PROVE  Next
  BY <1>2 DEF FeedFail, FeedDial, FeedConnect, FeedReplaceSlow, FeedIngest, FeedReadOn, TrySend,
       SendGranted, FeedStop, Next
<1>3. ASSUME NEW s \in Source, Forward(s) \/ Overdue(s) \/ Wait(s) PROVE UNCHANGED vars
  BY <1>3 DEF Forward, Overdue, Wait
<1>4. CASE Age \/ Recv \/ DropFeed \/ \E n \in SeqNum : Emit(n)
  BY <1>4 DEF Age, Recv, DropFeed, Emit
<1>5. CASE UNCHANGED feedVars
  BY <1>5 DEF feedVars
<1>. QED
  BY <1>1, <1>2, <1>3, <1>4, <1>5 DEF FeedNext, Step

\* What a relay sends to a new connection, as a sequence.
LEMMA BacklogBlocks ==
  ASSUME FeedTyped, Flow, NEW s \in Source, NEW q \in Ascending(Backlog(s, asked[s]))
  PROVE  /\ q \in Seq(Hash)
         /\ Range(q) = Backlog(s, asked[s])
         /\ \A k \in DOMAIN q : q[k] \in 1 .. relayed[s]
         /\ \A j, k \in DOMAIN q : j < k => q[j] < q[k]
<1>. DEFINE blocks == Backlog(s, asked[s])
<1>1. relayed[s] \in Nat /\ relayed[s] <= Len(emitted) /\ Len(emitted) <= MaxBlocks /\ Len(emitted) \in Nat
  BY DEF FeedTyped, Flow, Flowing
<1>2. blocks \subseteq 1 .. relayed[s]
  BY DEF Backlog, Chain
<1>3. 1 .. relayed[s] \subseteq Hash
  BY <1>1, BlockAssumption
<1>4. IsFiniteSet(blocks)
  BY <1>1, <1>2, FS_Interval, FS_Subset
<1>5. Cardinality(blocks) \in Nat
  BY <1>4, FS_CardinalityType
<1>. HIDE DEF blocks
<1>6. q \in [1 .. Cardinality(blocks) -> blocks] /\ Range(q) = blocks
      /\ \A j, k \in DOMAIN q : j < k => q[j] < q[k]
  BY DEF Ascending, blocks
<1>7. q \in Seq(blocks)
  BY <1>5, <1>6
<1>8. q \in Seq(Hash)
  BY <1>2, <1>3, <1>7, SeqMonotonic
<1>. QED
  BY <1>2, <1>6, <1>8 DEF blocks

LEMMA FeedTypeInit == FeedInit => FeedTyped
<1>. SUFFICES ASSUME FeedInit PROVE FeedTyped
  OBVIOUS
<1>1. emitted \in Seq(SeqNum) /\ Len(emitted) <= MaxBlocks
  BY BlockAssumption DEF FeedInit
<1>2. stream \in [Source -> Seq(Hash)]
  BY DEF FeedInit
<1>3. channel \in Seq(Message) /\ consumed \in Seq(Message) /\ waiters \in Seq(Source)
  BY DEF FeedInit
<1>. QED
  BY <1>1, <1>2, <1>3, FS_EmptySet DEF FeedInit, FeedTyped

LEMMA FeedTypeStep ==
  ASSUME Typed, FeedTyped, Flow, [FeedNext]_feedVars
  PROVE  FeedTyped'
<1>. USE DEF world, wire, queue
<1>. TypeOK
  BY DEF Typed
<1>1. ASSUME NEW n \in SeqNum, Emit(n) PROVE FeedTyped'
  <2>1. emitted' \in Seq(SeqNum) /\ Len(emitted') <= MaxBlocks
    BY <1>1, BlockAssumption DEF Emit, FeedTyped
  <2>. QED
    BY <1>1, <2>1 DEF Emit, FeedTyped
<1>2. CASE Age
  BY <1>2 DEF Age, FeedTyped
<1>3. ASSUME NEW s \in Source, Forward(s) PROVE FeedTyped'
  <2>1. relayed[s] + 1 \in Nat /\ relayed[s] + 1 \in Hash
    BY <1>3, BlockAssumption DEF Forward, FeedTyped
  <2>2. stream' \in [Source -> Seq(Hash)]
    <3>1. stream[s] \in Seq(Hash) /\ stream \in [Source -> Seq(Hash)]
      BY DEF FeedTyped
    <3>2. Append(stream[s], relayed[s] + 1) \in Seq(Hash)
      BY <2>1, <3>1, AppendProperties
    <3>. QED
      BY <1>3, <3>1, <3>2 DEF Forward
  <2>4. relayed' \in [Source -> Nat]
    BY <1>3, <2>1 DEF Forward, FeedTyped
  <2>5. UNCHANGED <<emitted, aged, overdue, channel, consumed, waiters, granted, open>>
    BY <1>3 DEF Forward
  <2>. QED
    BY <2>2, <2>4, <2>5 DEF FeedTyped
<1>4. ASSUME NEW s \in Source, FeedConnect(s) PROVE FeedTyped'
  <2>1. stream' \in [Source -> Seq(Hash)]
    BY <1>4, BacklogBlocks DEF FeedConnect, FeedTyped
  <2>. QED
    BY <1>4, <2>1 DEF FeedConnect, FeedTyped
<1>5. ASSUME NEW s \in Source, FeedFail(s) \/ FeedReplaceSlow(s) \/ \E a \in BOOLEAN : FeedStop(s, a)
      PROVE  FeedTyped'
  <2>1. stream' = [stream EXCEPT ![s] = <<>>]
    BY <1>5 DEF FeedFail, FeedReplaceSlow, FeedStop
  <2>2. stream' \in [Source -> Seq(Hash)]
    BY <2>1 DEF FeedTyped
  <2>3. UNCHANGED <<emitted, aged, relayed, overdue, channel, consumed, waiters, granted, open>>
    BY <1>5 DEF FeedFail, FeedReplaceSlow, FeedStop
  <2>. QED
    BY <2>2, <2>3 DEF FeedTyped
<1>6. ASSUME NEW s \in Source, FeedReceive(s) PROVE FeedTyped'
  <2>. PICK k \in 1 .. Len(stream[s]) :
         /\ k <= MaxFrame
         /\ stream' = [stream EXCEPT ![s] = SubSeq(@, k + 1, Len(@))]
         /\ UNCHANGED <<world, overdue, queue, open>>
    BY <1>6 DEF FeedReceive
  <2>1. SubSeq(stream[s], k + 1, Len(stream[s])) \in Seq(Hash)
    BY NextFrame
  <2>2. stream' \in [Source -> Seq(Hash)]
    BY <2>1 DEF FeedTyped
  <2>3. UNCHANGED <<emitted, aged, relayed, overdue, channel, consumed, waiters, granted, open>>
    OBVIOUS
  <2>. QED
    BY <2>2, <2>3 DEF FeedTyped
<1>7. ASSUME NEW s \in Source, FeedDial(s) \/ FeedIngest(s) \/ FeedReadOn(s) \/ Overdue(s)
      PROVE  FeedTyped'
  BY <1>7 DEF FeedDial, FeedIngest, FeedReadOn, Overdue, FeedTyped
<1>8. ASSUME NEW s \in Source, TrySend(s) \/ SendGranted(s) PROVE FeedTyped'
  <2>1. out[s] \in Seq(Message) /\ out[s] # <<>>
    BY <1>8 DEF TrySend, SendGranted, Send, TypeOK
  <2>2. channel' \in Seq(Message)
    <3>1. channel' = Append(channel, Head(out[s]))
      BY <1>8 DEF TrySend, SendGranted
    <3>2. Head(out[s]) \in Message /\ channel \in Seq(Message)
      BY <2>1, HeadTailProperties DEF FeedTyped
    <3>. QED
      BY <3>1, <3>2, AppendProperties
  <2>3. granted' \subseteq Source /\ IsFiniteSet(granted')
    BY <1>8, FS_Subset DEF TrySend, SendGranted, FeedTyped
  <2>. QED
    BY <1>8, <2>2, <2>3 DEF TrySend, SendGranted, FeedTyped
<1>9. ASSUME NEW s \in Source, Wait(s) PROVE FeedTyped'
  BY <1>9 DEF Wait, FeedTyped
<1>10. CASE Recv
  <2>0. channel \in Seq(Message) /\ consumed \in Seq(Message) /\ waiters \in Seq(Source)
    BY DEF FeedTyped
  <2>1. channel' \in Seq(Message) /\ consumed' \in Seq(Message)
    <3>1. channel # <<>> /\ channel' = Tail(channel) /\ consumed' = Append(consumed, Head(channel))
      BY <1>10 DEF Recv
    <3>. QED
      BY <2>0, <3>1, HeadTailProperties, AppendProperties
  <2>2. waiters' \in Seq(Source) /\ granted' \subseteq Source
    <3>1. CASE waiters = <<>>
      BY <1>10, <3>1 DEF Recv, FeedTyped
    <3>2. CASE waiters # <<>>
      <4>1. waiters' = Tail(waiters) /\ granted' = granted \cup {Head(waiters)}
        BY <1>10, <3>2 DEF Recv
      <4>. QED
        BY <2>0, <3>2, <4>1, HeadTailProperties DEF FeedTyped
    <3>. QED
      BY <3>1, <3>2
  <2>3. IsFiniteSet(granted')
    <3>1. CASE waiters = <<>>
      BY <1>10, <3>1 DEF Recv, FeedTyped
    <3>2. CASE waiters # <<>>
      <4>1. granted' = granted \cup {Head(waiters)} /\ IsFiniteSet(granted)
        BY <1>10, <3>2 DEF Recv, FeedTyped
      <4>. QED
        BY <4>1, FS_AddElement
    <3>. QED
      BY <3>1, <3>2
  <2>. QED
    BY <1>10, <2>1, <2>2, <2>3 DEF Recv, FeedTyped
<1>11. CASE DropFeed
  <2>1. channel' \in Seq(Message)
    BY <1>11 DEF DropFeed
  <2>. QED
    BY <1>11, <2>1 DEF DropFeed, FeedTyped
<1>12. CASE UNCHANGED feedVars
  BY <1>12 DEF feedVars, FeedTyped
<1>. QED
  BY <1>1, <1>2, <1>3, <1>4, <1>5, <1>6, <1>7, <1>8, <1>9, <1>10, <1>11, <1>12 DEF FeedNext, Step

-----------------------------------------------------------------------------
(* What is under way to a source *)

\* Source t moves in its loop, or not at all, and its blocks stay where they are.
LEMMA FlowKept ==
  ASSUME NEW t \in Source, Flowing(t),
         UNCHANGED emitted, relayed'[t] = relayed[t], todo'[t] = todo[t], stream'[t] = stream[t],
         pc'[t] \notin {"checking", "accepting"} => todo[t] = <<>>,
         ~Online(t)' => stream[t] = <<>>
  PROVE  Flowing(t)'
BY DEF Flowing, FrameInv, StreamInv, EntryOf

\* The next entry of the frame of t is done with.
LEMMA FlowTail ==
  ASSUME TypeOK, NEW t \in Source, Flowing(t), todo[t] # <<>>,
         UNCHANGED emitted, relayed'[t] = relayed[t], stream'[t] = stream[t],
         todo'[t] = Tail(todo[t]), pc[t] = "accepting" \/ pc[t] = "checking", pc'[t] = "checking"
  PROVE  Flowing(t)'
<1>1. /\ todo[t] \in Seq(Entry) /\ Len(todo[t]) \in Nat /\ DOMAIN todo[t] = 1 .. Len(todo[t])
      /\ Len(Tail(todo[t])) = Len(todo[t]) - 1 /\ DOMAIN Tail(todo[t]) = 1 .. Len(todo[t]) - 1
      /\ \A k \in 1 .. Len(todo[t]) - 1 : Tail(todo[t])[k] = todo[t][k + 1]
  BY HeadTailProperties, LenProperties DEF TypeOK
<1>2. FrameInv(t)'
  <2>1. \A k \in DOMAIN todo'[t] : k + 1 \in DOMAIN todo[t] /\ todo'[t][k] = todo[t][k + 1] /\ k \in Nat
    BY <1>1
  <2>2. ASSUME NEW k \in DOMAIN todo'[t]
        PROVE  /\ todo'[t][k].hash \in 1 .. relayed'[t]
               /\ todo'[t][k] = EntryOf(todo[t][k].hash)'
    BY <2>1 DEF Flowing, FrameInv, EntryOf
  <2>3. \A j, k \in DOMAIN todo'[t] : j < k => todo'[t][j].hash < todo'[t][k].hash
    BY <2>1 DEF Flowing, FrameInv
  <2>. QED
    BY <2>2, <2>3 DEF FrameInv
<1>3. StreamInv(t)'
  <2>1. \A k \in DOMAIN todo'[t] : k + 1 \in DOMAIN todo[t] /\ todo'[t][k] = todo[t][k + 1]
    BY <1>1
  <2>. QED
    BY <2>1 DEF Flowing, StreamInv, Online
<1>. QED
  BY <1>2, <1>3 DEF Flowing

\* The sequencer emits a block, which no relay has yet.
LEMMA FlowEmit ==
  ASSUME FeedTyped, NEW n \in SeqNum, Emit(n), NEW t \in Source, Flowing(t)
  PROVE  Flowing(t)'
<1>1. /\ emitted \in Seq(SeqNum) /\ Len(emitted) \in Nat /\ Len(emitted') = Len(emitted) + 1
      /\ \A i \in 1 .. Len(emitted) : emitted'[i] = emitted[i]
  BY AppendProperties, LenProperties DEF Emit, FeedTyped
<1>2. relayed[t] \in Nat /\ relayed[t] <= Len(emitted)
  BY DEF FeedTyped, Flowing
<1>3. UNCHANGED <<relayed, stream, todo, pc>>
  BY DEF Emit, vars, task, wire
<1>4. \A i \in 1 .. relayed[t] : EntryOf(i)' = EntryOf(i)
  <2>. SUFFICES ASSUME NEW i \in 1 .. relayed[t] PROVE emitted'[i] = emitted[i]
    BY DEF EntryOf
  <2>1. i \in 1 .. Len(emitted)
    BY <1>1, <1>2
  <2>. QED
    BY <1>1, <2>1
<1>5. FrameInv(t)'
  BY <1>3, <1>4 DEF Flowing, FrameInv
<1>6. StreamInv(t)'
  BY <1>3 DEF Flowing, StreamInv, Online
<1>. QED
  BY <1>1, <1>2, <1>3, <1>5, <1>6 DEF Flowing

\* A relay gets the next block and may pass it on.
LEMMA FlowForward ==
  ASSUME FeedTyped, NEW t \in Source, Forward(t), Flowing(t)
  PROVE  Flowing(t)'
<1>. DEFINE new == relayed[t] + 1
<1>1. /\ stream \in [Source -> Seq(Hash)] /\ stream[t] \in Seq(Hash) /\ relayed[t] \in Nat
      /\ relayed \in [Source -> Nat] /\ new \in Hash /\ Len(emitted) \in Nat
  BY BlockAssumption DEF Forward, FeedTyped
<1>2. UNCHANGED <<emitted, todo, pc>> /\ relayed'[t] = new /\ new <= Len(emitted)
  BY <1>1 DEF Forward, vars, task
<1>3. FrameInv(t)'
  <2>1. \A k \in DOMAIN todo[t] : /\ todo[t][k].hash \in 1 .. relayed[t]
                                  /\ todo[t][k] = EntryOf(todo[t][k].hash)
    BY DEF Flowing, FrameInv
  <2>2. \A k \in DOMAIN todo[t] : /\ todo[t][k].hash \in 1 .. new
                                  /\ todo[t][k] = EntryOf(todo[t][k].hash)'
    <3>1. \A h : EntryOf(h)' = EntryOf(h)
      BY <1>2 DEF EntryOf
    <3>2. \A h \in 1 .. relayed[t] : h \in 1 .. new
      BY <1>1
    <3>. HIDE DEF new
    <3>. QED
      BY <1>2, <2>1, <3>1, <3>2
  <2>. QED
    BY <1>2, <2>2 DEF Flowing, FrameInv
<1>4. CASE ~Online(t)
  <2>1. stream'[t] = stream[t]
    BY <1>4 DEF Forward
  <2>. QED
    BY <1>1, <1>2, <1>3, <1>4, <2>1 DEF Flowing, StreamInv, Online
<1>5. CASE Online(t)
  <2>1. stream'[t] = Append(stream[t], new)
    BY <1>1, <1>5 DEF Forward
  <2>2. /\ Len(stream[t]) \in Nat /\ DOMAIN stream[t] = 1 .. Len(stream[t])
        /\ DOMAIN stream'[t] = 1 .. Len(stream[t]) + 1 /\ stream'[t][Len(stream[t]) + 1] = new
        /\ \A k \in 1 .. Len(stream[t]) : stream'[t][k] = stream[t][k]
    BY <1>1, <2>1, AppendProperties, LenProperties
  <2>3. \A k \in DOMAIN stream[t] : stream[t][k] \in 1 .. relayed[t]
    BY DEF Flowing, StreamInv
  <2>4. \A j \in DOMAIN todo[t] : todo[t][j].hash \in 1 .. relayed[t]
    BY DEF Flowing, FrameInv
  <2>5. \A k \in DOMAIN stream'[t] : stream'[t][k] \in 1 .. relayed'[t]
    BY <1>1, <1>2, <2>2, <2>3
  <2>6. \A j, k \in DOMAIN stream'[t] : j < k => stream'[t][j] < stream'[t][k]
    <3>1. \A j, k \in DOMAIN stream[t] : j < k => stream[t][j] < stream[t][k]
      BY DEF Flowing, StreamInv
    <3>2. \A k \in DOMAIN stream'[t] : k \in DOMAIN stream[t] \/ k = Len(stream[t]) + 1
      BY <2>2
    <3>3. \A k \in DOMAIN stream[t] : stream[t][k] < new /\ k < Len(stream[t]) + 1
      BY <1>1, <2>2, <2>3
    <3>. HIDE DEF new
    <3>. QED
      BY <2>2, <3>1, <3>2, <3>3
  <2>7. \A j \in DOMAIN todo[t], k \in DOMAIN stream'[t] : todo[t][j].hash < stream'[t][k]
    BY <1>1, <2>2, <2>4, SMTT(20) DEF Flowing, StreamInv
  <2>. QED
    BY <1>2, <1>3, <1>5, <2>5, <2>6, <2>7 DEF Flowing, StreamInv, Online
<1>. QED
  BY <1>4, <1>5

LEMMA FlowConnect ==
  ASSUME TypeOK, FeedTyped, Flow, NEW t \in Source, FeedConnect(t)
  PROVE  Flowing(t)'
<1>. PICK q \in Ascending(Backlog(t, asked[t])) : stream' = [stream EXCEPT ![t] = q]
  BY DEF FeedConnect
<1>1. stream'[t] = q
  BY DEF FeedTyped
<1>2. UNCHANGED <<emitted, relayed, todo>> /\ pc[t] = "dialing" /\ pc'[t] = "reading"
  BY DEF FeedConnect, Connect, world, TypeOK
<1>3. Flowing(t) /\ todo[t] = <<>>
  BY <1>2 DEF Flow, Flowing, FrameInv
<1>4. /\ \A k \in DOMAIN q : q[k] \in 1 .. relayed[t]
      /\ \A j, k \in DOMAIN q : j < k => q[j] < q[k]
  BY BacklogBlocks
<1>. QED
  BY <1>1, <1>2, <1>3, <1>4 DEF Flowing, FrameInv, StreamInv, Online

\* A connection is gone, and what was under way on it.
LEMMA FlowGone ==
  ASSUME NEW t \in Source, Flowing(t), pc[t] \notin {"checking", "accepting"},
         UNCHANGED emitted, relayed'[t] = relayed[t], todo'[t] = todo[t], stream'[t] = <<>>
  PROVE  Flowing(t)'
BY DEF Flowing, FrameInv, StreamInv, EntryOf

\* The next blocks on the connection become the frame in hand.
LEMMA FlowReceive ==
  ASSUME TypeOK, FeedTyped, Flow, NEW t \in Source, FeedReceive(t)
  PROVE  Flowing(t)'
<1>. DEFINE q == stream[t]
<1>. PICK k \in 1 .. Len(q) :
       /\ k <= MaxFrame
       /\ Receive(t, [i \in 1 .. k |-> EntryOf(SubSeq(q, 1, k)[i])],
                  Recent(Last(SubSeq(q, 1, k))) \/ overdue[t])
       /\ stream' = [stream EXCEPT ![t] = SubSeq(@, k + 1, Len(@))]
       /\ UNCHANGED world
  BY DEF FeedReceive
<1>. DEFINE rest == SubSeq(q, k + 1, Len(q))
<1>1. /\ \A i \in 1 .. k : SubSeq(q, 1, k)[i] = q[i]
      /\ rest \in Seq(Hash) /\ Len(rest) = Len(q) - k
      /\ \A i \in 1 .. Len(q) - k : rest[i] = q[k + i]
  BY NextFrame
<1>2. /\ q \in Seq(Hash) /\ Len(q) \in Nat /\ DOMAIN q = 1 .. Len(q)
      /\ DOMAIN rest = 1 .. Len(q) - k /\ k \in Nat /\ k <= Len(q) /\ k >= 1
  BY <1>1, LenProperties DEF FeedTyped
<1>3. stream'[t] = rest /\ UNCHANGED <<emitted, relayed>>
  BY DEF FeedTyped, world
<1>4. /\ todo'[t] = [i \in 1 .. k |-> EntryOf(q[i])]
      /\ pc[t] = "reading" /\ pc'[t] = "checking"
  BY <1>1 DEF Receive, TypeOK
<1>5. /\ \A i \in DOMAIN q : q[i] \in 1 .. relayed[t]
      /\ \A i, j \in DOMAIN q : i < j => q[i] < q[j]
      /\ relayed[t] <= Len(emitted)
  BY DEF Flow, Flowing, StreamInv
<1>6. /\ DOMAIN todo'[t] = 1 .. k
      /\ \A i \in 1 .. k : todo'[t][i] = EntryOf(q[i]) /\ todo'[t][i].hash = q[i] /\ i \in DOMAIN q
  <2>1. \A h : EntryOf(h).hash = h
    BY DEF EntryOf
  <2>2. 1 .. k \subseteq DOMAIN q
    BY <1>2
  <2>. HIDE DEF q
  <2>. QED
    BY <1>4, <2>1, <2>2
<1>7. \A i \in DOMAIN rest : k + i \in DOMAIN q /\ rest[i] = q[k + i] /\ i \in Nat
  BY <1>1, <1>2
<1>. HIDE DEF q, rest
<1>8. FrameInv(t)'
  <2>1. \A h : EntryOf(h)' = EntryOf(h)
    BY <1>3 DEF EntryOf
  <2>2. \A i \in DOMAIN todo'[t] : /\ todo'[t][i].hash \in 1 .. relayed'[t]
                                  /\ todo'[t][i] = EntryOf(todo[t][i].hash)'
    BY <1>3, <1>5, <1>6, <2>1
  <2>3. \A i, j \in DOMAIN todo'[t] : i < j => todo'[t][i].hash < todo'[t][j].hash
    BY <1>5, <1>6
  <2>. QED
    BY <1>4, <2>2, <2>3 DEF FrameInv
<1>9. StreamInv(t)'
  <2>1. \A i \in DOMAIN rest : rest[i] \in 1 .. relayed[t]
    BY <1>5, <1>7
  <2>2. \A i, j \in DOMAIN rest : i < j => rest[i] < rest[j]
    BY <1>2, <1>5, <1>7
  <2>3. \A i \in DOMAIN todo'[t], j \in DOMAIN rest : todo'[t][i].hash < rest[j]
    <3>. SUFFICES ASSUME NEW i \in 1 .. k, NEW j \in DOMAIN rest PROVE q[i] < rest[j]
      BY <1>6
    <3>1. i < k + j
      BY <1>2, <1>7
    <3>. QED
      BY <1>5, <1>6, <1>7, <3>1
  <2>. QED
    BY <1>3, <1>4, <2>1, <2>2, <2>3 DEF StreamInv, Online
<1>. QED
  BY <1>3, <1>5, <1>8, <1>9 DEF Flowing

\* What a step under the lock, or without a frame, does to the frame in hand.
LEMMA IngestFlow ==
  ASSUME Typed, NEW s \in Source, Ingest(s), NEW t \in Source
  PROVE  \/ /\ todo'[t] = todo[t] /\ pc'[t] = pc[t]
         \/ /\ t = s /\ todo'[t] = todo[t] /\ pc[t] = "checking" /\ pc'[t] = "accepting"
         \/ /\ t = s /\ todo'[t] = todo[t] /\ todo[t] = <<>> /\ pc[t] = "checking" /\ pc'[t] = "sending"
         \/ /\ t = s /\ todo[t] # <<>> /\ todo'[t] = Tail(todo[t]) /\ pc'[t] = "checking"
            /\ pc[t] = "accepting" \/ pc[t] = "checking"
BY DEF Ingest, DropCopy, Accept, Reject, LoseRace, Claim, TakeReplace, Typed, TypeOK, EntryInHand

LEMMA FlowStep ==
  ASSUME Typed, FeedTyped, Flow, [FeedNext]_feedVars
  PROVE  Flow'
<1>. USE DEF world, wire, queue
<1>. TypeOK
  BY DEF Typed
<1>. SUFFICES ASSUME NEW t \in Source PROVE Flowing(t)'
  BY DEF Flow
<1>0. Flowing(t)
  BY DEF Flow
<1>k. ASSUME UNCHANGED emitted, relayed'[t] = relayed[t], todo'[t] = todo[t], stream'[t] = stream[t],
             pc'[t] = pc[t]
      PROVE  Flowing(t)'
  BY <1>0, <1>k, FlowKept DEF Flowing, FrameInv, StreamInv, Online
<1>1. ASSUME NEW n \in SeqNum, Emit(n) PROVE Flowing(t)'
  BY <1>0, <1>1, FlowEmit
<1>2. ASSUME NEW s \in Source, Forward(s) PROVE Flowing(t)'
  <2>1. CASE s = t
    BY <1>0, <1>2, <2>1, FlowForward
  <2>2. CASE s # t
    BY <1>k, <1>2, <2>2 DEF Forward, vars, task, FeedTyped
  <2>. QED
    BY <2>1, <2>2
<1>3. ASSUME NEW s \in Source, FeedConnect(s) PROVE Flowing(t)'
  <2>1. CASE s = t
    BY <1>3, <2>1, FlowConnect
  <2>2. CASE s # t
    BY <1>k, <1>3, <2>2 DEF FeedConnect, Connect, TypeOK, FeedTyped
  <2>. QED
    BY <2>1, <2>2
<1>4. ASSUME NEW s \in Source, FeedReceive(s) PROVE Flowing(t)'
  <2>1. CASE s = t
    BY <1>4, <2>1, FlowReceive
  <2>2. CASE s # t
    BY <1>k, <1>4, <2>2 DEF FeedReceive, Receive, TypeOK, FeedTyped
  <2>. QED
    BY <2>1, <2>2
<1>5. ASSUME NEW s \in Source, FeedFail(s) \/ FeedReplaceSlow(s) \/ \E a \in BOOLEAN : FeedStop(s, a)
      PROVE  Flowing(t)'
  <2>1. /\ pc[s] \in {"idle", "dialing", "reading", "sending"} /\ UNCHANGED <<emitted, relayed, todo>>
        /\ stream' = [stream EXCEPT ![s] = <<>>] /\ (s # t => pc'[t] = pc[t])
    BY <1>5 DEF FeedFail, FeedReplaceSlow, FeedStop, Fail, ReplaceSlow, Stop, TypeOK
  <2>2. relayed'[t] = relayed[t] /\ todo'[t] = todo[t]
        /\ stream'[t] = (IF s = t THEN <<>> ELSE stream[t])
    BY <2>1 DEF FeedTyped
  <2>3. CASE s = t
    BY <1>0, <2>1, <2>2, <2>3, FlowGone
  <2>4. CASE s # t
    BY <1>k, <2>1, <2>2, <2>4
  <2>. QED
    BY <2>3, <2>4
<1>6. ASSUME NEW s \in Source, FeedIngest(s) PROVE Flowing(t)'
  <2>1. UNCHANGED <<emitted, relayed, stream>> /\ Ingest(s)
    BY <1>6 DEF FeedIngest
  <2>2. CASE todo'[t] = todo[t] /\ pc'[t] = pc[t]
    BY <1>k, <2>1, <2>2
  <2>3. CASE /\ todo'[t] = todo[t] /\ pc[t] = "checking"
             /\ pc'[t] = "accepting" \/ (pc'[t] = "sending" /\ todo[t] = <<>>)
    BY <1>0, <2>1, <2>3, FlowKept DEF Online
  <2>4. CASE /\ todo[t] # <<>> /\ todo'[t] = Tail(todo[t]) /\ pc'[t] = "checking"
             /\ pc[t] = "accepting" \/ pc[t] = "checking"
    BY <1>0, <2>1, <2>4, FlowTail
  <2>5. \/ todo'[t] = todo[t] /\ pc'[t] = pc[t]
        \/ /\ todo'[t] = todo[t] /\ pc[t] = "checking"
           /\ pc'[t] = "accepting" \/ (pc'[t] = "sending" /\ todo[t] = <<>>)
        \/ /\ todo[t] # <<>> /\ todo'[t] = Tail(todo[t]) /\ pc'[t] = "checking"
           /\ pc[t] = "accepting" \/ pc[t] = "checking"
    BY <2>1, IngestFlow
  <2>. QED
    BY <2>2, <2>3, <2>4, <2>5
<1>7. ASSUME NEW s \in Source, FeedDial(s) \/ FeedReadOn(s) PROVE Flowing(t)'
  <2>1. /\ UNCHANGED <<emitted, relayed, stream, todo>> /\ (s # t => pc'[t] = pc[t])
        /\ \/ pc[s] = "idle" /\ pc'[s] = "dialing"
           \/ pc[s] = "sending" /\ pc'[s] = "reading"
    BY <1>7 DEF FeedDial, FeedReadOn, Dial, ReadOn, TypeOK
  <2>2. relayed'[t] = relayed[t] /\ todo'[t] = todo[t] /\ stream'[t] = stream[t]
    BY <2>1
  <2>3. CASE s # t
    BY <1>k, <2>1, <2>2, <2>3
  <2>4. CASE s = t
    <3>1. todo[t] = <<>> /\ (~Online(t)' => stream[t] = <<>>)
      BY <1>0, <2>1, <2>4 DEF Flowing, FrameInv, StreamInv, Online
    <3>. QED
      BY <1>0, <2>1, <2>2, <3>1, FlowKept
  <2>. QED
    BY <2>3, <2>4
<1>8. CASE UNCHANGED <<emitted, relayed, todo, stream, pc>>
  BY <1>k, <1>8
<1>9. ASSUME NEW s \in Source, Overdue(s) \/ Wait(s) \/ TrySend(s) \/ SendGranted(s)
      PROVE  UNCHANGED <<emitted, relayed, todo, stream, pc>>
  BY <1>9 DEF Overdue, Wait, TrySend, SendGranted, Send, vars, task
<1>10. ASSUME Age \/ Recv \/ DropFeed \/ UNCHANGED feedVars
       PROVE  UNCHANGED <<emitted, relayed, todo, stream, pc>>
  BY <1>10 DEF Age, Recv, DropFeed, feedVars, vars, task
<1>. QED
  BY <1>1, <1>2, <1>3, <1>4, <1>5, <1>6, <1>7, <1>8, <1>9, <1>10 DEF FeedNext, Step

LEMMA FeedTypedInit == FeedInit => Typed /\ FeedTyped /\ Flow /\ WindowInv
<1>. SUFFICES ASSUME FeedInit PROVE Flow
  BY TypeInit, FeedTypeInit, WindowInit DEF FeedInit
<1>. QED
  BY DEF FeedInit, Init, Flow, Flowing, FrameInv, StreamInv

\* Everything the promises below rest on.
Base == Typed /\ FeedTyped /\ Flow /\ WindowInv

LEMMA BaseStep == Base /\ [FeedNext]_feedVars => Base'
BY FeedIsDedupStep, TypeStep, WindowStep, FeedTypeStep, FlowStep DEF Base

(***************************************************************************)
(* The tasks of a Feed do what the tasks of Dedup do, whatever the relays, *)
(* the channel and the consumer do: every promise of Dedup holds of a Feed.*)
(***************************************************************************)
THEOREM FeedIsDedup == FeedSpec => Spec
<1>1. FeedInit => Init /\ Base
  BY FeedTypedInit DEF FeedInit, Base
<1>2. Base /\ [FeedNext]_feedVars => [Next]_vars
  BY FeedIsDedupStep DEF Base
<1>. QED
  BY <1>1, <1>2, BaseStep, PTL DEF FeedSpec, Spec

\* What a Feed delivers is what Delivery promises.
THEOREM FeedDelivers == FeedSpec => ImplementsDelivery
BY FeedIsDedup, Refinement

-----------------------------------------------------------------------------
(* The channel *)

\* Nothing happens to the channel, nor to the sources that wait for it.
LEMMA RoomKept ==
  ASSUME RoomIsAccounted, UNCHANGED <<channel, waiters, granted, open>>,
         \A t \in ToSet(waiters) \cup granted : pc'[t] = pc[t] /\ out'[t] = out[t]
  PROVE  RoomIsAccounted'
BY DEF RoomIsAccounted, Full, ToSet, IsInjective

\* A source that is not in send() does not wait, and moves no other source.
LEMMA RoomOfOthers ==
  ASSUME RoomIsAccounted, open, UNCHANGED <<channel, waiters, granted, open>>,
         NEW s \in Source, pc[s] # "sending" \/ out[s] = <<>>,
         \A t \in Source \ {s} : pc'[t] = pc[t] /\ out'[t] = out[t],
         FeedTyped
  PROVE  RoomIsAccounted'
<1>1. ToSet(waiters) \cup granted \subseteq Source
  BY DEF FeedTyped, ToSet
<1>2. s \notin ToSet(waiters) \cup granted
  BY DEF RoomIsAccounted
<1>. QED
  BY <1>1, <1>2, RoomKept

\* A message goes into the channel, without or with room set aside for it.
LEMMA RoomTrySend ==
  ASSUME TypeOK, FeedTyped, RoomIsAccounted, NEW s \in Source, TrySend(s)
  PROVE  RoomIsAccounted'
<1>1. /\ open /\ channel' = Append(channel, Head(out[s])) /\ UNCHANGED <<waiters, granted, open, pc>>
      /\ \A t \in Source \ {s} : out'[t] = out[t]
      /\ ~Full /\ s \notin granted /\ s \notin ToSet(waiters)
  BY DEF TrySend, Send, TypeOK, Waiting, ToSet
<1>2. Len(channel) \in Nat /\ Len(channel') = Len(channel) + 1 /\ Cardinality(granted) \in Nat
  <2>1. channel \in Seq(Message) /\ out[s] \in Seq(Message) /\ out[s] # <<>> /\ IsFiniteSet(granted)
    BY DEF FeedTyped, TypeOK, TrySend, Send
  <2>. QED
    BY <1>1, <2>1, HeadTailProperties, AppendProperties, LenProperties, FS_CardinalityType
<1>3. Capacity \in Nat /\ Len(channel) + Cardinality(granted) < Capacity /\ waiters = <<>>
  BY <1>1, <1>2, CapacityAssumption DEF Full, RoomIsAccounted
<1>4. granted \subseteq Source /\ ToSet(waiters) \subseteq Source
  BY DEF FeedTyped, ToSet
<1>. QED
  BY <1>1, <1>2, <1>3, <1>4 DEF RoomIsAccounted, ToSet, IsInjective

LEMMA RoomSendGranted ==
  ASSUME TypeOK, FeedTyped, RoomIsAccounted, NEW s \in Source, SendGranted(s)
  PROVE  RoomIsAccounted'
<1>1. /\ open /\ channel' = Append(channel, Head(out[s])) /\ UNCHANGED <<waiters, open, pc>>
      /\ \A t \in Source \ {s} : out'[t] = out[t]
      /\ s \in granted /\ granted' = granted \ {s}
  BY DEF SendGranted, Send, TypeOK
<1>2. /\ Len(channel) \in Nat /\ Len(channel') = Len(channel) + 1
      /\ Cardinality(granted) \in Nat /\ Cardinality(granted') = Cardinality(granted) - 1
  <2>1. channel \in Seq(Message) /\ out[s] \in Seq(Message) /\ out[s] # <<>> /\ IsFiniteSet(granted)
    BY DEF FeedTyped, TypeOK, SendGranted, Send
  <2>. QED
    BY <1>1, <2>1, HeadTailProperties, AppendProperties, LenProperties, FS_CardinalityType,
       FS_RemoveElement
<1>3. Len(channel') + Cardinality(granted') = Len(channel) + Cardinality(granted)
  BY <1>2
<1>4. granted \subseteq Source /\ ToSet(waiters) \subseteq Source
  BY DEF FeedTyped, ToSet
<1>5. s \notin ToSet(waiters)
  BY <1>1 DEF RoomIsAccounted
<1>. QED
  BY <1>1, <1>3, <1>4, <1>5 DEF RoomIsAccounted, Full, ToSet, IsInjective

\* A source that finds the channel full gets in line.
LEMMA RoomWait ==
  ASSUME TypeOK, FeedTyped, RoomIsAccounted, NEW s \in Source, Wait(s)
  PROVE  RoomIsAccounted'
<1>1. /\ open /\ Full /\ pc[s] = "sending" /\ out[s] # <<>> /\ waiters' = Append(waiters, s)
      /\ UNCHANGED <<channel, granted, open, pc, out>>
      /\ s \notin granted /\ s \notin ToSet(waiters)
  BY DEF Wait, vars, task, Waiting, ToSet
<1>2. /\ Len(waiters) \in Nat /\ DOMAIN waiters = 1 .. Len(waiters)
      /\ DOMAIN waiters' = 1 .. Len(waiters) + 1 /\ waiters'[Len(waiters) + 1] = s
      /\ \A i \in 1 .. Len(waiters) : waiters'[i] = waiters[i]
  BY <1>1, AppendProperties, LenProperties DEF FeedTyped
<1>3. ToSet(waiters') = ToSet(waiters) \cup {s}
  <2>1. 1 .. Len(waiters) + 1 = 1 .. Len(waiters) \cup {Len(waiters) + 1}
    BY <1>2
  <2>. QED
    BY <1>2, <2>1 DEF ToSet
<1>4. IsInjective(waiters')
  <2>1. \A i \in DOMAIN waiters' : i \in DOMAIN waiters \/ i = Len(waiters) + 1
    BY <1>2
  <2>. QED
    BY <1>1, <1>2, <2>1 DEF RoomIsAccounted, IsInjective, ToSet
<1>. QED
  BY <1>1, <1>3, <1>4 DEF RoomIsAccounted, Full

\* The consumer takes a message: its room is given to the first in line.
LEMMA RoomRecv ==
  ASSUME FeedTyped, RoomIsAccounted, Recv
  PROVE  RoomIsAccounted'
<1>1. open /\ channel # <<>> /\ channel' = Tail(channel) /\ UNCHANGED <<open, pc, out>>
  BY DEF Recv, vars, task
<1>2. /\ Len(channel) \in Nat /\ Len(channel') = Len(channel) - 1
      /\ IsFiniteSet(granted) /\ Cardinality(granted) \in Nat
  BY <1>1, HeadTailProperties, LenProperties, FS_CardinalityType DEF FeedTyped
<1>3. CASE waiters = <<>>
  <2>1. UNCHANGED <<waiters, granted>>
    BY <1>3 DEF Recv
  <2>. QED
    BY <1>1, <1>2, <1>3, <2>1, CapacityAssumption DEF RoomIsAccounted, ToSet, IsInjective
<1>4. CASE waiters # <<>>
  <2>1. waiters' = Tail(waiters) /\ granted' = granted \cup {Head(waiters)}
    BY <1>4 DEF Recv
  <2>2. /\ Len(waiters) \in Nat /\ DOMAIN waiters = 1 .. Len(waiters)
        /\ DOMAIN waiters' = 1 .. Len(waiters) - 1 /\ Head(waiters) = waiters[1]
        /\ \A i \in 1 .. Len(waiters) - 1 : waiters'[i] = waiters[i + 1]
        /\ 1 \in DOMAIN waiters
    BY <1>4, <2>1, HeadTailProperties, LenProperties DEF FeedTyped
  <2>3. \A i \in DOMAIN waiters' : i + 1 \in DOMAIN waiters /\ waiters'[i] = waiters[i + 1] /\ i + 1 # 1 /\ i \in Nat
    BY <2>2
  <2>4. ToSet(waiters') \subseteq ToSet(waiters) /\ Head(waiters) \in ToSet(waiters)
    BY <2>2, <2>3 DEF ToSet
  <2>5. Head(waiters) \notin granted
    BY <1>1, <2>4 DEF RoomIsAccounted
  <2>6. Head(waiters) \notin ToSet(waiters')
    BY <1>1, <2>2, <2>3 DEF RoomIsAccounted, ToSet, IsInjective
  <2>7. IsInjective(waiters')
    <3>1. \A i, j \in DOMAIN waiters' : i + 1 = j + 1 => i = j
      BY <2>3
    <3>. QED
      BY <1>1, <2>3, <3>1 DEF RoomIsAccounted, IsInjective
  <2>8. Len(channel') + Cardinality(granted') = Len(channel) + Cardinality(granted)
    <3>1. Cardinality(granted') = Cardinality(granted) + 1
      BY <1>2, <2>1, <2>5, FS_AddElement
    <3>. QED
      BY <1>2, <3>1
  <2>9. Full' /\ Len(channel') + Cardinality(granted') <= Capacity
    BY <1>1, <1>4, <2>8 DEF RoomIsAccounted, Full
  <2>10. ToSet(waiters') \cap granted' = {}
    BY <1>1, <2>1, <2>4, <2>6 DEF RoomIsAccounted
  <2>11. \A s \in ToSet(waiters') \cup granted' : pc'[s] = "sending" /\ out'[s] # <<>>
    BY <1>1, <2>1, <2>4 DEF RoomIsAccounted
  <2>. QED
    BY <2>7, <2>9, <2>10, <2>11 DEF RoomIsAccounted
<1>. QED
  BY <1>3, <1>4

LEMMA RoomStep ==
  ASSUME Base, RoomIsAccounted, [FeedNext]_feedVars
  PROVE  RoomIsAccounted'
<1>. USE DEF world, wire, queue
<1>. TypeOK /\ FeedTyped
  BY DEF Base, Typed
<1>1. CASE ~open'
  BY <1>1 DEF RoomIsAccounted
<1>2. CASE open'
  <2>. open
    BY <1>2 DEF FeedNext, Step, Emit, Age, Forward, Overdue, FeedFail, FeedDial, FeedConnect, FeedReplaceSlow,
           FeedReceive, FeedIngest, FeedReadOn, TrySend, Wait, SendGranted, FeedStop, Recv, DropFeed, feedVars
  <2>1. ASSUME NEW s \in Source,
               \/ FeedFail(s) \/ FeedDial(s) \/ FeedConnect(s) \/ FeedReplaceSlow(s)
               \/ FeedReceive(s) \/ FeedIngest(s) \/ FeedReadOn(s)
        PROVE  RoomIsAccounted'
    <3>1. UNCHANGED <<channel, waiters, granted, open>>
      BY <2>1 DEF FeedFail, FeedDial, FeedConnect, FeedReplaceSlow, FeedReceive, FeedIngest, FeedReadOn
    <3>2. pc[s] # "sending" \/ out[s] = <<>>
      BY <2>1 DEF FeedFail, FeedDial, FeedConnect, FeedReplaceSlow, FeedReceive, FeedIngest, FeedReadOn,
         Fail, Dial, Connect, ReplaceSlow, Receive, ReadOn,
         Ingest, DropCopy, Accept, Reject, LoseRace, Claim, TakeReplace
    <3>3. \A t \in Source \ {s} : pc'[t] = pc[t] /\ out'[t] = out[t]
      BY <2>1 DEF FeedFail, FeedDial, FeedConnect, FeedReplaceSlow, FeedReceive, FeedIngest, FeedReadOn,
         Fail, Dial, Connect, ReplaceSlow, Receive, ReadOn,
         Ingest, DropCopy, Accept, Reject, LoseRace, Claim, TakeReplace, TypeOK
    <3>. QED
      BY <3>1, <3>2, <3>3, RoomOfOthers
  <2>2. ASSUME NEW s \in Source, TrySend(s) \/ SendGranted(s) \/ Wait(s) PROVE RoomIsAccounted'
    BY <2>2, RoomTrySend, RoomSendGranted, RoomWait
  <2>3. CASE Recv
    BY <2>3, RoomRecv
  <2>4. CASE UNCHANGED <<channel, waiters, granted, open, pc, out>>
    BY <2>4, RoomKept
  <2>5. ASSUME NEW s \in Source, Forward(s) \/ Overdue(s)
        PROVE  UNCHANGED <<channel, waiters, granted, open, pc, out>>
    BY <2>5 DEF Forward, Overdue, vars, task
  <2>6. ASSUME \/ \E n \in SeqNum : Emit(n)
               \/ Age \/ UNCHANGED feedVars
        PROVE  UNCHANGED <<channel, waiters, granted, open, pc, out>>
    BY <2>6 DEF Emit, Age, feedVars, vars, task
  <2>7. ~DropFeed /\ \A s \in Source, a \in BOOLEAN : ~FeedStop(s, a)
    BY <1>2 DEF DropFeed, FeedStop
  <2>. QED
    BY <2>1, <2>2, <2>3, <2>4, <2>5, <2>6, <2>7 DEF FeedNext, Step
<1>. QED
  BY <1>1, <1>2 DEF FeedTyped

(***************************************************************************)
(* However many sources share it and however small it is, the channel      *)
(* never overflows and never strands a source: one only waits while there  *)
(* is no room, and the room of a message received goes to one that waits.  *)
(***************************************************************************)
THEOREM RoomCorrect == FeedSpec => []RoomIsAccounted
<1>1. FeedInit => Base /\ RoomIsAccounted
  <2>. SUFFICES ASSUME FeedInit PROVE RoomIsAccounted
    BY FeedTypedInit DEF Base
  <2>1. Len(<<>>) = 0 /\ Cardinality({}) = 0 /\ 0 <= Capacity
    BY FS_EmptySet, CapacityAssumption
  <2>. QED
    BY <2>1 DEF FeedInit, RoomIsAccounted, ToSet, IsInjective
<1>. QED
  BY <1>1, BaseStep, RoomStep, PTL DEF FeedSpec

-----------------------------------------------------------------------------
(* What is pending for a source, and how it moves *)

\* The blocks a source has in hand or under way.
Pending(s) == {todo[s][k].hash : k \in DOMAIN todo[s]} \cup {stream[s][k] : k \in DOMAIN stream[s]}

LEMMA PendingReceived ==
  ASSUME TypeOK, FeedTyped, Flow, NEW t \in Source, FeedReceive(t)
  PROVE  Pending(t)' = Pending(t)
<1>. DEFINE q == stream[t]
<1>. PICK k \in 1 .. Len(q) :
       /\ k <= MaxFrame
       /\ Receive(t, [i \in 1 .. k |-> EntryOf(SubSeq(q, 1, k)[i])],
                  Recent(Last(SubSeq(q, 1, k))) \/ overdue[t])
       /\ stream' = [stream EXCEPT ![t] = SubSeq(@, k + 1, Len(@))]
  BY DEF FeedReceive
<1>. DEFINE rest == SubSeq(q, k + 1, Len(q))
            frame == [i \in 1 .. k |-> EntryOf(SubSeq(q, 1, k)[i])]
<1>1. /\ \A i \in 1 .. k : SubSeq(q, 1, k)[i] = q[i]
      /\ rest \in Seq(Hash) /\ Len(rest) = Len(q) - k
      /\ \A i \in 1 .. Len(q) - k : rest[i] = q[k + i]
  BY NextFrame
<1>2. /\ Len(q) \in Nat /\ DOMAIN q = 1 .. Len(q) /\ DOMAIN rest = 1 .. Len(q) - k
      /\ k \in Nat /\ k <= Len(q) /\ k >= 1
  BY <1>1, LenProperties DEF FeedTyped
<1>3. todo[t] = <<>> /\ todo'[t] = frame /\ stream'[t] = rest
  BY DEF Receive, TypeOK, FeedTyped, Flow, Flowing, FrameInv
<1>4. DOMAIN frame = 1 .. k /\ \A i \in 1 .. k : frame[i].hash = q[i]
  BY <1>1 DEF EntryOf
<1>. HIDE DEF frame, rest, q
<1>5. \A b : b \in Pending(t) <=> \E i \in 1 .. Len(q) : q[i] = b
  <2>1. DOMAIN todo[t] = {}
    BY <1>3
  <2>. QED
    BY <1>2, <2>1 DEF Pending, q
<1>6. \A b : b \in Pending(t)' <=> \/ \E i \in 1 .. k : q[i] = b
                                 \/ \E i \in 1 .. Len(q) - k : q[k + i] = b
  <2>1. \A b : b \in {frame[i].hash : i \in DOMAIN frame} <=> \E i \in 1 .. k : q[i] = b
    BY <1>4
  <2>2. \A b : b \in {rest[i] : i \in DOMAIN rest} <=> \E i \in 1 .. Len(q) - k : q[k + i] = b
    BY <1>1, <1>2
  <2>3. Pending(t)' = {todo'[t][i].hash : i \in DOMAIN todo'[t]} \cup {stream'[t][i] : i \in DOMAIN stream'[t]}
    BY DEF Pending
  <2>4. Pending(t)' = {frame[i].hash : i \in DOMAIN frame} \cup {rest[i] : i \in DOMAIN rest}
    BY <1>3, <2>3
  <2>. QED
    BY <2>1, <2>2, <2>4
<1>7. \A i \in 1 .. Len(q) : i \in 1 .. k \/ (i - k \in 1 .. Len(q) - k /\ k + (i - k) = i)
  BY <1>2
<1>8. \A i \in 1 .. Len(q) - k : k + i \in 1 .. Len(q)
  BY <1>2
<1>9. 1 .. k \subseteq 1 .. Len(q)
  BY <1>2
<1>10. \A b : b \in Pending(t) <=> b \in Pending(t)'
  BY <1>5, <1>6, <1>7, <1>8, <1>9
<1>. QED
  BY <1>10

\* The entry in hand is the oldest block pending.
LEMMA PendingTail ==
  ASSUME TypeOK, NEW t \in Source, Flowing(t), todo[t] # <<>>,
         todo'[t] = Tail(todo[t]), stream'[t] = stream[t]
  PROVE  /\ Head(todo[t]).hash \in 1 .. relayed[t]
         /\ Head(todo[t]) = EntryOf(Head(todo[t]).hash)
         /\ Pending(t) = Pending(t)' \cup {Head(todo[t]).hash}
         /\ \A i \in Pending(t)' : Head(todo[t]).hash < i
<1>. DEFINE q == todo[t]
<1>1. /\ Len(q) \in Nat /\ DOMAIN q = 1 .. Len(q) /\ Head(q) = q[1] /\ 1 \in DOMAIN q
      /\ DOMAIN todo'[t] = 1 .. Len(q) - 1
      /\ \A k \in 1 .. Len(q) - 1 : todo'[t][k] = q[k + 1]
  BY HeadTailProperties, LenProperties, EmptySeq DEF TypeOK
<1>2. \A k \in DOMAIN todo'[t] : k + 1 \in DOMAIN q /\ 1 < k + 1 /\ todo'[t][k] = q[k + 1]
  BY <1>1
<1>3. \A k \in DOMAIN q : k = 1 \/ (k - 1 \in DOMAIN todo'[t] /\ todo'[t][k - 1] = q[k])
  BY <1>1
<1>4. Pending(t) = Pending(t)' \cup {q[1].hash}
  <2>. DEFINE before == {q[k].hash : k \in DOMAIN q}
              after == {todo'[t][k].hash : k \in DOMAIN todo'[t]}
  <2>1. \A b \in after : b \in before
    BY <1>2
  <2>2. \A b \in before : b \in after \/ b = q[1].hash
    BY <1>3
  <2>3. q[1].hash \in before
    BY <1>1
  <2>4. before = after \cup {q[1].hash}
    BY <2>1, <2>2, <2>3
  <2>. QED
    BY <2>4 DEF Pending
<1>5. \A i \in Pending(t)' : q[1].hash < i
  BY <1>1, <1>2 DEF Pending, Flowing, FrameInv, StreamInv
<1>6. q[1].hash \in 1 .. relayed[t] /\ q[1] = EntryOf(q[1].hash)
  BY <1>1 DEF Flowing, FrameInv
<1>. QED
  BY <1>1, <1>4, <1>5, <1>6

\* A connection that has ended carries nothing.
LEMMA OfflineEmpty ==
  ASSUME NEW t \in Source, Flowing(t), ~Online(t)
  PROVE  todo[t] = <<>> /\ stream[t] = <<>> /\ Pending(t) = {}
<1>1. todo[t] = <<>> /\ stream[t] = <<>>
  BY DEF Flowing, FrameInv, StreamInv, Online
<1>2. DOMAIN todo[t] = {} /\ DOMAIN stream[t] = {}
  BY <1>1
<1>. QED
  BY <1>1, <1>2 DEF Pending

\* A relay passes a block on.
LEMMA PendingForwarded ==
  ASSUME FeedTyped, Flow, NEW t \in Source, Forward(t)
  PROVE  Pending(t)' = IF Online(t) THEN Pending(t) \cup {relayed[t] + 1} ELSE Pending(t)
<1>. DEFINE new == relayed[t] + 1
<1>1. UNCHANGED todo
  BY DEF Forward, vars, task
<1>2. CASE ~Online(t)
  <2>1. stream'[t] = stream[t]
    BY <1>2 DEF Forward
  <2>. QED
    BY <1>1, <1>2, <2>1 DEF Pending
<1>3. CASE Online(t)
  <2>1. stream'[t] = Append(stream[t], new) /\ stream[t] \in Seq(Hash) /\ new \in Hash
    BY <1>3, BlockAssumption DEF Forward, FeedTyped
  <2>2. /\ Len(stream[t]) \in Nat /\ DOMAIN stream[t] = 1 .. Len(stream[t])
        /\ DOMAIN stream'[t] = 1 .. Len(stream[t]) + 1 /\ stream'[t][Len(stream[t]) + 1] = new
        /\ \A k \in 1 .. Len(stream[t]) : stream'[t][k] = stream[t][k]
    BY <2>1, AppendProperties, LenProperties
  <2>3. /\ \A k \in DOMAIN stream'[t] : k \in DOMAIN stream[t] \/ k = Len(stream[t]) + 1
        /\ DOMAIN stream[t] \subseteq DOMAIN stream'[t] /\ Len(stream[t]) + 1 \in DOMAIN stream'[t]
    BY <2>2
  <2>. DEFINE before == {stream[t][k] : k \in DOMAIN stream[t]}
              after == {stream'[t][k] : k \in DOMAIN stream'[t]}
  <2>. HIDE DEF new
  <2>4. \A b : b \in after <=> b \in before \/ b = new
    BY <2>2, <2>3
  <2>5. after = before \cup {new}
    BY <2>4
  <2>6. Pending(t) = {todo[t][k].hash : k \in DOMAIN todo[t]} \cup before
    BY DEF Pending
  <2>7. Pending(t)' = {todo[t][k].hash : k \in DOMAIN todo[t]} \cup after
    BY <1>1 DEF Pending
  <2>. HIDE DEF before, after
  <2>. QED
    BY <1>3, <2>5, <2>6, <2>7 DEF new
<1>. QED
  BY <1>2, <1>3

\* The ways in which what is pending for a source changes.
LEMMA PendingStep ==
  ASSUME Base, [FeedNext]_feedVars, NEW t \in Source
  PROVE  \/ /\ Pending(t)' = Pending(t) /\ relayed'[t] = relayed[t] /\ Online(t)' = Online(t)
         \/ Pending(t)' = {} /\ relayed'[t] = relayed[t] /\ ~Online(t)'
         \/ Forward(t)
         \/ FeedConnect(t)
         \/ /\ FeedIngest(t) /\ todo[t] # <<>> /\ todo'[t] = Tail(todo[t])
            /\ relayed'[t] = relayed[t] /\ stream'[t] = stream[t] /\ Online(t)
<1>. USE DEF world, wire, queue
<1>. TypeOK /\ FeedTyped /\ Flow /\ Flow' /\ Flowing(t) /\ Flowing(t)'
  BY BaseStep DEF Base, Typed, Flow
<1>. DEFINE Goal == \/ /\ Pending(t)' = Pending(t) /\ relayed'[t] = relayed[t] /\ Online(t)' = Online(t)
                    \/ Pending(t)' = {} /\ relayed'[t] = relayed[t] /\ ~Online(t)'
                    \/ Forward(t)
                    \/ FeedConnect(t)
                    \/ /\ FeedIngest(t) /\ todo[t] # <<>> /\ todo'[t] = Tail(todo[t])
                       /\ relayed'[t] = relayed[t] /\ stream'[t] = stream[t] /\ Online(t)
<1>k. ASSUME relayed'[t] = relayed[t], todo'[t] = todo[t], stream'[t] = stream[t], Online(t)' = Online(t)
      PROVE  Goal
  BY <1>k DEF Pending
<1>1. ASSUME NEW s \in Source, Forward(s) \/ FeedConnect(s) PROVE Goal
  <2>1. CASE s = t
    BY <1>1, <2>1
  <2>2. CASE s # t
    <3>1. relayed'[t] = relayed[t] /\ todo'[t] = todo[t] /\ stream'[t] = stream[t] /\ pc'[t] = pc[t]
      BY <1>1, <2>2, SMTT(20) DEF Forward, FeedConnect, Connect, vars, task, FeedTyped, TypeOK
    <3>. QED
      BY <1>k, <3>1 DEF Online
  <2>. QED
    BY <2>1, <2>2
<1>2. ASSUME NEW s \in Source, FeedReceive(s) PROVE Goal
  <2>1. CASE s = t
    <3>1. Pending(t)' = Pending(t)
      BY <1>2, <2>1, PendingReceived
    <3>2. UNCHANGED relayed /\ Online(t)' = Online(t)
      BY <1>2, <2>1 DEF FeedReceive, Receive, Online, TypeOK
    <3>. QED
      BY <3>1, <3>2
  <2>2. CASE s # t
    <3>1. relayed'[t] = relayed[t] /\ todo'[t] = todo[t] /\ stream'[t] = stream[t] /\ pc'[t] = pc[t]
      BY <1>2, <2>2 DEF FeedReceive, Receive, FeedTyped, TypeOK
    <3>. QED
      BY <1>k, <3>1 DEF Online
  <2>. QED
    BY <2>1, <2>2
<1>3. ASSUME NEW s \in Source, FeedFail(s) \/ FeedReplaceSlow(s) \/ \E a \in BOOLEAN : FeedStop(s, a)
      PROVE  Goal
  <2>1. /\ pc' = [pc EXCEPT ![s] = "idle"] \/ pc' = [pc EXCEPT ![s] = "stopped"]
        /\ UNCHANGED <<relayed, todo>> /\ stream' = [stream EXCEPT ![s] = <<>>]
    BY <1>3 DEF FeedFail, FeedReplaceSlow, FeedStop, Fail, ReplaceSlow, Stop
  <2>2. CASE s = t
    <3>1. ~Online(t)'
      BY <2>1, <2>2 DEF Online, TypeOK
    <3>2. Pending(t)' = {}
      <4>1. todo'[t] = <<>> /\ stream'[t] = <<>>
        BY <3>1 DEF Flowing, FrameInv, StreamInv, Online
      <4>2. DOMAIN todo'[t] = {} /\ DOMAIN stream'[t] = {}
        BY <4>1
      <4>. QED
        BY <4>2 DEF Pending
    <3>. QED
      BY <2>1, <3>1, <3>2
  <2>3. CASE s # t
    <3>1. relayed'[t] = relayed[t] /\ todo'[t] = todo[t] /\ stream'[t] = stream[t] /\ pc'[t] = pc[t]
      BY <2>1, <2>3 DEF FeedTyped, TypeOK
    <3>. QED
      BY <1>k, <3>1 DEF Online
  <2>. QED
    BY <2>2, <2>3
<1>4. ASSUME NEW s \in Source, FeedIngest(s) PROVE Goal
  <2>1. UNCHANGED <<relayed, stream>> /\ Ingest(s) /\ Typed
    BY <1>4 DEF FeedIngest, Base
  <2>2. CASE todo'[t] = todo[t] /\ pc'[t] = pc[t]
    BY <1>k, <2>1, <2>2 DEF Online
  <2>3. CASE todo'[t] = todo[t] /\ pc[t] = "checking" /\ pc'[t] \in {"accepting", "sending"}
    BY <1>k, <2>1, <2>3 DEF Online
  <2>4. CASE /\ s = t /\ todo[t] # <<>> /\ todo'[t] = Tail(todo[t])
             /\ pc[t] = "accepting" \/ pc[t] = "checking"
    BY <1>4, <2>1, <2>4 DEF Online
  <2>5. \/ todo'[t] = todo[t] /\ pc'[t] = pc[t]
        \/ todo'[t] = todo[t] /\ pc[t] = "checking" /\ pc'[t] \in {"accepting", "sending"}
        \/ /\ s = t /\ todo[t] # <<>> /\ todo'[t] = Tail(todo[t])
           /\ pc[t] = "accepting" \/ pc[t] = "checking"
    BY <2>1, IngestFlow
  <2>. QED
    BY <2>2, <2>3, <2>4, <2>5
<1>5. ASSUME NEW s \in Source, FeedDial(s) \/ FeedReadOn(s) PROVE Goal
  <2>1. /\ UNCHANGED <<relayed, stream, todo>>
        /\ \/ pc[s] = "idle" /\ pc' = [pc EXCEPT ![s] = "dialing"]
           \/ pc[s] = "sending" /\ pc' = [pc EXCEPT ![s] = "reading"]
    BY <1>5 DEF FeedDial, FeedReadOn, Dial, ReadOn
  <2>2. Online(t)' = Online(t)
    BY <2>1 DEF Online, TypeOK
  <2>. QED
    BY <1>k, <2>1, <2>2
<1>6. CASE UNCHANGED <<relayed, todo, stream, pc>>
  BY <1>k, <1>6 DEF Online
<1>7. ASSUME NEW s \in Source, Overdue(s) \/ Wait(s) \/ TrySend(s) \/ SendGranted(s)
      PROVE  UNCHANGED <<relayed, todo, stream, pc>>
  BY <1>7 DEF Overdue, Wait, TrySend, SendGranted, Send, vars, task
<1>8. ASSUME \/ Age \/ Recv \/ DropFeed \/ UNCHANGED feedVars
             \/ \E n \in SeqNum : Emit(n)
      PROVE  UNCHANGED <<relayed, todo, stream, pc>>
  BY <1>8 DEF Age, Recv, DropFeed, Emit, feedVars, vars, task
<1>. QED
  BY <1>1, <1>2, <1>3, <1>4, <1>5, <1>6, <1>7, <1>8 DEF FeedNext, Step

\* Only a source that claims an entry moves the watermark.
LEMMA ClaimOrNot ==
  ASSUME Base, [FeedNext]_feedVars
  PROVE  \/ \E s \in Source : FeedIngest(s) /\ Claim(s)
         \/ UNCHANGED <<highest_seq, seen, held, latest>>
<1>1. ASSUME NEW s \in Source, FeedIngest(s), ~Claim(s)
      PROVE  UNCHANGED <<highest_seq, seen, held, latest>>
  BY <1>1 DEF FeedIngest, Ingest, DropCopy, Accept, Reject, LoseRace, TakeReplace, state, history
<1>2. ASSUME NEW s \in Source,
             \/ FeedFail(s) \/ FeedDial(s) \/ FeedConnect(s) \/ FeedReplaceSlow(s) \/ FeedReceive(s)
             \/ FeedReadOn(s) \/ TrySend(s) \/ SendGranted(s)
             \/ \E aborted \in BOOLEAN : FeedStop(s, aborted)
      PROVE  UNCHANGED <<highest_seq, seen, held, latest>>
  BY <1>2 DEF FeedFail, FeedDial, FeedConnect, FeedReplaceSlow, FeedReceive, FeedReadOn, TrySend,
     SendGranted, FeedStop, Fail, Dial, Connect, ReplaceSlow, Receive, ReadOn, Send, Stop, state, history
<1>3. ASSUME NEW s \in Source, Forward(s) \/ Overdue(s) \/ Wait(s)
      PROVE  UNCHANGED <<highest_seq, seen, held, latest>>
  BY <1>3 DEF Forward, Overdue, Wait, vars, state, history
<1>4. CASE Age \/ Recv \/ DropFeed \/ UNCHANGED feedVars \/ \E n \in SeqNum : Emit(n)
  BY <1>4 DEF Age, Recv, DropFeed, Emit, feedVars, vars, state, history
<1>. QED
  BY <1>1, <1>2, <1>3, <1>4 DEF FeedNext, Step

\* A claimed block: the oldest one pending, whose number says nothing new unless
\* the window knows another block for it or it lies ahead.
LEMMA ClaimedBlock ==
  ASSUME Base, NEW s \in Source, FeedIngest(s), Claim(s)
  PROVE  \E i \in 1 .. relayed[s] :
           /\ i <= Len(emitted) /\ emitted[i] \in SeqNum
           /\ todo[s] # <<>> /\ Head(todo[s]) = EntryOf(i) /\ i \in Pending(s)
           /\ UNCHANGED <<emitted, relayed, stream>>
           /\ \A j \in Pending(s)' : j \in Pending(s) /\ i < j
           /\ \A t \in Source \ {s} : Pending(t)' = Pending(t)
           /\ held' = Put(held, emitted[i], i)
           /\ highest_seq' = emitted[i] /\ latest'.seq = emitted[i] /\ latest'.hash = i
           /\ IsNew(emitted[i], i) \/ IsReorg(emitted[i], i)
           /\ out' = IF live[s]
                     THEN [out EXCEPT ![s] = Append(@, [seq |-> emitted[i], hash |-> i,
                                                        reorg |-> IsReorg(emitted[i], i)])]
                     ELSE out
<1>. TypeOK /\ FeedTyped /\ Flowing(s) /\ todo[s] # <<>>
  BY DEF Base, Typed, Flow, EntryInHand, Claim
<1>. DEFINE i == Head(todo[s]).hash
<1>1. UNCHANGED <<emitted, relayed, stream>>
  BY DEF FeedIngest, world, wire
<1>2. todo'[s] = Tail(todo[s]) /\ \A t \in Source \ {s} : todo'[t] = todo[t]
  BY DEF Claim, TypeOK
<1>3. /\ i \in 1 .. relayed[s] /\ Head(todo[s]) = EntryOf(i)
      /\ Pending(s) = Pending(s)' \cup {i} /\ \A j \in Pending(s)' : i < j
  BY <1>1, <1>2, PendingTail
<1>4. \A t \in Source \ {s} : Pending(t)' = Pending(t)
  BY <1>1, <1>2 DEF Pending
<1>5. i <= Len(emitted) /\ i \in 1 .. Len(emitted)
  BY <1>3 DEF Flowing, FeedTyped
<1>6. emitted[i] \in SeqNum
  BY <1>5 DEF FeedTyped
<1>. DEFINE e == Head(todo[s])
<1>7. e.seq = emitted[i] /\ e.hash = i
  BY <1>3 DEF EntryOf
<1>8. /\ held' = Put(held, e.seq, e.hash) /\ highest_seq' = e.seq
      /\ latest'.seq = e.seq /\ latest'.hash = e.hash
      /\ ~IsDuplicate(e.seq, e.hash)
      /\ out' = IF live[s]
                THEN [out EXCEPT ![s] = Append(@, [seq |-> e.seq, hash |-> e.hash,
                                                   reorg |-> IsReorg(e.seq, e.hash)])]
                ELSE out
  BY DEF Claim, MoveTo
<1>9. IsNew(emitted[i], i) \/ IsReorg(emitted[i], i)
  BY <1>7, <1>8 DEF IsDuplicate
<1>. HIDE DEF i, e
<1>. QED
  BY <1>1, <1>3, <1>4, <1>5, <1>6, <1>7, <1>8, <1>9

\* What is remembered as delivered with a number is a block with that number.
HeldInv == \A n \in DOMAIN held : held[n] \in 1 .. Len(emitted) /\ emitted[held[n]] = n

LEMMA EmittedGrows ==
  ASSUME FeedTyped, [FeedNext]_feedVars
  PROVE  /\ Len(emitted) \in Nat /\ Len(emitted') \in Nat /\ Len(emitted) <= Len(emitted')
         /\ \A i \in 1 .. Len(emitted) : emitted'[i] = emitted[i] /\ i \in 1 .. Len(emitted')
<1>. Len(emitted) \in Nat
  BY DEF FeedTyped
<1>1. ASSUME NEW n \in SeqNum, Emit(n)
      PROVE  Len(emitted') = Len(emitted) + 1 /\ \A i \in 1 .. Len(emitted) : emitted'[i] = emitted[i]
  BY <1>1, AppendProperties DEF Emit, FeedTyped
<1>2. CASE \A n \in SeqNum : ~Emit(n)
  <2>1. emitted' = emitted
    BY <1>2 DEF FeedNext, Step, Age, Forward, Overdue, FeedFail, FeedDial, FeedConnect, FeedReplaceSlow,
           FeedReceive, FeedIngest, FeedReadOn, TrySend, Wait, SendGranted, FeedStop, Recv, DropFeed,
           feedVars, world
  <2>. QED
    BY <2>1
<1>. QED
  BY <1>1, <1>2

LEMMA HeldStep ==
  ASSUME Base, HeldInv, [FeedNext]_feedVars
  PROVE  HeldInv'
<1>. FeedTyped
  BY DEF Base
<1>1. CASE UNCHANGED <<highest_seq, seen, held, latest>>
  BY <1>1, EmittedGrows DEF HeldInv
<1>2. ASSUME NEW s \in Source, FeedIngest(s), Claim(s) PROVE HeldInv'
  <2>. PICK i \in 1 .. relayed[s] :
         i <= Len(emitted) /\ held' = Put(held, emitted[i], i) /\ UNCHANGED emitted
    BY <1>2, ClaimedBlock
  <2>1. i \in 1 .. Len(emitted)
    BY DEF FeedTyped
  <2>. QED
    BY <2>1 DEF HeldInv, Put
<1>. QED
  BY <1>1, <1>2, ClaimOrNot

-----------------------------------------------------------------------------
(* The order of delivery *)

\* There is at most one source.
Alone == \A s, t \in Source : s = t

\* Nothing comes after what took its place: a block pending is newer than what
\* was delivered up to its number.
Order == \A s \in Source : \A i \in Pending(s) :
           \A n \in DOMAIN held : n <= emitted[i] => held[n] <= i

\* The only source has delivered what its relay has.
RelayHasHeld == \A s \in Source, n \in DOMAIN held : held[n] <= relayed[s]

\* A sequencer that never goes back counts its blocks.
Straight == \A i \in 1 .. Len(emitted) : emitted[i] = i - 1

LEMMA PendingOfRelay ==
  ASSUME FeedTyped, NEW s \in Source, Flowing(s), NEW i \in Pending(s)
  PROVE  i \in 1 .. relayed[s] /\ i \in 1 .. Len(emitted) /\ emitted[i] \in Nat /\ relayed[s] \in Nat
<1>1. i \in 1 .. relayed[s]
  BY DEF Pending, Flowing, FrameInv, StreamInv
<1>2. i \in 1 .. Len(emitted)
  BY <1>1 DEF Flowing, FeedTyped
<1>3. emitted[i] \in SeqNum /\ relayed[s] \in Nat
  BY <1>2 DEF FeedTyped
<1>. QED
  BY <1>1, <1>2, <1>3, SeqNumAssumption

LEMMA StraightStep ==
  ASSUME MaxReorgs = 0, FeedTyped, Straight, [FeedNext]_feedVars
  PROVE  Straight'
<1>1. ASSUME NEW n \in SeqNum, Emit(n) PROVE Straight'
  <2>1. /\ Len(emitted) \in Nat /\ emitted' = Append(emitted, n) /\ Len(emitted') = Len(emitted) + 1
        /\ \A i \in 1 .. Len(emitted) : emitted'[i] = emitted[i]
        /\ emitted'[Len(emitted) + 1] = n
    BY <1>1, AppendProperties, LenProperties DEF Emit, FeedTyped
  <2>2. n = Len(emitted)
    <3>1. CASE emitted = <<>>
      BY <1>1, <3>1 DEF Emit
    <3>2. CASE emitted # <<>>
      <4>1. Len(emitted) \in 1 .. Len(emitted) /\ Last(emitted) = Len(emitted) - 1
        BY <2>1, <3>2, EmptySeq DEF Last, Straight, FeedTyped
      <4>2. Cardinality(Reorgs) \in Nat
        <5>1. IsFiniteSet(1 .. Len(emitted)) /\ Reorgs \subseteq 1 .. Len(emitted)
          BY <2>1, FS_Interval DEF Reorgs, Blocks
        <5>. QED
          BY <5>1, FS_Subset, FS_CardinalityType
      <4>3. n = Last(emitted) + 1
        BY <1>1, <3>2, <4>2 DEF Emit
      <4>. QED
        BY <2>1, <4>1, <4>3
    <3>. QED
      BY <3>1, <3>2
  <2>. QED
    BY <2>1, <2>2 DEF Straight
<1>2. CASE \A n \in SeqNum : ~Emit(n)
  <2>1. emitted' = emitted
    BY <1>2 DEF FeedNext, Step, Age, Forward, Overdue, FeedFail, FeedDial, FeedConnect, FeedReplaceSlow,
           FeedReceive, FeedIngest, FeedReadOn, TrySend, Wait, SendGranted, FeedStop, Recv, DropFeed,
           feedVars, world
  <2>. QED
    BY <2>1 DEF Straight
<1>. QED
  BY <1>1, <1>2

\* Without reorgs the numbers tell the order.
LEMMA OrderIfStraight ==
  ASSUME FeedTyped, Flow, HeldInv, Straight
  PROVE  Order
<1>. SUFFICES ASSUME NEW s \in Source, NEW i \in Pending(s), NEW n \in DOMAIN held, n <= emitted[i]
              PROVE  held[n] <= i
  BY DEF Order
<1>1. i \in 1 .. Len(emitted) /\ held[n] \in 1 .. Len(emitted) /\ emitted[held[n]] = n
  BY PendingOfRelay DEF Flow, HeldInv
<1>2. emitted[i] = i - 1 /\ n = held[n] - 1
  BY <1>1 DEF Straight
<1>. QED
  BY <1>1, <1>2

\* What the relay of the only source sends to a new connection is not older than
\* what took its place.
LEMMA OrderOfBacklog ==
  ASSUME FeedTyped, Flow, HeldInv, RelayHasHeld, NEW s \in Source,
         NEW i \in Backlog(s, asked[s]), NEW n \in DOMAIN held, n <= emitted[i]
  PROVE  held[n] <= i
<1>1. i \in 1 .. relayed[s] /\ \A j \in i + 1 .. relayed[s] : emitted[j] > emitted[i]
  BY DEF Backlog, Chain
<1>2. held[n] \in 1 .. Len(emitted) /\ emitted[held[n]] = n /\ held[n] <= relayed[s] /\ relayed[s] \in Nat
  BY DEF HeldInv, RelayHasHeld, FeedTyped
<1>3. i \in 1 .. Len(emitted) /\ emitted[i] \in Nat /\ n \in Nat
  <2>1. i \in 1 .. Len(emitted)
    BY <1>1, <1>2 DEF Flow, Flowing, FeedTyped
  <2>2. emitted[i] \in SeqNum /\ n \in SeqNum
    BY <1>2, <2>1 DEF FeedTyped
  <2>. QED
    BY <2>1, <2>2, SeqNumAssumption
<1>. SUFFICES ASSUME held[n] > i PROVE FALSE
  BY <1>1, <1>2
<1>4. held[n] \in i + 1 .. relayed[s]
  BY <1>1, <1>2
<1>. QED
  BY <1>1, <1>2, <1>3, <1>4

LEMMA RelayHasHeldStep ==
  ASSUME Alone, Base, RelayHasHeld, HeldInv, [FeedNext]_feedVars
  PROVE  RelayHasHeld'
<1>. FeedTyped /\ FeedTyped'
  BY BaseStep DEF Base
<1>1. \A s \in Source : relayed[s] \in Nat /\ relayed'[s] \in Nat /\ relayed[s] <= relayed'[s]
  <2>1. ASSUME NEW s \in Source, Forward(s)
        PROVE  relayed' = [relayed EXCEPT ![s] = relayed[s] + 1]
    BY <2>1 DEF Forward
  <2>2. ASSUME \A s \in Source : ~Forward(s)
        PROVE  \A t \in Source : relayed'[t] \in Nat /\ relayed[t] <= relayed'[t]
    <3>1. relayed' = relayed
      BY <2>2 DEF FeedNext, Step, Age, Emit, Overdue, FeedFail, FeedDial, FeedConnect, FeedReplaceSlow,
           FeedReceive, FeedIngest, FeedReadOn, TrySend, Wait, SendGranted, FeedStop, Recv, DropFeed,
           feedVars, world
    <3>. QED
      BY <3>1 DEF FeedTyped
  <2>. relayed \in [Source -> Nat]
    BY DEF FeedTyped
  <2>3. ASSUME NEW s \in Source, Forward(s)
        PROVE  \A t \in Source : relayed'[t] \in Nat /\ relayed[t] <= relayed'[t]
    BY <2>1, <2>3
  <2>. QED
    BY <2>2, <2>3
<1>2. CASE UNCHANGED <<highest_seq, seen, held, latest>>
  BY <1>1, <1>2 DEF RelayHasHeld, HeldInv, FeedTyped
<1>3. ASSUME NEW s \in Source, FeedIngest(s), Claim(s) PROVE RelayHasHeld'
  <2>. PICK i \in 1 .. relayed[s] :
         held' = Put(held, emitted[i], i) /\ UNCHANGED relayed
    BY <1>3, ClaimedBlock
  <2>1. \A t \in Source : i <= relayed[t]
    BY <1>1 DEF Alone
  <2>. QED
    BY <2>1 DEF RelayHasHeld, Put
<1>. QED
  BY <1>2, <1>3, ClaimOrNot

LEMMA OrderStepAlone ==
  ASSUME Alone, Base, HeldInv, RelayHasHeld, Order, [FeedNext]_feedVars
  PROVE  Order'
<1>. FeedTyped /\ Flow /\ FeedTyped' /\ Flow'
  BY BaseStep DEF Base
<1>1. ASSUME NEW s \in Source, FeedIngest(s), Claim(s) PROVE Order'
  <2>. PICK i \in 1 .. relayed[s] :
         /\ i \in Pending(s) /\ UNCHANGED emitted
         /\ \A j \in Pending(s)' : j \in Pending(s) /\ i < j
         /\ held' = Put(held, emitted[i], i)
    BY <1>1, ClaimedBlock
  <2>. SUFFICES ASSUME NEW j \in Pending(s)', NEW n \in DOMAIN held', n <= emitted[j]
                PROVE  held'[n] <= j
    BY DEF Order, Alone
  <2>1. j \in Pending(s) /\ i < j
    OBVIOUS
  <2>2. CASE n = emitted[i]
    BY <2>1, <2>2, PendingOfRelay DEF Put, Flow
  <2>3. CASE n # emitted[i]
    BY <2>1, <2>3 DEF Put, Order
  <2>. QED
    BY <2>2, <2>3
<1>2. CASE UNCHANGED <<highest_seq, seen, held, latest>>
  <2>. SUFFICES ASSUME NEW s \in Source, NEW i \in Pending(s)', NEW n \in DOMAIN held, n <= emitted'[i]
                PROVE  held[n] <= i
    BY <1>2 DEF Order
  <2>1. ASSUME i \in Pending(s) PROVE held[n] <= i
    <3>1. emitted'[i] = emitted[i]
      BY <2>1, PendingOfRelay, EmittedGrows DEF Flow
    <3>. QED
      BY <2>1, <3>1 DEF Order
  <2>2. CASE Forward(s)
    <3>1. i \in Pending(s) \/ i = relayed[s] + 1
      BY <2>2, PendingForwarded
    <3>2. held[n] <= relayed[s] /\ relayed[s] \in Nat /\ held[n] \in Nat
      BY DEF RelayHasHeld, FeedTyped, HeldInv
    <3>. QED
      BY <2>1, <3>1, <3>2
  <2>3. CASE FeedConnect(s)
    <3>1. PICK q \in Ascending(Backlog(s, asked[s])) : stream' = [stream EXCEPT ![s] = q]
      BY <2>3 DEF FeedConnect
    <3>2. todo'[s] = <<>> /\ stream'[s] = q /\ emitted' = emitted
      BY <2>3, <3>1, OfflineEmpty DEF FeedConnect, Connect, Online, Flow, FeedTyped, world
    <3>3. i \in Range(q)
      <4>1. DOMAIN todo'[s] = {}
        BY <3>2
      <4>. QED
        BY <3>2, <4>1 DEF Pending, Range
    <3>4. i \in Backlog(s, asked[s])
      BY <3>3, BacklogBlocks
    <3>. QED
      BY <3>2, <3>4, OrderOfBacklog
  <2>4. CASE FeedIngest(s) /\ todo[s] # <<>> /\ todo'[s] = Tail(todo[s]) /\ stream'[s] = stream[s]
    <3>1. i \in Pending(s)
      BY <2>4, PendingTail DEF Flow, Base, Typed
    <3>. QED
      BY <2>1, <3>1
  <2>5. CASE Pending(s)' = Pending(s) \/ Pending(s)' = {}
    BY <2>1, <2>5
  <2>. QED
    BY <2>2, <2>3, <2>4, <2>5, PendingStep
<1>. QED
  BY <1>1, <1>2, ClaimOrNot

\* The order of delivery, where a feed keeps it.
OrderInv ==
  /\ HeldInv /\ Order
  /\ Alone => RelayHasHeld
  /\ MaxReorgs = 0 => Straight

LEMMA OrderInit == FeedInit => OrderInv
<1>. SUFFICES ASSUME FeedInit PROVE OrderInv
  OBVIOUS
<1>1. DOMAIN held = {} /\ Len(emitted) = 0
  BY DEF FeedInit, Init
<1>. QED
  BY <1>1 DEF OrderInv, HeldInv, Order, RelayHasHeld, Straight

LEMMA OrderStep ==
  ASSUME Alone \/ MaxReorgs = 0, Base, OrderInv, [FeedNext]_feedVars
  PROVE  OrderInv'
<1>1. HeldInv' /\ FeedTyped' /\ Flow' /\ FeedTyped
  BY HeldStep, BaseStep DEF OrderInv, Base
<1>2. MaxReorgs = 0 => Straight'
  BY <1>1, StraightStep DEF OrderInv
<1>3. Alone => RelayHasHeld'
  BY RelayHasHeldStep DEF OrderInv
<1>4. CASE MaxReorgs = 0
  <2>1. FeedTyped' /\ Flow' /\ HeldInv' /\ Straight' => Order'
    BY OrderIfStraight, PTL
  <2>. QED
    BY <1>1, <1>2, <1>3, <1>4, <2>1 DEF OrderInv
<1>5. CASE Alone
  BY <1>1, <1>2, <1>3, <1>5, OrderStepAlone DEF OrderInv
<1>. QED
  BY <1>4, <1>5

\* What is claimed is newer than all that was delivered up to its number.
LEMMA ClaimedIsNewer ==
  ASSUME Base, HeldInv, Order, NEW s \in Source, NEW i \in Pending(s),
         IsNew(emitted[i], i) \/ IsReorg(emitted[i], i),
         NEW n \in DOMAIN held, n <= emitted[i]
  PROVE  held[n] < i
<1>. TypeOK /\ WindowInv /\ FeedTyped /\ Flow
  BY DEF Base, Typed
<1>1. i \in 1 .. Len(emitted) /\ emitted[i] \in Nat /\ held[n] \in 1 .. Len(emitted) /\ emitted[held[n]] = n
  BY PendingOfRelay DEF HeldInv, Flow
<1>2. held[n] <= i
  BY DEF Order
<1>3. ASSUME held[n] = i PROVE FALSE
  <2>1. n = emitted[i]
    BY <1>1, <1>3
  <2>2. CASE n \in DOMAIN seen
    <3>1. seen[n] = i
      BY <1>3, <2>2 DEF WindowInv, WindowIsHistory
    <3>. QED
      BY <2>1, <2>2, <3>1 DEF IsNew, IsReorg, Changed
  <2>3. CASE n \notin DOMAIN seen
    <3>1. n < highest_seq
      BY <2>3, ForgottenBehindWatermark
    <3>2. highest_seq \in Int
      BY SeqNumAssumption DEF TypeOK, Number
    <3>. QED
      BY <1>1, <2>1, <2>3, <3>1, <3>2 DEF IsNew, IsReorg
  <2>. QED
    BY <2>2, <2>3
<1>. QED
  BY <1>1, <1>2, <1>3

(***************************************************************************)
(* Wherever there is one source, or the sequencer does not go back, no     *)
(* block comes after one that took its place, whatever connections fail    *)
(* and however relays lag.                                                 *)
(***************************************************************************)
THEOREM OldBlocksCorrect ==
  ASSUME Alone \/ MaxReorgs = 0
  PROVE  FeedSpec => OldBlocksDropped
<1>1. FeedInit => Base /\ OrderInv
  BY FeedTypedInit, OrderInit DEF Base
<1>2. Base /\ OrderInv /\ [FeedNext]_feedVars
        => [\A n \in DOMAIN held : n <= latest'.seq => held[n] < latest'.hash]_latest
  <2>. SUFFICES ASSUME Base, OrderInv, [FeedNext]_feedVars, latest' # latest,
                       NEW n \in DOMAIN held, n <= latest'.seq
                PROVE  held[n] < latest'.hash
    OBVIOUS
  <2>1. PICK s \in Source : FeedIngest(s) /\ Claim(s)
    BY ClaimOrNot
  <2>2. PICK i \in Pending(s) : /\ latest'.seq = emitted[i] /\ latest'.hash = i
                                /\ IsNew(emitted[i], i) \/ IsReorg(emitted[i], i)
    BY <2>1, ClaimedBlock
  <2>. QED
    BY <2>2, ClaimedIsNewer DEF OrderInv
<1>3. Base /\ OrderInv /\ [FeedNext]_feedVars => OrderInv'
  BY OrderStep
<1>. QED
  BY <1>1, <1>2, <1>3, BaseStep, PTL DEF FeedSpec, OldBlocksDropped

-----------------------------------------------------------------------------
(* Messages on their way *)

\* The messages of a queue after one was added to it, or taken from it.
LEMMA ToSetAppend ==
  ASSUME NEW S, NEW q \in Seq(S), NEW m \in S
  PROVE  ToSet(Append(q, m)) = ToSet(q) \cup {m}
<1>1. /\ Len(q) \in Nat /\ DOMAIN q = 1 .. Len(q) /\ DOMAIN Append(q, m) = 1 .. Len(q) + 1
      /\ Append(q, m)[Len(q) + 1] = m /\ \A k \in 1 .. Len(q) : Append(q, m)[k] = q[k]
  BY AppendProperties, LenProperties
<1>2. 1 .. Len(q) + 1 = 1 .. Len(q) \cup {Len(q) + 1}
  BY <1>1
<1>. QED
  BY <1>1, <1>2 DEF ToSet

LEMMA ToSetTail ==
  ASSUME NEW S, NEW q \in Seq(S), q # <<>>
  PROVE  ToSet(q) = ToSet(Tail(q)) \cup {Head(q)}
<1>1. /\ Len(q) \in Nat /\ DOMAIN q = 1 .. Len(q) /\ 1 \in DOMAIN q /\ Head(q) = q[1]
      /\ DOMAIN Tail(q) = 1 .. Len(q) - 1 /\ \A k \in 1 .. Len(q) - 1 : Tail(q)[k] = q[k + 1]
  BY HeadTailProperties, LenProperties, EmptySeq
<1>2. \A k \in DOMAIN Tail(q) : k + 1 \in DOMAIN q /\ Tail(q)[k] = q[k + 1]
  BY <1>1
<1>3. \A k \in DOMAIN q : k = 1 \/ (k - 1 \in DOMAIN Tail(q) /\ Tail(q)[k - 1] = q[k])
  BY <1>1
<1>4. ASSUME NEW m \in ToSet(q) PROVE m \in ToSet(Tail(q)) \/ m = q[1]
  <2>1. PICK k \in DOMAIN q : m = q[k]
    BY DEF ToSet
  <2>. QED
    BY <1>3, <2>1 DEF ToSet
<1>5. ASSUME NEW m \in ToSet(Tail(q)) PROVE m \in ToSet(q)
  <2>1. PICK k \in DOMAIN Tail(q) : m = Tail(q)[k]
    BY DEF ToSet
  <2>. QED
    BY <1>2, <2>1 DEF ToSet
<1>6. q[1] \in ToSet(q)
  BY <1>1 DEF ToSet
<1>. QED
  BY <1>1, <1>4, <1>5, <1>6

LEMMA ShownIn ==
  \A m : m \in Shown <=> \/ m \in ToSet(consumed) \/ m \in ToSet(channel)
                         \/ \E s \in Source : m \in ToSet(out[s])
BY DEF Shown

\* A claim hands over a message of the block, if the connection is live.
LEMMA ClaimedMessage ==
  ASSUME Base, NEW s \in Source, FeedIngest(s), Claim(s)
  PROVE  /\ UNCHANGED <<channel, consumed>>
         /\ ~live[s] => out' = out
         /\ live[s] => \E m \in Message : /\ out' = [out EXCEPT ![s] = Append(out[s], m)]
                                          /\ m.hash = latest'.hash /\ m.seq = latest'.seq
<1>1. PICK i \in 1 .. relayed[s] :
        /\ i <= Len(emitted) /\ emitted[i] \in SeqNum /\ latest'.hash = i /\ latest'.seq = emitted[i]
        /\ out' = IF live[s]
                  THEN [out EXCEPT ![s] = Append(@, [seq |-> emitted[i], hash |-> i,
                                                     reorg |-> IsReorg(emitted[i], i)])]
                  ELSE out
  BY ClaimedBlock
<1>2. [seq |-> emitted[i], hash |-> i, reorg |-> IsReorg(emitted[i], i)] \in Message
  <2>1. i \in Hash
    BY <1>1, BlockAssumption DEF Base, FeedTyped
  <2>2. IsReorg(emitted[i], i) \in BOOLEAN
    BY DEF IsReorg, Changed
  <2>. QED
    BY <1>1, <2>1, <2>2 DEF Message
<1>3. UNCHANGED <<channel, consumed>>
  BY DEF FeedIngest, queue
<1>4. ASSUME live[s]
      PROVE  \E m \in Message : /\ out' = [out EXCEPT ![s] = Append(out[s], m)]
                                /\ m.hash = latest'.hash /\ m.seq = latest'.seq
  <2>. DEFINE m == [seq |-> emitted[i], hash |-> i, reorg |-> IsReorg(emitted[i], i)]
  <2>1. m \in Message /\ m.hash = latest'.hash /\ m.seq = latest'.seq
    BY <1>1, <1>2
  <2>2. out' = [out EXCEPT ![s] = Append(out[s], m)]
    BY <1>1, <1>4
  <2>. HIDE DEF m
  <2>. QED
    BY <2>1, <2>2
<1>. QED
  BY <1>1, <1>3, <1>4

\* What a step does to the queues of messages.
LEMMA QueueStep ==
  ASSUME Base, [FeedNext]_feedVars
  PROVE  \/ UNCHANGED <<out, channel, consumed>>
         \/ \E s \in Source, m \in Message :
              /\ FeedIngest(s) /\ Claim(s) /\ m.hash = latest'.hash /\ m.seq = latest'.seq
              /\ out' = [out EXCEPT ![s] = Append(out[s], m)] /\ UNCHANGED <<channel, consumed>>
         \/ \E s \in Source :
              /\ out[s] # <<>> /\ out' = [out EXCEPT ![s] = Tail(out[s])]
              /\ channel' = Append(channel, Head(out[s])) /\ UNCHANGED <<consumed, latest>>
         \/ /\ channel # <<>> /\ channel' = Tail(channel)
            /\ consumed' = Append(consumed, Head(channel)) /\ UNCHANGED <<out, latest>>
         \/ ~open' /\ channel' = <<>> /\ UNCHANGED <<out, consumed, latest>>
         \/ /\ ~open' /\ UNCHANGED <<channel, consumed, latest>>
            /\ \E s \in Source : out' = [out EXCEPT ![s] = <<>>]
<1>. USE DEF queue
<1>2. ASSUME NEW s \in Source, TrySend(s) \/ SendGranted(s)
      PROVE  /\ out[s] # <<>> /\ out' = [out EXCEPT ![s] = Tail(out[s])]
             /\ channel' = Append(channel, Head(out[s])) /\ UNCHANGED <<consumed, latest>>
  BY <1>2 DEF TrySend, SendGranted, Send, history
<1>3. ASSUME Recv
      PROVE  /\ channel # <<>> /\ channel' = Tail(channel)
             /\ consumed' = Append(consumed, Head(channel)) /\ UNCHANGED <<out, latest>>
  BY <1>3 DEF Recv, vars, task, history
<1>4. ASSUME DropFeed PROVE ~open' /\ channel' = <<>> /\ UNCHANGED <<out, consumed, latest>>
  BY <1>4 DEF DropFeed, vars, task, history
<1>5. ASSUME NEW s \in Source, NEW a \in BOOLEAN, FeedStop(s, a)
      PROVE  ~open' /\ UNCHANGED <<channel, consumed, latest>> /\ out' = [out EXCEPT ![s] = <<>>]
  BY <1>5 DEF FeedStop, Stop, history
<1>7. ASSUME NEW s \in Source,
             \/ FeedFail(s) \/ FeedDial(s) \/ FeedConnect(s) \/ FeedReplaceSlow(s) \/ FeedReceive(s)
             \/ FeedReadOn(s) \/ Forward(s) \/ Overdue(s) \/ Wait(s) \/ (FeedIngest(s) /\ ~Claim(s))
      PROVE  UNCHANGED <<out, channel, consumed>>
  BY <1>7 DEF FeedFail, FeedDial, FeedConnect, FeedReplaceSlow, FeedReceive, FeedReadOn, FeedIngest,
     Fail, Dial, Connect, ReplaceSlow, Receive, ReadOn, Ingest, DropCopy, Accept, Reject, LoseRace, TakeReplace,
     Forward, Overdue, Wait, vars, task
<1>8. ASSUME Age \/ UNCHANGED feedVars \/ \E n \in SeqNum : Emit(n)
      PROVE  UNCHANGED <<out, channel, consumed>>
  BY <1>8 DEF Age, Emit, feedVars, vars, task
<1>. QED
  BY <1>2, <1>3, <1>4, <1>5, <1>7, <1>8, ClaimedMessage DEF FeedNext, Step

\* What the moves between the queues do to what is shown.
LEMMA ShownClaimed ==
  ASSUME Base, NEW s \in Source, NEW m \in Message, UNCHANGED <<channel, consumed>>,
         out' = [out EXCEPT ![s] = Append(out[s], m)]
  PROVE  Shown' = Shown \cup {m}
<1>0. out \in [Source -> Seq(Message)]
  BY DEF Base, Typed, TypeOK
<1>1. ToSet(out'[s]) = ToSet(out[s]) \cup {m} /\ \A t \in Source \ {s} : out'[t] = out[t]
  BY <1>0, ToSetAppend
<1>2. \A h : (\E t \in Source : h \in ToSet(out'[t])) <=> h = m \/ \E t \in Source : h \in ToSet(out[t])
  BY <1>1
<1>3. \A h : h \in Shown' <=> \/ h \in ToSet(consumed) \/ h \in ToSet(channel)
                              \/ \E t \in Source : h \in ToSet(out'[t])
  BY DEF Shown
<1>. QED
  BY <1>2, <1>3, ShownIn

LEMMA ShownSent ==
  ASSUME Base, NEW s \in Source, out[s] # <<>>, out' = [out EXCEPT ![s] = Tail(out[s])],
         channel' = Append(channel, Head(out[s])), UNCHANGED consumed
  PROVE  Shown' = Shown
<1>0. out \in [Source -> Seq(Message)] /\ channel \in Seq(Message)
  BY DEF Base, Typed, TypeOK, FeedTyped
<1>1. out'[s] = Tail(out[s]) /\ \A t \in Source \ {s} : out'[t] = out[t]
  BY <1>0
<1>2. ToSet(out[s]) = ToSet(out'[s]) \cup {Head(out[s])}
  BY <1>0, <1>1, ToSetTail
<1>3. ToSet(channel') = ToSet(channel) \cup {Head(out[s])}
  BY <1>0, ToSetAppend, HeadTailProperties
<1>4. \A h : (\E t \in Source : h \in ToSet(out[t]))
               <=> h = Head(out[s]) \/ \E t \in Source : h \in ToSet(out'[t])
  BY <1>1, <1>2
<1>5. \A h : h \in Shown' <=> \/ h \in ToSet(consumed) \/ h \in ToSet(channel')
                              \/ \E t \in Source : h \in ToSet(out'[t])
  BY DEF Shown
<1>. QED
  BY <1>3, <1>4, <1>5, ShownIn

LEMMA ShownConsumed ==
  ASSUME Base, channel # <<>>, channel' = Tail(channel), consumed' = Append(consumed, Head(channel)),
         UNCHANGED out
  PROVE  Shown' = Shown
<1>0. channel \in Seq(Message) /\ consumed \in Seq(Message)
  BY DEF Base, FeedTyped
<1>1. ToSet(channel) = ToSet(channel') \cup {Head(channel)}
  BY <1>0, ToSetTail
<1>2. ToSet(consumed') = ToSet(consumed) \cup {Head(channel)}
  BY <1>0, ToSetAppend, HeadTailProperties
<1>. QED
  BY <1>1, <1>2 DEF Shown

LEMMA ShownEmptied ==
  ASSUME Base, UNCHANGED consumed,
         channel' = <<>> \/ UNCHANGED channel,
         \A s \in Source : out'[s] = <<>> \/ out'[s] = out[s]
  PROVE  Shown' \subseteq Shown
<1>1. ToSet(<<>>) = {}
  BY DEF ToSet
<1>2. ToSet(channel') \subseteq ToSet(channel) /\ \A s \in Source : ToSet(out'[s]) \subseteq ToSet(out[s])
  BY <1>1
<1>. QED
  BY <1>2 DEF Shown

\* A step shows a message claimed live, and nothing else; what is shown stays
\* shown as long as the Feed is there.
LEMMA ShownStep ==
  ASSUME Base, [FeedNext]_feedVars
  PROVE  \/ Shown' \subseteq Shown /\ (open' => Shown' = Shown)
         \/ \E s \in Source, m \in Message :
              /\ FeedIngest(s) /\ Claim(s) /\ Shown' = Shown \cup {m}
              /\ m.hash = latest'.hash /\ m.seq = latest'.seq
<1>1. ASSUME UNCHANGED <<out, channel, consumed>> PROVE Shown' = Shown
  BY <1>1 DEF Shown
<1>2. ASSUME UNCHANGED consumed, \/ channel' = <<>> /\ UNCHANGED out
                                 \/ UNCHANGED channel /\ \E s \in Source : out' = [out EXCEPT ![s] = <<>>]
      PROVE  Shown' \subseteq Shown
  <2>1. \A s \in Source : out'[s] = <<>> \/ out'[s] = out[s]
    BY <1>2 DEF Base, Typed, TypeOK
  <2>. QED
    BY <1>2, <2>1, ShownEmptied
<1>. QED
  BY <1>1, <1>2, QueueStep, ShownClaimed, ShownSent, ShownConsumed

\* Every message on its way, or received, is of a block emitted, and the feed
\* delivered the block of its number then or later.
ShownInv ==
  \A m \in Shown : /\ m.hash \in 1 .. Len(emitted) /\ m.seq = emitted[m.hash]
                   /\ emitted[m.hash] \in DOMAIN held
                   /\ m.hash <= held[emitted[m.hash]]

\* What was shown stays true of it, whatever is claimed.
LEMMA ShownInvStep ==
  ASSUME Base, OrderInv, ShownInv, [FeedNext]_feedVars
  PROVE  ShownInv'
<1>. FeedTyped /\ HeldInv /\ Order
  BY DEF Base, OrderInv
<1>1. \A m \in Shown : m.hash \in 1 .. Len(emitted') /\ emitted'[m.hash] = emitted[m.hash]
  BY EmittedGrows DEF ShownInv
<1>4. Len(emitted) \in Nat /\ \A j \in 1 .. Len(emitted) : emitted[j] \in Nat
  <2>1. emitted \in Seq(SeqNum)
    BY DEF FeedTyped
  <2>2. Len(emitted) \in Nat /\ \A j \in 1 .. Len(emitted) : emitted[j] \in SeqNum
    BY <2>1, LenProperties, ElementOfSeq
  <2>. QED
    BY <2>2, SeqNumAssumption
<1>2. CASE \E s \in Source : FeedIngest(s) /\ Claim(s)
  <2>1. PICK s \in Source : FeedIngest(s) /\ Claim(s)
    BY <1>2
  <2>2. PICK i \in Pending(s) :
          /\ i \in 1 .. Len(emitted) /\ emitted' = emitted
          /\ latest'.hash = i /\ latest'.seq = emitted[i]
          /\ held' = Put(held, emitted[i], i)
          /\ IsNew(emitted[i], i) \/ IsReorg(emitted[i], i)
    <3>1. \E i \in 1 .. relayed[s] :
            /\ i <= Len(emitted) /\ i \in Pending(s) /\ emitted' = emitted
            /\ latest'.hash = i /\ latest'.seq = emitted[i]
            /\ held' = Put(held, emitted[i], i)
            /\ IsNew(emitted[i], i) \/ IsReorg(emitted[i], i)
      BY <2>1, ClaimedBlock
    <3>2. relayed[s] \in Nat /\ Len(emitted) \in Nat
      BY DEF FeedTyped
    <3>. QED
      BY <3>1, <3>2
  <2>3. \A n \in DOMAIN held : n <= emitted[i] => held[n] < i
    BY <2>2, ClaimedIsNewer
  <2>4. /\ \A n \in DOMAIN held : n # emitted[i] => n \in DOMAIN held' /\ held'[n] = held[n]
        /\ emitted[i] \in DOMAIN held' /\ held'[emitted[i]] = i
    BY <2>2 DEF Put
  <2>5. \A m \in Shown' : m \in Shown \/ (m.hash = i /\ m.seq = emitted[i])
    <3>1. \A t \in Source : FeedIngest(t) /\ Claim(t) => latest'.hash = i /\ latest'.seq = emitted[i]
      BY <2>2
    <3>. QED
      BY <3>1, ShownStep
  <2>6. ASSUME NEW m \in Shown', m.hash = i, m.seq = emitted[i]
        PROVE  /\ m.hash \in 1 .. Len(emitted') /\ m.seq = emitted'[m.hash]
               /\ emitted'[m.hash] \in DOMAIN held' /\ m.hash <= held'[emitted'[m.hash]]
    BY <2>2, <2>4, <2>6 DEF FeedTyped
  <2>7. ASSUME NEW m \in Shown
        PROVE  /\ m.hash \in 1 .. Len(emitted') /\ m.seq = emitted'[m.hash]
               /\ emitted'[m.hash] \in DOMAIN held' /\ m.hash <= held'[emitted'[m.hash]]
    <3>1. /\ m.hash \in 1 .. Len(emitted) /\ m.seq = emitted[m.hash]
          /\ emitted[m.hash] \in DOMAIN held /\ m.hash <= held[emitted[m.hash]]
          /\ held[emitted[m.hash]] \in 1 .. Len(emitted) /\ Len(emitted) \in Nat
          /\ emitted[m.hash] \in Nat /\ emitted[i] \in Nat
      BY <1>4, <2>2 DEF ShownInv, HeldInv
    <3>2. CASE emitted[m.hash] = emitted[i]
      <4>1. held[emitted[m.hash]] < i
        BY <2>3, <3>1, <3>2
      <4>. QED
        BY <2>2, <2>4, <3>1, <3>2, <4>1
    <3>3. CASE emitted[m.hash] # emitted[i]
      BY <2>2, <2>4, <3>1, <3>3
    <3>. QED
      BY <3>2, <3>3
  <2>. QED
    BY <2>5, <2>6, <2>7 DEF ShownInv
<1>3. CASE ~\E s \in Source : FeedIngest(s) /\ Claim(s)
  <2>1. held' = held
    BY <1>3, ClaimOrNot
  <2>2. Shown' \subseteq Shown
    BY <1>3, ShownStep
  <2>. QED
    BY <1>1, <2>1, <2>2 DEF ShownInv
<1>. QED
  BY <1>2, <1>3

-----------------------------------------------------------------------------
(* No block twice *)

LEMMA ApartIn ==
  ASSUME NEW p, NEW q
  PROVE  Apart(p, q) <=> \A a \in ToSet(p), b \in ToSet(q) : a.hash # b.hash
BY DEF Apart, ToSet

\* A message whose block the queue does not have may be added to it.
LEMMA OnceAppend ==
  ASSUME NEW q \in Seq(Message), NEW m \in Message, Once(q), \A a \in ToSet(q) : a.hash # m.hash
  PROVE  Once(Append(q, m))
<1>1. /\ Len(q) \in Nat /\ DOMAIN q = 1 .. Len(q) /\ DOMAIN Append(q, m) = 1 .. Len(q) + 1
      /\ Append(q, m)[Len(q) + 1] = m /\ \A k \in 1 .. Len(q) : Append(q, m)[k] = q[k]
  BY AppendProperties, LenProperties
<1>2. \A k \in DOMAIN q : q[k].hash # m.hash
  BY DEF ToSet
<1>3. \A k \in DOMAIN Append(q, m) : \/ k \in DOMAIN q /\ Append(q, m)[k] = q[k]
                                     \/ k = Len(q) + 1 /\ Append(q, m)[k] = m
  BY <1>1
<1>. QED
  BY <1>2, <1>3 DEF Once

\* The head of a queue, and what is left of it.
LEMMA OnceTail ==
  ASSUME NEW q \in Seq(Message), q # <<>>, Once(q)
  PROVE  Once(Tail(q)) /\ \A a \in ToSet(Tail(q)) : a.hash # Head(q).hash
<1>1. /\ Len(q) \in Nat /\ DOMAIN q = 1 .. Len(q) /\ 1 \in DOMAIN q /\ Head(q) = q[1]
      /\ DOMAIN Tail(q) = 1 .. Len(q) - 1 /\ \A k \in 1 .. Len(q) - 1 : Tail(q)[k] = q[k + 1]
  BY HeadTailProperties, LenProperties, EmptySeq
<1>2. \A k \in DOMAIN Tail(q) : k \in Int /\ k + 1 \in DOMAIN q /\ k + 1 # 1 /\ Tail(q)[k] = q[k + 1]
  BY <1>1
<1>3. \A j, k \in DOMAIN Tail(q) : j # k => j + 1 # k + 1
  BY <1>2
<1>4. Once(Tail(q))
  BY <1>2, <1>3 DEF Once
<1>5. \A k \in DOMAIN Tail(q) : Tail(q)[k].hash # q[1].hash
  BY <1>1, <1>2 DEF Once
<1>. QED
  BY <1>1, <1>4, <1>5 DEF ToSet

\* ConsumedOnce by the messages the queues hold.
AllApart ==
  /\ Once(consumed) /\ Once(channel) /\ \A s \in Source : Once(out[s])
  /\ \A a \in ToSet(consumed), b \in ToSet(channel) : a.hash # b.hash
  /\ \A s \in Source : \A b \in ToSet(out[s]) :
       /\ \A a \in ToSet(consumed) : a.hash # b.hash
       /\ \A a \in ToSet(channel) : a.hash # b.hash
       /\ \A t \in Source \ {s} : \A a \in ToSet(out[t]) : b.hash # a.hash

LEMMA AllApartIsOnce == AllApart => ConsumedOnce
<1>1. Apart(consumed, channel) <=> \A a \in ToSet(consumed), b \in ToSet(channel) : a.hash # b.hash
  BY ApartIn
<1>2. \A s \in Source :
        /\ Apart(consumed, out[s]) <=> \A a \in ToSet(consumed), b \in ToSet(out[s]) : a.hash # b.hash
        /\ Apart(channel, out[s]) <=> \A a \in ToSet(channel), b \in ToSet(out[s]) : a.hash # b.hash
        /\ \A t \in Source :
             Apart(out[s], out[t]) <=> \A b \in ToSet(out[s]), a \in ToSet(out[t]) : b.hash # a.hash
  BY ApartIn
<1>. QED
  BY <1>1, <1>2 DEF AllApart, ConsumedOnce

LEMMA OnceClaimed ==
  ASSUME Base, OrderInv, ShownInv, AllApart, NEW s \in Source, FeedIngest(s), Claim(s),
         UNCHANGED <<channel, consumed>>,
         NEW m \in Message, out' = [out EXCEPT ![s] = Append(out[s], m)], m.hash = latest'.hash
  PROVE  AllApart'
<1>0. out \in [Source -> Seq(Message)]
  BY DEF Base, Typed, TypeOK
<1>1. \A a \in Shown : a.hash # m.hash
  <2>1. PICK i \in Pending(s) :
          /\ i \in 1 .. Len(emitted) /\ latest'.hash = i
          /\ IsNew(emitted[i], i) \/ IsReorg(emitted[i], i)
    <3>1. \E i \in 1 .. relayed[s] :
            /\ i <= Len(emitted) /\ i \in Pending(s) /\ latest'.hash = i
            /\ IsNew(emitted[i], i) \/ IsReorg(emitted[i], i)
      BY ClaimedBlock
    <3>2. relayed[s] \in Nat /\ Len(emitted) \in Nat
      BY DEF Base, FeedTyped
    <3>. QED
      BY <3>1, <3>2
  <2>2. \A n \in DOMAIN held : n <= emitted[i] => held[n] < i
    BY <2>1, ClaimedIsNewer DEF OrderInv
  <2>3. emitted[i] \in Nat
    <3>1. emitted \in Seq(SeqNum)
      BY DEF Base, FeedTyped
    <3>. QED
      BY <2>1, <3>1, ElementOfSeq, SeqNumAssumption
  <2>4. ASSUME NEW a \in Shown, a.hash = i PROVE FALSE
    <3>1. emitted[i] \in DOMAIN held /\ i <= held[emitted[i]]
      BY <2>4 DEF ShownInv
    <3>2. held[emitted[i]] < i /\ held[emitted[i]] \in Int
      BY <2>2, <2>3, <3>1 DEF OrderInv, HeldInv
    <3>. QED
      BY <2>1, <3>1, <3>2
  <2>. QED
    BY <2>1, <2>4
<1>2. /\ \A a \in ToSet(consumed) : a.hash # m.hash
      /\ \A a \in ToSet(channel) : a.hash # m.hash
      /\ \A t \in Source : \A a \in ToSet(out[t]) : a.hash # m.hash
  BY <1>1, ShownIn
<1>3. /\ ToSet(out'[s]) = ToSet(out[s]) \cup {m}
      /\ \A t \in Source \ {s} : out'[t] = out[t]
  BY <1>0, ToSetAppend
<1>4. Once(out'[s]) /\ \A t \in Source \ {s} : Once(out'[t])
  BY <1>0, <1>2, <1>3, OnceAppend DEF AllApart
<1>5. /\ Once(consumed) /\ Once(channel)
      /\ \A a \in ToSet(consumed), b \in ToSet(channel) : a.hash # b.hash
      /\ \A t \in Source : \A b \in ToSet(out[t]) :
         /\ \A a \in ToSet(consumed) : a.hash # b.hash
         /\ \A a \in ToSet(channel) : a.hash # b.hash
         /\ \A r \in Source \ {t} : \A a \in ToSet(out[r]) : b.hash # a.hash
  BY DEF AllApart
<1>6. \A t \in Source : \A b \in ToSet(out'[t]) : b \in ToSet(out[t]) \/ (t = s /\ b = m)
  BY <1>3
<1>7. \A t \in Source : \A b \in ToSet(out'[t]) :
         /\ \A a \in ToSet(consumed) : a.hash # b.hash
         /\ \A a \in ToSet(channel) : a.hash # b.hash
  BY <1>2, <1>5, <1>6
<1>8. \A t \in Source : \A b \in ToSet(out'[t]) :
         \A r \in Source \ {t} : \A a \in ToSet(out'[r]) : b.hash # a.hash
  BY <1>2, <1>5, <1>6
<1>. QED
  BY <1>3, <1>4, <1>5, <1>7, <1>8 DEF AllApart

LEMMA OnceSent ==
  ASSUME Base, AllApart, NEW s \in Source, out[s] # <<>>, out' = [out EXCEPT ![s] = Tail(out[s])],
         channel' = Append(channel, Head(out[s])), UNCHANGED consumed
  PROVE  AllApart'
<1>0. out \in [Source -> Seq(Message)] /\ channel \in Seq(Message)
  BY DEF Base, Typed, TypeOK, FeedTyped
<1>. DEFINE m == Head(out[s])
<1>1. m \in Message /\ ToSet(out[s]) = ToSet(Tail(out[s])) \cup {m}
  BY <1>0, ToSetTail, HeadTailProperties
<1>2. /\ out'[s] = Tail(out[s]) /\ \A t \in Source \ {s} : out'[t] = out[t]
      /\ ToSet(channel') = ToSet(channel) \cup {m}
  BY <1>0, <1>1, ToSetAppend
<1>3. Once(out'[s]) /\ \A a \in ToSet(out'[s]) : a.hash # m.hash
  BY <1>0, <1>2, OnceTail DEF AllApart
<1>4. \A t \in Source : Once(out'[t])
  BY <1>2, <1>3 DEF AllApart
<1>. HIDE DEF m
<1>5. /\ \A a \in ToSet(consumed) : a.hash # m.hash
      /\ \A a \in ToSet(channel) : a.hash # m.hash
      /\ \A t \in Source \ {s} : \A a \in ToSet(out[t]) : m.hash # a.hash
  BY <1>1 DEF AllApart
<1>6. Once(channel')
  <2>1. Once(channel)
    BY DEF AllApart
  <2>. QED
    BY <1>0, <1>1, <1>5, <2>1, OnceAppend DEF m
<1>7. \A t \in Source : \A b \in ToSet(out'[t]) : b \in ToSet(out[t]) /\ b.hash # m.hash
  BY <1>1, <1>2, <1>3, <1>5
<1>8. \A a \in ToSet(consumed), b \in ToSet(channel') : a.hash # b.hash
  BY <1>2, <1>5 DEF AllApart
<1>9. \A t \in Source : \A b \in ToSet(out'[t]) :
         /\ \A a \in ToSet(consumed) : a.hash # b.hash
         /\ \A a \in ToSet(channel') : a.hash # b.hash
         /\ \A r \in Source \ {t} : \A a \in ToSet(out'[r]) : b.hash # a.hash
  BY <1>2, <1>7 DEF AllApart
<1>. QED
  BY <1>4, <1>6, <1>8, <1>9 DEF AllApart

LEMMA OnceConsumed ==
  ASSUME Base, AllApart, channel # <<>>, channel' = Tail(channel),
         consumed' = Append(consumed, Head(channel)), UNCHANGED out
  PROVE  AllApart'
<1>0. channel \in Seq(Message) /\ consumed \in Seq(Message)
  BY DEF Base, FeedTyped
<1>. DEFINE m == Head(channel)
<1>1. m \in Message /\ ToSet(channel) = ToSet(channel') \cup {m}
  BY <1>0, ToSetTail, HeadTailProperties
<1>2. ToSet(consumed') = ToSet(consumed) \cup {m}
  BY <1>0, <1>1, ToSetAppend
<1>3. Once(channel') /\ \A a \in ToSet(channel') : a.hash # m.hash
  BY <1>0, OnceTail DEF AllApart
<1>4. \A a \in ToSet(consumed) : a.hash # m.hash
  BY <1>1 DEF AllApart
<1>5. Once(consumed')
  <2>1. Once(consumed)
    BY DEF AllApart
  <2>. QED
    BY <1>0, <1>1, <1>4, <2>1, OnceAppend
<1>. HIDE DEF m
<1>6. \A a \in ToSet(consumed'), b \in ToSet(channel') : a.hash # b.hash
  BY <1>1, <1>2, <1>3 DEF AllApart
<1>7. \A s \in Source : \A b \in ToSet(out[s]) :
         /\ \A a \in ToSet(consumed') : a.hash # b.hash
         /\ \A a \in ToSet(channel') : a.hash # b.hash
         /\ \A t \in Source \ {s} : \A a \in ToSet(out[t]) : b.hash # a.hash
  BY <1>1, <1>2 DEF AllApart
<1>. QED
  BY <1>3, <1>5, <1>6, <1>7 DEF AllApart

LEMMA OnceStep ==
  ASSUME Base, OrderInv, ShownInv, AllApart, [FeedNext]_feedVars
  PROVE  AllApart'
<1>. /\ out \in [Source -> Seq(Message)]
     /\ ToSet(<<>>) = {} /\ Once(<<>>)
  BY DEF Base, Typed, TypeOK, ToSet, Once
<1>1. ASSUME UNCHANGED <<out, channel, consumed>> PROVE AllApart'
  BY <1>1 DEF AllApart
<1>3. ASSUME channel' = <<>>, UNCHANGED <<out, consumed>> PROVE AllApart'
  BY <1>3 DEF AllApart
<1>4. ASSUME NEW s \in Source, out' = [out EXCEPT ![s] = <<>>], UNCHANGED <<channel, consumed>>
      PROVE  AllApart'
  <2>1. \A t \in Source : out'[t] = <<>> \/ out'[t] = out[t]
    BY <1>4
  <2>2. \A t \in Source : Once(out'[t]) /\ \A b \in ToSet(out'[t]) : b \in ToSet(out[t])
    BY <2>1 DEF AllApart
  <2>. QED
    BY <1>4, <2>2 DEF AllApart
<1>. QED
  BY <1>1, <1>3, <1>4, QueueStep, OnceClaimed, OnceSent, OnceConsumed

(***************************************************************************)
(* With one source, or with a sequencer that never goes back, no block is  *)
(* in two hands on its way to the consumer, nor reaches it twice, however  *)
(* the sources race for the locks and the channel.                         *)
(***************************************************************************)
THEOREM OnceCorrect ==
  ASSUME Alone \/ MaxReorgs = 0
  PROVE  FeedSpec => []ConsumedOnce
<1>1. FeedInit => Base /\ OrderInv /\ ShownInv /\ AllApart
  <2>. SUFFICES ASSUME FeedInit PROVE ShownInv /\ AllApart
    BY FeedTypedInit, OrderInit DEF Base
  <2>1. consumed = <<>> /\ channel = <<>> /\ \A s \in Source : out[s] = <<>>
    BY DEF FeedInit, Init
  <2>2. ToSet(<<>>) = {} /\ Once(<<>>)
    BY DEF ToSet, Once
  <2>. QED
    BY <2>1, <2>2, ShownIn DEF ShownInv, AllApart
<1>2. Base /\ OrderInv /\ ShownInv /\ AllApart /\ [FeedNext]_feedVars
        => Base' /\ OrderInv' /\ ShownInv' /\ AllApart'
  BY BaseStep, OrderStep, ShownInvStep, OnceStep
<1>. QED
  BY <1>1, <1>2, AllApartIsOnce, PTL DEF FeedSpec
=============================================================================

-------------------------------- MODULE Feed --------------------------------
(***************************************************************************)
(* A whole Feed: the sources of module Dedup, each reading from a relay    *)
(* that follows the sequencer at its own pace, the bounded channel between *)
(* the sources and the consumer, and the consumer itself                   *)
(* (src/src/consume.rs).                                                   *)
(*                                                                         *)
(* The sequencer and the relays are outside this repository.  The          *)
(* sequencer emits one block after another and sometimes goes back to an   *)
(* earlier number; a relay forwards what it emits, in order, and starts a  *)
(* connection with its backlog.  A block is known by its position in what  *)
(* was emitted, and that position is its hash: equal hashes, equal blocks. *)
(* Every message is signed, so verification is left to Dedup.              *)
(***************************************************************************)
EXTENDS Dedup

CONSTANTS
  Capacity,      \* messages the channel holds
  MaxBlocks,     \* bound: blocks emitted
  MaxReorgs,     \* bound: times the sequencer goes back
  MaxAged        \* bound: blocks that are no longer recent

ASSUME CapacityAssumption == Capacity \in Nat \ {0}
ASSUME BlockAssumption == MaxBlocks \in Nat /\ Hash = 1 .. MaxBlocks /\ NoHash = 0

VARIABLES
  emitted,       \* the numbers of the blocks emitted, in order
  aged,          \* how many of them are no longer recent by this host's clock
  relayed,       \* per source: how many of them its relay has
  stream,        \* per source: the blocks under way on its connection
  overdue,       \* per source: its connection is older than MAX_BACKLOG
  channel,       \* the messages buffered for the consumer
  waiters,       \* the sources waiting for room in the channel, first come first served
  granted,       \* the sources that were given room and have not used it yet
  consumed,      \* the messages the consumer received
  skipped,       \* the blocks claimed from a backlog, which nobody hands over (history)
  open           \* whether the Feed exists

world == <<emitted, aged, relayed>>
wire == <<stream, overdue>>
queue == <<channel, waiters, granted, consumed>>
feedVars == <<vars, world, wire, queue, skipped, open>>

-----------------------------------------------------------------------------
(* The sequencer and the relays *)

Blocks == 1 .. Len(emitted)
Reorgs == {i \in Blocks : i > 1 /\ emitted[i] <= emitted[i - 1]}

\* The block is no older than LIVE_THRESHOLD by this host's clock.
Recent(i) == i > aged

\* The sequencer emits the next number, or goes back to an earlier one.
Emit(n) ==
  /\ Len(emitted) < MaxBlocks
  /\ IF emitted = <<>> THEN n = 0
     ELSE \/ n = Last(emitted) + 1
          \/ n <= Last(emitted) /\ Cardinality(Reorgs) < MaxReorgs
  /\ emitted' = Append(emitted, n)
  /\ UNCHANGED <<vars, aged, relayed, wire, queue, skipped, open>>

\* Time passes: one more block is older than LIVE_THRESHOLD, which may be before
\* it reached anyone.  A clock that is ahead only makes that happen sooner.
Age ==
  /\ aged < Len(emitted) /\ aged < MaxAged
  /\ aged' = aged + 1
  /\ UNCHANGED <<vars, emitted, relayed, wire, queue, skipped, open>>

\* The blocks of the chain as it was after r blocks: those not gone back past.
Chain(r) == {i \in 1 .. r : \A j \in i + 1 .. r : emitted[j] > emitted[i]}

\* What a relay sends to a new connection: its chain from the number asked
\* for, or the whole of it if it does not have that number.
Backlog(s, number) ==
  LET chain == Chain(relayed[s])
      found == \E i \in chain : emitted[i] = number
  IN  {i \in chain : found => emitted[i] >= number}

\* The blocks of a set in the order they were emitted.
Ascending(blocks) ==
  {q \in [1 .. Cardinality(blocks) -> blocks] :
     Range(q) = blocks /\ \A i, j \in DOMAIN q : i < j => q[i] < q[j]}

Online(s) == pc[s] \in {"reading", "checking", "accepting", "sending"}

\* A relay gets the next block and passes it on.
Forward(s) ==
  /\ relayed[s] < Len(emitted)
  /\ relayed' = [relayed EXCEPT ![s] = @ + 1]
  /\ stream' = IF Online(s) THEN [stream EXCEPT ![s] = Append(@, relayed[s] + 1)] ELSE stream
  /\ UNCHANGED <<vars, emitted, aged, overdue, queue, skipped, open>>

-----------------------------------------------------------------------------
(* A source: Dedup's steps, on its own connection *)

FeedDial(s) == Dial(s) /\ UNCHANGED <<world, wire, queue, skipped, open>>

FeedConnect(s) ==
  /\ Connect(s)
  /\ \E blocks \in Ascending(Backlog(s, asked[s])) : stream' = [stream EXCEPT ![s] = blocks]
  /\ overdue' = [overdue EXCEPT ![s] = FALSE]
  /\ UNCHANGED <<world, queue, skipped, open>>

\* A connection that fails loses what was under way on it.
FeedFail(s) ==
  /\ Fail(s)
  /\ stream' = [stream EXCEPT ![s] = <<>>]
  /\ UNCHANGED <<world, overdue, queue, skipped, open>>

FeedReplaceSlow(s) ==
  /\ ReplaceSlow(s)
  /\ stream' = [stream EXCEPT ![s] = <<>>]
  /\ UNCHANGED <<world, overdue, queue, skipped, open>>

\* A connection still in the backlog gets older than MAX_BACKLOG.
Overdue(s) ==
  /\ Online(s) /\ ~live[s] /\ ~overdue[s]
  /\ overdue' = [overdue EXCEPT ![s] = TRUE]
  /\ UNCHANGED <<vars, world, stream, queue, skipped, open>>

EntryOf(i) == [seq |-> emitted[i], hash |-> i, good |-> TRUE]

\* The next frame, of one block or more.  The backlog is over once the last
\* block of a frame is recent, or once it has lasted too long.
FeedReceive(s) ==
  \E k \in 1 .. Len(stream[s]) :
    LET blocks == SubSeq(stream[s], 1, k)
        frame == [i \in 1 .. k |-> EntryOf(blocks[i])]
    IN  /\ k <= MaxFrame
        /\ Receive(s, frame, Recent(Last(blocks)) \/ overdue[s])
        /\ stream' = [stream EXCEPT ![s] = SubSeq(@, k + 1, Len(@))]
        /\ UNCHANGED <<world, overdue, queue, skipped, open>>

\* A block claimed from a backlog is not handed over.
FeedIngest(s) ==
  /\ Ingest(s)
  /\ skipped' = IF latest' # latest /\ ~live[s] THEN skipped \cup {latest'.hash} ELSE skipped
  /\ UNCHANGED <<world, wire, queue, open>>

FeedReadOn(s) == ReadOn(s) /\ UNCHANGED <<world, wire, queue, skipped, open>>

-----------------------------------------------------------------------------
(* The channel and the consumer *)

\* Wrong: the channel takes one message too many.
WrongFullLate == Len(channel) + Cardinality(granted) > Capacity

Full == Len(channel) + Cardinality(granted) >= Capacity
Waiting(s) == s \in granted \/ \E i \in DOMAIN waiters : waiters[i] = s

\* try_send succeeds.
TrySend(s) ==
  /\ open /\ ~Full /\ ~Waiting(s)
  /\ Send(s)
  /\ channel' = Append(channel, Head(out[s]))
  /\ UNCHANGED <<world, wire, waiters, granted, consumed, skipped, open>>

\* The channel is full: wait in send() with the message in hand.
Wait(s) ==
  /\ open /\ Full /\ ~Waiting(s)
  /\ pc[s] = "sending" /\ out[s] # <<>>
  /\ waiters' = Append(waiters, s)
  /\ UNCHANGED <<vars, world, wire, channel, granted, consumed, skipped, open>>

\* send() uses the room it was given.
SendGranted(s) ==
  /\ open /\ s \in granted
  /\ Send(s)
  /\ channel' = Append(channel, Head(out[s]))
  /\ granted' = granted \ {s}
  /\ UNCHANGED <<world, wire, waiters, consumed, skipped, open>>

\* Wrong: the room of a received message is not passed on to a source that waits.
WrongRecvKeepsRoom ==
  /\ open /\ channel # <<>>
  /\ consumed' = Append(consumed, Head(channel))
  /\ channel' = Tail(channel)
  /\ UNCHANGED <<vars, world, wire, waiters, granted, skipped, open>>

\* The consumer receives a message; its room goes to the first that waits.
Recv ==
  /\ open /\ channel # <<>>
  /\ consumed' = Append(consumed, Head(channel))
  /\ channel' = Tail(channel)
  /\ IF waiters = <<>>
     THEN UNCHANGED <<waiters, granted>>
     ELSE waiters' = Tail(waiters) /\ granted' = granted \cup {Head(waiters)}
  /\ UNCHANGED <<vars, world, wire, skipped, open>>

\* The Feed is dropped, and its channel with it.
DropFeed ==
  /\ Droppable /\ open
  /\ open' = FALSE
  /\ channel' = <<>>
  /\ UNCHANGED <<vars, world, wire, waiters, granted, consumed, skipped>>

\* Wrong: a source that waits for room is neither aborted nor woken.
WrongFeedStopNotWaiting(s, aborted) ==
  /\ ~open /\ ~Waiting(s)
  /\ aborted => pc[s] # "sending"
  /\ Stop(s, aborted)
  /\ stream' = [stream EXCEPT ![s] = <<>>]
  /\ UNCHANGED <<world, overdue, queue, skipped, open>>

\* Then a source ends where it waits, or when it finds the channel closed.
FeedStop(s, aborted) ==
  /\ ~open
  /\ aborted => pc[s] # "sending" \/ Waiting(s)
  /\ Stop(s, aborted)
  /\ stream' = [stream EXCEPT ![s] = <<>>]
  /\ UNCHANGED <<world, overdue, queue, skipped, open>>

-----------------------------------------------------------------------------
FeedInit ==
  /\ Init
  /\ emitted = <<>> /\ aged = 0
  /\ relayed = [s \in Source |-> 0]
  /\ stream = [s \in Source |-> <<>>]
  /\ overdue = [s \in Source |-> FALSE]
  /\ channel = <<>> /\ waiters = <<>> /\ granted = {} /\ consumed = <<>>
  /\ skipped = {} /\ open = TRUE

\* What the task of source s does by itself.
Step(s) ==
  \/ FeedDial(s) \/ FeedReplaceSlow(s)
  \/ FeedReceive(s) \/ FeedIngest(s) \/ FeedReadOn(s)
  \/ TrySend(s) \/ Wait(s) \/ SendGranted(s)
  \/ \E aborted \in BOOLEAN : FeedStop(s, aborted)

FeedNext ==
  \/ \E n \in SeqNum : Emit(n)
  \/ Age
  \/ \E s \in Source : Forward(s) \/ FeedConnect(s) \/ FeedFail(s) \/ Overdue(s) \/ Step(s)
  \/ Recv
  \/ DropFeed

FeedSpec == FeedInit /\ [][FeedNext]_feedVars

(***************************************************************************)
(* tokio polls every task that can make progress, a relay keeps passing on *)
(* what it gets, and the consumer keeps calling recv().  That a server     *)
(* answers is nobody's promise: connect() awaits TCP, TLS and the          *)
(* handshake without a timeout, so a dial may last for ever.               *)
(***************************************************************************)
Fairness ==
  /\ \A s \in Source : WF_feedVars(Step(s)) /\ WF_feedVars(Forward(s))
  /\ WF_feedVars(Recv)

FairFeedSpec == FeedSpec /\ Fairness

-----------------------------------------------------------------------------
(* Properties *)

(***************************************************************************)
(* The channel never holds more than its capacity, room given to a waiting *)
(* source included.  Only sources with a message in hand wait, each once,  *)
(* and nobody waits while there is room: no wake-up is lost.               *)
(***************************************************************************)
RoomIsAccounted ==
  open => /\ Len(channel) + Cardinality(granted) <= Capacity
          /\ waiters # <<>> => Full
          /\ IsInjective(waiters) /\ ToSet(waiters) \cap granted = {}
          /\ \A s \in ToSet(waiters) \cup granted : pc[s] = "sending" /\ out[s] # <<>>

\* The messages on their way to the consumer, and those that reached it.
Shown == ToSet(consumed) \cup ToSet(channel) \cup UNION {ToSet(out[s]) : s \in Source}

(***************************************************************************)
(* A block the sequencer went back past never comes after one that took    *)
(* its place: what is delivered is newer than all that was delivered up to *)
(* its number.                                                             *)
(***************************************************************************)
OldBlocksDropped == [][\A n \in DOMAIN held : n <= latest'.seq => held[n] < latest'.hash]_latest

(***************************************************************************)
(* A number the feed skips when it goes ahead was delivered before: it is  *)
(* sent again from below, after outages hid reorgs, and drops the copies.  *)
(***************************************************************************)
NoGap ==
  [][latest.seq # -1 => latest.seq + 1 .. latest'.seq - 1 \subseteq DOMAIN held]_latest

(***************************************************************************)
(* After a block the consumer never receives an older one at the same      *)
(* number or ahead of it: only a step back to a lower number can bring an  *)
(* older block after a newer one.                                          *)
(***************************************************************************)
ConsumedForward ==
  \A i, j \in DOMAIN consumed :
    i < j /\ consumed[i].seq <= consumed[j].seq => consumed[i].hash < consumed[j].hash

\* The consumer receives blocks in the order the sequencer emitted them.
ConsumedInOrder ==
  \A i, j \in DOMAIN consumed : i < j => consumed[i].hash < consumed[j].hash

\* The blocks of the messages of a queue are all different, and different from
\* those of another queue.
Once(q) == \A i, j \in DOMAIN q : i # j => q[i].hash # q[j].hash
Apart(p, q) == \A i \in DOMAIN p, j \in DOMAIN q : p[i].hash # q[j].hash

\* No block reaches the consumer twice, nor is one in two hands.
ConsumedOnce ==
  /\ Once(consumed) /\ Once(channel) /\ Apart(consumed, channel)
  /\ \A s \in Source : Once(out[s]) /\ Apart(consumed, out[s]) /\ Apart(channel, out[s])
  /\ \A s, t \in Source : s # t => Apart(out[s], out[t])

\* Source s drops a copy of block i.
Drops(s, i) ==
  /\ stats'["duplicate"] > stats["duplicate"]
  /\ todo'[s] # todo[s] /\ Head(todo[s]).hash = i

(***************************************************************************)
(* A copy that a live source drops is of a block that was handed over, or  *)
(* is about to be, as long as the Feed is there.                           *)
(***************************************************************************)
DroppedWasShown ==
  [][\A s \in Source, i \in Blocks :
       open /\ live[s] /\ Drops(s, i) => \E m \in Shown : m.hash = i]_stats

(***************************************************************************)
(* Only a backlog loses blocks: what any source drops as a copy was handed *)
(* over, or is about to be, unless a source that was still in its backlog  *)
(* had claimed it.                                                         *)
(***************************************************************************)
LostToBacklog ==
  [][\A s \in Source, i \in Blocks :
       open /\ Drops(s, i) /\ i \notin skipped => \E m \in Shown : m.hash = i]_stats

\* The last block has a number that was delivered and forgotten: the sequencer went
\* back past the window, and the feed takes the block for a copy.
TooDeep == emitted # <<>> /\ Last(emitted) \in DOMAIN held \ DOMAIN seen

(***************************************************************************)
(* Whatever connections fail and whatever they hide, a single source       *)
(* catches up with a sequencer that does not go back too deep, unless the  *)
(* server never answers a dial: nothing ends that dial, and nobody else    *)
(* dials for the source.                                                   *)
(***************************************************************************)
CatchesUp ==
  \/ []<>(latest.hash = Len(emitted) \/ TooDeep)
  \/ \E s \in Source : <>[](pc[s] = "dialing")

\* A consumer that keeps receiving gets all that is claimed for it, however
\* small the channel: no source keeps messages in hand for ever, waiting for room
\* that goes to others.
AllHandedOver == \A s \in Source : []<>(out[s] = <<>>)

\* Dropping the Feed, which nothing undoes, ends every task.
StopsWhenDropped == []<>(open \/ \A s \in Source : pc[s] = "stopped")
=============================================================================

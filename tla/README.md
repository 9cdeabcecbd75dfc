# TLA+ models of the sequencer feed client

These modules model `rhfeed`, a Rust client that reads one or more Nitro feeds,
removes duplicates, verifies and decodes the messages, and hands them to one
consumer. TLC checks the models on small instances; TLAPS proves the theorems in
the `*Proofs` modules for every value of the constants. Paths below are relative
to the repository (`src/consume.rs` is the file the maps call `src/src/consume.rs`).

## The system

| Part | State | Operations |
|---|---|---|
| Shared state (`State`, `Shared`, consume.rs 256-535) | watermark `highest_seq`, `seen` (number -> hash), counters, and per source a window `recent`, a flag `replace`, `connected` | `classify`, `late_copy`, `check_slow`, `remember`, `ingest`, `reject` |
| Source task (`Source`, 745-1003), one per URL | connection, `live`, the frame in hand, timers, the next pause | `run`, `connect`, `read`, `set_connected` |
| Channel and `Feed` (580-740) | a bounded tokio channel, the set of tasks | `spawn`, `recv`, drop |
| Sender pool (codec.rs 395-515) | `epoch`, slot `job`, `stop`; per job `txs`, `next`, `done` | `new`, `recover_while`, `Job::work`, drop |
| Verifier (verify.rs 145-206) | allowed signers per clone, learned keys shared by clones | `accepts_with`, `remember` |
| Decoder (codec.rs) | none | RLP scan, batch walk, transactions, sender recovery |
| secp256k1 (secp.rs) | precomputed tables of a known key | recovery, `FixedKey::verify` |
| Command line (main.rs) | filter, statistics | filter, print |

How they interact: every source task reads frames from its own server and calls
`ingest`, which takes the one lock of the shared state twice per entry, once to
drop copies and once to claim what is still new after verification and decoding.
Claimed live messages leave the lock in a vector and go into the channel from the
task, which waits there when the channel is full. The consumer takes them with
`recv`. A reconnecting task reads the watermark under the lock and asks its server
to start there. With `senders`, a task lends the transactions of a message to the
pool's threads while it checks the signature itself. Dropping the `Feed` aborts
the tasks and closes the channel.

What is hard, and what makes each part correct:

- **Shared state.** The verdict of the first lock is stale at the second; reorgs
  move the watermark back, so a number may be both remembered and ahead; hashes may
  be missing; the window forgets. *Correct when* a number is delivered again only as
  another block, a reorg is marked exactly when the feed goes back, forgetting never
  makes an old number new, every entry is counted once, and slow connections are
  replaced no more often than they had a chance to lose.
- **Source task.** Failure at any moment, a dial that is never answered, a watermark
  that moved while dialing, a backlog whose end is recognised by a clock, a server gone
  without a word. *Correct when* the feed catches up after any failure that ends, skips
  no number it never delivered and repeats no block, a dead connection is noticed in time
  and a live one is kept, and pauses grow to their limit and no further.
- **Channel.** Several producers wait for one consumer; the `Feed` goes away under
  them. *Correct when* room is never over-committed, no wake-up is lost, all that
  is claimed live arrives once and nothing else is lost than what a backlog claims, and
  every task ends after a drop.
- **Pool.** Raw pointers to borrowed transactions are shared with threads that may
  be late by a whole call. *Correct when* no pointer is followed after its call, no
  index is worked on twice, a call returns complete, and a drop ends the threads.
- **Verifier.** Two tasks learn a key at once; clones with other signers share the
  keys; a signer may be removed after its key was learned. *Correct when* what was
  learned decides about nothing but an allowed signer's signature with a wrong recovery id,
  tables are kept once per signer and for signers only (two threads may both build them),
  and a known key is not recovered again.
- **FixedKey.** Signed digits with a last carry, an addition that cannot double, an x
  between n and p: cases that random signatures never meet. *Correct when* it agrees
  with recovery on all of them.
- **Decoder.** Lengths come from received bytes; batches nest; the signed bytes are
  rebuilt. *Correct when* no slice leaves its buffer, exactly the packed transactions are
  found, and each one's sender is recovered from what was signed.

`PROJECT.json` lists these hazards at the lines where they bite, with the
properties that cover each, or why none does.

## Modules

| Module | What it is |
|---|---|
| `Delivery` | Abstract specification: which sequence of messages the feed may deliver, with no sources, no window and no forgetting. |
| `Dedup` | `State` and the source tasks, one step per critical section. Frames are arbitrary. Implements `Delivery` (property `ImplementsDelivery`). |
| `Feed` | `Dedup`'s steps composed with a sequencer, relays, the bounded channel and the consumer. |
| `Connection` | The timers of one source task, in explicit time. |
| `SenderPool` | The pool at the level of atomic accesses. |
| `Acceptance` | Abstract specification: which answers a `Verifier` may give, with no curve, no locks and no list of keys. |
| `Verifier` | A `Verifier` and its clones, one step per lock. Implements `Acceptance` (property `ImplementsAcceptance`). |
| `Secp` | `FixedKey` and recovery as operators, on a curve that is a parameter. |
| `Codec` | From an l2Msg to transactions and the bytes their senders signed. |
| `DedupProofs` | Theorems about `Dedup`. |
| `FeedProofs`, `OrderProofs` | Theorems about `Feed`; the second about what is skipped, lost and put in order. |
| `SecpProofs`, `VerifierProofs` | Theorems about `Secp`; and, with them, about `Verifier`. |
| `ConnectionProofs`, `SenderPoolProofs`, `CodecProofs` | Theorems about the module they are named after. |
| `MCDedup`, `MCFeed`, `MCConnection`, `MCSenderPool` | Sets, symmetry and constants for TLC. |
| `MCVerifier`, `MCCodec` | The small curve and its signatures; the inputs, from an encoder of their own. |

Definitions named `Wrong...` stand next to the definition they distort. No
specification uses them; putting one in the place of its original shows that a
property would notice that mistake.

### Dedup and Delivery

A source task is at one of these places (`pc`): *idle* (about to dial, or in the
pause), *dialing*, *reading*, *checking* (before the first lock for the next
entry), *accepting* (between the two locks), *sending*, *stopped*. The actions are
the steps of the code between two points where other tasks can interleave:

- `Dial` reads `highest_seq` under the lock (839); `Connect` is the handshake and
  `set_connected(true)`; `Fail` is any failure while dialing or reading.
- `Receive` takes a frame and decides whether the connection is live (948-956).
- `DropCopy` and `Accept` are the first lock of `ingest`; `Reject`, `LoseRace` and
  `Claim` what follows verification. `Claim` moves the watermark, remembers the
  hash, trims the window, counts, checks the window of the source, and appends the
  message to those `read` will hand over, all under one lock.
- `TakeReplace` is `mem::take` of the flag (969), `Send` one message handed over,
  `ReadOn` and `ReplaceSlow` the end of the frame, `Stop` the end of the task.

`set_connected(false)` and the increment after it take the lock separately
(780-797); they are one step here. In between, the count of connected sources is
already the new one and only a statistic is behind, which no decision reads.

Abstracted: a hash is a model value and a signature a Boolean, so verification is
its verdict. Timestamps and lag sums are left out; `late_copy` needs them for
statistics only. Log lines are left out, `warned_unverified` and `warned_full` with
them. Counters do not overflow. `held` and `latest` are history variables: what the
code would need to remember to be `Delivery` without a window.

### Feed

`Feed` extends `Dedup` and gives each source a relay. The sequencer `Emit`s blocks
numbered 0, 1, 2, ... and may go back to an earlier number; a block's hash is its
position in what was emitted. A relay `Forward`s blocks in order at its own pace
and starts a connection with `Backlog`: its chain from the number asked for, or the
whole chain if that number is not on it, which is what the comments at consume.rs
26-27 say of Nitro. `Backlog` is the set of those blocks and `Ascending` the order they are
sent in. `Age` makes the oldest blocks older than `LIVE_THRESHOLD`, at any moment after they
were emitted: on the way to a relay, in the frames a source has yet to read while it waits
for the consumer, or by a clock that is ahead. `MaxAged` bounds how many. `Overdue` is
`MAX_BACKLOG`. The sequencer, relays and clock are outside this repository and marked
external in `PROJECT.json`.

A source has one relay, which has no less at a later connection than at an earlier one.
The repository's README (line 137) says that the public feed has several backends; two
connections of one source may then meet different ones, and the later may lag. `Feed` does
not have that case; `Dedup`, whose frames are arbitrary, does, and so what is proved of
`Dedup` holds there.

The channel is tokio's: `TrySend` when there is room, otherwise `Wait` in a
first-come queue; `Recv` gives the freed room to the first that waits, which
`SendGranted` uses. `DropFeed` closes the channel, and `FeedStop` ends a task where
it waits (aborted) or when it finds the channel closed. `recv` of a `busy_poll`
feed spins on the same operation; it is the same step. `skipped` is a history variable: the
blocks claimed while the source was in its backlog, which `read` does not hand over (971).

### Connection

Time is counted in ticks. `last_heard`, `last_frame` and `waited` are the ages that
`Instant::elapsed` would show; `Tick` advances them, and something that is due (a
ping, a frame to read, an expired timeout, the end of a pause) happens before the
next tick. Time passes in every state, while dialing too: `connect` has no timer, so `dialed`
may grow without anything being due, and only the server or the system ends a dial. A read
that times out half way through a frame is assumed to lose nothing,
which is up to the WebSocket library. A frame may take up to `MaxHandling` to handle, because the task waits in
`send` for the consumer. `ExpireSilent` and `ExpireStalled` are the two outcomes of
the timeout arm (897-916), `Fail` the pause and its doubling (796-824). An error
that mentions 429 is taken for a refusal, whatever it is (798): besides a refused dial
that can be an unreadable frame, whose error quotes it (`ReadEnd`).

### SenderPool

One step is one atomic access, one lock, or one recovery. `Publish` builds a `Job`
and puts it in the slot, `Announce` raises `epoch`, `RunF` is the caller's own work,
then the caller works as the threads do (`Claim`, `Follow`, `Count`), waits for
`done` (`Wait`) and empties the slot (`Return`). `Panic` unwinds from line 501. A
thread polls `stop`, then `epoch`, then takes what the slot holds by then, which may
be the job announced, the next one, one already complete, or nothing. Calls are
numbered; a call's transactions are its indices. The slot is modelled sequentially
consistent: it is under a mutex, `epoch` and `done` are release/acquire pairs, and
`next` is only ever modified by `fetch_add`, whose modifications are totally
ordered. The sample of `new` is copied bytes, borrows nothing, and is left out; the
lock of the sample and the lock of the slot in `Publish` are one step. `recover_while`
takes `&mut self`, and `ingest` holds a mutex around it, so there is one caller at
a time.

### Verifier, Acceptance and Secp

`Call`, `Unsigned`, `FastPath` (under the read lock), `Recover` (no lock) and `Remember`
(under the write lock) are `accepts_with`; between them other threads learn keys.
`Change` gives a clone other signers: the field is public, and Rust lets it be changed
only while nobody else uses that clone. An address stands for its key. An entry is its
digest and the parts of its signature; the digest is `None` when a field cannot be
encoded, which is all `accepts_with` sees of the preimage.

`Acceptance` knows of each entry which key its signature and recovery id give (`Recovered`)
and which keys made it (`Made`), and keeps the set of keys learned so far (`known`) and what
that set was when a thread asked (`before`). Its answers are `Recognise` (a known, allowed key
made the signature), `Learn` (the recovered key is allowed, and known from now on) and `Refuse`
(the recovered key is not allowed, and no allowed key that was known when the thread asked made
the signature). So an entry with the right recovery id is accepted whatever happened before, and
one that no allowed signer made is refused. An allowed signer's signature with a wrong recovery
id is another matter: the code says "a signature with a wrong one still proves the key signed"
(secp.rs 312-313), but recovery attributes it to somebody else, so it is refused until some
clone has learned the key and accepted from then on; while the key is being learned it may be
either. `before` is a history variable of `Verifier` for that last case.

`Secp` writes `FixedKey::verify` as the code does: `MulAdd` takes a scalar's bytes as
signed `Digit`s with a `Carry` and adds one table `Entry` per row (`AddRow`), `Add` gives up where
it would have to double, `Doubled` is the fallback, `XMatches` compares x with r and with
r + n in Jacobian coordinates. Recovery and the group are libraries, k256 and
libsecp256k1, and are given by their mathematics: `GroupAssumption` is the group law, and with
`CurveAssumption` and `DigitAssumption` TLC evaluates it on the small curve. Field elements are exact: k256's
magnitudes, which the code keeps small with `negate(4)` and `negate(1)`, are left out.

### Codec

One step is one turn of a loop or one branch of the code: `WalkSigned`, `WalkBatch`,
`WalkOther` and `BatchPart` are `walk` with its recursion as a stack of slices,
`DecodeList`, `ScanItem`, `ScanMalformed` and `ScanDone` are `scan_list`, `Model` takes the
fields. `Recovery` is what `Tx::recover` hands to `secp::recover`. Slices are offsets, as
in the code; the widths of the format (bytes, short lengths, addresses, integers) are
parameters that keep their relations, `BASE` = `STR` + 2 * (`SHORT` + `LONG`) among them. An
l2Msg is at least `SHORT` bytes shorter than a usize can say (`InputsAssumption`): a `Vec` has
at most `isize::MAX` bytes. Hashes are left out: the signed bytes stand for their digest.

For some inputs it is known what a sequencer packed in them and what wallets signed. The format
is stated for them independently of the decoder, as a check on given evidence and not as an
encoder: `IsNesting` and `IsBatch` say which parts an entry consists of, `AreTxsOf` which
of them are transactions in reach, `IsSealed` how a transaction is cut into items and
what its wallet signed, with `IsMinimal`, `IsHeader`, `IsUint` and `IsListOf` for how RLP is
written. `PackedAssumption` asks this of every such input; TLC evaluates it on those of
`MCCodec`, whose encoder supplies the evidence. Inputs of which nothing is known are any bytes.

## Runs

| Run | Instance | Shows |
|---|---|---|
| `dedup_window` | 1 source, 4 numbers, 2 hashes and none, forged entries, window of 1, 5 entries, 1 failure, droppable | The watermark is remembered, what is forgotten lies behind, the window stays below three times its size, reconnects ask for delivered numbers, and `Dedup` implements `Delivery` when the window forgets and numbers come again ahead of a watermark that moved back. |
| `dedup_race` | 2 sources, 2 numbers, 2 hashes and none, forged entries, frames of 2, 3 entries, windows of 2 live messages | `Dedup` implements `Delivery` when sources race between the locks; every entry is counted once; a request for a new connection does not outlive its frame, and replacing is bounded by the live messages counted. |
| `feed_one` | 1 source, 7 blocks on 3 numbers, 2 reorgs, 2 failures, room for 1 | What is skipped was delivered, never back to a block that was replaced, an older block only with a step back to a lower number, and the feed catches up with the sequencer unless a server never answers a dial (the window of 2 forgets nothing here). |
| `feed_two` | 2 sources, 3 blocks, one of which gets old, windows of 2, room for 1, `Feed` dropped at any moment | No block twice, no wake-up lost while both sources wait for room, nothing is lost that no backlog claimed, all that is claimed live is handed over, and every task ends after a drop. Connections are replaced because they are slow. Failures are not in this run; `OnceCorrect` and `LostCorrect` have them. |
| `feed_order`, `feed_resurrect`, `feed_lost` | 2 sources | Counterexamples, see below. |
| `conn_relay` | the source's constants in half seconds, pings every 5 s, frames that take up to 17.5 s to handle, 8 failures in a row | Dead connections and stalls are noticed in time, live ones kept, pauses double from 0.5 s to 30 s and stay there. |
| `conn_public` | the same, pings every 2 s | Counterexample, see below. |
| `pool_calls` | 2 threads, 2 calls of up to 2 transactions, panics | Indices are handed out once, a call returns complete and leaves nobody with its transactions, every call ends, a drop ends the threads. |
| `verify` | y^2 = x^3 + 3 over 19 elements (13 points), digits of 2 bits; 2 threads with a clone each, 2 signers, one clone's signers change, right and wrong recovery ids | The answers are those of `Acceptance`, one table per signer and for signers only, known keys are not recovered, `FixedKey` agrees with recovery. |
| `codec` | bytes of 13 values, batches 2 deep | No slice leaves its buffer, a list is scanned exactly if it can be cut into items, exactly the packed transactions are found, the signed bytes are rebuilt, decoding ends. |

Why the bounds are enough. A window of 1 forgets at the third number remembered, so
four numbers are enough to forget, rewind and arrive again. Three entries are enough
for one source to lose an entry to the other, in either order, with a further entry
before or after, and for a source to lose a whole window of two. The window's bound of
3 * `REORG_WINDOW` - 1 is twice `REORG_WINDOW` for a window of 1, so that more than twice is met
by `BoundCorrect` only. Two failures that each hide a reorg are where the order of a single
source first breaks (see below), and six blocks reach it; a run with one failure would not.
For a number to be skipped that was delivered before takes seven blocks on four numbers (0, 1;
0', 1', 2', 3'; 2''), so `feed_one` checks `NoGap` where nothing is skipped and `NoGapCorrect`
proves it where something is. No block gets old in `feed_one`: that decides which of the claimed
messages are handed over, and its properties are about all that are claimed, or about the order
of any of them. In `feed_two` one does get old. Room for one message
and three blocks let both sources wait at once, and one be given room while the other waits.
Handling for 17.5 s is longer than `SILENCE_LIMIT`,
so that pings wait unread while the source would already count as silent. The pause
reaches 30 s at the seventh failure in a row and stays there at the eighth. Two calls
are enough for a thread that is late by a call; two transactions for one to be slow
while others finish.

In `verify` n is smaller than p, so an x from n to p - 1 exists, r + n is in the field for
some r and not for others, and 2 digits of 2 bits hold more than n: the numbers meet every
edge of the 256-bit ones. Two signers of 12 possible keys, every r from 0 to 15 and s of 1,
4 and 12 (a high one) under every recovery id make sums that double, cancel and carry into
the last row. The second clone allows both signers and so may learn a key that the
first does not allow. In `codec` a byte has three values of its own, lengths below 3 are in
the first byte, and longer ones take 1 or 2 bytes, so that a usize wraps at 169 and a length
of 168 can be written. All raw transactions of up to 3 bytes, all batches of up to 6 from the bytes
that matter there, and all lists of up to 3 bytes whose header may be off cover the malformed
ones; a wallet's transactions of three layouts, with and without a chain id, in batches one
level deeper than the limit, cover the rest.

Where a run's instance is too small to convince, the theorems
below hold for every instance.

### Disagreements between the code and what is said of it

Four runs check a sentence of the repository and find a behaviour that breaks it.
`PROJECT.json` quotes the sentences.

- `feed_order`: messages are claimed in order under the lock and sent after it is
  released, so with two sources the consumer can receive the later one first.
- `feed_resurrect`: once a replaced block's replacement was delivered, the old
  hash is no longer remembered. A slower source's copy of the old block differs from
  what is remembered and is delivered as another reorg.
- `feed_lost`: a source still in its backlog claims a message, which `read` then
  does not hand over; a live source's copy is dropped as a duplicate. The consumer
  never sees it. No clock has to be off: a live source that is held up, by a slow
  consumer for one, is overtaken by a connection to which the block is old.
- `conn_public`: a server that pings more often than `POLL_INTERVAL` restarts the
  read timeout every time, and the stall check runs only when it expires.

`feed_resurrect`'s and `conn_public`'s properties hold where the cause is absent: with one
source (`feed_one`) and with slower pings (`conn_relay`). Of `feed_lost`'s, `LostToBacklog` is
what remains: the backlog is the only way to lose a message.

Order is broken with a single source as well, if two outages each hide a reorg. The source has
0 and 1; while it is away the sequencer goes back to 0', 1', 2'. The source asks for 1, gets 1'
and 2', and 0' is passed over. While it is away again the sequencer goes back to 1''. The source
asks for 2, which is not on the relay's chain any more, and gets the whole chain: 0' is new to it
and is delivered as a reorg, after 1' and 2'. `ConsumedInOrder` fails on this within the bounds of
`feed_one`, so the promise that `feed_order` quotes (README.md line 4 of the repository) needs
more than a single source. `feed_one` checks what remains: `ConsumedForward`, the older block
comes with a lower number; `OldBlocksDropped`, it does not come after what took its place; and
`NoGap`, what the next blocks pass over was delivered before.

No run is about a fifth: the comments on `Job` (codec.rs 412, 424-425) say that pointers are
followed only while the transactions are borrowed. A panic in the caller's own work leaves
`recover_while` at line 501 without waiting for the threads. Theorem `FollowsCorrect` has
the absence of panics as its hypothesis for that reason.

## Fairness

Safety runs use no fairness. `FairFeedSpec` assumes weak fairness of each source's
own steps (tokio polls a task that is ready; there is no await inside `ingest`), of
each relay passing on blocks, and of `Recv` (the consumer keeps calling it). It
assumes nothing of failures, reorgs, ageing or dropping, which happen or not, nor of
`FeedConnect`: `connect` (834-879) awaits TCP, TLS and the handshake without a timeout, so a
server that accepts and stays silent holds its source for ever. `CatchesUp` says what that
leaves: the feed catches up, or some source dials for ever. Its other exception, `TooDeep`, is a
sequencer that goes back past the window (1024 numbers or more, some two minutes): its new blocks
are taken for copies until their number is one that is remembered, or new. `feed_one` has too few numbers to get there.
`FairSpec` of `SenderPool` assumes that the operating system keeps running the
caller and every thread and that the caller's own work ends. `FairCodecSpec` assumes that
the decoder runs on; it is sequential code. `Connection` has no
liveness: what must happen in time is an invariant on ages.

## What is proved

Every invariant, action property and refinement that a passing run checks is also a theorem;
what is left to TLC is liveness (see *Only model-checked*). The assumptions are those on the
constants, stated in each module; where a theorem needs more, its statement says so after
ASSUME and it is said here.

`DedupProofs`, for any sources, numbers, hashes, window and bounds:

1. `TypeCorrect`. `Typed` is `TypeOK` with `EntryInHand`: a task between the two locks
   still has its entry, without which `Head` would be undefined.
2. `WindowCorrect`, `WindowAgrees`, `ForgottenStaysBehind`: `WatermarkRemembered`,
   `WindowIsHistory` and `ForgottenIsBehind` together are inductive (`WindowInv`), and none is alone. Trimming keeps the
   watermark because the cutoff lies behind it, and what it drops lies behind what it
   keeps; a later claim is either ahead of the watermark or of a number still
   remembered, so it stays ahead of what was forgotten.
3. `Refinement`: `Dedup` implements `Delivery`. `Claim` maps to `Deliver` and every other
   step to a stutter. The window decides as the full history would, by 2.
4. `BoundCorrect`: the window never holds 3 * `REORG_WINDOW` numbers. For some m of the
   feed (`Bottom`), all that is remembered lies from m on, and fewer than twice
   `REORG_WINDOW` lie at m + `REORG_WINDOW` or beyond (`Beyond`). While nothing is trimmed the
   whole window has at most twice `REORG_WINDOW` numbers, one of them not beyond; a trim moves
   m up and leaves no more beyond it than before.
5. `AskedCorrect`: a reconnect asks only for numbers delivered.
6. `NoStorm`, `ReplaceTakenInFrame`: `ReplaceWithinFrame` and `NoReconnectStorm`. The invariant counts what a
   source has *spent*: a window's worth of messages for each replacement made, taken up
   or asked for, plus the window under way. No step spends more than it counts.
7. `CountCorrect`, for any finite set of sources: `EveryEntryCounted`. The property adds numbers up over the sources with a
   fold of the community modules. That nothing adds up to nothing, and that where one value
   changes the sum changes with it (`TotalZero`, `TotalUpdate`), is proved by taking a smallest
   set for which it would fail. With these, the property itself (`Counted`) is inductive: an entry
   in hand is put down by exactly one of `DropCopy`, `Reject`, `LoseRace` and `Claim`, and outside
   of `ingest` there are none in hand (`AtRest`).

`FeedProofs`, for any sources, capacity and bounds. `Base` is the common invariant: that of
`Dedup` with the types of `Feed` and `Flow`, which says that the blocks in hand and under way
to a source are blocks its relay has, in the order they were emitted.

1. `FeedIsDedup`: every behaviour of a `Feed` is one of `Dedup`, and so `FeedDelivers`: a
   `Feed` implements `Delivery`. All that is proved of `Dedup` holds of a `Feed`.
2. `RoomCorrect`: `RoomIsAccounted` is inductive with the types.
3. `OldBlocksCorrect`: no block is delivered after one that took its place. `Order` says that
   what is still to come of a number is no older than what was delivered; it needs that a
   relay's chain holds what was delivered (`RelayHasHeld`, for one source) or that there is one
   block per number (`Straight`).
4. `OnceCorrect`: from 3, claims get ever newer blocks for a number, so no two messages on
   their way are the same block; they stay apart through channel and consumer (`AllApart`).

3 and 4 assume a single source, or a sequencer that never goes back (`MaxReorgs` = 0). With two
sources and a reorg 3 is false: that is what `feed_resurrect` shows.

`OrderProofs`, for any sources, capacity and bounds:

1. `NoGapCorrect`, without any hypothesis: a number the feed skips when it goes ahead was
   delivered before. The invariant (`GapInv`) has facts of what was delivered and of the sequencer
   (`HeldInv`, `Steps`, `Linked`: a chain has a block for every number up to its last), and `Unbroken`:
   below a number that was delivered, below a block under way to a source, and below the next
   block its relay gets, every number was delivered or is still to be ingested by that source
   before (`Covered`).
2. `LostCorrect`, if the sequencer never goes back: what is dropped as a copy was handed over or
   was claimed from a backlog (`DeliveredIsShown`). If it does go back it may be false: a block below the window is dropped as
   a copy (`late_copy`), whatever its hash.
3. `ForwardCorrect`, for a single source, any reorgs and any failures: any two messages on their
   way or received are in order unless the later has a lower number (`NewerUnlessLower`). It rests
   on `OrderInv` of `FeedProofs`.
4. `InOrderCorrect`, for a single source, on one connection (`MaxReconnects` = 0) or while the
   sequencer never goes back: the property that `feed_order` finds broken with two sources. A
   single source is never asked to replace its connection (`NeverSlow`), so one connection means
   that only newer blocks are under way. With failures and reorgs it is false, as said above.

`ConnectionProofs`, for all limits and intervals:

1. `SilenceIsNoticed`: `HeardInv` bounds `last_heard` by the age of the pending read and the
   larger of the silence limit and the time a frame was handled before it.
2. `SilenceIsReal`, if the server pings more often than the silence limit: with no frame waiting
   to be read, the last ping came before the last frame that was (`PingInv`), however long the
   task was busy.
3. `StallIsNoticed`, if pings come less often than the read times out (`PING` >
   `POLL_INTERVAL`) and no frame is handled for longer than the stall warning. `StallInv`: an
   unreported stall began during the pending read, or a ping has interrupted one read since and
   the next one comes too late to do so again. Without the first hypothesis it is false
   (`conn_public`).
4. `PausesCorrect`, if the first pause, which a user may set (consume.rs 655), is not longer than
   the longest. That powers of two are naturals that double (`PowersDouble`) is a hypothesis
   too, because no prover here computes with powers.

`SenderPoolProofs`, for any threads, calls and transactions:

1. `PoolTypeCorrect`, with where the caller and the threads can be (`Typed`).
2. `HandedOutCorrect`, from `HandedOut`: indices held or done lie below `next`, and no
   two threads hold the same one.
3. `ReturnedCorrect`, from `Counted`: `done` is the number of indices counted, so when it
   reaches the size all of them are.
4. `LoanCorrect`: who still held an index would leave its call incomplete. 1 to 4 hold
   even if the caller's work panics.
5. `FollowsCorrect`, from `Settled`: a call that is not current is complete, so nobody
   holds one of its indices. It assumes that the caller's own work does not panic.

`SecpProofs`, for any curve whose group has a prime order n below the prime p of the field and
above p / 2, any generator, and any digit size and number of digits that fit (secp256k1 with
bytes is one case). What is assumed of the curve is the group law (`GroupAssumption`) and
that numbers other than 0 have inverses modulo p and n; nothing is assumed of `FixedKey`.

1. `AddAdds`: where `Gej::add` does not ask for a doubling, its result stands for the sum
   (`Represents`: x/z^2 and y/z^3 are the point's coordinates, and z is not 0). The formulas are
   those of the line through the two points, scaled by z h (`AddFormulas`); `h` is 0 exactly if
   the two share an x, and then they are opposite or `i` is 0 as well (`ScaledEqual`).
2. `MulAddAdds`: `mul_add` adds k times the point, unless an addition needed a doubling. The
   invariant over the rows (`RowsAdded`) says that what was added and the carry make up the digits
   of k so far; the last row has a carry and no byte, and leaves no carry. No table entry is the
   identity, since n divides neither a digit nor a power of the base (`EntryIs`, the comment
   at secp.rs 235).
3. `FixedKeyCorrect`: `FixedKey::verify` accepts exactly if recovery finds the key with one
   recovery id or another, for every digest, r and s. Both paths of `Verify` decide on the x of
   u1 G + u2 Q (`VerifyIs`); that point is the one nonce from which recovery gets Q back
   (`RecoveredFrom`); and each point with such an x has an id that no other has, because no y is
   0 and p is odd (`IdOf`, `OneNonce`, `Parities`).

`VerifierProofs`, for any threads, clones, signers and entries, and those curves:

1. `TypeCorrect`, with `Learning`: a thread about to remember a key still finds it allowed,
   since its clone's signers do not change under it.
2. `KeysCorrect`, `OnlySignersHaveTables`: `OneKeyPerSigner` and `TablesForSigners`, whatever
   `FixedKey` answers. The write lock looks again before it appends.
3. `FixedKeyAlwaysAgrees`: `FixedKeyAgrees`, from `FixedKeyCorrect`: `FixedKey` tells each signer
   of an entry from the others (`Sound`).
4. `Refinement`: the `Verifier` implements `Acceptance`. `FastPath` (accepting) maps to
   `Recognise`, `Remember` to `Learn`, `Unsigned` and `Recover` (refusing) to `Refuse`, the others
   to `Ask`, `SetSigners` or a stutter. The invariant (`HistoryInv`) says that what was known when
   a thread asked is known still, and that a thread about to recover has found none of those
   keys to verify; with 3, none of them made the signature, which is what `Refuse` asks.
5. `Recognition`: known keys are not recovered again, by 3 as well.

`CodecProofs`, for any bytes of any length and all widths of the format:

1. `SlicesCorrect`: `SlicesInBounds`. `StackInv` relates every two slices on the stack and not
   only neighbours, since a slice that is left brings any of them to the top. The numbers read
   are folds; that a folded number is a natural is proved by taking a least counterexample
   (`Least`, from the library's well-founded `<`), which needs no induction rule.
2. `ScanCorrect`: `ScanDecides`. `CutInv` says of a scan under way that the content before `i`
   was cut into whole items, and that the content can be cut at all exactly if what follows `i`
   can: an item's first bytes say where it ends, so there is no other way to cut.
3. `DecodingShrinks`: `Left` falls with every step. A byte still to be walked over counts four,
   a slice still to be left one, and the transaction in hand its bytes still to be scanned and a
   little more. This is what `DecodeEnds` rests on; that the decoder also keeps stepping until it
   is done is fairness and ENABLED, and left to TLC.
4. `PackedCorrect`: `PackedIsFound`, for any nesting. `Follows` relates the walk to the parts of
   the entry: each slice on the stack is a part, the innermost at its start or any of them as a
   batch after one of its parts (`PartAt`), the transactions found are the first of those packed, and each of
   the others lies in what some slice has left (`Ahead`). A part too deep is dropped with no
   transaction in it, because what lies in a part is deeper still.
5. `SignedCorrect`: `SignedIsRecovered`, for any type, sizes and chain id. `SignInv` says that
   the transaction in hand is cut where its wallet put the items together (`ScanFollows`) and
   that those found were cut so. The header of a whole item leads to its payload (`PayloadAt`),
   and a number, a header, an item and a list can be written in one way only
   (`MinimalUnique`, `HeaderUnique`, `UintUnique`, `ListUnique`), so what is put together
   again is what was signed.

For 4 and 5 a recursive function is unfolded, `Minimal` (`MinimalIs`), and the fold of a longer
sequence is related to that of a shorter one (`NumberAppend`), both by least counterexamples.

### Only model-checked

- That the encoder of `MCCodec` produces what the format asks for: TLC evaluates
  `PackedAssumption` on its inputs. For all inputs it would be an induction over nested data; the
  theorems about the decoder need none, as they are given the evidence and not the encoder.
- Liveness: `CatchesUp`, `AllHandedOver`, `StopsWhenDropped`, `CallsReturn`, `DropEndsThreads`,
  `DecodeEnds`. It follows from fairness, which needs ENABLED, and no prover here has that.

## Not modelled

- The preimage of a feed signature (verify.rs 34-101): a concatenation of fields, for which the
  only reference would be Nitro's source. A wrong byte makes every message fail verification,
  which the recorded message in the tests shows.
- JSON, base64, hex and hashing, libraries behind pure functions; `is_filtered_call`, which
  builds one request.
- `recover_senders` runs the same recoveries as rayon tasks and borrows as safe Rust does.
- k256's field and group, given by their mathematics, and UltrafastSecp256k1 (secp.rs 66-141),
  foreign code behind a feature.
- The URL and TLS set-up of `connect`, the `Stamped` reads and `Timing`: I/O and instants
  for statistics. The WebSocket is a library.
- The warm-up frames of `busy_poll` and the pool's sample: they change no state that
  another step reads, apart from the time of the last warm-up.
- Command line, examples, benchmarks and the build script: users of the library.

## Plan

What could be added, in this order:

1. Steps towards liveness that need no fairness, as `DecodingShrinks`: for `SenderPool`, that a
   call has only so many steps.
2. `Filter` of main.rs, with the recoveries it asks the pool for.
3. The preimage: which fields are left out and which are empty, and that entries which differ in
   one field differ in what is signed.

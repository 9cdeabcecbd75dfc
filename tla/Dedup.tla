------------------------------- MODULE Dedup -------------------------------
(***************************************************************************)
(* The state every source of a Feed shares (struct State), and the life of *)
(* one source's task around it: dial, read a frame, ingest its entries one *)
(* by one, hand over what it was first to deliver (src/src/consume.rs).    *)
(*                                                                         *)
(* ingest() takes the lock twice for an entry, once to see whether it is   *)
(* new and once to claim it; verification and decoding run unlocked in     *)
(* between.  A step of this module is what happens under one lock, so the  *)
(* steps of different sources interleave as their critical sections do.    *)
(* Frames are arbitrary here.  Module Feed feeds this one from relays that *)
(* follow one sequencer.                                                   *)
(***************************************************************************)
EXTENDS Integers, Sequences, FiniteSets, TLC, SequencesExt

(* An operator named Wrong... is the definition after it with one plausible *)
(* mistake.  Nothing uses it: it is there to be put in the place of the     *)
(* right one, to see that a property notices.                               *)

CONSTANTS
  Source,          \* the sources of the feed
  SeqNum,          \* the sequence numbers entries may carry
  Hash,            \* the block hashes
  NoHash,          \* an entry without a block hash
  Verifying,       \* whether the feed was built with a Verifier
  REORG_WINDOW,    \* how far behind the watermark hashes are remembered
  SLOW_WINDOW,     \* live messages per window of a source
  SLOW_SHARE,      \* a source first on fewer than 1 in SLOW_SHARE is slow
  MaxEntries,      \* bound: entries received over a run
  MaxFrame,        \* bound: entries in one frame
  MaxReconnects,   \* bound: failures of one source
  Droppable        \* bound: whether the Feed may be dropped during a run

ASSUME SeqNumAssumption == SeqNum \subseteq Nat
ASSUME HashAssumption == NoHash \notin Hash
ASSUME FlagAssumption == Verifying \in BOOLEAN /\ Droppable \in BOOLEAN
ASSUME WindowAssumption == REORG_WINDOW \in Nat \ {0}
ASSUME SlowAssumption == SLOW_WINDOW \in Nat \ {0} /\ SLOW_SHARE \in Nat
ASSUME BoundAssumption == MaxEntries \in Nat /\ MaxFrame \in Nat /\ MaxReconnects \in Nat

VARIABLES
  \* struct State, under the lock
  highest_seq,     \* the watermark, -1 before the first message
  seen,            \* number -> hash remembered for it
  recent,          \* per source: first and late live messages of its window
  replace,         \* per source: it should open a new connection
  connected,       \* per source: SourceStats.connected
  stats,           \* the feed's counters
  sources,         \* per source: the other SourceStats counters
  \* the task of each source
  pc,              \* where it is
  asked,           \* the number it asked its server for, -1 for none
  live,            \* whether its connection is past the backlog
  todo,            \* the entries of its frame not ingested yet
  out,             \* its messages to hand over
  slow,            \* replace, as it took it after the frame
  \* history
  held,            \* number -> hash it was last delivered with
  latest,          \* the last message delivered
  received         \* entries received so far

state == <<highest_seq, seen, recent, replace, stats, sources>>
task == <<pc, asked, live, todo, out, slow>>
history == <<held, latest, received>>
vars == <<state, connected, task, history>>

Contract == INSTANCE Delivery WITH held <- held, latest <- latest

-----------------------------------------------------------------------------
(* Types.  A missing sequence number is read as -1; without a verifier *)
(* nobody looks at a signature. *)

Number == SeqNum \cup {-1}
Hashes == Hash \cup {NoHash}
Signature == IF Verifying THEN BOOLEAN ELSE {TRUE}
Entry == [seq : Number, hash : Hashes, good : Signature]
Message == [seq : SeqNum, hash : Hash \cup {NoHash}, reorg : BOOLEAN]
Frames == BoundedSeq(Entry, MaxFrame)
Window == [first : Nat, late : Nat]
Counter == {"backlog", "live", "duplicate", "unverified", "reorgs"}
SourceStats == [first : Nat, late : Nat, replaced : Nat, reconnects : Nat]
Place == {"idle", "dialing", "reading", "checking", "accepting", "sending", "stopped"}

Bit(p) == IF p THEN 1 ELSE 0
NewWindow == [first |-> 0, late |-> 0]

-----------------------------------------------------------------------------
(* State::classify *)

\* A hash missing on one side tells nothing.
Changed(old, new) == old # NoHash /\ new # NoHash /\ old # new

\* Wrong: the watermark itself counts as ahead.
WrongIsNewAtWatermark(n, h) == n >= highest_seq /\ (n \in DOMAIN seen => Changed(seen[n], h))

\* A number seen with another block, or never seen, is new if it lies ahead.
IsNew(n, h) == n > highest_seq /\ (n \in DOMAIN seen => Changed(seen[n], h))

\* Wrong: any number seen before is a reorg, whatever its hash.
WrongIsReorgAnyCopy(n, h) == n <= highest_seq /\ n \in DOMAIN seen

\* A number seen with another block is a reorg if it rewinds.
IsReorg(n, h) == n <= highest_seq /\ n \in DOMAIN seen /\ Changed(seen[n], h)

IsDuplicate(n, h) == ~IsNew(n, h) /\ ~IsReorg(n, h)

-----------------------------------------------------------------------------
(* State::check_slow and State::late_copy *)

\* Whether a finished window is a lost one.
Losing(w) == w.first * SLOW_SHARE < w.first + w.late

\* Wrong: a full window is not started again.
WrongCheckSlowNoReset(s, w) ==
  LET full == w.first + w.late >= SLOW_WINDOW
      others == Cardinality({o \in Source : connected[o]}) > 1
  IN  /\ recent' = [recent EXCEPT ![s] = w]
      /\ replace' = [replace EXCEPT ![s] = @ \/ (full /\ others /\ Losing(w))]

\* Source s counted a message, its window is now w: a full window starts
\* again, and a lost one asks for a new connection if s is not alone.
CheckSlow(s, w) ==
  LET full == w.first + w.late >= SLOW_WINDOW
      others == Cardinality({o \in Source : connected[o]}) > 1
  IN  /\ recent' = [recent EXCEPT ![s] = IF full THEN NewWindow ELSE w]
      /\ replace' = [replace EXCEPT ![s] = @ \/ (full /\ others /\ Losing(w))]

\* Wrong: a copy that says nothing about lag is not counted at all.
WrongLateCopyUncounted(s, n) ==
  IF live[s] /\ n \in DOMAIN seen
  THEN /\ stats' = [stats EXCEPT !.duplicate = @ + 1]
       /\ sources' = [sources EXCEPT ![s].late = @ + 1]
       /\ CheckSlow(s, [recent[s] EXCEPT !.late = @ + 1])
  ELSE UNCHANGED <<stats, sources, recent, replace>>

\* A copy of number n is dropped.  Only a live copy of a number still
\* remembered says anything about how far s is behind.
LateCopy(s, n) ==
  /\ stats' = [stats EXCEPT !.duplicate = @ + 1]
  /\ IF live[s] /\ n \in DOMAIN seen
     THEN /\ sources' = [sources EXCEPT ![s].late = @ + 1]
          /\ CheckSlow(s, [recent[s] EXCEPT !.late = @ + 1])
     ELSE UNCHANGED <<sources, recent, replace>>

\* HashMap::insert.
Put(f, n, h) == [k \in DOMAIN f \cup {n} |-> IF k = n THEN h ELSE f[k]]

(* State::remember: with too many numbers, forget those well behind the watermark *)

\* Wrong: the comparison with the cutoff is the other way round.
WrongKeptBehind(numbers, n) ==
  IF Cardinality(numbers) > 2 * REORG_WINDOW
  THEN {k \in numbers : k <= n - REORG_WINDOW}
  ELSE numbers

\* Wrong: forgetting starts one number later.
WrongKeptOneMore(numbers, n) ==
  IF Cardinality(numbers) > 2 * REORG_WINDOW + 1
  THEN {k \in numbers : k > n - REORG_WINDOW}
  ELSE numbers

\* The numbers kept once n, the new watermark, has been added to them.
Kept(numbers, n) ==
  IF Cardinality(numbers) > 2 * REORG_WINDOW
  THEN {k \in numbers : k > n - REORG_WINDOW}
  ELSE numbers

\* Wrong: a number remembered keeps its first hash.
WrongRememberFirst(n, h) ==
  LET all == IF n \in DOMAIN seen THEN seen ELSE Put(seen, n, h)
  IN  seen' = Restrict(all, Kept(DOMAIN all, n))

Remember(n, h) ==
  LET all == Put(seen, n, h)
  IN  seen' = Restrict(all, Kept(DOMAIN all, n))

-----------------------------------------------------------------------------
(* One source's connection: Source::run, set_connected and connect *)

\* Wrong: ask for the number after the watermark.
WrongDialNext(s) ==
  /\ pc[s] = "idle"
  /\ pc' = [pc EXCEPT ![s] = "dialing"]
  /\ asked' = [asked EXCEPT ![s] = highest_seq + 1]
  /\ UNCHANGED <<state, connected, live, todo, out, slow, history>>

\* connect() reads the watermark, then dials.
Dial(s) ==
  /\ pc[s] = "idle"
  /\ pc' = [pc EXCEPT ![s] = "dialing"]
  /\ asked' = [asked EXCEPT ![s] = highest_seq]
  /\ UNCHANGED <<state, connected, live, todo, out, slow, history>>

\* A new connection starts in the backlog.
Connect(s) ==
  /\ pc[s] = "dialing"
  /\ pc' = [pc EXCEPT ![s] = "reading"]
  /\ connected' = [connected EXCEPT ![s] = TRUE]
  /\ live' = [live EXCEPT ![s] = FALSE]
  /\ slow' = [slow EXCEPT ![s] = FALSE]
  /\ UNCHANGED <<state, asked, todo, out, history>>

\* Wrong: a source gives up after a failure.
WrongFailForGood(s) ==
  /\ pc[s] \in {"dialing", "reading"}
  /\ sources[s].reconnects < MaxReconnects
  /\ pc' = [pc EXCEPT ![s] = "stopped"]
  /\ connected' = [connected EXCEPT ![s] = FALSE]
  /\ sources' = [sources EXCEPT ![s].reconnects = @ + 1]
  /\ UNCHANGED <<highest_seq, seen, recent, replace, stats, asked, live, todo, out, slow, history>>

\* Dialing or reading failed: count it, sleep and dial again.
Fail(s) ==
  /\ pc[s] \in {"dialing", "reading"}
  /\ sources[s].reconnects < MaxReconnects
  /\ pc' = [pc EXCEPT ![s] = "idle"]
  /\ connected' = [connected EXCEPT ![s] = FALSE]
  /\ sources' = [sources EXCEPT ![s].reconnects = @ + 1]
  /\ UNCHANGED <<highest_seq, seen, recent, replace, stats, asked, live, todo, out, slow, history>>

-----------------------------------------------------------------------------
(* One frame: Source::read and Shared::ingest *)

\* A frame arrives; current says that it shows the backlog to be over, which
\* then holds for the connection.
Receive(s, frame, current) ==
  /\ pc[s] = "reading"
  /\ received + Len(frame) <= MaxEntries
  /\ pc' = [pc EXCEPT ![s] = "checking"]
  /\ todo' = [todo EXCEPT ![s] = frame]
  /\ live' = [live EXCEPT ![s] = @ \/ current]
  /\ received' = received + Len(frame)
  /\ UNCHANGED <<state, connected, asked, out, slow, held, latest>>

\* The next entry is a copy: drop it (first lock).
DropCopy(s) ==
  /\ pc[s] = "checking" /\ todo[s] # <<>>
  /\ LET e == Head(todo[s]) IN IsDuplicate(e.seq, e.hash) /\ LateCopy(s, e.seq)
  /\ todo' = [todo EXCEPT ![s] = Tail(@)]
  /\ UNCHANGED <<highest_seq, seen, connected, pc, asked, live, out, slow, history>>

\* The next entry is not a copy: verify and decode it unlocked.
Accept(s) ==
  /\ pc[s] = "checking" /\ todo[s] # <<>>
  /\ LET e == Head(todo[s]) IN ~IsDuplicate(e.seq, e.hash)
  /\ pc' = [pc EXCEPT ![s] = "accepting"]
  /\ UNCHANGED <<state, connected, asked, live, todo, out, slow, history>>

Accepted(e) == Verifying => e.good

\* Its signature is not good: count it and leave the watermark alone.
Reject(s) ==
  /\ pc[s] = "accepting"
  /\ ~Accepted(Head(todo[s]))
  /\ stats' = [stats EXCEPT !.unverified = @ + 1]
  /\ pc' = [pc EXCEPT ![s] = "checking"]
  /\ todo' = [todo EXCEPT ![s] = Tail(@)]
  /\ UNCHANGED <<highest_seq, seen, recent, replace, sources, connected, asked, live, out, slow, history>>

\* Another source delivered it in the meantime (second lock).
LoseRace(s) ==
  /\ pc[s] = "accepting"
  /\ LET e == Head(todo[s]) IN Accepted(e) /\ IsDuplicate(e.seq, e.hash) /\ LateCopy(s, e.seq)
  /\ pc' = [pc EXCEPT ![s] = "checking"]
  /\ todo' = [todo EXCEPT ![s] = Tail(@)]
  /\ UNCHANGED <<highest_seq, seen, connected, asked, live, out, slow, history>>

\* The counters of a claimed message: only live ones count for the window.
CountFirst(s, reorg) ==
  /\ sources' = [sources EXCEPT ![s].first = @ + 1]
  /\ LET counted == {IF live[s] THEN "live" ELSE "backlog"} \cup {c \in {"reorgs"} : reorg}
     IN  stats' = [c \in Counter |-> stats[c] + Bit(c \in counted)]
  /\ IF live[s]
     THEN CheckSlow(s, [recent[s] EXCEPT !.first = @ + 1])
     ELSE UNCHANGED <<recent, replace>>

\* Wrong: the watermark never moves back.
WrongMoveOnlyAhead(n) == highest_seq' = IF n > highest_seq THEN n ELSE highest_seq

\* Wrong: the watermark is the number expected next.
WrongMoveToNext(n) == highest_seq' = n + 1

\* The watermark is the number of the last message delivered, even if lower.
MoveTo(n) == highest_seq' = n

\* Claim the entry (second lock): the watermark moves to it, ahead or back,
\* and read() will hand it over unless it is backlog.
Claim(s) ==
  /\ pc[s] = "accepting"
  /\ LET e == Head(todo[s])
         reorg == IsReorg(e.seq, e.hash)
     IN  /\ Accepted(e)
         /\ ~IsDuplicate(e.seq, e.hash)
         /\ MoveTo(e.seq)
         /\ Remember(e.seq, e.hash)
         /\ CountFirst(s, reorg)
         /\ out' = IF live[s]
                   THEN [out EXCEPT ![s] =
                           Append(@, [seq |-> e.seq, hash |-> e.hash, reorg |-> reorg])]
                   ELSE out
         /\ held' = Put(held, e.seq, e.hash)
         /\ latest' = [seq |-> e.seq, hash |-> e.hash, reorg |-> reorg, good |-> e.good]
  /\ pc' = [pc EXCEPT ![s] = "checking"]
  /\ todo' = [todo EXCEPT ![s] = Tail(@)]
  /\ UNCHANGED <<connected, asked, live, slow, received>>

\* Wrong: the request is read but left standing.
WrongTakeReplaceKept(s) ==
  /\ pc[s] = "checking" /\ todo[s] = <<>>
  /\ slow' = [slow EXCEPT ![s] = replace[s]]
  /\ pc' = [pc EXCEPT ![s] = "sending"]
  /\ UNCHANGED <<state, connected, asked, live, todo, out, history>>

\* The frame is done: take the request for a new connection, if any.
TakeReplace(s) ==
  /\ pc[s] = "checking" /\ todo[s] = <<>>
  /\ slow' = [slow EXCEPT ![s] = replace[s]]
  /\ replace' = [replace EXCEPT ![s] = FALSE]
  /\ pc' = [pc EXCEPT ![s] = "sending"]
  /\ UNCHANGED <<highest_seq, seen, recent, stats, sources, connected, asked, live, todo, out, history>>

\* Hand over the next message of the frame.
Send(s) ==
  /\ pc[s] = "sending" /\ out[s] # <<>>
  /\ out' = [out EXCEPT ![s] = Tail(@)]
  /\ UNCHANGED <<state, connected, pc, asked, live, todo, slow, history>>

\* Everything is handed over: read on.
ReadOn(s) ==
  /\ pc[s] = "sending" /\ out[s] = <<>> /\ ~slow[s]
  /\ pc' = [pc EXCEPT ![s] = "reading"]
  /\ UNCHANGED <<state, connected, asked, live, todo, out, slow, history>>

\* Everything is handed over and the connection is slow: dial again at once.
ReplaceSlow(s) ==
  /\ pc[s] = "sending" /\ out[s] = <<>> /\ slow[s]
  /\ pc' = [pc EXCEPT ![s] = "idle"]
  /\ connected' = [connected EXCEPT ![s] = FALSE]
  /\ sources' = [sources EXCEPT ![s].replaced = @ + 1]
  /\ UNCHANGED <<highest_seq, seen, recent, replace, stats, asked, live, todo, out, slow, history>>

(***************************************************************************)
(* The Feed was dropped.  A task that finds the channel closed leaves      *)
(* through run(), one that waits is aborted where it waits, and neither    *)
(* hands over the rest of its frame.                                       *)
(***************************************************************************)
Stop(s, aborted) ==
  /\ Droppable
  /\ pc[s] \in {"idle", "dialing", "reading", "sending"}
  /\ ~aborted => pc[s] = "sending" /\ out[s] # <<>>
  /\ pc' = [pc EXCEPT ![s] = "stopped"]
  /\ out' = [out EXCEPT ![s] = <<>>]
  /\ connected' = [connected EXCEPT ![s] = @ /\ aborted]
  /\ UNCHANGED <<state, asked, live, todo, slow, history>>

-----------------------------------------------------------------------------
Init ==
  /\ highest_seq = -1
  /\ seen = [n \in {} |-> NoHash]
  /\ recent = [s \in Source |-> NewWindow]
  /\ replace = [s \in Source |-> FALSE]
  /\ connected = [s \in Source |-> FALSE]
  /\ stats = [c \in Counter |-> 0]
  /\ sources = [s \in Source |-> [first |-> 0, late |-> 0, replaced |-> 0, reconnects |-> 0]]
  /\ pc = [s \in Source |-> "idle"]
  /\ asked = [s \in Source |-> -1]
  /\ live = [s \in Source |-> FALSE]
  /\ todo = [s \in Source |-> <<>>]
  /\ out = [s \in Source |-> <<>>]
  /\ slow = [s \in Source |-> FALSE]
  /\ held = [n \in {} |-> NoHash]
  /\ latest = Contract!Nothing
  /\ received = 0

\* What a source does under the lock, or by itself, once it has a frame.
Ingest(s) ==
  \/ DropCopy(s) \/ Accept(s) \/ Reject(s) \/ LoseRace(s) \/ Claim(s) \/ TakeReplace(s)

Next ==
  \E s \in Source :
    \/ Dial(s) \/ Connect(s) \/ Fail(s)
    \/ \E frame \in Frames, current \in BOOLEAN : Receive(s, frame, current)
    \/ Ingest(s)
    \/ Send(s) \/ ReadOn(s) \/ ReplaceSlow(s)
    \/ \E aborted \in BOOLEAN : Stop(s, aborted)

Spec == Init /\ [][Next]_vars

-----------------------------------------------------------------------------
(* Properties *)

\* Every variable holds a value of its type.
TypeOK ==
  /\ highest_seq \in Number
  /\ DOMAIN seen \subseteq SeqNum /\ seen \in [DOMAIN seen -> Hashes]
  /\ recent \in [Source -> Window]
  /\ replace \in [Source -> BOOLEAN]
  /\ connected \in [Source -> BOOLEAN]
  /\ stats \in [Counter -> Nat]
  /\ sources \in [Source -> SourceStats]
  /\ pc \in [Source -> Place]
  /\ asked \in [Source -> Number]
  /\ live \in [Source -> BOOLEAN]
  /\ todo \in [Source -> Seq(Entry)]
  /\ out \in [Source -> Seq(Message)]
  /\ slow \in [Source -> BOOLEAN]
  /\ DOMAIN held \subseteq SeqNum /\ held \in [DOMAIN held -> Hashes]
  /\ latest \in [seq : Number, hash : Hashes, reorg : BOOLEAN, good : BOOLEAN]
  /\ received \in Nat

\* A source between the two locks still has the entry in hand.
EntryInHand == \A s \in Source : pc[s] = "accepting" => todo[s] # <<>>

(***************************************************************************)
(* However sources race between the two locks and however the window       *)
(* forgets, what is delivered is what Delivery promises: a number comes    *)
(* again only with another block, a reorg is marked exactly when the feed  *)
(* goes back, and only messages of an allowed signer move it.              *)
(***************************************************************************)
ImplementsDelivery == Contract!Spec

\* The watermark is the last message delivered, and the window still holds
\* it, so that a reorg at the watermark is recognised.
WatermarkRemembered ==
  /\ highest_seq = latest.seq
  /\ highest_seq = -1 => DOMAIN held = {}
  /\ highest_seq # -1 => highest_seq \in DOMAIN seen

\* What the window remembers of a number is what was last delivered for it.
WindowIsHistory ==
  \A n \in DOMAIN seen : n \in DOMAIN held /\ seen[n] = held[n]

\* A number that was delivered and forgotten lies behind every number still
\* remembered: no rewind can make it look new again.
ForgottenIsBehind ==
  \A n \in DOMAIN held \ DOMAIN seen : \A k \in DOMAIN seen : n < k

(***************************************************************************)
(* The window is bounded whatever arrives.  Not by 2 * REORG_WINDOW, as    *)
(* remember() may seem to say: numbers above the watermark are never       *)
(* forgotten, and after a gap and a rewind there are more of them.         *)
(***************************************************************************)
WindowBounded == Cardinality(DOMAIN seen) <= 3 * REORG_WINDOW - 1

\* A server is only ever asked for a number that was delivered, never for one
\* past the end or one that an unverified message made up.
AskedWasDelivered ==
  \A s \in Source : asked[s] # -1 => asked[s] \in DOMAIN held

\* No entry is lost or counted twice by the early exits of ingest(), and a
\* delivered message has exactly one source that was first.
EveryEntryCounted ==
  LET total(f) == FoldFunction(LAMBDA a, b : a + b, 0, f)
  IN  /\ received = stats.live + stats.backlog + stats.duplicate + stats.unverified
                      + total([s \in Source |-> Len(todo[s])])
      /\ stats.live + stats.backlog = total([s \in Source |-> sources[s].first])

\* A request for a new connection is taken by the frame that caused it and
\* never hits the connection after.
ReplaceWithinFrame ==
  \A s \in Source : replace[s] => pc[s] \in {"checking", "accepting"}

\* What source s has spent on new connections and counts in its window: the
\* replacements made, asked for and taken up, and the window under way.
Spent(s) ==
  LET pending == Bit(replace[s]) + Bit(pc[s] = "sending" /\ slow[s])
  IN  SLOW_WINDOW * (sources[s].replaced + pending) + recent[s].first + recent[s].late

\* Slow connections are replaced at most once per SLOW_WINDOW live messages,
\* however the windows fall across frames and connections.
NoReconnectStorm == \A s \in Source : Spent(s) <= sources[s].first + sources[s].late
=============================================================================

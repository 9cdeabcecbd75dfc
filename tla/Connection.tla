----------------------------- MODULE Connection -----------------------------
(***************************************************************************)
(* The timers of one source: the poll timeout, the silence limit and the   *)
(* stall warning around a connection (Source::read), and the pause before  *)
(* the next attempt (Source::run, src/src/consume.rs).                     *)
(*                                                                         *)
(* Time passes in ticks.  Something that is due happens before the next    *)
(* tick: tokio polls a task whose timer ran out or whose socket has data.  *)
(* The server pings at a fixed interval, sends data when it likes, and may *)
(* fall silent without closing the connection, or never answer a dial:     *)
(* connect() runs no timer of its own.                                     *)
(***************************************************************************)
EXTENDS Integers, Sequences, FiniteSetsExt

(* An operator named Wrong... is the definition after it with one plausible *)
(* mistake, there to be put in its place; nothing uses it.                  *)

CONSTANTS
  POLL_INTERVAL,         \* timeout of a read, WARM_INTERVAL with busy_poll
  SILENCE_LIMIT,         \* reconnect after this long without any frame
  STALL_WARNING,         \* warn after this long without data
  reconnect_delay,       \* first pause after a failure
  MAX_RECONNECT_DELAY,   \* longest pause
  PING,                  \* the server's ping interval
  MaxHandling,           \* bound: how long a frame is handled, waiting for the consumer included
  MaxFailures            \* bound: failures in a row

ASSUME PollAssumption == POLL_INTERVAL \in Nat \ {0}
ASSUME LimitAssumption == SILENCE_LIMIT \in Nat \ {0} /\ STALL_WARNING \in Nat \ {0}
ASSUME DelayAssumption == reconnect_delay \in Nat \ {0} /\ MAX_RECONNECT_DELAY \in Nat \ {0}
ASSUME PingAssumption == PING \in Nat \ {0}
ASSUME BoundAssumption == MaxHandling \in Nat /\ MaxFailures \in Nat \ {0}

VARIABLES
  pc,              \* where the task is
  \* Source::read; ages count up to a limit past which nothing changes
  waited,          \* age of the pending read
  last_heard,      \* age of the last frame of any kind
  last_frame,      \* age of the last data frame
  stall_warned,    \* whether this stall was reported
  handled,         \* how long the frame in hand is being handled
  \* Source::run
  dialed,          \* for how long connect() has waited, which the code does not measure (history)
  delay,           \* the next pause
  failures,        \* failures in a row
  slept,           \* how long the task has paused
  pause,           \* for how long it pauses
  limited,         \* whether one of those failures mentioned 429 (history)
  \* the server
  alive,           \* whether it still reaches this connection
  unpinged,        \* time since its last ping
  wire             \* frames that arrived and were not read yet

reading == <<waited, last_heard, last_frame, stall_warned, handled>>
retrying == <<dialed, delay, failures, slept, pause, limited>>
server == <<alive, unpinged, wire>>
vars == <<pc, reading, retrying, server>>

-----------------------------------------------------------------------------
Online == pc \in {"waiting", "handling"}

\* Ages matter up to here.
HeardCap == Max({SILENCE_LIMIT, MaxHandling}) + POLL_INTERVAL + 1
FrameCap == STALL_WARNING + PING + POLL_INTERVAL + 1
Older(age, cap) == Min({age + 1, cap})

\* One ping after another says no more than the first.
Arrived(kind) == IF wire # <<>> /\ kind = "ping" /\ wire[Len(wire)] = "ping" THEN wire ELSE Append(wire, kind)

-----------------------------------------------------------------------------
(* The server *)

\* The server pings, when it is time.
Ping ==
  /\ Online /\ alive /\ unpinged >= PING
  /\ unpinged' = 0
  /\ wire' = Arrived("ping")
  /\ UNCHANGED <<pc, reading, retrying, alive>>

\* It sends data, or closes the connection.
Send(kind) ==
  /\ Online /\ alive /\ Len(wire) < 2
  /\ wire' = Arrived(kind)
  /\ alive' = (kind # "close")
  /\ UNCHANGED <<pc, reading, retrying, unpinged>>

\* It is gone, and nothing says so.
FallSilent ==
  /\ Online /\ alive
  /\ alive' = FALSE
  /\ UNCHANGED <<pc, reading, retrying, unpinged, wire>>

-----------------------------------------------------------------------------
(* Source::run *)

\* The timers of read() as it begins, and while it does not run.
StartTimers == waited' = 0 /\ last_heard' = 0 /\ last_frame' = 0 /\ stall_warned' = FALSE /\ handled' = 0

\* The connection is closed on this side.
Hangup == alive' = FALSE /\ unpinged' = 0 /\ wire' = <<>>

\* Wrong: the pause stays as long as it was.
WrongConnectKeepsDelay ==
  /\ pc = "dialing"
  /\ pc' = "waiting"
  /\ failures' = 0 /\ limited' = FALSE /\ delay' = delay
  /\ dialed' = 0 /\ slept' = 0 /\ pause' = 0
  /\ StartTimers
  /\ alive' = TRUE /\ unpinged' = 0 /\ wire' = <<>>

\* The connection is up: pauses are short again, and the timers start.
Connect ==
  /\ pc = "dialing"
  /\ pc' = "waiting"
  /\ failures' = 0 /\ limited' = FALSE /\ delay' = reconnect_delay
  /\ dialed' = 0 /\ slept' = 0 /\ pause' = 0
  /\ StartTimers
  /\ alive' = TRUE /\ unpinged' = 0 /\ wire' = <<>>

\* An attempt or a connection failed: pause, twice as long each time.  After
\* an error that mentions 429 the pauses are as long as they get.
Fail(refused) ==
  /\ failures < MaxFailures
  /\ failures' = failures + 1
  /\ limited' = (limited \/ refused)
  /\ pause' = IF refused THEN MAX_RECONNECT_DELAY ELSE delay
  /\ delay' = IF refused THEN MAX_RECONNECT_DELAY ELSE Min({2 * delay, MAX_RECONNECT_DELAY})
  /\ dialed' = 0 /\ slept' = 0
  /\ pc' = "sleeping"
  /\ StartTimers
  /\ Hangup

DialFails(refused) ==
  /\ pc = "dialing"
  /\ Fail(refused)

Wake ==
  /\ pc = "sleeping" /\ slept >= pause
  /\ pc' = "dialing"
  /\ slept' = 0
  /\ UNCHANGED <<reading, dialed, delay, failures, pause, limited, server>>

-----------------------------------------------------------------------------
(* Source::read *)

Frame(kind) == pc = "waiting" /\ wire # <<>> /\ Head(wire) = kind

\* Wrong: only data counts as being heard.
WrongReadPingUnheard ==
  /\ Frame("ping")
  /\ wire' = Tail(wire)
  /\ waited' = 0
  /\ UNCHANGED <<pc, last_heard, last_frame, stall_warned, handled, retrying, alive, unpinged>>

\* A ping: the connection works.
ReadPing ==
  /\ Frame("ping")
  /\ wire' = Tail(wire)
  /\ last_heard' = 0 /\ waited' = 0
  /\ UNCHANGED <<pc, last_frame, stall_warned, handled, retrying, alive, unpinged>>

\* Data: any stall is over.
ReadData ==
  /\ Frame("data")
  /\ wire' = Tail(wire)
  /\ StartTimers
  /\ pc' = "handling"
  /\ UNCHANGED <<retrying, alive, unpinged>>

\* The end of the connection, or data that cannot be read.  The text of that
\* error quotes the data, and may mention 429 by chance.
ReadEnd(refused) ==
  /\ Frame("data") \/ (~refused /\ Frame("close"))
  /\ Fail(refused)

\* The messages are handed over: read on.
Handled ==
  /\ pc = "handling"
  /\ pc' = "waiting"
  /\ waited' = 0 /\ handled' = 0
  /\ UNCHANGED <<last_heard, last_frame, stall_warned, retrying, server>>

\* They are, and the connection is slow: try another at once.
HandledSlow ==
  /\ pc = "handling"
  /\ pc' = "dialing"
  /\ StartTimers
  /\ Hangup
  /\ UNCHANGED retrying

\* Wrong: a read only times out once the connection is to be given up.
WrongExpiredAtSilence == waited >= SILENCE_LIMIT

\* The timeout of the read.
Expired == waited >= POLL_INTERVAL

TimedOut == pc = "waiting" /\ wire = <<>> /\ Expired

\* Nothing arrived for too long, not even a ping.
ExpireSilent ==
  /\ TimedOut /\ last_heard >= SILENCE_LIMIT
  /\ Fail(FALSE)

\* Nothing arrived for a while: report a stall once, and read on.
ExpireStalled ==
  /\ TimedOut /\ last_heard < SILENCE_LIMIT
  /\ stall_warned' = (stall_warned \/ last_frame >= STALL_WARNING)
  /\ waited' = 0
  /\ UNCHANGED <<pc, last_heard, last_frame, handled, retrying, server>>

-----------------------------------------------------------------------------
\* What is due and has to happen before time passes.
Due ==
  \/ Online /\ alive /\ unpinged >= PING
  \/ pc = "waiting" /\ (wire # <<>> \/ Expired)
  \/ pc = "handling" /\ handled >= MaxHandling
  \/ pc = "sleeping" /\ slept >= pause

\* Time passes on a connection, in a pause, or while a server keeps connect()
\* waiting, which may go on for ever.
Tick ==
  /\ ~Due
  /\ IF Online
     THEN /\ last_heard' = Older(last_heard, HeardCap)
          /\ last_frame' = Older(last_frame, FrameCap)
          /\ waited' = IF pc = "waiting" THEN waited + 1 ELSE waited
          /\ handled' = IF pc = "handling" THEN handled + 1 ELSE handled
          /\ unpinged' = IF alive THEN unpinged + 1 ELSE unpinged
          /\ UNCHANGED <<stall_warned, dialed, slept>>
     ELSE /\ dialed' = IF pc = "dialing" THEN Older(dialed, HeardCap) ELSE dialed
          /\ slept' = IF pc = "sleeping" THEN slept + 1 ELSE slept
          /\ UNCHANGED <<reading, unpinged>>
  /\ UNCHANGED <<pc, delay, failures, pause, limited, alive, wire>>

Init ==
  /\ pc = "dialing"
  /\ waited = 0 /\ last_heard = 0 /\ last_frame = 0 /\ stall_warned = FALSE /\ handled = 0
  /\ dialed = 0 /\ delay = reconnect_delay /\ failures = 0 /\ slept = 0 /\ pause = 0 /\ limited = FALSE
  /\ alive = FALSE /\ unpinged = 0 /\ wire = <<>>

Next ==
  \/ Ping \/ (\E kind \in {"data", "close"} : Send(kind)) \/ FallSilent
  \/ Connect \/ (\E refused \in BOOLEAN : DialFails(refused)) \/ Wake
  \/ ReadPing \/ ReadData \/ (\E refused \in BOOLEAN : ReadEnd(refused)) \/ Handled \/ HandledSlow
  \/ ExpireSilent \/ ExpireStalled
  \/ Tick

Spec == Init /\ [][Next]_vars

-----------------------------------------------------------------------------
(* Properties *)

(***************************************************************************)
(* An open connection that is dead is noticed within a poll of the silence *)
(* limit, also when the task was busy with a frame before.                 *)
(***************************************************************************)
NoticedInTime ==
  pc = "waiting" => last_heard <= Max({SILENCE_LIMIT, MaxHandling}) + POLL_INTERVAL

\* Silence only ends a connection whose server is gone, not one that pings
\* without sending data, nor one that pinged while the task was busy.
AliveIsKept == [][TimedOut /\ pc' = "sleeping" => ~alive]_vars

\* A connection without data is reported soon after STALL_WARNING.
StallNoticed ==
  pc = "waiting" /\ last_frame >= STALL_WARNING + PING + POLL_INTERVAL => stall_warned

(***************************************************************************)
(* The pauses of a row of failures double up to the longest, and an error  *)
(* that mentions 429 keeps the rest of the row at the longest.  A new row  *)
(* starts short.                                                           *)
(***************************************************************************)
PauseDoubles ==
  pc = "sleeping" =>
    pause = IF limited THEN MAX_RECONNECT_DELAY
            ELSE Min({reconnect_delay * 2 ^ (failures - 1), MAX_RECONNECT_DELAY})
=============================================================================

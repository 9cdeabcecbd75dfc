--------------------------- MODULE ConnectionProofs ---------------------------
(***************************************************************************)
(* The timers of a connection, for every poll interval, silence limit,     *)
(* stall warning, pause and ping interval.  Each promise rests on an       *)
(* inductive invariant of its own about ages: how long ago something was   *)
(* heard, or reported, by the timers that are reset in between.            *)
(***************************************************************************)
EXTENDS Connection, SequenceTheorems, TLAPS

Kind == {"ping", "data", "close"}

Typed ==
  /\ pc \in {"dialing", "waiting", "handling", "sleeping"}
  /\ waited \in Nat /\ last_heard \in Nat /\ last_frame \in Nat /\ handled \in Nat
  /\ stall_warned \in BOOLEAN /\ limited \in BOOLEAN /\ alive \in BOOLEAN
  /\ unpinged \in Nat /\ wire \in Seq(Kind)
  /\ dialed \in Nat /\ delay \in Nat /\ failures \in Nat /\ slept \in Nat /\ pause \in Nat

-----------------------------------------------------------------------------
(* Lemmas about the operators *)

LEMMA MaxOfTwo ==
  ASSUME NEW a \in Int, NEW b \in Int
  PROVE  Max({a, b}) = IF a >= b THEN a ELSE b
<1>1. \E x \in {a, b} : \A y \in {a, b} : x >= y
  OBVIOUS
<1>2. Max({a, b}) \in {a, b} /\ \A y \in {a, b} : Max({a, b}) >= y
  BY <1>1 DEF Max
<1>. QED
  BY <1>2

LEMMA MinOfTwo ==
  ASSUME NEW a \in Int, NEW b \in Int
  PROVE  Min({a, b}) = IF a <= b THEN a ELSE b
<1>1. \E x \in {a, b} : \A y \in {a, b} : x <= y
  OBVIOUS
<1>2. Min({a, b}) \in {a, b} /\ \A y \in {a, b} : Min({a, b}) <= y
  BY <1>1 DEF Min
<1>. QED
  BY <1>2

\* The limits are large enough for every age that is compared with them.
LEMMA Caps ==
  /\ HeardCap \in Nat /\ FrameCap \in Nat
  /\ Max({SILENCE_LIMIT, MaxHandling}) \in Nat
  /\ SILENCE_LIMIT <= Max({SILENCE_LIMIT, MaxHandling})
  /\ MaxHandling <= Max({SILENCE_LIMIT, MaxHandling})
<1>1. Max({SILENCE_LIMIT, MaxHandling}) = IF SILENCE_LIMIT >= MaxHandling THEN SILENCE_LIMIT ELSE MaxHandling
  BY MaxOfTwo, LimitAssumption, BoundAssumption
<1>. QED
  BY <1>1, LimitAssumption, BoundAssumption, PollAssumption, PingAssumption DEF HeardCap, FrameCap

LEMMA OlderAge ==
  ASSUME NEW age \in Nat, NEW cap \in Nat
  PROVE  Older(age, cap) \in Nat /\ Older(age, cap) <= age + 1
<1>1. Older(age, cap) = IF age + 1 <= cap THEN age + 1 ELSE cap
  BY MinOfTwo DEF Older
<1>. QED
  BY <1>1

\* A frame that arrives is behind the others.
LEMMA ArrivedWire ==
  ASSUME Typed, NEW kind \in Kind
  PROVE  /\ Arrived(kind) \in Seq(Kind) /\ Arrived(kind) # <<>>
         /\ wire # <<>> => Head(Arrived(kind)) = Head(wire)
         /\ wire = <<>> => Head(Arrived(kind)) = kind
<1>. wire \in Seq(Kind)
  BY DEF Typed
<1>1. Append(wire, kind) \in Seq(Kind) /\ Append(wire, kind) # <<>>
  BY AppendProperties
<1>2. ASSUME wire # <<>> PROVE Head(Append(wire, kind)) = Head(wire)
  <2>1. 1 \in 1 .. Len(wire) /\ Head(wire) = wire[1]
    BY <1>2, HeadTailProperties, LenProperties, EmptySeq
  <2>2. Append(wire, kind)[1] = wire[1]
    BY <2>1, AppendProperties
  <2>3. Head(Append(wire, kind)) = Append(wire, kind)[1]
    BY <1>1, HeadTailProperties
  <2>. QED
    BY <2>1, <2>2, <2>3
<1>3. wire = <<>> => Head(Append(wire, kind)) = kind
  OBVIOUS
<1>. QED
  BY <1>1, <1>2, <1>3 DEF Arrived

-----------------------------------------------------------------------------
(* Types *)

LEMMA NoFrames == <<>> \in Seq(Kind)
BY EmptySeq

LEMMA TypeInit == Init => Typed
<1>. SUFFICES ASSUME Init PROVE Typed
  OBVIOUS
<1>1. wire \in Seq(Kind)
  BY NoFrames DEF Init
<1>. QED
  BY <1>1, DelayAssumption DEF Init, Typed

\* A failure starts a pause and hangs up.
LEMMA FailType ==
  ASSUME Typed, NEW refused \in BOOLEAN, Fail(refused)
  PROVE  Typed'
<1>1. delay' \in Nat
  <2>1. Min({2 * delay, MAX_RECONNECT_DELAY}) \in Nat
    BY MinOfTwo, DelayAssumption DEF Typed
  <2>. QED
    BY <2>1, DelayAssumption DEF Fail
<1>2. wire' \in Seq(Kind)
  BY NoFrames DEF Fail, Hangup
<1>. QED
  <2>1. limited' \in BOOLEAN
    BY Zenon DEF Fail, Typed
  <2>2. /\ waited' = 0 /\ last_heard' = 0 /\ last_frame' = 0 /\ handled' = 0 /\ unpinged' = 0
        /\ dialed' = 0 /\ slept' = 0 /\ stall_warned' = FALSE /\ alive' = FALSE /\ pc' = "sleeping"
    BY DEF Fail, StartTimers, Hangup
  <2>3. failures' \in Nat /\ pause' \in Nat
    BY DelayAssumption DEF Fail, Typed
  <2>. QED
    BY <1>1, <1>2, <2>1, <2>2, <2>3 DEF Typed

LEMMA TypeStep == Typed /\ [Next]_vars => Typed'
<1>. SUFFICES ASSUME Typed, [Next]_vars PROVE Typed'
  OBVIOUS
<1>. USE DEF reading, retrying, server
<1>1. CASE Ping
  BY <1>1, ArrivedWire DEF Ping, Typed, Kind
<1>2. ASSUME NEW kind \in {"data", "close"}, Send(kind) PROVE Typed'
  BY <1>2, ArrivedWire DEF Send, Typed, Kind
<1>3. CASE FallSilent
  BY <1>3 DEF FallSilent, Typed
<1>4. CASE Connect
  <2>1. wire' \in Seq(Kind)
    BY <1>4, NoFrames DEF Connect
  <2>. QED
    BY <1>4, <2>1, DelayAssumption DEF Connect, StartTimers, Typed
<1>5. ASSUME NEW refused \in BOOLEAN, DialFails(refused) \/ ReadEnd(refused) PROVE Typed'
  BY <1>5, FailType DEF DialFails, ReadEnd
<1>6. CASE Wake
  BY <1>6 DEF Wake, Typed
<1>7. CASE ReadPing
  BY <1>7, HeadTailProperties DEF ReadPing, Frame, Typed
<1>8. CASE ReadData
  BY <1>8, HeadTailProperties DEF ReadData, Frame, StartTimers, Typed
<1>9. CASE Handled
  BY <1>9 DEF Handled, Typed
<1>14. CASE HandledSlow
  <2>1. wire' \in Seq(Kind)
    BY <1>14, NoFrames DEF HandledSlow, Hangup
  <2>2. /\ waited' = 0 /\ last_heard' = 0 /\ last_frame' = 0 /\ handled' = 0 /\ unpinged' = 0
        /\ stall_warned' = FALSE /\ alive' = FALSE /\ pc' = "dialing"
    BY <1>14 DEF HandledSlow, StartTimers, Hangup
  <2>. QED
    BY <1>14, <2>1, <2>2 DEF HandledSlow, Typed
<1>10. CASE ExpireSilent
  BY <1>10, FailType DEF ExpireSilent
<1>11. CASE ExpireStalled
  BY <1>11 DEF ExpireStalled, Typed
<1>12. CASE Tick
  <2>1. /\ Older(last_heard, HeardCap) \in Nat /\ Older(last_frame, FrameCap) \in Nat
        /\ Older(dialed, HeardCap) \in Nat
    BY Caps, OlderAge DEF Typed
  <2>. QED
    BY <1>12, <2>1, SMTT(20) DEF Tick, Typed
<1>13. CASE UNCHANGED vars
  BY <1>13 DEF vars, Typed
<1>. QED
  BY <1>1, <1>2, <1>3, <1>4, <1>5, <1>6, <1>7, <1>8, <1>9, <1>10, <1>11, <1>12, <1>13, <1>14 DEF Next

-----------------------------------------------------------------------------
(* Silence *)

\* What the steps that do not read, and a tick, do to a connection in use.
LEMMA Ticked ==
  ASSUME Typed, Tick, pc' \in {"waiting", "handling"}
  PROVE  /\ pc = pc' /\ UNCHANGED <<alive, wire, stall_warned>>
         /\ last_heard' <= last_heard + 1 /\ last_frame' <= last_frame + 1
         /\ unpinged' = IF alive THEN unpinged + 1 ELSE unpinged
         /\ alive => unpinged < PING
         /\ pc = "waiting" => /\ wire = <<>> /\ waited < POLL_INTERVAL
                              /\ waited' = waited + 1 /\ handled' = handled
         /\ pc = "handling" => /\ handled < MaxHandling
                               /\ handled' = handled + 1 /\ waited' = waited
<1>1. Older(last_heard, HeardCap) <= last_heard + 1 /\ Older(last_frame, FrameCap) <= last_frame + 1
  BY Caps, OlderAge DEF Typed
<1>2. POLL_INTERVAL \in Nat /\ PING \in Nat /\ MaxHandling \in Nat
  BY PollAssumption, PingAssumption, BoundAssumption
<1>. QED
  BY <1>1, <1>2 DEF Tick, Due, Online, Expired, Typed

\* While a frame is handled nothing is heard; a read that waits was heard no
\* longer ago than that, or than the silence limit, before it began.
HeardInv ==
  /\ pc = "handling" => last_heard <= handled /\ last_frame <= handled /\ handled <= MaxHandling
  /\ pc = "waiting" => /\ waited <= POLL_INTERVAL
                       /\ last_heard <= Max({SILENCE_LIMIT, MaxHandling}) + waited

LEMMA HeardStep ==
  ASSUME Typed, HeardInv, [Next]_vars
  PROVE  HeardInv'
<1>. USE DEF reading, retrying, server
<1>. DEFINE M == Max({SILENCE_LIMIT, MaxHandling})
<1>0. /\ M \in Nat /\ SILENCE_LIMIT <= M /\ MaxHandling <= M /\ SILENCE_LIMIT \in Nat /\ MaxHandling \in Nat
      /\ POLL_INTERVAL \in Nat
  BY Caps, LimitAssumption, BoundAssumption, PollAssumption
<1>1. CASE UNCHANGED <<pc, reading>>
  BY <1>1 DEF HeardInv
<1>2. CASE pc' \notin {"waiting", "handling"}
  BY <1>2 DEF HeardInv
<1>3. CASE Tick
  <2>1. CASE pc' = "waiting"
    <3>1. /\ pc = "waiting" /\ waited < POLL_INTERVAL /\ waited' = waited + 1
          /\ last_heard' <= last_heard + 1
      BY <1>3, <2>1, Ticked
    <3>2. last_heard <= M + waited /\ last_heard \in Nat /\ waited \in Nat /\ last_heard' \in Nat
      BY <3>1, TypeStep DEF HeardInv, Typed
    <3>3. last_heard' <= M + waited' /\ waited' <= POLL_INTERVAL
      BY <1>0, <3>1, <3>2
    <3>. QED
      BY <2>1, <3>3 DEF HeardInv
  <2>2. CASE pc' = "handling"
    <3>1. /\ pc = "handling" /\ handled < MaxHandling /\ handled' = handled + 1
          /\ last_heard' <= last_heard + 1 /\ last_frame' <= last_frame + 1
      BY <1>3, <2>2, Ticked
    <3>2. /\ last_heard \in Nat /\ last_frame \in Nat /\ handled \in Nat
          /\ last_heard' \in Nat /\ last_frame' \in Nat
      BY TypeStep DEF Typed
    <3>. QED
      BY <1>0, <2>2, <3>1, <3>2 DEF HeardInv
  <2>. QED
    BY <1>2, <2>1, <2>2
<1>4. CASE ReadPing \/ ReadData \/ Connect
  BY <1>0, <1>4 DEF ReadPing, ReadData, Connect, Frame, StartTimers, HeardInv
<1>5. CASE Handled
  BY <1>0, <1>5 DEF Handled, HeardInv, Typed
<1>6. CASE ExpireStalled
  BY <1>0, <1>6 DEF ExpireStalled, TimedOut, HeardInv, Typed
<1>. HIDE DEF M
<1>7. CASE Ping \/ FallSilent \/ UNCHANGED vars \/ \E kind \in {"data", "close"} : Send(kind)
  BY <1>1, <1>7 DEF Ping, FallSilent, Send, vars
<1>8. CASE \/ Wake \/ HandledSlow \/ ExpireSilent
           \/ \E refused \in BOOLEAN : DialFails(refused) \/ ReadEnd(refused)
  BY <1>2, <1>8 DEF Wake, HandledSlow, ExpireSilent, DialFails, ReadEnd, Fail
<1>. QED
  BY <1>3, <1>4, <1>5, <1>6, <1>7, <1>8 DEF Next

(***************************************************************************)
(* A connection that fell silent is noticed within a poll of the silence   *)
(* limit, or of the longest time a frame was handled, for all limits.      *)
(***************************************************************************)
THEOREM SilenceIsNoticed == Spec => []NoticedInTime
<1>1. Init => HeardInv
  BY DEF Init, HeardInv
<1>2. Typed /\ HeardInv => NoticedInTime
  BY Caps, PollAssumption DEF HeardInv, NoticedInTime, Typed
<1>. QED
  BY <1>1, <1>2, TypeInit, TypeStep, HeardStep, PTL DEF Spec

\* A server that is there pings in time, and with no frame to be read its last
\* ping came before the last frame that was.
PingInv ==
  Online /\ alive => unpinged <= PING /\ (wire = <<>> => last_heard <= unpinged)

LEMMA PingStep ==
  ASSUME Typed, PingInv, [Next]_vars
  PROVE  PingInv'
<1>. USE DEF reading, retrying, server
<1>0. PING \in Nat
  BY PingAssumption
<1>1. SUFFICES ASSUME Online', alive'
               PROVE  unpinged' <= PING /\ (wire' = <<>> => last_heard' <= unpinged')
  BY DEF PingInv
<1>2. CASE Ping
  BY <1>0, <1>2, ArrivedWire DEF Ping, Kind
<1>3. ASSUME NEW kind \in {"data", "close"}, Send(kind)
      PROVE  unpinged' <= PING /\ (wire' = <<>> => last_heard' <= unpinged')
  BY <1>3, ArrivedWire DEF Send, Kind, PingInv
<1>4. CASE Connect
  BY <1>0, <1>4 DEF Connect, StartTimers
<1>5. CASE ReadPing \/ ReadData
  <2>1. pc = "waiting" /\ last_heard' = 0 /\ UNCHANGED <<alive, unpinged>>
    BY <1>5 DEF ReadPing, ReadData, Frame, StartTimers
  <2>2. unpinged <= PING /\ unpinged \in Nat
    BY <1>1, <2>1 DEF Online, PingInv, Typed
  <2>. QED
    BY <2>1, <2>2
<1>6. CASE Handled \/ ExpireStalled
  BY <1>1, <1>6 DEF Handled, ExpireStalled, TimedOut, Online, PingInv
<1>7. CASE Tick
  <2>1. pc' = pc /\ pc \in {"waiting", "handling"}
    BY <1>1, <1>7 DEF Tick, Online
  <2>2. /\ UNCHANGED <<alive, wire>> /\ last_heard' <= last_heard + 1
        /\ unpinged' = unpinged + 1 /\ unpinged < PING
    BY <1>1, <1>7, <2>1, Ticked
  <2>3. wire = <<>> => last_heard <= unpinged
    BY <1>1, <2>1, <2>2 DEF PingInv, Online
  <2>4. last_heard \in Nat /\ last_heard' \in Nat /\ unpinged \in Nat
    BY TypeStep DEF Typed
  <2>. QED
    BY <1>0, <2>2, <2>3, <2>4
<1>8. CASE \/ FallSilent \/ Wake \/ HandledSlow \/ ExpireSilent
           \/ \E refused \in BOOLEAN : DialFails(refused) \/ ReadEnd(refused)
  BY <1>1, <1>8 DEF FallSilent, Wake, HandledSlow, ExpireSilent, DialFails, ReadEnd, Fail, Hangup, Online
<1>9. CASE UNCHANGED vars
  BY <1>1, <1>9 DEF vars, Online, PingInv
<1>. QED
  BY <1>2, <1>3, <1>4, <1>5, <1>6, <1>7, <1>8, <1>9 DEF Next

(***************************************************************************)
(* A server that pings more often than the silence limit never has its     *)
(* connection given up for silence, however long it sends no data and      *)
(* however long the task was busy.                                         *)
(***************************************************************************)
THEOREM SilenceIsReal ==
  ASSUME PING < SILENCE_LIMIT
  PROVE  Spec => AliveIsKept
<1>1. Init => PingInv
  BY DEF Init, PingInv, Online
<1>2. Typed /\ PingInv /\ [Next]_vars => [TimedOut /\ pc' = "sleeping" => ~alive]_vars
  <2>. SUFFICES ASSUME Typed, PingInv, Next, TimedOut, pc' = "sleeping", alive
                PROVE  FALSE
    OBVIOUS
  <2>. USE DEF reading, retrying, server
  <2>1. pc = "waiting" /\ wire = <<>>
    BY DEF TimedOut
  <2>2. ExpireSilent
    BY <2>1 DEF Next, Ping, Send, FallSilent, Connect, DialFails, Wake, ReadPing, ReadData, ReadEnd,
                Frame, Handled, HandledSlow, ExpireStalled, Tick
  <2>3. last_heard >= SILENCE_LIMIT /\ last_heard <= unpinged /\ unpinged <= PING
    BY <2>1, <2>2 DEF ExpireSilent, PingInv, Online
  <2>. QED
    BY <2>3, LimitAssumption, PingAssumption DEF Typed
<1>. QED
  BY <1>1, <1>2, TypeInit, TypeStep, PingStep, PTL DEF Spec, AliveIsKept

-----------------------------------------------------------------------------
(* Stalls *)

\* No two pings wait one behind the other.
SinglePings == \A k \in 1 .. Len(wire) - 1 : ~(wire[k] = "ping" /\ wire[k + 1] = "ping")

NoPingNext == wire # <<>> => Head(wire) # "ping"

\* A stall not reported: either the read began before it was one, or a ping has
\* interrupted a read since, and then the next one comes too late to do it again.
StallInv ==
  pc = "waiting" =>
    /\ waited > 0 /\ ~NoPingNext => unpinged = 0
    /\ ~stall_warned =>
         \/ last_frame <= STALL_WARNING + waited
         \/ /\ last_frame <= STALL_WARNING + POLL_INTERVAL + waited
            /\ NoPingNext
            /\ alive => unpinged <= waited

LEMMA SingleArrived ==
  ASSUME Typed, SinglePings, NEW kind \in Kind, wire' = Arrived(kind)
  PROVE  SinglePings'
<1>1. CASE wire' = wire
  BY <1>1 DEF SinglePings
<1>2. CASE wire' # wire
  <2>1. wire' = Append(wire, kind) /\ ~(wire # <<>> /\ kind = "ping" /\ wire[Len(wire)] = "ping")
    BY <1>2 DEF Arrived
  <2>2. /\ Len(wire) \in Nat /\ Len(wire') = Len(wire) + 1 /\ wire'[Len(wire) + 1] = kind
        /\ \A k \in 1 .. Len(wire) : wire'[k] = wire[k]
        /\ wire = <<>> => Len(wire) = 0
    BY <2>1, AppendProperties, LenProperties DEF Typed
  <2>3. ASSUME NEW k \in 1 .. Len(wire), wire'[k] = "ping", wire'[k + 1] = "ping" PROVE FALSE
    <3>1. CASE k = Len(wire)
      BY <2>1, <2>2, <2>3, <3>1
    <3>2. CASE k # Len(wire)
      <4>1. k \in 1 .. Len(wire) - 1 /\ k + 1 \in 1 .. Len(wire)
        BY <2>2, <3>2
      <4>. QED
        BY <2>2, <2>3, <4>1 DEF SinglePings
    <3>. QED
      BY <3>1, <3>2
  <2>. QED
    BY <2>2, <2>3 DEF SinglePings
<1>. QED
  BY <1>1, <1>2

LEMMA SingleTail ==
  ASSUME Typed, SinglePings, wire # <<>>, wire' = Tail(wire)
  PROVE  SinglePings' /\ (Head(wire) = "ping" => NoPingNext')
<1>1. /\ Len(wire) \in Nat /\ Len(wire) # 0 /\ Head(wire) = wire[1] /\ Len(wire') = Len(wire) - 1
      /\ \A k \in 1 .. Len(wire) - 1 : wire'[k] = wire[k + 1]
      /\ wire' \in Seq(Kind)
  BY HeadTailProperties, LenProperties, EmptySeq DEF Typed
<1>2. SinglePings'
  <2>1. \A k \in 1 .. Len(wire') - 1 :
          /\ k + 1 \in 1 .. Len(wire) - 1 /\ wire'[k] = wire[k + 1] /\ wire'[k + 1] = wire[(k + 1) + 1]
    BY <1>1
  <2>. QED
    BY <2>1 DEF SinglePings
<1>3. ASSUME Head(wire) = "ping", wire' # <<>> PROVE Head(wire') # "ping"
  <2>1. Len(wire') # 0 /\ Head(wire') = wire'[1]
    BY <1>1, <1>3, EmptySeq
  <2>2. 1 \in 1 .. Len(wire) - 1 /\ wire'[1] = wire[1 + 1]
    BY <1>1, <2>1
  <2>. QED
    BY <1>1, <1>3, <2>1, <2>2 DEF SinglePings
<1>. QED
  BY <1>2, <1>3 DEF NoPingNext

LEMMA SingleStep ==
  ASSUME Typed, SinglePings, [Next]_vars
  PROVE  SinglePings'
<1>. USE DEF reading, retrying, server
<1>1. CASE Ping
  BY <1>1, SingleArrived DEF Ping, Kind
<1>2. ASSUME NEW kind \in {"data", "close"}, Send(kind) PROVE SinglePings'
  BY <1>2, SingleArrived DEF Send, Kind
<1>3. CASE ReadPing \/ ReadData
  BY <1>3, SingleTail DEF ReadPing, ReadData, Frame
<1>4. CASE \/ Connect \/ HandledSlow \/ ExpireSilent
           \/ \E refused \in BOOLEAN : DialFails(refused) \/ ReadEnd(refused)
  <2>1. wire' = <<>>
    BY <1>4 DEF Connect, HandledSlow, ExpireSilent, DialFails, ReadEnd, Fail, Hangup
  <2>2. Len(wire') - 1 = -1
    BY <2>1
  <2>. QED
    BY <2>2 DEF SinglePings
<1>5. CASE FallSilent \/ Wake \/ Handled \/ ExpireStalled \/ Tick \/ UNCHANGED vars
  BY <1>5 DEF FallSilent, Wake, Handled, ExpireStalled, Tick, vars, SinglePings
<1>. QED
  BY <1>1, <1>2, <1>3, <1>4, <1>5 DEF Next

LEMMA StallStep ==
  ASSUME PING > POLL_INTERVAL, MaxHandling <= STALL_WARNING,
         Typed, PingInv, HeardInv, SinglePings, StallInv, [Next]_vars
  PROVE  StallInv'
<1>. USE DEF reading, retrying, server
<1>0. PING \in Nat /\ POLL_INTERVAL \in Nat /\ STALL_WARNING \in Nat /\ MaxHandling \in Nat
  BY PingAssumption, PollAssumption, LimitAssumption, BoundAssumption
<1>t. /\ waited \in Nat /\ last_frame \in Nat /\ unpinged \in Nat
      /\ waited' \in Nat /\ last_frame' \in Nat /\ unpinged' \in Nat
  BY TypeStep DEF Typed
<1>. SUFFICES ASSUME pc' = "waiting"
              PROVE  /\ waited' > 0 /\ ~NoPingNext' => unpinged' = 0
                     /\ ~stall_warned' =>
                          \/ last_frame' <= STALL_WARNING + waited'
                          \/ /\ last_frame' <= STALL_WARNING + POLL_INTERVAL + waited'
                             /\ NoPingNext'
                             /\ alive' => unpinged' <= waited'
  BY DEF StallInv
<1>. DEFINE Goal == /\ waited' > 0 /\ ~NoPingNext' => unpinged' = 0
                    /\ ~stall_warned' =>
                         \/ last_frame' <= STALL_WARNING + waited'
                         \/ /\ last_frame' <= STALL_WARNING + POLL_INTERVAL + waited'
                            /\ NoPingNext'
                            /\ alive' => unpinged' <= waited'
<1>w. ASSUME pc = "waiting"
      PROVE  /\ waited <= POLL_INTERVAL
             /\ waited > 0 /\ ~NoPingNext => unpinged = 0
             /\ ~stall_warned =>
                  \/ last_frame <= STALL_WARNING + waited
                  \/ /\ last_frame <= STALL_WARNING + POLL_INTERVAL + waited
                     /\ NoPingNext
                     /\ alive => unpinged <= waited
  BY <1>w DEF StallInv, HeardInv
<1>1. CASE Ping
  <2>1. pc = "waiting" /\ unpinged' = 0 /\ unpinged >= PING /\ alive /\ UNCHANGED <<waited, last_frame, stall_warned>>
    BY <1>1 DEF Ping
  <2>2. ~stall_warned => last_frame <= STALL_WARNING + waited
    BY <1>0, <1>t, <1>w, <2>1
  <2>. QED
    BY <2>1, <2>2
<1>2. ASSUME NEW kind \in {"data", "close"}, Send(kind) PROVE Goal
  <2>1. /\ pc = "waiting" /\ UNCHANGED <<waited, last_frame, stall_warned, unpinged>> /\ alive
        /\ wire' = Arrived(kind)
    BY <1>2 DEF Send
  <2>2. NoPingNext' <=> NoPingNext
    BY <2>1, ArrivedWire DEF NoPingNext, Kind
  <2>. QED
    BY <1>w, <2>1, <2>2
<1>3. CASE FallSilent \/ UNCHANGED vars
  <2>1. pc = "waiting" /\ UNCHANGED <<waited, last_frame, stall_warned, unpinged, wire>> /\ (alive' => alive)
    BY <1>3 DEF FallSilent, vars
  <2>2. NoPingNext' <=> NoPingNext
    BY <2>1 DEF NoPingNext
  <2>. QED
    BY <1>w, <2>1, <2>2
<1>4. CASE Connect
  BY <1>0, <1>4 DEF Connect, StartTimers
<1>5. CASE ReadPing
  <2>1. /\ pc = "waiting" /\ wire # <<>> /\ Head(wire) = "ping" /\ wire' = Tail(wire)
        /\ waited' = 0 /\ UNCHANGED <<last_frame, stall_warned, unpinged>>
    BY <1>5 DEF ReadPing, Frame
  <2>2. ~NoPingNext /\ NoPingNext'
    BY <2>1, SingleTail DEF NoPingNext
  <2>3. ~stall_warned => last_frame <= STALL_WARNING + waited
    BY <1>w, <2>1, <2>2
  <2>4. CASE waited = 0
    BY <2>1, <2>3, <2>4
  <2>5. CASE waited # 0
    <3>1. unpinged = 0 /\ waited <= POLL_INTERVAL
      BY <1>t, <1>w, <2>1, <2>2, <2>5
    <3>2. ~stall_warned => last_frame <= STALL_WARNING + POLL_INTERVAL
      BY <1>0, <1>t, <2>3, <3>1
    <3>. QED
      BY <1>0, <2>1, <2>2, <3>1, <3>2
  <2>. QED
    BY <2>4, <2>5
<1>6. CASE Handled
  <2>1. last_frame <= MaxHandling
    BY <1>0, <1>6, <1>t DEF Handled, HeardInv, Typed
  <2>2. waited' = 0 /\ last_frame' = last_frame
    BY <1>6 DEF Handled
  <2>. QED
    BY <1>0, <1>t, <2>1, <2>2
<1>7. CASE ExpireStalled
  <2>1. /\ pc = "waiting" /\ waited' = 0 /\ last_frame' = last_frame
        /\ stall_warned' = (stall_warned \/ last_frame >= STALL_WARNING)
    BY <1>7 DEF ExpireStalled, TimedOut
  <2>2. ~stall_warned' => ~(last_frame >= STALL_WARNING)
    BY <2>1, Zenon
  <2>3. ~(last_frame >= STALL_WARNING) => last_frame' <= STALL_WARNING + waited'
    BY <1>0, <1>t, <2>1
  <2>4. ~stall_warned' => last_frame' <= STALL_WARNING + waited'
    BY <2>2, <2>3, Zenon
  <2>5. ~(waited' > 0)
    BY <2>1
  <2>. QED
    BY <2>4, <2>5, Zenon
<1>8. CASE Tick
  <2>1. /\ pc = "waiting" /\ UNCHANGED <<alive, wire, stall_warned>> /\ wire = <<>>
        /\ last_frame' <= last_frame + 1 /\ waited' = waited + 1
        /\ unpinged' = IF alive THEN unpinged + 1 ELSE unpinged
    BY <1>8, Ticked
  <2>2. NoPingNext /\ NoPingNext'
    BY <2>1 DEF NoPingNext
  <2>. QED
    BY <1>0, <1>t, <1>w, <2>1, <2>2
<1>9. ~ \/ ReadData \/ Wake \/ HandledSlow \/ ExpireSilent
        \/ \E refused \in BOOLEAN : DialFails(refused) \/ ReadEnd(refused)
  BY DEF ReadData, Wake, HandledSlow, ExpireSilent, DialFails, ReadEnd, Fail
<1>. QED
  BY <1>1, <1>2, <1>3, <1>4, <1>5, <1>6, <1>7, <1>8, <1>9 DEF Next

(***************************************************************************)
(* A stall is reported within a ping and a poll, if the server pings less  *)
(* often than the read times out, and no frame is handled for longer than  *)
(* the stall warning.  A server that pings more often than that keeps      *)
(* every read from timing out, and its stalls are not reported.            *)
(***************************************************************************)
THEOREM StallIsNoticed ==
  ASSUME PING > POLL_INTERVAL, MaxHandling <= STALL_WARNING
  PROVE  Spec => []StallNoticed
<1>1. Init => PingInv /\ HeardInv /\ SinglePings /\ StallInv
  <2>. SUFFICES ASSUME Init PROVE SinglePings
    BY DEF Init, PingInv, HeardInv, StallInv, Online
  <2>1. Len(wire) - 1 = -1
    BY DEF Init
  <2>. QED
    BY <2>1 DEF SinglePings
<1>2. Typed /\ HeardInv /\ StallInv => StallNoticed
  BY PingAssumption, PollAssumption, LimitAssumption DEF StallInv, HeardInv, StallNoticed, Typed
<1>. QED
  BY <1>1, <1>2, TypeInit, TypeStep, PingStep, HeardStep, SingleStep, StallStep, PTL DEF Spec

-----------------------------------------------------------------------------
(* Pauses *)

\* What the provers do not know of powers.
PowersDouble == \A n \in Nat : 2 ^ n \in Nat /\ 2 ^ (n + 1) = 2 * 2 ^ n

\* The pause after n failures and one more, none of which mentioned 429.
Pause(n) == Min({reconnect_delay * 2 ^ n, MAX_RECONNECT_DELAY})

\* The next pause, and the one under way.
PauseInv ==
  /\ delay = IF limited THEN MAX_RECONNECT_DELAY ELSE Pause(failures)
  /\ pc = "sleeping" => /\ failures > 0
                        /\ pause = IF limited THEN MAX_RECONNECT_DELAY ELSE Pause(failures - 1)

LEMMA PauseNext ==
  ASSUME PowersDouble, NEW n \in Nat
  PROVE  /\ Pause(n) \in Nat
         /\ Min({2 * Pause(n), MAX_RECONNECT_DELAY}) = Pause(n + 1)
<1>. DEFINE p == reconnect_delay * 2 ^ n
<1>1. 2 ^ n \in Nat /\ 2 ^ (n + 1) = 2 * 2 ^ n
  BY DEF PowersDouble
<1>2. p \in Nat /\ reconnect_delay * 2 ^ (n + 1) = 2 * p
  BY <1>1, DelayAssumption
<1>. HIDE DEF p
<1>3. Pause(n) = IF p <= MAX_RECONNECT_DELAY THEN p ELSE MAX_RECONNECT_DELAY
  BY <1>2, MinOfTwo, DelayAssumption DEF Pause, p
<1>4. Pause(n + 1) = IF 2 * p <= MAX_RECONNECT_DELAY THEN 2 * p ELSE MAX_RECONNECT_DELAY
  BY <1>2, MinOfTwo, DelayAssumption DEF Pause
<1>5. Pause(n) \in Nat
  BY <1>2, <1>3, DelayAssumption
<1>6. Min({2 * Pause(n), MAX_RECONNECT_DELAY})
        = IF 2 * Pause(n) <= MAX_RECONNECT_DELAY THEN 2 * Pause(n) ELSE MAX_RECONNECT_DELAY
  BY <1>5, MinOfTwo, DelayAssumption
<1>. QED
  BY <1>2, <1>3, <1>4, <1>5, <1>6, DelayAssumption

LEMMA PauseStep ==
  ASSUME PowersDouble, reconnect_delay <= MAX_RECONNECT_DELAY, Typed, PauseInv, [Next]_vars
  PROVE  PauseInv'
<1>. USE DEF reading, retrying, server
<1>0. Pause(0) = reconnect_delay
  <2>1. reconnect_delay * 2 ^ 0 = reconnect_delay
    BY DelayAssumption
  <2>. QED
    BY <2>1, MinOfTwo, DelayAssumption DEF Pause
<1>1. CASE Connect
  BY <1>0, <1>1 DEF Connect, PauseInv
<1>2. ASSUME NEW refused \in BOOLEAN, Fail(refused) PROVE PauseInv'
  <2>1. failures \in Nat /\ failures' = failures + 1 /\ failures' - 1 = failures
    BY <1>2 DEF Fail, Typed
  <2>2. limited' = (limited \/ refused)
    BY <1>2 DEF Fail
  <2>3. /\ pause' = IF refused THEN MAX_RECONNECT_DELAY ELSE delay
        /\ delay' = IF refused THEN MAX_RECONNECT_DELAY ELSE Min({2 * delay, MAX_RECONNECT_DELAY})
    BY <1>2 DEF Fail
  <2>4. CASE refused
    <3>1. limited' /\ pause' = MAX_RECONNECT_DELAY /\ delay' = MAX_RECONNECT_DELAY
      BY <2>4, <2>2, <2>3
    <3>. QED
      BY <2>1, <3>1 DEF PauseInv
  <2>5. CASE ~refused /\ limited
    <3>1. Min({2 * MAX_RECONNECT_DELAY, MAX_RECONNECT_DELAY}) = MAX_RECONNECT_DELAY
      BY MinOfTwo, DelayAssumption
    <3>2. limited' /\ pause' = MAX_RECONNECT_DELAY /\ delay' = MAX_RECONNECT_DELAY
      BY <2>5, <2>2, <2>3, <3>1 DEF PauseInv
    <3>. QED
      BY <2>1, <3>2 DEF PauseInv
  <2>6. CASE ~refused /\ ~limited
    BY <1>2, <2>1, <2>6, PauseNext DEF Fail, PauseInv, Typed
  <2>. QED
    BY <2>4, <2>5, <2>6
<1>3. CASE \/ Ping \/ FallSilent \/ Wake \/ ReadPing \/ ReadData \/ Handled \/ HandledSlow
           \/ ExpireStalled \/ Tick \/ UNCHANGED vars \/ \E kind \in {"data", "close"} : Send(kind)
  <2>1. UNCHANGED <<delay, failures, pause, limited>> /\ (pc' = "sleeping" => pc = "sleeping")
    BY <1>3 DEF Ping, FallSilent, Wake, ReadPing, ReadData, Handled, HandledSlow, ExpireStalled, Tick, Send, vars
  <2>. QED
    BY <2>1 DEF PauseInv
<1>. QED
  BY <1>1, <1>2, <1>3 DEF Next, DialFails, ReadEnd, ExpireSilent

(***************************************************************************)
(* The pauses of a row of failures double up to the longest, for every     *)
(* first pause that is not longer itself.  That powers of two double is a  *)
(* premise: none of the provers computes with powers.                      *)
(***************************************************************************)
THEOREM PausesCorrect ==
  ASSUME PowersDouble, reconnect_delay <= MAX_RECONNECT_DELAY
  PROVE  Spec => []PauseDoubles
<1>1. Init => PauseInv
  <2>1. reconnect_delay * 2 ^ 0 = reconnect_delay
    BY DelayAssumption
  <2>2. Pause(0) = reconnect_delay
    BY <2>1, MinOfTwo, DelayAssumption DEF Pause
  <2>. QED
    BY <2>2 DEF Init, PauseInv
<1>2. PauseInv => PauseDoubles
  BY DEF PauseInv, PauseDoubles, Pause
<1>. QED
  BY <1>1, <1>2, TypeInit, TypeStep, PauseStep, PTL DEF Spec
=============================================================================

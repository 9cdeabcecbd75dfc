-------------------------- MODULE SenderPoolProofs --------------------------
(***************************************************************************)
(* What SenderPool promises for every number of threads, calls and         *)
(* transactions.  The inductive invariant has three parts, each preserved  *)
(* with the ones before it: Typed, the types and who may be where;         *)
(* HandedOut, how the indices of a job are split between the threads;      *)
(* Counted, what the caller learns from the counter.  All three hold even  *)
(* if the caller's own work panics.  Settled, that a call is over only     *)
(* once it returned, needs that it does not.                               *)
(***************************************************************************)
EXTENDS SenderPool, FiniteSetTheorems, TLAPS

WorkerPlace == {"polling", "loading", "taking", "ended", "claiming", "following", "counting"}
CallerPlace == Place \ {"polling", "loading", "taking", "ended"}

\* The types, and the calls that threads and slot can refer to.
Typed ==
  /\ PoolTypeOK
  /\ pc[Caller] \in CallerPlace /\ \A w \in Worker : pc[w] \in WorkerPlace
  /\ pc[Caller] \notin {"outside", "dropped"} => calls # 0 /\ mine[Caller] = calls
  /\ job <= calls /\ \A t \in Thread : mine[t] <= calls
  /\ \A t \in Thread : pc[t] \in {"claiming", "following", "counting"} => mine[t] # 0
  /\ \A k \in returned : k <= calls

\* What was handed out: an index is with one thread, or done, or in nobody's
\* hands yet.
HandedOut ==
  /\ \A t \in Thread : Busy(t) =>
       /\ index[t] \in All(mine[t]) /\ index[t] < next[mine[t]]
       /\ index[t] \notin counted[mine[t]]
  /\ \A t \in Thread : pc[t] = "following" => index[t] \notin recovered[mine[t]]
  /\ \A t \in Thread : pc[t] = "counting" => index[t] \in recovered[mine[t]]
  /\ \A t, u \in Thread : t # u /\ Busy(t) /\ Busy(u) /\ mine[t] = mine[u] => index[t] # index[u]
  /\ \A k \in Call :
       /\ counted[k] \subseteq recovered[k] /\ recovered[k] \subseteq All(k)
       /\ \A i \in recovered[k] : i < next[k]
       /\ k > calls => next[k] = 0

\* What the counter says.
Counted ==
  /\ \A k \in Call : done[k] = Cardinality(counted[k])
  /\ pc[Caller] = "clearing" => counted[calls] = All(calls)
  /\ \A k \in returned : counted[k] = All(k)

\* Without panics: a call that is over has returned, and its slot is empty.
Settled ==
  /\ \A k \in Call : k <= calls /\ ~Borrowed(k) => k \in returned
  /\ job # 0 => Borrowed(job)

-----------------------------------------------------------------------------
(* Lemmas about types and places *)

\* No call, and no index, is written 0.
LEMMA Zero == 0 \in 0 .. MaxCalls /\ 0 \in 0 .. MaxTxs /\ 0 \in Index
  BY SizeAssumption DEF Index

\* The initial state is well typed.
LEMMA TypedInit == Init => Typed
<1>. SUFFICES ASSUME Init PROVE Typed
  OBVIOUS
<1>. USE CallerAssumption, SizeAssumption
<1>1. pc \in [Thread -> Place] /\ index \in [Thread -> Index]
  BY DEF Init, Place, Index
<1>2. PoolTypeOK
  <2>1. epoch \in Nat /\ job \in 0 .. MaxCalls /\ calls \in 0 .. MaxCalls /\ returned \subseteq Call
    BY Zero DEF Init
  <2>2. /\ size \in [Call -> 0 .. MaxTxs] /\ next \in [Call -> Nat] /\ done \in [Call -> Nat]
        /\ recovered \in [Call -> SUBSET Index] /\ counted \in [Call -> SUBSET Index]
    BY Zero DEF Init
  <2>3. noticed \in [Worker -> Nat] /\ mine \in [Thread -> 0 .. MaxCalls]
    BY Zero DEF Init
  <2>4. stop \in BOOLEAN
    BY Zenon DEF Init
  <2>5. QED
    BY <1>1, <2>1, <2>2, <2>3, <2>4 DEF PoolTypeOK
<1>3. QED
  BY <1>2 DEF Init, Typed, Thread, WorkerPlace, CallerPlace, Place

\* One thread's step in a job keeps the types.
LEMMA TypedWork ==
  ASSUME Typed, NEW t \in Thread, Work(t)
  PROVE  Typed'
<1>. USE CallerAssumption, SizeAssumption
<1>. mine[t] \in 0 .. MaxCalls /\ index[t] \in Index /\ pc \in [Thread -> Place]
  BY DEF Typed, PoolTypeOK
<1>1. CASE Claim(t)
  <2>1. mine[t] \in Call
    BY <1>1 DEF Claim, Typed, Call
  <2>2. CASE IsIndex(mine[t], next[mine[t]])
    <3>1. next[mine[t]] \in Index
      BY <2>1, <2>2 DEF IsIndex, Typed, PoolTypeOK, Index
    <3>2. PoolTypeOK'
      BY <1>1, <2>1, <2>2, <3>1 DEF Claim, Typed, PoolTypeOK, pool, log, Place
    <3>3. QED
      BY <1>1, <2>2, <3>2 DEF Claim, Typed, PoolTypeOK, Thread, pool, log, WorkerPlace, CallerPlace, Place
  <2>3. CASE ~IsIndex(mine[t], next[mine[t]])
    <3>1. PoolTypeOK'
      BY <1>1, <2>1, <2>3 DEF Claim, Typed, PoolTypeOK, pool, log, Place
    <3>2. QED
      BY <1>1, <2>3, <3>1 DEF Claim, Typed, PoolTypeOK, Thread, pool, log, WorkerPlace, CallerPlace, Place
  <2>4. QED
    BY <2>2, <2>3
<1>2. CASE Follow(t)
  <2>1. PoolTypeOK'
    BY <1>2 DEF Follow, Typed, PoolTypeOK, pool, jobs, Place
  <2>2. QED
    BY <1>2, <2>1 DEF Follow, Typed, PoolTypeOK, Thread, pool, jobs, WorkerPlace, CallerPlace, Place
<1>3. CASE Count(t)
  <2>1. mine[t] \in Call
    BY <1>3 DEF Count, Typed, Call
  <2>2. PoolTypeOK'
    BY <1>3, <2>1 DEF Count, Typed, PoolTypeOK, pool, Place
  <2>3. QED
    BY <1>3, <2>2 DEF Count, Typed, PoolTypeOK, Thread, pool, WorkerPlace, CallerPlace, Place
<1>4. QED
  BY <1>1, <1>2, <1>3 DEF Work

\* A worker between two jobs keeps the types.
LEMMA TypedIdle ==
  ASSUME Typed, NEW w \in Worker, Quit(w) \/ Poll(w) \/ Spin(w) \/ Notice(w) \/ Take(w)
  PROVE  Typed'
<1>. USE CallerAssumption, SizeAssumption DEF WorkerPlace, CallerPlace, Place, Thread, Typed
<1>1. PoolTypeOK'
  BY DEF PoolTypeOK, Quit, Poll, Spin, Notice, Take, pool, jobs, log
<1>2. CASE Quit(w) \/ Poll(w) \/ Spin(w) \/ Notice(w)
  BY <1>1, <1>2 DEF PoolTypeOK, Quit, Poll, Spin, Notice, pool, log
<1>3. CASE Take(w)
  BY <1>1, <1>3 DEF PoolTypeOK, Take, pool, log
<1>4. QED
  BY <1>2, <1>3

\* The caller's steps outside the job keep the types.
LEMMA TypedCaller ==
  ASSUME Typed,
         \/ \E n \in 0 .. MaxTxs : Publish(n)
         \/ Announce \/ RunF \/ Panic \/ Wait \/ Return \/ Drop
  PROVE  Typed'
<1>. USE CallerAssumption, SizeAssumption
<1>0. PoolTypeOK /\ Caller \in Thread /\ 0 \in 0 .. MaxCalls
  BY Zero DEF Typed, Thread
<1>1. ASSUME NEW n \in 0 .. MaxTxs, Publish(n) PROVE Typed'
  <2>1. calls + 1 \in Call /\ calls + 1 \in 0 .. MaxCalls
    BY <1>0, <1>1 DEF Publish, PoolTypeOK, Call
  <2>2. pc' \in [Thread -> Place]
    BY <1>0, <1>1 DEF Publish, PoolTypeOK, Place
  <2>3. PoolTypeOK'
    BY <1>0, <1>1, <2>1, <2>2 DEF Publish, PoolTypeOK
  <2>4. pc'[Caller] = "published" /\ \A t \in Thread \ {Caller} : pc'[t] = pc[t]
    BY <1>0, <1>1 DEF Publish, PoolTypeOK
  <2>5. mine'[Caller] = calls + 1 /\ \A t \in Thread \ {Caller} : mine'[t] = mine[t]
    BY <1>0, <1>1 DEF Publish, PoolTypeOK
  <2>6. \A t \in Thread : mine'[t] <= calls'
    BY <1>0, <1>1, <2>5 DEF Publish, PoolTypeOK, Typed
  <2>7. \A k \in returned' : k <= calls'
    BY <1>0, <1>1 DEF Publish, PoolTypeOK, Typed, Call
  <2>8. job' = calls' /\ calls' = calls + 1 /\ calls' # 0
    BY <1>0, <1>1 DEF Publish, PoolTypeOK
  <2>9. QED
    BY <1>0, <2>1, <2>3, <2>4, <2>5, <2>6, <2>7, <2>8
    DEF Typed, Thread, WorkerPlace, CallerPlace, Place
<1>2. CASE Announce \/ RunF \/ Panic \/ Wait \/ Drop
  <2>1. PICK p \in Place : pc' = [pc EXCEPT ![Caller] = p]
    BY <1>2, Zenon DEF Announce, RunF, Panic, Wait, Drop, Place
  <2>2. PoolTypeOK'
    <3>. pc' \in [Thread -> Place]
      BY <1>0, <2>1 DEF PoolTypeOK
    <3>1. epoch' \in Nat /\ mine' \in [Thread -> 0 .. MaxCalls]
      BY <1>0, <1>2 DEF PoolTypeOK, Announce, RunF, Panic, Wait, Drop, pool
    <3>2. stop' \in BOOLEAN
      BY <1>0, <1>2, Zenon DEF PoolTypeOK, Announce, RunF, Panic, Wait, Drop, pool
    <3>3. UNCHANGED <<job, jobs, noticed, index, log>>
      BY <1>2 DEF Announce, RunF, Panic, Wait, Drop, pool
    <3>4. QED
      BY <1>0, <3>1, <3>2, <3>3 DEF PoolTypeOK, jobs, log
  <2>3. QED
    BY <1>0, <1>2, <2>2 DEF PoolTypeOK, Typed, Thread, Announce, RunF, Panic, Wait, Drop,
         pool, log, WorkerPlace, CallerPlace, Place
<1>3. CASE Return
  <2>1. calls \in Call
    BY <1>3 DEF Return, Typed, PoolTypeOK, Call
  <2>2. pc' \in [Thread -> Place]
    BY <1>0, <1>3 DEF Return, PoolTypeOK, Place
  <2>3. PoolTypeOK'
    BY <1>0, <1>3, <2>1, <2>2 DEF PoolTypeOK, Return, jobs
  <2>4. pc'[Caller] = "outside" /\ \A t \in Thread \ {Caller} : pc'[t] = pc[t]
    BY <1>0, <1>3 DEF Return, PoolTypeOK
  <2>5. mine'[Caller] = 0 /\ \A t \in Thread \ {Caller} : mine'[t] = mine[t]
    BY <1>0, <1>3 DEF Return, PoolTypeOK
  <2>6. \A k \in returned' : k <= calls'
    BY <1>3, <2>1 DEF Return, Typed, Call
  <2>7. QED
    BY <1>0, <1>3, <2>1, <2>3, <2>4, <2>5, <2>6
    DEF Return, Typed, Thread, Call, WorkerPlace, CallerPlace, Place
<1>4. QED
  BY <1>1, <1>2, <1>3

\* Every step keeps the types.
LEMMA TypedNext == Typed /\ [Next]_vars => Typed'
<1>. SUFFICES ASSUME Typed, [Next]_vars PROVE Typed'
  OBVIOUS
<1>1. CASE Next
  BY <1>1, TypedWork, TypedIdle, TypedCaller DEF Next, WorkerStep, CallStep, Thread
<1>2. CASE UNCHANGED vars
  BY <1>2 DEF vars, pool, jobs, threads, log, Typed, PoolTypeOK
<1>3. QED
  BY <1>1, <1>2

\* The types hold throughout.
LEMMA TypedAlways == Spec => []Typed
  BY TypedInit, TypedNext, PTL DEF Spec

(***************************************************************************)
(* Every reachable state of SenderPool is well typed; no index handed out  *)
(* lies past the end of a job (codec.rs:421-423).                          *)
(***************************************************************************)
THEOREM PoolTypeCorrect == Spec => []PoolTypeOK
<1>1. Typed => PoolTypeOK
  BY DEF Typed
<1>2. QED
  BY <1>1, TypedAlways, PTL

-----------------------------------------------------------------------------
(* Lemmas about what is handed out *)

\* Nothing is handed out at first.
LEMMA HandedOutInit == Init => HandedOut
  BY CallerAssumption DEF Init, HandedOut, Busy, Thread, Call

\* What a thread in a job refers to.
LEMMA InJob ==
  ASSUME Typed, NEW t \in Thread, pc[t] \in {"claiming", "following", "counting"}
  PROVE  mine[t] \in Call /\ mine[t] <= calls /\ index[t] \in Index /\ index[t] \in Int
  BY DEF Typed, PoolTypeOK, Call, Index

\* An index taken is new to everyone.
LEMMA HandedOutClaim ==
  ASSUME Typed, HandedOut, NEW t \in Thread, Claim(t)
  PROVE  HandedOut'
<1>1. mine[t] \in Call /\ mine[t] <= calls /\ pc \in [Thread -> Place]
      /\ next \in [Call -> Nat] /\ size \in [Call -> 0 .. MaxTxs] /\ calls \in Nat
      /\ mine \in [Thread -> 0 .. MaxCalls] /\ index \in [Thread -> Index]
  BY InJob DEF Claim, Typed, PoolTypeOK
<1>2. \A u \in Thread \ {t} : pc'[u] = pc[u] /\ mine'[u] = mine[u] /\ index'[u] = index[u]
  BY <1>1 DEF Claim
<1>3. UNCHANGED <<size, recovered, counted, calls>>
  BY DEF Claim, log
<1>4. \A k \in Call : next'[k] = IF k = mine[t] THEN next[k] + 1 ELSE next[k]
  BY <1>1 DEF Claim
<1>5. \A k \in Call : next'[k] >= next[k] /\ (k > calls => next'[k] = next[k])
  BY <1>1, <1>4
<1>6. \A u \in Thread : Busy(u) => mine[u] \in Call /\ index[u] \in Int /\ u # t
  BY InJob DEF Busy, Claim
<1>7. CASE IsIndex(mine[t], next[mine[t]])
  <2>1. pc'[t] = "following" /\ index'[t] = next[mine[t]] /\ mine'[t] = mine[t]
    BY <1>1, <1>7 DEF Claim
  <2>2. index'[t] \in All(mine[t])' /\ index'[t] < next'[mine[t]] /\ index'[t] \in Int
    BY <1>1, <1>3, <1>4, <1>7, <2>1 DEF IsIndex, All
  <2>3. index'[t] \notin recovered[mine[t]] /\ index'[t] \notin counted[mine[t]]
    BY <1>1, <2>1 DEF HandedOut
  <2>4. \A u \in Thread \ {t} : Busy(u) /\ mine[u] = mine[t] => index[u] # index'[t]
    BY <1>6, <2>1 DEF HandedOut
  <2>5. \A u \in Thread : (Busy(u))' <=> Busy(u) \/ u = t
    BY <1>2, <1>6, <2>1 DEF Busy
  <2>6. \A u \in Thread \ {t} : Busy(u) =>
          index[u] \in All(mine[u])' /\ index[u] < next'[mine[u]] /\ index[u] \notin counted[mine[u]]
    <3>1. SUFFICES ASSUME NEW u \in Thread \ {t}, Busy(u)
                   PROVE  index[u] \in All(mine[u])' /\ index[u] < next'[mine[u]] /\ index[u] \notin counted[mine[u]]
      OBVIOUS
    <3>2. index[u] \in All(mine[u]) /\ index[u] < next[mine[u]] /\ index[u] \notin counted[mine[u]]
      BY <3>1 DEF HandedOut
    <3>3. mine[u] \in Call /\ index[u] \in Int /\ next[mine[u]] \in Nat /\ next'[mine[u]] \in Nat
      BY <1>1, <1>4, <1>6, <3>1
    <3>4. QED
      BY <1>2, <1>3, <1>5, <3>2, <3>3 DEF All
  <2>7. \A k \in Call : \A i \in recovered[k] : i < next'[k]
    <3>1. SUFFICES ASSUME NEW k \in Call, NEW i \in recovered[k] PROVE i < next'[k]
      OBVIOUS
    <3>2. i < next[k] /\ i \in Int
      BY DEF HandedOut, Typed, PoolTypeOK, Index
    <3>3. QED
      BY <1>1, <1>4, <3>2
  <2>8. QED
    BY <1>2, <1>3, <1>5, <2>1, <2>2, <2>3, <2>4, <2>5, <2>6, <2>7 DEF HandedOut, Busy, All
<1>8. CASE ~IsIndex(mine[t], next[mine[t]])
  <2>1. pc'[t] \in {"waiting", "polling"} /\ index' = index
    BY <1>1, <1>8 DEF Claim
  <2>2. \A u \in Thread : (Busy(u))' => Busy(u) /\ u # t
    BY <1>2, <2>1 DEF Busy
  <2>3. \A u \in Thread : Busy(u) => index[u] < next'[mine[u]]
    <3>1. SUFFICES ASSUME NEW u \in Thread, Busy(u) PROVE index[u] < next'[mine[u]]
      OBVIOUS
    <3>2. index[u] < next[mine[u]] /\ mine[u] \in Call /\ index[u] \in Int
      BY <1>6, <3>1 DEF HandedOut
    <3>3. QED
      BY <1>1, <1>4, <3>2
  <2>4. \A k \in Call : \A i \in recovered[k] : i < next'[k]
    <3>1. SUFFICES ASSUME NEW k \in Call, NEW i \in recovered[k] PROVE i < next'[k]
      OBVIOUS
    <3>2. i < next[k] /\ i \in Int
      BY DEF HandedOut, Typed, PoolTypeOK, Index
    <3>3. QED
      BY <1>1, <1>4, <3>2
  <2>5. QED
    BY <1>2, <1>3, <1>5, <2>1, <2>2, <2>3, <2>4 DEF HandedOut, Busy, All
<1>9. QED
  BY <1>7, <1>8

\* Recovering and counting an index leave the others with their threads.
LEMMA HandedOutDone ==
  ASSUME Typed, HandedOut, NEW t \in Thread, Follow(t) \/ Count(t)
  PROVE  HandedOut'
<1>1. Busy(t) /\ mine[t] \in Call /\ mine[t] <= calls
  BY InJob DEF Busy, Follow, Count
<1>2. UNCHANGED <<size, next, mine, index, calls>>
  BY DEF Follow, Count, jobs
<1>3. \A u \in Thread \ {t} : pc'[u] = pc[u]
  BY DEF Follow, Count, Typed, PoolTypeOK
<1>4. recovered \in [Call -> SUBSET Index] /\ counted \in [Call -> SUBSET Index]
  BY DEF Typed, PoolTypeOK
<1>5. CASE Follow(t)
  <2>1. pc[t] = "following" /\ pc'[t] = "counting" /\ counted' = counted
    BY <1>5 DEF Follow, Typed, PoolTypeOK
  <2>2. \A k \in Call : recovered'[k] = IF k = mine[t] THEN recovered[k] \cup {index[t]} ELSE recovered[k]
    BY <1>4, <1>5 DEF Follow
  <2>3. \A u \in Thread : (Busy(u))' <=> Busy(u)
    BY <1>3, <2>1 DEF Busy
  <2>4. \A u \in Thread : pc'[u] = "following" => index[u] \notin recovered'[mine[u]]
    <3>1. SUFFICES ASSUME NEW u \in Thread, pc'[u] = "following" PROVE index[u] \notin recovered'[mine[u]]
      OBVIOUS
    <3>2. u # t /\ pc[u] = "following" /\ Busy(u)
      BY <1>3, <2>1, <3>1 DEF Busy
    <3>3. mine[u] \in Call
      BY <3>2, InJob
    <3>4. index[u] \notin recovered[mine[u]] /\ (mine[u] = mine[t] => index[u] # index[t])
      BY <1>1, <3>2 DEF HandedOut
    <3>5. QED
      BY <2>2, <3>3, <3>4
  <2>5. \A u \in Thread : pc'[u] = "counting" => index[u] \in recovered'[mine[u]]
    <3>1. SUFFICES ASSUME NEW u \in Thread, pc'[u] = "counting" PROVE index[u] \in recovered'[mine[u]]
      OBVIOUS
    <3>2. u = t \/ (pc[u] = "counting" /\ mine[u] \in Call)
      BY <1>3, <3>1, InJob
    <3>3. CASE u = t
      BY <1>1, <2>2, <3>3
    <3>4. CASE pc[u] = "counting" /\ mine[u] \in Call
      <4>1. index[u] \in recovered[mine[u]]
        BY <3>4 DEF HandedOut
      <4>2. QED
        BY <2>2, <3>4, <4>1
    <3>5. QED
      BY <3>2, <3>3, <3>4
  <2>6. \A k \in Call :
          /\ counted[k] \subseteq recovered'[k] /\ recovered'[k] \subseteq All(k)
          /\ \A i \in recovered'[k] : i < next[k]
    <3>1. index[t] \in All(mine[t]) /\ index[t] < next[mine[t]]
      BY <1>1 DEF HandedOut
    <3>2. \A k \in Call :
            /\ counted[k] \subseteq recovered[k] /\ recovered[k] \subseteq All(k)
            /\ \A i \in recovered[k] : i < next[k]
      BY DEF HandedOut
    <3>3. QED
      BY <2>2, <3>1, <3>2, ZenonT(40)
  <2>7. \A k \in Call : All(k)' = All(k)
    BY <1>2 DEF All
  <2>8. \A u \in Thread : (Busy(u))' =>
          index'[u] \in All(mine[u])' /\ index'[u] < next'[mine'[u]] /\ index'[u] \notin counted'[mine'[u]]
    BY <1>2, <2>1, <2>3 DEF HandedOut, All
  <2>9. \A u, v \in Thread : u # v /\ (Busy(u))' /\ (Busy(v))' /\ mine'[u] = mine'[v] => index'[u] # index'[v]
    BY <1>2, <2>3 DEF HandedOut
  <2>10. QED
    BY <1>2, <2>1, <2>4, <2>5, <2>6, <2>7, <2>8, <2>9 DEF HandedOut
<1>6. CASE Count(t)
  <2>1. pc[t] = "counting" /\ pc'[t] = "claiming" /\ recovered' = recovered
    BY <1>6 DEF Count, Typed, PoolTypeOK
  <2>2. \A k \in Call : counted'[k] = IF k = mine[t] THEN counted[k] \cup {index[t]} ELSE counted[k]
    BY <1>4, <1>6 DEF Count
  <2>3. \A u \in Thread : (Busy(u))' => Busy(u) /\ u # t /\ pc'[u] = pc[u]
    BY <1>3, <2>1 DEF Busy
  <2>4. \A u \in Thread : (Busy(u))' => index[u] \notin counted'[mine[u]]
    <3>1. SUFFICES ASSUME NEW u \in Thread, (Busy(u))' PROVE index[u] \notin counted'[mine[u]]
      OBVIOUS
    <3>2. u # t /\ Busy(u) /\ mine[u] \in Call
      BY <2>3, <3>1, InJob DEF Busy
    <3>3. index[u] \notin counted[mine[u]] /\ (mine[u] = mine[t] => index[u] # index[t])
      BY <1>1, <3>2 DEF HandedOut
    <3>4. QED
      BY <2>2, <3>2, <3>3
  <2>5. \A k \in Call : counted'[k] \subseteq recovered[k]
    <3>1. index[t] \in recovered[mine[t]]
      BY <2>1 DEF HandedOut
    <3>2. \A k \in Call : counted[k] \subseteq recovered[k]
      BY DEF HandedOut
    <3>3. QED
      BY <2>2, <3>1, <3>2
  <2>6. \A u \in Thread : (Busy(u))' =>
          index'[u] \in All(mine[u])' /\ index'[u] < next'[mine'[u]] /\ index'[u] \notin counted'[mine'[u]]
    BY <1>2, <2>3, <2>4 DEF HandedOut, All
  <2>7. \A u, v \in Thread : u # v /\ (Busy(u))' /\ (Busy(v))' /\ mine'[u] = mine'[v] => index'[u] # index'[v]
    BY <1>2, <2>3 DEF HandedOut
  <2>8. /\ \A u \in Thread : pc'[u] = "following" => pc[u] = "following"
        /\ \A u \in Thread : pc'[u] = "counting" => pc[u] = "counting"
    BY <1>3, <2>1
  <2>9. \A k \in Call :
          /\ counted'[k] \subseteq recovered'[k] /\ recovered'[k] \subseteq All(k)'
          /\ \A i \in recovered'[k] : i < next'[k]
          /\ k > calls' => next'[k] = 0
    <3>1. \A k \in Call : All(k)' = All(k)
      BY <1>2 DEF All
    <3>2. \A k \in Call :
            /\ recovered[k] \subseteq All(k)
            /\ \A i \in recovered[k] : i < next[k]
            /\ k > calls => next[k] = 0
      BY DEF HandedOut
    <3>3. QED
      BY <1>2, <2>1, <2>5, <3>1, <3>2
  <2>10. QED
    BY <1>2, <2>1, <2>6, <2>7, <2>8, <2>9 DEF HandedOut
<1>7. QED
  BY <1>5, <1>6

\* Between two jobs nobody holds an index.
LEMMA HandedOutIdle ==
  ASSUME Typed, HandedOut, NEW w \in Worker, Quit(w) \/ Poll(w) \/ Spin(w) \/ Notice(w) \/ Take(w)
  PROVE  HandedOut'
<1>1. UNCHANGED <<jobs, index, log>>
  BY DEF Quit, Poll, Spin, Notice, Take
<1>2. \A u \in Thread \ {w} : pc'[u] = pc[u] /\ mine'[u] = mine[u]
  BY DEF Quit, Poll, Spin, Notice, Take, Typed, PoolTypeOK
<1>3. ~Busy(w)' /\ w \in Thread
  BY DEF Quit, Poll, Spin, Notice, Take, Busy, Typed, PoolTypeOK, Thread
<1>4. QED
  BY <1>1, <1>2, <1>3 DEF HandedOut, Busy, All, jobs, log

\* The caller lends transactions that nobody was handed yet.
LEMMA HandedOutCaller ==
  ASSUME Typed, HandedOut,
         \/ \E n \in 0 .. MaxTxs : Publish(n)
         \/ Announce \/ RunF \/ Panic \/ Wait \/ Return \/ Drop
  PROVE  HandedOut'
<1>0. Caller \in Thread /\ pc \in [Thread -> Place] /\ mine \in [Thread -> 0 .. MaxCalls]
  BY DEF Typed, PoolTypeOK, Thread
<1>1. ASSUME NEW n \in 0 .. MaxTxs, Publish(n) PROVE HandedOut'
  <2>1. UNCHANGED <<next, index, recovered, counted>> /\ calls' = calls + 1 /\ calls \in Nat
    BY <1>1 DEF Publish, Typed, PoolTypeOK
  <2>2. \A u \in Thread \ {Caller} : pc'[u] = pc[u] /\ mine'[u] = mine[u]
    BY <1>0, <1>1 DEF Publish
  <2>3. ~Busy(Caller)'
    BY <1>0, <1>1 DEF Publish, Busy
  <2>4. \A k \in Call : k <= calls => size'[k] = size[k]
    BY <1>1, <2>1 DEF Publish, Typed, PoolTypeOK, Call
  <2>5. \A u \in Thread : Busy(u) => mine[u] \in Call /\ mine[u] <= calls
    BY InJob DEF Busy
  <2>6. \A k \in Call : k > calls => recovered[k] = {}
    <3>1. SUFFICES ASSUME NEW k \in Call, k > calls, NEW i \in recovered[k] PROVE FALSE
      OBVIOUS
    <3>2. i \in Nat /\ i < next[k] /\ next[k] = 0
      BY <3>1 DEF HandedOut, Typed, PoolTypeOK, Index
    <3>3. QED
      BY <3>2
  <2>7. \A k \in Call : recovered[k] \subseteq All(k)'
    <3>1. SUFFICES ASSUME NEW k \in Call PROVE recovered[k] \subseteq All(k)'
      OBVIOUS
    <3>2. k <= calls \/ k > calls
      BY <2>1 DEF Call
    <3>3. QED
      BY <2>4, <2>6, <3>2 DEF HandedOut, All
  <2>8. \A k \in Call : k > calls' => k > calls
    BY <2>1 DEF Call
  <2>9. QED
    BY <2>1, <2>2, <2>3, <2>4, <2>5, <2>7, <2>8 DEF HandedOut, Busy, All
<1>2. CASE Announce \/ RunF \/ Panic \/ Wait \/ Return \/ Drop
  <2>1. UNCHANGED <<size, next, index, calls, recovered, counted>>
    BY <1>2 DEF Announce, RunF, Panic, Wait, Return, Drop, jobs, log
  <2>2. \A u \in Thread \ {Caller} : pc'[u] = pc[u] /\ mine'[u] = mine[u]
    BY <1>0, <1>2 DEF Announce, RunF, Panic, Wait, Return, Drop
  <2>3. ~Busy(Caller)'
    BY <1>0, <1>2 DEF Announce, RunF, Panic, Wait, Return, Drop, Busy
  <2>4. QED
    BY <2>1, <2>2, <2>3 DEF HandedOut, Busy, All
<1>3. QED
  BY <1>1, <1>2

\* Every step keeps it.
LEMMA HandedOutNext == Typed /\ HandedOut /\ [Next]_vars => HandedOut'
<1>. SUFFICES ASSUME Typed, HandedOut, [Next]_vars PROVE HandedOut'
  OBVIOUS
<1>1. CASE Next
  BY <1>1, HandedOutClaim, HandedOutDone, HandedOutIdle, HandedOutCaller
  DEF Next, WorkerStep, CallStep, Work, Thread
<1>2. CASE UNCHANGED vars
  BY <1>2 DEF vars, pool, jobs, threads, log, HandedOut, Busy, All
<1>3. QED
  BY <1>1, <1>2

\* It holds throughout.
LEMMA HandedOutAlways == Spec => []HandedOut
  BY HandedOutInit, TypedAlways, HandedOutNext, PTL DEF Spec

(***************************************************************************)
(* However many threads race for the indices of a job (codec.rs:419-427),  *)
(* and whether or not the caller is still there, no two of them work on    *)
(* one transaction and none is recovered again.                            *)
(***************************************************************************)
THEOREM HandedOutCorrect == Spec => []HandedOutOnce
<1>1. HandedOut => HandedOutOnce
  BY DEF HandedOut, HandedOutOnce
<1>2. QED
  BY <1>1, HandedOutAlways, PTL

-----------------------------------------------------------------------------
(* Lemmas about the counter *)

\* The indices of a call: a finite set, as large as the call.
LEMMA AllIndices ==
  ASSUME Typed, NEW k \in Call
  PROVE  IsFiniteSet(All(k)) /\ Cardinality(All(k)) = size[k]
<1>1. size[k] \in Nat
  BY SizeAssumption DEF Typed, PoolTypeOK
<1>2. 0 \in Int /\ size[k] - 1 \in Int
  BY <1>1
<1>3. /\ IsFiniteSet(0 .. size[k] - 1)
      /\ Cardinality(0 .. size[k] - 1) = IF 0 > size[k] - 1 THEN 0 ELSE size[k] - 1 - 0 + 1
  BY <1>2, FS_Interval
<1>4. Cardinality(0 .. size[k] - 1) = size[k]
  BY <1>1, <1>3
<1>5. QED
  BY <1>3, <1>4 DEF All

\* What is done is among the indices of the call, and finite.
LEMMA DoneIndices ==
  ASSUME Typed, HandedOut, NEW k \in Call
  PROVE  counted[k] \subseteq All(k) /\ IsFiniteSet(counted[k])
<1>1. counted[k] \subseteq All(k)
  BY DEF HandedOut
<1>2. QED
  BY <1>1, AllIndices, FS_Subset

\* Nothing is done at first.
LEMMA CountedInit == Init => Counted
  BY CallerAssumption, FS_EmptySet DEF Init, Counted, Thread

\* An index that is done is counted once.
LEMMA CountedCount ==
  ASSUME Typed, HandedOut, Counted, NEW t \in Thread, Count(t)
  PROVE  Counted'
<1>1. mine[t] \in Call
  BY InJob DEF Count
<1>2. index[t] \in All(mine[t]) /\ index[t] \notin counted[mine[t]]
  BY DEF Count, Busy, HandedOut
<1>3. UNCHANGED <<size, calls, returned>>
  BY DEF Count
<1>4. done \in [Call -> Nat] /\ counted \in [Call -> SUBSET Index]
  BY DEF Typed, PoolTypeOK
<1>5. \A k \in Call : /\ done'[k] = IF k = mine[t] THEN done[k] + 1 ELSE done[k]
                      /\ counted'[k] = IF k = mine[t] THEN counted[k] \cup {index[t]} ELSE counted[k]
  BY <1>4 DEF Count
<1>6. Cardinality(counted[mine[t]] \cup {index[t]}) = Cardinality(counted[mine[t]]) + 1
  BY <1>1, <1>2, DoneIndices, FS_AddElement
<1>7. \A k \in Call : done'[k] = Cardinality(counted'[k])
  BY <1>1, <1>5, <1>6 DEF Counted
<1>8. \A k \in Call : counted[k] = All(k) => counted'[k] = All(k)
  BY <1>2, <1>5
<1>9. pc'[Caller] = "clearing" => pc[Caller] = "clearing" /\ calls \in Call
  BY DEF Count, Typed, PoolTypeOK, Thread, Call
<1>10. \A k \in Call : All(k)' = All(k)
  BY <1>3 DEF All
<1>11. returned \subseteq Call
  BY DEF Typed, PoolTypeOK
<1>12. QED
  BY <1>3, <1>7, <1>8, <1>9, <1>10, <1>11 DEF Counted, All

\* When the counter reaches the size of the call, every index is done.
LEMMA CountedWait ==
  ASSUME Typed, HandedOut, Counted, Wait
  PROVE  Counted'
<1>1. calls \in Call /\ size[calls] \in Nat /\ done[calls] \in Nat
  BY SizeAssumption DEF Wait, Typed, PoolTypeOK, Call
<1>2. counted[calls] \subseteq All(calls) /\ Cardinality(counted[calls]) <= Cardinality(All(calls))
  BY <1>1, DoneIndices, AllIndices, FS_Subset
<1>3. Cardinality(counted[calls]) = Cardinality(All(calls))
  BY <1>1, <1>2, AllIndices DEF Wait, AllDone, Counted
<1>4. counted[calls] = All(calls)
  BY <1>1, <1>2, <1>3, AllIndices, FS_Subset
<1>5. UNCHANGED <<size, done, calls, counted, returned>>
  BY DEF Wait, jobs, log
<1>6. QED
  BY <1>4, <1>5 DEF Counted, All

\* The other steps count nothing.
LEMMA CountedOther ==
  ASSUME Typed, HandedOut, Counted,
         \/ \E t \in Thread : Claim(t) \/ Follow(t)
         \/ \E w \in Worker : Quit(w) \/ Poll(w) \/ Spin(w) \/ Notice(w) \/ Take(w)
         \/ Announce \/ RunF \/ Panic \/ Drop
  PROVE  Counted'
<1>1. UNCHANGED <<size, done, calls, counted, returned>>
  BY DEF Claim, Follow, Quit, Poll, Spin, Notice, Take, Announce, RunF, Panic, Drop, jobs, log
<1>2. pc'[Caller] = "clearing" => pc[Caller] = "clearing"
  <2>1. pc \in [Thread -> Place] /\ Caller \in Thread
    BY DEF Typed, PoolTypeOK, Thread
  <2>2. CASE \E t \in Thread : Claim(t) \/ Follow(t)
    BY <2>1, <2>2 DEF Claim, Follow
  <2>3. CASE \E w \in Worker : Quit(w) \/ Poll(w) \/ Spin(w) \/ Notice(w) \/ Take(w)
    BY <2>1, <2>3 DEF Quit, Poll, Spin, Notice, Take
  <2>4. CASE Announce \/ RunF \/ Panic \/ Drop
    BY <2>1, <2>4 DEF Announce, RunF, Panic, Drop
  <2>5. QED
    BY <2>2, <2>3, <2>4
<1>3. QED
  BY <1>1, <1>2 DEF Counted, All

\* A call starts with nothing done, and returns with everything done.
LEMMA CountedCall ==
  ASSUME Typed, HandedOut, Counted, (\E n \in 0 .. MaxTxs : Publish(n)) \/ Return
  PROVE  Counted'
<1>1. returned \subseteq Call /\ \A k \in returned : k <= calls
  BY DEF Typed, PoolTypeOK
<1>2. ASSUME NEW n \in 0 .. MaxTxs, Publish(n) PROVE Counted'
  <2>1. UNCHANGED <<done, counted, returned>> /\ pc'[Caller] # "clearing"
    BY <1>2 DEF Publish, Typed, PoolTypeOK, Thread
  <2>2. \A k \in returned : size'[k] = size[k]
    BY <1>1, <1>2 DEF Publish, Typed, PoolTypeOK, Call
  <2>3. QED
    BY <2>1, <2>2 DEF Counted, All
<1>3. CASE Return
  <2>1. UNCHANGED <<size, done, calls, counted>> /\ pc'[Caller] # "clearing"
    BY <1>3 DEF Return, jobs, Typed, PoolTypeOK, Thread
  <2>2. counted[calls] = All(calls) /\ returned' = returned \cup {calls}
    BY <1>3 DEF Return, Counted
  <2>3. QED
    BY <2>1, <2>2 DEF Counted, All
<1>4. QED
  BY <1>2, <1>3

\* Every step keeps it.
LEMMA CountedNext == Typed /\ HandedOut /\ Counted /\ [Next]_vars => Counted'
<1>. SUFFICES ASSUME Typed, HandedOut, Counted, [Next]_vars PROVE Counted'
  OBVIOUS
<1>1. CASE Next
  BY <1>1, CountedCount, CountedWait, CountedOther, CountedCall
  DEF Next, WorkerStep, CallStep, Work, Thread
<1>2. CASE UNCHANGED vars
  BY <1>2 DEF vars, pool, jobs, threads, log, Counted, All
<1>3. QED
  BY <1>1, <1>2

\* It holds throughout.
LEMMA CountedAlways == Spec => []Counted
  BY CountedInit, TypedAlways, HandedOutAlways, CountedNext, PTL DEF Spec

(***************************************************************************)
(* recover_while returns only with every sender recovered, whoever         *)
(* recovered it (codec.rs:501-507), also after an earlier call unwound.    *)
(***************************************************************************)
THEOREM ReturnedCorrect == Spec => []ReturnsRecovered
<1>1. Typed /\ HandedOut /\ Counted => ReturnsRecovered
  <2>. SUFFICES ASSUME Typed, HandedOut, Counted, NEW k \in returned PROVE recovered[k] = All(k)
    BY DEF ReturnsRecovered
  <2>1. k \in Call /\ counted[k] = All(k)
    BY DEF Typed, PoolTypeOK, Counted
  <2>2. counted[k] \subseteq recovered[k] /\ recovered[k] \subseteq All(k)
    BY <2>1 DEF HandedOut
  <2>3. QED
    BY <2>1, <2>2
<1>2. QED
  BY <1>1, TypedAlways, HandedOutAlways, CountedAlways, PTL

(***************************************************************************)
(* A call that returned left no thread with one of its transactions        *)
(* (codec.rs:424-425 and 503), also if an earlier call unwound.            *)
(***************************************************************************)
THEOREM LoanCorrect == Spec => []LoanEnds
<1>1. HandedOut /\ Counted => LoanEnds
  <2>. SUFFICES ASSUME HandedOut, Counted, NEW t \in Thread, Busy(t), mine[t] \in returned PROVE FALSE
    BY DEF LoanEnds
  <2>1. index[t] \in All(mine[t]) /\ index[t] \notin counted[mine[t]]
    BY DEF HandedOut
  <2>2. QED
    BY <2>1 DEF Counted
<1>2. QED
  BY <1>1, HandedOutAlways, CountedAlways, PTL

-----------------------------------------------------------------------------
(* Lemmas about calls that are over *)

\* Before the first call there is nothing to settle.
LEMMA SettledInit == Init => Settled
  BY DEF Init, Settled, Call

\* Every step keeps it, unless f() panics.
LEMMA SettledNext ==
  ASSUME ~FMayPanic
  PROVE  Typed /\ Settled /\ [Next]_vars => Settled'
<1>. SUFFICES ASSUME Typed, Settled, [Next]_vars PROVE Settled'
  OBVIOUS
<1>0. Caller \in Thread /\ pc \in [Thread -> Place] /\ calls \in Nat
  BY DEF Typed, PoolTypeOK, Thread
<1>1. ASSUME NEW n \in 0 .. MaxTxs, Publish(n) PROVE Settled'
  <2>1. pc[Caller] = "outside" /\ pc'[Caller] = "published"
    BY <1>0, <1>1 DEF Publish
  <2>2. job' = calls + 1 /\ calls' = calls + 1 /\ returned' = returned
    BY <1>1 DEF Publish
  <2>3. \A k \in Call : k <= calls => k \in returned
    BY <2>1 DEF Settled, Borrowed
  <2>4. \A k \in Call : k <= calls + 1 => k <= calls \/ k = calls + 1
    BY <1>0 DEF Call
  <2>5. QED
    BY <2>1, <2>2, <2>3, <2>4 DEF Settled, Borrowed
<1>2. CASE Return
  <2>1. job' = 0 /\ returned' = returned \cup {calls} /\ calls' = calls
    BY <1>2 DEF Return
  <2>2. QED
    BY <2>1 DEF Settled, Borrowed
<1>3. CASE Drop
  <2>1. pc[Caller] = "outside" /\ UNCHANGED <<calls, job, returned>>
    BY <1>3 DEF Drop, log
  <2>2. QED
    BY <2>1 DEF Settled, Borrowed
<1>4. CASE \/ \E t \in Thread : Work(t)
           \/ \E w \in Worker : Quit(w) \/ Poll(w) \/ Spin(w) \/ Notice(w) \/ Take(w)
           \/ Announce \/ RunF \/ Wait \/ UNCHANGED vars
  <2>1. UNCHANGED <<calls, job, returned>>
    BY <1>4 DEF Work, Claim, Follow, Count, Quit, Poll, Spin, Notice, Take, Announce, RunF, Wait,
         vars, pool, log
  <2>2. pc[Caller] \notin {"outside", "dropped"} => pc'[Caller] \notin {"outside", "dropped"}
    BY <1>0, <1>4 DEF Work, Claim, Follow, Count, Quit, Poll, Spin, Notice, Take, Announce, RunF, Wait,
         vars, threads
  <2>3. QED
    BY <2>1, <2>2 DEF Settled, Borrowed
<1>5. QED
  BY <1>1, <1>2, <1>3, <1>4 DEF Next, WorkerStep, CallStep, Panic, Thread

(***************************************************************************)
(* As long as the caller's own work does not panic, no thread follows a    *)
(* pointer whose transaction is no longer borrowed: the SAFETY comments at *)
(* codec.rs:412-413 and 424-425.                                           *)
(***************************************************************************)
THEOREM FollowsCorrect ==
  ASSUME ~FMayPanic
  PROVE  Spec => []FollowsBorrowed
<1>1. Typed /\ HandedOut /\ Counted /\ Settled => FollowsBorrowed
  <2>. SUFFICES ASSUME Typed, HandedOut, Counted, Settled,
                       NEW t \in Thread, pc[t] = "following", ~Borrowed(mine[t])
                PROVE  FALSE
    BY DEF FollowsBorrowed
  <2>1. mine[t] \in Call /\ mine[t] <= calls
    BY InJob
  <2>2. mine[t] \in returned
    BY <2>1 DEF Settled
  <2>3. index[t] \in All(mine[t]) /\ index[t] \notin counted[mine[t]]
    BY DEF HandedOut, Busy
  <2>4. QED
    BY <2>2, <2>3 DEF Counted
<1>2. Spec => []Settled
  BY SettledInit, TypedAlways, SettledNext, PTL DEF Spec
<1>3. QED
  BY <1>1, <1>2, TypedAlways, HandedOutAlways, CountedAlways, PTL
=============================================================================

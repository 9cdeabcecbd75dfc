----------------------------- MODULE SenderPool -----------------------------
(***************************************************************************)
(* Threads that spin until a caller publishes transactions, and recover    *)
(* their senders together with the caller (SenderPool and Job,             *)
(* src/src/codec.rs).                                                      *)
(*                                                                         *)
(* The caller lends the transactions to threads that outlive the call, by  *)
(* raw pointers: nothing but the counters `next` and `done` keeps a thread *)
(* from following a pointer after the call.  A step is one atomic access,  *)
(* one lock, or one recovery.                                              *)
(*                                                                         *)
(* A call is known by its number, its transactions by their indices.  The  *)
(* pool is used by one caller at a time (&mut self), and wakes up with     *)
(* copies of a sample between calls; the sample borrows nothing and is     *)
(* left out.                                                               *)
(***************************************************************************)
EXTENDS Integers, FiniteSets

(* An operator named Wrong... is the definition after it with one plausible *)
(* mistake, there to be put in its place; nothing uses it.                  *)

CONSTANTS
  Worker,       \* the spinning threads
  Caller,       \* the thread that calls recover_while
  FMayPanic,    \* whether the caller's own work may panic
  MaxCalls,     \* bound: calls made
  MaxTxs        \* bound: transactions lent by one call

ASSUME CallerAssumption == Caller \notin Worker
ASSUME PanicAssumption == FMayPanic \in BOOLEAN
ASSUME SizeAssumption == MaxCalls \in Nat /\ MaxTxs \in Nat \ {0}

VARIABLES
  \* struct SenderPool
  epoch,        \* how many calls were announced
  job,          \* the call in the slot, 0 for none
  stop,         \* whether the pool was dropped
  \* struct Job, for every call
  size,         \* txs.len()
  next,         \* the next index to hand out
  done,         \* how many indices are done
  \* the threads
  pc,           \* where each of them is
  noticed,      \* per worker: the epoch it saw last
  mine,         \* the call it works for, 0 for none
  index,        \* the index it was handed
  \* history
  calls,        \* calls made
  recovered,    \* per call: the indices whose sender is cached
  counted,      \* per call: the indices that are done
  returned      \* the calls that returned

pool == <<epoch, job, stop>>
jobs == <<size, next, done>>
threads == <<pc, noticed, mine, index>>
log == <<calls, recovered, counted, returned>>
vars == <<pool, jobs, threads, log>>

-----------------------------------------------------------------------------
Thread == Worker \cup {Caller}
Call == 1 .. MaxCalls
Index == 0 .. MaxTxs - 1
Place == {"outside", "published", "running", "waiting", "clearing", "dropped",
          "polling", "loading", "taking", "ended",
          "claiming", "following", "counting"}

\* All the indices of call k.
All(k) == 0 .. size[k] - 1

\* The caller still borrows the transactions of call k.
Borrowed(k) == k = calls /\ pc[Caller] \notin {"outside", "dropped"}

\* A thread that was handed an index and is not done with it.
Busy(t) == pc[t] \in {"following", "counting"}

-----------------------------------------------------------------------------
(* Job::work, on the caller's thread or a worker's *)

\* Wrong: one index too many is handed out.
WrongIsIndexPastEnd(k, i) == i <= size[k]

\* txs.get(i) is there.
IsIndex(k, i) == i < size[k]

\* Wrong: the next index is read but not taken.
WrongClaimUntaken(t) ==
  LET k == mine[t] IN
  /\ pc[t] = "claiming"
  /\ IF IsIndex(k, next[k])
     THEN /\ index' = [index EXCEPT ![t] = next[k]]
          /\ pc' = [pc EXCEPT ![t] = "following"]
          /\ UNCHANGED mine
     ELSE /\ pc' = [pc EXCEPT ![t] = IF t = Caller THEN "waiting" ELSE "polling"]
          /\ mine' = [mine EXCEPT ![t] = IF t = Caller THEN k ELSE 0]
          /\ UNCHANGED index
  /\ UNCHANGED <<pool, jobs, noticed, log>>

\* Take the next index.  Past the end, leave the job: a worker forgets it.
Claim(t) ==
  LET k == mine[t] IN
  /\ pc[t] = "claiming"
  /\ next' = [next EXCEPT ![k] = @ + 1]
  /\ IF IsIndex(k, next[k])
     THEN /\ index' = [index EXCEPT ![t] = next[k]]
          /\ pc' = [pc EXCEPT ![t] = "following"]
          /\ UNCHANGED mine
     ELSE /\ pc' = [pc EXCEPT ![t] = IF t = Caller THEN "waiting" ELSE "polling"]
          /\ mine' = [mine EXCEPT ![t] = IF t = Caller THEN k ELSE 0]
          /\ UNCHANGED index
  /\ UNCHANGED <<pool, size, done, noticed, log>>

\* Follow the pointer and recover the sender.
Follow(t) ==
  /\ pc[t] = "following"
  /\ recovered' = [recovered EXCEPT ![mine[t]] = @ \cup {index[t]}]
  /\ pc' = [pc EXCEPT ![t] = "counting"]
  /\ UNCHANGED <<pool, jobs, noticed, mine, index, calls, counted, returned>>

\* Tell the caller.
Count(t) ==
  /\ pc[t] = "counting"
  /\ done' = [done EXCEPT ![mine[t]] = @ + 1]
  /\ counted' = [counted EXCEPT ![mine[t]] = @ \cup {index[t]}]
  /\ pc' = [pc EXCEPT ![t] = "claiming"]
  /\ UNCHANGED <<pool, size, next, noticed, mine, index, calls, recovered, returned>>

Work(t) == Claim(t) \/ Follow(t) \/ Count(t)

-----------------------------------------------------------------------------
(* A spinning thread: SenderPool::new *)

\* Wrong: a thread only looks at stop when there is a new job.
WrongQuitOnNewJob(w) ==
  /\ pc[w] = "polling" /\ stop /\ epoch # noticed[w]
  /\ pc' = [pc EXCEPT ![w] = "ended"]
  /\ UNCHANGED <<pool, jobs, noticed, mine, index, log>>

\* The pool was dropped.
Quit(w) ==
  /\ pc[w] = "polling" /\ stop
  /\ pc' = [pc EXCEPT ![w] = "ended"]
  /\ UNCHANGED <<pool, jobs, noticed, mine, index, log>>

\* It was not: look at the epoch.
Poll(w) ==
  /\ pc[w] = "polling" /\ ~stop
  /\ pc' = [pc EXCEPT ![w] = "loading"]
  /\ UNCHANGED <<pool, jobs, noticed, mine, index, log>>

\* Nothing new: spin.
Spin(w) ==
  /\ pc[w] = "loading" /\ epoch = noticed[w]
  /\ pc' = [pc EXCEPT ![w] = "polling"]
  /\ UNCHANGED <<pool, jobs, noticed, mine, index, log>>

\* A call was announced.
Notice(w) ==
  /\ pc[w] = "loading" /\ epoch # noticed[w]
  /\ noticed' = [noticed EXCEPT ![w] = epoch]
  /\ pc' = [pc EXCEPT ![w] = "taking"]
  /\ UNCHANGED <<pool, jobs, mine, index, log>>

\* Take what the slot holds by now: the call announced, the one after, or none.
Take(w) ==
  /\ pc[w] = "taking"
  /\ mine' = [mine EXCEPT ![w] = job]
  /\ pc' = [pc EXCEPT ![w] = IF job = 0 THEN "polling" ELSE "claiming"]
  /\ UNCHANGED <<pool, jobs, noticed, index, log>>

-----------------------------------------------------------------------------
(* The caller: SenderPool::recover_while and Drop *)

\* Lend n transactions and put them into the slot.
Publish(n) ==
  /\ pc[Caller] = "outside" /\ calls < MaxCalls
  /\ calls' = calls + 1
  /\ size' = [size EXCEPT ![calls + 1] = n]
  /\ job' = calls + 1
  /\ mine' = [mine EXCEPT ![Caller] = calls + 1]
  /\ pc' = [pc EXCEPT ![Caller] = "published"]
  /\ UNCHANGED <<epoch, stop, next, done, noticed, index, recovered, counted, returned>>

\* Announce them.
Announce ==
  /\ pc[Caller] = "published"
  /\ epoch' = epoch + 1
  /\ pc' = [pc EXCEPT ![Caller] = "running"]
  /\ UNCHANGED <<job, stop, jobs, noticed, mine, index, log>>

\* The caller's own work f() is done: join the others.
RunF ==
  /\ pc[Caller] = "running"
  /\ pc' = [pc EXCEPT ![Caller] = "claiming"]
  /\ UNCHANGED <<pool, jobs, noticed, mine, index, log>>

\* f() panics, and the call unwinds from there.
Panic ==
  /\ FMayPanic
  /\ pc[Caller] = "running"
  /\ pc' = [pc EXCEPT ![Caller] = "outside"]
  /\ mine' = [mine EXCEPT ![Caller] = 0]
  /\ UNCHANGED <<pool, jobs, noticed, index, log>>

\* Wrong: wait until every index is handed out.
WrongAllHandedOut(k) == next[k] >= size[k]

\* Wrong: wait for as many as were handed out, the ones past the end included.
WrongAllClaimed(k) == done[k] >= next[k]

AllDone(k) == done[k] >= size[k]

\* Every index is done.
Wait ==
  /\ pc[Caller] = "waiting" /\ AllDone(calls)
  /\ pc' = [pc EXCEPT ![Caller] = "clearing"]
  /\ UNCHANGED <<pool, jobs, noticed, mine, index, log>>

\* Empty the slot and return.
Return ==
  /\ pc[Caller] = "clearing"
  /\ job' = 0
  /\ returned' = returned \cup {calls}
  /\ mine' = [mine EXCEPT ![Caller] = 0]
  /\ pc' = [pc EXCEPT ![Caller] = "outside"]
  /\ UNCHANGED <<epoch, stop, jobs, noticed, index, calls, recovered, counted>>

\* The pool is dropped between two calls.
Drop ==
  /\ pc[Caller] = "outside"
  /\ stop' = TRUE
  /\ pc' = [pc EXCEPT ![Caller] = "dropped"]
  /\ UNCHANGED <<epoch, job, jobs, noticed, mine, index, log>>

-----------------------------------------------------------------------------
Init ==
  /\ epoch = 0 /\ job = 0 /\ stop = FALSE
  /\ size = [k \in Call |-> 0] /\ next = [k \in Call |-> 0] /\ done = [k \in Call |-> 0]
  /\ pc = [t \in Thread |-> IF t = Caller THEN "outside" ELSE "polling"]
  /\ noticed = [w \in Worker |-> 0]
  /\ mine = [t \in Thread |-> 0]
  /\ index = [t \in Thread |-> 0]
  /\ calls = 0 /\ returned = {}
  /\ recovered = [k \in Call |-> {}] /\ counted = [k \in Call |-> {}]

WorkerStep(w) == Work(w) \/ Quit(w) \/ Poll(w) \/ Spin(w) \/ Notice(w) \/ Take(w)

CallStep == Work(Caller) \/ Announce \/ RunF \/ Panic \/ Wait \/ Return

Next ==
  \/ \E w \in Worker : WorkerStep(w)
  \/ CallStep
  \/ \E n \in 0 .. MaxTxs : Publish(n)
  \/ Drop

Spec == Init /\ [][Next]_vars

\* The operating system runs every thread again, and f() ends.
FairSpec == Spec /\ WF_vars(CallStep) /\ \A w \in Worker : WF_vars(WorkerStep(w))

-----------------------------------------------------------------------------
(* Properties *)

\* Every variable holds a value of its type; an index handed out is one of a
\* transaction.
PoolTypeOK ==
  /\ epoch \in Nat /\ job \in 0 .. MaxCalls /\ stop \in BOOLEAN
  /\ size \in [Call -> 0 .. MaxTxs] /\ next \in [Call -> Nat] /\ done \in [Call -> Nat]
  /\ pc \in [Thread -> Place]
  /\ noticed \in [Worker -> Nat]
  /\ mine \in [Thread -> 0 .. MaxCalls]
  /\ index \in [Thread -> Index]
  /\ calls \in 0 .. MaxCalls /\ returned \subseteq Call
  /\ recovered \in [Call -> SUBSET Index] /\ counted \in [Call -> SUBSET Index]

\* A pointer is only followed while the caller still borrows the transactions.
FollowsBorrowed == \A t \in Thread : pc[t] = "following" => Borrowed(mine[t])

\* Once a call returned, no thread holds a transaction it lent, nor ever will.
LoanEnds == \A t \in Thread : Busy(t) => mine[t] \notin returned

\* No two threads work on one transaction, and none is recovered again.
HandedOutOnce ==
  \A t \in Thread :
    /\ pc[t] = "following" => index[t] \notin recovered[mine[t]]
    /\ \A u \in Thread \ {t} : Busy(t) /\ Busy(u) /\ mine[t] = mine[u] => index[t] # index[u]

\* A call returns only with every sender recovered.
ReturnsRecovered == \A k \in returned : recovered[k] = All(k)

\* Every call returns, though a thread may hold an index it is slow with, and
\* threads late from one call may join the next.
CallsReturn == pc[Caller] = "published" ~> pc[Caller] = "outside"

\* Dropping the pool ends its threads, wherever they were.
DropEndsThreads == stop ~> \A w \in Worker : pc[w] = "ended"
=============================================================================

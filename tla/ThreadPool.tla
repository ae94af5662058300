----------------------------- MODULE ThreadPool -----------------------------
(***************************************************************************)
(* The thread pool of WinPR (winpr/libwinpr/pool/pool.c, work.c) with its  *)
(* CountdownEvent, and the way the codecs use it (libfreerdp/codec/yuv.c,  *)
(* rfx.c): submit one piece of work per part of a frame, wait for all of   *)
(* them, free them.  PendingQueue is a FIFO queue with an event (module    *)
(* Queue shows that wQueue is one).  The countdown's counter is read and   *)
(* written under its lock only, so each of its operations is one step.     *)
(***************************************************************************)
EXTENDS Integers, Sequences, FiniteSets

CONSTANTS
  Works,       \* work objects (PTP_WORK)
  PoolThreads, \* worker threads; InitializeThreadpool creates StartThreads
  StartThreads,
  NoWork

ASSUME WorksAssumption == NoWork \notin Works /\ IsFiniteSet(Works)
ASSUME StartAssumption == StartThreads \subseteq PoolThreads /\ IsFiniteSet(PoolThreads)

VARIABLES
  pending,     \* PendingQueue
  hasPending,  \* its event
  count,       \* WorkComplete: the countdown's count
  complete,    \* ... and its event
  terminate,   \* TerminateEvent
  worker,      \* worker[w]: the place of w in thread_pool_work_func
  job,         \* job[w]: the work that w dequeued
  work,        \* work[x]: "free", "created", "submitted", or "done" once the callback has returned
  caller,      \* the caller: "idle", "adding", "waiting", "joining", "closed"
  adding       \* the work between CountdownEvent_AddCount and Queue_Enqueue

poolVars == <<pending, hasPending, count, complete, terminate, worker, job, work, caller, adding>>

PoolInit ==   \* CreateThreadpool
  /\ pending = <<>> /\ hasPending = FALSE
  /\ count = 0 /\ complete = TRUE
  /\ terminate = FALSE
  /\ worker = [w \in PoolThreads |-> IF w \in StartThreads THEN "wait" ELSE "none"]
  /\ job = [w \in PoolThreads |-> NoWork]
  /\ work = [x \in Works |-> "free"]
  /\ caller = "idle" /\ adding = NoWork

----------------------------------------------------------------------------
(* CountdownEvent.                                                         *)

CountdownEvent_AddCount == count' = count + 1 /\ complete' = FALSE

CountdownEvent_Signal ==
  /\ count' = IF count >= 1 THEN count - 1 ELSE 0
  /\ complete' = (complete \/ count' = 0)

----------------------------------------------------------------------------
(* The caller.                                                             *)

\* CreateThreadpoolWork, then SubmitThreadpoolWork up to the countdown.
SubmitCount(x) ==
  /\ caller = "idle" /\ work[x] = "free"
  /\ CountdownEvent_AddCount
  /\ work' = [work EXCEPT ![x] = "created"]
  /\ caller' = "adding" /\ adding' = x
  /\ UNCHANGED <<pending, hasPending, terminate, worker, job>>

\* ... and its Queue_Enqueue.
SubmitEnqueue ==
  /\ caller = "adding"
  /\ pending' = Append(pending, adding) /\ hasPending' = TRUE
  /\ work' = [work EXCEPT ![adding] = "submitted"]
  /\ caller' = "idle" /\ adding' = NoWork
  /\ UNCHANGED <<count, complete, terminate, worker, job>>

Unfreed == {x \in Works : work[x] # "free"}

\* WaitForThreadpoolWorkCallbacks is called once some work has been submitted.
Wait ==
  /\ caller = "idle" /\ Unfreed # {}
  /\ caller' = "waiting"
  /\ UNCHANGED <<pending, hasPending, count, complete, terminate, worker, job, work, adding>>

\* Mutated form of WaitReturns: the wait does not look at the event.
WaitReturnsAnyway ==
  /\ caller = "waiting"
  /\ work' = [x \in Works |-> "free"]
  /\ caller' = "idle"
  /\ UNCHANGED <<pending, hasPending, count, complete, terminate, worker, job, adding>>

\* Nobody else submits, so the waits for the other objects return at once and
\* CloseThreadpoolWork frees all of them.
WaitReturns ==
  /\ caller = "waiting" /\ complete
  /\ work' = [x \in Works |-> "free"]
  /\ caller' = "idle"
  /\ UNCHANGED <<pending, hasPending, count, complete, terminate, worker, job, adding>>

\* SetThreadpoolThreadMinimum adds a thread.
AddThread(w) ==
  /\ caller = "idle" /\ worker[w] = "none"
  /\ worker' = [worker EXCEPT ![w] = "wait"]
  /\ UNCHANGED <<pending, hasPending, count, complete, terminate, job, work, caller, adding>>

\* CloseThreadpool, which may find work in the queue when the caller left a
\* frame without waiting (rfx_encode_message after a failed allocation).
Close ==
  /\ caller = "idle"
  /\ terminate' = TRUE
  /\ caller' = "joining"
  /\ UNCHANGED <<pending, hasPending, count, complete, worker, job, work, adding>>

\* ArrayList_Free joins the threads (threads_close); the rest is freed, with
\* what is left in the queue.
Joined ==
  /\ caller = "joining" /\ \A w \in PoolThreads : worker[w] \in {"none", "exited"}
  /\ caller' = "closed"
  /\ UNCHANGED <<pending, hasPending, count, complete, terminate, worker, job, work, adding>>

----------------------------------------------------------------------------
(* thread_pool_work_func.                                                  *)

\* Mutated form of WakeUp: an event that resets itself when it wakes a thread.
WakeUpAutoReset(w) ==
  /\ worker[w] = "wait" /\ (terminate \/ hasPending)
  /\ worker' = [worker EXCEPT ![w] = IF terminate THEN "exited" ELSE "dequeue"]
  /\ terminate' = FALSE
  /\ UNCHANGED <<pending, hasPending, count, complete, job, work, caller, adding>>

\* WaitForMultipleObjects reports the first event that is set.
WakeUp(w) ==
  /\ worker[w] = "wait" /\ (terminate \/ hasPending)
  /\ worker' = [worker EXCEPT ![w] = IF terminate THEN "exited" ELSE "dequeue"]
  /\ UNCHANGED <<pending, hasPending, count, complete, terminate, job, work, caller, adding>>

\* Mutated form of Dequeue: the event is reset with every object taken.
DequeueReset(w) ==
  /\ worker[w] = "dequeue"
  /\ pending' = IF pending = <<>> THEN <<>> ELSE Tail(pending)
  /\ hasPending' = FALSE
  /\ job' = [job EXCEPT ![w] = IF pending = <<>> THEN NoWork ELSE Head(pending)]
  /\ worker' = [worker EXCEPT ![w] = IF pending = <<>> THEN "wait" ELSE "run"]
  /\ UNCHANGED <<count, complete, terminate, work, caller, adding>>

\* Another thread may have taken the object: then back to the wait.
Dequeue(w) ==
  /\ worker[w] = "dequeue"
  /\ pending' = IF pending = <<>> THEN <<>> ELSE Tail(pending)
  /\ hasPending' = (hasPending /\ pending' # <<>>)
  /\ job' = [job EXCEPT ![w] = IF pending = <<>> THEN NoWork ELSE Head(pending)]
  /\ worker' = [worker EXCEPT ![w] = IF pending = <<>> THEN "wait" ELSE "run"]
  /\ UNCHANGED <<count, complete, terminate, work, caller, adding>>

\* work->WorkCallback
RunWork(w) ==
  /\ worker[w] = "run"
  /\ work' = [work EXCEPT ![job[w]] = "done"]
  /\ worker' = [worker EXCEPT ![w] = "signal"]
  /\ UNCHANGED <<pending, hasPending, count, complete, terminate, job, caller, adding>>

Signal(w) ==
  /\ worker[w] = "signal"
  /\ CountdownEvent_Signal
  /\ job' = [job EXCEPT ![w] = NoWork]
  /\ worker' = [worker EXCEPT ![w] = "wait"]
  /\ UNCHANGED <<pending, hasPending, terminate, work, caller, adding>>

PoolWorker(w) == WakeUp(w) \/ Dequeue(w) \/ RunWork(w) \/ Signal(w)

PoolCaller == SubmitEnqueue \/ WaitReturns \/ Joined

PoolNext ==
  \/ \E x \in Works : SubmitCount(x)
  \/ PoolCaller \/ Wait \/ Close
  \/ \E w \in PoolThreads : AddThread(w) \/ PoolWorker(w)

PoolSpec == PoolInit /\ [][PoolNext]_poolVars

----------------------------------------------------------------------------
(* Properties.                                                             *)

\* The types of the pool's variables.
PoolTypeOK ==
  /\ pending \in Seq(Works) /\ hasPending \in BOOLEAN
  /\ count \in Nat /\ complete \in BOOLEAN /\ terminate \in BOOLEAN
  /\ worker \in [PoolThreads -> {"none", "wait", "dequeue", "run", "signal", "exited"}]
  /\ job \in [PoolThreads -> Works \cup {NoWork}]
  /\ work \in [Works -> {"free", "created", "submitted", "done"}]
  /\ caller \in {"idle", "adding", "waiting", "joining", "closed"}
  /\ adding \in Works \cup {NoWork}

Busy == {w \in PoolThreads : worker[w] \in {"run", "signal"}}

\* The countdown never says that the work is complete while some of it is
\* submitted and not yet reported, or about to be queued.
CountsOutstanding ==
  /\ count = Len(pending) + Cardinality(Busy) + (IF caller = "adding" THEN 1 ELSE 0)
  /\ complete <=> count = 0

\* The work objects, which the caller frees when its wait returns, are those of
\* callbacks that have returned: no thread runs one that is free, none will.
NoFreedWork ==
  /\ \A i \in 1..Len(pending) : work[pending[i]] = "submitted"
  /\ \A w \in PoolThreads : worker[w] = "run" => work[job[w]] = "submitted"

\* A thread does not sleep while there is work: each object in the queue keeps
\* the event set, although several threads may wake up for one object.
NoLostWakeUp == pending # <<>> => hasPending

\* CloseThreadpool returns after the last thread has left the pool.
ClosedIsQuiet ==
  caller = "closed" => \A w \in PoolThreads : worker[w] \in {"none", "exited"}

\* WaitForThreadpoolWorkCallbacks returns, whichever threads take the work.
WaitEnds == caller = "waiting" ~> caller = "idle"

\* CloseThreadpool returns, also with work left in the queue.
CloseEnds == caller = "joining" ~> caller = "closed"
=============================================================================

---------------------------- MODULE SynchProofs ----------------------------
(***************************************************************************)
(* Proofs about InitOnceExecuteOnce, the thread pool and the barrier, for  *)
(* any number of threads, pieces of work, rounds and failures.             *)
(***************************************************************************)
EXTENDS InitOnce, ThreadPool, Barrier, FiniteSetTheorems, TLAPS

----------------------------------------------------------------------------
(* InitOnce.                                                               *)

Initializing(t) == where[t] \in {"initFn", "store", "clear"}

\* The inductive invariant: Ptr is 1 just while one thread initializes, and it
\* is 2, or will be with the next step of that thread, just when InitFn has
\* succeeded.
OnceInv ==
  /\ ptr \in {0, 1, 2} /\ completed \in {0, 1}
  /\ where \in [OnceThreads -> {"outside", "switch", "exchange", "initFn", "store", "clear", "true", "false"}]
  /\ \A t, u \in OnceThreads : Initializing(t) /\ Initializing(u) => t = u
  /\ ptr = 1 <=> \E t \in OnceThreads : Initializing(t)
  /\ completed = 1 <=> (ptr = 2 \/ \E t \in OnceThreads : where[t] = "store")
  /\ \A t \in OnceThreads : where[t] = "true" => ptr = 2

\* InitOnce.Ptr, INIT_ONCE_STATIC_INIT: nobody initializes yet.
LEMMA OnceInitInv == OnceInit => OnceInv
  BY DEF OnceInit, OnceInv, Initializing

\* Every step of InitOnceExecuteOnce keeps the invariant.
LEMMA OnceStepInv == OnceInv /\ [OnceNext]_onceVars => OnceInv'
<1> SUFFICES ASSUME OnceInv, [OnceNext]_onceVars PROVE OnceInv'
  OBVIOUS
<1>1. CASE UNCHANGED onceVars
  BY <1>1 DEF onceVars, OnceInv, Initializing
<1>2. ASSUME NEW t \in OnceThreads, Switch(t) PROVE OnceInv'
  BY <1>2 DEF Switch, Move, OnceInv, Initializing
<1>3. ASSUME NEW t \in OnceThreads, Exchange(t) PROVE OnceInv'
  <2>1. CASE ptr = 0
    BY <1>3, <2>1 DEF Exchange, Move, OnceInv, Initializing
  <2>2. CASE ptr # 0
    BY <1>3, <2>2 DEF Exchange, Move, OnceInv, Initializing
  <2> QED BY <2>1, <2>2
<1>4. ASSUME NEW t \in OnceThreads, InitFnSucceeds(t) PROVE OnceInv'
  <2>1. ptr = 1 /\ completed = 0 /\ \A u \in OnceThreads : Initializing(u) => u = t
    BY <1>4 DEF InitFnSucceeds, OnceInv, Initializing
  <2> QED BY <1>4, <2>1 DEF InitFnSucceeds, Move, OnceInv, Initializing
<1>5. ASSUME NEW t \in OnceThreads, InitFnFails(t) PROVE OnceInv'
  BY <1>5 DEF InitFnFails, Move, OnceInv, Initializing
<1>6. ASSUME NEW t \in OnceThreads, Store(t) PROVE OnceInv'
  BY <1>6 DEF Store, Move, OnceInv, Initializing
<1>7. ASSUME NEW t \in OnceThreads, Clear(t) PROVE OnceInv'
  <2>1. ptr = 1 /\ \A u \in OnceThreads : Initializing(u) => u = t
    BY <1>7 DEF Clear, OnceInv, Initializing
  <2> QED BY <1>7, <2>1 DEF Clear, Move, OnceInv, Initializing
<1>8. ASSUME NEW t \in OnceThreads, CallExecuteOnce(t) PROVE OnceInv'
  BY <1>8 DEF CallExecuteOnce, Move, OnceInv, Initializing
<1> QED BY <1>1, <1>2, <1>3, <1>4, <1>5, <1>6, <1>7, <1>8 DEF OnceNext, OnceStep

\* At most one thread is in InitFn or on its way out of it, and Ptr is 1 just
\* then, for any number of threads that call InitOnceExecuteOnce.
THEOREM OneInitializerAlways == OnceSpec => []OneInitializer
<1>1. OnceInv => OneInitializer
  <2> SUFFICES ASSUME OnceInv PROVE OneInitializer
    OBVIOUS
  <2> DEFINE busy == {t \in OnceThreads : where[t] \in {"initFn", "store", "clear"}}
  <2>1. busy = {} \/ \E t \in OnceThreads : busy = {t}
    BY DEF OnceInv, Initializing
  <2>2. Cardinality(busy) <= 1
    <3>1. CASE busy = {}
      BY <3>1, FS_EmptySet
    <3>2. ASSUME NEW t \in OnceThreads, busy = {t} PROVE Cardinality(busy) <= 1
      <4>1. Cardinality({t}) = 1
        BY FS_Singleton
      <4> HIDE DEF busy
      <4> QED BY <3>2, <4>1
    <3> QED BY <2>1, <3>1, <3>2
  <2>3. ptr = 1 <=> busy # {}
    BY DEF OnceInv, Initializing
  <2> QED BY <2>2, <2>3 DEF OneInitializer
<1> QED BY <1>1, OnceInitInv, OnceStepInv, PTL DEF OnceSpec

\* InitFn succeeds at most once, and no call of InitOnceExecuteOnce returns TRUE
\* before it has, whatever the number of failures.
THEOREM InitializedOnceAlways == OnceSpec => []InitializedOnce
<1>1. OnceInv => InitializedOnce
  BY DEF OnceInv, InitializedOnce
<1> QED BY <1>1, OnceInitInv, OnceStepInv, PTL DEF OnceSpec

----------------------------------------------------------------------------
(* ThreadPool.                                                             *)

Running(w) == worker[w] = "run"

\* The inductive invariant.  An object is in the queue once, or with one thread:
\* otherwise one callback would mark as done what another has yet to run.
PoolInv ==
  /\ PoolTypeOK /\ CountsOutstanding /\ NoFreedWork /\ NoLostWakeUp /\ ClosedIsQuiet
  /\ caller = "adding" => adding \in Works /\ work[adding] = "created"
  /\ \A i, j \in 1..Len(pending) : pending[i] = pending[j] => i = j
  /\ \A w \in PoolThreads : Running(w) => job[w] \in Works
  /\ \A w, v \in PoolThreads : Running(w) /\ Running(v) /\ job[w] = job[v] => w = v
  /\ \A w \in PoolThreads : \A i \in 1..Len(pending) : Running(w) => job[w] # pending[i]

\* The threads that run something are finitely many.
LEMMA BusyFinite ==
  /\ IsFiniteSet(Busy) /\ Cardinality(Busy) \in Nat
  /\ Cardinality(Busy) = 0 <=> Busy = {}
<1>1. IsFiniteSet(PoolThreads) /\ Busy \subseteq PoolThreads
  BY StartAssumption DEF Busy
<1>2. IsFiniteSet(Busy)
  BY <1>1, FS_Subset
<1> QED BY <1>2, FS_CardinalityType, FS_EmptySet

\* CreateThreadpool: nothing is queued and nobody runs anything.
LEMMA PoolInitInv == PoolInit => PoolInv
<1> SUFFICES ASSUME PoolInit PROVE PoolInv
  OBVIOUS
<1>1. Busy = {}
  BY DEF PoolInit, Busy
<1>2. Cardinality(Busy) = 0
  BY <1>1, FS_EmptySet
<1>3. PoolTypeOK
  <2>1. worker \in [PoolThreads -> {"none", "wait", "dequeue", "run", "signal", "exited"}]
    BY DEF PoolInit
  <2>2. job \in [PoolThreads -> Works \cup {NoWork}] /\ work \in [Works -> {"free", "created", "submitted", "done"}]
    BY DEF PoolInit
  <2>3. hasPending \in BOOLEAN /\ complete \in BOOLEAN /\ terminate \in BOOLEAN
    BY Zenon DEF PoolInit
  <2> QED BY <2>1, <2>2, <2>3 DEF PoolInit, PoolTypeOK
<1>4. CountsOutstanding
  BY <1>2 DEF PoolInit, CountsOutstanding
<1> QED BY <1>3, <1>4, WorksAssumption DEF PoolInit, PoolInv, NoFreedWork, NoLostWakeUp, ClosedIsQuiet, Running

\* What CreateThreadpoolWork and SubmitThreadpoolWork do, in their two steps.
LEMMA SubmitInv ==
  ASSUME PoolInv, (\E x \in Works : SubmitCount(x)) \/ SubmitEnqueue
  PROVE  PoolInv'
<1>1. ASSUME NEW x \in Works, SubmitCount(x) PROVE PoolInv'
  <2>1. Busy' = Busy
    BY <1>1 DEF SubmitCount, Busy
  <2>2. PoolTypeOK'
    <3>1. complete' \in BOOLEAN /\ hasPending' \in BOOLEAN /\ terminate' \in BOOLEAN
      BY <1>1, Zenon DEF SubmitCount, CountdownEvent_AddCount, PoolInv, PoolTypeOK
    <3>2. count' \in Nat /\ work' \in [Works -> {"free", "created", "submitted", "done"}]
      BY <1>1 DEF SubmitCount, CountdownEvent_AddCount, PoolInv, PoolTypeOK
    <3> QED BY <1>1, <3>1, <3>2 DEF SubmitCount, PoolInv, PoolTypeOK
  <2>3. CountsOutstanding'
    BY <1>1, <2>1, BusyFinite
    DEF SubmitCount, CountdownEvent_AddCount, PoolInv, PoolTypeOK, CountsOutstanding
  <2>4. NoFreedWork'
    BY <1>1 DEF SubmitCount, PoolInv, PoolTypeOK, NoFreedWork, Running
  <2> QED BY <1>1, <2>2, <2>3, <2>4 DEF SubmitCount, PoolInv, PoolTypeOK, NoLostWakeUp, ClosedIsQuiet, Running
<1>2. CASE SubmitEnqueue
  <2> DEFINE n == Len(pending)
  <2>1. /\ adding \in Works /\ pending \in Seq(Works) /\ n \in Nat
        /\ pending' \in Seq(Works) /\ Len(pending') = n + 1 /\ pending'[n + 1] = adding
        /\ \A i \in 1..n : pending'[i] = pending[i]
    BY <1>2 DEF SubmitEnqueue, PoolInv, PoolTypeOK
  <2> HIDE DEF n
  <2>2. /\ \A i \in 1..n : pending[i] \in Works /\ pending[i] # adding
        /\ \A w \in PoolThreads : Running(w) => job[w] # adding
    BY <1>2, <2>1 DEF SubmitEnqueue, PoolInv, PoolTypeOK, NoFreedWork, Running, n
  <2>3. Busy' = Busy
    BY <1>2 DEF SubmitEnqueue, Busy
  <2>4. PoolTypeOK'
    BY <1>2, <2>1 DEF SubmitEnqueue, PoolInv, PoolTypeOK
  <2>5. CountsOutstanding'
    BY <1>2, <2>1, <2>3, BusyFinite
    DEF SubmitEnqueue, PoolInv, PoolTypeOK, CountsOutstanding, n
  <2>6. \A i \in 1..(n + 1) : pending'[i] \in Works /\ work'[pending'[i]] = "submitted"
    BY <1>2, <2>1, <2>2 DEF SubmitEnqueue, PoolInv, PoolTypeOK, NoFreedWork, n
  <2>7. NoFreedWork'
    BY <1>2, <2>1, <2>2, <2>6 DEF SubmitEnqueue, PoolInv, PoolTypeOK, NoFreedWork, Running
  <2>8. \A i, j \in 1..(n + 1) : pending'[i] = pending'[j] => i = j
    BY <2>1, <2>2 DEF PoolInv, n
  <2>9. \A w \in PoolThreads : \A i \in 1..(n + 1) : Running(w) => job[w] # pending'[i]
    BY <2>1, <2>2 DEF PoolInv, n
  <2>10. \A w \in PoolThreads : Running(w)' = Running(w) /\ job'[w] = job[w]
    BY <1>2 DEF SubmitEnqueue, Running
  <2>11. NoLostWakeUp' /\ ClosedIsQuiet' /\ caller' # "adding"
    BY <1>2 DEF SubmitEnqueue, PoolInv, NoLostWakeUp, ClosedIsQuiet
  <2> QED BY <2>1, <2>4, <2>5, <2>7, <2>8, <2>9, <2>10, <2>11 DEF PoolInv
<1> QED BY <1>1, <1>2

\* The caller's other steps: it waits, frees what is done, adds threads, closes.
LEMMA CallerInv ==
  ASSUME PoolInv, Wait \/ WaitReturns \/ (\E w \in PoolThreads : AddThread(w)) \/ Close \/ Joined
  PROVE  PoolInv'
<1>1. CASE Wait \/ Close \/ Joined
  <2>1. Busy' = Busy /\ \A w \in PoolThreads : Running(w)' = Running(w)
    BY <1>1 DEF Wait, Close, Joined, Busy, Running
  <2>2. PoolTypeOK'
    <3>1. terminate' \in BOOLEAN
      BY <1>1, Zenon DEF Wait, Close, Joined, PoolInv, PoolTypeOK
    <3> QED BY <1>1, <3>1 DEF Wait, Close, Joined, PoolInv, PoolTypeOK
  <2>3. CountsOutstanding'
    BY <1>1, <2>1 DEF Wait, Close, Joined, PoolInv, CountsOutstanding
  <2>4. ClosedIsQuiet'
    BY <1>1 DEF Wait, Close, Joined, PoolInv, ClosedIsQuiet
  <2> QED BY <1>1, <2>1, <2>2, <2>3, <2>4 DEF Wait, Close, Joined, PoolInv, NoFreedWork, NoLostWakeUp, Running
<1>2. CASE WaitReturns
  <2>1. count = 0 /\ caller # "adding"
    BY <1>2 DEF WaitReturns, PoolInv, CountsOutstanding
  <2>2. Len(pending) = 0 /\ Cardinality(Busy) = 0
    BY <2>1, BusyFinite DEF PoolInv, PoolTypeOK, CountsOutstanding
  <2>3. \A w \in PoolThreads : ~Running(w)
    BY <2>2, BusyFinite DEF Busy, Running
  <2>4. Busy' = Busy /\ \A w \in PoolThreads : Running(w)' = Running(w)
    BY <1>2 DEF WaitReturns, Busy, Running
  <2>5. PoolTypeOK'
    BY <1>2 DEF WaitReturns, PoolInv, PoolTypeOK
  <2>6. CountsOutstanding'
    BY <1>2, <2>4 DEF WaitReturns, PoolInv, CountsOutstanding
  <2>7. NoFreedWork' /\ ClosedIsQuiet' /\ NoLostWakeUp'
    BY <1>2, <2>2, <2>3 DEF WaitReturns, PoolInv, NoFreedWork, Running, ClosedIsQuiet, NoLostWakeUp
  <2> QED BY <1>2, <2>2, <2>3, <2>4, <2>5, <2>6, <2>7 DEF WaitReturns, PoolInv
<1>3. ASSUME NEW w \in PoolThreads, AddThread(w) PROVE PoolInv'
  <2>1. Busy' = Busy /\ \A v \in PoolThreads : Running(v)' = Running(v)
    BY <1>3 DEF AddThread, Busy, Running, PoolInv, PoolTypeOK
  <2>2. PoolTypeOK'
    BY <1>3 DEF AddThread, PoolInv, PoolTypeOK
  <2>3. CountsOutstanding'
    BY <1>3, <2>1 DEF AddThread, PoolInv, CountsOutstanding
  <2>4. NoFreedWork' /\ ClosedIsQuiet' /\ NoLostWakeUp'
    BY <1>3, <2>1 DEF AddThread, PoolInv, NoFreedWork, Running, ClosedIsQuiet, NoLostWakeUp
  <2> QED BY <1>3, <2>1, <2>2, <2>3, <2>4 DEF AddThread, PoolInv
<1> QED BY <1>1, <1>2, <1>3

\* A thread of the pool takes an object, or finds that another was faster.
LEMMA DequeueInv ==
  ASSUME PoolInv, NEW w \in PoolThreads, Dequeue(w)
  PROVE  PoolInv'
<1>1. CASE pending = <<>>
  <2>1. Busy' = Busy /\ \A v \in PoolThreads : Running(v)' = Running(v)
    BY <1>1 DEF Dequeue, Busy, Running, PoolInv, PoolTypeOK
  <2>2. PoolTypeOK'
    <3>1. hasPending' \in BOOLEAN
      BY Zenon DEF Dequeue
    <3>2. /\ job' \in [PoolThreads -> Works \cup {NoWork}]
          /\ worker' \in [PoolThreads -> {"none", "wait", "dequeue", "run", "signal", "exited"}]
      BY <1>1 DEF Dequeue, PoolInv, PoolTypeOK
    <3> QED BY <1>1, <3>1, <3>2 DEF Dequeue, PoolInv, PoolTypeOK
  <2>3. CountsOutstanding'
    BY <1>1, <2>1 DEF Dequeue, PoolInv, CountsOutstanding
  <2>4. NoLostWakeUp' /\ ClosedIsQuiet' /\ NoFreedWork'
    BY <1>1, <2>1 DEF Dequeue, PoolInv, NoLostWakeUp, ClosedIsQuiet, NoFreedWork, Running, PoolTypeOK
  <2>5. /\ \A v \in PoolThreads : Running(v) => v # w /\ job'[v] = job[v]
        /\ caller' = caller /\ adding' = adding /\ work' = work /\ pending' = pending
    BY <1>1 DEF Dequeue, PoolInv, PoolTypeOK, Running
  <2> QED BY <2>1, <2>2, <2>3, <2>4, <2>5 DEF PoolInv
<1>2. CASE pending # <<>>
  <2> DEFINE n == Len(pending)
  <2>1. /\ n \in Nat \ {0} /\ pending \in Seq(Works) /\ pending' \in Seq(Works) /\ Len(pending') = n - 1
        /\ \A i \in 1..(n - 1) : i + 1 \in 1..n /\ pending'[i] = pending[i + 1]
        /\ 1 \in 1..n /\ Head(pending) = pending[1] /\ pending[1] \in Works
    BY <1>2 DEF Dequeue, PoolInv, PoolTypeOK
  <2> HIDE DEF n
  <2>2. /\ job' = [job EXCEPT ![w] = pending[1]] /\ worker' = [worker EXCEPT ![w] = "run"]
        /\ UNCHANGED <<count, complete, terminate, work, caller, adding>>
        /\ worker[w] = "dequeue" /\ ~Running(w)
    BY <1>2, <2>1 DEF Dequeue, Running
  <2>3. /\ Running(w)' /\ job'[w] = pending[1]
        /\ \A v \in PoolThreads : v # w => Running(v)' = Running(v) /\ job'[v] = job[v]
    BY <2>2 DEF Running, PoolInv, PoolTypeOK
  <2>4. /\ \A i, j \in 1..n : pending[i] = pending[j] => i = j
        /\ \A v \in PoolThreads : \A i \in 1..n : Running(v) => job[v] # pending[i]
        /\ \A i \in 1..n : work[pending[i]] = "submitted"
    BY DEF PoolInv, NoFreedWork, n
  <2>5. PoolTypeOK'
    <3>1. hasPending' \in BOOLEAN
      BY Zenon DEF Dequeue
    <3> QED BY <2>1, <2>2, <3>1 DEF PoolInv, PoolTypeOK
  <2>6. Busy' = Busy \cup {w} /\ w \notin Busy
    BY <2>2 DEF Busy, PoolInv, PoolTypeOK
  <2>7. Cardinality(Busy') = Cardinality(Busy) + 1
    <3>1. Cardinality(Busy \cup {w}) = Cardinality(Busy) + 1
      BY <2>6, BusyFinite, FS_AddElement
    <3> QED BY Zenon, <2>6, <3>1
  <2>8. CountsOutstanding'
    BY <2>1, <2>2, <2>7, BusyFinite DEF PoolInv, CountsOutstanding, n
  <2>9. NoLostWakeUp'
    BY Zenon, <1>2 DEF Dequeue, PoolInv, NoLostWakeUp
  <2>10. ClosedIsQuiet'
    BY <2>2 DEF PoolInv, PoolTypeOK, ClosedIsQuiet
  <2>11. NoFreedWork'
    BY <2>1, <2>2, <2>3, <2>4 DEF PoolInv, NoFreedWork, Running
  <2>12. ASSUME NEW i \in 1..(n - 1), NEW j \in 1..(n - 1), pending'[i] = pending'[j] PROVE i = j
    <3>1. i + 1 \in 1..n /\ j + 1 \in 1..n /\ pending[i + 1] = pending[j + 1]
      BY Zenon, <2>1, <2>12
    <3>2. i + 1 = j + 1
      BY <2>4, <3>1
    <3> QED BY <3>2
  <2>13. \A v \in PoolThreads : Running(v)' => job'[v] \in Works
    BY <2>1, <2>3 DEF PoolInv
  <2>14. \A v, u \in PoolThreads : Running(v)' /\ Running(u)' /\ job'[v] = job'[u] => v = u
    BY <2>1, <2>3, <2>4 DEF PoolInv
  <2>15. ASSUME NEW v \in PoolThreads, NEW i \in 1..(n - 1), Running(v)' PROVE job'[v] # pending'[i]
    <3>1. i + 1 \in 1..n /\ pending'[i] = pending[i + 1] /\ i + 1 # 1
      BY <2>1
    <3>2. CASE v = w
      BY <2>1, <2>3, <2>4, <3>1, <3>2
    <3>3. CASE v # w
      BY <2>3, <2>4, <2>15, <3>1, <3>3
    <3> QED BY <3>2, <3>3
  <2>16. caller' = "adding" => adding' \in Works /\ work'[adding'] = "created"
    BY <2>2 DEF PoolInv
  <2> QED BY <2>1, <2>5, <2>8, <2>9, <2>10, <2>11, <2>12, <2>13, <2>14, <2>15, <2>16 DEF PoolInv
<1> QED BY <1>1, <1>2

\* The other steps of thread_pool_work_func.
LEMMA WorkerInv ==
  ASSUME PoolInv, NEW w \in PoolThreads, PoolWorker(w)
  PROVE  PoolInv'
<1>1. CASE WakeUp(w)
  <2>1. Busy' = Busy /\ \A v \in PoolThreads : Running(v)' = Running(v)
    BY <1>1 DEF WakeUp, Busy, Running, PoolInv, PoolTypeOK
  <2>2. PoolTypeOK'
    BY <1>1 DEF WakeUp, PoolInv, PoolTypeOK
  <2>3. CountsOutstanding'
    BY <1>1, <2>1 DEF WakeUp, PoolInv, CountsOutstanding
  <2>4. NoFreedWork' /\ ClosedIsQuiet' /\ NoLostWakeUp'
    BY <1>1, <2>1 DEF WakeUp, PoolInv, NoFreedWork, Running, ClosedIsQuiet, NoLostWakeUp
  <2> QED BY <1>1, <2>1, <2>2, <2>3, <2>4 DEF WakeUp, PoolInv
<1>2. CASE Dequeue(w)
  BY Zenon, <1>2, DequeueInv
<1>3. CASE RunWork(w)
  <2>1. Running(w) /\ job[w] \in Works /\ ~Running(w)' /\ \A v \in PoolThreads : v # w => Running(v)' = Running(v)
    BY <1>3 DEF RunWork, Running, PoolInv, PoolTypeOK
  <2>2. Busy' = Busy
    BY <1>3 DEF RunWork, Busy, PoolInv, PoolTypeOK
  <2>3. PoolTypeOK'
    BY Zenon, <1>3 DEF RunWork, PoolInv, PoolTypeOK
  <2>4. CountsOutstanding'
    BY <1>3, <2>2 DEF RunWork, PoolInv, CountsOutstanding
  <2>5. \A x \in Works : x # job[w] => work'[x] = work[x]
    BY <1>3 DEF RunWork, PoolInv, PoolTypeOK
  <2>6. /\ \A i \in 1..Len(pending) : pending[i] # job[w] /\ pending[i] \in Works
        /\ \A v \in PoolThreads : Running(v) /\ v # w => job[v] # job[w] /\ job[v] \in Works
    BY <2>1 DEF PoolInv, PoolTypeOK
  <2>7. NoFreedWork'
    BY Zenon, <1>3, <2>1, <2>5, <2>6 DEF RunWork, PoolInv, NoFreedWork, Running
  <2>8. ClosedIsQuiet' /\ NoLostWakeUp'
    BY <1>3 DEF RunWork, PoolInv, PoolTypeOK, ClosedIsQuiet, NoLostWakeUp
  <2>9. caller' = "adding" => adding' \in Works /\ work'[adding'] = "created"
    BY Zenon, <1>3, <2>1, <2>5 DEF RunWork, PoolInv, NoFreedWork, Running
  <2> QED BY <1>3, <2>1, <2>3, <2>4, <2>7, <2>8, <2>9 DEF RunWork, PoolInv
<1>4. CASE Signal(w)
  <2>1. ~Running(w) /\ \A v \in PoolThreads : Running(v)' = Running(v) /\ (v # w => job'[v] = job[v])
    BY <1>4 DEF Signal, Running, PoolInv, PoolTypeOK
  <2>2. Busy' = Busy \ {w} /\ w \in Busy
    BY <1>4 DEF Signal, Busy, PoolInv, PoolTypeOK
  <2>3. Cardinality(Busy') = Cardinality(Busy) - 1 /\ Cardinality(Busy') \in Nat
    BY <2>2, BusyFinite, FS_RemoveElement, FS_CardinalityType
  <2>4. PoolTypeOK'
    <3>1. complete' \in BOOLEAN
      BY <1>4, Zenon DEF Signal, CountdownEvent_Signal
    <3>2. count' \in Nat
      BY <1>4 DEF Signal, CountdownEvent_Signal, PoolInv, PoolTypeOK
    <3> QED BY <1>4, <3>1, <3>2, WorksAssumption DEF Signal, PoolInv, PoolTypeOK
  <2>5. count = Len(pending) + Cardinality(Busy) + (IF caller = "adding" THEN 1 ELSE 0)
    BY DEF PoolInv, CountsOutstanding
  <2>6. count >= 1 /\ count \in Nat
    BY <2>3, <2>5, BusyFinite DEF PoolInv, PoolTypeOK
  <2>7. count' = count - 1 /\ (complete' <=> count' = 0)
    <3>1. count # 0 /\ count' = count - 1
      BY <1>4, <2>6 DEF Signal, CountdownEvent_Signal
    <3>2. complete' = (complete \/ count' = 0)
      BY <1>4, Zenon DEF Signal, CountdownEvent_Signal
    <3>3. ~complete
      BY <3>1, Zenon DEF PoolInv, CountsOutstanding
    <3>4. complete' <=> count' = 0
      BY <3>2, <3>3, Zenon
    <3> QED BY <3>1, <3>4
  <2>8. CountsOutstanding'
    BY <1>4, <2>3, <2>5, <2>7, BusyFinite DEF Signal, CountsOutstanding, PoolInv, PoolTypeOK
  <2>9. NoFreedWork' /\ ClosedIsQuiet' /\ NoLostWakeUp'
    BY <1>4, <2>1 DEF Signal, PoolInv, PoolTypeOK, NoFreedWork, Running, ClosedIsQuiet, NoLostWakeUp
  <2>10. UNCHANGED <<pending, work, caller, adding>>
    BY Zenon, <1>4 DEF Signal
  <2>11. \A v \in PoolThreads : Running(v)' => Running(v) /\ job'[v] = job[v]
    BY Zenon, <2>1
  <2>12. /\ \A v \in PoolThreads : Running(v)' => job'[v] \in Works
         /\ \A v, u \in PoolThreads : Running(v)' /\ Running(u)' /\ job'[v] = job'[u] => v = u
         /\ \A v \in PoolThreads : \A i \in 1..Len(pending) : Running(v)' => job'[v] # pending[i]
    BY Zenon, <2>11 DEF PoolInv
  <2> QED BY Zenon, <2>4, <2>8, <2>9, <2>10, <2>12 DEF PoolInv
<1> QED BY <1>1, <1>2, <1>3, <1>4 DEF PoolWorker

\* The invariant of the pool holds always.
LEMMA PoolInvAlways == PoolSpec => []PoolInv
<1>1. PoolInv /\ [PoolNext]_poolVars => PoolInv'
  <2> SUFFICES ASSUME PoolInv, [PoolNext]_poolVars PROVE PoolInv'
    OBVIOUS
  <2>1. CASE UNCHANGED poolVars
    BY <2>1 DEF poolVars, PoolInv, PoolTypeOK, CountsOutstanding, NoFreedWork, NoLostWakeUp, ClosedIsQuiet, Running, Busy
  <2>2. CASE PoolNext
    BY <2>2, SubmitInv, CallerInv, WorkerInv DEF PoolNext, PoolCaller
  <2> QED BY <2>1, <2>2
<1> QED BY <1>1, PoolInitInv, PTL DEF PoolSpec

\* WorkComplete counts what was submitted and is not yet reported, for any
\* number of threads and pieces of work: WaitForThreadpoolWorkCallbacks cannot
\* return while a callback runs or is queued.
THEOREM CountsOutstandingAlways == PoolSpec => []CountsOutstanding
  BY PoolInvAlways, PTL DEF PoolInv

\* No thread of the pool runs, or finds in the queue, a work object that
\* CloseThreadpoolWork has freed.
THEOREM NoFreedWorkAlways == PoolSpec => []NoFreedWork
  BY PoolInvAlways, PTL DEF PoolInv

\* While PendingQueue has an object its event is set: no thread of the pool
\* sleeps beside work.
THEOREM NoLostWakeUpAlways == PoolSpec => []NoLostWakeUp
  BY PoolInvAlways, PTL DEF PoolInv

\* CloseThreadpool has returned only if no thread of the pool is left.
THEOREM ClosedIsQuietAlways == PoolSpec => []ClosedIsQuiet
  BY PoolInvAlways, PTL DEF PoolInv

----------------------------------------------------------------------------
(* Barrier.  r is the number of times that the events have been switched.  *)

Comes(t, r) ==
  /\ at[t] \in {"outside", "readDormant", "decrement"}
  /\ entered[t] = r /\ left[t] = r
  /\ at[t] # "outside" => hCurrent[t] = current
  /\ at[t] = "decrement" => hDormant[t] = dormant

Waits(t, r) == at[t] \in {"spin", "block"} /\ entered[t] = r + 1 /\ left[t] = r /\ hCurrent[t] = current

\* Still in the round that the last switch has ended.
Leaves(t, r) ==
  at[t] \in {"spin", "block", "signal"} /\ entered[t] = r /\ left[t] = r - 1 /\ hCurrent[t] # current

Switches(t, r) ==
  /\ at[t] \in {"reset", "refill", "setDormant", "setCurrent"}
  /\ entered[t] = r + 1 /\ left[t] = r
  /\ hCurrent[t] = current /\ hDormant[t] # current
  /\ at[t] # "reset" => signaled[hDormant[t]] = FALSE
  /\ at[t] = "setCurrent" => dormant = current

Stage(t, r) == Comes(t, r) \/ Waits(t, r) \/ Leaves(t, r) \/ Switches(t, r)

Arrived(r) == {t \in BarrierThreads : entered[t] = r + 1}

Refilled == \E t \in BarrierThreads : at[t] \in {"setDormant", "setCurrent"}
Signals  == \E t \in BarrierThreads : at[t] = "signal"

\* The inductive invariant.  Every thread is in this round or still leaving the
\* one before, and while one thread switches the events all others wait.
BarrierAt(r) ==
  /\ r \in Nat /\ BarrierTypeOK
  /\ signaled[current] = FALSE
  /\ \A t \in BarrierThreads : Stage(t, r)
  /\ \A t, u \in BarrierThreads : Switches(t, r) /\ u # t => Waits(u, r)
  /\ \A t, u \in BarrierThreads : at[t] = "signal" /\ at[u] = "signal" => t = u
  /\ (\A t \in BarrierThreads : at[t] # "setCurrent") => dormant # current
  /\ remaining = IF Refilled THEN TotalThreads ELSE TotalThreads - Cardinality(Arrived(r))
  /\ IF Signals THEN serial = r - 1 ELSE serial = r /\ \E t \in BarrierThreads : left[t] = r

BarrierInv == \E r \in Nat : BarrierAt(r)

\* The threads that have arrived are finitely many, and all of them have when
\* they are as many as the barrier waits for.
LEMMA ArrivedFinite ==
  ASSUME NEW r
  PROVE  /\ IsFiniteSet(Arrived(r)) /\ Cardinality(Arrived(r)) \in Nat
         /\ TotalThreads \in Nat \ {0} /\ Cardinality(Arrived(r)) <= TotalThreads
         /\ Cardinality(Arrived(r)) = TotalThreads => Arrived(r) = BarrierThreads
<1>1. IsFiniteSet(BarrierThreads) /\ BarrierThreads # {} /\ Arrived(r) \subseteq BarrierThreads
  BY BarrierThreadsAssumption DEF Arrived
<1>2. IsFiniteSet(Arrived(r))
  BY <1>1, FS_Subset
<1>3. Cardinality(Arrived(r)) \in Nat /\ TotalThreads \in Nat /\ TotalThreads # 0
  BY <1>1, <1>2, FS_CardinalityType, FS_EmptySet DEF TotalThreads
<1>4. /\ Cardinality(Arrived(r)) <= TotalThreads
      /\ Cardinality(Arrived(r)) = TotalThreads => Arrived(r) = BarrierThreads
  BY <1>1, FS_Subset DEF TotalThreads
<1> QED BY <1>2, <1>3, <1>4

\* InitializeSynchronizationBarrier, and the barrier that is made again.
FreshBarrier ==
  /\ remaining = TotalThreads /\ current = 0 /\ dormant = 1 /\ serial = 0
  /\ signaled = [e \in Events |-> FALSE]
  /\ entered = [t \in BarrierThreads |-> 0] /\ left = [t \in BarrierThreads |-> 0]
  /\ at = [t \in BarrierThreads |-> "outside"]
  /\ flags \in [BarrierThreads -> Flags] /\ hCurrent \in [BarrierThreads -> Events]
  /\ hDormant \in [BarrierThreads -> Events]

\* A barrier that was just made satisfies the invariant.
LEMMA BarrierFresh == FreshBarrier => BarrierAt(0)
<1> SUFFICES ASSUME FreshBarrier PROVE BarrierAt(0)
  OBVIOUS
<1> USE DEF FreshBarrier
<1>1. BarrierTypeOK
  BY ArrivedFinite DEF BarrierTypeOK, Events, Places
<1>2. Arrived(0) = {} /\ Cardinality(Arrived(0)) = 0
  BY FS_EmptySet DEF Arrived
<1>3. ~Refilled /\ ~Signals /\ \E t \in BarrierThreads : left[t] = 0
  BY BarrierThreadsAssumption DEF Refilled, Signals
<1>4. remaining = TotalThreads - Cardinality(Arrived(0))
  BY <1>2, ArrivedFinite
<1>5. \A t \in BarrierThreads : Comes(t, 0) /\ ~Switches(t, 0) /\ at[t] # "signal"
  BY DEF Comes, Switches
<1> QED BY <1>1, <1>3, <1>4, <1>5 DEF BarrierAt, Stage, Events

\* Where a thread is says which stage it is in; while a thread is neither
\* waiting for this round nor switching, nobody is switching.
LEMMA StageOf ==
  ASSUME NEW r \in Nat, BarrierAt(r), NEW t \in BarrierThreads
  PROVE  /\ at[t] \in {"outside", "readDormant", "decrement"} => Comes(t, r)
         /\ at[t] = "signal" => Leaves(t, r)
         /\ at[t] \in {"reset", "refill", "setDormant", "setCurrent"} => Switches(t, r)
         /\ at[t] \in {"spin", "block"} => Waits(t, r) \/ Leaves(t, r)
         /\ Comes(t, r) \/ Leaves(t, r)
              => \A u \in BarrierThreads : at[u] \notin {"reset", "refill", "setDormant", "setCurrent"}
         /\ Switches(t, r) => \A u \in BarrierThreads \ {t} : Waits(u, r) /\ at[u] \in {"spin", "block"}
<1>1. Stage(t, r) /\ \A u \in BarrierThreads : Stage(u, r)
  BY Zenon DEF BarrierAt
<1>2. \A u \in BarrierThreads : Switches(u, r) /\ u # t => Waits(t, r)
  BY Zenon DEF BarrierAt
<1>3. Comes(t, r) \/ Leaves(t, r) => ~Waits(t, r) /\ ~Switches(t, r)
  BY DEF Comes, Leaves, Waits, Switches, BarrierAt, BarrierTypeOK
<1>4. \A u \in BarrierThreads : at[u] \in {"reset", "refill", "setDormant", "setCurrent"} => Switches(u, r)
  BY Zenon, <1>1 DEF Stage, Comes, Leaves, Waits
<1>5. Switches(t, r) => \A u \in BarrierThreads \ {t} : Waits(u, r)
  BY Zenon DEF BarrierAt
<1> QED BY Zenon, <1>1, <1>2, <1>3, <1>4, <1>5 DEF Stage, Comes, Leaves, Waits, Switches

\* The reads of the two events.
LEMMA ReadsInv ==
  ASSUME NEW r \in Nat, BarrierAt(r), NEW t \in BarrierThreads,
         (\E f \in Flags : ReadCurrent(t, f)) \/ ReadDormant(t)
  PROVE  BarrierAt(r)'
<1>1. BarrierTypeOK /\ Comes(t, r) /\ at[t] \in {"outside", "readDormant"}
  BY Zenon, StageOf DEF BarrierAt, ReadCurrent, ReadDormant
<1>2. /\ at' = [at EXCEPT ![t] = IF at[t] = "outside" THEN "readDormant" ELSE "decrement"]
      /\ UNCHANGED <<remaining, current, dormant, signaled, entered, left, serial>>
  BY Zenon DEF ReadCurrent, ReadDormant, MoveTo
<1>3. BarrierTypeOK'
  BY <1>1, <1>2 DEF BarrierTypeOK, ReadCurrent, ReadDormant, MoveTo, Places
<1>4. /\ at'[t] \in {"readDormant", "decrement"} /\ hCurrent'[t] = current
      /\ at'[t] = "decrement" => hDormant'[t] = dormant
  BY <1>1 DEF ReadCurrent, ReadDormant, MoveTo, BarrierTypeOK, Comes
<1>5. \A u \in BarrierThreads \ {t} : at'[u] = at[u] /\ hCurrent'[u] = hCurrent[u] /\ hDormant'[u] = hDormant[u]
  BY <1>1 DEF ReadCurrent, ReadDormant, MoveTo, BarrierTypeOK
<1>6. Comes(t, r)'
  BY <1>1, <1>2, <1>4 DEF Comes
<1>7. \A u \in BarrierThreads \ {t} : /\ Stage(u, r) => Stage(u, r)'
                                     /\ at'[u] \notin {"reset", "refill", "setDormant", "setCurrent"}
  BY Zenon, <1>1, <1>2, <1>5, StageOf DEF Stage, Comes, Leaves, Waits, Switches
<1>8. Arrived(r)' = Arrived(r) /\ Refilled' = Refilled /\ Signals' = Signals
  BY Zenon, <1>1, <1>2, <1>4, <1>5 DEF Arrived, Refilled, Signals
<1>9. \A u \in BarrierThreads : ~Switches(u, r)' /\ at[u] # "setCurrent"
  BY Zenon, <1>1, <1>4, <1>7, StageOf DEF Switches
<1>10. signaled'[current'] = FALSE /\ dormant' # current'
  BY <1>2, <1>9 DEF BarrierAt
<1>11. \A u \in BarrierThreads : Stage(u, r)'
  <2>1. Stage(t, r)'
    BY Zenon, <1>6 DEF Stage
  <2>2. ASSUME NEW u \in BarrierThreads \ {t} PROVE Stage(u, r)'
    <3>1. Stage(u, r)
      BY Zenon DEF BarrierAt
    <3> QED BY Zenon, <1>7, <3>1
  <2> QED BY Zenon, <2>1, <2>2
<1>12. \A u, v \in BarrierThreads : at'[u] = "signal" /\ at'[v] = "signal" => u = v
  <2>1. \A u \in BarrierThreads : at'[u] = "signal" => at[u] = "signal"
    BY <1>4, <1>5
  <2> QED BY <2>1 DEF BarrierAt
<1>13. /\ remaining' = IF Refilled' THEN TotalThreads ELSE TotalThreads - Cardinality(Arrived(r)')
       /\ IF Signals' THEN serial' = r - 1 ELSE serial' = r /\ \E u \in BarrierThreads : left'[u] = r
  BY <1>2, <1>8 DEF BarrierAt
<1> QED BY Zenon, <1>3, <1>9, <1>10, <1>11, <1>12, <1>13 DEF BarrierAt

\* A thread that waits no longer spins, or waits on.
LEMMA StopSpinningInv ==
  ASSUME NEW r \in Nat, BarrierAt(r), NEW t \in BarrierThreads, StopSpinning(t)
  PROVE  BarrierAt(r)'
<1>1. BarrierTypeOK /\ at[t] = "spin" /\ at' = [at EXCEPT ![t] = "block"]
  BY Zenon DEF BarrierAt, StopSpinning, MoveTo
<1>2. UNCHANGED <<remaining, current, dormant, signaled, flags, hCurrent, hDormant, entered, left, serial>>
  BY Zenon DEF StopSpinning
<1>3. BarrierTypeOK'
  BY <1>1, <1>2 DEF BarrierTypeOK, Places
<1>4. at'[t] = "block" /\ \A u \in BarrierThreads \ {t} : at'[u] = at[u]
  BY <1>1 DEF BarrierTypeOK
<1>5. Arrived(r)' = Arrived(r) /\ Refilled' = Refilled /\ Signals' = Signals
  BY <1>1, <1>2, <1>4 DEF Arrived, Refilled, Signals
<1>6. \A u \in BarrierThreads : at'[u] \in {"signal", "setCurrent"} <=> at[u] \in {"signal", "setCurrent"} /\ at'[u] = at[u]
  BY <1>1, <1>4
<1>7. ASSUME NEW u \in BarrierThreads, NEW v \in BarrierThreads, Switches(u, r)', v # u PROVE Waits(v, r)'
  <2>1. Switches(u, r)
    BY <1>1, <1>2, <1>4, <1>7 DEF Switches
  <2>2. Waits(v, r)
    BY <2>1, <1>7 DEF BarrierAt
  <2> QED BY <1>1, <1>2, <1>4, <2>2 DEF Waits
<1>8. \A u, v \in BarrierThreads : at'[u] = "signal" /\ at'[v] = "signal" => u = v
  BY <1>6 DEF BarrierAt
<1>9. (\A u \in BarrierThreads : at'[u] # "setCurrent") => dormant' # current'
  BY <1>1, <1>2, <1>4 DEF BarrierAt
<1>10. signaled'[current'] = FALSE /\ \A u \in BarrierThreads : Stage(u, r)'
  <2>1. signaled'[current'] = FALSE
    BY Zenon, <1>2 DEF BarrierAt
  <2>2. ASSUME NEW u \in BarrierThreads PROVE Stage(u, r)'
    <3>1. Stage(u, r)
      BY Zenon DEF BarrierAt
    <3> QED BY Zenon, <1>1, <1>2, <1>4, <3>1 DEF Stage, Comes, Leaves, Waits, Switches
  <2> QED BY <2>1, <2>2
<1>11. /\ remaining' = IF Refilled' THEN TotalThreads ELSE TotalThreads - Cardinality(Arrived(r)')
       /\ IF Signals' THEN serial' = r - 1 ELSE serial' = r /\ \E u \in BarrierThreads : left'[u] = r
  BY <1>2, <1>5 DEF BarrierAt
<1> QED BY Zenon, <1>3, <1>7, <1>8, <1>9, <1>10, <1>11 DEF BarrierAt

\* A thread enters; the last one finds all others waiting.
LEMMA DecrementInv ==
  ASSUME NEW r \in Nat, BarrierAt(r), NEW t \in BarrierThreads, Decrement(t)
  PROVE  BarrierAt(r)'
<1>1. BarrierTypeOK /\ at[t] = "decrement" /\ Comes(t, r)
  BY Zenon, StageOf DEF BarrierAt, Decrement
<1>2. \A u \in BarrierThreads : at[u] \notin {"reset", "refill", "setDormant", "setCurrent"}
  BY Zenon, <1>1, StageOf
<1>3. UNCHANGED <<current, dormant, signaled, flags, hCurrent, hDormant, left, serial>>
  BY DEF Decrement
<1>4. entered'[t] = r + 1 /\ \A u \in BarrierThreads \ {t} : entered'[u] = entered[u] /\ at'[u] = at[u]
  BY <1>1 DEF Decrement, MoveTo, BarrierTypeOK, Comes
<1>5. Arrived(r)' = Arrived(r) \cup {t} /\ t \notin Arrived(r)
  <2>1. t \notin Arrived(r)
    BY <1>1 DEF Arrived, Comes
  <2>2. ASSUME NEW u PROVE u \in Arrived(r)' <=> u \in Arrived(r) \cup {t}
    BY <1>4 DEF Arrived
  <2> QED BY Zenon, <2>1, <2>2
<1>6. Cardinality(Arrived(r)') = Cardinality(Arrived(r)) + 1
  BY <1>5, ArrivedFinite, FS_AddElement
<1>7. ~Refilled /\ remaining = TotalThreads - Cardinality(Arrived(r)) /\ remaining' = remaining - 1
  BY <1>2 DEF Refilled, BarrierAt, Decrement
<1>8. Cardinality(Arrived(r)) < TotalThreads
  <2>1. Arrived(r) # BarrierThreads
    BY <1>5
  <2> QED BY <2>1, ArrivedFinite
<1>9. remaining' = TotalThreads - Cardinality(Arrived(r)') /\ remaining' \in 0..TotalThreads
  BY <1>6, <1>7, <1>8, ArrivedFinite
<1>10. at' = [at EXCEPT ![t] = IF remaining' = 0 THEN "reset" ELSE IF Spins(t, remaining') THEN "spin" ELSE "block"]
  BY DEF Decrement, MoveTo
<1>11. BarrierTypeOK'
  BY <1>1, <1>3, <1>9, <1>10 DEF BarrierTypeOK, Decrement, Places
<1>12. /\ remaining' = 0 => at'[t] = "reset"
       /\ remaining' # 0 => at'[t] \in {"spin", "block"}
  BY <1>1, <1>10 DEF BarrierTypeOK
<1>13. ~Refilled' /\ Signals' = Signals
  BY <1>1, <1>2, <1>4, <1>12 DEF Refilled, Signals
<1>14. dormant # current
  BY Zenon, <1>2 DEF BarrierAt
<1>15. ASSUME NEW u \in BarrierThreads PROVE Stage(u, r)'
  <2>1. CASE u = t
    <3>1. hCurrent'[t] = current' /\ hDormant'[t] # current' /\ left'[t] = r
      BY Zenon, <1>1, <1>3, <1>14 DEF Comes
    <3> QED BY Zenon, <2>1, <3>1, <1>4, <1>12 DEF Stage, Waits, Switches
  <2>2. CASE u # t
    <3>1. Stage(u, r)
      BY Zenon DEF BarrierAt
    <3> QED BY Zenon, <2>2, <3>1, <1>3, <1>4 DEF Stage, Comes, Leaves, Waits, Switches
  <2> QED BY <2>1, <2>2
<1>16. ASSUME NEW u \in BarrierThreads, NEW v \in BarrierThreads, Switches(u, r)', v # u PROVE Waits(v, r)'
  <2>1. u = t /\ remaining' = 0
    BY Zenon, <1>2, <1>4, <1>12, <1>16 DEF Switches
  <2>2. Cardinality(Arrived(r)') = TotalThreads
    BY <2>1, <1>6, <1>9, ArrivedFinite
  <2>3. Arrived(r)' = BarrierThreads
    <3>1. IsFiniteSet(BarrierThreads) /\ Arrived(r)' \subseteq BarrierThreads
      BY BarrierThreadsAssumption DEF Arrived
    <3> QED BY <2>2, <3>1, FS_Subset DEF TotalThreads
  <2>4. entered[v] = r + 1 /\ v # t
    BY <2>1, <2>3, <1>4, <1>16 DEF Arrived
  <2>5. Waits(v, r)
    <3>1. Stage(v, r)
      BY Zenon DEF BarrierAt
    <3> QED BY <2>4, <3>1, <1>2 DEF Stage, Comes, Leaves, Switches
  <2> QED BY Zenon, <2>4, <2>5, <1>3, <1>4 DEF Waits
<1>17. \A u, v \in BarrierThreads : at'[u] = "signal" /\ at'[v] = "signal" => u = v
  BY Zenon, <1>4, <1>12 DEF BarrierAt
<1>18. /\ signaled'[current'] = FALSE /\ dormant' # current'
       /\ IF Signals' THEN serial' = r - 1 ELSE serial' = r /\ \E u \in BarrierThreads : left'[u] = r
  BY Zenon, <1>3, <1>13, <1>14 DEF BarrierAt
<1> QED BY Zenon, <1>9, <1>11, <1>13, <1>15, <1>16, <1>17, <1>18 DEF BarrierAt

\* A thread returns from the round that the last switch has ended: a spinning
\* thread that sees the switch, a blocked thread whose event is set, and the
\* thread that sets it.
LEMMA LeaveInv ==
  ASSUME NEW r \in Nat, BarrierAt(r), NEW t \in BarrierThreads,
         SpinOnce(t) \/ Block(t) \/ SignalBlocked(t)
  PROVE  BarrierAt(r)'
<1>1. BarrierTypeOK /\ Leaves(t, r) /\ at[t] \in {"spin", "block", "signal"}
  BY Zenon, StageOf DEF BarrierAt, SpinOnce, Block, SignalBlocked, Waits
<1>2. \A u \in BarrierThreads : at[u] \notin {"reset", "refill", "setDormant", "setCurrent"}
  BY Zenon, <1>1, StageOf
<1>3. /\ UNCHANGED <<remaining, current, dormant, flags, hCurrent, hDormant, entered>>
      /\ at' = [at EXCEPT ![t] = "outside"] /\ left' = [left EXCEPT ![t] = @ + 1]
  BY DEF SpinOnce, Block, SignalBlocked, ReturnFalse, MoveTo
<1>4. /\ at'[t] = "outside" /\ left'[t] = r /\ entered'[t] = r
      /\ \A u \in BarrierThreads \ {t} : left'[u] = left[u] /\ at'[u] = at[u]
  BY <1>1, <1>3 DEF BarrierTypeOK, Leaves
<1>5. /\ at[t] = "signal" => signaled' = [signaled EXCEPT ![hCurrent[t]] = TRUE] /\ serial' = serial + 1
      /\ at[t] # "signal" => UNCHANGED <<signaled, serial>>
  BY Zenon DEF SpinOnce, Block, SignalBlocked, ReturnFalse
<1>6. signaled' \in [Events -> BOOLEAN] /\ signaled'[current'] = FALSE
  BY Zenon, <1>1, <1>3, <1>5 DEF BarrierAt, BarrierTypeOK, Leaves
<1>7. BarrierTypeOK'
  <2>1. serial' \in Nat
    BY <1>1, <1>5 DEF BarrierTypeOK
  <2> QED BY <1>1, <1>3, <1>6, <2>1 DEF BarrierTypeOK, Places
<1>8. Arrived(r)' = Arrived(r) /\ ~Refilled' /\ ~Refilled
  BY <1>2, <1>3, <1>4 DEF Arrived, Refilled
<1>9. ASSUME NEW u \in BarrierThreads PROVE Stage(u, r)' /\ ~Switches(u, r)' /\ at'[u] # "setCurrent"
  <2>1. CASE u = t
    BY <2>1, <1>4 DEF Stage, Comes, Switches
  <2>2. CASE u # t
    <3>1. Stage(u, r)
      BY Zenon DEF BarrierAt
    <3> QED BY Zenon, <2>2, <3>1, <1>2, <1>3, <1>4 DEF Stage, Comes, Leaves, Waits, Switches
  <2> QED BY Zenon, <2>1, <2>2
<1>10. \A u, v \in BarrierThreads : at'[u] = "signal" /\ at'[v] = "signal" => u = v
  BY Zenon, <1>4 DEF BarrierAt
<1>11. IF Signals' THEN serial' = r - 1 ELSE serial' = r /\ \E u \in BarrierThreads : left'[u] = r
  <2>1. CASE at[t] = "signal"
    <3>1. Signals /\ ~Signals'
      BY Zenon, <2>1, <1>4 DEF Signals, BarrierAt
    <3>2. serial = r - 1
      BY Zenon, <3>1 DEF BarrierAt
    <3>3. serial' = r
      BY <2>1, <3>2, <1>5
    <3>4. left'[t] = r
      BY Zenon, <1>4
    <3> QED BY Zenon, <3>1, <3>3, <3>4
  <2>2. CASE at[t] # "signal"
    <3>1. Signals' = Signals
      BY <2>2, <1>4 DEF Signals
    <3> QED BY Zenon, <2>2, <3>1, <1>4, <1>5 DEF BarrierAt
  <2> QED BY Zenon, <2>1, <2>2
<1>12. dormant' # current' /\ remaining' = TotalThreads - Cardinality(Arrived(r)')
  BY <1>2, <1>3, <1>8 DEF BarrierAt
<1> QED BY Zenon, <1>6, <1>7, <1>8, <1>9, <1>10, <1>11, <1>12 DEF BarrierAt

\* The last thread of a round prepares the switch while all others wait.
LEMMA PrepareInv ==
  ASSUME NEW r \in Nat, BarrierAt(r), NEW t \in BarrierThreads,
         ResetDormant(t) \/ Refill(t) \/ SetDormant(t)
  PROVE  BarrierAt(r)'
<1>1. BarrierTypeOK /\ at[t] \in {"reset", "refill", "setDormant"} /\ Switches(t, r)
  BY Zenon, StageOf DEF BarrierAt, ResetDormant, Refill, SetDormant
<1>2. \A u \in BarrierThreads \ {t} : Waits(u, r) /\ at[u] \in {"spin", "block"}
  BY Zenon, <1>1, StageOf
<1>3. UNCHANGED <<current, flags, hCurrent, hDormant, entered, left, serial>>
  BY Zenon DEF ResetDormant, Refill, SetDormant
<1>4. /\ at'[t] = IF at[t] = "reset" THEN "refill" ELSE IF at[t] = "refill" THEN "setDormant" ELSE "setCurrent"
      /\ at' \in [BarrierThreads -> Places]
      /\ \A u \in BarrierThreads \ {t} : at'[u] = at[u]
  BY <1>1 DEF ResetDormant, Refill, SetDormant, MoveTo, BarrierTypeOK, Places
<1>5. /\ signaled' \in [Events -> BOOLEAN] /\ signaled'[current'] = FALSE
      /\ signaled'[hDormant'[t]] = FALSE
  <2>1. CASE at[t] = "reset"
    BY Zenon, <2>1, <1>1, <1>3 DEF ResetDormant, Refill, SetDormant, BarrierAt, BarrierTypeOK, Switches
  <2>2. CASE at[t] # "reset"
    BY Zenon, <2>2, <1>1, <1>3 DEF ResetDormant, Refill, SetDormant, BarrierAt, BarrierTypeOK, Switches
  <2> QED BY Zenon, <2>1, <2>2
<1>6. /\ dormant' \in Events /\ (at'[t] = "setCurrent" => dormant' = current')
      /\ (at'[t] # "setCurrent" => dormant' # current')
  <2>1. at[t] = "setDormant" => dormant' = current
    BY Zenon, <1>1 DEF ResetDormant, Refill, SetDormant, Switches
  <2>2. at[t] # "setDormant" => dormant' = dormant /\ dormant # current
    BY Zenon, <1>1, <1>2 DEF ResetDormant, Refill, SetDormant, BarrierAt
  <2> QED BY <2>1, <2>2, <1>1, <1>3, <1>4 DEF BarrierTypeOK
<1>7. Arrived(r) = BarrierThreads /\ Arrived(r)' = BarrierThreads
  BY Zenon, <1>1, <1>2, <1>3 DEF Arrived, Switches, Waits
<1>8. /\ Refilled' <=> at'[t] \in {"setDormant", "setCurrent"}
      /\ Refilled <=> at[t] = "setDormant"
      /\ ~Signals /\ ~Signals'
  BY <1>1, <1>2, <1>4 DEF Refilled, Signals
<1>9. remaining' = IF Refilled' THEN TotalThreads ELSE TotalThreads - Cardinality(Arrived(r)')
  <2>1. CASE at[t] = "refill"
    BY <2>1, <1>4, <1>8 DEF ResetDormant, Refill, SetDormant
  <2>2. CASE at[t] # "refill"
    BY Zenon, <2>2, <1>1, <1>4, <1>7, <1>8 DEF ResetDormant, Refill, SetDormant, BarrierAt
  <2> QED BY <2>1, <2>2
<1>10. BarrierTypeOK'
  <2>1. remaining' \in 0..TotalThreads
    BY <1>7, <1>9, ArrivedFinite DEF TotalThreads
  <2> QED BY <1>1, <1>3, <1>4, <1>5, <1>6, <2>1 DEF BarrierTypeOK
<1>11. Switches(t, r)'
  BY <1>1, <1>3, <1>4, <1>5, <1>6 DEF Switches
<1>12. ASSUME NEW u \in BarrierThreads \ {t} PROVE Waits(u, r)' /\ ~Switches(u, r)'
  BY Zenon, <1>2, <1>3, <1>4 DEF Waits, Switches
<1>13. ASSUME NEW u \in BarrierThreads PROVE Stage(u, r)'
  BY <1>11, <1>12 DEF Stage
<1>14. \A u \in BarrierThreads : at'[u] # "signal"
  BY <1>8 DEF Signals
<1>15. serial' = r /\ \E u \in BarrierThreads : left'[u] = r
  BY Zenon, <1>3, <1>8 DEF BarrierAt
<1>16. ASSUME NEW u \in BarrierThreads, NEW v \in BarrierThreads, Switches(u, r)', v # u PROVE Waits(v, r)'
  <2>1. u = t
    BY <1>12, <1>16
  <2> QED BY <2>1, <1>12, <1>16
<1>17. (\A u \in BarrierThreads : at'[u] # "setCurrent") => dormant' # current'
  BY <1>6
<1> QED BY Zenon, <1>5, <1>8, <1>9, <1>10, <1>13, <1>14, <1>15, <1>16, <1>17 DEF BarrierAt

\* The switch: the round is over for all threads, and the next has begun.
LEMMA SwitchInv ==
  ASSUME NEW r \in Nat, BarrierAt(r), NEW t \in BarrierThreads, SetCurrent(t)
  PROVE  BarrierAt(r + 1)'
<1>1. BarrierTypeOK /\ at[t] = "setCurrent" /\ Switches(t, r)
  BY Zenon, StageOf DEF BarrierAt, SetCurrent
<1>2. \A u \in BarrierThreads \ {t} : Waits(u, r) /\ at[u] \in {"spin", "block"}
  BY Zenon, <1>1, StageOf
<1>3. /\ UNCHANGED <<remaining, dormant, signaled, flags, hCurrent, hDormant, entered, left, serial>>
      /\ current' = hDormant[t] /\ at' = [at EXCEPT ![t] = "signal"]
  BY Zenon DEF SetCurrent, MoveTo
<1>4. current' # current /\ dormant' # current' /\ signaled'[current'] = FALSE /\ BarrierTypeOK'
  BY <1>1, <1>3 DEF Switches, BarrierTypeOK, Places
<1>5. at'[t] = "signal" /\ \A u \in BarrierThreads \ {t} : at'[u] = at[u]
  BY <1>1, <1>3 DEF BarrierTypeOK
<1>6. ASSUME NEW u \in BarrierThreads PROVE Leaves(u, r + 1)' /\ ~Switches(u, r + 1)'
  <2>1. entered[u] = r + 1 /\ left[u] = r /\ hCurrent[u] = current
    BY Zenon, <1>1, <1>2 DEF Switches, Waits
  <2>2. at'[u] \in {"spin", "block", "signal"}
    BY Zenon, <1>2, <1>5
  <2>3. r = (r + 1) - 1
    OBVIOUS
  <2>4. UNCHANGED <<entered, left, hCurrent>> /\ current' # current
    BY Zenon, <1>3, <1>4
  <2>5. entered'[u] = r + 1 /\ left'[u] = r /\ hCurrent'[u] # current'
    BY <2>1, <2>4
  <2>6. left'[u] = (r + 1) - 1
    BY Zenon, <2>3, <2>5
  <2> QED BY Zenon, <2>2, <2>5, <2>6 DEF Leaves, Switches
<1>7. Arrived(r + 1)' = {} /\ Cardinality({}) = 0
  <2>1. \A u \in BarrierThreads : entered'[u] = r + 1
    BY Zenon, <1>1, <1>2, <1>3 DEF Switches, Waits
  <2>2. \A u \in BarrierThreads : entered'[u] # (r + 1) + 1
    BY <2>1
  <2>3. Arrived(r + 1)' = {}
    BY Zenon, <2>2 DEF Arrived
  <2> QED BY Zenon, <2>3, FS_EmptySet
<1>8. ~Refilled' /\ Signals' /\ Refilled /\ ~Signals
  BY <1>1, <1>2, <1>5 DEF Refilled, Signals
<1>9. remaining' = TotalThreads - Cardinality(Arrived(r + 1)') /\ serial' = (r + 1) - 1
  <2>1. remaining' = TotalThreads /\ serial' = r /\ TotalThreads \in Nat
    BY Zenon, <1>3, <1>8, ArrivedFinite DEF BarrierAt
  <2>2. Cardinality(Arrived(r + 1)') = 0
    BY Zenon, <1>7
  <2> QED BY <2>1, <2>2
<1>10. \A u, v \in BarrierThreads : at'[u] = "signal" /\ at'[v] = "signal" => u = v
  BY <1>2, <1>5
<1>11. ASSUME NEW u \in BarrierThreads PROVE Stage(u, r + 1)'
  BY <1>6 DEF Stage
<1>12. \A u, v \in BarrierThreads : Switches(u, r + 1)' /\ v # u => Waits(v, r + 1)'
  BY Zenon, <1>6
<1>13. /\ remaining' = IF Refilled' THEN TotalThreads ELSE TotalThreads - Cardinality(Arrived(r + 1)')
       /\ IF Signals' THEN serial' = (r + 1) - 1
          ELSE serial' = r + 1 /\ \E u \in BarrierThreads : left'[u] = r + 1
  BY Zenon, <1>8, <1>9
<1>14. r + 1 \in Nat
  OBVIOUS
<1> QED BY Zenon, <1>4, <1>10, <1>11, <1>12, <1>13, <1>14 DEF BarrierAt

\* The invariant of the barrier holds always.
LEMMA BarrierInvAlways == BarrierSpec => []BarrierInv
<1>1. BarrierInit => BarrierInv
  <2> SUFFICES ASSUME BarrierInit PROVE BarrierAt(0)
    BY DEF BarrierInv
  <2> QED BY BarrierFresh DEF BarrierInit, FreshBarrier, Flags, Events
<1>2. BarrierInv /\ [BarrierNext]_barrierVars => BarrierInv'
  <2> SUFFICES ASSUME BarrierInv, [BarrierNext]_barrierVars PROVE \E r \in Nat : BarrierAt(r)'
    BY DEF BarrierInv
  <2>1. PICK r \in Nat : BarrierAt(r)
    BY DEF BarrierInv
  <2>2. CASE UNCHANGED barrierVars
    <3>1. BarrierAt(r)'
      <4>1. UNCHANGED <<remaining, current, dormant, signaled, at, flags, hCurrent, hDormant, entered, left, serial>>
        BY <2>2 DEF barrierVars
      <4>2. BarrierTypeOK'
        BY <2>1, <4>1 DEF BarrierAt, BarrierTypeOK
      <4>3. Arrived(r)' = Arrived(r) /\ Refilled' = Refilled /\ Signals' = Signals
        BY Zenon, <4>1 DEF Arrived, Refilled, Signals
      <4>4. ASSUME NEW t \in BarrierThreads
            PROVE  /\ Comes(t, r)' <=> Comes(t, r)
                   /\ Waits(t, r)' <=> Waits(t, r)
                   /\ Leaves(t, r)' <=> Leaves(t, r)
                   /\ Switches(t, r)' <=> Switches(t, r)
        BY Zenon, <4>1 DEF Comes, Waits, Leaves, Switches
      <4>5. \A t \in BarrierThreads : Stage(t, r)'
        BY Zenon, <2>1, <4>4 DEF BarrierAt, Stage
      <4>6. \A t, u \in BarrierThreads : Switches(t, r)' /\ u # t => Waits(u, r)'
        BY Zenon, <2>1, <4>4 DEF BarrierAt
      <4> QED BY Zenon, <2>1, <4>1, <4>2, <4>3, <4>5, <4>6 DEF BarrierAt
    <3> QED BY <3>1
  <2>3. ASSUME NEW t \in BarrierThreads, BarrierStep(t) PROVE BarrierAt(r)' \/ BarrierAt(r + 1)'
    BY <2>1, <2>3, ReadsInv, DecrementInv, StopSpinningInv, LeaveInv, PrepareInv, SwitchInv, Zenon DEF BarrierStep
  <2>4. CASE DeleteBarrier
    <3>1. BarrierTypeOK
      BY Zenon, <2>1 DEF BarrierAt
    <3>2. at' = [t \in BarrierThreads |-> "outside"]
      BY <2>4, <3>1 DEF DeleteBarrier, BarrierTypeOK
    <3>3. FreshBarrier'
      BY <2>4, <3>1, <3>2 DEF DeleteBarrier, FreshBarrier, BarrierTypeOK
    <3>4. FreshBarrier' => BarrierAt(0)'
      BY BarrierFresh, PTL
    <3> QED BY <3>3, <3>4
  <2> QED BY <2>2, <2>3, <2>4 DEF BarrierNext
<1> QED BY <1>1, <1>2, PTL DEF BarrierSpec

\* No thread returns from EnterSynchronizationBarrier before all have entered,
\* for any number of threads and rounds.
THEOREM NobodyLeavesEarlyAlways == BarrierSpec => []NobodyLeavesEarly
<1>1. BarrierInv => NobodyLeavesEarly
  <2> SUFFICES ASSUME NEW r \in Nat, BarrierAt(r), NEW t \in BarrierThreads, NEW u \in BarrierThreads
               PROVE  left[t] <= entered[u]
    BY Zenon DEF BarrierInv, NobodyLeavesEarly
  <2>1. \A v \in BarrierThreads : left[v] \in {r - 1, r} /\ entered[v] \in {r, r + 1}
    BY DEF BarrierAt, Stage, Comes, Waits, Leaves, Switches
  <2> QED BY <2>1
<1> QED BY <1>1, BarrierInvAlways, PTL

\* One thread of each round gets TRUE from EnterSynchronizationBarrier.
THEOREM OneSerialThreadAlways == BarrierSpec => []OneSerialThread
<1>1. BarrierInv => OneSerialThread
  <2> SUFFICES ASSUME NEW r \in Nat, BarrierAt(r), NEW t \in BarrierThreads,
                      \A u \in BarrierThreads : left[u] = left[t]
               PROVE  serial = left[t]
    BY DEF BarrierInv, OneSerialThread
  <2>1. CASE Signals
    <3>1. PICK u \in BarrierThreads : at[u] = "signal"
      BY Zenon, <2>1 DEF Signals
    <3>2. left[u] = r - 1
      BY Zenon, <3>1, StageOf DEF Leaves
    <3> QED BY Zenon, <2>1, <3>2 DEF BarrierAt
  <2>2. CASE ~Signals
    BY Zenon, <2>2 DEF BarrierAt
  <2> QED BY <2>1, <2>2
<1> QED BY <1>1, BarrierInvAlways, PTL

\* When all threads have returned, the barrier is as InitializeSynchronizationBarrier
\* made it, and DeleteSynchronizationBarrier does not wait.
THEOREM RestsReadyAlways == BarrierSpec => []RestsReady
<1>1. BarrierInv => RestsReady
  <2> SUFFICES ASSUME NEW r \in Nat, BarrierAt(r), \A t \in BarrierThreads : at[t] = "outside" /\ left[t] = entered[t]
               PROVE  remaining = TotalThreads /\ current # dormant /\ ~signaled[current]
    BY Zenon DEF BarrierInv, RestsReady
  <2>1. \A t \in BarrierThreads : Comes(t, r)
    BY Zenon, StageOf
  <2>2. \A t \in BarrierThreads : entered[t] # r + 1
    <3>1. r # r + 1 /\ \A t \in BarrierThreads : entered[t] = r
      BY <2>1 DEF Comes
    <3> QED BY Zenon, <3>1
  <2>3. Arrived(r) = {} /\ ~Refilled
    BY Zenon, <2>2 DEF Arrived, Refilled
  <2>4. Cardinality(Arrived(r)) = 0 /\ TotalThreads \in Nat
    BY Zenon, <2>3, FS_EmptySet, ArrivedFinite
  <2>5. remaining = TotalThreads - Cardinality(Arrived(r))
    BY Zenon, <2>3 DEF BarrierAt
  <2>6. remaining = TotalThreads
    BY <2>4, <2>5
  <2> QED BY Zenon, <2>6 DEF BarrierAt
<1> QED BY <1>1, BarrierInvAlways, PTL
=============================================================================

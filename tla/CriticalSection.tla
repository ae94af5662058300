-------------------------- MODULE CriticalSection --------------------------
(***************************************************************************)
(* The critical section of WinPR (winpr/libwinpr/synch/critical.c), on     *)
(* which every queue, pool, event and transport of FreeRDP relies.  One    *)
(* step of a thread is one access to memory that other threads write:      *)
(* LockCount (interlocked), OwningThread and the semaphore.                *)
(* RecursionCount is read and written only by the thread that holds the    *)
(* section, so its accesses join the step next to them.                    *)
(***************************************************************************)
EXTENDS Integers, FiniteSets

CONSTANTS
  Threads,     \* the threads that use the section
  NoThread,    \* OwningThread = NULL
  SpinCount,   \* lpCriticalSection->SpinCount, set once at initialization
  MaxDepth     \* bound: how often a thread enters without leaving

ASSUME ThreadsAssumption == IsFiniteSet(Threads) /\ NoThread \notin Threads
ASSUME SpinAssumption    == SpinCount \in Nat
ASSUME DepthAssumption   == MaxDepth \in Nat \ {0}

VARIABLES
  LockCount,       \* calls of EnterCriticalSection not yet left, minus one
  RecursionCount,  \* calls of the owner not yet left
  OwningThread,
  LockSemaphore,   \* value of the POSIX semaphore
  pc,              \* pc[t]: the access t makes next
  call,            \* call[t]: the function t called
  spins,           \* spins[t]: the local SpinCount of EnterCriticalSection
  held             \* held[t]: entered and not yet left, as t's caller counts

section == <<LockCount, RecursionCount, OwningThread, LockSemaphore>>
vars == <<section, pc, call, spins, held>>

Calls == {"Enter", "TryEnter", "Leave"}
Steps == {"outside",     \* in none of the functions
          "cas",         \* TryEnterCriticalSection: compare and exchange
          "tryOwner",    \* ... read OwningThread
          "tryInc",      \* ... count the recursion in LockCount
          "spin",        \* EnterCriticalSection: read LockCount
          "spinCas",     \* ... compare and exchange in the loop
          "inc",         \* ... InterlockedIncrement
          "incOwner",    \* ... read OwningThread
          "wait",        \* ... wait for the semaphore
          "own",         \* ... store OwningThread
          "decLast",     \* LeaveCriticalSection: decrement, no recursion left
          "decInner",    \* ... decrement, still inside
          "post"}        \* ... signal the semaphore

Init ==   \* InitializeCriticalSectionEx
  /\ LockCount = -1
  /\ RecursionCount = 0
  /\ OwningThread = NoThread
  /\ LockSemaphore = 0
  /\ pc = [t \in Threads |-> "outside"]
  /\ call = [t \in Threads |-> "Leave"]
  /\ spins = [t \in Threads |-> 0]
  /\ held = [t \in Threads |-> 0]

----------------------------------------------------------------------------

Goto(t, step) == pc' = [pc EXCEPT ![t] = step]

\* The function returns to a caller that is now inside once more.
ReturnInside(t) ==
  /\ Goto(t, "outside")
  /\ held' = [held EXCEPT ![t] = @ + 1]

\* OwningThread and RecursionCount after the lock was obtained.
TakeOwnership(t) ==
  /\ RecursionCount' = 1
  /\ OwningThread' = t

CallEnter(t) ==
  /\ pc[t] = "outside" /\ held[t] < MaxDepth
  /\ call' = [call EXCEPT ![t] = "Enter"]
  /\ spins' = [spins EXCEPT ![t] = SpinCount]
  /\ Goto(t, IF SpinCount > 0 THEN "cas" ELSE "inc")
  /\ UNCHANGED <<section, held>>

CallTryEnter(t) ==
  /\ pc[t] = "outside" /\ held[t] < MaxDepth
  /\ call' = [call EXCEPT ![t] = "TryEnter"]
  /\ Goto(t, "cas")
  /\ UNCHANGED <<section, spins, held>>

\* InterlockedCompareExchange(&LockCount, 0, -1) == -1, and what follows it.
CompareExchange(t, onFailure) ==
  \/ /\ LockCount = -1
     /\ LockCount' = 0
     /\ Goto(t, "own")
  \/ /\ LockCount # -1
     /\ Goto(t, onFailure)
     /\ UNCHANGED LockCount

TryCas(t) ==
  /\ pc[t] = "cas"
  /\ CompareExchange(t, "tryOwner")
  /\ UNCHANGED <<RecursionCount, OwningThread, LockSemaphore, call, spins, held>>

\* A failed try is over, or goes on with the spinning of EnterCriticalSection.
TryOwner(t) ==
  /\ pc[t] = "tryOwner"
  /\ \/ /\ OwningThread = t
        /\ RecursionCount' = RecursionCount + 1
        /\ Goto(t, "tryInc")
     \/ /\ OwningThread # t
        /\ Goto(t, IF call[t] = "Enter" THEN "spin" ELSE "outside")
        /\ UNCHANGED RecursionCount
  /\ UNCHANGED <<LockCount, OwningThread, LockSemaphore, call, spins, held>>

TryInc(t) ==
  /\ pc[t] = "tryInc"
  /\ LockCount' = LockCount + 1
  /\ ReturnInside(t)
  /\ UNCHANGED <<RecursionCount, OwningThread, LockSemaphore, call, spins>>

\* while (SpinCount-- && LockCount < 1)
Spin(t) ==
  /\ pc[t] = "spin"
  /\ IF spins[t] > 0
       THEN /\ spins' = [spins EXCEPT ![t] = @ - 1]
            /\ Goto(t, IF LockCount < 1 THEN "spinCas" ELSE "inc")
       ELSE Goto(t, "inc") /\ UNCHANGED spins
  /\ UNCHANGED <<section, call, held>>

SpinCas(t) ==
  /\ pc[t] = "spinCas"
  /\ CompareExchange(t, "spin")
  /\ UNCHANGED <<RecursionCount, OwningThread, LockSemaphore, call, spins, held>>

Increment(t) ==
  /\ pc[t] = "inc"
  /\ LockCount' = LockCount + 1
  /\ Goto(t, IF LockCount' # 0 THEN "incOwner" ELSE "own")
  /\ UNCHANGED <<RecursionCount, OwningThread, LockSemaphore, call, spins, held>>

IncOwner(t) ==
  /\ pc[t] = "incOwner"
  /\ \/ /\ OwningThread = t
        /\ RecursionCount' = RecursionCount + 1
        /\ ReturnInside(t)
     \/ /\ OwningThread # t
        /\ Goto(t, "wait")
        /\ UNCHANGED <<RecursionCount, held>>
  /\ UNCHANGED <<LockCount, OwningThread, LockSemaphore, call, spins>>

_WaitForCriticalSection(t) ==
  /\ pc[t] = "wait"
  /\ LockSemaphore > 0
  /\ LockSemaphore' = LockSemaphore - 1
  /\ Goto(t, "own")
  /\ UNCHANGED <<LockCount, RecursionCount, OwningThread, call, spins, held>>

Own(t) ==
  /\ pc[t] = "own"
  /\ TakeOwnership(t)
  /\ ReturnInside(t)
  /\ UNCHANGED <<LockCount, LockSemaphore, call, spins>>

\* Mutated form: the last leave keeps OwningThread.
CallLeaveKeepsOwner(t) ==
  /\ pc[t] = "outside" /\ held[t] > 0
  /\ call' = [call EXCEPT ![t] = "Leave"]
  /\ held' = [held EXCEPT ![t] = @ - 1]
  /\ RecursionCount' = RecursionCount - 1
  /\ Goto(t, IF RecursionCount' < 1 THEN "decLast" ELSE "decInner")
  /\ UNCHANGED <<LockCount, OwningThread, LockSemaphore, spins>>

\* A caller leaves only what it entered.
CallLeave(t) ==
  /\ pc[t] = "outside" /\ held[t] > 0
  /\ call' = [call EXCEPT ![t] = "Leave"]
  /\ held' = [held EXCEPT ![t] = @ - 1]
  /\ RecursionCount' = RecursionCount - 1
  /\ IF RecursionCount' < 1
       THEN OwningThread' = NoThread /\ Goto(t, "decLast")
       ELSE UNCHANGED OwningThread /\ Goto(t, "decInner")
  /\ UNCHANGED <<LockCount, LockSemaphore, spins>>

\* Mutated form: the section is marked free and the waiters are forgotten.
LeaveLastReset(t) ==
  /\ pc[t] = "decLast"
  /\ LockCount' = -1
  /\ Goto(t, "outside")
  /\ UNCHANGED <<RecursionCount, OwningThread, LockSemaphore, call, spins, held>>

LeaveLast(t) ==
  /\ pc[t] = "decLast"
  /\ LockCount' = LockCount - 1
  /\ Goto(t, IF LockCount' >= 0 THEN "post" ELSE "outside")
  /\ UNCHANGED <<RecursionCount, OwningThread, LockSemaphore, call, spins, held>>

LeaveInner(t) ==
  /\ pc[t] = "decInner"
  /\ LockCount' = LockCount - 1
  /\ Goto(t, "outside")
  /\ UNCHANGED <<RecursionCount, OwningThread, LockSemaphore, call, spins, held>>

_UnWaitCriticalSection(t) ==
  /\ pc[t] = "post"
  /\ LockSemaphore' = LockSemaphore + 1
  /\ Goto(t, "outside")
  /\ UNCHANGED <<LockCount, RecursionCount, OwningThread, call, spins, held>>

\* The steps inside the functions, which the scheduler lets every thread take.
Run(t) ==
  \/ TryCas(t) \/ TryOwner(t) \/ TryInc(t)
  \/ Spin(t) \/ SpinCas(t) \/ Increment(t) \/ IncOwner(t)
  \/ _WaitForCriticalSection(t) \/ Own(t)
  \/ LeaveLast(t) \/ LeaveInner(t) \/ _UnWaitCriticalSection(t)

Next ==
  \E t \in Threads : CallEnter(t) \/ CallTryEnter(t) \/ CallLeave(t) \/ Run(t)

Spec == Init /\ [][Next]_vars

\* Threads inside a function are scheduled.  A caller inside ends its nested
\* sections and then the outermost one: the sections of the code are blocks.
Fairness ==
  \A t \in Threads :
    /\ WF_vars(Run(t))
    /\ WF_vars(CallLeave(t))
    /\ SF_vars(held[t] = 1 /\ CallLeave(t))

FairSpec == Spec /\ Fairness

----------------------------------------------------------------------------

\* The fields of RTL_CRITICAL_SECTION and the threads have their types; the
\* semaphore's value is never negative.
TypeOK ==
  /\ LockCount \in Int
  /\ RecursionCount \in Int
  /\ OwningThread \in Threads \cup {NoThread}
  /\ LockSemaphore \in Nat
  /\ pc \in [Threads -> Steps]
  /\ call \in [Threads -> Calls]
  /\ spins \in [Threads -> Nat]
  /\ held \in [Threads -> Nat]

\* t has the lock: inside, about to store its ownership, or leaving and not
\* yet past the decrement.
Holds(t) == held[t] > 0 \/ pc[t] \in {"own", "decLast"}

\* t has taken a ticket in LockCount and does not have the lock.
Queued(t) == pc[t] = "wait" \/ (pc[t] = "incOwner" /\ ~Holds(t))

\* The part of LockCount + 1 that the calls of t account for.
Tickets(t) ==
  held[t] + (IF pc[t] \in {"own", "decLast", "decInner", "incOwner", "wait"}
               THEN 1 ELSE 0)

\* Mutual exclusion: EnterCriticalSection and TryEnterCriticalSection never
\* let a thread in while another has the lock or is still giving it up.
MutualExclusion ==
  \A t, u \in Threads : Holds(t) /\ Holds(u) => t = u

\* The contract stated at InitializeCriticalSectionEx: LockCount counts the
\* calls to enter that have not been left, of all threads, minus one.  A
\* thread that holds the section has Tickets(t) of them, each queued one has one.
LockCountIsCalls ==
  /\ \A t \in Threads : Holds(t) =>
       LockCount + 1 = Tickets(t) + Cardinality({u \in Threads : Queued(u)})
  /\ (\A t \in Threads : ~Holds(t)) =>
       LockCount + 1 = Cardinality({u \in Threads : Queued(u)})

\* No wake-up is lost or doubled: while the section is not free, exactly one of
\* these is true: a thread has it, a thread is about to signal the semaphore,
\* the semaphore is signalled.  A waiting thread implies the section is not free.
OneToken ==
  LET givers == {t \in Threads : Holds(t) \/ pc[t] = "post"} IN
  Cardinality(givers) + LockSemaphore = IF LockCount = -1 THEN 0 ELSE 1

\* Whenever threads wait for the semaphore, one of them is let in later.
HandOff ==
  (\E t \in Threads : pc[t] = "wait")
    ~> (\E t \in Threads : pc[t] = "own" /\ call[t] = "Enter")

Lock == INSTANCE RecursiveLock

\* The code implements the recursive lock its callers rely on.
ImplementsRecursiveLock == Lock!Spec
=============================================================================

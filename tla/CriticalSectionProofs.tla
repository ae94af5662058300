----------------------- MODULE CriticalSectionProofs -----------------------
(***************************************************************************)
(* For every finite set of threads, every spin count and every depth:      *)
(* WinPR's critical section keeps its counters meaningful, hands over one  *)
(* token, excludes, and implements RecursiveLock.                          *)
(***************************************************************************)
EXTENDS CriticalSection, FiniteSetTheorems, TLAPS

Q == {u \in Threads : Queued(u)}

Token(t) == Holds(t) \/ pc[t] = "post"

\* A thread has the lock, signals or has signalled, one of them at most; none
\* exactly when LockCount says the section is free.
TokenInv ==
  /\ \A t, u \in Threads : Token(t) /\ Token(u) => t = u
  /\ LockSemaphore \in {0, 1}
  /\ LockSemaphore = 1 => \A t \in Threads : ~Token(t)
  /\ LockCount = -1 <=> (LockSemaphore = 0 /\ \A t \in Threads : ~Token(t))

CountInv ==
  /\ \A t \in Threads : Holds(t) => LockCount + 1 = Tickets(t) + Cardinality(Q)
  /\ (\A t \in Threads : ~Holds(t)) => LockCount + 1 = Cardinality(Q)

\* OwningThread and RecursionCount are those of the thread inside.
OwnerInv ==
  \A t \in Threads :
    /\ OwningThread = t <=> held[t] > 0
    /\ held[t] > 0 => RecursionCount = held[t] + (IF pc[t] = "tryInc" THEN 1 ELSE 0)
    /\ pc[t] \in {"own", "decLast", "post", "wait", "spin", "spinCas"} => held[t] = 0
    /\ pc[t] \in {"tryInc", "decInner"} => held[t] > 0

IInv == TypeOK /\ TokenInv /\ CountInv /\ OwnerInv

----------------------------------------------------------------------------

\* The queued threads are finitely many.
LEMMA QueuedFinite == IsFiniteSet(Q) /\ Cardinality(Q) \in Nat
BY ThreadsAssumption, FS_Subset, FS_CardinalityType DEF Q

\* The count of a set grows and shrinks by one with its elements.
LEMMA CountChange ==
  ASSUME NEW S, IsFiniteSet(S), NEW x
  PROVE  /\ x \notin S => Cardinality(S \cup {x}) = Cardinality(S) + 1
         /\ x \in S => Cardinality(S \ {x}) = Cardinality(S) - 1
         /\ Cardinality(S) \in Nat
BY FS_AddElement, FS_RemoveElement, FS_CardinalityType

\* The section as InitializeCriticalSectionEx leaves it satisfies IInv.
LEMMA InitIInv == Init => IInv
<1> SUFFICES ASSUME Init PROVE IInv
  OBVIOUS
<1>1. TypeOK
  BY DEF Init, TypeOK, Steps, Calls
<1>2. \A t \in Threads : held[t] = 0 /\ pc[t] = "outside"
  BY DEF Init
<1>3. \A t \in Threads : ~Holds(t) /\ ~Token(t) /\ ~Queued(t)
  BY <1>2 DEF Holds, Token, Queued
<1>4. Cardinality(Q) = 0
  BY <1>3, FS_EmptySet DEF Q
<1>5. TokenInv /\ CountInv
  BY <1>3, <1>4 DEF TokenInv, CountInv, Init
<1>6. OwnerInv
  BY <1>2, ThreadsAssumption DEF OwnerInv, Init
<1> QED
  BY <1>1, <1>5, <1>6 DEF IInv

----------------------------------------------------------------------------

\* Every step of every thread keeps the variables in their types.
LEMMA StepTypeOK == IInv /\ [Next]_vars => TypeOK'
<1> SUFFICES ASSUME IInv, [Next]_vars PROVE TypeOK'
  OBVIOUS
<1> USE SpinAssumption, DepthAssumption DEF IInv, TypeOK, Steps, Calls, section
<1>1. CASE UNCHANGED vars
  BY <1>1 DEF vars
<1>2. CASE Next
  <2> PICK t \in Threads : CallEnter(t) \/ CallTryEnter(t) \/ CallLeave(t) \/ Run(t)
    BY <1>2 DEF Next
  <2>1. CASE CallEnter(t)
    BY <2>1 DEF CallEnter, Goto
  <2>2. CASE CallTryEnter(t)
    BY <2>2 DEF CallTryEnter, Goto
  <2>3. CASE CallLeave(t)
    BY <2>3 DEF CallLeave, Goto
  <2>4. CASE TryCas(t)
    BY <2>4 DEF TryCas, CompareExchange, Goto
  <2>5. CASE TryOwner(t)
    BY <2>5 DEF TryOwner, Goto
  <2>6. CASE TryInc(t)
    BY <2>6 DEF TryInc, ReturnInside, Goto
  <2>7. CASE Spin(t)
    BY <2>7 DEF Spin, Goto
  <2>8. CASE SpinCas(t)
    BY <2>8 DEF SpinCas, CompareExchange, Goto
  <2>9. CASE Increment(t)
    BY <2>9 DEF Increment, Goto
  <2>10. CASE IncOwner(t)
    BY <2>10 DEF IncOwner, ReturnInside, Goto
  <2>11. CASE _WaitForCriticalSection(t)
    BY <2>11 DEF _WaitForCriticalSection, Goto
  <2>12. CASE Own(t)
    BY <2>12 DEF Own, TakeOwnership, ReturnInside, Goto
  <2>13. CASE LeaveLast(t)
    BY <2>13 DEF LeaveLast, Goto
  <2>14. CASE LeaveInner(t)
    BY <2>14 DEF LeaveInner, Goto
  <2>15. CASE _UnWaitCriticalSection(t)
    BY <2>15 DEF _UnWaitCriticalSection, Goto
  <2> QED
    BY <2>1, <2>2, <2>3, <2>4, <2>5, <2>6, <2>7, <2>8, <2>9, <2>10, <2>11,
       <2>12, <2>13, <2>14, <2>15 DEF Run
<1> QED
  BY <1>1, <1>2
----------------------------------------------------------------------------

\* Every step keeps the token, the counters and the ownership consistent.
LEMMA StepIInv == IInv /\ [Next]_vars => IInv'
<1> SUFFICES ASSUME IInv, [Next]_vars PROVE IInv'
  OBVIOUS
<1>0. TypeOK'
  BY StepTypeOK
<1>1. CASE UNCHANGED vars
  BY <1>1 DEF vars, section, IInv, TypeOK, TokenInv, CountInv, OwnerInv, Q,
              Token, Holds, Queued, Tickets
<1>2. CASE Next
  <2> PICK t \in Threads : CallEnter(t) \/ CallTryEnter(t) \/ CallLeave(t) \/ Run(t)
    BY <1>2 DEF Next
  <2> USE <1>0 DEF IInv
  <2>0. Cardinality(Q) \in Nat /\ IsFiniteSet(Q)
    BY QueuedFinite
  <2>1. CASE CallEnter(t)
    <3>1. Q' = Q
      BY <2>1 DEF CallEnter, Goto, Q, Queued, Holds, TypeOK, OwnerInv, TokenInv, Token, section
    <3>2. TokenInv'
      BY <2>1, <2>0 DEF CallEnter, Goto, TokenInv, CountInv, OwnerInv, Token, Holds, Tickets, TypeOK, section
    <3>3. OwnerInv'
      BY <2>1, ThreadsAssumption DEF CallEnter, Goto, OwnerInv, TokenInv, Token, Holds, TypeOK, section
    <3>4. CountInv'
      BY <2>1, <3>1, <2>0 DEF CallEnter, Goto, CountInv, OwnerInv, TokenInv, Token, Holds, Tickets, TypeOK, section
    <3> QED
      BY <3>2, <3>3, <3>4
  <2>2. CASE CallTryEnter(t)
    <3>1. Q' = Q
      BY <2>2 DEF CallTryEnter, Goto, Q, Queued, Holds, TypeOK, OwnerInv, TokenInv, Token, section
    <3>2. TokenInv'
      BY <2>2, <2>0 DEF CallTryEnter, Goto, TokenInv, CountInv, OwnerInv, Token, Holds, Tickets, TypeOK, section
    <3>3. OwnerInv'
      BY <2>2, ThreadsAssumption DEF CallTryEnter, Goto, OwnerInv, TokenInv, Token, Holds, TypeOK, section
    <3>4. CountInv'
      BY <2>2, <3>1, <2>0 DEF CallTryEnter, Goto, CountInv, OwnerInv, TokenInv, Token, Holds, Tickets, TypeOK, section
    <3> QED
      BY <3>2, <3>3, <3>4
  <2>3. CASE CallLeave(t)
    <3>1. Q' = Q
      BY <2>3 DEF CallLeave, Goto, Q, Queued, Holds, TypeOK, OwnerInv, TokenInv, Token, section
    <3>2. TokenInv'
      BY <2>3, <2>0 DEF CallLeave, Goto, TokenInv, CountInv, OwnerInv, Token, Holds, Tickets, TypeOK, section
    <3>3. OwnerInv'
      BY <2>3, ThreadsAssumption DEF CallLeave, Goto, OwnerInv, TokenInv, Token, Holds, TypeOK, section
    <3>4. CountInv'
      BY <2>3, <3>1, <2>0 DEF CallLeave, Goto, CountInv, OwnerInv, TokenInv, Token, Holds, Tickets, TypeOK, section
    <3> QED
      BY <3>2, <3>3, <3>4
  <2>4. CASE TryCas(t)
    <3>1. Q' = Q
      BY <2>4 DEF TryCas, CompareExchange, Goto, Q, Queued, Holds, TypeOK, OwnerInv, TokenInv, Token, section
    <3>2. TokenInv'
      BY <2>4, <2>0 DEF TryCas, CompareExchange, Goto, TokenInv, CountInv, OwnerInv, Token, Holds, Tickets, TypeOK, section
    <3>3. OwnerInv'
      BY <2>4, ThreadsAssumption DEF TryCas, CompareExchange, Goto, OwnerInv, TokenInv, Token, Holds, TypeOK, section
    <3>4. CountInv'
      BY <2>4, <3>1, <2>0 DEF TryCas, CompareExchange, Goto, CountInv, OwnerInv, TokenInv, Token, Holds, Tickets, TypeOK, section
    <3> QED
      BY <3>2, <3>3, <3>4
  <2>5. CASE TryOwner(t)
    <3>1. Q' = Q
      BY <2>5 DEF TryOwner, Goto, Q, Queued, Holds, TypeOK, OwnerInv, TokenInv, Token, section
    <3>2. TokenInv'
      BY <2>5, <2>0 DEF TryOwner, Goto, TokenInv, CountInv, OwnerInv, Token, Holds, Tickets, TypeOK, section
    <3>3. OwnerInv'
      BY <2>5, ThreadsAssumption DEF TryOwner, Goto, OwnerInv, TokenInv, Token, Holds, TypeOK, section
    <3>4. CountInv'
      BY <2>5, <3>1, <2>0 DEF TryOwner, Goto, CountInv, OwnerInv, TokenInv, Token, Holds, Tickets, TypeOK, section
    <3> QED
      BY <3>2, <3>3, <3>4
  <2>6. CASE TryInc(t)
    <3>1. Q' = Q
      BY <2>6 DEF TryInc, ReturnInside, Goto, Q, Queued, Holds, TypeOK, OwnerInv, TokenInv, Token, section
    <3>2. TokenInv'
      BY <2>6, <2>0 DEF TryInc, ReturnInside, Goto, TokenInv, CountInv, OwnerInv, Token, Holds, Tickets, TypeOK, section
    <3>3. OwnerInv'
      BY <2>6, ThreadsAssumption DEF TryInc, ReturnInside, Goto, OwnerInv, TokenInv, Token, Holds, TypeOK, section
    <3>4. CountInv'
      BY <2>6, <3>1, <2>0 DEF TryInc, ReturnInside, Goto, CountInv, OwnerInv, TokenInv, Token, Holds, Tickets, TypeOK, section
    <3> QED
      BY <3>2, <3>3, <3>4
  <2>7. CASE Spin(t)
    <3>1. Q' = Q
      BY <2>7 DEF Spin, Goto, Q, Queued, Holds, TypeOK, OwnerInv, TokenInv, Token, section
    <3>2. TokenInv'
      BY <2>7, <2>0 DEF Spin, Goto, TokenInv, CountInv, OwnerInv, Token, Holds, Tickets, TypeOK, section
    <3>3. OwnerInv'
      BY <2>7, ThreadsAssumption DEF Spin, Goto, OwnerInv, TokenInv, Token, Holds, TypeOK, section
    <3>4. CountInv'
      BY <2>7, <3>1, <2>0 DEF Spin, Goto, CountInv, OwnerInv, TokenInv, Token, Holds, Tickets, TypeOK, section
    <3> QED
      BY <3>2, <3>3, <3>4
  <2>8. CASE SpinCas(t)
    <3>1. Q' = Q
      BY <2>8 DEF SpinCas, CompareExchange, Goto, Q, Queued, Holds, TypeOK, OwnerInv, TokenInv, Token, section
    <3>2. TokenInv'
      BY <2>8, <2>0 DEF SpinCas, CompareExchange, Goto, TokenInv, CountInv, OwnerInv, Token, Holds, Tickets, TypeOK, section
    <3>3. OwnerInv'
      BY <2>8, ThreadsAssumption DEF SpinCas, CompareExchange, Goto, OwnerInv, TokenInv, Token, Holds, TypeOK, section
    <3>4. CountInv'
      BY <2>8, <3>1, <2>0 DEF SpinCas, CompareExchange, Goto, CountInv, OwnerInv, TokenInv, Token, Holds, Tickets, TypeOK, section
    <3> QED
      BY <3>2, <3>3, <3>4
  <2>9. CASE Increment(t)
    <3>1. Q' = IF LockCount = -1 \/ Holds(t) THEN Q ELSE Q \cup {t}
      BY <2>9 DEF Increment, Goto, Q, Queued, Holds, TypeOK, OwnerInv
    <3>a. t \notin Q
      BY <2>9 DEF Increment, Q, Queued
    <3>b. Cardinality(Q') = IF LockCount = -1 \/ Holds(t) THEN Cardinality(Q) ELSE Cardinality(Q) + 1
      BY <3>1, <3>a, <2>0, CountChange
    <3>2. TokenInv'
      BY <2>9, <2>0 DEF Increment, Goto, TokenInv, CountInv, OwnerInv, Token, Holds, Tickets, TypeOK, section
    <3>3. OwnerInv'
      BY <2>9, ThreadsAssumption DEF Increment, Goto, OwnerInv, TokenInv, Token, Holds, TypeOK, section
    <3>4. CountInv'
      BY <2>9, <3>b, <2>0 DEF Increment, Goto, CountInv, OwnerInv, TokenInv, Token, Holds, Tickets, TypeOK, section
    <3> QED
      BY <3>2, <3>3, <3>4
  <2>10. CASE IncOwner(t)
    <3>1. Q' = Q
      BY <2>10 DEF IncOwner, ReturnInside, Goto, Q, Queued, Holds, TypeOK, OwnerInv, TokenInv, Token, section
    <3>2. TokenInv'
      BY <2>10, <2>0 DEF IncOwner, ReturnInside, Goto, TokenInv, CountInv, OwnerInv, Token, Holds, Tickets, TypeOK, section
    <3>3. OwnerInv'
      BY <2>10, ThreadsAssumption DEF IncOwner, ReturnInside, Goto, OwnerInv, TokenInv, Token, Holds, TypeOK, section
    <3>4. CountInv'
      BY <2>10, <3>1, <2>0 DEF IncOwner, ReturnInside, Goto, CountInv, OwnerInv, TokenInv, Token, Holds, Tickets, TypeOK, section
    <3> QED
      BY <3>2, <3>3, <3>4
  <2>11. CASE _WaitForCriticalSection(t)
    <3>1. Q' = Q \ {t} /\ t \in Q
      BY <2>11 DEF _WaitForCriticalSection, Goto, Q, Queued, Holds, TypeOK, OwnerInv
    <3>b. Cardinality(Q') = Cardinality(Q) - 1
      BY <3>1, <2>0, CountChange
    <3>2. TokenInv'
      BY <2>11, <2>0 DEF _WaitForCriticalSection, Goto, TokenInv, CountInv, OwnerInv, Token, Holds, Tickets, TypeOK, section
    <3>3. OwnerInv'
      BY <2>11, ThreadsAssumption DEF _WaitForCriticalSection, Goto, OwnerInv, TokenInv, Token, Holds, TypeOK, section
    <3>4. CountInv'
      BY <2>11, <3>b, <2>0 DEF _WaitForCriticalSection, Goto, CountInv, OwnerInv, TokenInv, Token, Holds, Tickets, TypeOK, section
    <3> QED
      BY <3>2, <3>3, <3>4
  <2>12. CASE Own(t)
    <3>1. Q' = Q
      BY <2>12 DEF Own, TakeOwnership, ReturnInside, Goto, Q, Queued, Holds, TypeOK, OwnerInv, TokenInv, Token, section
    <3>2. TokenInv'
      BY <2>12, <2>0 DEF Own, TakeOwnership, ReturnInside, Goto, TokenInv, CountInv, OwnerInv, Token, Holds, Tickets, TypeOK, section
    <3>3. OwnerInv'
      BY <2>12, ThreadsAssumption DEF Own, TakeOwnership, ReturnInside, Goto, OwnerInv, TokenInv, Token, Holds, TypeOK, section
    <3>4. CountInv'
      BY <2>12, <3>1, <2>0 DEF Own, TakeOwnership, ReturnInside, Goto, CountInv, OwnerInv, TokenInv, Token, Holds, Tickets, TypeOK, section
    <3> QED
      BY <3>2, <3>3, <3>4
  <2>13. CASE LeaveLast(t)
    <3>1. Q' = Q
      BY <2>13 DEF LeaveLast, Goto, Q, Queued, Holds, TypeOK, OwnerInv, TokenInv, Token, section
    <3>2. TokenInv'
      BY <2>13, <2>0 DEF LeaveLast, Goto, TokenInv, CountInv, OwnerInv, Token, Holds, Tickets, TypeOK, section
    <3>3. OwnerInv'
      BY <2>13, ThreadsAssumption DEF LeaveLast, Goto, OwnerInv, TokenInv, Token, Holds, TypeOK, section
    <3>4. CountInv'
      BY <2>13, <3>1, <2>0 DEF LeaveLast, Goto, CountInv, OwnerInv, TokenInv, Token, Holds, Tickets, TypeOK, section
    <3> QED
      BY <3>2, <3>3, <3>4
  <2>14. CASE LeaveInner(t)
    <3>1. Q' = Q
      BY <2>14 DEF LeaveInner, Goto, Q, Queued, Holds, TypeOK, OwnerInv, TokenInv, Token, section
    <3>2. TokenInv'
      BY <2>14, <2>0 DEF LeaveInner, Goto, TokenInv, CountInv, OwnerInv, Token, Holds, Tickets, TypeOK, section
    <3>3. OwnerInv'
      BY <2>14, ThreadsAssumption DEF LeaveInner, Goto, OwnerInv, TokenInv, Token, Holds, TypeOK, section
    <3>4. CountInv'
      BY <2>14, <3>1, <2>0 DEF LeaveInner, Goto, CountInv, OwnerInv, TokenInv, Token, Holds, Tickets, TypeOK, section
    <3> QED
      BY <3>2, <3>3, <3>4
  <2>15. CASE _UnWaitCriticalSection(t)
    <3>1. Q' = Q
      BY <2>15 DEF _UnWaitCriticalSection, Goto, Q, Queued, Holds, TypeOK, OwnerInv, TokenInv, Token, section
    <3>2. TokenInv'
      BY <2>15, <2>0 DEF _UnWaitCriticalSection, Goto, TokenInv, CountInv, OwnerInv, Token, Holds, Tickets, TypeOK, section
    <3>3. OwnerInv'
      BY <2>15, ThreadsAssumption DEF _UnWaitCriticalSection, Goto, OwnerInv, TokenInv, Token, Holds, TypeOK, section
    <3>4. CountInv'
      BY <2>15, <3>1, <2>0 DEF _UnWaitCriticalSection, Goto, CountInv, OwnerInv, TokenInv, Token, Holds, Tickets, TypeOK, section
    <3> QED
      BY <3>2, <3>3, <3>4
  <2> QED
    BY <2>1, <2>2, <2>3, <2>4, <2>5, <2>6, <2>7, <2>8, <2>9, <2>10, <2>11,
       <2>12, <2>13, <2>14, <2>15 DEF Run
<1> QED
  BY <1>1, <1>2
----------------------------------------------------------------------------

\* The inductive invariant holds in every reachable state.
THEOREM Invariant == Spec => []IInv
BY InitIInv, StepIInv, PTL DEF Spec

\* The variables keep their types (every function of critical.c).
THEOREM TypeCorrect == Spec => []TypeOK
<1>1. IInv => TypeOK
  BY DEF IInv
<1> QED
  BY <1>1, Invariant, PTL

\* No two threads have the section at once, however many threads enter, try,
\* spin, recurse, wait and leave (EnterCriticalSection to LeaveCriticalSection).
THEOREM MutualExclusionHolds == Spec => []MutualExclusion
<1>1. IInv => MutualExclusion
  BY DEF IInv, TokenInv, Token, MutualExclusion
<1> QED
  BY <1>1, Invariant, PTL

\* LockCount is what the comment at InitializeCriticalSectionEx says it is.
THEOREM LockCountHolds == Spec => []LockCountIsCalls
<1>1. IInv => LockCountIsCalls
  BY DEF IInv, CountInv, LockCountIsCalls, Q
<1> QED
  BY <1>1, Invariant, PTL

\* LeaveCriticalSection signals the semaphore exactly when a thread is there
\* to take the lock, so no wake-up is lost and none is left over.
THEOREM OneTokenHolds == Spec => []OneToken
<1>1. ASSUME IInv PROVE OneToken
  <2> DEFINE givers == {t \in Threads : Token(t)}
  <2>1. CASE \A t \in Threads : ~Token(t)
    <3>1. givers = {}
      BY <2>1
    <3>2. Cardinality(givers) = 0
      BY <3>1, FS_EmptySet
    <3> QED
      BY <1>1, <2>1, <3>2 DEF IInv, TokenInv, OneToken, Token
  <2>2. CASE \E t \in Threads : Token(t)
    <3>1. PICK t \in Threads : Token(t)
      BY <2>2
    <3>2. givers = {t}
      BY <1>1, <3>1 DEF IInv, TokenInv
    <3>3. Cardinality(givers) = 1
      BY <3>2, FS_Singleton
    <3> QED
      BY <1>1, <3>1, <3>3 DEF IInv, TokenInv, OneToken, Token
  <2> QED
    BY <2>1, <2>2
<1> QED
  BY <1>1, Invariant, PTL

\* The functions of critical.c implement the recursive lock: a call to enter
\* returns only when no other thread is inside, and leaving ends one entry.
THEOREM Refinement == Spec => ImplementsRecursiveLock
<1>1. Init => Lock!Init
  BY DEF Init, Lock!Init
<1>2. IInv /\ [Next]_vars => [Lock!Next]_held
  <2> SUFFICES ASSUME IInv, Next PROVE Lock!Next \/ UNCHANGED held
    BY DEF vars
  <2> PICK t \in Threads : CallEnter(t) \/ CallTryEnter(t) \/ CallLeave(t) \/ Run(t)
    BY DEF Next
  <2>1. CASE CallLeave(t)
    <3>1. Lock!Release(t)
      BY <2>1 DEF CallLeave, Lock!Release
    <3> QED
      BY <3>1 DEF Lock!Next
  <2>2. CASE held' = [held EXCEPT ![t] = @ + 1] /\ (Holds(t) \/ OwningThread = t)
    <3>1. Holds(t)
      BY <2>2 DEF IInv, OwnerInv, Holds
    <3>2. \A u \in Threads \ {t} : held[u] = 0
      BY <3>1 DEF IInv, TypeOK, TokenInv, Token, Holds
    <3>3. Lock!Acquire(t)
      BY <2>2, <3>2 DEF Lock!Acquire
    <3> QED
      BY <3>3 DEF Lock!Next
  <2>3. CASE TryInc(t) \/ IncOwner(t) \/ Own(t)
    BY <2>2, <2>3 DEF TryInc, IncOwner, Own, ReturnInside, Holds, IInv, OwnerInv
  <2>4. CASE \/ CallEnter(t) \/ CallTryEnter(t) \/ TryCas(t) \/ TryOwner(t)
             \/ Spin(t) \/ SpinCas(t) \/ Increment(t)
             \/ _WaitForCriticalSection(t) \/ LeaveLast(t) \/ LeaveInner(t)
             \/ _UnWaitCriticalSection(t)
    BY <2>4 DEF CallEnter, CallTryEnter, TryCas, TryOwner, Spin, SpinCas, Increment,
                _WaitForCriticalSection, LeaveLast, LeaveInner, _UnWaitCriticalSection
  <2> QED
    BY <2>1, <2>3, <2>4 DEF Run
<1> QED
  BY <1>1, <1>2, Invariant, PTL DEF Spec, ImplementsRecursiveLock, Lock!Spec
=============================================================================

--------------------------- MODULE RecursiveLock ---------------------------
(***************************************************************************)
(* What a critical section promises its callers: one thread at a time is   *)
(* inside, and the thread inside may enter again and must leave as often   *)
(* as it entered.  CriticalSection implements this specification.          *)
(***************************************************************************)
EXTENDS Naturals

CONSTANT Threads

VARIABLE held    \* held[t]: calls of t that entered and have not been left

Init == held = [t \in Threads |-> 0]

\* A call to enter returns: no other thread is inside.
Acquire(t) ==
  /\ \A u \in Threads \ {t} : held[u] = 0
  /\ held' = [held EXCEPT ![t] = @ + 1]

\* A call to leave begins.
Release(t) ==
  /\ held[t] > 0
  /\ held' = [held EXCEPT ![t] = @ - 1]

Next == \E t \in Threads : Acquire(t) \/ Release(t)

Spec == Init /\ [][Next]_held
=============================================================================

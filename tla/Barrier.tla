------------------------------ MODULE Barrier ------------------------------
(***************************************************************************)
(* The synchronization barrier of WinPR (winpr/libwinpr/synch/barrier.c).  *)
(* One step of a thread is one access to the barrier structure or to one   *)
(* of its two events.  The same threads use the barrier for one round      *)
(* after the other, so a thread may still be leaving a round while others  *)
(* are in the next.                                                        *)
(***************************************************************************)
EXTENDS Integers, FiniteSets

CONSTANTS
  BarrierThreads,  \* the threads the barrier waits for
  Processors,      \* Reserved4: the number of processors
  MaxRounds        \* bound: rounds between initialization and deletion

ASSUME BarrierThreadsAssumption == IsFiniteSet(BarrierThreads) /\ BarrierThreads # {}
ASSUME ProcessorsAssumption     == Processors \in Nat
ASSUME RoundsAssumption         == MaxRounds \in Nat

VARIABLES
  remaining,  \* Reserved1: threads that have not yet entered
  current,    \* Reserved3[0]: the event of this round
  dormant,    \* Reserved3[1]: the event of the next
  signaled,   \* signaled[e]: the manual-reset event e is set
  at,         \* at[t]: the access t makes next
  flags,      \* flags[t]: dwFlags
  hCurrent,   \* hCurrent[t], hDormant[t]: the local variables of that name
  hDormant,
  entered,    \* entered[t]: rounds that t has entered (observed)
  left,       \* left[t]: rounds from which t has returned (observed)
  serial      \* calls that returned TRUE (observed)

barrierVars == <<remaining, current, dormant, signaled, at, flags, hCurrent, hDormant, entered, left, serial>>

Events == {0, 1}
TotalThreads == Cardinality(BarrierThreads)   \* Reserved2

\* SPIN_ONLY, BLOCK_ONLY or neither of the two (SPIN_ONLY wins over BLOCK_ONLY).
Flags == {"spinOnly", "blockOnly", "none"}

Places == {"outside", "readDormant", "decrement", "spin", "block",
           "reset", "refill", "setDormant", "setCurrent", "signal"}

BarrierInit ==   \* InitializeSynchronizationBarrier
  /\ remaining = TotalThreads
  /\ current = 0 /\ dormant = 1
  /\ signaled = [e \in Events |-> FALSE]
  /\ entered = [t \in BarrierThreads |-> 0]
  /\ left = [t \in BarrierThreads |-> 0]
  /\ serial = 0
  /\ at = [t \in BarrierThreads |-> "outside"]
  /\ flags = [t \in BarrierThreads |-> "none"]
  /\ hCurrent = [t \in BarrierThreads |-> 0]
  /\ hDormant = [t \in BarrierThreads |-> 0]

----------------------------------------------------------------------------
(* EnterSynchronizationBarrier.                                            *)

MoveTo(t, p) == at' = [at EXCEPT ![t] = p]

ReadCurrent(t, f) ==
  /\ at[t] = "outside" /\ left[t] < MaxRounds
  /\ flags' = [flags EXCEPT ![t] = f]
  /\ hCurrent' = [hCurrent EXCEPT ![t] = current]
  /\ MoveTo(t, "readDormant")
  /\ UNCHANGED <<remaining, current, dormant, signaled, hDormant, entered, left, serial>>

ReadDormant(t) ==
  /\ at[t] = "readDormant"
  /\ hDormant' = [hDormant EXCEPT ![t] = dormant]
  /\ MoveTo(t, "decrement")
  /\ UNCHANGED <<remaining, current, dormant, signaled, flags, hCurrent, entered, left, serial>>

\* Where a thread goes that is not the last one.
Spins(t, n) == flags[t] = "spinOnly" \/ (n < Processors /\ flags[t] # "blockOnly")

\* Mutated form of Decrement: the last but one thread counts as the last.
DecrementEarly(t) ==
  /\ at[t] = "decrement"
  /\ remaining' = remaining - 1
  /\ entered' = [entered EXCEPT ![t] = @ + 1]
  /\ MoveTo(t, IF remaining' <= 1 THEN "reset" ELSE IF Spins(t, remaining') THEN "spin" ELSE "block")
  /\ UNCHANGED <<current, dormant, signaled, flags, hCurrent, hDormant, left, serial>>

Decrement(t) ==
  /\ at[t] = "decrement"
  /\ remaining' = remaining - 1
  /\ entered' = [entered EXCEPT ![t] = @ + 1]
  /\ MoveTo(t, IF remaining' = 0 THEN "reset" ELSE IF Spins(t, remaining') THEN "spin" ELSE "block")
  /\ UNCHANGED <<current, dormant, signaled, flags, hCurrent, hDormant, left, serial>>

\* return FALSE
ReturnFalse(t) ==
  /\ MoveTo(t, "outside")
  /\ left' = [left EXCEPT ![t] = @ + 1]
  /\ UNCHANGED <<remaining, current, dormant, signaled, flags, hCurrent, hDormant, entered, serial>>

SpinOnce(t) == at[t] = "spin" /\ current # hCurrent[t] /\ ReturnFalse(t)

\* The spin count is used up before the events are switched.
StopSpinning(t) ==
  /\ at[t] = "spin" /\ flags[t] # "spinOnly" /\ current = hCurrent[t]
  /\ MoveTo(t, "block")
  /\ UNCHANGED <<remaining, current, dormant, signaled, flags, hCurrent, hDormant, entered, left, serial>>

Block(t) == at[t] = "block" /\ signaled[hCurrent[t]] /\ ReturnFalse(t)

ResetDormant(t) ==
  /\ at[t] = "reset"
  /\ signaled' = [signaled EXCEPT ![hDormant[t]] = FALSE]
  /\ MoveTo(t, "refill")
  /\ UNCHANGED <<remaining, current, dormant, flags, hCurrent, hDormant, entered, left, serial>>

Refill(t) ==
  /\ at[t] = "refill"
  /\ remaining' = TotalThreads
  /\ MoveTo(t, "setDormant")
  /\ UNCHANGED <<current, dormant, signaled, flags, hCurrent, hDormant, entered, left, serial>>

SetDormant(t) ==
  /\ at[t] = "setDormant"
  /\ dormant' = hCurrent[t]
  /\ MoveTo(t, "setCurrent")
  /\ UNCHANGED <<remaining, current, signaled, flags, hCurrent, hDormant, entered, left, serial>>

\* Mutated form of SetCurrent: the events are not switched.
SetCurrentAgain(t) ==
  /\ at[t] = "setCurrent"
  /\ MoveTo(t, "signal")
  /\ UNCHANGED <<remaining, current, dormant, signaled, flags, hCurrent, hDormant, entered, left, serial>>

SetCurrent(t) ==
  /\ at[t] = "setCurrent"
  /\ current' = hDormant[t]
  /\ MoveTo(t, "signal")
  /\ UNCHANGED <<remaining, dormant, signaled, flags, hCurrent, hDormant, entered, left, serial>>

\* SetEvent(hCurrentEvent); return TRUE
SignalBlocked(t) ==
  /\ at[t] = "signal"
  /\ signaled' = [signaled EXCEPT ![hCurrent[t]] = TRUE]
  /\ MoveTo(t, "outside")
  /\ left' = [left EXCEPT ![t] = @ + 1]
  /\ serial' = serial + 1
  /\ UNCHANGED <<remaining, current, dormant, flags, hCurrent, hDormant, entered>>

----------------------------------------------------------------------------

BarrierStep(t) ==
  \/ \E f \in Flags : ReadCurrent(t, f)
  \/ ReadDormant(t) \/ Decrement(t)
  \/ SpinOnce(t) \/ StopSpinning(t) \/ Block(t)
  \/ ResetDormant(t) \/ Refill(t) \/ SetDormant(t) \/ SetCurrent(t) \/ SignalBlocked(t)

\* DeleteSynchronizationBarrier, by an owner that has joined the threads, waits
\* until remaining is the total; then the structure is initialized again.
DeleteBarrier ==
  /\ \A t \in BarrierThreads : at[t] = "outside" /\ left[t] = MaxRounds
  /\ remaining = TotalThreads
  /\ current' = 0 /\ dormant' = 1
  /\ signaled' = [e \in Events |-> FALSE]
  /\ entered' = [t \in BarrierThreads |-> 0]
  /\ left' = [t \in BarrierThreads |-> 0]
  /\ serial' = 0
  /\ UNCHANGED <<remaining, at, flags, hCurrent, hDormant>>

BarrierNext == (\E t \in BarrierThreads : BarrierStep(t)) \/ DeleteBarrier

BarrierSpec == BarrierInit /\ [][BarrierNext]_barrierVars

----------------------------------------------------------------------------
(* Properties.                                                             *)

\* The types of the barrier's variables.
BarrierTypeOK ==
  /\ remaining \in 0..TotalThreads
  /\ current \in Events /\ dormant \in Events
  /\ signaled \in [Events -> BOOLEAN]
  /\ at \in [BarrierThreads -> Places]
  /\ flags \in [BarrierThreads -> Flags]
  /\ hCurrent \in [BarrierThreads -> Events]
  /\ hDormant \in [BarrierThreads -> Events]
  /\ entered \in [BarrierThreads -> Nat]
  /\ left \in [BarrierThreads -> Nat]
  /\ serial \in Nat

\* What a barrier is for: no thread returns from round r before every thread
\* has entered round r, whichever of spinning and blocking it uses and however
\* long the others take to leave the round before.
NobodyLeavesEarly == \A t, u \in BarrierThreads : left[t] <= entered[u]

\* EnterSynchronizationBarrier returns TRUE to one thread of each round, as
\* TestSynchBarrier counts it at the end.
OneSerialThread ==
  \A t \in BarrierThreads : (\A u \in BarrierThreads : left[u] = left[t]) => serial = left[t]

\* Once the threads have left, DeleteSynchronizationBarrier need not wait, and
\* the next round finds the barrier as it was made: the counter full, the two
\* events apart and this round's event reset.
RestsReady ==
  (\A t \in BarrierThreads : at[t] = "outside" /\ left[t] = entered[t])
    => remaining = TotalThreads /\ current # dormant /\ ~signaled[current]

\* Every thread that has entered returns, if all of them keep coming: none
\* blocks on an event that a later round has reset, and none spins on a switch
\* that it missed.
EveryoneReturns ==
  \A t \in BarrierThreads : at[t] # "outside" ~> at[t] = "outside"
=============================================================================

------------------------------ MODULE InitOnce ------------------------------
(***************************************************************************)
(* InitOnceExecuteOnce (winpr/libwinpr/synch/init.c), which guards the     *)
(* lazy initialization of WinPR's and FreeRDP's libraries (WSAStartup,     *)
(* OpenSSL, the log, the time zones).  One step is one access to           *)
(* InitOnce->Ptr, or one call of the caller's InitFn.                      *)
(***************************************************************************)
EXTENDS Integers, FiniteSets

CONSTANTS
  OnceThreads,  \* the threads that call InitOnceExecuteOnce
  MaxFailures   \* bound: calls of InitFn that fail

ASSUME FailuresAssumption == MaxFailures \in Nat

VARIABLES
  ptr,        \* InitOnce->Ptr: 0 not begun, 1 in progress, 2 done
  where,      \* where[t]: the place of t in the loop, or what t was returned
  completed,  \* calls of InitFn that succeeded (observed)
  failures    \* calls of InitFn that failed (observed)

onceVars == <<ptr, where, completed, failures>>

OnceInit ==   \* INIT_ONCE_STATIC_INIT
  /\ ptr = 0
  /\ where = [t \in OnceThreads |-> "outside"]
  /\ completed = 0
  /\ failures = 0

Move(t, p) == where' = [where EXCEPT ![t] = p]

\* switch (InitOnce->Ptr & 3); a thread that finds 1 sleeps and looks again.
Switch(t) ==
  /\ where[t] = "switch" /\ ptr # 1
  /\ Move(t, IF ptr = 2 THEN "true" ELSE "exchange")
  /\ UNCHANGED <<ptr, completed, failures>>

\* Mutated form of Exchange: a plain store in the place of the exchange.
ExchangeStore(t) ==
  /\ where[t] = "exchange"
  /\ ptr' = 1
  /\ Move(t, "initFn")
  /\ UNCHANGED <<completed, failures>>

\* InterlockedCompareExchangePointer; when another thread was faster, break.
Exchange(t) ==
  /\ where[t] = "exchange"
  /\ ptr' = IF ptr = 0 THEN 1 ELSE ptr
  /\ Move(t, IF ptr = 0 THEN "initFn" ELSE "switch")
  /\ UNCHANGED <<completed, failures>>

InitFnSucceeds(t) ==
  /\ where[t] = "initFn"
  /\ completed' = completed + 1
  /\ Move(t, "store")
  /\ UNCHANGED <<ptr, failures>>

InitFnFails(t) ==
  /\ where[t] = "initFn" /\ failures < MaxFailures
  /\ failures' = failures + 1
  /\ Move(t, "clear")
  /\ UNCHANGED <<ptr, completed>>

Store(t) ==
  /\ where[t] = "store"
  /\ ptr' = 2
  /\ Move(t, "true")
  /\ UNCHANGED <<completed, failures>>

Clear(t) ==
  /\ where[t] = "clear"
  /\ ptr' = 0
  /\ Move(t, "false")
  /\ UNCHANGED <<completed, failures>>

\* A thread calls, and calls again whatever it was returned.
CallExecuteOnce(t) ==
  /\ where[t] \in {"outside", "true", "false"}
  /\ Move(t, "switch")
  /\ UNCHANGED <<ptr, completed, failures>>

OnceStep(t) ==
  \/ Switch(t) \/ Exchange(t) \/ InitFnSucceeds(t) \/ InitFnFails(t)
  \/ Store(t) \/ Clear(t)

OnceNext == \E t \in OnceThreads : OnceStep(t) \/ CallExecuteOnce(t)

OnceSpec == OnceInit /\ [][OnceNext]_onceVars

----------------------------------------------------------------------------
(* Properties.                                                             *)

\* Only one thread is ever in InitFn or between it and the end of the call,
\* and the others wait for it: Ptr is 1 just then.
OneInitializer ==
  LET busy == {t \in OnceThreads : where[t] \in {"initFn", "store", "clear"}}
  IN  Cardinality(busy) <= 1 /\ (ptr = 1 <=> busy # {})

\* InitFn succeeds at most once, however often it failed before, and a call
\* returns TRUE only after it has.
InitializedOnce ==
  /\ completed <= 1
  /\ \A t \in OnceThreads : where[t] = "true" => completed = 1

=============================================================================

\* Three threads that spin once and nest once; three threads that meet twice;
\* three threads that initialize, with one failure; three pieces of work for
\* two threads and a third that is added.  A pool that was closed stays closed.
CONSTANTS
  Threads = {t1, t2, t3}
  NoThread = NoThread
  SpinCount = 1
  MaxDepth = 2
  BarrierThreads = {t1, t2, t3}
  Processors = 2
  MaxRounds = 2
  OnceThreads = {t1, t2, t3}
  MaxFailures = 1
  Works = {x1, x2, x3}
  PoolThreads = {t1, t2, t3}
  StartThreads = {t1, t2}
  NoWork = NoWork
SPECIFICATION SynchSpec
CHECK_DEADLOCK FALSE
INVARIANTS
  NobodyLeavesEarly
  InitializedOnce
  NoFreedWork
PROPERTIES
  ImplementsRecursiveLock
  HandOff
  EveryoneReturns
  WaitEnds
  CloseEnds

------------------------------ MODULE MCSynch ------------------------------
(***************************************************************************)
(* The synchronization objects of winpr side by side, for model checking.  *)
(* They do not share state: focus says which of them a behaviour is about, *)
(* so that the states add up instead of multiplying.                       *)
(***************************************************************************)
EXTENDS CriticalSection, Barrier, InitOnce, ThreadPool

VARIABLE focus

synchVars == <<vars, barrierVars, onceVars, poolVars, focus>>

SynchInit ==
  /\ Init /\ BarrierInit /\ OnceInit /\ PoolInit
  /\ focus \in {"section", "barrier", "once", "pool"}

SectionPart == focus = "section" /\ UNCHANGED <<barrierVars, onceVars, poolVars, focus>>
BarrierPart == focus = "barrier" /\ UNCHANGED <<vars, onceVars, poolVars, focus>>
OncePart    == focus = "once" /\ UNCHANGED <<vars, barrierVars, poolVars, focus>>
PoolPart    == focus = "pool" /\ UNCHANGED <<vars, barrierVars, onceVars, focus>>

SynchNext ==
  \/ SectionPart /\ Next
  \/ BarrierPart /\ BarrierNext
  \/ OncePart /\ OnceNext
  \/ PoolPart /\ PoolNext

\* A step that the scheduler lets thread t take, in the part that is looked at.
\* focus never changes, so that fairness of the whole is fairness of the part.
Scheduled(t) ==
  \/ SectionPart /\ t \in Threads /\ Run(t)
  \/ BarrierPart /\ t \in BarrierThreads /\ BarrierStep(t)
  \/ OncePart /\ t \in OnceThreads /\ OnceStep(t)
  \/ PoolPart /\ t \in PoolThreads /\ PoolWorker(t)

SynchFairness ==
  /\ \A t \in Threads \cup BarrierThreads \cup OnceThreads \cup PoolThreads :
       WF_synchVars(Scheduled(t))
  /\ \A t \in Threads :
       /\ WF_synchVars(SectionPart /\ CallLeave(t))
       /\ SF_synchVars(SectionPart /\ held[t] = 1 /\ CallLeave(t))
  /\ WF_synchVars(PoolPart /\ PoolCaller)

SynchSpec == SynchInit /\ [][SynchNext]_synchVars /\ SynchFairness
=============================================================================

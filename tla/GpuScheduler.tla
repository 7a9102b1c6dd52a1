---------------------------- MODULE GpuScheduler ----------------------------
(***************************************************************************)
(* GpuScheduler.run: at most MaxConcurrent callbacks at a time.  One        *)
(* operator per critical section; the callback runs between Enter and Leave.*)
(***************************************************************************)
EXTENDS Naturals, FiniteSets

CONSTANT MaxConcurrent      \* GPU_MAX_CONCURRENT

ASSUME SchedulerAssumption == MaxConcurrent \in Nat \ {0}

VARIABLES semaphore, active, completed

schedulerVars == <<semaphore, active, completed>>

SchedulerInit ==
    /\ semaphore = MaxConcurrent
    /\ active = 0 /\ completed = 0

(* semaphore.acquire()                                                      *)
AcquireSlot ==
    /\ semaphore > 0
    /\ semaphore' = semaphore - 1
    /\ UNCHANGED <<active, completed>>

Enter ==
    /\ active' = active + 1
    /\ UNCHANGED <<semaphore, completed>>

(* Slip: the callback is counted, but as active for ever.                   *)
LeaveActive ==
    /\ completed' = completed + 1
    /\ UNCHANGED <<semaphore, active>>

(* The finally clause: the counters under the lock, then the semaphore.     *)
Leave ==
    /\ active' = active - 1
    /\ completed' = completed + 1
    /\ UNCHANGED <<semaphore>>

ReleaseSlot ==
    /\ semaphore' = semaphore + 1
    /\ UNCHANGED <<active, completed>>
=============================================================================

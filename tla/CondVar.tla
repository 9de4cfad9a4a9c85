------------------------------- MODULE CondVar -------------------------------
(***************************************************************************)
(* The condition variable of src/kernel/sync.c, together with the mutex it *)
(* is used with.                                                           *)
(*                                                                         *)
(* condvar_wait enters the wait list, releases the mutex and leaves the    *)
(* CPU with interrupts disabled: one step.  A signalled thread is READY    *)
(* and calls mutex_lock in a later step.  signal_count is written and      *)
(* never read, and is left out.  The threads are kernel threads: the       *)
(* branch for threads of a process leaves the loop while still BLOCKED.    *)
(*                                                                         *)
(* The clients follow cv_waiter and cv_signaler of src/shell/commands.c:   *)
(* they wait, holding the mutex, while data_ready is false; some owner     *)
(* sets data_ready and the condition is then broadcast or signalled.       *)
(***************************************************************************)
EXTENDS Mutex

VARIABLES cv_waiters,  \* cv->waiters, head first
          cv_status,   \* where each thread is in condvar_wait or _timedwait
          data_ready,  \* the condition, protected by the mutex
          announced    \* history: broadcast since data_ready was set

cvVars == <<cv_waiters, cv_status, data_ready, announced>>
condVars == <<mutexVars, cvVars>>

(* "waiting"/"sleeping": in the list after wait/timedwait.  "signaled":     *)
(* READY, about to take the mutex again.  "relocking": inside that call.   *)
(* "out": before or between waits.  "done": past them.                     *)
CVWaiting == {t \in Thread : cv_status[t] \in {"waiting", "sleeping"}}

condvar_init ==
    /\ mutex_init
    /\ cv_waiters = <<>>
    /\ cv_status = [t \in Thread |-> "out"]
    /\ data_ready = FALSE
    /\ announced = FALSE

(* A thread that runs outside the condition variable.                      *)
Outside(t) == mutex_status[t] = "run" /\ cv_status[t] = "out"

CVEnter(t, how) ==
    /\ cv_status' = [cv_status EXCEPT ![t] = how]
    /\ cv_waiters' = Append(cv_waiters, t)
    /\ mutex_unlock(t)
    /\ UNCHANGED <<type, data_ready, announced>>

condvar_wait(t) ==
    /\ Outside(t) /\ owner = t /\ ~data_ready
    /\ CVEnter(t, "waiting")

(* The wait with a deadline differs in the thread state only: the thread   *)
(* is SLEEPING but not on g_sleep_queue, so that the deadline wakes nobody *)
(* and the removal from the list finds nothing.                            *)
condvar_timedwait(t) ==
    /\ Outside(t) /\ owner = t /\ ~data_ready
    /\ CVEnter(t, "sleeping")

(* The end of both waits: mutex_lock, which may block the thread again.    *)
CVReturn(t) ==
    /\ \/ cv_status[t] = "signaled" /\ mutex_lock(t)
       \/ cv_status[t] = "relocking" /\ mutex_lock_resume(t)
    /\ cv_status' = [cv_status EXCEPT ![t] = IF owner' = t THEN "out" ELSE "relocking"]
    /\ UNCHANGED <<type, cv_waiters, data_ready, announced>>

(* The first n waiters become READY.                                       *)
CVWake(n) ==
    /\ cv_waiters' = SubSeq(cv_waiters, n + 1, Len(cv_waiters))
    /\ cv_status' = [t \in Thread |->
                       IF t \in Range(SubSeq(cv_waiters, 1, n)) THEN "signaled" ELSE cv_status[t]]

condvar_signal(t) ==
    /\ Outside(t) \/ cv_status[t] = "done"
    /\ CVWake(IF cv_waiters = <<>> THEN 0 ELSE 1)
    /\ UNCHANGED <<mutexVars, data_ready, announced>>

(* Mutation: a broadcast wakes one waiter.                                 *)
BroadcastWakesOne(t) ==
    /\ Outside(t) \/ cv_status[t] = "done"
    /\ CVWake(IF cv_waiters = <<>> THEN 0 ELSE 1)
    /\ announced' = data_ready
    /\ UNCHANGED <<mutexVars, data_ready>>

condvar_broadcast(t) ==
    /\ Outside(t) \/ cv_status[t] = "done"
    /\ CVWake(Len(cv_waiters))
    /\ announced' = data_ready
    /\ UNCHANGED <<mutexVars, data_ready>>

SetReady(t) ==
    /\ Outside(t) /\ owner = t
    /\ data_ready' = TRUE
    /\ UNCHANGED <<mutexVars, cv_waiters, cv_status, announced>>

ClientLocks(t) ==
    /\ cv_status[t] = "out" /\ owner # t
    /\ mutex_lock(t) \/ mutex_lock_resume(t)
    /\ UNCHANGED <<type, cvVars>>

(* The client leaves its loop, unlocks and ends.                           *)
ClientUnlocks(t) ==
    /\ Outside(t) /\ owner = t /\ data_ready
    /\ mutex_unlock(t)
    /\ cv_status' = [cv_status EXCEPT ![t] = "done"]
    /\ UNCHANGED <<type, cv_waiters, data_ready, announced>>

CVNext == \E t \in Thread :
    \/ condvar_wait(t) \/ condvar_timedwait(t) \/ CVReturn(t)
    \/ condvar_signal(t) \/ condvar_broadcast(t)
    \/ SetReady(t) \/ ClientLocks(t) \/ ClientUnlocks(t)

CVSpec == condvar_init /\ [][CVNext]_condVars

(* "Add to wait queue BEFORE releasing mutex (atomic condition)": whatever *)
(* the interleaving of a client's test of data_ready with the broadcast,   *)
(* once the condition has been broadcast no thread waits for it.           *)
NoMissedBroadcast == announced => CVWaiting = {}

(* Once the condition has been broadcast, every client gets the            *)
(* mutex back and ends.                                                    *)
WaitersReturn ==
    \A t \in Thread : (announced /\ cv_status[t] # "out") ~> (cv_status[t] = "done")
=============================================================================

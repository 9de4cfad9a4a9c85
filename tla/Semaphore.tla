------------------------------ MODULE Semaphore ------------------------------
(***************************************************************************)
(* The counting semaphore of src/kernel/sync.c.                            *)
(*                                                                         *)
(* Every operation runs with interrupts disabled on the only CPU, so it is *)
(* one atomic step up to its call of scheduler_schedule(); a thread that   *)
(* is woken becomes READY and re-evaluates the loop condition in a later   *)
(* step, in any order with respect to the other READY threads.             *)
(***************************************************************************)
EXTENDS Integers, Sequences, FiniteSets, Functions, KernelThreads

CONSTANTS InitialCount,  \* initial_count of semaphore_init
          MaxCount,      \* max_count of semaphore_init; 0 means unlimited
          Timeouts,      \* the values of timeout_ms callers pass
          MaxPosts,      \* bound: posts explored
          MaxTick        \* bound: timer ticks explored

ASSUME SemaphoreAssumption ==
    /\ IsFiniteSet(Thread)
    /\ InitialCount \in Nat
    /\ MaxCount \in Nat
    /\ MaxCount > 0 => InitialCount <= MaxCount
    /\ Timeouts \subseteq Nat
    /\ MaxPosts \in Nat
    /\ MaxTick \in Nat

VARIABLES count,     \* sem->count
          sem_waiters,   \* the list sem->sem_waiters, head first
          sem_status,    \* where each thread is in the code
          deadline,  \* start_tick + timeout_ticks of a timed wait
          ticks,     \* timer_get_ticks()
          posted,    \* history: successful sem_post calls
          taken      \* history: successful acquisitions

semVars == <<count, sem_waiters, sem_status, deadline, ticks, posted, taken>>

(***************************************************************************)
(* "out": outside the semaphore.  "blocked"/"sleeping": in the wait list   *)
(* after sem_wait/sem_timedwait.  "woken"/"woken_timed": READY again, about *)
(* to re-test the loop condition.  "entering": sem_timedwait has read       *)
(* start_tick and has not yet disabled interrupts.                         *)
(***************************************************************************)
SemStatus == {"out", "blocked", "sleeping", "woken", "woken_timed", "entering"}

SemWoken == {t \in Thread : sem_status[t] \in {"woken", "woken_timed"}}

SemWaiting == {t \in Thread : sem_status[t] \in {"blocked", "sleeping"}}

semaphore_init ==
    /\ count = InitialCount
    /\ sem_waiters = <<>>
    /\ sem_status = [t \in Thread |-> "out"]
    /\ deadline = [t \in Thread |-> 0]
    /\ ticks = 0
    /\ posted = 0
    /\ taken = 0

Take(t) ==
    /\ count > 0
    /\ count' = count - 1
    /\ taken' = taken + 1
    /\ sem_status' = [sem_status EXCEPT ![t] = "out"]
    /\ UNCHANGED <<sem_waiters, deadline, ticks, posted>>

Enqueue(t, how) ==
    /\ count <= 0
    /\ sem_waiters' = Append(sem_waiters, t)
    /\ sem_status' = [sem_status EXCEPT ![t] = how]
    /\ UNCHANGED <<count, deadline, ticks, posted, taken>>

(* The loop of sem_wait, entered by a call or re-entered after a wake-up.  *)
sem_wait(t) ==
    /\ sem_status[t] \in {"out", "woken"}
    /\ Take(t) \/ Enqueue(t, "blocked")

sem_trywait(t) ==
    /\ sem_status[t] = "out"
    /\ \/ Take(t)
       \/ count <= 0 /\ UNCHANGED semVars

(* sem_timedwait reads start_tick before it disables interrupts.           *)
sem_timedwait_enter(t) ==
    /\ sem_status[t] = "out"
    /\ \E ms \in Timeouts : deadline' = [deadline EXCEPT ![t] = ticks + ms]
    /\ sem_status' = [sem_status EXCEPT ![t] = "entering"]
    /\ UNCHANGED <<count, sem_waiters, ticks, posted, taken>>

(* The loop of sem_timedwait.  A waiter is made SLEEPING with a wake_tick  *)
(* but is put on the semaphore's wait list only, not on g_sleep_queue, so   *)
(* no timer tick ever wakes it.                                            *)
sem_timedwait(t) ==
    /\ sem_status[t] \in {"entering", "woken_timed"}
    /\ \/ Take(t)
       \/ /\ count <= 0
          /\ ticks >= deadline[t]
          /\ sem_status' = [sem_status EXCEPT ![t] = "out"]
          /\ UNCHANGED <<count, sem_waiters, deadline, ticks, posted, taken>>
       \/ ticks < deadline[t] /\ Enqueue(t, "sleeping")

(* READY sem_status of a waiter that is taken off the list.                    *)
Ready(s) == IF s = "sleeping" THEN "woken_timed" ELSE "woken"

(* Mutation of BelowMax: one unit too many.                                *)
BelowMaxOffByOne == MaxCount = 0 \/ count <= MaxCount

BelowMax == MaxCount = 0 \/ count < MaxCount

(* Mutation of SemWakeOne: the waiter is not woken.                           *)
SemWakeOneForgotten == UNCHANGED <<sem_waiters, sem_status>>

SemWakeOne ==
    IF sem_waiters = <<>>
      THEN UNCHANGED <<sem_waiters, sem_status>>
      ELSE /\ sem_waiters' = Tail(sem_waiters)
           /\ sem_status' = [sem_status EXCEPT ![Head(sem_waiters)] = Ready(@)]

(* Called by a thread or by an interrupt handler (keyboard IRQ).           *)
sem_post ==
    \/ /\ BelowMax
       /\ posted < MaxPosts
       /\ count' = count + 1
       /\ posted' = posted + 1
       /\ SemWakeOne
       /\ UNCHANGED <<deadline, ticks, taken>>
    \/ ~BelowMax /\ UNCHANGED semVars

(* The timer interrupt: wakes nobody that waits on the semaphore.          *)
SemTick ==
    /\ ticks < MaxTick
    /\ ticks' = ticks + 1
    /\ UNCHANGED <<count, sem_waiters, sem_status, deadline, posted, taken>>

SemNext ==
    \/ \E t \in Thread : \/ sem_wait(t)
                         \/ sem_trywait(t)
                         \/ sem_timedwait_enter(t)
                         \/ sem_timedwait(t)
    \/ sem_post
    \/ SemTick

SemSpec == semaphore_init /\ [][SemNext]_semVars

-----------------------------------------------------------------------------
(* Every variable stays in its range; in particular count, which sem_wait   *)
(* decrements and sem_post increments, is never negative.                  *)
SemTypeOK ==
    /\ count \in Nat
    /\ sem_waiters \in Seq(Thread)
    /\ sem_status \in [Thread -> SemStatus]
    /\ deadline \in [Thread -> Nat]
    /\ ticks \in 0..MaxTick
    /\ posted \in 0..MaxPosts
    /\ taken \in Nat

(* Units are conserved across sem_wait, sem_trywait, sem_timedwait and     *)
(* sem_post, and max_count is never exceeded: whatever the interleaving of *)
(* wake-ups, an acquisition consumes exactly one earlier post.             *)
UnitsConserved ==
    /\ count + taken = InitialCount + posted
    /\ MaxCount > 0 => count <= MaxCount

(* The wait list holds each thread that waits exactly once: enqueue in     *)
(* sem_wait/sem_timedwait and dequeue in sem_post keep list and thread      *)
(* state in step.                                                          *)
SemWaitListExact ==
    /\ IsInjective(sem_waiters)
    /\ Range(sem_waiters) = SemWaiting

(* No wake-up is lost: while a thread sits in the wait list, every unit    *)
(* still available is matched by a distinct thread that was woken for it   *)
(* and has not re-tested the loop condition yet.                           *)
SemNoLostWakeup == sem_waiters # <<>> => count <= Cardinality(SemWoken)

(* A unit posted while threads wait does not stay unused forever.          *)
UnitsGetUsed == (count > 0 /\ sem_waiters # <<>>) ~> (count = 0 \/ sem_waiters = <<>>)

(* sync.h: sem_timedwait returns "true if acquired, false if timeout".     *)
TimedWaitEnds ==
    \A t \in Thread : (sem_status[t] = "sleeping" /\ ticks >= deadline[t])
                        ~> (sem_status[t] # "sleeping")
=============================================================================

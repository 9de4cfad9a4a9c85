------------------------------- MODULE Mutex -------------------------------
(***************************************************************************)
(* The mutex of src/kernel/sync.c: ownership, recursion, the wait list and *)
(* priority inheritance.                                                   *)
(*                                                                         *)
(* mutex_lock, mutex_trylock and mutex_unlock run with interrupts disabled *)
(* and are atomic up to the call of scheduler_schedule() in the wait loop. *)
(* A thread taken off the wait list is READY; it re-tests mutex->owner in  *)
(* a later step, so a running thread can take the mutex before it.         *)
(* mutex->owner_original_priority and waiters.tail are written and never   *)
(* read, and are left out.                                                 *)
(***************************************************************************)
EXTENDS Integers, Sequences, FiniteSets, Functions, KernelThreads

CONSTANTS Base,      \* base_priority of each thread
          Types,     \* the mutex types tried
          Relock,    \* do callers lock a mutex they already own?
          MaxDepth   \* bound: depth of recursive locking explored

ASSUME MutexAssumption ==
    /\ IsFiniteSet(Thread)
    /\ NULL \notin Thread
    /\ Base \in [Thread -> 0..4]
    /\ Types \subseteq {"NORMAL", "RECURSIVE", "ERRORCHECK"}
    /\ Relock \in BOOLEAN
    /\ MaxDepth \in Nat

VARIABLES type,             \* mutex->type
          owner,            \* mutex->owner
          recursion_count,  \* mutex->recursion_count
          mutex_waiters,          \* mutex->mutex_waiters, head first
          mutex_status,           \* "run", "blocked" in the list, or "woken"
          priority          \* thread->priority

mutexVars == <<type, owner, recursion_count, mutex_waiters, mutex_status, priority>>

MutexWoken == {t \in Thread : mutex_status[t] = "woken"}

MutexWaiting == {t \in Thread : mutex_status[t] = "blocked"}

mutex_init ==
    /\ type \in Types
    /\ owner = NULL
    /\ recursion_count = 0
    /\ mutex_waiters = <<>>
    /\ mutex_status = [t \in Thread |-> "run"]
    /\ priority = Base

Acquire(t) ==
    /\ owner = NULL
    /\ owner' = t
    /\ recursion_count' = 1
    /\ mutex_status' = [mutex_status EXCEPT ![t] = "run"]
    /\ UNCHANGED <<mutex_waiters, priority>>

(* Mutation: the owner takes the priority of any waiter, lower ones too.   *)
InheritAlways(w) == priority' = [priority EXCEPT ![owner] = priority[w]]

mutex_apply_priority_inheritance(w) ==
    priority' = IF priority[w] > priority[owner]
                  THEN [priority EXCEPT ![owner] = priority[w]]
                  ELSE priority

(* One turn of the loop of mutex_lock: the owner inherits the priority of  *)
(* the thread, which goes to the end of the wait list.                     *)
Block(t) ==
    /\ owner # NULL
    /\ mutex_apply_priority_inheritance(t)
    /\ mutex_waiters' = Append(mutex_waiters, t)
    /\ mutex_status' = [mutex_status EXCEPT ![t] = "blocked"]
    /\ UNCHANGED <<owner, recursion_count>>

Recurse(t) ==
    /\ recursion_count < MaxDepth
    /\ recursion_count' = recursion_count + 1
    /\ UNCHANGED <<owner, mutex_waiters, mutex_status, priority>>

(* A call of mutex_lock.  On a NORMAL mutex the owner falls through to the *)
(* loop and blocks on itself.                                              *)
mutex_lock(t) ==
    /\ mutex_status[t] = "run"
    /\ \/ Acquire(t)
       \/ owner # t /\ Block(t)
       \/ Relock /\ owner = t /\ type = "NORMAL" /\ Block(t)
       \/ Relock /\ owner = t /\ type = "RECURSIVE" /\ Recurse(t)
       \/ Relock /\ owner = t /\ type = "ERRORCHECK" /\ UNCHANGED mutexVars

(* A woken thread returns from scheduler_schedule() and re-tests the loop. *)
mutex_lock_resume(t) ==
    /\ mutex_status[t] = "woken"
    /\ Acquire(t) \/ Block(t)

mutex_trylock(t) ==
    /\ mutex_status[t] = "run"
    /\ \/ Acquire(t)
       \/ Relock /\ owner = t /\ type = "RECURSIVE" /\ Recurse(t)
       \/ /\ owner # NULL
          /\ owner = t => type # "RECURSIVE"
          /\ UNCHANGED mutexVars

(* Mutation: the boost of the owner is not undone.                         *)
NoRestore == UNCHANGED priority

mutex_restore_priority == priority' = [priority EXCEPT ![owner] = Base[owner]]

(* Mutation: no waiter is woken.                                           *)
MutexWakeOneForgotten == UNCHANGED <<mutex_waiters, mutex_status>>

MutexWakeOne ==
    IF mutex_waiters = <<>>
      THEN UNCHANGED <<mutex_waiters, mutex_status>>
      ELSE /\ mutex_waiters' = Tail(mutex_waiters)
           /\ mutex_status' = [mutex_status EXCEPT ![Head(mutex_waiters)] = "woken"]

(* Mutation: a recursive mutex is released by the first unlock.            *)
NestedNever == FALSE

Nested == type = "RECURSIVE" /\ recursion_count > 1

Release ==
    /\ mutex_restore_priority
    /\ owner' = NULL
    /\ recursion_count' = 0
    /\ MutexWakeOne

mutex_unlock(t) ==
    /\ mutex_status[t] = "run"
    /\ \/ owner # t /\ UNCHANGED mutexVars
       \/ /\ owner = t /\ Nested
          /\ recursion_count' = recursion_count - 1
          /\ UNCHANGED <<owner, mutex_waiters, mutex_status, priority>>
       \/ owner = t /\ ~Nested /\ Release

MutexNext ==
    /\ \E t \in Thread : \/ mutex_lock(t)
                         \/ mutex_lock_resume(t)
                         \/ mutex_trylock(t)
                         \/ mutex_unlock(t)
    /\ UNCHANGED type

MutexSpec == mutex_init /\ [][MutexNext]_mutexVars

-----------------------------------------------------------------------------
(* Every variable stays in its range, and recursion_count is 0 exactly when *)
(* the mutex has no owner.                                                 *)
MutexTypeOK ==
    /\ type \in Types
    /\ owner \in Thread \cup {NULL}
    /\ recursion_count \in Nat
    /\ owner = NULL <=> recursion_count = 0
    /\ mutex_waiters \in Seq(Thread)
    /\ mutex_status \in [Thread -> {"run", "blocked", "woken"}]
    /\ priority \in [Thread -> 0..4]

(* The list holds exactly the threads that wait, each once.                *)
MutexWaitListExact == IsInjective(mutex_waiters) /\ Range(mutex_waiters) = MutexWaiting

(* mutex_unlock loses no wake-up: when the mutex is free and threads still *)
(* sit in the list, a thread that was woken is on its way to take it.      *)
MutexNoLostWakeup == (owner = NULL /\ mutex_waiters # <<>>) => MutexWoken # {}

(* Priority inheritance is undone: a thread that does not own the mutex    *)
(* runs at its base priority (mutex_restore_priority in mutex_unlock).     *)
BoostUndone == \A t \in Thread : owner # t => priority[t] = Base[t]

(* A boost is never lost while the same thread keeps the mutex: the        *)
(* priority of the owner only grows until mutex_unlock.                    *)
BoostKept == [][\A t \in Thread : owner = t /\ owner' = t => priority'[t] >= priority[t]]_mutexVars

(* A thread in the wait list is eventually woken to retry, unless the      *)
(* owner has locked a NORMAL mutex twice ("deadlock on re-lock by owner",  *)
(* sync.h) and blocks on itself.                                           *)
BlockedGetsWoken ==
    \A t \in Thread : (mutex_status[t] = "blocked")
                        ~> (mutex_status[t] = "woken" \/ (owner # NULL /\ mutex_status[owner] = "blocked"))

(* The mutex implements the abstract lock: exclusion, and as many releases *)
(* as acquisitions.                                                        *)
LockView == INSTANCE Lock WITH
    recursive <- (type = "RECURSIVE"),
    held <- [t \in Thread |-> IF owner = t THEN recursion_count ELSE 0]

ImplementsLock == LockView!LockSpec
=============================================================================

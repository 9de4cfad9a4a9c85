----------------------------- MODULE SyncProofs -----------------------------
(***************************************************************************)
(* Safety of the primitives of kernel/sync.c for any finite set of threads *)
(* and any counts, priorities and preferences: the semaphore; the mutex,   *)
(* which implements the abstract lock; the condition variable that is used *)
(* with it; and the read-write lock, which implements the abstract one.    *)
(***************************************************************************)
EXTENDS Semaphore, CondVar, RWLock, ListLemmas, FiniteSetTheorems

(* The inductive invariant.  SemNoLostWakeup needs SemWaitListExact (the thread  *)
(* sem_post wakes was waiting, so it is new in SemWoken).                     *)
SemIInv == SemTypeOK /\ UnitsConserved /\ SemWaitListExact /\ SemNoLostWakeup

(* The threads sem_post has woken are finitely many, so they can be counted. *)
LEMMA WokenFinite ==
    IsFiniteSet(SemWoken) /\ Cardinality(SemWoken) \in Nat
BY SemaphoreAssumption, FS_Subset, FS_CardinalityType DEF SemWoken

(* Init establishes the inductive invariant: semaphore_init leaves nobody  *)
(* waiting.                                                                *)
LEMMA SemInitIInv == semaphore_init => SemIInv
<1> SUFFICES ASSUME semaphore_init PROVE SemIInv
  OBVIOUS
<1> USE SemaphoreAssumption DEF semaphore_init
<1>1. SemTypeOK
  BY DEF SemTypeOK, SemStatus
<1>2. UnitsConserved
  BY DEF UnitsConserved
<1>3. SemWaitListExact
  BY DEF SemWaitListExact, IsInjective, Range, SemWaiting
<1>4. SemNoLostWakeup
  BY DEF SemNoLostWakeup
<1> QED BY <1>1, <1>2, <1>3, <1>4 DEF SemIInv

(* Taking a unit: the count drops by one, and so does SemWoken when the taker *)
(* had been woken.                                                         *)
LEMMA TakeStep ==
    ASSUME SemIInv, NEW t \in Thread, Take(t),
           sem_status[t] \in {"out", "woken", "woken_timed", "entering"}
    PROVE  SemIInv'
<1> USE DEF SemIInv
<1>1. SemTypeOK'
  BY DEF SemTypeOK, Take, SemStatus
<1>2. UnitsConserved'
  BY SemaphoreAssumption DEF UnitsConserved, SemTypeOK, Take
<1>3. SemWaiting' = SemWaiting
  BY DEF Take, SemWaiting, SemTypeOK
<1>4. SemWaitListExact'
  BY <1>3 DEF SemWaitListExact, Take
<1>5. SemNoLostWakeup'
  <2>1. SemWoken' = SemWoken \ {t}
    BY DEF Take, SemWoken, SemTypeOK
  <2>2. Cardinality(SemWoken') >= Cardinality(SemWoken) - 1
    <3>1. CASE t \in SemWoken
      <4>1. Cardinality(SemWoken \ {t}) = Cardinality(SemWoken) - 1
        BY <3>1, WokenFinite, FS_RemoveElement, Zenon
      <4> QED BY <2>1, <4>1, WokenFinite
    <3>2. CASE t \notin SemWoken
      <4>1. SemWoken' = SemWoken
        BY <2>1, <3>2
      <4> QED BY <4>1, WokenFinite
    <3> QED BY <3>1, <3>2
  <2>3. count' = count - 1 /\ sem_waiters' = sem_waiters /\ count \in Nat
    BY DEF Take, SemTypeOK
  <2>4. IsFiniteSet(SemWoken') /\ Cardinality(SemWoken') \in Nat
    BY <2>1, WokenFinite, FS_Subset, FS_CardinalityType
  <2> QED BY <2>2, <2>3, <2>4, WokenFinite DEF SemNoLostWakeup
<1> QED BY <1>1, <1>2, <1>4, <1>5

(* Blocking: only possible when no unit is left.                           *)
LEMMA EnqueueStep ==
    ASSUME SemIInv, NEW t \in Thread, NEW how \in {"blocked", "sleeping"},
           Enqueue(t, how),
           sem_status[t] \in {"out", "woken", "woken_timed", "entering"}
    PROVE  SemIInv'
<1> USE DEF SemIInv
<1>1. t \notin Range(sem_waiters)
  BY DEF SemWaitListExact, SemWaiting
<1>2. /\ sem_waiters' \in Seq(Thread)
      /\ IsInjective(sem_waiters')
      /\ Range(sem_waiters') = Range(sem_waiters) \cup {t}
  BY <1>1, AppendExact DEF Enqueue, SemTypeOK, SemWaitListExact
<1>3. SemTypeOK'
  BY <1>2 DEF SemTypeOK, Enqueue, SemStatus
<1>4. UnitsConserved'
  BY DEF UnitsConserved, Enqueue
<1>5. SemWaiting' = SemWaiting \cup {t}
  BY DEF Enqueue, SemWaiting, SemTypeOK
<1>6. SemWaitListExact'
  BY <1>2, <1>5 DEF SemWaitListExact
<1>7. SemNoLostWakeup'
  <2>1. IsFiniteSet(SemWoken') /\ Cardinality(SemWoken') \in Nat
    BY SemaphoreAssumption, FS_Subset, FS_CardinalityType DEF SemWoken
  <2> QED BY <2>1 DEF SemNoLostWakeup, Enqueue, SemTypeOK
<1> QED BY <1>3, <1>4, <1>6, <1>7

(* A post wakes the first waiter, which is new in SemWoken.                   *)
LEMMA PostStep ==
    ASSUME SemIInv, sem_post
    PROVE  SemIInv'
<1> USE DEF SemIInv
<1>1. CASE ~BelowMax /\ UNCHANGED semVars
  BY <1>1 DEF semVars, SemTypeOK, UnitsConserved, SemWaitListExact, SemNoLostWakeup, SemWaiting, SemWoken
<1>2. CASE /\ BelowMax /\ posted < MaxPosts
           /\ count' = count + 1 /\ posted' = posted + 1
           /\ SemWakeOne /\ UNCHANGED <<deadline, ticks, taken>>
  <2>1. UnitsConserved'
    BY <1>2, SemaphoreAssumption DEF UnitsConserved, SemTypeOK, BelowMax
  <2>2. CASE sem_waiters = <<>>
    <3>1. UNCHANGED <<sem_waiters, sem_status>>
      BY <1>2, <2>2 DEF SemWakeOne
    <3>2. SemTypeOK'
      BY <1>2, <3>1, SemaphoreAssumption DEF SemTypeOK
    <3>3. SemWaitListExact' /\ SemNoLostWakeup'
      BY <2>2, <3>1 DEF SemWaitListExact, SemNoLostWakeup, SemWaiting
    <3> QED BY <2>1, <3>2, <3>3
  <2>3. CASE sem_waiters # <<>>
    <3> DEFINE h == Head(sem_waiters)
    <3>1. /\ sem_waiters' = Tail(sem_waiters)
          /\ sem_status' = [sem_status EXCEPT ![h] = Ready(sem_status[h])]
      BY <1>2, <2>3 DEF SemWakeOne
    <3>2. /\ sem_waiters' \in Seq(Thread)
          /\ h \in SemWaiting
          /\ IsInjective(sem_waiters')
          /\ Range(sem_waiters') = SemWaiting \ {h}
      BY <2>3, <3>1, TailExact DEF SemTypeOK, SemWaitListExact
    <3>3. /\ h \in Thread
          /\ h \notin SemWoken
          /\ sem_status'[h] \in {"woken", "woken_timed"}
          /\ sem_status' \in [Thread -> SemStatus]
      BY <3>1, <3>2 DEF SemWaiting, SemWoken, SemTypeOK, Ready, SemStatus
    <3>4. SemTypeOK'
      BY <1>2, <3>2, <3>3, SemaphoreAssumption DEF SemTypeOK
    <3>5. SemWaiting' = SemWaiting \ {h} /\ SemWoken' = SemWoken \cup {h}
      BY <3>1, <3>3 DEF SemWaiting, SemWoken, SemTypeOK
    <3>6. SemWaitListExact'
      BY <3>2, <3>5 DEF SemWaitListExact
    <3>7. SemNoLostWakeup'
      <4>1. Cardinality(SemWoken') = Cardinality(SemWoken) + 1
        BY <3>3, <3>5, WokenFinite, FS_AddElement, Zenon
      <4> QED BY <1>2, <2>3, <4>1, WokenFinite DEF SemNoLostWakeup, SemTypeOK
    <3> QED BY <2>1, <3>4, <3>6, <3>7
  <2> QED BY <2>2, <2>3
<1> QED BY <1>1, <1>2 DEF sem_post

(* Every step of the semaphore preserves the inductive invariant.          *)
LEMMA SemNextIInv == SemIInv /\ [SemNext]_semVars => SemIInv'
<1> SUFFICES ASSUME SemIInv, [SemNext]_semVars PROVE SemIInv'
  OBVIOUS
<1>1. ASSUME NEW t \in Thread, sem_wait(t) PROVE SemIInv'
  BY <1>1, TakeStep, EnqueueStep DEF sem_wait
<1>2. ASSUME NEW t \in Thread, sem_trywait(t) PROVE SemIInv'
  <2>1. CASE Take(t)
    BY <1>2, <2>1, TakeStep DEF sem_trywait
  <2>2. CASE UNCHANGED semVars
    BY <2>2 DEF semVars, SemIInv, SemTypeOK, UnitsConserved, SemWaitListExact, SemNoLostWakeup, SemWaiting, SemWoken
  <2> QED BY <1>2, <2>1, <2>2 DEF sem_trywait
<1>3. ASSUME NEW t \in Thread, sem_timedwait_enter(t) PROVE SemIInv'
  <2>1. SemTypeOK'
    BY <1>3, SemaphoreAssumption DEF sem_timedwait_enter, SemIInv, SemTypeOK, SemStatus
  <2>2. SemWaiting' = SemWaiting /\ SemWoken' = SemWoken
    BY <1>3 DEF sem_timedwait_enter, SemIInv, SemTypeOK, SemWaiting, SemWoken
  <2> QED BY <1>3, <2>1, <2>2
          DEF sem_timedwait_enter, SemIInv, UnitsConserved, SemWaitListExact, SemNoLostWakeup
<1>4. ASSUME NEW t \in Thread, sem_timedwait(t) PROVE SemIInv'
  <2>1. CASE Take(t)
    BY <1>4, <2>1, TakeStep DEF sem_timedwait
  <2>2. CASE Enqueue(t, "sleeping")
    BY <1>4, <2>2, EnqueueStep DEF sem_timedwait
  <2>3. CASE /\ count <= 0
             /\ sem_status' = [sem_status EXCEPT ![t] = "out"]
             /\ UNCHANGED <<count, sem_waiters, deadline, ticks, posted, taken>>
    <3>1. SemTypeOK' /\ UnitsConserved'
      BY <2>3 DEF SemIInv, SemTypeOK, SemStatus, UnitsConserved
    <3>2. SemWaiting' = SemWaiting
      BY <1>4, <2>3 DEF sem_timedwait, SemIInv, SemTypeOK, SemWaiting
    <3>3. SemWaitListExact'
      BY <2>3, <3>2 DEF SemIInv, SemWaitListExact
    <3>4. IsFiniteSet(SemWoken') /\ Cardinality(SemWoken') \in Nat
      BY SemaphoreAssumption, FS_Subset, FS_CardinalityType DEF SemWoken
    <3>5. SemNoLostWakeup'
      BY <2>3, <3>4 DEF SemIInv, SemNoLostWakeup, SemTypeOK
    <3> QED BY <3>1, <3>3, <3>5 DEF SemIInv
  <2> QED BY <1>4, <2>1, <2>2, <2>3 DEF sem_timedwait
<1>5. CASE sem_post
  BY <1>5, PostStep
<1>6. CASE SemTick
  BY <1>6, SemaphoreAssumption
     DEF SemTick, SemIInv, SemTypeOK, UnitsConserved, SemWaitListExact, SemNoLostWakeup, SemWaiting, SemWoken
<1>7. CASE UNCHANGED semVars
  BY <1>7 DEF semVars, SemIInv, SemTypeOK, UnitsConserved, SemWaitListExact, SemNoLostWakeup, SemWaiting, SemWoken
<1> QED BY <1>1, <1>2, <1>3, <1>4, <1>5, <1>6, <1>7 DEF SemNext

(* sem_wait, sem_trywait, sem_timedwait and sem_post keep every variable   *)
(* in its range; the count is never negative.                              *)
THEOREM SemaphoreTypeCorrect == SemSpec => []SemTypeOK
BY SemInitIInv, SemNextIInv, PTL DEF SemSpec, SemIInv

(* Each acquisition consumes exactly one post, and max_count is respected. *)
THEOREM SemaphoreConserves == SemSpec => []UnitsConserved
BY SemInitIInv, SemNextIInv, PTL DEF SemSpec, SemIInv

(* The wait list and the thread states agree.                              *)
THEOREM SemaphoreWaitList == SemSpec => []SemWaitListExact
BY SemInitIInv, SemNextIInv, PTL DEF SemSpec, SemIInv

(* sem_post never loses a wake-up, however the woken threads are overtaken *)
(* by sem_trywait or by new calls of sem_wait.                             *)
THEOREM SemaphoreNoLostWakeup == SemSpec => []SemNoLostWakeup
BY SemInitIInv, SemNextIInv, PTL DEF SemSpec, SemIInv

-----------------------------------------------------------------------------
(* A mutex that is not recursive is never locked twice by its owner.       *)
DepthOne == type # "RECURSIVE" => recursion_count <= 1

(* The inductive invariant.  MutexNoLostWakeup needs MutexWaitListExact: the thread  *)
(* at the head of the list is one that waits.  DepthOne is needed for the  *)
(* refinement: a mutex that is not recursive is released at depth 1.       *)
MutexIInv == MutexTypeOK /\ MutexWaitListExact /\ MutexNoLostWakeup /\ BoostUndone /\ DepthOne

(* mutex_init leaves the mutex free, nobody waiting, nobody boosted.       *)
LEMMA MutexInitIInv == mutex_init => MutexIInv
<1> SUFFICES ASSUME mutex_init PROVE MutexIInv
  OBVIOUS
<1> USE MutexAssumption DEF mutex_init
<1>1. MutexTypeOK
  BY DEF MutexTypeOK
<1>2. MutexWaitListExact
  BY DEF MutexWaitListExact, IsInjective, Range, MutexWaiting
<1>3. MutexNoLostWakeup /\ BoostUndone
  BY DEF MutexNoLostWakeup, BoostUndone
<1>4. DepthOne
  BY DEF DepthOne
<1> QED BY <1>1, <1>2, <1>3, <1>4 DEF MutexIInv

(* Taking a free mutex: the taker, running or woken, was not in the list.  *)
LEMMA AcquireStep ==
    ASSUME MutexIInv, NEW t \in Thread, mutex_status[t] # "blocked",
           Acquire(t), UNCHANGED type
    PROVE  MutexIInv'
<1> USE MutexAssumption DEF MutexIInv
<1>1. MutexTypeOK'
  BY DEF MutexTypeOK, Acquire
<1>2. MutexWaiting' = MutexWaiting
  BY DEF Acquire, MutexWaiting, MutexTypeOK
<1>3. MutexWaitListExact'
  BY <1>2 DEF MutexWaitListExact, Acquire
<1>4. MutexNoLostWakeup'
  BY DEF MutexNoLostWakeup, Acquire
<1>5. BoostUndone' /\ DepthOne'
  BY DEF BoostUndone, DepthOne, Acquire
<1> QED BY <1>1, <1>3, <1>4, <1>5

(* Blocking: the list grows by the thread and only the owner is boosted.   *)
LEMMA BlockStep ==
    ASSUME MutexIInv, NEW t \in Thread, mutex_status[t] # "blocked",
           Block(t), UNCHANGED type
    PROVE  MutexIInv'
<1> USE MutexAssumption DEF MutexIInv
<1>1. owner \in Thread
  BY DEF Block, MutexTypeOK
<1>2. t \notin Range(mutex_waiters)
  BY DEF MutexWaitListExact, MutexWaiting
<1>3. /\ mutex_waiters' \in Seq(Thread)
      /\ IsInjective(mutex_waiters')
      /\ Range(mutex_waiters') = Range(mutex_waiters) \cup {t}
  BY <1>2, AppendExact DEF Block, MutexTypeOK, MutexWaitListExact
<1>4. /\ priority' \in [Thread -> 0..4]
      /\ \A u \in Thread : u # owner => priority'[u] = priority[u]
  BY <1>1 DEF Block, mutex_apply_priority_inheritance, MutexTypeOK
<1>5. MutexTypeOK'
  BY <1>3, <1>4, Zenon DEF MutexTypeOK, Block
<1>6. MutexWaiting' = MutexWaiting \cup {t}
  BY DEF Block, MutexWaiting, MutexTypeOK
<1>7. MutexWaitListExact'
  BY <1>3, <1>6 DEF MutexWaitListExact
<1>8. MutexNoLostWakeup' /\ BoostUndone' /\ DepthOne'
  BY <1>4 DEF MutexNoLostWakeup, BoostUndone, DepthOne, Block
<1> QED BY <1>5, <1>7, <1>8

(* Releasing: the head of the list is woken, the boost is undone.          *)
LEMMA ReleaseStep ==
    ASSUME MutexIInv, NEW t \in Thread, owner = t, Release, UNCHANGED type
    PROVE  MutexIInv'
<1> USE MutexAssumption DEF MutexIInv
<1>1. priority' = [priority EXCEPT ![t] = Base[t]] /\ priority' \in [Thread -> 0..4]
  BY Zenon DEF Release, mutex_restore_priority, MutexTypeOK
<1>2. BoostUndone' /\ DepthOne'
  BY <1>1 DEF BoostUndone, DepthOne, MutexTypeOK, Release
<1>3. CASE mutex_waiters = <<>>
  <2>1. UNCHANGED <<mutex_waiters, mutex_status>>
    BY <1>3 DEF Release, MutexWakeOne
  <2>2. MutexTypeOK'
    BY <1>1, <2>1 DEF MutexTypeOK, Release
  <2>3. MutexWaitListExact' /\ MutexNoLostWakeup'
    BY <1>3, <2>1 DEF MutexWaitListExact, MutexNoLostWakeup, MutexWaiting
  <2> QED BY <1>2, <2>2, <2>3
<1>4. CASE mutex_waiters # <<>>
  <2> DEFINE h == Head(mutex_waiters)
  <2>1. mutex_waiters' = Tail(mutex_waiters) /\ mutex_status' = [mutex_status EXCEPT ![h] = "woken"]
    BY <1>4 DEF Release, MutexWakeOne
  <2>2. /\ mutex_waiters' \in Seq(Thread)
        /\ h \in MutexWaiting
        /\ IsInjective(mutex_waiters')
        /\ Range(mutex_waiters') = MutexWaiting \ {h}
    BY <1>4, <2>1, TailExact DEF MutexTypeOK, MutexWaitListExact
  <2>3. MutexTypeOK'
    BY <1>1, <2>1, <2>2 DEF MutexTypeOK, Release
  <2>4. MutexWaiting' = MutexWaiting \ {h} /\ h \in MutexWoken'
    BY <2>1, <2>2 DEF MutexWaiting, MutexWoken, MutexTypeOK
  <2>5. MutexWaitListExact' /\ MutexNoLostWakeup'
    BY <2>2, <2>4 DEF MutexWaitListExact, MutexNoLostWakeup
  <2> QED BY <1>2, <2>3, <2>5
<1> QED BY <1>3, <1>4

(* Locking or unlocking a recursive mutex again leaves owner and list.     *)
LEMMA NestStep ==
    ASSUME MutexIInv, owner # NULL,
           recursion_count' \in Nat \ {0}, type = "RECURSIVE",
           UNCHANGED <<type, owner, mutex_waiters, mutex_status, priority>>
    PROVE  MutexIInv'
BY DEF MutexIInv, MutexTypeOK, MutexWaitListExact, MutexNoLostWakeup, BoostUndone, DepthOne, MutexWaiting, MutexWoken

(* A call that returns without changing anything.                          *)
LEMMA MutexStutterStep ==
    ASSUME MutexIInv, UNCHANGED mutexVars
    PROVE  MutexIInv'
BY DEF MutexIInv, mutexVars, MutexTypeOK, MutexWaitListExact, MutexNoLostWakeup, BoostUndone, DepthOne, MutexWaiting, MutexWoken

(* Every step of the mutex preserves the inductive invariant.              *)
LEMMA MutexNextIInv == MutexIInv /\ [MutexNext]_mutexVars => MutexIInv'
<1> SUFFICES ASSUME MutexIInv, [MutexNext]_mutexVars PROVE MutexIInv'
  OBVIOUS
<1>1. CASE UNCHANGED mutexVars
  BY <1>1, MutexStutterStep
<1>2. CASE MutexNext
  <2> PICK t \in Thread : \/ mutex_lock(t)
                          \/ mutex_lock_resume(t)
                          \/ mutex_trylock(t)
                          \/ mutex_unlock(t)
    BY <1>2 DEF MutexNext
  <2> UNCHANGED type
    BY <1>2 DEF MutexNext
  <2>1. ASSUME owner = t, type = "RECURSIVE", Recurse(t) PROVE MutexIInv'
    <3>1. owner # NULL /\ recursion_count' \in Nat \ {0}
      BY <2>1, MutexAssumption DEF MutexIInv, MutexTypeOK, Recurse
    <3> QED BY <2>1, <3>1, NestStep DEF Recurse
  <2>2. CASE mutex_lock(t)
    <3>1. mutex_status[t] # "blocked"
      BY <2>2 DEF mutex_lock
    <3> QED BY <2>1, <2>2, <3>1, AcquireStep, BlockStep, MutexStutterStep DEF mutex_lock
  <2>3. CASE mutex_lock_resume(t)
    <3>1. mutex_status[t] # "blocked"
      BY <2>3 DEF mutex_lock_resume
    <3> QED BY <2>3, <3>1, AcquireStep, BlockStep DEF mutex_lock_resume
  <2>4. CASE mutex_trylock(t)
    <3>1. mutex_status[t] # "blocked"
      BY <2>4 DEF mutex_trylock
    <3> QED BY <2>1, <2>4, <3>1, AcquireStep, MutexStutterStep DEF mutex_trylock
  <2>5. CASE mutex_unlock(t)
    <3>1. CASE UNCHANGED mutexVars
      BY <3>1, MutexStutterStep
    <3>2. CASE /\ owner = t /\ Nested
               /\ recursion_count' = recursion_count - 1
               /\ UNCHANGED <<owner, mutex_waiters, mutex_status, priority>>
      <4>1. owner # NULL /\ recursion_count' \in Nat \ {0}
        BY <3>2, MutexAssumption DEF MutexIInv, MutexTypeOK, Nested
      <4> QED BY <3>2, <4>1, NestStep DEF Nested
    <3>3. CASE owner = t /\ Release
      BY <3>3, ReleaseStep
    <3> QED BY <2>5, <3>1, <3>2, <3>3 DEF mutex_unlock
  <2> QED BY <2>2, <2>3, <2>4, <2>5
<1> QED BY <1>1, <1>2

(* The inductive invariant holds in every behaviour of the mutex.          *)
LEMMA MutexInvariantHolds == MutexSpec => []MutexIInv
BY MutexInitIInv, MutexNextIInv, PTL DEF MutexSpec

(* The variables keep their types, and recursion_count is 0 exactly when   *)
(* mutex->owner is NULL.                                                   *)
THEOREM MutexTypeCorrect == MutexSpec => []MutexTypeOK
BY MutexInvariantHolds, PTL DEF MutexIInv

(* The wait list holds exactly the threads blocked in mutex_lock.          *)
THEOREM MutexWaitList == MutexSpec => []MutexWaitListExact
BY MutexInvariantHolds, PTL DEF MutexIInv

(* A free mutex with threads in its list has woken one that will retry.    *)
THEOREM MutexNeverLosesWakeup == MutexSpec => []MutexNoLostWakeup
BY MutexInvariantHolds, PTL DEF MutexIInv

(* Only the owner of the mutex ever runs above its base priority.          *)
THEOREM MutexBoostUndone == MutexSpec => []BoostUndone
BY MutexInvariantHolds, PTL DEF MutexIInv

(* No step lowers the priority of a thread that keeps the mutex.           *)
LEMMA BoostStep ==
    ASSUME MutexIInv, [MutexNext]_mutexVars
    PROVE  \A t \in Thread : owner = t /\ owner' = t => priority'[t] >= priority[t]
<1> SUFFICES ASSUME NEW t \in Thread, owner = t, owner' = t
             PROVE  priority'[t] >= priority[t]
  OBVIOUS
<1> USE MutexAssumption DEF MutexIInv, MutexTypeOK
<1>1. CASE UNCHANGED mutexVars
  BY <1>1, SMTT(30) DEF mutexVars
<1>2. CASE MutexNext
  <2>1. ASSUME NEW u \in Thread, Block(u) PROVE priority'[t] >= priority[t]
    BY <2>1 DEF Block, mutex_apply_priority_inheritance
  <2>2. CASE UNCHANGED priority
    BY <2>2
  <2>3. ~Release
    BY DEF Release
  <2> QED BY <1>2, <2>1, <2>2, <2>3
          DEF MutexNext, mutex_lock, mutex_lock_resume, mutex_trylock, mutex_unlock,
              Acquire, Recurse, mutexVars
<1> QED BY <1>1, <1>2

(* A boost inherited through mutex_lock lasts until the owner unlocks.     *)
THEOREM MutexBoostKept == MutexSpec => BoostKept
<1>1. MutexIInv /\ [MutexNext]_mutexVars =>
        [\A t \in Thread : owner = t /\ owner' = t => priority'[t] >= priority[t]]_mutexVars
  BY BoostStep
<1> QED BY <1>1, MutexInvariantHolds, PTL DEF MutexSpec, BoostKept

-----------------------------------------------------------------------------
(* Taking a free mutex is an acquisition of the abstract lock.             *)
LEMMA AcquireRefines ==
    ASSUME MutexIInv, NEW t \in Thread, Acquire(t)
    PROVE  LockView!LockAcquire(t)
BY MutexAssumption DEF MutexIInv, MutexTypeOK, Acquire, LockView!LockAcquire

(* So is locking a recursive mutex again.                                  *)
LEMMA RecurseRefines ==
    ASSUME MutexIInv, NEW t \in Thread, owner = t, type = "RECURSIVE", Recurse(t)
    PROVE  LockView!LockAcquire(t)
BY MutexAssumption, Zenon DEF MutexIInv, MutexTypeOK, Recurse, LockView!LockAcquire

(* Each unlock by the owner is one release of the abstract lock: when the  *)
(* mutex is given up, recursion_count is 1.                                *)
LEMMA UnlockRefines ==
    ASSUME MutexIInv, NEW t \in Thread, owner = t, recursion_count' = recursion_count - 1,
           \/ owner' = owner
           \/ recursion_count = 1 /\ owner' = NULL
    PROVE  LockView!LockRelease(t)
<1> DEFINE H == [u \in Thread |-> IF owner = u THEN recursion_count ELSE 0]
<1> USE MutexAssumption DEF MutexIInv, MutexTypeOK
<1>1. H[t] = recursion_count /\ recursion_count \in Nat \ {0}
  OBVIOUS
<1>2. H' = [u \in Thread |-> IF owner' = u THEN recursion_count' ELSE 0]
  OBVIOUS
<1>3. ASSUME NEW u \in Thread
      PROVE  H'[u] = [H EXCEPT ![t] = H[t] - 1][u]
  <2>1. CASE u = t
    <3>1. H'[t] = recursion_count - 1
      BY <1>2
    <3> QED BY <2>1, <3>1, <1>1
  <2>2. CASE u # t
    BY <2>2, <1>2
  <2> QED BY <2>1, <2>2
<1>4. H' = [H EXCEPT ![t] = H[t] - 1]
  BY <1>2, <1>3, Zenon
<1> QED BY <1>1, <1>4 DEF LockView!LockRelease

(* Blocking and being woken do not show in the abstract lock.              *)
LEMMA HiddenRefines ==
    ASSUME UNCHANGED <<type, owner, recursion_count>>
    PROVE  UNCHANGED <<(type = "RECURSIVE"),
                       [t \in Thread |-> IF owner = t THEN recursion_count ELSE 0]>>
OBVIOUS

(* Every step of the mutex is a step of the abstract lock or hidden.       *)
LEMMA MutexNextRefines ==
    ASSUME MutexIInv, [MutexNext]_mutexVars
    PROVE  [LockView!LockNext]_<<(type = "RECURSIVE"),
                 [t \in Thread |-> IF owner = t THEN recursion_count ELSE 0]>>
<1>1. CASE UNCHANGED <<type, owner, recursion_count>>
  BY <1>1, HiddenRefines
<1>2. CASE ~UNCHANGED <<type, owner, recursion_count>>
  <2>1. UNCHANGED type
    BY <1>2 DEF MutexNext, mutexVars
  <2>2. PICK t \in Thread : \/ mutex_lock(t)
                            \/ mutex_lock_resume(t)
                            \/ mutex_trylock(t)
                            \/ mutex_unlock(t)
    BY <1>2 DEF MutexNext, mutexVars
  <2>3. \/ Acquire(t)
        \/ owner = t /\ type = "RECURSIVE" /\ Recurse(t)
        \/ owner = t /\ Nested /\ recursion_count' = recursion_count - 1 /\ owner' = owner
        \/ owner = t /\ ~Nested /\ Release
    BY <1>2, <2>1, <2>2
       DEF mutex_lock, mutex_lock_resume, mutex_trylock, mutex_unlock, Block, mutexVars
  <2>4. ASSUME owner = t, ~Nested, Release PROVE LockView!LockRelease(t)
    <3>1. recursion_count = 1 /\ owner' = NULL /\ recursion_count' = recursion_count - 1
      BY <2>4, MutexAssumption DEF MutexIInv, MutexTypeOK, DepthOne, Nested, Release
    <3> QED BY <2>4, <3>1, UnlockRefines
  <2>5. LockView!LockAcquire(t) \/ LockView!LockRelease(t)
    BY <2>3, <2>4, AcquireRefines, RecurseRefines, UnlockRefines
  <2> QED BY <2>1, <2>5 DEF LockView!LockNext
<1> QED BY <1>1, <1>2

(* mutex_lock, mutex_trylock and mutex_unlock implement the abstract lock: *)
(* one holder, and as many releases as acquisitions.                       *)
THEOREM MutexImplementsLock == MutexSpec => ImplementsLock
<1>1. mutex_init => LockView!LockInit
  BY MutexAssumption DEF mutex_init, LockView!LockInit
<1>2. MutexIInv /\ [MutexNext]_mutexVars =>
        [LockView!LockNext]_<<(type = "RECURSIVE"),
             [t \in Thread |-> IF owner = t THEN recursion_count ELSE 0]>>
  BY MutexNextRefines
<1> QED BY <1>1, <1>2, MutexInvariantHolds, PTL DEF MutexSpec, ImplementsLock, LockView!LockSpec
-----------------------------------------------------------------------------
(* The condition variable.                                                 *)

CVTypeOK ==
    /\ cv_waiters \in Seq(Thread)
    /\ cv_status \in [Thread -> {"out", "waiting", "sleeping", "signaled", "relocking", "done"}]
    /\ data_ready \in BOOLEAN /\ announced \in BOOLEAN

(* The list holds exactly the threads that wait for the condition.         *)
CVWaitListExact == IsInjective(cv_waiters) /\ Range(cv_waiters) = CVWaiting

(* The inductive invariant.  NoMissedBroadcast needs to know that what was *)
(* broadcast stays true, so that nobody waits again, and that a waiting    *)
(* thread is in the list, where condvar_broadcast finds it.                *)
CVIInv ==
    /\ CVTypeOK /\ CVWaitListExact
    /\ announced => data_ready
    /\ NoMissedBroadcast

(* Waiting: condvar_wait enters the list before it releases the mutex, and *)
(* only while data_ready is false.                                         *)
LEMMA CVWaitStep ==
    ASSUME CVIInv, NEW t \in Thread, condvar_wait(t) \/ condvar_timedwait(t)
    PROVE  CVIInv'
<1>1. PICK how \in {"waiting", "sleeping"} :
        /\ cv_status' = [cv_status EXCEPT ![t] = how]
        /\ cv_waiters' = Append(cv_waiters, t)
        /\ UNCHANGED <<data_ready, announced>>
  BY DEF condvar_wait, condvar_timedwait, CVEnter
<1>2. cv_status[t] = "out" /\ ~data_ready
  BY DEF condvar_wait, condvar_timedwait, Outside
<1>3. t \notin Range(cv_waiters)
  BY <1>2 DEF CVIInv, CVWaitListExact, CVWaiting
<1>4. /\ cv_waiters' \in Seq(Thread) /\ IsInjective(cv_waiters')
      /\ Range(cv_waiters') = Range(cv_waiters) \cup {t}
  BY <1>1, <1>3, AppendExact DEF CVIInv, CVTypeOK, CVWaitListExact
<1>5. cv_status' \in [Thread -> {"out", "waiting", "sleeping", "signaled", "relocking", "done"}]
  BY <1>1 DEF CVIInv, CVTypeOK
<1>6. CVWaiting' = CVWaiting \cup {t}
  BY <1>1 DEF CVIInv, CVTypeOK, CVWaiting
<1>7. ~announced'
  BY <1>1, <1>2 DEF CVIInv
<1>8. CVTypeOK' /\ CVWaitListExact'
  BY <1>1, <1>4, <1>5, <1>6, Zenon DEF CVIInv, CVTypeOK, CVWaitListExact
<1> QED BY <1>7, <1>8, Zenon DEF CVIInv, NoMissedBroadcast

(* A step that moves nobody into or out of the list.                       *)
LEMMA CVQuietStep ==
    ASSUME CVIInv, UNCHANGED <<cv_waiters, announced>>,
           data_ready' = data_ready \/ data_ready' = TRUE,
           NEW t \in Thread, cv_status[t] \notin {"waiting", "sleeping"},
           NEW s \in {"out", "signaled", "relocking", "done"},
           cv_status' = [cv_status EXCEPT ![t] = s]
    PROVE  CVIInv'
<1>1. cv_status' \in [Thread -> {"out", "waiting", "sleeping", "signaled", "relocking", "done"}]
  BY DEF CVIInv, CVTypeOK
<1>2. CVWaiting' = CVWaiting
  BY DEF CVIInv, CVTypeOK, CVWaiting
<1>3. CVTypeOK' /\ CVWaitListExact'
  BY <1>1, <1>2, Zenon DEF CVIInv, CVTypeOK, CVWaitListExact
<1>4. announced' => data_ready'
  BY Zenon DEF CVIInv
<1> QED BY <1>2, <1>3, <1>4, Zenon DEF CVIInv, NoMissedBroadcast

(* Waking the first n waiters; a broadcast wakes all of them.              *)
LEMMA CVWakeStep ==
    ASSUME CVIInv, NEW n \in 0 .. Len(cv_waiters), CVWake(n), UNCHANGED data_ready,
           \/ UNCHANGED announced
           \/ n = Len(cv_waiters) /\ announced' = data_ready
    PROVE  CVIInv'
<1> DEFINE f == SubSeq(cv_waiters, 1, n)
<1>1. /\ cv_waiters' \in Seq(Thread) /\ IsInjective(cv_waiters')
      /\ Range(cv_waiters') = Range(cv_waiters) \ Range(f)
      /\ Range(f) \subseteq Range(cv_waiters)
  BY DropExact DEF CVWake, CVIInv, CVTypeOK, CVWaitListExact
<1>2. cv_status' = [t \in Thread |-> IF t \in Range(f) THEN "signaled" ELSE cv_status[t]]
  BY DEF CVWake
<1>3. cv_status' \in [Thread -> {"out", "waiting", "sleeping", "signaled", "relocking", "done"}]
  BY <1>2 DEF CVIInv, CVTypeOK
<1>4. CVWaiting' = CVWaiting \ Range(f)
  BY <1>2 DEF CVIInv, CVTypeOK, CVWaiting
<1>5. CVWaitListExact'
  BY <1>1, <1>4 DEF CVIInv, CVWaitListExact
<1>6. CVTypeOK'
  BY <1>1, <1>3, Zenon DEF CVIInv, CVTypeOK
<1>7. announced' => data_ready'
  BY Zenon DEF CVIInv
<1>8. n = Len(cv_waiters) => CVWaiting' = {}
  <2>1. n = Len(cv_waiters) => f = cv_waiters
    BY DEF CVIInv, CVTypeOK
  <2> QED BY <1>4, <2>1, Zenon DEF CVIInv, CVWaitListExact
<1>9. NoMissedBroadcast'
  BY <1>4, <1>8, Zenon DEF CVIInv, NoMissedBroadcast
<1> QED BY <1>5, <1>6, <1>7, <1>9, Zenon DEF CVIInv

(* Every step of the condition variable keeps its invariant.               *)
LEMMA CVInductive == CVIInv /\ [CVNext]_condVars => CVIInv'
<1> SUFFICES ASSUME CVIInv, [CVNext]_condVars PROVE CVIInv'
  OBVIOUS
<1>1. CASE UNCHANGED condVars
  BY <1>1, Zenon DEF condVars, cvVars, CVIInv, CVTypeOK, CVWaitListExact, CVWaiting, NoMissedBroadcast
<1>2. ASSUME NEW t \in Thread, condvar_wait(t) \/ condvar_timedwait(t) PROVE CVIInv'
  BY <1>2, CVWaitStep
<1>3. ASSUME NEW t \in Thread, CVReturn(t) PROVE CVIInv'
  <2>1. PICK s \in {"out", "relocking"} : cv_status' = [cv_status EXCEPT ![t] = s]
    BY <1>3, Zenon DEF CVReturn
  <2>2. UNCHANGED <<cv_waiters, data_ready, announced>>
    BY <1>3 DEF CVReturn
  <2>3. cv_status[t] \notin {"waiting", "sleeping"}
    BY <1>3 DEF CVReturn
  <2> QED BY <2>1, <2>2, <2>3, CVQuietStep, Zenon
<1>4. ASSUME NEW t \in Thread, condvar_signal(t) PROVE CVIInv'
  <2>1. PICK n \in 0 .. Len(cv_waiters) : CVWake(n)
    <3>1. (IF cv_waiters = <<>> THEN 0 ELSE 1) \in 0 .. Len(cv_waiters)
      BY DEF CVIInv, CVTypeOK
    <3> QED BY <1>4, <3>1 DEF condvar_signal
  <2>2. UNCHANGED <<data_ready, announced>>
    BY <1>4 DEF condvar_signal
  <2> QED BY <2>1, <2>2, CVWakeStep
<1>5. ASSUME NEW t \in Thread, condvar_broadcast(t) PROVE CVIInv'
  <2>1. Len(cv_waiters) \in 0 .. Len(cv_waiters)
    BY DEF CVIInv, CVTypeOK
  <2>2. CVWake(Len(cv_waiters)) /\ announced' = data_ready /\ UNCHANGED data_ready
    BY <1>5 DEF condvar_broadcast
  <2> QED BY <2>1, <2>2, CVWakeStep
<1>6. ASSUME NEW t \in Thread, SetReady(t) \/ ClientLocks(t) PROVE CVIInv'
  <2>1. cv_status[t] = "out" /\ UNCHANGED <<cv_waiters, cv_status, announced>>
    BY <1>6 DEF SetReady, ClientLocks, Outside, cvVars
  <2>2. data_ready' = data_ready \/ data_ready' = TRUE
    BY <1>6 DEF SetReady, ClientLocks, cvVars
  <2>3. cv_status' = [cv_status EXCEPT ![t] = "out"]
    BY <2>1 DEF CVIInv, CVTypeOK
  <2> QED BY <2>1, <2>2, <2>3, CVQuietStep, Zenon
<1>7. ASSUME NEW t \in Thread, ClientUnlocks(t) PROVE CVIInv'
  <2>1. /\ cv_status[t] = "out" /\ cv_status' = [cv_status EXCEPT ![t] = "done"]
        /\ UNCHANGED <<cv_waiters, data_ready, announced>>
    BY <1>7 DEF ClientUnlocks, Outside
  <2> QED BY <2>1, CVQuietStep, Zenon
<1> QED BY <1>1, <1>2, <1>3, <1>4, <1>5, <1>6, <1>7 DEF CVNext

(* The invariant of the condition variable holds in every state.           *)
LEMMA CVInvariant == CVSpec => []CVIInv
<1>1. condvar_init => CVIInv
  <2> SUFFICES ASSUME condvar_init PROVE CVIInv
    OBVIOUS
  <2>1. CVTypeOK
    <3>1. cv_waiters \in Seq(Thread)
      BY DEF condvar_init
    <3>2. cv_status \in [Thread -> {"out", "waiting", "sleeping", "signaled", "relocking", "done"}]
      BY DEF condvar_init
    <3>3. data_ready \in BOOLEAN /\ announced \in BOOLEAN
      BY Zenon DEF condvar_init
    <3> QED BY <3>1, <3>2, <3>3, Zenon DEF CVTypeOK
  <2>2. CVWaiting = {} /\ Range(cv_waiters) = {} /\ IsInjective(cv_waiters)
    BY DEF condvar_init, CVWaiting, Range, IsInjective
  <2>3. announced = FALSE
    BY DEF condvar_init
  <2> QED BY <2>1, <2>2, <2>3 DEF CVIInv, CVWaitListExact, NoMissedBroadcast
<1> QED BY <1>1, CVInductive, PTL DEF CVSpec

(* Whatever the interleaving of the clients' tests of data_ready with the  *)
(* broadcast, no thread waits for a condition that has been broadcast, for *)
(* any number of threads (condvar_wait, condvar_broadcast).                *)
THEOREM BroadcastReachesAll == CVSpec => []NoMissedBroadcast
BY CVInvariant, PTL DEF CVIInv

(* cv->waiters holds exactly the threads in condvar_wait and               *)
(* condvar_timedwait that nobody has signalled, each once.                 *)
THEOREM CondVarWaitList == CVSpec => []CVWaitListExact
BY CVInvariant, PTL DEF CVIInv

(* The condition variable uses the mutex only through mutex_lock and       *)
(* mutex_unlock: every behaviour of the clients is one of the mutex, so    *)
(* that the theorems about the mutex hold of it, exclusion included.       *)
THEOREM CondVarUsesMutex == CVSpec => MutexSpec /\ ImplementsLock
<1>1. condvar_init => mutex_init
  BY DEF condvar_init
<1>2. [CVNext]_condVars => [MutexNext]_mutexVars
  <2> SUFFICES ASSUME [CVNext]_condVars PROVE [MutexNext]_mutexVars
    OBVIOUS
  <2>1. CASE UNCHANGED condVars
    BY <2>1 DEF condVars
  <2>2. ASSUME NEW t \in Thread,
               \/ condvar_wait(t) \/ condvar_timedwait(t) \/ CVReturn(t)
               \/ ClientLocks(t) \/ ClientUnlocks(t)
        PROVE  MutexNext
    BY <2>2 DEF condvar_wait, condvar_timedwait, CVEnter, CVReturn, ClientLocks, ClientUnlocks,
                MutexNext
  <2>3. ASSUME NEW t \in Thread, condvar_signal(t) \/ condvar_broadcast(t) \/ SetReady(t)
        PROVE  UNCHANGED mutexVars
    BY <2>3 DEF condvar_signal, condvar_broadcast, SetReady
  <2> QED BY <2>1, <2>2, <2>3 DEF CVNext
<1>3. CVSpec => MutexSpec
  BY <1>1, <1>2, PTL DEF CVSpec, MutexSpec
<1> QED BY <1>3, MutexImplementsLock, PTL

-----------------------------------------------------------------------------
(* A thread in a wait loop holds nothing, and a writer excludes readers.   *)
Holders ==
    /\ \A t \in Thread : rw_status[t] # "run" => t \notin reading /\ writer # t
    /\ writer # NULL => reading = {}

(* The inductive invariant.  CountsExact turns the counters the code tests *)
(* into the sets the other conjuncts speak of; Holders keeps it going: a   *)
(* thread that starts to read was not counted before.                      *)
RWIInv == RWTypeOK /\ CountsExact /\ RWWaitListsExact /\ RWNoLostWakeup /\ Holders

(* The sets that are counted are finite.                                   *)
LEMMA CountedFinite ==
    ASSUME RWTypeOK
    PROVE  /\ IsFiniteSet(reading) /\ Cardinality(reading) \in Nat
           /\ IsFiniteSet(WriterWaits) /\ Cardinality(WriterWaits) \in Nat
BY RWLockAssumption, FS_Subset, FS_CardinalityType DEF RWTypeOK, WriterWaits, In

(* What the counters say about the sets they count.                        *)
LEMMA CountersMean ==
    ASSUME RWIInv
    PROVE  /\ reader_count = 0 <=> reading = {}
           /\ writer_wait_count = 0 <=> WriterWaits = {}
           /\ \A t \in reading : reader_count = 1 => reading = {t}
<1>1. reader_count = 0 <=> reading = {}
  BY CountedFinite, FS_EmptySet DEF RWIInv, CountsExact
<1>2. writer_wait_count = 0 <=> WriterWaits = {}
  BY CountedFinite, FS_EmptySet DEF RWIInv, CountsExact
<1>3. ASSUME NEW t \in reading, reader_count = 1 PROVE reading = {t}
  <2>1. IsFiniteSet(reading) /\ Cardinality(reading) = 1
    BY <1>3, CountedFinite DEF RWIInv, CountsExact
  <2>2. IsFiniteSet(reading \ {t}) /\ Cardinality(reading \ {t}) = Cardinality(reading) - 1
    BY <2>1, FS_RemoveElement
  <2>3. reading \ {t} = {}
    BY <2>1, <2>2, FS_EmptySet
  <2> QED BY <2>3
<1> QED BY <1>1, <1>2, <1>3

(* rwlock_init: a free lock and nobody waiting.                            *)
LEMMA RWInitIInv == rwlock_init => RWIInv
<1> SUFFICES ASSUME rwlock_init PROVE RWIInv
  OBVIOUS
<1> USE RWLockAssumption DEF rwlock_init
<1>1. RWTypeOK
  BY DEF RWTypeOK, RWStatus
<1>2. CountsExact
  <2>1. WriterWaits = {}
    BY DEF WriterWaits, In
  <2> QED BY <2>1, FS_EmptySet DEF CountsExact
<1>3. RWWaitListsExact
  BY DEF RWWaitListsExact, IsInjective, Range, In
<1>4. RWNoLostWakeup /\ Holders
  BY DEF RWNoLostWakeup, Holders
<1> QED BY <1>1, <1>2, <1>3, <1>4 DEF RWIInv

(* A thread that starts to read was neither counted nor in a list.         *)
LEMMA StartReadStep ==
    ASSUME RWIInv, NEW t \in Thread, Idle(t) \/ rw_status[t] = "rd_woken", StartRead(t)
    PROVE  RWIInv'
<1> USE RWLockAssumption DEF RWIInv
<1>1. t \notin reading /\ rw_status[t] \in {"run", "rd_woken"} /\ writer = NULL
  BY DEF Idle, Holders, StartRead, ReadBarred, RWTypeOK
<1>2. RWTypeOK'
  BY DEF RWTypeOK, StartRead, RWStatus
<1>3. /\ In("rd_blocked")' = In("rd_blocked")
      /\ In("wr_blocked")' = In("wr_blocked")
      /\ In("wr_woken")' = In("wr_woken")
  BY <1>1 DEF In, StartRead, RWTypeOK, RWStatus
<1>4. CountsExact'
  <2>1. Cardinality(reading') = Cardinality(reading) + 1
    BY <1>1, CountedFinite, FS_AddElement, Zenon DEF StartRead
  <2> QED BY <1>3, <2>1, Zenon DEF CountsExact, StartRead, WriterWaits
<1>5. RWWaitListsExact'
  BY <1>3 DEF RWWaitListsExact, StartRead
<1>6. RWNoLostWakeup'
  BY <1>3 DEF RWNoLostWakeup, StartRead, ReadBarred, WriteBarred, RWTypeOK
<1>7. Holders'
  BY <1>1 DEF Holders, StartRead, RWTypeOK
<1> QED BY <1>2, <1>4, <1>5, <1>6, <1>7

(* A reader that blocks is barred, and joins the end of its list.          *)
LEMMA BlockReadStep ==
    ASSUME RWIInv, NEW t \in Thread, Idle(t) \/ rw_status[t] = "rd_woken", BlockRead(t)
    PROVE  RWIInv'
<1> USE RWLockAssumption DEF RWIInv
<1>1. t \notin reading /\ writer # t /\ rw_status[t] \in {"run", "rd_woken"}
  BY DEF Idle, Holders
<1>2. /\ readers' \in Seq(Thread)
      /\ IsInjective(readers')
      /\ Range(readers') = Range(readers) \cup {t}
  BY <1>1, AppendExact DEF BlockRead, RWTypeOK, RWWaitListsExact, In
<1>3. RWTypeOK'
  BY <1>2 DEF RWTypeOK, BlockRead, RWStatus
<1>4. /\ In("rd_blocked")' = In("rd_blocked") \cup {t}
      /\ In("wr_blocked")' = In("wr_blocked")
      /\ In("wr_woken")' = In("wr_woken")
  BY <1>1 DEF In, BlockRead, RWTypeOK, RWStatus
<1>5. CountsExact'
  BY <1>4, Zenon DEF CountsExact, BlockRead, WriterWaits
<1>6. RWWaitListsExact'
  BY <1>2, <1>4 DEF RWWaitListsExact, BlockRead
<1>7. RWNoLostWakeup'
  BY <1>4 DEF RWNoLostWakeup, BlockRead, ReadBarred, WriteBarred
<1>8. Holders'
  BY <1>1 DEF Holders, BlockRead, RWTypeOK
<1> QED BY <1>3, <1>5, <1>6, <1>7, <1>8

(* A writer that gets the lock leaves WriterWaits and the count with it.   *)
LEMMA StartWriteStep ==
    ASSUME RWIInv, NEW t \in Thread, Idle(t) \/ rw_status[t] = "wr_woken", StartWrite(t)
    PROVE  RWIInv'
<1> USE RWLockAssumption DEF RWIInv
<1>1. /\ t \notin reading /\ rw_status[t] \in {"run", "wr_woken"}
      /\ writer = NULL /\ reader_count = 0 /\ reading = {}
  BY CountersMean DEF Idle, Holders, StartWrite, WriteBarred, RWTypeOK
<1>2. /\ In("rd_blocked")' = In("rd_blocked")
      /\ In("wr_blocked")' = In("wr_blocked")
      /\ WriterWaits' = WriterWaits \ {t}
  BY <1>1 DEF In, WriterWaits, StartWrite, RWTypeOK, RWStatus
<1>3. writer_wait_count' = Cardinality(WriterWaits') /\ writer_wait_count' \in Nat
  <2>1. CASE rw_status[t] = "run"
    <3>1. WriterWaits' = WriterWaits
      BY <1>2, <2>1 DEF WriterWaits, In
    <3> QED BY <2>1, <3>1, CountedFinite, SMTT(30) DEF CountsExact, StartWrite, Announced
  <2>2. CASE rw_status[t] = "wr_woken"
    <3>1. t \in WriterWaits
      BY <2>2 DEF WriterWaits, In
    <3>2. /\ Cardinality(WriterWaits \ {t}) = Cardinality(WriterWaits) - 1
          /\ IsFiniteSet(WriterWaits \ {t})
      BY <3>1, CountedFinite, FS_RemoveElement
    <3>3. Cardinality(WriterWaits \ {t}) \in Nat
      BY <3>2, FS_CardinalityType
    <3>4. writer_wait_count' = Cardinality(WriterWaits) - 1
      BY <2>2, CountedFinite DEF CountsExact, StartWrite, Announced
    <3> QED BY <1>2, <3>2, <3>3, <3>4
  <2> QED BY <1>1, <2>1, <2>2
<1>4. RWTypeOK'
  BY <1>3 DEF RWTypeOK, StartWrite, RWStatus
<1>5. CountsExact'
  BY <1>3 DEF CountsExact, StartWrite
<1>6. RWWaitListsExact'
  BY <1>2 DEF RWWaitListsExact, StartWrite
<1>7. RWNoLostWakeup'
  BY DEF RWNoLostWakeup, StartWrite, ReadBarred, WriteBarred
<1>8. Holders'
  BY <1>1 DEF Holders, StartWrite, RWTypeOK
<1> QED BY <1>4, <1>5, <1>6, <1>7, <1>8, SMTT(30)

(* A writer that blocks is announced once and joins the end of its list.   *)
LEMMA BlockWriteStep ==
    ASSUME RWIInv, NEW t \in Thread, Idle(t) \/ rw_status[t] = "wr_woken", BlockWrite(t)
    PROVE  RWIInv'
<1> USE RWLockAssumption DEF RWIInv
<1>1. t \notin reading /\ writer # t /\ rw_status[t] \in {"run", "wr_woken"}
  BY DEF Idle, Holders
<1>2. /\ writers' \in Seq(Thread)
      /\ writers' # <<>>
      /\ IsInjective(writers')
      /\ Range(writers') = Range(writers) \cup {t}
  BY <1>1, AppendExact DEF BlockWrite, RWTypeOK, RWWaitListsExact, In
<1>3. /\ In("rd_blocked")' = In("rd_blocked")
      /\ In("wr_blocked")' = In("wr_blocked") \cup {t}
      /\ WriterWaits' = WriterWaits \cup {t}
  BY <1>1 DEF In, WriterWaits, BlockWrite, RWTypeOK, RWStatus
<1>4. writer_wait_count' = Cardinality(WriterWaits') /\ writer_wait_count' \in Nat
  <2>1. CASE rw_status[t] = "run"
    <3>1. t \notin WriterWaits
      BY <2>1 DEF WriterWaits, In
    <3>2. Cardinality(WriterWaits \cup {t}) = Cardinality(WriterWaits) + 1
      BY <3>1, CountedFinite, FS_AddElement, Zenon
    <3>3. writer_wait_count' = Cardinality(WriterWaits) + 1
      BY <2>1 DEF CountsExact, BlockWrite, Announced
    <3> QED BY <1>3, <3>2, <3>3, CountedFinite
  <2>2. CASE rw_status[t] = "wr_woken"
    <3>1. WriterWaits' = WriterWaits
      BY <1>3, <2>2 DEF WriterWaits, In
    <3> QED BY <2>2, <3>1, CountedFinite, SMTT(30) DEF CountsExact, BlockWrite, Announced
  <2> QED BY <1>1, <2>1, <2>2
<1>5. RWTypeOK'
  BY <1>2, <1>4 DEF RWTypeOK, BlockWrite, RWStatus
<1>6. CountsExact'
  BY <1>4 DEF CountsExact, BlockWrite
<1>7. RWWaitListsExact'
  BY <1>2, <1>3 DEF RWWaitListsExact, BlockWrite
<1>8. RWNoLostWakeup'
  BY <1>4, CountedFinite
     DEF RWNoLostWakeup, BlockWrite, ReadBarred, WriteBarred, Announced, RWTypeOK
<1>9. Holders'
  BY <1>1, SMTT(30) DEF Holders, BlockWrite, RWTypeOK
<1> QED BY <1>5, <1>6, <1>7, <1>8, <1>9

(* Waking the first writer: it leaves the list and still waits.            *)
LEMMA WakeWriterLists ==
    ASSUME RWIInv, writers # <<>>, WakeWriter
    PROVE  /\ rw_status' \in [Thread -> RWStatus]
           /\ \A t \in Thread : rw_status'[t] = "run" <=> rw_status[t] = "run"
           /\ readers' \in Seq(Thread) /\ writers' \in Seq(Thread)
           /\ RWWaitListsExact'
           /\ WriterWaits' = WriterWaits
           /\ In("wr_woken")' # {}
<1> USE DEF RWIInv
<1> DEFINE h == Head(writers)
<1>1. /\ writers' \in Seq(Thread)
      /\ h \in In("wr_blocked")
      /\ IsInjective(writers')
      /\ Range(writers') = In("wr_blocked") \ {h}
  BY TailExact DEF WakeWriter, RWTypeOK, RWWaitListsExact
<1>2. rw_status' = [rw_status EXCEPT ![h] = "wr_woken"] /\ readers' = readers
  BY Zenon DEF WakeWriter, Wake, RWTypeOK
<1>3. rw_status' \in [Thread -> RWStatus] /\ h \in Thread /\ rw_status[h] = "wr_blocked"
  BY <1>1, <1>2 DEF RWTypeOK, RWStatus, In
<1>4. \A t \in Thread : rw_status'[t] = "run" <=> rw_status[t] = "run"
  BY <1>2, <1>3 DEF RWTypeOK
<1>5. /\ In("rd_blocked")' = In("rd_blocked")
      /\ In("wr_blocked")' = In("wr_blocked") \ {h}
      /\ In("wr_woken")' = In("wr_woken") \cup {h}
  BY <1>2, <1>3 DEF In, RWTypeOK
<1>6. WriterWaits' = WriterWaits
  BY <1>1, <1>5 DEF WriterWaits
<1>7. RWWaitListsExact'
  BY <1>1, <1>2, <1>5 DEF RWWaitListsExact
<1> QED BY <1>1, <1>2, <1>3, <1>4, <1>5, <1>6, <1>7, SMTT(30) DEF RWTypeOK

(* Waking every reader, and the first writer or none.                      *)
LEMMA WakeReadersLists ==
    ASSUME RWIInv, NEW W, readers' = <<>>, Wake(Range(readers), W),
           \/ W = {} /\ writers' = writers
           \/ writers # <<>> /\ W = {Head(writers)} /\ writers' = Tail(writers)
    PROVE  /\ rw_status' \in [Thread -> RWStatus]
           /\ \A t \in Thread : rw_status'[t] = "run" <=> rw_status[t] = "run"
           /\ readers' \in Seq(Thread) /\ writers' \in Seq(Thread)
           /\ RWWaitListsExact'
           /\ WriterWaits' = WriterWaits
           /\ W # {} => In("wr_woken")' # {}
<1> USE DEF RWIInv
<1>1. readers' \in Seq(Thread) /\ IsInjective(readers') /\ Range(readers') = {}
  BY DEF IsInjective, Range
<1>2. /\ writers' \in Seq(Thread)
      /\ W \subseteq In("wr_blocked")
      /\ IsInjective(writers')
      /\ Range(writers') = In("wr_blocked") \ W
  <2>1. CASE W = {} /\ writers' = writers
    BY <2>1 DEF RWTypeOK, RWWaitListsExact
  <2>2. CASE writers # <<>> /\ W = {Head(writers)} /\ writers' = Tail(writers)
    <3>1. /\ Tail(writers) \in Seq(Thread)
          /\ Head(writers) \in Range(writers)
          /\ IsInjective(Tail(writers))
          /\ Range(Tail(writers)) = Range(writers) \ {Head(writers)}
      BY <2>2, TailExact DEF RWTypeOK, RWWaitListsExact
    <3> QED BY <2>2, <3>1 DEF RWWaitListsExact
  <2> QED BY <2>1, <2>2
<1>3. /\ \A t \in Thread : t \in Range(readers) <=> rw_status[t] = "rd_blocked"
      /\ \A t \in W : t \in Thread /\ rw_status[t] = "wr_blocked"
  BY <1>2 DEF RWWaitListsExact, In
<1>4. \A t \in Thread : rw_status'[t] = IF rw_status[t] = "rd_blocked" THEN "rd_woken"
                                     ELSE IF t \in W THEN "wr_woken" ELSE rw_status[t]
  BY <1>3 DEF Wake
<1>5. rw_status' \in [Thread -> RWStatus]
  BY <1>4, SMTT(30) DEF Wake, RWTypeOK, RWStatus
<1>6. \A t \in Thread : rw_status'[t] = "run" <=> rw_status[t] = "run"
  BY <1>3, <1>4
<1>7. In("rd_blocked")' = {} /\ In("wr_blocked")' = In("wr_blocked") \ W
  BY <1>3, <1>4, SMTT(30) DEF In
<1>8. WriterWaits' = WriterWaits
  BY <1>3, <1>4, SMTT(30) DEF In, WriterWaits
<1>9. W # {} => In("wr_woken")' # {}
  BY <1>3, <1>4, SMTT(30) DEF In
<1>10. RWWaitListsExact'
  BY <1>1, <1>2, <1>7, ZenonT(30) DEF RWWaitListsExact
<1> QED BY <1>1, <1>2, <1>5, <1>6, <1>8, <1>9, <1>10, SMTT(30)

(* The last reader to leave wakes a writer.                                *)
LEMMA RdunlockStep ==
    ASSUME RWIInv, NEW t \in Thread, rwlock_rdunlock(t)
    PROVE  RWIInv'
<1> USE RWLockAssumption DEF RWIInv
<1>1. /\ reader_count' = Cardinality(reading') /\ reader_count' \in Nat
      /\ reader_count' = 0 => reader_count = 1
  <2>1. /\ Cardinality(reading \ {t}) = Cardinality(reading) - 1
        /\ IsFiniteSet(reading \ {t})
    BY CountedFinite, FS_RemoveElement DEF rwlock_rdunlock
  <2>2. Cardinality(reading \ {t}) \in Nat
    BY <2>1, FS_CardinalityType
  <2> QED BY <2>1, <2>2, CountedFinite DEF rwlock_rdunlock, CountsExact
<1>2. /\ rw_status' \in [Thread -> RWStatus]
      /\ \A u \in Thread : rw_status'[u] = "run" <=> rw_status[u] = "run"
      /\ readers' = readers /\ writers' \in Seq(Thread)
      /\ RWWaitListsExact'
      /\ WriterWaits' = WriterWaits
      /\ reader_count' = 0 /\ writers # <<>> => In("wr_woken")' # {}
      /\ writers' # <<>> => writers # <<>>
  <2>1. CASE reader_count = 1 /\ writers # <<>>
    BY <2>1, WakeWriterLists, SMTT(30) DEF rwlock_rdunlock, LastReaderWakes, WakeWriter
  <2>2. CASE ~(reader_count = 1 /\ writers # <<>>)
    BY <1>1, <2>2 DEF rwlock_rdunlock, LastReaderWakes, WakeNobody, RWWaitListsExact, In,
                      WriterWaits, RWTypeOK
  <2> QED BY <2>1, <2>2
<1>3. RWTypeOK'
  BY <1>1, <1>2, SMTT(30) DEF RWTypeOK, rwlock_rdunlock
<1>4. CountsExact'
  BY <1>1, <1>2 DEF CountsExact, rwlock_rdunlock
<1>5. RWNoLostWakeup'
  <2>1. readers' # <<>> => ReadBarred'
    BY <1>2 DEF RWNoLostWakeup, rwlock_rdunlock, ReadBarred
  <2>2. writers' # <<>> => WriteBarred' \/ In("wr_woken")' # {}
    BY <1>1, <1>2 DEF WriteBarred
  <2> QED BY <2>1, <2>2 DEF RWNoLostWakeup
<1>6. Holders'
  BY <1>2 DEF Holders, rwlock_rdunlock
<1> QED BY <1>2, <1>3, <1>4, <1>5, <1>6

(* The writer that unlocks wakes a writer, or all readers and a writer.    *)
LEMMA WrunlockStep ==
    ASSUME RWIInv, NEW t \in Thread, writer = t, rwlock_wrunlock(t)
    PROVE  RWIInv'
<1> USE RWLockAssumption DEF RWIInv
<1>1. writer # NULL /\ reading = {} /\ reader_count = 0
  BY CountersMean DEF Holders
<1>2. \/ preference = "WRITER" /\ writers # <<>> /\ WakeWriter
      \/ WakeReadersAndWriter
  BY <1>1 DEF rwlock_wrunlock, rwVars, rwLockVars
<1>3. /\ writer' = NULL
      /\ UNCHANGED <<preference, reader_count, writer_wait_count, reading>>
  BY <1>1 DEF rwlock_wrunlock, rwVars, rwLockVars
<1>4. /\ rw_status' \in [Thread -> RWStatus]
      /\ \A u \in Thread : rw_status'[u] = "run" <=> rw_status[u] = "run"
      /\ readers' \in Seq(Thread) /\ writers' \in Seq(Thread)
      /\ RWWaitListsExact'
      /\ WriterWaits' = WriterWaits
      /\ writers' # <<>> => In("wr_woken")' # {}
      /\ readers' # <<>> => preference = "WRITER" /\ In("wr_woken")' # {}
  <2>1. CASE preference = "WRITER" /\ writers # <<>> /\ WakeWriter
    BY <2>1, WakeWriterLists
  <2>2. CASE WakeReadersAndWriter
    <3>1. CASE writers # <<>>
      BY <1>1, <2>2, <3>1, WakeReadersLists, Zenon DEF WakeReadersAndWriter
    <3>2. CASE writers = <<>>
      BY <1>1, <2>2, <3>2, WakeReadersLists DEF WakeReadersAndWriter
    <3> QED BY <3>1, <3>2
  <2> QED BY <1>2, <2>1, <2>2
<1>5. RWTypeOK'
  BY <1>3, <1>4 DEF RWTypeOK
<1>6. CountsExact'
  BY <1>3, <1>4 DEF CountsExact
<1>7. RWNoLostWakeup'
  <2>1. In("wr_woken")' # {} => writer_wait_count > 0
    <3>1. In("wr_woken")' # {} => WriterWaits # {}
      BY <1>4 DEF WriterWaits
    <3> QED BY <3>1, CountersMean DEF RWTypeOK
  <2> QED BY <1>3, <1>4, <2>1 DEF RWNoLostWakeup, ReadBarred
<1>8. Holders'
  BY <1>3, <1>4 DEF Holders
<1> QED BY <1>4, <1>5, <1>6, <1>7, <1>8

(* The writer turned reader wakes the readers, which may join it.          *)
LEMMA DowngradeStep ==
    ASSUME RWIInv, NEW t \in Thread, writer = t, rwlock_downgrade(t)
    PROVE  RWIInv'
<1> USE RWLockAssumption DEF RWIInv
<1>1. writer # NULL /\ reading = {} /\ reader_count = 0 /\ rw_status[t] = "run"
  BY CountersMean DEF Holders, rwlock_downgrade
<1>2. /\ writer' = NULL /\ reader_count' = 1 /\ readers' = <<>> /\ reading' = {t}
      /\ Wake(Range(readers), {})
      /\ UNCHANGED <<preference, writer_wait_count, writers>>
  BY <1>1 DEF rwlock_downgrade, rwVars, rwLockVars
<1>3. /\ rw_status' \in [Thread -> RWStatus]
      /\ \A u \in Thread : rw_status'[u] = "run" <=> rw_status[u] = "run"
      /\ RWWaitListsExact'
      /\ WriterWaits' = WriterWaits
  BY <1>2, WakeReadersLists
<1>4. RWTypeOK'
  BY <1>2, <1>3 DEF RWTypeOK
<1>5. CountsExact'
  BY <1>2, <1>3, FS_Singleton, Zenon DEF CountsExact
<1>6. RWNoLostWakeup'
  BY <1>2 DEF RWNoLostWakeup, WriteBarred
<1>7. Holders'
  BY <1>1, <1>2, <1>3 DEF Holders
<1> QED BY <1>3, <1>4, <1>5, <1>6, <1>7, SMTT(30)

(* The lock goes to t without any list or thread state changing: by        *)
(* trywrlock when nobody reads, by upgrade when only t reads.              *)
LEMMA GrabStep ==
    ASSUME RWIInv, NEW t \in Thread, rw_status[t] = "run", reading \subseteq {t},
           writer' = t, reader_count' = 0, reading' = {},
           UNCHANGED <<preference, writer_wait_count, readers, writers, rw_status>>
    PROVE  RWIInv'
<1> USE RWLockAssumption DEF RWIInv
<1>1. In("rd_blocked")' = In("rd_blocked") /\ In("wr_blocked")' = In("wr_blocked")
      /\ WriterWaits' = WriterWaits
  BY DEF In, WriterWaits
<1>2. RWTypeOK'
  BY SMTT(30) DEF RWTypeOK
<1>3. CountsExact'
  BY <1>1, FS_EmptySet DEF CountsExact
<1>4. RWWaitListsExact'
  BY <1>1 DEF RWWaitListsExact
<1>5. RWNoLostWakeup' /\ Holders'
  BY SMTT(30) DEF RWNoLostWakeup, Holders, ReadBarred, WriteBarred, RWTypeOK
<1> QED BY <1>2, <1>3, <1>4, <1>5, SMTT(30)

(* A call that returns without changing anything.                          *)
LEMMA RWStutterStep ==
    ASSUME RWIInv, UNCHANGED rwVars
    PROVE  RWIInv'
BY DEF RWIInv, rwVars, rwLockVars, RWTypeOK, CountsExact, RWWaitListsExact, RWNoLostWakeup, Holders,
       In, WriterWaits, ReadBarred, WriteBarred

(* Every step of the lock preserves the inductive invariant.               *)
LEMMA RWNextIInv == RWIInv /\ [RWLockNext]_rwVars => RWIInv'
<1> SUFFICES ASSUME RWIInv, [RWLockNext]_rwVars PROVE RWIInv'
  OBVIOUS
<1>1. CASE UNCHANGED rwVars
  BY <1>1, RWStutterStep
<1>2. ASSUME NEW t \in Thread, rwlock_rdlock(t) PROVE RWIInv'
  BY <1>2, StartReadStep, BlockReadStep DEF rwlock_rdlock
<1>3. ASSUME NEW t \in Thread, rwlock_tryrdlock(t) PROVE RWIInv'
  BY <1>3, StartReadStep, RWStutterStep DEF rwlock_tryrdlock
<1>4. ASSUME NEW t \in Thread, rwlock_wrlock(t) PROVE RWIInv'
  BY <1>4, StartWriteStep, BlockWriteStep DEF rwlock_wrlock
<1>5. ASSUME NEW t \in Thread, rwlock_trywrlock(t) PROVE RWIInv'
  <2>1. CASE ~WriteBarred
    <3>1. reader_count = 0
      BY <2>1 DEF WriteBarred, RWIInv, RWTypeOK
    <3>2. reading = {}
      BY <3>1, CountersMean
    <3>3. /\ rw_status[t] = "run" /\ writer' = t
          /\ UNCHANGED <<preference, reader_count, writer_wait_count, readers, writers,
                         rw_status, reading>>
      BY <1>5, <2>1 DEF rwlock_trywrlock, Idle
    <3> QED BY <3>1, <3>2, <3>3, GrabStep
  <2>2. CASE WriteBarred
    BY <1>5, <2>2, RWStutterStep DEF rwlock_trywrlock
  <2> QED BY <2>1, <2>2
<1>6. ASSUME NEW t \in Thread, rwlock_wrunlock(t) PROVE RWIInv'
  BY <1>6, WrunlockStep, RWStutterStep DEF rwlock_wrunlock
<1>7. ASSUME NEW t \in Thread, rwlock_upgrade(t) PROVE RWIInv'
  <2>1. CASE UNCHANGED rwVars
    BY <2>1, RWStutterStep
  <2>2. CASE ~UNCHANGED rwVars
    <3>1. /\ rw_status[t] = "run" /\ reader_count = 1 /\ t \in reading
          /\ reader_count' = reader_count - 1 /\ writer' = t /\ reading' = reading \ {t}
          /\ UNCHANGED <<preference, writer_wait_count, readers, writers, rw_status>>
      BY <1>7, <2>2 DEF rwlock_upgrade, OnlyReader
    <3>2. reading = {t}
      BY <3>1, CountersMean
    <3>3. reader_count' = 0 /\ reading' = {}
      BY <3>1, <3>2, SMTT(30)
    <3> QED BY <3>1, <3>2, <3>3, GrabStep, SMTT(30)
  <2> QED BY <2>1, <2>2
<1>8. ASSUME NEW t \in Thread, rwlock_downgrade(t) PROVE RWIInv'
  BY <1>8, DowngradeStep, RWStutterStep DEF rwlock_downgrade
<1>9. ASSUME NEW t \in Thread, rwlock_rdunlock(t) PROVE RWIInv'
  BY <1>9, RdunlockStep
<1> QED BY <1>1, <1>2, <1>3, <1>4, <1>5, <1>6, <1>7, <1>8, <1>9 DEF RWLockNext

(* The inductive invariant holds in every behaviour of the lock.           *)
LEMMA RWInvariantHolds == RWLockSpec => []RWIInv
BY RWInitIInv, RWNextIInv, PTL DEF RWLockSpec

(* The variables keep their types; neither counter becomes negative.       *)
THEOREM RWLockTypeCorrect == RWLockSpec => []RWTypeOK
BY RWInvariantHolds, PTL DEF RWIInv

(* reader_count and writer_wait_count count what they are meant to.        *)
THEOREM RWLockCounts == RWLockSpec => []CountsExact
BY RWInvariantHolds, PTL DEF RWIInv

(* The two wait lists hold exactly the blocked readers and writers.        *)
THEOREM RWLockWaitLists == RWLockSpec => []RWWaitListsExact
BY RWInvariantHolds, PTL DEF RWIInv

(* No reader or writer is left in its list when nothing bars it.           *)
THEOREM RWLockNoLostWakeup == RWLockSpec => []RWNoLostWakeup
BY RWInvariantHolds, PTL DEF RWIInv

-----------------------------------------------------------------------------
(* How a step can change who holds the lock.                               *)
LEMMA HolderChange ==
    ASSUME RWIInv, [RWLockNext]_rwVars, ~UNCHANGED <<reading, writer>>
    PROVE  \E t \in Thread :
             \/ /\ StartRead(t) /\ t \notin reading
             \/ rwlock_rdunlock(t)
             \/ ~WriteBarred /\ writer' = t /\ reading' = reading
             \/ writer = t /\ writer' = NULL /\ reading' = reading
             \/ /\ OnlyReader /\ t \in reading
                /\ writer' = t /\ reading' = reading \ {t}
             \/ /\ writer = t /\ writer' = NULL /\ reading' = reading \cup {t}
<1>1. RWLockNext
  BY DEF rwVars, rwLockVars
<1>2. ASSUME NEW t \in Thread, rwlock_rdlock(t) PROVE StartRead(t) /\ t \notin reading
  BY <1>2 DEF rwlock_rdlock, BlockRead, Idle, RWIInv, Holders
<1>3. ASSUME NEW t \in Thread, rwlock_tryrdlock(t) PROVE StartRead(t) /\ t \notin reading
  BY <1>3 DEF rwlock_tryrdlock, Idle, rwVars, rwLockVars
<1>4. ASSUME NEW t \in Thread, rwlock_wrlock(t) \/ rwlock_trywrlock(t)
      PROVE  ~WriteBarred /\ writer' = t /\ reading' = reading
  BY <1>4, SMTT(30) DEF rwlock_wrlock, rwlock_trywrlock, StartWrite, BlockWrite, rwVars, rwLockVars
<1>5. ASSUME NEW t \in Thread, rwlock_wrunlock(t)
      PROVE  writer = t /\ writer' = NULL /\ reading' = reading
  BY <1>5 DEF rwlock_wrunlock, rwVars, rwLockVars
<1>6. ASSUME NEW t \in Thread, rwlock_upgrade(t)
      PROVE  OnlyReader /\ t \in reading /\ writer' = t /\ reading' = reading \ {t}
  BY <1>6, SMTT(30) DEF rwlock_upgrade, rwVars, rwLockVars, RWIInv, RWTypeOK
<1>7. ASSUME NEW t \in Thread, rwlock_downgrade(t)
      PROVE  writer = t /\ writer' = NULL /\ reading' = reading \cup {t}
  BY <1>7, ZenonT(30) DEF rwlock_downgrade, rwVars, rwLockVars
<1> QED BY <1>1, <1>2, <1>3, <1>4, <1>5, <1>6, <1>7, SMTT(30) DEF RWLockNext

(* Every step is a step of the abstract read-write lock or hidden.         *)
LEMMA RWNextRefines ==
    ASSUME RWIInv, [RWLockNext]_rwVars
    PROVE  [RWView!RWNext]_<<reading, writer>>
<1> SUFFICES ASSUME ~UNCHANGED <<reading, writer>> PROVE RWView!RWNext
  OBVIOUS
<1> PICK t \in Thread :
             \/ /\ StartRead(t) /\ t \notin reading
             \/ rwlock_rdunlock(t)
             \/ ~WriteBarred /\ writer' = t /\ reading' = reading
             \/ writer = t /\ writer' = NULL /\ reading' = reading
             \/ /\ OnlyReader /\ t \in reading
                /\ writer' = t /\ reading' = reading \ {t}
             \/ /\ writer = t /\ writer' = NULL /\ reading' = reading \cup {t}
  BY HolderChange
<1> USE DEF RWView!RWNext
<1>1. CASE StartRead(t) /\ t \notin reading
  BY <1>1 DEF StartRead, ReadBarred, RWView!StartRead
<1>2. CASE rwlock_rdunlock(t)
  BY <1>2 DEF rwlock_rdunlock, RWView!EndRead
<1>3. CASE ~WriteBarred /\ writer' = t /\ reading' = reading
  <2>1. writer = NULL /\ reading = {}
    BY <1>3, CountersMean DEF WriteBarred, RWIInv, RWTypeOK
  <2> QED BY <1>3, <2>1 DEF RWView!StartWrite
<1>4. CASE writer = t /\ writer' = NULL /\ reading' = reading
  BY <1>4 DEF RWView!EndWrite
<1>5. CASE OnlyReader /\ t \in reading /\ writer' = t /\ reading' = reading \ {t}
  <2>1. writer = NULL /\ reading = {t}
    BY <1>5, CountersMean DEF OnlyReader
  <2> QED BY <1>5, <2>1 DEF RWView!Upgrade
<1>6. CASE writer = t /\ writer' = NULL /\ reading' = reading \cup {t}
  <2>1. reading = {}
    BY <1>6, RWLockAssumption DEF RWIInv, Holders
  <2> QED BY <1>6, <2>1 DEF RWView!Downgrade
<1> QED BY <1>1, <1>2, <1>3, <1>4, <1>5, <1>6

(* The counters of sync.c implement readers-or-one-writer, upgrade and     *)
(* downgrade included.                                                     *)
THEOREM RWLockImplementsReadersWriter == RWLockSpec => ImplementsReadersWriter
<1>1. rwlock_init => RWView!RWInit
  BY DEF rwlock_init, RWView!RWInit
<1>2. RWIInv /\ [RWLockNext]_rwVars => [RWView!RWNext]_<<reading, writer>>
  BY RWNextRefines
<1> QED BY <1>1, <1>2, RWInvariantHolds, PTL
        DEF RWLockSpec, ImplementsReadersWriter, RWView!RWSpec, RWView!rwView

(* With writer preference no reader overtakes a waiting writer.            *)
THEOREM RWLockWriterPreferred == RWLockSpec => WriterPreferred
<1>1. ASSUME RWIInv, [RWLockNext]_rwVars
      PROVE  [preference = "WRITER" /\ WriterWaits # {} =>
                reading' \ reading \subseteq {writer}]_rwVars
  <2> SUFFICES ASSUME preference = "WRITER", WriterWaits # {},
                      ~UNCHANGED <<reading, writer>>
               PROVE  reading' \ reading \subseteq {writer}
    OBVIOUS
  <2>1. ReadBarred
    BY <1>1, CountersMean DEF ReadBarred, RWIInv, RWTypeOK
  <2> QED BY <1>1, <2>1, HolderChange DEF StartRead, rwlock_rdunlock
<1> QED BY <1>1, RWInvariantHolds, PTL DEF RWLockSpec, WriterPreferred
=============================================================================

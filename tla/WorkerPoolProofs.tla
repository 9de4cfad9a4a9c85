-------------------------- MODULE WorkerPoolProofs --------------------------
(***************************************************************************)
(* The worker pool for any number of workers and any finite set of calls   *)
(* of worker_pool_submit: the semaphore agrees with the queue, and items   *)
(* are taken in order and once.                                            *)
(***************************************************************************)
EXTENDS WorkerPool, ListLemmas, FiniteSetTheorems

PoolTypeOK ==
    /\ queue \in Seq(Item) /\ accepted \in Seq(Item) /\ taken_order \in Seq(Item)
    /\ work_sem \in Nat /\ step \in Int
    /\ pool \in {"creating", "failed", "abandoned", "open", "closing", "joining", "joined", "freed"}
    /\ worker \in [Worker -> {"none", "top", "wait", "check", "dequeue", "run", "exited"}]
    /\ item \in [Worker -> Item \cup {None}]
    /\ call \in [Item -> {"none", "refused", "tested", "queued", "done"}]

(* The phases of the thread that manages the pool: the flag is set from    *)
(* the first sign of the end on, the workers not yet created do not run,   *)
(* and nobody is inside worker_pool_submit once the pool is freed.         *)
Phases ==
    /\ pool \notin {"creating", "open"} => shutdown
    /\ pool = "creating" => \A w \in Worker : w >= step => worker[w] = "none"
    /\ pool = "freed" => queue = <<>> /\ \A i \in Item : call[i] # "tested"

(* Until the pool is freed, the queue is what was accepted and not taken.  *)
QueueIsRest == pool # "freed" => accepted = taken_order \o queue

(* What was accepted are the calls past their enqueue, each one once.      *)
AcceptedOnce ==
    /\ IsInjective(accepted)
    /\ Range(accepted) = {i \in Item : call[i] \in {"queued", "done"}}

(* The inductive invariant.  FifoOnce alone is not inductive: that the     *)
(* head of the queue comes next needs QueueIsRest, that an item is new     *)
(* needs AcceptedOnce, and UnitsMatchItems needs the phases.               *)
PoolIInv ==
    PoolTypeOK /\ Phases /\ QueueIsRest /\ AcceptedOnce /\ FifoOnce /\ UnitsMatchItems

(* The workers are numbered from 1 to num_workers.                         *)
LEMMA PoolConstants ==
    (\E n \in Nat : Worker = 1 .. n) /\ IsFiniteSet(Item) /\ None \notin Item
<1>1. Cardinality(Worker) \in Nat
  BY PoolAssumption, FS_CardinalityType
<1> QED BY <1>1, PoolAssumption

(* Workers and calls can be counted.                                       *)
LEMMA Countable ==
    /\ IsFiniteSet(Committed) /\ Cardinality(Committed) \in Nat
    /\ IsFiniteSet(Unposted) /\ Cardinality(Unposted) \in Nat
<1>1. IsFiniteSet(Worker)
  BY PoolConstants, FS_Interval
<1> QED BY <1>1, PoolConstants, FS_Subset, FS_CardinalityType DEF Committed, Unposted

(* The empty pool, before worker_pool_create has started a worker.         *)
LEMMA PoolInitial == PoolInit => PoolIInv
<1> SUFFICES ASSUME PoolInit PROVE PoolIInv
  OBVIOUS
<1> USE DEF PoolInit
<1>1. PoolTypeOK /\ Phases
  BY PoolConstants DEF PoolTypeOK, Phases
<1>2. QueueIsRest /\ AcceptedOnce
  BY DEF QueueIsRest, AcceptedOnce, IsInjective, Range
<1>3. FifoOnce
  BY <1>2 DEF FifoOnce, AcceptedOnce
<1>4. UnitsMatchItems
  <2>1. Committed = {} /\ Unposted = {}
    BY DEF Committed, Unposted
  <2>2. Cardinality(Committed) = 0 /\ Cardinality(Unposted) = 0
    BY <2>1, FS_EmptySet
  <2> QED BY <2>2 DEF UnitsMatchItems
<1> QED BY <1>1, <1>2, <1>3, <1>4 DEF PoolIInv

(* A sequence is a prefix of what is appended to it.                       *)
LEMMA Prefix ==
    ASSUME NEW S, NEW a \in Seq(S), NEW b \in Seq(S)
    PROVE  SubSeq(a \o b, 1, Len(a)) = a
OBVIOUS

(* A step that leaves queue, histories and calls alone.                    *)
LEMMA QuietStep ==
    ASSUME PoolIInv, PoolTypeOK', pool' # "freed" \/ pool = "freed", pool = "freed" => pool' = "freed",
           UNCHANGED <<queue, accepted, taken_order>>,
           {i \in Item : call'[i] \in {"queued", "done"}} = {i \in Item : call[i] \in {"queued", "done"}}
    PROVE  QueueIsRest' /\ AcceptedOnce' /\ FifoOnce'
BY DEF PoolIInv, QueueIsRest, AcceptedOnce, FifoOnce

(* worker_pool_create and what follows when a thread cannot be created.    *)
LEMMA CreateStep ==
    ASSUME PoolIInv, worker_pool_create \/ CreateFails \/ FailedCleanup
    PROVE  PoolIInv'
<1> USE DEF PoolIInv
<1>1. PoolTypeOK'
  <2>1. CASE worker_pool_create
    BY <2>1 DEF PoolTypeOK, worker_pool_create
  <2>2. CASE CreateFails
    BY <2>2 DEF PoolTypeOK, CreateFails
  <2>3. CASE FailedCleanup
    BY <2>3 DEF PoolTypeOK, FailedCleanup
  <2> QED BY <2>1, <2>2, <2>3
<1>2. Phases'
  <2>1. CASE worker_pool_create
    <3>1. pool' = "creating" => \A w \in Worker : w >= step' => worker'[w] = "none"
      BY <2>1, PoolConstants DEF PoolTypeOK, worker_pool_create, Phases
    <3>2. pool' \in {"creating", "open"}
      BY <2>1 DEF worker_pool_create
    <3> QED BY <3>1, <3>2 DEF Phases
  <2>2. CASE CreateFails
    BY <2>2 DEF CreateFails, Phases
  <2>3. CASE FailedCleanup
    BY <2>3 DEF FailedCleanup, Phases
  <2> QED BY <2>1, <2>2, <2>3
<1>3. QueueIsRest' /\ AcceptedOnce' /\ FifoOnce'
  BY <1>1, QuietStep DEF worker_pool_create, CreateFails, FailedCleanup
<1>4. UnitsMatchItems'
  <2>1. CASE worker_pool_create
    <3>1. Committed' = Committed
      BY <2>1, PoolConstants DEF Committed, worker_pool_create, PoolTypeOK, Phases
    <3>2. UNCHANGED <<shutdown, work_sem, queue, Unposted>>
      BY <2>1 DEF worker_pool_create, Unposted
    <3> QED BY <3>1, <3>2 DEF UnitsMatchItems
  <2>2. CASE CreateFails \/ FailedCleanup
    <3>1. pool' \notin {"creating", "open"}
      BY <2>2 DEF CreateFails, FailedCleanup
    <3> QED BY <1>2, <3>1 DEF UnitsMatchItems, Phases
  <2> QED BY <2>1, <2>2
<1> QED BY <1>1, <1>2, <1>3, <1>4

(* The steps of a worker that leave the number of committed ones alone.    *)
LEMMA WorkerQuiet ==
    ASSUME PoolIInv, NEW w \in Worker, LoopTest(w) \/ CheckShutdown(w) \/ Execute(w)
    PROVE  PoolIInv'
<1> USE DEF PoolIInv
<1>1. PoolTypeOK' /\ Phases'
  <2>1. /\ UNCHANGED <<queue, work_sem, shutdown, pool, step, call, accepted, taken_order>>
        /\ item' = item \/ item' = [item EXCEPT ![w] = None]
        /\ worker[w] # "none"
        /\ \E to \in {"top", "wait", "dequeue", "exited"} : worker' = [worker EXCEPT ![w] = to]
    BY Zenon DEF LoopTest, CheckShutdown, Execute, Goes
  <2>2. PoolTypeOK'
    BY <2>1 DEF PoolTypeOK
  <2>3. Phases'
    <3>1. \A v \in Worker : worker[v] = "none" => worker'[v] = "none"
      BY <2>1 DEF PoolTypeOK
    <3> QED BY <2>1, <3>1 DEF Phases
  <2> QED BY <2>2, <2>3
<1>2. QueueIsRest' /\ AcceptedOnce' /\ FifoOnce'
  BY <1>1, QuietStep DEF LoopTest, CheckShutdown, Execute
<1>3. ~shutdown => Committed' = Committed
  BY DEF Committed, PoolTypeOK, LoopTest, CheckShutdown, Execute, Goes
<1>4. UNCHANGED <<work_sem, queue, shutdown, Unposted>>
  BY DEF LoopTest, CheckShutdown, Execute, Unposted
<1>5. UnitsMatchItems'
  BY <1>3, <1>4 DEF UnitsMatchItems
<1> QED BY <1>1, <1>2, <1>5

(* sem_wait returns: a unit becomes a committed worker.                    *)
LEMMA WaitStep ==
    ASSUME PoolIInv, NEW w \in Worker, WaitForWork(w)
    PROVE  PoolIInv'
<1> USE DEF PoolIInv
<1>1. PoolTypeOK' /\ Phases'
  BY PoolConstants DEF PoolTypeOK, Phases, WaitForWork, Goes
<1>2. QueueIsRest' /\ AcceptedOnce' /\ FifoOnce'
  BY <1>1, QuietStep DEF WaitForWork
<1>3. Committed' = Committed \cup {w} /\ w \notin Committed
  BY DEF Committed, PoolTypeOK, WaitForWork, Goes
<1>4. Cardinality(Committed') = Cardinality(Committed) + 1
  BY <1>3, Countable, FS_AddElement
<1>5. UnitsMatchItems'
  BY <1>4, Countable DEF UnitsMatchItems, WaitForWork, PoolTypeOK, Unposted
<1> QED BY <1>1, <1>2, <1>5

(* The worker takes the head of the queue, which is not empty unless the   *)
(* pool is shutting down.                                                  *)
LEMMA DequeueStep ==
    ASSUME PoolIInv, NEW w \in Worker, Dequeue(w)
    PROVE  PoolIInv'
<1> USE DEF PoolIInv
<1>1. PoolTypeOK'
  <2>1. CASE queue = <<>>
    BY <2>1 DEF PoolTypeOK, Dequeue, Goes
  <2>2. CASE queue # <<>>
    <3>1. Head(queue) \in Item /\ Tail(queue) \in Seq(Item)
      BY <2>2 DEF PoolTypeOK
    <3>2. Append(taken_order, Head(queue)) \in Seq(Item)
      BY <3>1 DEF PoolTypeOK
    <3> QED BY <2>2, <3>1, <3>2 DEF PoolTypeOK, Dequeue, Goes, Taken
  <2> QED BY <2>1, <2>2
<1>2. Phases'
  BY PoolConstants DEF PoolTypeOK, Phases, Dequeue, Goes
<1>3. AcceptedOnce'
  BY DEF AcceptedOnce, Dequeue
<1>4. QueueIsRest' /\ FifoOnce'
  <2>1. CASE queue = <<>>
    BY <2>1 DEF Dequeue, QueueIsRest, FifoOnce
  <2>2. CASE queue # <<>>
    <3>1. pool # "freed" /\ pool' # "freed"
      BY <2>2 DEF Phases, Dequeue
    <3>2. taken_order \o queue = Append(taken_order, Head(queue)) \o Tail(queue)
      BY <2>2 DEF PoolTypeOK
    <3>3. QueueIsRest'
      BY <2>2, <3>1, <3>2 DEF QueueIsRest, Dequeue, Taken
    <3>4. FifoOnce'
      BY <1>1, <1>3, <3>1, <3>3, Prefix DEF FifoOnce, QueueIsRest, AcceptedOnce, PoolTypeOK
    <3> QED BY <3>3, <3>4
  <2> QED BY <2>1, <2>2
<1>5. Committed' = Committed \ {w} /\ w \in Committed
  BY DEF Committed, PoolTypeOK, Dequeue, Goes
<1>6. Cardinality(Committed') = Cardinality(Committed) - 1
  BY <1>5, Countable, FS_RemoveElement
<1>7. UnitsMatchItems'
  <2> SUFFICES ASSUME ~shutdown PROVE UnitsMatchItems'
    BY DEF UnitsMatchItems, Dequeue
  <2>1. work_sem + Cardinality(Committed) = Len(queue) - Cardinality(Unposted)
    BY DEF UnitsMatchItems, Unposted
  <2>2. Cardinality(Committed') \in Nat
    BY <1>5, Countable, FS_RemoveElement, FS_CardinalityType
  <2>3. Len(queue) > 0 /\ queue # <<>>
    BY <1>6, <2>1, <2>2, Countable DEF PoolTypeOK
  <2>4. Len(queue') = Len(queue) - 1
    BY <2>3 DEF Dequeue, PoolTypeOK
  <2> QED BY <1>6, <2>1, <2>4, Countable, SMTT(30) DEF UnitsMatchItems, Unposted, Dequeue, PoolTypeOK
<1> QED BY <1>1, <1>2, <1>3, <1>4, <1>7
(* worker_pool_submit tests the flags: nothing is queued yet.              *)
LEMMA SubmitTestStep ==
    ASSUME PoolIInv, NEW i \in Item, SubmitTest(i)
    PROVE  PoolIInv'
<1> USE DEF PoolIInv
<1>1. PICK answer \in {"refused", "tested"} : call' = [call EXCEPT ![i] = answer]
  BY DEF SubmitTest
<1>2. PoolTypeOK'
  BY <1>1 DEF PoolTypeOK, SubmitTest
<1>3. pool # "freed" /\ UNCHANGED <<pool, shutdown, step, worker, queue, work_sem>>
  BY DEF SubmitTest
<1>4. Phases'
  BY <1>3 DEF Phases
<1>5. /\ {k \in Item : call'[k] \in {"queued", "done"}} = {k \in Item : call[k] \in {"queued", "done"}}
      /\ Unposted' = Unposted
  BY <1>1 DEF SubmitTest, PoolTypeOK, Unposted
<1>6. QueueIsRest' /\ AcceptedOnce' /\ FifoOnce'
  BY <1>2, <1>5, QuietStep DEF SubmitTest
<1>7. UnitsMatchItems'
  BY <1>3, <1>5 DEF UnitsMatchItems, Committed
<1> QED BY <1>2, <1>4, <1>6, <1>7

(* The item goes to the end of the queue; its unit is still missing.       *)
LEMMA SubmitQueueStep ==
    ASSUME PoolIInv, NEW i \in Item, SubmitQueue(i)
    PROVE  PoolIInv'
<1> USE DEF PoolIInv
<1>1. PoolTypeOK'
  BY DEF PoolTypeOK, SubmitQueue
<1>2. pool # "freed" /\ UNCHANGED <<pool, shutdown, step, worker, work_sem, taken_order>>
  BY DEF SubmitQueue, Phases
<1>3. Phases'
  BY <1>2 DEF Phases
<1>4. QueueIsRest'
  <2> HIDE DEF PoolIInv
  <2>1. queue \in Seq(Item) /\ taken_order \in Seq(Item)
    BY DEF PoolIInv, PoolTypeOK
  <2>2. Append(taken_order \o queue, i) = taken_order \o Append(queue, i)
    <3> DEFINE l == Append(taken_order \o queue, i)
               r == taken_order \o Append(queue, i)
    <3>1. l \in Seq(Item) /\ r \in Seq(Item) /\ Len(r) = Len(l)
      BY <2>1
    <3>2. \A k \in 1 .. Len(l) : l[k] = r[k]
      BY <2>1
    <3> HIDE DEF l, r
    <3>3. l = r
      BY <3>1, <3>2
    <3> QED BY <3>3 DEF l, r
  <2>3. accepted = taken_order \o queue
    BY <1>2 DEF PoolIInv, QueueIsRest
  <2>4. accepted' = Append(accepted, i) /\ queue' = Append(queue, i)
    BY DEF SubmitQueue
  <2> QED BY <1>2, <2>2, <2>3, <2>4, Zenon DEF QueueIsRest
<1>5. AcceptedOnce'
  <2>1. i \notin Range(accepted)
    BY DEF AcceptedOnce, SubmitQueue
  <2>2. IsInjective(accepted') /\ Range(accepted') = Range(accepted) \cup {i}
    BY <2>1, AppendExact DEF AcceptedOnce, SubmitQueue, PoolTypeOK
  <2>3. {k \in Item : call'[k] \in {"queued", "done"}}
          = {k \in Item : call[k] \in {"queued", "done"}} \cup {i}
    BY DEF SubmitQueue, PoolTypeOK
  <2> QED BY <2>2, <2>3 DEF AcceptedOnce
<1>6. FifoOnce'
  BY <1>1, <1>2, <1>4, <1>5, Prefix DEF FifoOnce, QueueIsRest, AcceptedOnce, PoolTypeOK
<1>7. UnitsMatchItems'
  <2>1. Unposted' = Unposted \cup {i} /\ i \notin Unposted
    BY DEF Unposted, SubmitQueue, PoolTypeOK
  <2>2. Cardinality(Unposted') = Cardinality(Unposted) + 1
    BY <2>1, Countable, FS_AddElement
  <2>3. Len(queue') = Len(queue) + 1 /\ Len(queue) \in Nat
    BY DEF SubmitQueue, PoolTypeOK
  <2>4. Committed' = Committed
    BY <1>2 DEF Committed
  <2> QED BY <1>2, <2>2, <2>3, <2>4, Countable DEF UnitsMatchItems, PoolTypeOK
<1> QED BY <1>1, <1>3, <1>4, <1>5, <1>6, <1>7

(* The post: the item gets its unit.                                       *)
LEMMA SubmitPostStep ==
    ASSUME PoolIInv, NEW i \in Item, SubmitPost(i)
    PROVE  PoolIInv'
<1> USE DEF PoolIInv
<1>1. PoolTypeOK'
  BY DEF PoolTypeOK, SubmitPost
<1>2. UNCHANGED <<pool, shutdown, step, worker, queue>>
  BY DEF SubmitPost
<1>3. Phases'
  BY <1>2 DEF Phases, SubmitPost, PoolTypeOK
<1>4. {k \in Item : call'[k] \in {"queued", "done"}} = {k \in Item : call[k] \in {"queued", "done"}}
  BY DEF SubmitPost, PoolTypeOK
<1>5. QueueIsRest' /\ AcceptedOnce' /\ FifoOnce'
  BY <1>1, <1>4, QuietStep DEF SubmitPost
<1>6. UnitsMatchItems'
  <2>1. Unposted' = Unposted \ {i} /\ i \in Unposted
    BY DEF Unposted, SubmitPost, PoolTypeOK
  <2>2. Cardinality(Unposted') = Cardinality(Unposted) - 1
    BY <2>1, Countable, FS_RemoveElement
  <2>3. Committed' = Committed /\ Len(queue) \in Nat /\ work_sem' = work_sem + 1
    BY <1>2 DEF Committed, PoolTypeOK, SubmitPost
  <2> QED BY <1>2, <2>2, <2>3, Countable DEF UnitsMatchItems, PoolTypeOK
<1> QED BY <1>1, <1>3, <1>5, <1>6

(* worker_pool_shutdown_timeout and worker_pool_destroy: from the flag on, *)
(* units no longer stand for items.                                        *)
LEMMA ShutdownStep ==
    ASSUME PoolIInv, BeginShutdown \/ WakeWorkers \/ JoinWorkers \/ worker_pool_destroy
    PROVE  PoolIInv'
<1> USE DEF PoolIInv
<1>1. PoolTypeOK'
  <2>1. CASE BeginShutdown
    BY <2>1 DEF PoolTypeOK, BeginShutdown
  <2>2. CASE WakeWorkers
    BY <2>2 DEF PoolTypeOK, WakeWorkers
  <2>3. CASE JoinWorkers
    BY <2>3 DEF PoolTypeOK, JoinWorkers
  <2>4. CASE worker_pool_destroy
    BY <2>4 DEF PoolTypeOK, worker_pool_destroy
  <2> QED BY <2>1, <2>2, <2>3, <2>4
<1>2. pool' \notin {"creating", "open"}
  BY DEF BeginShutdown, WakeWorkers, JoinWorkers, worker_pool_destroy
<1>3. shutdown'
  <2>1. CASE BeginShutdown
    BY <2>1 DEF BeginShutdown
  <2>2. CASE WakeWorkers
    BY <2>2 DEF WakeWorkers, Phases
  <2>3. CASE JoinWorkers
    BY <2>3 DEF JoinWorkers, Phases
  <2>4. CASE worker_pool_destroy
    BY <2>4 DEF worker_pool_destroy, Phases
  <2> QED BY <2>1, <2>2, <2>3, <2>4
<1>4. pool' = "freed" => worker_pool_destroy
  BY DEF BeginShutdown, WakeWorkers, JoinWorkers
<1>5. Phases'
  BY <1>2, <1>3, <1>4 DEF Phases, worker_pool_destroy
<1>6. QueueIsRest' /\ AcceptedOnce' /\ FifoOnce'
  <2>1. CASE worker_pool_destroy
    BY <2>1 DEF worker_pool_destroy, QueueIsRest, AcceptedOnce, FifoOnce
  <2>2. CASE ~worker_pool_destroy
    BY <1>1, <1>4, <2>2, QuietStep DEF BeginShutdown, WakeWorkers, JoinWorkers
  <2> QED BY <2>1, <2>2
<1>7. UnitsMatchItems'
  BY <1>3 DEF UnitsMatchItems
<1> QED BY <1>1, <1>5, <1>6, <1>7

(* Every step of the pool keeps the inductive invariant.                   *)
LEMMA PoolInductive == PoolIInv /\ [PoolNext]_poolVars => PoolIInv'
<1> SUFFICES ASSUME PoolIInv, [PoolNext]_poolVars PROVE PoolIInv'
  OBVIOUS
<1>1. CASE worker_pool_create \/ CreateFails \/ FailedCleanup
  BY <1>1, CreateStep
<1>2. ASSUME NEW w \in Worker, WorkerStep(w) PROVE PoolIInv'
  BY <1>2, WorkerQuiet, WaitStep, DequeueStep DEF WorkerStep
<1>3. ASSUME NEW i \in Item, SubmitTest(i) \/ SubmitQueue(i) \/ SubmitPost(i) PROVE PoolIInv'
  BY <1>3, SubmitTestStep, SubmitQueueStep, SubmitPostStep
<1>4. CASE BeginShutdown \/ WakeWorkers \/ JoinWorkers \/ worker_pool_destroy
  BY <1>4, ShutdownStep
<1>5. CASE UNCHANGED poolVars
  BY <1>5 DEF poolVars, PoolIInv, PoolTypeOK, Phases, QueueIsRest, AcceptedOnce, FifoOnce,
              UnitsMatchItems, Committed, Unposted
<1> QED BY <1>1, <1>2, <1>3, <1>4, <1>5 DEF PoolNext, WorkerStep

(* The worker pool of workqueue.c, with any number of workers: until the   *)
(* shutdown every unit of work_sem and every committed worker stands for a *)
(* queued item, and items are taken in the order they were queued, once.   *)
THEOREM PoolWorkExact == PoolSpec => []WorkExact
<1>1. PoolIInv => WorkExact
  BY DEF PoolIInv, WorkExact
<1> QED BY PoolInitial, PoolInductive, <1>1, PTL DEF PoolSpec

(* The queue and the histories have their types throughout.                *)
THEOREM PoolTyped == PoolSpec => []PoolTypeOK
<1>1. PoolIInv => PoolTypeOK
  BY DEF PoolIInv
<1> QED BY PoolInitial, PoolInductive, <1>1, PTL DEF PoolSpec

(* A worker that is about to dequeue while the pool runs finds an item:    *)
(* worker_thread_entry never meets an empty queue before the shutdown.     *)
THEOREM NoEmptyDequeue ==
    PoolSpec => [](\A w \in Worker : worker[w] = "dequeue" /\ ~shutdown => queue # <<>>)
<1> DEFINE Q == \A w \in Worker : worker[w] = "dequeue" /\ ~shutdown => queue # <<>>
<1>1. PoolIInv => Q
  <2> SUFFICES ASSUME PoolIInv, NEW w \in Worker, worker[w] = "dequeue", ~shutdown, queue = <<>>
               PROVE  FALSE
    OBVIOUS
  <2>1. w \in Committed
    BY DEF Committed
  <2>2. Committed # {} /\ Cardinality(Committed) # 0
    BY <2>1, Countable, FS_EmptySet
  <2>3. work_sem + Cardinality(Committed) = 0 - Cardinality(Unposted)
    BY DEF PoolIInv, UnitsMatchItems
  <2> QED BY <2>2, <2>3, Countable DEF PoolIInv, PoolTypeOK
<1> HIDE DEF Q
<1>2. PoolSpec => []Q
  BY PoolInitial, PoolInductive, <1>1, PTL DEF PoolSpec
<1> QED BY <1>2 DEF Q
=============================================================================

----------------------------- MODULE WorkerPool -----------------------------
(***************************************************************************)
(* The worker pool of src/kernel/workqueue.c: the threads that submit      *)
(* work, the workers, and the thread that creates, shuts down and destroys *)
(* the pool, each preempted between any two of its steps.                  *)
(*                                                                         *)
(* A section under the queue's spinlock is one step.  The semaphore is the *)
(* one of module Semaphore, reduced to its count: a worker gets past       *)
(* sem_wait when the count is positive.  thread_join_timeout never times   *)
(* out (see module Lifecycle), so that joining a worker waits for its exit. *)
(***************************************************************************)
EXTENDS Integers, Sequences, FiniteSets, Functions

CONSTANTS Worker,      \* 1..num_workers: workers[0..num_workers-1]
          Item,        \* the calls of worker_pool_submit
          None,        \* no item
          MayFail      \* can thread_create fail in worker_pool_create?

ASSUME PoolAssumption ==
    /\ IsFiniteSet(Worker) /\ Worker = 1 .. Cardinality(Worker)
    /\ IsFiniteSet(Item) /\ None \notin Item

VARIABLES queue,       \* the items from queue.head to queue.tail
          work_sem,    \* the count of queue.work_sem
          shutdown,    \* queue.shutdown, set together with ~running
          pool,        \* "creating", "failed", "abandoned" or
                       \* "open", "closing", "joining", "joined", "freed"
          step,        \* the loop counter of the thread that manages the pool
          worker,      \* where each worker is
          item,        \* the item a worker holds
          call,        \* where each call of worker_pool_submit is
          accepted,    \* history: the items in the order they were queued
          taken_order  \* history: the items in the order workers took them

poolVars == <<queue, work_sem, shutdown, pool, step, worker, item, call, accepted, taken_order>>

PoolInit ==
    /\ queue = <<>> /\ work_sem = 0 /\ shutdown = FALSE
    /\ pool = "creating" /\ step = 1
    /\ worker = [w \in Worker |-> "none"] /\ item = [w \in Worker |-> None]
    /\ call = [i \in Item |-> "none"]
    /\ accepted = <<>> /\ taken_order = <<>>

(* worker_pool_create starts the workers one by one; they run at once.     *)
worker_pool_create ==
    /\ pool = "creating"
    /\ IF step \in Worker
         THEN /\ worker' = [worker EXCEPT ![step] = "top"]
              /\ step' = step + 1 /\ UNCHANGED pool
         ELSE pool' = "open" /\ step' = 1 /\ UNCHANGED worker
    /\ UNCHANGED <<queue, work_sem, shutdown, item, call, accepted, taken_order>>

(* The worker of this step cannot be created: the earlier ones are told to *)
(* exit, one post each, and after a pause the pool is freed.               *)
CreateFails ==
    /\ MayFail /\ pool = "creating" /\ step \in Worker
    /\ shutdown' = TRUE
    /\ pool' = "failed"
    /\ UNCHANGED <<queue, work_sem, step, worker, item, call, accepted, taken_order>>

FailedCleanup ==
    /\ pool = "failed"
    /\ IF step > 1
         THEN work_sem' = work_sem + 1 /\ step' = step - 1 /\ UNCHANGED pool
         ELSE pool' = "abandoned" /\ UNCHANGED <<work_sem, step>>
    /\ UNCHANGED <<queue, shutdown, worker, item, call, accepted, taken_order>>

-----------------------------------------------------------------------------
(* worker_thread_func.                                                     *)
Goes(w, from, to) == worker[w] = from /\ worker' = [worker EXCEPT ![w] = to]

LoopTest(w) ==
    /\ Goes(w, "top", IF shutdown THEN "exited" ELSE "wait")
    /\ UNCHANGED <<queue, work_sem, shutdown, pool, step, item, call, accepted, taken_order>>

WaitForWork(w) ==
    /\ work_sem > 0
    /\ Goes(w, "wait", "check")
    /\ work_sem' = work_sem - 1
    /\ UNCHANGED <<queue, shutdown, pool, step, item, call, accepted, taken_order>>

CheckShutdown(w) ==
    /\ Goes(w, "check", IF shutdown THEN "exited" ELSE "dequeue")
    /\ UNCHANGED <<queue, work_sem, shutdown, pool, step, item, call, accepted, taken_order>>

Taken == Head(queue)

Dequeue(w) ==
    /\ Goes(w, "dequeue", "run")
    /\ IF queue = <<>>
         THEN UNCHANGED <<queue, item, taken_order>>
         ELSE /\ queue' = Tail(queue)
              /\ item' = [item EXCEPT ![w] = Taken]
              /\ taken_order' = Append(taken_order, Taken)
    /\ UNCHANGED <<work_sem, shutdown, pool, step, call, accepted>>

(* item->func and kfree, if there is an item.                              *)
Execute(w) ==
    /\ Goes(w, "run", "top")
    /\ item' = [item EXCEPT ![w] = None]
    /\ UNCHANGED <<queue, work_sem, shutdown, pool, step, call, accepted, taken_order>>

-----------------------------------------------------------------------------
(* worker_pool_submit: the test of the flags, the queueing and the post.   *)
(* It is refused after the shutdown, or when kmalloc fails.                *)
SubmitTest(i) ==
    /\ call[i] = "none" /\ pool \in {"open", "closing", "joining"}
    /\ \E answer \in {"refused"} \cup IF shutdown THEN {} ELSE {"tested"} :
          call' = [call EXCEPT ![i] = answer]
    /\ UNCHANGED <<queue, work_sem, shutdown, pool, step, worker, item, accepted, taken_order>>

(* A call that is still running when the pool is freed uses freed memory;  *)
(* the callers destroy a pool they no longer submit to.                    *)
SubmitQueue(i) ==
    /\ call[i] = "tested"
    /\ call' = [call EXCEPT ![i] = "queued"]
    /\ queue' = Append(queue, i)
    /\ accepted' = Append(accepted, i)
    /\ UNCHANGED <<work_sem, shutdown, pool, step, worker, item, taken_order>>

(* Mutation: no post.                                                      *)
SubmitNoPost(i) ==
    /\ call[i] = "queued"
    /\ call' = [call EXCEPT ![i] = "done"]
    /\ UNCHANGED <<queue, work_sem, shutdown, pool, step, worker, item, accepted, taken_order>>

SubmitPost(i) ==
    /\ call[i] = "queued"
    /\ call' = [call EXCEPT ![i] = "done"]
    /\ work_sem' = work_sem + 1
    /\ UNCHANGED <<queue, shutdown, pool, step, worker, item, accepted, taken_order>>

-----------------------------------------------------------------------------
(* worker_pool_shutdown_timeout: the flags, one post per worker, the joins. *)
BeginShutdown ==
    /\ pool = "open"
    /\ shutdown' = TRUE /\ pool' = "closing" /\ step' = 1
    /\ UNCHANGED <<queue, work_sem, worker, item, call, accepted, taken_order>>

(* Mutation: one worker is not woken.                                      *)
AllButOneWoken == step >= Cardinality(Worker)

AllWoken == step > Cardinality(Worker)

WakeWorkers ==
    /\ pool = "closing"
    /\ IF AllWoken
         THEN pool' = "joining" /\ step' = 1 /\ UNCHANGED work_sem
         ELSE work_sem' = work_sem + 1 /\ step' = step + 1 /\ UNCHANGED pool
    /\ UNCHANGED <<queue, shutdown, worker, item, call, accepted, taken_order>>

AllJoined == step > Cardinality(Worker)

JoinWorkers ==
    /\ pool = "joining"
    /\ IF AllJoined
         THEN pool' = "joined" /\ UNCHANGED step
         ELSE worker[step] = "exited" /\ step' = step + 1 /\ UNCHANGED pool
    /\ UNCHANGED <<queue, work_sem, shutdown, worker, item, call, accepted, taken_order>>

(* The remaining items, the worker array and the pool are freed.           *)
worker_pool_destroy ==
    /\ pool = "joined"
    /\ \A i \in Item : call[i] \notin {"tested", "queued"}
    /\ queue' = <<>> /\ pool' = "freed"
    /\ UNCHANGED <<work_sem, shutdown, step, worker, item, call, accepted, taken_order>>

PoolNext ==
    \/ worker_pool_create \/ CreateFails \/ FailedCleanup
    \/ \E w \in Worker : \/ LoopTest(w) \/ WaitForWork(w) \/ CheckShutdown(w)
                         \/ Dequeue(w) \/ Execute(w)
    \/ \E i \in Item : SubmitTest(i) \/ SubmitQueue(i) \/ SubmitPost(i)
    \/ BeginShutdown \/ WakeWorkers \/ JoinWorkers \/ worker_pool_destroy

PoolSpec == PoolInit /\ [][PoolNext]_poolVars

WorkerStep(w) ==
    LoopTest(w) \/ WaitForWork(w) \/ CheckShutdown(w) \/ Dequeue(w) \/ Execute(w)

(* The pool is gone and no worker is left.                                 *)
PoolDone ==
    /\ pool \in {"freed", "abandoned"}
    /\ \A w \in Worker : worker[w] \in {"none", "exited"}

-----------------------------------------------------------------------------
(* The workers past sem_wait that still have to take an item.              *)
Committed == {w \in Worker : worker[w] \in {"check", "dequeue"}}

(* The calls that have queued their item and not posted yet.               *)
Unposted == {i \in Item : call[i] = "queued"}

(* Every unit of work_sem, and every worker past sem_wait, stands for an   *)
(* item in the queue until the shutdown: no worker finds the queue empty   *)
(* and no item is left without a wake-up, whatever the interleaving of     *)
(* worker_pool_submit's enqueue and post with the workers.                 *)
UnitsMatchItems ==
    ~shutdown => work_sem + Cardinality(Committed)
                   = Len(queue) - Cardinality(Unposted)

(* "Work items are queued and executed FIFO by available workers", each    *)
(* once: what the workers took is a prefix of what was queued.             *)
FifoOnce ==
    /\ taken_order = SubSeq(accepted, 1, Len(taken_order))
    /\ IsInjective(accepted)

(* An accepted item is executed unless the pool is shut down first.        *)
AcceptedGetsRun ==
    \A i \in Item : call[i] \in {"queued", "done"} ~> (shutdown \/ i \in Range(taken_order))

(* worker_pool_shutdown returns: one post per worker is enough to end all  *)
(* of them, even when units are left over or taken by other workers.       *)
ShutdownReturns == pool = "closing" ~> pool = "joined"

(* The queue and its semaphore agree, and the work is done in order, once: *)
(* worker_pool_submit, worker_thread_entry and worker_pool_shutdown in any *)
(* interleaving.                                                           *)
WorkExact == UnitsMatchItems /\ FifoOnce
=============================================================================

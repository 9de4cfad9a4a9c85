------------------------------ MODULE Scheduler ------------------------------
(***************************************************************************)
(* The thread scheduler of src/kernel/thread.c at the level of its linked  *)
(* lists: one doubly linked run queue per priority, a sleep queue that     *)
(* shares the sched_next field, aging ("Rocket Boost") and preemption by   *)
(* the timer interrupt.                                                    *)
(*                                                                         *)
(* One CPU; every action runs with interrupts disabled.  Times are kept    *)
(* relative to now: waited[t] is now - wait_start_tick, saturated at the   *)
(* aging threshold, wake[t] is wake_tick - now.  base_priority is written  *)
(* here and read only by the mutex, and left out with the CPU accounting.  *)
(***************************************************************************)
EXTENDS Integers, Sequences, FiniteSets, SequencesExt

CONSTANTS Thread, main, idle, NULL,
          DefaultSlice,  \* THREAD_TIME_SLICE_DEFAULT
          Workloads      \* what the threads of a behaviour do

Priority == 0..4   \* IDLE, BACKGROUND, NORMAL, HIGH, UI
UI == 4

Workload ==
    [Created : SUBSET Thread,      \* the threads that get created
     User : SUBSET Thread,         \* the ones that belong to a process
     CreateAt : SUBSET Priority,   \* priorities given to thread_create
     NiceValues : SUBSET -20..19,  \* nice values given to thread_set_nice
     Naps : SUBSET (1..10),        \* durations given to thread_sleep_ticks
     Blockers : SUBSET Thread,     \* the threads that wait on queues
     Maskers : SUBSET Thread,      \* the threads that disable preemption
     TimeSlice : [Priority -> 1..10],  \* g_priority_time_slice
     Aging : 1..10,                \* THREAD_AGING_THRESHOLD
     KillSleepers : BOOLEAN]  \* are SLEEPING threads killed?

ASSUME SchedulerAssumption ==
    /\ {main, idle} \subseteq Thread /\ main # idle /\ NULL \notin Thread
    /\ DefaultSlice \in Nat \ {0}
    /\ \A w \in Workloads :
         /\ w.User \subseteq w.Created /\ {main, idle} \cap w.Created = {}
         /\ idle \notin w.Maskers \cup w.Blockers

VARIABLES current,     \* g_current_thread
          state, priority, nice, is_boosted,
          waited, wake,
          slice,       \* time_slice_remaining
          masked,      \* preempt_count, 0 or 1
          pending,     \* preempt_pending
          links,       \* the queues: head, next, prev, sleep
          load         \* the workload of this behaviour

vars == <<current, state, priority, nice, is_boosted, waited, wake, slice, masked,
          pending, links, load>>

User == load.User
Blockers == load.Blockers
Maskers == load.Maskers
TimeSlice == load.TimeSlice
Aging == load.Aging

-----------------------------------------------------------------------------
(* The linked lists.  A field of NULL is never written.                    *)
Put(f, t, v) == IF t = NULL THEN f ELSE [f EXCEPT ![t] = v]

Follow(next, first) ==
    LET walk[t \in Thread \cup {NULL}, n \in 0..Cardinality(Thread) + 1] ==
          IF t = NULL \/ n = 0 THEN <<>> ELSE <<t>> \o walk[next[t], n - 1]
    IN walk[first, Cardinality(Thread) + 1]

RunQueue(p) == Follow(links.next, links.head[p])

SleepQueue == Follow(links.next, links.sleep)

(* Mutation: the old head keeps its stale sched_prev.                      *)
LinkForgetsPrev(L, t, p) ==
    [L EXCEPT !.head[p] = t, !.next[t] = L.head[p], !.prev[t] = NULL]

(* scheduler_enqueue links a thread at the head of its queue.              *)
Link(L, t, p) ==
    [L EXCEPT !.head[p] = t,
              !.next[t] = L.head[p],
              !.prev = Put([L.prev EXCEPT ![t] = NULL], L.head[p], t)]

(* Taking a thread out of queue p, as the aging loop and scheduler_preempt *)
(* do: without a predecessor it is taken for the head of p.                *)
Unlink(L, t, p) ==
    [L EXCEPT !.head[p] = IF L.prev[t] = NULL THEN L.next[t] ELSE @,
              !.next = [Put(L.next, L.prev[t], L.next[t]) EXCEPT ![t] = NULL],
              !.prev = [Put(L.prev, L.next[t], L.prev[t]) EXCEPT ![t] = NULL]]

(* scheduler_dequeue moves the head only if the thread is the head of the  *)
(* queue of its present priority.                                          *)
scheduler_dequeue(L, t, p) ==
    [Unlink(L, t, p) EXCEPT !.head[p] =
        IF L.prev[t] = NULL /\ L.head[p] = t THEN L.next[t] ELSE L.head[p]]

(* scheduler_pick_next: the head of the highest queue, or idle.            *)
Busy(L) == {p \in Priority : L.head[p] # NULL}

(* Mutation: the queues are searched from the lowest priority.             *)
LowestBusy(L) == CHOOSE p \in Busy(L) : \A q \in Busy(L) : p <= q

HighestBusy(L) == CHOOSE p \in Busy(L) : \A q \in Busy(L) : q <= p

PickNext(L) == IF Busy(L) = {} THEN idle ELSE L.head[HighestBusy(L)]

PickLinks(L) ==
    IF Busy(L) = {} THEN L
    ELSE LET t == PickNext(L) IN
         [L EXCEPT !.head[HighestBusy(L)] = L.next[t],
                   !.prev = [Put(L.prev, L.next[t], NULL) EXCEPT ![t] = NULL],
                   !.next[t] = NULL]

scheduler_nice_to_priority(n) ==
    CASE n <= -10 -> 4
      [] n \in -9..-5 -> 3
      [] n \in -4..4 -> 2
      [] n \in 5..14 -> 1
      [] n >= 15 -> 0

(* The priority with which the running thread goes back to a queue.        *)
Demoted == IF is_boosted[current] THEN scheduler_nice_to_priority(nice[current])
           ELSE priority[current]

-----------------------------------------------------------------------------
(* scheduler_init and scheduler_start: main runs, idle exists outside the  *)
(* queues.                                                                 *)
scheduler_init ==
    /\ load \in Workloads
    /\ current = main
    /\ state = [t \in Thread |-> CASE t = main -> "RUNNING"
                                   [] t = idle -> "READY"
                                   [] OTHER -> "NONE"]
    /\ priority = [t \in Thread |-> IF t = idle THEN 0 ELSE 2]
    /\ nice = [t \in Thread |-> 0]
    /\ is_boosted = [t \in Thread |-> FALSE]
    /\ waited = [t \in Thread |-> 0]
    /\ wake = [t \in Thread |-> 0]
    /\ slice = [t \in Thread |-> TimeSlice[priority[t]]]
    /\ masked = [t \in Thread |-> 0]
    /\ pending = [t \in Thread |-> FALSE]
    /\ links = [head |-> [p \in Priority |-> NULL],
                next |-> [t \in Thread |-> NULL],
                prev |-> [t \in Thread |-> NULL],
                sleep |-> NULL]

(* scheduler_schedule, called with the thread states st and the links L:   *)
(* the running thread goes back to a queue if it can still run, demoted if *)
(* it was boosted.                                                         *)
scheduler_schedule(st, L) ==
    LET next == PickNext(L)
        back == st[current] \in {"RUNNING", "READY"}
    IN IF next = current
         THEN /\ state' = st
              /\ links' = PickLinks(L)
              /\ UNCHANGED <<current, priority, is_boosted, waited>>
         ELSE /\ current' = next
              /\ priority' = [priority EXCEPT ![current] = Demoted]
              /\ is_boosted' = [is_boosted EXCEPT ![current] = FALSE]
              /\ state' = [st EXCEPT ![current] = IF back THEN "READY" ELSE @,
                                     ![next] = "RUNNING"]
              /\ waited' = [waited EXCEPT ![current] = IF back THEN 0 ELSE @]
              /\ links' = IF back THEN Link(PickLinks(L), current, Demoted) ELSE PickLinks(L)

thread_create(t, p) ==
    /\ current # idle /\ t \in load.Created /\ state[t] = "NONE"
    /\ state' = [state EXCEPT ![t] = "READY"]
    /\ priority' = [priority EXCEPT ![t] = p]
    /\ slice' = [slice EXCEPT ![t] = TimeSlice[p]]
    /\ waited' = [waited EXCEPT ![t] = 0]
    /\ links' = Link(links, t, p)
    /\ UNCHANGED <<current, nice, is_boosted, wake, masked, pending>>

(* A thread gives up the CPU; the idle loop does so after every interrupt. *)
thread_yield ==
    /\ scheduler_schedule(state, links)
    /\ UNCHANGED <<nice, wake, slice, masked, pending>>

thread_exit ==
    /\ current \notin {idle, main}
    /\ scheduler_schedule([state EXCEPT ![current] = "ZOMBIE"],
                          scheduler_dequeue(links, current, priority[current]))
    /\ UNCHANGED <<nice, wake, slice, masked, pending>>

(* The sleepers at the front of the queue that wake no later than n.       *)
EarlierSleepers(n) ==
    Max({i \in 0..Len(SleepQueue) : \A j \in 1..i : wake[SleepQueue[j]] <= n})

thread_sleep_ticks(n) ==
    LET k == EarlierSleepers(n)
        before == IF k = 0 THEN NULL ELSE SleepQueue[k]
        after == IF k = 0 THEN links.sleep ELSE links.next[before]
    IN /\ current # idle
       /\ wake' = [wake EXCEPT ![current] = n]
       /\ scheduler_schedule(
            [state EXCEPT ![current] = "SLEEPING"],
            [links EXCEPT !.sleep = IF k = 0 THEN current ELSE @,
                          !.next = [Put(links.next, before, current)
                                      EXCEPT ![current] = after]])
       /\ UNCHANGED <<nice, slice, masked, pending>>

(* Blocking on, and being woken from, a wait queue or a primitive of       *)
(* sync.c; the queue itself is not shown.                                  *)
wait_queue_wait ==
    /\ current \in Blockers
    /\ scheduler_schedule([state EXCEPT ![current] = "BLOCKED"], links)
    /\ UNCHANGED <<nice, wake, slice, masked, pending>>

MakeReady(t) ==
    /\ state' = [state EXCEPT ![t] = "READY"]
    /\ links' = Link(links, t, priority[t])
    /\ UNCHANGED <<current, priority, nice, is_boosted, waited, wake, slice, masked, pending>>

wait_queue_wake_one(t) == state[t] = "BLOCKED" /\ MakeReady(t)

(* thread_kill also sets should_terminate, which the scheduler never reads. *)
thread_kill(t) ==
    /\ current # idle /\ t # idle
    /\ \/ state[t] = "BLOCKED"
       \/ load.KillSleepers /\ state[t] = "SLEEPING"
    /\ MakeReady(t)

(* The new priority is stored first; scheduler_dequeue then looks for the  *)
(* thread in the queue of the new priority.                                *)
MoveTo(t, p) ==
    /\ priority' = [priority EXCEPT ![t] = p]
    /\ links' = IF state[t] = "READY" /\ p # priority[t]
                  THEN Link(scheduler_dequeue(links, t, p), t, p)
                  ELSE links

(* What callers do: they leave the priority of a READY thread alone.  At   *)
(* the head of its old queue such a thread would end up in two queues.     *)
Movable(t, p) == state[t] # "READY" \/ p = priority[t]

thread_set_priority(t, p) ==
    /\ current # idle /\ state[t] \notin {"NONE", "ZOMBIE"} /\ t # idle
    /\ Movable(t, p) /\ MoveTo(t, p)
    /\ UNCHANGED <<current, state, nice, is_boosted, waited, wake, slice, masked, pending>>

thread_set_nice(t, n) ==
    /\ current # idle /\ state[t] \notin {"NONE", "ZOMBIE"} /\ t # idle
    /\ nice' = [nice EXCEPT ![t] = n]
    /\ \/ is_boosted[t] /\ UNCHANGED <<priority, links>>
       \/ /\ ~is_boosted[t]
          /\ Movable(t, scheduler_nice_to_priority(n))
          /\ MoveTo(t, scheduler_nice_to_priority(n))
    /\ UNCHANGED <<current, state, is_boosted, waited, wake, slice, masked, pending>>

preempt_disable ==
    /\ current \in Maskers /\ masked[current] = 0
    /\ masked' = [masked EXCEPT ![current] = 1]
    /\ UNCHANGED <<current, state, priority, nice, is_boosted, waited, wake, slice,
                   pending, links>>

preempt_enable ==
    /\ masked[current] = 1
    /\ masked' = [masked EXCEPT ![current] = 0]
    /\ \/ /\ pending[current]
          /\ pending' = [pending EXCEPT ![current] = FALSE]
          /\ scheduler_schedule(state, links)
       \/ /\ ~pending[current]
          /\ UNCHANGED <<current, state, priority, is_boosted, waited, pending, links>>
    /\ UNCHANGED <<nice, wake, slice>>

-----------------------------------------------------------------------------
(* The timer interrupt: scheduler_tick, then scheduler_preempt.            *)
Rung == [t \in Thread |-> IF wake[t] > 0 THEN wake[t] - 1 ELSE 0]

Longer == [t \in Thread |-> IF waited[t] < Aging THEN waited[t] + 1 ELSE Aging]

(* Mutation: one sleeper per tick.                                         *)
WokenOnlyOne(q) == IF q # <<>> /\ Rung[Head(q)] = 0 THEN <<Head(q)>> ELSE <<>>

(* scheduler_wake_sleeping takes sleepers off the front while they are due. *)
Woken(q) ==
    SubSeq(q, 1, Max({i \in 0..Len(q) : \A j \in 1..i : Rung[q[j]] = 0}))

WokenState(w) == [t \in Thread |-> IF t \in Range(w) THEN "READY" ELSE state[t]]

WokenLinks(w) ==
    FoldLeft(LAMBDA L, t : Link([L EXCEPT !.sleep = L.next[t]], t, priority[t]), links, w)

(* Mutation: nobody is boosted.                                            *)
NeverStarved(L, p) == <<>>

Starved(L, p) ==
    SelectSeq(Follow(L.next, L.head[p]),
              LAMBDA t : ~is_boosted[t] /\ Longer[t] >= Aging)

Boost(L, p) == FoldLeft(LAMBDA M, t : Link(Unlink(M, t, p), t, UI), L, Starved(L, p))

(* What scheduler_tick makes of the threads and the queues.                *)
Ticked ==
    LET w == Woken(SleepQueue)
        L == WokenLinks(w)
        boosted == UNION {Range(Starved(L, p)) : p \in 0..UI - 1}
    IN [state |-> WokenState(w),
        links |-> Boost(Boost(Boost(Boost(L, 0), 1), 2), 3),
        priority |-> [t \in Thread |-> IF t \in boosted THEN UI ELSE priority[t]],
        is_boosted |-> [t \in Thread |-> t \in boosted \/ is_boosted[t]],
        waited |-> [t \in Thread |-> IF t \in boosted THEN 0 ELSE Longer[t]]]

(* Both handlers take a tick from the slice, scheduler_preempt unless it   *)
(* interrupted user mode.                                                  *)
Left(n) == IF current = idle THEN slice[idle]
           ELSE IF slice[current] > n THEN slice[current] - n ELSE 0

(* The kernel threads scheduler_preempt may switch to, in its order.       *)
Candidates(L) ==
    SelectSeq(FlattenSeq([i \in 1..5 |-> Follow(L.next, L.head[5 - i])]),
              LAMBDA t : t \notin User /\ t # current)

Expired == masked[current] = 0 /\ (current = idle \/ Left(2) = 0)

(* scheduler_tick sets preempt_pending; only the Maskers ever look at it.  *)
OutOfTime == current \in Maskers /\ Left(1) = 0

Keep(T, left) ==
    /\ slice' = [slice EXCEPT ![current] = left]
    /\ pending' = [pending EXCEPT ![current] =
                      @ \/ OutOfTime \/ (masked[current] = 1 /\ left = 0)]
    /\ state' = T.state /\ links' = T.links
    /\ priority' = T.priority /\ is_boosted' = T.is_boosted
    /\ waited' = T.waited
    /\ UNCHANGED current

(* The interrupted thread keeps the CPU: it was in user mode, preemption   *)
(* is disabled, its slice is not used up, or there is no other thread.     *)
TickUser(T) == current \in User /\ Keep(T, Left(1))

TickKeep(T) ==
    \/ ~Expired /\ Keep(T, Left(2))
    \/ /\ Expired /\ Candidates(T.links) = <<>>
       /\ Keep(T, IF Left(2) = 0 THEN DefaultSlice ELSE Left(2))

TickSwitch(T) ==
    LET next == Head(Candidates(T.links))
        L == Unlink(T.links, next, T.priority[next])
    IN /\ Expired /\ Candidates(T.links) # <<>>
       /\ current' = next
       /\ priority' = [T.priority EXCEPT ![current] = Demoted]
       /\ is_boosted' = [T.is_boosted EXCEPT ![current] = FALSE]
       /\ state' = [T.state EXCEPT ![current] = "READY", ![next] = "RUNNING"]
       /\ waited' = [T.waited EXCEPT ![current] = 0]
       /\ links' = Link(L, current, Demoted)
       /\ slice' = [slice EXCEPT ![current] = Left(2),
                                 ![next] = TimeSlice[T.priority[next]]]
       /\ pending' = [pending EXCEPT ![current] = @ \/ OutOfTime, ![next] = FALSE]

timer_handler_preempt ==
    /\ LET T == Ticked IN TickUser(T) \/ TickKeep(T) \/ TickSwitch(T)
    /\ wake' = Rung
    /\ UNCHANGED <<nice, masked>>

-----------------------------------------------------------------------------
Next ==
    /\ \/ \E t \in Thread, p \in load.CreateAt : thread_create(t, p) \/ thread_set_priority(t, p)
       \/ \E t \in Thread, n \in load.NiceValues : thread_set_nice(t, n)
       \/ \E t \in Thread : wait_queue_wake_one(t) \/ thread_kill(t)
       \/ \E n \in load.Naps : thread_sleep_ticks(n)
       \/ thread_yield \/ thread_exit \/ wait_queue_wait
       \/ preempt_disable \/ preempt_enable
       \/ timer_handler_preempt
    /\ UNCHANGED load

Spec == scheduler_init /\ [][Next]_vars

(* Threads that compete without masking preemption, and an aging threshold *)
(* that is longer than a turn of all of them, as the 100 ticks of the code *)
(* are with a few threads.                                                 *)
Competing == load.Maskers = {} /\ load.Aging >= Cardinality(Thread) - 1

(* The timer keeps interrupting: it is always enabled, so weak fairness is *)
(* that it happens again and again.  Assumed where progress is claimed.    *)
FairSpec == Spec /\ []<><<~Competing \/ timer_handler_preempt>>_vars

-----------------------------------------------------------------------------
(* The run queues hold exactly the READY threads: every one is in the      *)
(* queue of its own priority, once, and sched_prev mirrors sched_next.     *)
(* Only idle may be READY outside the queues, as scheduler_init leaves it. *)
RunQueuesExact ==
    \A p \in Priority : LET q == RunQueue(p) IN
        /\ IsInjective(q)
        /\ Range(q) \ {idle} = {t \in Thread \ {idle} : state[t] = "READY" /\ priority[t] = p}
        /\ idle \in Range(q) => state[idle] = "READY" /\ priority[idle] = p
        /\ \A i \in DOMAIN q : links.prev[q[i]] = IF i = 1 THEN NULL ELSE q[i - 1]

(* thread_sleep_ticks keeps the sleep queue, linked through the sched_next *)
(* of the run queues, to the SLEEPING threads in the order they wake.      *)
SleepQueueExact ==
    LET q == SleepQueue IN
        /\ IsInjective(q)
        /\ Range(q) = {t \in Thread : state[t] = "SLEEPING"}
        /\ \A i, j \in DOMAIN q : i < j => wake[q[i]] <= wake[q[j]]

(* One link field serves both kinds of queue, and every operation that     *)
(* moves a thread leaves both of them exact.                               *)
QueuesExact == RunQueuesExact /\ SleepQueueExact

(* scheduler_wake_sleeping: no thread is asleep past its wake_tick.        *)
WakesOnTime == \A t \in Thread : state[t] = "SLEEPING" => wake[t] > 0

(* Whoever gives up or loses the CPU, no READY kernel thread of a higher   *)
(* priority is passed over for the thread that gets it.                    *)
PicksHighest ==
    [][current' # current =>
         \A t \in Thread \ (User \cup {idle, current}) :
            state'[t] = "READY" => priority'[t] <= priority'[current']]_vars

(* Aging: with every priority below UI, a READY thread that competes runs  *)
(* in the end, whatever the others do, as long as the timer ticks.         *)
NoStarvation ==
    \A t \in Thread \ {idle} : Competing /\ state[t] = "READY" ~> state[t] = "RUNNING"
=============================================================================

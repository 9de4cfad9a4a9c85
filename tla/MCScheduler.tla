----------------------------- MODULE MCScheduler -----------------------------
(* Workloads with few threads, slices of one to three ticks and a short    *)
(* aging threshold.                                                        *)
EXTENDS Scheduler

CONSTANTS a, b

Equal == [p \in Priority |-> 1]

(* Kernel threads and a user thread that block, are woken, killed, aged.   *)
Queueing ==
    [Created |-> {a, b}, User |-> {b}, CreateAt |-> {1}, NiceValues |-> {}, Naps |-> {},
     Blockers |-> {a, b}, Maskers |-> {}, TimeSlice |-> Equal, Aging |-> 1,
     KillSleepers |-> FALSE]

(* Kernel threads that sleep.                                              *)
Sleeping ==
    [Queueing EXCEPT !.User = {}, !.CreateAt = {2}, !.Naps = {1, 2}, !.Blockers = {a}]

(* Longer slices for the low priorities, and sections without preemption.  *)
Masking ==
    [Queueing EXCEPT !.Created = {a}, !.User = {a}, !.NiceValues = {0}, !.Blockers = {a},
                     !.Maskers = {main}, !.Aging = 2,
                     !.TimeSlice = [p \in Priority |-> IF p < 2 THEN 3 ELSE 1]]

(* Kernel threads of one priority that compete for the CPU.                *)
Progress ==
    [Queueing EXCEPT !.User = {}, !.CreateAt = {2}, !.Blockers = {a}, !.Aging = 3]

AllLoads == {Queueing, Sleeping, Masking, Progress}

(* Sleepers that are killed by process_kill_current.                       *)
KillLoads ==
    {[Queueing EXCEPT !.User = {}, !.Naps = {1, 2}, !.KillSleepers = TRUE]}
==============================================================================

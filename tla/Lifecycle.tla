----------------------------- MODULE Lifecycle -----------------------------
(***************************************************************************)
(* The life of threads and user processes: process_exec_and_wait and       *)
(* process_execute acquire what a process needs, with a failure possible   *)
(* at every stage; threads exit and are joined; the reaper thread frees    *)
(* what they leave.  Sources: kernel/process.c, kernel/elf.c and           *)
(* kernel/thread.c.                                                        *)
(*                                                                         *)
(* Interrupts are masked in thread_exit and in the wait-queue operations,  *)
(* which are one step each.  The reaper and the creator of a process run   *)
(* with interrupts enabled and can be preempted between their steps.       *)
(***************************************************************************)
EXTENDS Integers, Sequences, FiniteSets, Functions

CONSTANTS KThread,     \* kernel threads, which exit and may be joined
          Program,     \* the programs started, each with one user thread
          WithArgs,    \* those started by process_exec_and_wait
          Joiner,      \* threads that call thread_join
          NoThread,    \* the null pointer
          CountMod     \* the modulus of thread_count, 2^32 in the code

AThread == KThread \cup Program

ASSUME LifeAssumption ==
    /\ KThread \cap Program = {} /\ NoThread \notin AThread /\ IsFiniteSet(AThread)
    /\ CountMod \in Nat /\ CountMod > 1

VARIABLES tstate,         \* "none", "live", "zombie" or "freed"
          join_waiters,   \* thread->join_waiters
          joiner,         \* "idle", "blocked", "woken", "returned", "lost"
          target,         \* the thread a joiner joins
          g_zombie_list, zombie_next,
          reaper,         \* where reaper_thread_func is
          zombie,         \* its local variable
          held,           \* the objects kmalloc'ed for each program
          overfreed,      \* history: objects freed when not allocated
          exec,           \* the stage each program's creation has reached
          thread_count, stack_base

lifeVars == <<tstate, join_waiters, joiner, target, g_zombie_list, zombie_next, reaper, zombie,
              held, overfreed, exec, thread_count, stack_base>>

reaperVars == <<g_zombie_list, zombie_next, reaper, zombie>>
joinVars == <<join_waiters, joiner, target>>
execVars == <<held, overfreed, exec, thread_count, stack_base>>

LifeInit ==
    /\ tstate = [t \in AThread |-> IF t \in KThread THEN "live" ELSE "none"]
    /\ join_waiters = [t \in AThread |-> <<>>]
    /\ joiner = [j \in Joiner |-> "idle"] /\ target = [j \in Joiner |-> NoThread]
    /\ g_zombie_list = NoThread /\ zombie_next = [t \in AThread |-> NoThread]
    /\ reaper = "test" /\ zombie = NoThread
    /\ held = [p \in Program |-> {}] /\ overfreed = {}
    /\ exec = [p \in Program |-> 1]
    /\ thread_count = [p \in Program |-> 0] /\ stack_base = [p \in Program |-> FALSE]

-----------------------------------------------------------------------------
(* Starting a program.  A stage takes objects and drops others when it     *)
(* succeeds; when it fails the function frees "undo" and returns -1.       *)
Base == {"proc", "kernel_stack", "directory"}

Stage(take, drop, undo) == [take |-> take, drop |-> drop, undo |-> undo]

(* elf_load_file.  Its failure makes the caller free what it holds.        *)
LoadStages ==
    << Stage({"file"},   {},                {}),
       Stage({},         {},                {"file"}),             \* header
       Stage({"phdrs"},  {},                {"file"}),
       Stage({},         {},                {"phdrs", "file"}),    \* phdrs read
       Stage({},         {},                {"phdrs", "file"}),    \* pages mapped: stage 9
       Stage({"segbuf"}, {},                {"phdrs", "file"}),
       Stage({}, {"segbuf", "phdrs", "file"}, {"segbuf", "phdrs", "file"}) >>

elf_load_file ==
    [i \in 1..Len(LoadStages) |->
        Stage(LoadStages[i].take, LoadStages[i].drop, LoadStages[i].undo \cup Base)]

(* thread_create_user, whose only failure is its kmalloc.                  *)
ThreadStage == << Stage({"thread"}, {}, Base) >>

(* Up to the mapping of the user stack, the same in both functions.        *)
ImageStages ==
    << Stage({}, {}, {}),                                          \* elf_is_valid
       Stage({"proc"}, {}, {}),
       Stage({"kernel_stack"}, {}, {"proc"}),
       Stage({"directory"}, {}, {"kernel_stack", "proc"}) >>
    \o elf_load_file
    \o << Stage({}, {}, Base) >>                                   \* user stack pages

process_execute == ImageStages \o << Stage({}, {}, Base) >> \o ThreadStage

(* The buffer in which the arguments are laid out, then its copy.          *)
ArgumentStages ==
    << Stage({"stack_buffer"}, {}, Base),
       Stage({}, {"stack_buffer"}, {"stack_buffer"} \cup Base) >>

process_exec_and_wait == ImageStages \o ArgumentStages \o ThreadStage

Stages(p) == IF p \in WithArgs THEN process_exec_and_wait ELSE process_execute

(* exec[p] past the last stage: the thread exists, the fields are not set  *)
(* yet; then "started" is Len + 2.  0 is a failure.                        *)
Running(p) == Len(Stages(p)) + 1
Started(p) == Len(Stages(p)) + 2

StageOf(p) == Stages(p)[exec[p]]

Undo(p) == StageOf(p).undo

ExecSucceeds(p) ==
    /\ exec[p] \in 1..Len(Stages(p))
    /\ exec' = [exec EXCEPT ![p] = @ + 1]
    /\ held' = [held EXCEPT ![p] = (@ \cup StageOf(p).take) \ StageOf(p).drop]
    /\ stack_base' = [stack_base EXCEPT ![p] = @ \/ "directory" \in StageOf(p).take]
    /\ tstate' = [tstate EXCEPT ![p] = IF "thread" \in StageOf(p).take THEN "live" ELSE @]
    /\ UNCHANGED <<overfreed, thread_count>> /\ UNCHANGED reaperVars /\ UNCHANGED joinVars

(* A segment ends, with or without data to copy: the next one has its      *)
(* pages mapped, or elf_load_file returns.                                 *)
SegmentEnds(p) ==
    /\ exec[p] \in {10, 11}
    /\ \/ /\ exec' = [exec EXCEPT ![p] = 9]
          /\ held' = [held EXCEPT ![p] = @ \ {"segbuf"}]
       \/ /\ exec' = [exec EXCEPT ![p] = 12]
          /\ held' = [held EXCEPT ![p] = @ \ {"segbuf", "phdrs", "file"}]
    /\ UNCHANGED <<tstate, overfreed, thread_count, stack_base>>
    /\ UNCHANGED reaperVars /\ UNCHANGED joinVars

ExecFails(p) ==
    /\ exec[p] \in 1..Len(Stages(p))
    /\ exec' = [exec EXCEPT ![p] = 0]
    /\ held' = [held EXCEPT ![p] = @ \ Undo(p)]
    /\ overfreed' = overfreed \cup {<<p, o>> : o \in Undo(p) \ held[p]}
    /\ UNCHANGED <<tstate, thread_count, stack_base>>
    /\ UNCHANGED reaperVars /\ UNCHANGED joinVars

(* Mutation: the process keeps pointing to the stack its thread owns.      *)
ExecKeepsStack(p) ==
    /\ exec[p] = Running(p)
    /\ exec' = [exec EXCEPT ![p] = Started(p)]
    /\ thread_count' = [thread_count EXCEPT ![p] = 1]
    /\ UNCHANGED <<tstate, held, overfreed, stack_base>>
    /\ UNCHANGED reaperVars /\ UNCHANGED joinVars

(* The thread may already run, and exit, before its process counts it.     *)
ExecReturns(p) ==
    /\ exec[p] = Running(p)
    /\ exec' = [exec EXCEPT ![p] = Started(p)]
    /\ thread_count' = [thread_count EXCEPT ![p] = 1]
    /\ stack_base' = [stack_base EXCEPT ![p] = FALSE]
    /\ UNCHANGED <<tstate, held, overfreed>> /\ UNCHANGED reaperVars /\ UNCHANGED joinVars

-----------------------------------------------------------------------------
(* thread_exit: joiners woken, ZOMBIE, reaper_add_zombie and its signal.   *)
WakeJoiners(t) ==
    /\ joiner' = [j \in Joiner |-> IF j \in Range(join_waiters[t]) THEN "woken" ELSE joiner[j]]
    /\ join_waiters' = [join_waiters EXCEPT ![t] = <<>>]

Push(t) ==
    /\ zombie_next' = [zombie_next EXCEPT ![t] = g_zombie_list]
    /\ g_zombie_list' = t

reaper_add_zombie(t) ==
    /\ Push(t)
    /\ reaper' = IF reaper = "waiting" THEN "test" ELSE reaper

thread_exit(t) ==
    /\ tstate[t] = "live"
    /\ WakeJoiners(t)
    /\ tstate' = [tstate EXCEPT ![t] = "zombie"]
    /\ reaper_add_zombie(t)
    /\ UNCHANGED <<target, zombie>> /\ UNCHANGED execVars

(* thread_join tests the state of its target, first and after each wake-   *)
(* up.  When the reaper has freed the target, the memory may still hold    *)
(* ZOMBIE or may have been reused: the joiner returns, or queues itself in *)
(* memory nobody will wake.                                                *)
JoinTest(j, t) ==
    \/ /\ tstate[t] = "zombie"
       /\ joiner' = [joiner EXCEPT ![j] = "returned"] /\ UNCHANGED join_waiters
    \/ /\ tstate[t] = "live"
       /\ joiner' = [joiner EXCEPT ![j] = "blocked"]
       /\ join_waiters' = [join_waiters EXCEPT ![t] = Append(@, j)]
    \/ /\ tstate[t] = "freed"
       /\ \E outcome \in {"returned", "lost"} : joiner' = [joiner EXCEPT ![j] = outcome]
       /\ UNCHANGED join_waiters

thread_join(j, t) ==
    /\ joiner[j] = "idle" /\ tstate[t] # "none"
    /\ target' = [target EXCEPT ![j] = t]
    /\ JoinTest(j, t)
    /\ UNCHANGED tstate /\ UNCHANGED reaperVars /\ UNCHANGED execVars

JoinResumes(j) ==
    /\ joiner[j] = "woken"
    /\ JoinTest(j, target[j])
    /\ UNCHANGED <<tstate, target>> /\ UNCHANGED reaperVars /\ UNCHANGED execVars

-----------------------------------------------------------------------------
(* reaper_thread_func.  Nobody else takes g_reaper_mutex: it does not      *)
(* exclude reaper_add_zombie.                                              *)
ReaperTest ==
    /\ reaper = "test"
    /\ IF g_zombie_list = NoThread
         THEN reaper' = "to_wait" /\ UNCHANGED zombie
         ELSE reaper' = "store" /\ zombie' = g_zombie_list
    /\ UNCHANGED <<tstate, g_zombie_list, zombie_next>>
    /\ UNCHANGED joinVars /\ UNCHANGED execVars

ReaperWaits ==
    /\ reaper = "to_wait"
    /\ reaper' = "waiting"
    /\ UNCHANGED <<tstate, g_zombie_list, zombie_next, zombie>>
    /\ UNCHANGED joinVars /\ UNCHANGED execVars

(* Mutation: the zombie is unlinked by a second read of the list's head.   *)
ReaperStoreAgain ==
    /\ reaper = "store"
    /\ g_zombie_list' = zombie_next[g_zombie_list]
    /\ zombie_next' = [zombie_next EXCEPT ![zombie] = NoThread]
    /\ reaper' = "process"
    /\ UNCHANGED <<tstate, zombie>> /\ UNCHANGED joinVars /\ UNCHANGED execVars

(* The head read by ReaperTest is replaced by its successor.               *)
ReaperStore ==
    /\ reaper = "store"
    /\ g_zombie_list' = zombie_next[zombie]
    /\ zombie_next' = [zombie_next EXCEPT ![zombie] = NoThread]
    /\ reaper' = "process"
    /\ UNCHANGED <<tstate, zombie>> /\ UNCHANGED joinVars /\ UNCHANGED execVars

(* What the last thread of a process makes the reaper free.                *)
ProcessObjects(p) ==
    {"directory", "proc"} \cup IF stack_base[p] THEN {"kernel_stack"} ELSE {}

ReaperProcess ==
    /\ reaper = "process"
    /\ reaper' = "thread"
    /\ IF zombie \in Program
         THEN LET p    == zombie
                  left == (thread_count[p] + CountMod - 1) % CountMod
                  objs == IF left = 0 THEN ProcessObjects(p) ELSE {}
              IN  /\ thread_count' = [thread_count EXCEPT ![p] = left]
                  /\ held' = [held EXCEPT ![p] = @ \ objs]
                  /\ overfreed' = overfreed \cup {<<p, o>> : o \in objs \ held[p]}
         ELSE UNCHANGED <<thread_count, held, overfreed>>
    /\ UNCHANGED <<tstate, g_zombie_list, zombie_next, zombie, exec, stack_base>>
    /\ UNCHANGED joinVars

(* The thread's stack and structure.                                       *)
ReaperThread ==
    /\ reaper = "thread"
    /\ reaper' = "test"
    /\ tstate' = [tstate EXCEPT ![zombie] = "freed"]
    /\ IF zombie \in Program
         THEN LET objs == {"kernel_stack", "thread"}
              IN  /\ held' = [held EXCEPT ![zombie] = @ \ objs]
                  /\ overfreed' = overfreed \cup {<<zombie, o>> : o \in objs \ held[zombie]}
         ELSE UNCHANGED <<held, overfreed>>
    /\ zombie' = NoThread
    /\ UNCHANGED <<g_zombie_list, zombie_next, exec, thread_count, stack_base>>
    /\ UNCHANGED joinVars

ReaperStep == ReaperTest \/ ReaperWaits \/ ReaperStore \/ ReaperProcess \/ ReaperThread

LifeNext ==
    \/ \E p \in Program : ExecSucceeds(p) \/ SegmentEnds(p) \/ ExecFails(p) \/ ExecReturns(p)
    \/ \E t \in AThread : thread_exit(t)
    \/ \E j \in Joiner, t \in AThread : thread_join(j, t)
    \/ \E j \in Joiner : JoinResumes(j)
    \/ ReaperStep

LifeSpec == LifeInit /\ [][LifeNext]_lifeVars

(* Everything has ended and the reaper sleeps.                             *)
LifeDone ==
    /\ \A t \in AThread : tstate[t] # "live"
    /\ \A p \in Program : exec[p] \in {0, Started(p)}
    /\ \A j \in Joiner : joiner[j] \in {"returned", "lost"}
    /\ reaper = "waiting"

-----------------------------------------------------------------------------
(* The list that starts at g_zombie_list is c.                             *)
ZombieLinks(c) ==
    /\ g_zombie_list = IF c = <<>> THEN NoThread ELSE c[1]
    /\ \A i \in DOMAIN c : zombie_next[c[i]] = IF i = Len(c) THEN NoThread ELSE c[i + 1]

(* g_zombie_list, which thread_exit pushes on while the reaper is between  *)
(* its load and its store, stays a list: it ends, and holds only zombies   *)
(* that are neither freed nor being freed.                                 *)
ZombieListSound ==
    \E n \in 0..Cardinality(AThread) : \E c \in [1..n -> AThread] :
       /\ ZombieLinks(c)
       /\ \A i \in 1..n : tstate[c[i]] = "zombie" /\ (c[i] = zombie => reaper = "store")

(* A joiner sleeps in the list of its target exactly as long as the target *)
(* lives: no joiner is left behind by an exit that came between its test   *)
(* and its sleep, and none returns before the exit.                        *)
JoinersExact ==
    \A j \in Joiner :
       /\ joiner[j] = "blocked" <=> \E t \in AThread : j \in Range(join_waiters[t])
       /\ joiner[j] = "blocked" => tstate[target[j]] = "live"
                                   /\ j \in Range(join_waiters[target[j]])
       /\ joiner[j] \in {"woken", "returned"} => tstate[target[j]] \in {"zombie", "freed"}

(* No object is freed twice, on no error path of the creation and in no    *)
(* interleaving of the creator, the exit and the reaper: the kernel stack  *)
(* that process and thread both point to included.                         *)
NothingFreedTwice == overfreed = {}

(* A creation that fails, at whatever stage, leaves nothing allocated.     *)
FailedExecLeavesNothing == \A p \in Program : exec[p] = 0 => held[p] = {}

(* Once a program's thread has been reaped and its creator has returned,   *)
(* nothing of the process is left: "Si c'etait le dernier thread, nettoyer *)
(* le processus".                                                          *)
ProcessReclaimed ==
    \A p \in Program : tstate[p] = "freed" /\ exec[p] = Started(p) => held[p] = {}

(* "Resource cleanup is done by the reaper thread": a zombie is freed.     *)
ZombiesAreReaped == \A t \in AThread : tstate[t] = "zombie" ~> tstate[t] = "freed"

(* The two lists that thread_exit shares with others, the reaper's and     *)
(* each thread's joiners, stay exact in every interleaving.                *)
ExitListsExact == ZombieListSound /\ JoinersExact

(* Whatever stage of a creation fails and whoever frees, every object is   *)
(* freed once: none twice, and none left behind by a failed creation.      *)
FreedExactlyOnce == NothingFreedTwice /\ FailedExecLeavesNothing
=============================================================================

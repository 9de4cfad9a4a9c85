------------------------------ MODULE MCKernel ------------------------------
(***************************************************************************)
(* Parts of the kernel that share no state, for TLC: the life of threads   *)
(* and processes, the worker pool, the heap, the ext2 volume, the shell    *)
(* with its files, and the frames and page tables.  A behaviour exercises  *)
(* the one Init chose, and the others keep their initial state.            *)
(***************************************************************************)
EXTENDS Lifecycle, WorkerPool, KHeap, Ext2, Shell, Frames

CONSTANTS k1, p1, p2, j1, i1, i2, t1, t2,   \* model values
          Tested       \* the parts this run exercises

VARIABLE tested

vars == <<tested, lifeVars, poolVars, heapVars, ext2Vars, shellVars, frameVars>>

(* Two names in the root and one below the first, when it is a directory.  *)
TwoNames == {<<"a">>, <<"b">>, <<"a", "c">>}

(* A file of one block and one that needs the indirect block.              *)
TwoBlocks == {[k \in 1 .. Slots + 1 |-> <<2>>]}

(* Memory maps whose usable region starts after block b, unaligned, and    *)
(* ends with block n - 1: memory runs out at every stage of the creation   *)
(* of the first or the second program, or not at all.                      *)
Region(base, length, usable) == [base |-> base, length |-> length, usable |-> usable]

Memories ==
    {<<Region(0, 4, FALSE)>>} \cup
    {<<Region(0, 4, TRUE), Region(4 * b + 1, 4 * (n - b) - 1, TRUE), Region(4 * n, 8, FALSE)>> :
        <<b, n>> \in ({3, 8} \X {24}) \cup ({11, 13, 16, 18, 19} \X {22}) \cup ({15, 18, 19, 20, 21} \X {26})}

OneMemory == {<<Region(0, 4, TRUE), Region(13, 83, TRUE)>>}

(* A page of code and one of stack, each with data copied to it.           *)
Page(virt, copy) == [virt |-> virt, copy |-> copy]

CodeAndStack ==
    << Page(<<0, 0, 0, 0>>, FALSE), Page(<<0, 0, 0, 0>>, TRUE),
       Page(<<255, 0, 0, 0>>, FALSE), Page(<<255, 0, 0, 0>>, TRUE) >>

(* The boot loader maps the kernel in the higher half only.                *)
HigherHalf == PML4_KERNEL :> 1

Init ==
    /\ tested \in Tested
    /\ LifeInit /\ PoolInit /\ HeapInit /\ Ext2Init /\ ShellInit
    /\ \E m \in Memmap : FramesInit(m) /\ (tested # "frames" => \A x \in Memmap : Len(m) <= Len(x))
    /\ tested # "volume" => disk = MadeDisk(FALSE)

InLife(A) == tested = "lifecycle" /\ A /\ UNCHANGED <<tested, poolVars, heapVars, ext2Vars, shellVars, frameVars>>
InPool(A) == tested = "pool" /\ A /\ UNCHANGED <<tested, lifeVars, heapVars, ext2Vars, shellVars, frameVars>>
Life == InLife(LifeNext)
Pool == InPool(PoolNext)
Heap == tested = "heap" /\ HeapNext /\ UNCHANGED <<tested, lifeVars, poolVars, ext2Vars, shellVars, frameVars>>
Disk == tested = "volume" /\ Ext2Next /\ UNCHANGED <<tested, lifeVars, poolVars, heapVars, shellVars, frameVars>>
Edit == tested = "shell" /\ ShellNext /\ UNCHANGED <<tested, lifeVars, poolVars, heapVars, ext2Vars, frameVars>>
Memory == tested = "frames" /\ FramesNext /\ UNCHANGED <<tested, lifeVars, poolVars, heapVars, ext2Vars, shellVars>>

(* The only states in which a part may stop.                               *)
Ended ==
    /\ \/ tested = "lifecycle" /\ LifeDone
       \/ tested = "pool" /\ PoolDone
       \/ tested = "frames" /\ FramesDone
    /\ UNCHANGED vars

(* Every thread that can take a step is scheduled again: round robin and   *)
(* aging, checked in module Scheduler.  Nobody is obliged to exit, to join *)
(* or to shut the pool down; a call that has begun goes on.                *)
Fairness ==
    /\ WF_vars(InLife(ReaperStep))
    /\ \A w \in Worker : WF_vars(InPool(WorkerStep(w)))
    /\ \A i \in Item : WF_vars(InPool(SubmitQueue(i) \/ SubmitPost(i)))
    /\ WF_vars(InPool(worker_pool_create \/ WakeWorkers \/ JoinWorkers))

Spec == Init /\ [][Life \/ Pool \/ Heap \/ Disk \/ Edit \/ Memory \/ Ended]_vars /\ Fairness
=============================================================================

------------------------------- MODULE Frames -------------------------------
(***************************************************************************)
(* Physical frames and page tables: the frame bitmap of mm/pmm.c, built    *)
(* from the boot loader's memory map, and the four-level tables of         *)
(* mm/vmm.c that process creation (kernel/process.c, kernel/elf.c) builds  *)
(* from its frames and the reaper gives back.                              *)
(*                                                                         *)
(* Neither file takes a lock or masks interrupts.  pmm_alloc_block loads   *)
(* pmm_used_blocks before it searches and stores it after, pmm_free_block  *)
(* loads a byte of the bitmap, clears a bit of it and stores it: this is   *)
(* what the -O2 build makes of "pmm_used_blocks++" and "&= ~".  Each is    *)
(* two steps here, with the other thread in between when Preempted.        *)
(***************************************************************************)
EXTENDS Integers, Sequences, FiniteSets, FiniteSetsExt, SequencesExt, TLC

CONSTANTS Memmap,            \* memory maps, sequences of [base, length, usable]
          PMM_MAX_MEMORY, PMM_BLOCK_SIZE, BlocksPerByte,
          LowMemory,         \* 1 MiB in the code
          HEAP_PAGES,
          KernelEntries,     \* the entries of the kernel's PML4: index -> frame
          Prog,              \* the programs started, 1 .. n in their order
          Image,             \* what a creation maps and copies, in order
          MaxPreemptions,    \* of a thread that is creating or freeing
          Preempted          \* pmm.c can be interrupted between its steps

NoBlock == -1

VARIABLES pmm_bitmap,        \* the blocks whose bit is set
          pmm_used_blocks, pmm_total_blocks,
          boot,              \* the blocks in use when the first program starts
          entries,           \* those of each table that are present
          pstate,            \* "none", "loading", "live" or "freeing"
          dirs,              \* proc->pml4, the block of the page_directory_t
          pages,             \* history: the blocks allocated for user pages
          loader,            \* where process_exec_and_wait is
          todo,              \* the blocks each thread still has to free
          reg,               \* what it holds in a register
          running, preemptions

frameVars == <<pmm_bitmap, pmm_used_blocks, pmm_total_blocks, boot, entries, pstate, dirs, pages, loader,
               todo, reg, running, preemptions>>

FrameThread == {"shell", "reaper"}
Idle == [prog |-> 0, at |-> "idle", op |-> 1, frame |-> NoBlock]
NoReg == [kind |-> "none"]
PML4_KERNEL == 256         \* entries from this one on are the kernel's

-----------------------------------------------------------------------------
(* init_pmm_limine.                                                        *)
AlignUp(a) == ((a + PMM_BLOCK_SIZE - 1) \div PMM_BLOCK_SIZE) * PMM_BLOCK_SIZE

(* The blocks of an entry that pmm_mark_region_free is called for.         *)
UsableBlocks(e) ==
    LET limited == Min({e.length, PMM_MAX_MEMORY - e.base})
        skipped == AlignUp(e.base) - e.base
        first   == AlignUp(e.base) \div PMM_BLOCK_SIZE
    IN  IF ~e.usable \/ e.base >= PMM_MAX_MEMORY \/ (skipped > 0 /\ limited <= skipped) THEN {}
        ELSE first .. first + (limited - skipped) \div PMM_BLOCK_SIZE - 1

MemorySize(m) == Min({PMM_MAX_MEMORY, Max({m[i].base + m[i].length : i \in DOMAIN m})})

init_pmm_limine(m) ==
    LET total == MemorySize(m) \div PMM_BLOCK_SIZE
        free  == UNION {UsableBlocks(m[i]) : i \in DOMAIN m}
        low   == 0 .. AlignUp(LowMemory) \div PMM_BLOCK_SIZE - 1
    IN  [total |-> total,
         used  |-> total - Cardinality(free) + Cardinality(free \cap low),
         set   |-> (0 .. total - 1) \ (free \ low)]

(* The bytes searched are total / 8, rounded down.                         *)
pmm_find_first_free(set, total) ==
    LET free == (0 .. (total \div BlocksPerByte) * BlocksPerByte - 1) \ set
    IN  IF free = {} THEN NoBlock ELSE Min(free)

pmm_find_first_free_sequence(set, total, count) ==
    LET starts == {b \in 0 .. total - count : (b .. b + count - 1) \cap set = {}}
    IN  IF starts = {} THEN NoBlock ELSE Min(starts)

(* pmm_alloc_blocks, called while the kernel boots: the kernel heap.       *)
pmm_alloc_blocks(p, count) ==
    LET b == pmm_find_first_free_sequence(p.set, p.total, count)
    IN  IF b = NoBlock THEN p
        ELSE [p EXCEPT !.set = @ \cup (b .. b + count - 1), !.used = @ + count]

FramesInit(m) ==
    LET booted == pmm_alloc_blocks(init_pmm_limine(m), HEAP_PAGES) IN
    /\ pmm_bitmap = booted.set /\ boot = booted.set
    /\ pmm_used_blocks = booted.used /\ pmm_total_blocks = booted.total
    /\ entries = [b \in 0 .. booted.total - 1 |-> <<>>]
    /\ pstate = [p \in Prog |-> "none"] /\ dirs = [p \in Prog |-> NoBlock]
    /\ pages = {} /\ loader = Idle
    /\ todo = [t \in FrameThread |-> <<>>] /\ reg = [t \in FrameThread |-> NoReg]
    /\ running = "shell" /\ preemptions = 0

-----------------------------------------------------------------------------
(* Page tables.  A page_directory_t is a block whose entry 0 is the PML4.  *)
get_table(t, i) == IF t = NoBlock \/ i \notin DOMAIN entries[t] THEN NoBlock ELSE entries[t][i]

(* The table, or at depth 4 the page, that virt leads to in a directory.   *)
TableAt(dir, virt, depth) ==
    LET walk[n \in 0 .. depth] == IF n = 0 THEN get_table(dir, 0) ELSE get_table(walk[n - 1], virt[n])
    IN  walk[depth]

vmm_get_phys_addr(dir, virt) == TableAt(dir, virt, 4)

(* What the first n entries of a table lead to, in their order.            *)
Held(t, n) ==
    LET present == SetToSortSeq({i \in DOMAIN entries[t] : i < n}, <)
    IN  [k \in DOMAIN present |-> entries[t][present[k]]]

(* Mutation: the page tables go, the page directories stay.                *)
FreedWithoutPd(dir) ==
    LET pdpts == Held(get_table(dir, 0), PML4_KERNEL)
        OfPdpt(t) == LET pds == Held(t, 512)
                     IN  FlattenSeq([k \in DOMAIN pds |-> Held(pds[k], 512)]) \o <<t>>
    IN  FlattenSeq([k \in DOMAIN pdpts |-> OfPdpt(pdpts[k])]) \o <<get_table(dir, 0), dir>>

(* The blocks vmm_free_directory frees, each table after those it holds;   *)
(* the pages themselves are not freed.                                     *)
vmm_free_directory(dir) ==
    LET pdpts == Held(get_table(dir, 0), PML4_KERNEL)
        OfPd(t) == Held(t, 512) \o <<t>>
        OfPdpt(t) == LET pds == Held(t, 512)
                     IN  FlattenSeq([k \in DOMAIN pds |-> OfPd(pds[k])]) \o <<t>>
    IN  FlattenSeq([k \in DOMAIN pdpts |-> OfPdpt(pdpts[k])]) \o <<get_table(dir, 0), dir>>

(* pmm_free_block: the byte is loaded and its bit tested, then cleared and *)
(* the byte stored.                                                        *)
FreeLoads(t) ==
    /\ todo[t] # <<>> /\ reg[t] = NoReg
    /\ LET b    == Head(todo[t])
           byte == {c \in DOMAIN entries : c \div BlocksPerByte = b \div BlocksPerByte}
       IN  IF b \in pmm_bitmap
             THEN /\ reg' = [reg EXCEPT ![t] = [kind |-> "byte", byte |-> byte,
                                                bits |-> pmm_bitmap \cap byte]]
                  /\ UNCHANGED todo
             ELSE todo' = [todo EXCEPT ![t] = Tail(@)] /\ UNCHANGED reg
    /\ UNCHANGED <<pmm_bitmap, pmm_used_blocks, pmm_total_blocks, boot, entries, pstate, dirs, pages, loader>>

FreeStores(t) ==
    /\ reg[t].kind = "byte"
    /\ pmm_bitmap' = (pmm_bitmap \ reg[t].byte) \cup (reg[t].bits \ {Head(todo[t])})
    /\ pmm_used_blocks' = pmm_used_blocks - 1
    /\ todo' = [todo EXCEPT ![t] = Tail(@)] /\ reg' = [reg EXCEPT ![t] = NoReg]
    /\ UNCHANGED <<pmm_total_blocks, boot, entries, pstate, dirs, pages, loader>>

-----------------------------------------------------------------------------
(* Creation of a process by the shell's thread.                            *)
Start(p) ==
    /\ loader = Idle /\ pstate[p] = "none" /\ todo["shell"] = <<>>
    /\ \A q \in Prog : q < p => pstate[q] # "none"
    /\ pstate' = [pstate EXCEPT ![p] = "loading"]
    /\ loader' = [Idle EXCEPT !.prog = p, !.at = "directory"]
    /\ UNCHANGED <<pmm_bitmap, pmm_used_blocks, pmm_total_blocks, boot, entries, dirs, pages, todo, reg>>

(* After an operation of the image comes the next one, or the thread.      *)
NextOp == [loader EXCEPT !.op = @ + 1, !.at = "image", !.frame = NoBlock]

(* The creation gives up and frees what it has taken.                      *)
GivesUp(blocks) ==
    /\ todo' = [todo EXCEPT !["shell"] = blocks]
    /\ pstate' = [pstate EXCEPT ![loader.prog] = "freeing"]
    /\ loader' = Idle

(* pmm_alloc_block returned NULL.  vmm_map_page, which returns nothing,    *)
(* gives up a table silently: the page stays allocated and unmapped.       *)
PmmFull ==
    CASE loader.at = "directory" -> GivesUp(<<>>)
      [] loader.at = "pml4" -> GivesUp(<<dirs[loader.prog]>>)
      [] loader.at = "page" -> GivesUp(vmm_free_directory(dirs[loader.prog]))
      [] loader.at = "table" -> loader' = NextOp /\ UNCHANGED <<todo, pstate>>

Allocates == loader.at \in {"directory", "pml4", "page", "table"}

AllocLoads ==
    /\ Allocates /\ reg["shell"] = NoReg
    /\ IF pmm_used_blocks >= pmm_total_blocks
         THEN PmmFull /\ UNCHANGED reg
         ELSE /\ reg' = [reg EXCEPT !["shell"] = [kind |-> "used", used |-> pmm_used_blocks]]
              /\ UNCHANGED <<loader, todo, pstate>>
    /\ UNCHANGED <<pmm_bitmap, pmm_used_blocks, pmm_total_blocks, boot, entries, dirs, pages>>

(* The entry that get_or_create_table adds: that of the deepest table.     *)
Deepest(virt) ==
    LET dir == dirs[loader.prog]
    IN  Max({d \in 0 .. 3 : TableAt(dir, virt, d) # NoBlock})

Linked(t, i, b) == [entries EXCEPT ![t] = (i :> b) @@ @, ![b] = <<>>]

(* vmm_create_directory copies the kernel's entries, 0 included.           *)
Allocated(b) ==
    LET p == loader.prog
        virt == Image[loader.op].virt
        depth == Deepest(virt)
    IN  CASE loader.at = "directory" ->
               /\ dirs' = [dirs EXCEPT ![p] = b] /\ entries' = [entries EXCEPT ![b] = <<>>]
               /\ loader' = [loader EXCEPT !.at = "pml4"] /\ UNCHANGED pages
          [] loader.at = "pml4" ->
               /\ entries' = [entries EXCEPT ![dirs[p]] = (0 :> b), ![b] = KernelEntries]
               /\ loader' = [loader EXCEPT !.at = "image"] /\ UNCHANGED <<dirs, pages>>
          [] loader.at = "page" ->
               /\ pages' = pages \cup {b} /\ entries' = [entries EXCEPT ![b] = <<>>]
               /\ loader' = [loader EXCEPT !.at = "map", !.frame = b] /\ UNCHANGED dirs
          [] loader.at = "table" ->
               /\ entries' = Linked(TableAt(dirs[p], virt, depth), virt[depth + 1], b)
               /\ loader' = [loader EXCEPT !.at = "map"] /\ UNCHANGED <<dirs, pages>>

AllocStores ==
    /\ reg["shell"].kind = "used"
    /\ reg' = [reg EXCEPT !["shell"] = NoReg]
    /\ LET b == pmm_find_first_free(pmm_bitmap, pmm_total_blocks)
       IN  IF b = NoBlock
             THEN PmmFull /\ UNCHANGED <<pmm_bitmap, pmm_used_blocks, entries, dirs, pages>>
             ELSE /\ pmm_bitmap' = pmm_bitmap \cup {b}
                  /\ pmm_used_blocks' = reg["shell"].used + 1
                  /\ Allocated(b) /\ UNCHANGED <<todo, pstate>>
    /\ UNCHANGED <<pmm_total_blocks, boot>>

(* The next operation of elf_load_file and of the user stack: a page that  *)
(* is not mapped yet is allocated; data is copied to a mapped page only.   *)
ImageStep ==
    /\ loader.at = "image"
    /\ LET p      == loader.prog
           mapped == vmm_get_phys_addr(dirs[p], Image[loader.op].virt) # NoBlock
       IN  IF loader.op > Len(Image)
             THEN /\ pstate' = [pstate EXCEPT ![p] = "live"]
                  /\ loader' = Idle /\ UNCHANGED todo
             ELSE IF Image[loader.op].copy /\ ~mapped
                    THEN GivesUp(vmm_free_directory(dirs[p]))
                    ELSE /\ loader' = IF Image[loader.op].copy \/ mapped THEN NextOp
                                      ELSE [loader EXCEPT !.at = "page"]
                         /\ UNCHANGED <<todo, pstate>>
    /\ UNCHANGED <<pmm_bitmap, pmm_used_blocks, pmm_total_blocks, boot, entries, dirs, pages, reg>>

(* vmm_map_page: a missing table is created, the last one gets the page.   *)
vmm_map_page ==
    /\ loader.at = "map"
    /\ LET virt == Image[loader.op].virt IN
       IF Deepest(virt) < 3
         THEN loader' = [loader EXCEPT !.at = "table"] /\ UNCHANGED entries
         ELSE LET pt == TableAt(dirs[loader.prog], virt, 3) IN
              /\ entries' = [entries EXCEPT ![pt] = (virt[4] :> loader.frame) @@ @]
              /\ loader' = NextOp
    /\ UNCHANGED <<pmm_bitmap, pmm_used_blocks, pmm_total_blocks, boot, pstate, dirs, pages, todo, reg>>

(* The last thread of a process has exited: reaper_thread_func.            *)
Reap(p) ==
    /\ pstate[p] = "live" /\ todo["reaper"] = <<>>
    /\ todo' = [todo EXCEPT !["reaper"] = vmm_free_directory(dirs[p])]
    /\ pstate' = [pstate EXCEPT ![p] = "freeing"]
    /\ UNCHANGED <<pmm_bitmap, pmm_used_blocks, pmm_total_blocks, boot, entries, dirs, pages, loader, reg>>

Busy(t) == todo[t] # <<>> \/ (t = "shell" /\ loader # Idle)

(* The scheduler gives t the CPU, or leaves it to t.                       *)
Turn(t) ==
    /\ running' = t
    /\ IF t # running /\ Busy(running)
         THEN /\ preemptions < MaxPreemptions /\ (Preempted \/ reg[running] = NoReg)
              /\ preemptions' = preemptions + 1
         ELSE UNCHANGED preemptions

FramesNext ==
    \/ /\ Turn("shell")
       /\ \/ \E p \in Prog : Start(p)
          \/ AllocLoads \/ AllocStores \/ ImageStep \/ vmm_map_page
    \/ Turn("reaper") /\ \E p \in Prog : Reap(p)
    \/ \E t \in FrameThread : Turn(t) /\ (FreeLoads(t) \/ FreeStores(t))

FramesDone == (\A p \in Prog : pstate[p] = "freeing") /\ \A t \in FrameThread : ~Busy(t)

-----------------------------------------------------------------------------
(* The tables a process holds: its directory and what vmm_free_directory   *)
(* finds from it.                                                          *)
TablesOf(p) ==
    IF pstate[p] \notin {"loading", "live"} \/ dirs[p] = NoBlock THEN <<>>
    ELSE IF get_table(dirs[p], 0) = NoBlock THEN <<dirs[p]>> ELSE vmm_free_directory(dirs[p])

(* The tables in use, and those about to be freed.                         *)
Tables ==
    FlattenSeq([p \in 1 .. Cardinality(Prog) |-> TablesOf(p)]) \o todo["shell"] \o todo["reaper"]

(* pmm.c:13-14, "bit = 1 : bloc utilise/reserve, bit = 0 : bloc libre":    *)
(* the set bits are the blocks in use, and no block serves twice.          *)
BitmapExact ==
    /\ pmm_bitmap = boot \cup pages \cup ToSet(Tables)
    /\ IsInjective(Tables) /\ (boot \cup pages) \cap ToSet(Tables) = {} /\ boot \cap pages = {}

(* However far a creation gets before memory runs out, and while the       *)
(* reaper gives back another process: the bitmap marks exactly the blocks  *)
(* that boot, tables, pages and pending frees hold, none of them for two   *)
(* uses, so that no table leaks; pmm_used_blocks counts them; and what a   *)
(* running program has had copied is mapped to its own pages.              *)
FramesSound ==
    /\ BitmapExact
    /\ pmm_used_blocks = Cardinality(pmm_bitmap)
    /\ \A p \in Prog : pstate[p] = "live" =>
          \A k \in DOMAIN Image : Image[k].copy =>
             vmm_get_phys_addr(dirs[p], Image[k].virt) \in pages
=============================================================================

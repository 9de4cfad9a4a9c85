------------------------------- MODULE KHeap -------------------------------
(***************************************************************************)
(* The kernel heap (mm/kheap.c): a list of blocks, each a header followed  *)
(* by its data, first fit with splitting, and coalescing on kfree.         *)
(*                                                                         *)
(* Addresses are offsets from heap_start, in bytes.  heap maps the address *)
(* of every header in the list to its fields; a header that coalescing     *)
(* swallowed is data again.  kmalloc and kfree hold heap_lock from the     *)
(* first access to the last and are one step each; krealloc calls them one *)
(* after the other (moving: what it has yet to free).  Callers free what   *)
(* they own, once.  The loop of kfree stops after 10000 blocks, which a    *)
(* heap of 1 MiB can exceed and the instances do not.                      *)
(***************************************************************************)
EXTENDS Integers, Sequences, SequencesExt

CONSTANTS HeapSize, HeaderSize, KHEAP_MIN_BLOCK_SIZE, Request, HeapThread

ASSUME HeapAssumption ==
  /\ HeaderSize \in Nat \ {0}
  /\ KHEAP_MIN_BLOCK_SIZE \in Nat \ {0}
  /\ HeapSize \in Nat
  /\ HeapSize >= HeaderSize + KHEAP_MIN_BLOCK_SIZE
  /\ Request \subseteq Nat \ {0}

VARIABLES heap, live, moving

heapVars == <<heap, live, moving>>

NoAddr == -1

KHEAP_BLOCK_DATA(b) == b + HeaderSize
KHEAP_DATA_BLOCK(p) == p - HeaderSize

align8(size) == ((size + 7) \div 8) * 8
Wanted(size) == IF align8(size) < KHEAP_MIN_BLOCK_SIZE THEN KHEAP_MIN_BLOCK_SIZE ELSE align8(size)

(* The list from heap_start, in the order of its next pointers.            *)
Chain(h) ==
  LET from[a \in DOMAIN h \cup {NoAddr}] ==
        IF a = NoAddr THEN <<>> ELSE <<a>> \o from[h[a].next]
  IN from[0]

split_block(h, b, size) ==
  LET remaining == h[b].size - size
      new == b + HeaderSize + size
  IN IF remaining >= HeaderSize + KHEAP_MIN_BLOCK_SIZE
     THEN (new :> [size |-> remaining - HeaderSize, is_free |-> TRUE, next |-> h[b].next])
            @@ [h EXCEPT ![b].size = size, ![b].next = new]
     ELSE h

(* One turn of coalesce_block: the block takes in its free successor.      *)
AbsorbForgetsHeader(h, b) ==
  LET n == h[b].next
  IN IF n # NoAddr /\ h[n].is_free
     THEN [a \in DOMAIN h \ {n} |->
             IF a = b THEN [h[b] EXCEPT !.size = @ + h[n].size, !.next = h[n].next] ELSE h[a]]
     ELSE h

Absorb(h, b) ==
  LET n == h[b].next
  IN IF n # NoAddr /\ h[n].is_free
     THEN [a \in DOMAIN h \ {n} |->
             IF a = b THEN [h[b] EXCEPT !.size = @ + HeaderSize + h[n].size, !.next = h[n].next]
                      ELSE h[a]]
     ELSE h

(* It recurs until the successor is in use: no more turns than blocks.     *)
coalesce_block(h, b) == FoldLeft(LAMBDA g, a : Absorb(g, b), h, Chain(h))

Fits(h, a, size) == h[a].is_free /\ h[a].size >= size

(* The address of the first block that fits, NoAddr when there is none.    *)
FirstFit(h, size) ==
  LET fit == SelectSeq(Chain(h), LAMBDA a : Fits(h, a, size))
  IN IF fit = <<>> THEN NoAddr ELSE Head(fit)

kmalloc(h, b, size) == [split_block(h, b, size) EXCEPT ![b].is_free = FALSE]

Freed(h, p) == [h EXCEPT ![KHEAP_DATA_BLOCK(p)].is_free = TRUE]

(* After its own block, kfree goes through the list from heap_start and    *)
(* coalesces every free block that is still in it.                         *)
kfree(h, p) ==
  LET first == coalesce_block(Freed(h, p), KHEAP_DATA_BLOCK(p))
  IN FoldLeft(LAMBDA g, a : IF a \in DOMAIN g /\ g[a].is_free THEN coalesce_block(g, a) ELSE g,
              first, Chain(first))

kheap_init == 0 :> [size |-> HeapSize - HeaderSize, is_free |-> TRUE, next |-> NoAddr]

-----------------------------------------------------------------------------

HeapInit ==
  /\ heap = kheap_init
  /\ live = {}
  /\ moving = [t \in HeapThread |-> NoAddr]

(* live: what the callers own, with the size they asked for.               *)
Allocate(t, size) ==
  LET b == FirstFit(heap, Wanted(size))
  IN /\ moving[t] = NoAddr
     /\ b # NoAddr
     /\ heap' = kmalloc(heap, b, Wanted(size))
     /\ live' = live \cup {[ptr |-> KHEAP_BLOCK_DATA(b), size |-> size, owner |-> t]}
     /\ UNCHANGED moving

(* Any thread frees, not only the one that allocated.                      *)
Deallocate(t, a) ==
  /\ moving[t] = NoAddr
  /\ \A u \in HeapThread : moving[u] # a.ptr
  /\ heap' = kfree(heap, a.ptr)
  /\ live' = live \ {a}
  /\ UNCHANGED moving

(* krealloc keeps a block that is large enough.                            *)
ReallocKeep(t, a, size) ==
  /\ moving[t] = NoAddr
  /\ a.owner = t
  /\ align8(size) <= heap[KHEAP_DATA_BLOCK(a.ptr)].size
  /\ live' = (live \ {a}) \cup {[a EXCEPT !.size = size]}
  /\ UNCHANGED <<heap, moving>>

(* Otherwise it allocates, copies and, in a later step, frees the old one. *)
ReallocMove(t, a, size) ==
  LET b == FirstFit(heap, Wanted(size))
  IN /\ moving[t] = NoAddr
     /\ a.owner = t
     /\ align8(size) > heap[KHEAP_DATA_BLOCK(a.ptr)].size
     /\ b # NoAddr
     /\ heap' = kmalloc(heap, b, Wanted(size))
     /\ live' = live \cup {[ptr |-> KHEAP_BLOCK_DATA(b), size |-> size, owner |-> t]}
     /\ moving' = [moving EXCEPT ![t] = a.ptr]

ReallocFree(t) ==
  /\ moving[t] # NoAddr
  /\ heap' = kfree(heap, moving[t])
  /\ live' = {a \in live : a.ptr # moving[t]}
  /\ moving' = [moving EXCEPT ![t] = NoAddr]

HeapNext ==
  \E t \in HeapThread :
    \/ \E size \in Request : Allocate(t, size)
    \/ \E a \in live :
         \/ Deallocate(t, a)
         \/ \E size \in Request : ReallocKeep(t, a, size) \/ ReallocMove(t, a, size)
    \/ ReallocFree(t)

HeapSpec == HeapInit /\ [][HeapNext]_heapVars

-----------------------------------------------------------------------------

End(h, a) == a + HeaderSize + h[a].size

(* The blocks of the list lie end to end from heap_start to the end of the *)
(* heap: no byte is lost or belongs to two blocks, whatever the history of *)
(* splits and merges.                                                      *)
HeapTiled ==
  /\ 0 \in DOMAIN heap
  /\ \A a \in DOMAIN heap :
       \/ heap[a].next = NoAddr /\ End(heap, a) = HeapSize
       \/ heap[a].next \in DOMAIN heap /\ End(heap, a) = heap[a].next

(* The blocks in use are those the callers own, each once, and every owner *)
(* has at least the bytes it asked for: kmalloc never hands out a block    *)
(* twice and kfree never takes one that is owned.                          *)
OwnersHaveRoom ==
  /\ {a \in DOMAIN heap : ~heap[a].is_free} = {KHEAP_DATA_BLOCK(x.ptr) : x \in live}
  /\ \A x \in live : heap[KHEAP_DATA_BLOCK(x.ptr)].size >= x.size
  /\ \A x, y \in live : x.ptr = y.ptr => x = y

(* No two neighbours are free: memory that was given back can serve a      *)
(* request as large as the whole gap.                                      *)
FreeCoalesced ==
  \A a \in DOMAIN heap : heap[a].is_free /\ heap[a].next # NoAddr => ~heap[heap[a].next].is_free

(* kmalloc and kfree together, after any history of splits and merges and  *)
(* from two threads: the blocks tile the heap, those in use are the        *)
(* callers', and no two free ones are left side by side.                   *)
HeapSound == HeapTiled /\ OwnersHaveRoom /\ FreeCoalesced
=============================================================================

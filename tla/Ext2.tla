-------------------------------- MODULE Ext2 --------------------------------
(***************************************************************************)
(* The ext2 driver (fs/ext2.c) below the path operations of fs/vfs.c, with *)
(* its two lasting clients: the kernel log (kernel/klog.c), which writes   *)
(* its file at the end of nearly every operation, and config_save, which   *)
(* creates and rewrites a file.                                            *)
(*                                                                         *)
(* A volume s threads through an operation: the disk, the driver's copies  *)
(* of the counters (sb, gd), the cached inode of the root node, the log    *)
(* file's node, and writes, the disk after each sector write so far.  An   *)
(* operation either completes or is cut after any of its writes, and the   *)
(* machine comes up again with what is on the disk.                        *)
(*                                                                         *)
(* A block holds Slots cells: << >> is zero, <<v>> a datum or a block      *)
(* number, <<inode, name, rec_len>> a directory entry (one slot for any    *)
(* name).  Blocks are numbered from s_first_data_block = 1; bitmaps and    *)
(* inode tables are apart.  Left out: doubly indirect blocks, failures of  *)
(* kmalloc and of the disk, and the removal of the open log file.          *)
(***************************************************************************)
EXTENDS Integers, Sequences, FiniteSets, SequencesExt

CONSTANTS BlocksCount, BlocksPerGroup, InodesPerGroup, Slots, Direct, Ptrs,
          Path, Content, MaxCrashes

VARIABLES disk, mem, kept, crashes

ext2Vars == <<disk, mem, kept, crashes>>

Kind == {"blocks", "inodes"}
Group == 0 .. ((BlocksCount + BlocksPerGroup - 1) \div BlocksPerGroup) - 1
Block == 1 .. BlocksCount
Inode == 1 .. Cardinality(Group) * InodesPerGroup
EXT2_ROOT_INODE == 2
LogName == "log"
Off == [up |-> FALSE]

(* The block groups: bit k of a bitmap is the k-th block or inode of it.   *)
GroupOf(kind, x) ==
  IF kind = "blocks" THEN (x - 1) \div BlocksPerGroup ELSE (x - 1) \div InodesPerGroup
GroupMembers == [kind \in Kind |-> [g \in Group |->
                   {x \in IF kind = "blocks" THEN Block ELSE Inode : GroupOf(kind, x) = g}]]

Lowest(S) == CHOOSE x \in S : \A y \in S : x <= y

(* Names the result of a step for the steps after it.                      *)
With(x, Rest(_)) == Rest(x)

(* One write of the disk.                                                  *)
Written(s, d) == [s EXCEPT !.disk = d, !.writes = Append(@, d)]
ext2_write_block(s, b, cells) == Written(s, [s.disk EXCEPT !.blk[b] = cells])
ext2_write_inode(s, i, node) == Written(s, [s.disk EXCEPT !.ino[i] = node])
ext2_write_group_desc(s, g) == Written(s, [s.disk EXCEPT !.gd[g] = s.gd[g]])
ext2_write_superblock(s) == Written(s, [s.disk EXCEPT !.sb = s.sb])

ZeroBlock == [k \in 1 .. Slots |-> <<>>]
EmptyInode == [mode |-> "none", links |-> 0, size |-> 0, block |-> [k \in 0 .. Direct |-> 0]]

-----------------------------------------------------------------------------
(* ext2_alloc_block and ext2_alloc_inode: the first group whose counter is *)
(* not zero and whose bitmap has a zero bit.  id 0 stands for -1.          *)
AllocIn(s, kind, g, x) ==
  LET s1 == Written(s, [s.disk EXCEPT !.map[kind] = @ \cup {x}])
      s2 == [s1 EXCEPT !.gd[g][kind] = @ - 1, !.sb[kind] = @ - 1]
  IN [s |-> ext2_write_superblock(ext2_write_group_desc(s2, g)), id |-> x]

Alloc(s, kind) ==
  LET free == [g \in Group |-> GroupMembers[kind][g] \ s.disk.map[kind]]
      groups == {g \in Group : s.gd[g][kind] > 0 /\ free[g] # {}}
  IN IF s.sb[kind] = 0 \/ groups = {} THEN [s |-> s, id |-> 0]
     ELSE LET g == Lowest(groups) IN AllocIn(s, kind, g, Lowest(free[g]))

(* ext2_free_block and ext2_free_inode.                                    *)
FreeKeepsSuper(s, kind, x) ==
  LET g == GroupOf(kind, x)
      s1 == Written(s, [s.disk EXCEPT !.map[kind] = @ \ {x}])
      s2 == [s1 EXCEPT !.gd[g][kind] = @ + 1]
  IN IF x \notin s.disk.map[kind] THEN s ELSE ext2_write_group_desc(s2, g)

Free(s, kind, x) ==
  LET g == GroupOf(kind, x)
      s1 == Written(s, [s.disk EXCEPT !.map[kind] = @ \ {x}])
      s2 == [s1 EXCEPT !.gd[g][kind] = @ + 1, !.sb[kind] = @ + 1]
  IN IF x \notin s.disk.map[kind] THEN s
     ELSE ext2_write_superblock(ext2_write_group_desc(s2, g))

-----------------------------------------------------------------------------
PointerIn(cell) == IF cell = <<>> THEN 0 ELSE cell[1]

(* The block that holds logical block k of an inode, 0 for a hole.         *)
BlockAt(d, node, k) ==
  CASE k < Direct -> node.block[k]
    [] k >= Direct /\ k < Direct + Ptrs ->
         IF node.block[Direct] = 0 THEN 0
         ELSE PointerIn(d.blk[node.block[Direct]][k - Direct + 1])
    [] OTHER -> 0

CellAt(d, node, k) ==
  LET b == BlockAt(d, node, k \div Slots)
  IN IF b = 0 THEN <<>> ELSE d.blk[b][(k % Slots) + 1]

(* All the cells of an inode, what a read of i_size bytes returns.         *)
ext2_read_inode_data(d, node) == [k \in 1 .. node.size |-> CellAt(d, node, k - 1)]

(* ext2_get_block with allocate: the new block is zeroed after it is found *)
(* and, below the indirect block, after it is linked.                      *)
DirectBlock(s, node, k) ==
  IF node.block[k] # 0 THEN [s |-> s, node |-> node, b |-> node.block[k]]
  ELSE With(Alloc(s, "blocks"), LAMBDA a :
    IF a.id = 0 THEN [s |-> a.s, node |-> node, b |-> 0]
    ELSE [s |-> ext2_write_block(a.s, a.id, ZeroBlock),
          node |-> [node EXCEPT !.block[k] = a.id], b |-> a.id])

LinkedBlock(top, c) ==
  With(Alloc(top.s, "blocks"), LAMBDA a :
    IF a.id = 0 THEN [top EXCEPT !.s = a.s, !.b = 0]
    ELSE LET linked == ext2_write_block(a.s, top.b, [a.s.disk.blk[top.b] EXCEPT ![c] = <<a.id>>])
         IN [top EXCEPT !.s = ext2_write_block(linked, a.id, ZeroBlock), !.b = a.id])

IndirectBlock(s, node, k) ==
  With(DirectBlock(s, node, Direct), LAMBDA top :
    LET old == PointerIn(top.s.disk.blk[top.b][k - Direct + 1])
    IN IF top.b = 0 THEN top
       ELSE IF old # 0 THEN [top EXCEPT !.b = old]
       ELSE LinkedBlock(top, k - Direct + 1))

ext2_get_block(s, node, k) ==
  CASE k < Direct -> DirectBlock(s, node, k)
    [] k >= Direct /\ k < Direct + Ptrs -> IndirectBlock(s, node, k)
    [] OTHER -> [s |-> s, node |-> node, b |-> 0]

(* One turn of the loop of ext2_write_inode_data: w carries the volume, the*)
(* inode, the cells written and whether an allocation failed.              *)
WriteTurn(w, k, offset, cells) ==
  LET last == offset + Len(cells) - 1
      new(old) == [c \in 1 .. Slots |->
                     LET at == k * Slots + c - 1
                     IN IF at >= offset /\ at <= last THEN cells[at - offset + 1] ELSE old[c]]
      upto == IF last < (k + 1) * Slots THEN last + 1 ELSE (k + 1) * Slots
  IN IF w.full THEN w
     ELSE With(ext2_get_block(w.s, w.node, k), LAMBDA g :
       IF g.b = 0 THEN [w EXCEPT !.s = g.s, !.node = g.node, !.full = TRUE]
       ELSE [w EXCEPT !.s = ext2_write_block(g.s, g.b, new(g.s.disk.blk[g.b])),
                      !.node = g.node, !.n = upto - offset])

(* The inode is written only when some data was; n is the result, 0 for -1.*)
ext2_write_inode_data(s, node, i, offset, cells) ==
  LET first == offset \div Slots
      turns == [k \in 1 .. ((offset + Len(cells) - 1) \div Slots) - first + 1 |-> first + k - 1]
  IN With(FoldLeft(LAMBDA acc, k : WriteTurn(acc, k, offset, cells),
                   [s |-> s, node |-> node, n |-> 0, full |-> FALSE], turns), LAMBDA w :
       LET grown == [w.node EXCEPT !.size = IF offset + w.n > @ THEN offset + w.n ELSE @]
       IN IF w.n = 0 THEN w
          ELSE [w EXCEPT !.s = ext2_write_inode(w.s, i, grown), !.node = grown])

-----------------------------------------------------------------------------
RecLen(cell) == IF Len(cell) = 3 THEN cell[3] ELSE 0

(* The offsets a directory walk visits: it stops at a zero rec_len.        *)
Walk(cells) ==
  LET from[o \in 1 .. Len(cells) + 1] ==
        IF o > Len(cells) \/ RecLen(cells[o]) = 0 THEN <<>>
        ELSE <<o>> \o (IF o + RecLen(cells[o]) > Len(cells) THEN <<>>
                       ELSE from[o + RecLen(cells[o])])
  IN IF Len(cells) = 0 THEN <<>> ELSE from[1]

Entries(d, node) ==
  LET cells == ext2_read_inode_data(d, node)
      at == Walk(cells)
  IN [k \in 1 .. Len(at) |-> cells[at[k]]]

(* The inode a name stands for in a directory, 0 when it is not there.     *)
ext2_vfs_finddir(d, node, name) ==
  LET hits == SelectSeq(Entries(d, node), LAMBDA e : e[1] # 0 /\ e[2] = name)
  IN IF node.mode # "dir" \/ hits = <<>> THEN 0 ELSE hits[1][1]

RemoveClearsEntry(s, node, i, name) ==
  With(ext2_read_inode_data(s.disk, node), LAMBDA cells : With(Walk(cells), LAMBDA at :
    LET k == Lowest({j \in 1 .. Len(at) : cells[at[j]][1] # 0 /\ cells[at[j]][2] = name})
    IN ext2_write_inode_data(s, node, i, 0, [cells EXCEPT ![at[k]] = <<>>])))

(* A removed entry is taken into the one before it, over a block boundary  *)
(* too; the first entry of a directory, ".", is never removed.             *)
ext2_remove_dir_entry(s, node, i, name) ==
  With(ext2_read_inode_data(s.disk, node), LAMBDA cells : With(Walk(cells), LAMBDA at :
    LET k == Lowest({j \in 1 .. Len(at) : cells[at[j]][1] # 0 /\ cells[at[j]][2] = name})
    IN ext2_write_inode_data(s, node, i, 0,
         [cells EXCEPT ![at[k - 1]] = <<@[1], @[2], @[3] + cells[at[k]][3]>>])))

(* The first entry with room gives up its tail.  Otherwise a block is      *)
(* allocated, which is never linked: writing the longer directory          *)
(* allocates another one.  n is the result, 0 for -1.                      *)
SplitEntry(s, node, i, cells, o, new, name) ==
  ext2_write_inode_data(s, node, i, 0,
    [cells EXCEPT ![o] = <<@[1], @[2], 1>>, ![o + 1] = <<new, name, RecLen(cells[o]) - 1>>])

LongerDirectory(s, node, i, cells, new, name) ==
  With(Alloc(s, "blocks"), LAMBDA a :
    IF a.id = 0 THEN [s |-> a.s, node |-> node, n |-> 0]
    ELSE ext2_write_inode_data(a.s, [node EXCEPT !.size = @ + Slots], i, 0,
           cells \o [ZeroBlock EXCEPT ![1] = <<new, name, Slots>>]))

ext2_add_dir_entry(s, node, i, new, name) ==
  With(ext2_read_inode_data(s.disk, node), LAMBDA cells : With(Walk(cells), LAMBDA at :
    LET room == {k \in 1 .. Len(at) : RecLen(cells[at[k]]) > 1}
    IN IF room # {} THEN SplitEntry(s, node, i, cells, at[Lowest(room)], new, name)
       ELSE LongerDirectory(s, node, i, cells, new, name)))

-----------------------------------------------------------------------------
(* Nodes: the root's inode is cached, every other one is read anew.        *)
Node(s, i) == IF i = EXT2_ROOT_INODE THEN s.root ELSE s.disk.ino[i]
Put(s, i, node) == IF i = EXT2_ROOT_INODE THEN [s EXCEPT !.root = node] ELSE s

vfs_resolve_path(s, path) ==
  FoldLeft(LAMBDA i, name : IF i = 0 THEN 0 ELSE ext2_vfs_finddir(s.disk, Node(s, i), name),
           EXT2_ROOT_INODE, path)

(* What an operation logs is one cell; write_to_file advances the offset   *)
(* twice.                                                                  *)
klog(s) ==
  IF s.logf.ino = 0 THEN s
  ELSE With(ext2_write_inode_data(s, s.logf.node, s.logf.ino, s.logf.offset, <<<<9>>>>), LAMBDA w :
    [w.s EXCEPT !.logf.node = w.node, !.logf.offset = @ + 2 * w.n])

Success(s) == [s |-> klog(s), ok |-> TRUE]
LoggedError(s) == [s |-> klog(s), ok |-> FALSE]
Error(s) == [s |-> s, ok |-> FALSE]

NewFile(s, p, i, name) ==
  With(ext2_write_inode(s, i, [EmptyInode EXCEPT !.mode = "file", !.links = 1]), LAMBDA s1 :
    With(ext2_add_dir_entry(s1, Node(s1, p), p, i, name), LAMBDA e :
      IF e.n = 0 THEN Error(Free(Put(e.s, p, e.node), "inodes", i))
      ELSE Success(Put(e.s, p, e.node))))

ext2_vfs_create(s, p, name) ==
  IF ext2_vfs_finddir(s.disk, Node(s, p), name) # 0 THEN Error(s)
  ELSE With(Alloc(s, "inodes"), LAMBDA a :
    IF a.id = 0 THEN LoggedError(s) ELSE NewFile(a.s, p, a.id, name))

DotEntries(i, p) ==
  [ZeroBlock EXCEPT ![1] = <<i, ".", 1>>, ![2] = <<p, "..", Slots - 1>>]
DirInode(b) ==
  [EmptyInode EXCEPT !.mode = "dir", !.links = 2, !.size = Slots, !.block[0] = b]

(* What follows the two allocations of mkdir: inode i and block b.         *)
NewDirectory(s, p, i, b, name) ==
  With(ext2_write_inode(ext2_write_block(s, b, DotEntries(i, p)), i, DirInode(b)), LAMBDA s1 :
    With(ext2_add_dir_entry(s1, Node(s1, p), p, i, name), LAMBDA e :
      LET node == [e.node EXCEPT !.links = @ + 1]
          g == GroupOf("inodes", i)
          s2 == Put(ext2_write_inode(e.s, p, node), p, node)
      IN IF e.n = 0
         THEN Error(Free(Free(Put(e.s, p, e.node), "blocks", b), "inodes", i))
         ELSE Success(ext2_write_group_desc([s2 EXCEPT !.gd[g].dirs = @ + 1], g))))

ext2_vfs_mkdir(s, p, name) ==
  IF ext2_vfs_finddir(s.disk, Node(s, p), name) # 0 THEN Error(s)
  ELSE With(Alloc(s, "inodes"), LAMBDA a :
    IF a.id = 0 THEN LoggedError(s)
    ELSE With(Alloc(a.s, "blocks"), LAMBDA c :
      IF c.id = 0 THEN LoggedError(Free(c.s, "inodes", a.id))
      ELSE NewDirectory(c.s, p, a.id, c.id, name)))

IsDot(name) == name \in {".", ".."}

ext2_is_dir_empty(d, node) ==
  \A e \in Range(Entries(d, node)) : e[1] = 0 \/ IsDot(e[2])

(* The blocks below the indirect one, and itself, are not given back.      *)
ext2_free_inode_blocks(s, node) ==
  FoldLeft(LAMBDA acc, k : IF node.block[k] = 0 THEN acc ELSE Free(acc, "blocks", node.block[k]),
           s, [k \in 1 .. Direct |-> k - 1])

(* The last link of a directory is gone.                                   *)
GoneDirectory(s, p, i) ==
  LET g == GroupOf("inodes", i)
  IN With(IF s.gd[g].dirs > 0 THEN ext2_write_group_desc([s EXCEPT !.gd[g].dirs = @ - 1], g) ELSE s,
       LAMBDA s1 :
         LET parent == [Node(s1, p) EXCEPT !.links = @ - 1]
         IN IF Node(s1, p).links = 0 THEN s1
            ELSE Put(ext2_write_inode(s1, p, parent), p, parent))

(* What follows the removal of an entry.  A directory starts with two      *)
(* links and loses one here: it keeps its inode and its block.             *)
DropLink(s, p, i, dest) ==
  LET node == [dest EXCEPT !.links = @ - 1]
      gone == [node EXCEPT !.size = 0,
                           !.block = [k \in 0 .. Direct |-> IF k < Direct THEN 0 ELSE @[k]]]
  IN IF node.links # 0 THEN ext2_write_inode(s, i, node)
     ELSE With(Free(ext2_write_inode(ext2_free_inode_blocks(s, node), i, gone), "inodes", i),
            LAMBDA s1 : IF dest.mode # "dir" THEN s1 ELSE GoneDirectory(s1, p, i))

UnlinkFreesFirst(s, p, name) ==
  With(ext2_vfs_finddir(s.disk, Node(s, p), name), LAMBDA i :
    IF i = 0 \/ (s.disk.ino[i].mode = "dir" /\ ~ext2_is_dir_empty(s.disk, s.disk.ino[i]))
    THEN LoggedError(s)
    ELSE With(DropLink(s, p, i, s.disk.ino[i]), LAMBDA s1 :
      With(ext2_remove_dir_entry(s1, Node(s1, p), p, name), LAMBDA r :
        Success(Put(r.s, p, r.node)))))

ext2_vfs_unlink(s, p, name) ==
  With(ext2_vfs_finddir(s.disk, Node(s, p), name), LAMBDA i :
    IF i = 0 \/ (s.disk.ino[i].mode = "dir" /\ ~ext2_is_dir_empty(s.disk, s.disk.ino[i]))
    THEN LoggedError(s)
    ELSE With(ext2_remove_dir_entry(s, Node(s, p), p, name), LAMBDA r :
      IF r.n = 0 THEN LoggedError(Put(r.s, p, r.node))
      ELSE Success(DropLink(Put(r.s, p, r.node), p, i, s.disk.ino[i]))))

(* The directory a path ends in, 0 when there is none; then the vfs_create,*)
(* vfs_mkdir and vfs_unlink of the code.                                   *)
ParentDir(s, path) ==
  With(vfs_resolve_path(s, Front(path)), LAMBDA p :
    IF p # 0 /\ Node(s, p).mode = "dir" THEN p ELSE 0)

CreateAt(s, path) ==
  With(ParentDir(s, path), LAMBDA p :
    IF p = 0 THEN LoggedError(s) ELSE ext2_vfs_create(s, p, Last(path)))

MkdirAt(s, path) ==
  With(ParentDir(s, path), LAMBDA p :
    IF p = 0 THEN LoggedError(s) ELSE ext2_vfs_mkdir(s, p, Last(path)))

UnlinkAt(s, path) ==
  With(ParentDir(s, path), LAMBDA p :
    IF p = 0 THEN LoggedError(s) ELSE ext2_vfs_unlink(s, p, Last(path)))

(* config_save: open or create, then write from the start of the file.     *)
WriteOpened(s, i, cells) ==
  IF i = 0 THEN Error(s)
  ELSE IF Node(s, i).mode = "dir" THEN LoggedError(s)
  ELSE With(ext2_write_inode_data(s, Node(s, i), i, 0, cells), LAMBDA w :
    IF w.n # Len(cells) THEN LoggedError(w.s) ELSE Success(w.s))

config_save(s, path, cells) ==
  With(IF vfs_resolve_path(s, path) # 0 THEN [s |-> s, ok |-> TRUE]
       ELSE CreateAt(s, path), LAMBDA opened :
    IF ~opened.ok THEN LoggedError(opened.s)
    ELSE WriteOpened(opened.s, vfs_resolve_path(opened.s, path), cells))

NoLog == [ino |-> 0, node |-> EmptyInode, offset |-> 0]

ext2_mount(d) ==
  ext2_write_superblock(
    [disk |-> d, writes |-> <<>>, sb |-> d.sb, gd |-> d.gd, root |-> d.ino[EXT2_ROOT_INODE],
     logf |-> NoLog])

(* The file is opened, not created; the separator, then the early buffer.  *)
klog_init(s) ==
  With(vfs_resolve_path(s, <<LogName>>), LAMBDA i :
    IF i = 0 THEN s
    ELSE LET node == s.disk.ino[i]
         IN With(ext2_write_inode_data(s, node, i, node.size, <<<<9>>>>), LAMBDA w :
              klog([w.s EXCEPT !.logf = [ino |-> i, node |-> w.node, offset |-> node.size + 1]])))

-----------------------------------------------------------------------------
(* The volume as it is mounted, and what an operation that completes, or   *)
(* one cut by a crash, leaves.  kept: what a path was last saved with.     *)
Volume == [disk |-> disk, writes |-> <<>>, sb |-> mem.sb, gd |-> mem.gd, root |-> mem.root,
           logf |-> mem.logf]

Completes(s) ==
  /\ disk' = s.disk
  /\ mem' = [up |-> TRUE, sb |-> s.sb, gd |-> s.gd, root |-> s.root, logf |-> s.logf]
  /\ UNCHANGED crashes

Cut(s) ==
  /\ crashes < MaxCrashes
  /\ crashes' = crashes + 1
  /\ disk' \in Range(s.writes)
  /\ mem' = Off

Mount ==
  /\ ~mem.up
  /\ UNCHANGED kept
  /\ \E s \in {klog_init(ext2_mount(disk))} : Completes(s) \/ Cut(s)

vfs_create(path) ==
  /\ mem.up
  /\ UNCHANGED kept
  /\ \E r \in {CreateAt(Volume, path)} : Completes(r.s) \/ Cut(r.s)

vfs_mkdir(path) ==
  /\ mem.up
  /\ UNCHANGED kept
  /\ \E r \in {MkdirAt(Volume, path)} : Completes(r.s) \/ Cut(r.s)

vfs_unlink(path) ==
  /\ mem.up
  /\ \E r \in {UnlinkAt(Volume, path)} :
       \/ /\ Completes(r.s)
          /\ kept' = IF r.ok THEN [kept EXCEPT ![path] = <<>>] ELSE kept
       \/ Cut(r.s) /\ kept' = [kept EXCEPT ![path] = <<>>]

SaveConfig(path, cells) ==
  /\ mem.up
  /\ \E r \in {config_save(Volume, path, cells)} :
       \/ /\ Completes(r.s)
          /\ kept' = [kept EXCEPT ![path] = IF r.ok THEN cells ELSE <<>>]
       \/ Cut(r.s) /\ kept' = [kept EXCEPT ![path] = <<>>]

(* A fresh volume: inode 1 is reserved, 2 the root; log: with a log file.  *)
MadeDisk(log) ==
  LET used == [blocks |-> {1}, inodes |-> IF log THEN {1, 2, 3} ELSE {1, 2}]
      left(kind, g) == Cardinality(GroupMembers[kind][g] \ used[kind])
      dots == DotEntries(EXT2_ROOT_INODE, EXT2_ROOT_INODE)
  IN [map |-> used,
      sb |-> [blocks |-> BlocksCount - 1, inodes |-> Cardinality(Inode \ used.inodes)],
      gd |-> [g \in Group |-> [blocks |-> left("blocks", g), inodes |-> left("inodes", g),
                               dirs |-> IF g = 0 THEN 1 ELSE 0]],
      ino |-> [i \in Inode |->
                 CASE i = 2 -> DirInode(1)
                   [] i = 3 /\ log -> [EmptyInode EXCEPT !.mode = "file", !.links = 1]
                   [] OTHER -> EmptyInode],
      blk |-> [b \in Block |->
                 IF b # 1 THEN ZeroBlock
                 ELSE IF log THEN [dots EXCEPT ![2] = <<2, "..", 1>>,
                                               ![3] = <<3, LogName, Slots - 2>>]
                 ELSE dots]]

Ext2Init ==
  /\ disk \in {MadeDisk(log) : log \in BOOLEAN}
  /\ mem = Off
  /\ kept = [path \in Path |-> <<>>]
  /\ crashes = 0

Ext2Next ==
  \/ Mount
  \/ \E path \in Path :
       \/ vfs_create(path)
       \/ vfs_mkdir(path)
       \/ vfs_unlink(path)
       \/ \E cells \in Content : SaveConfig(path, cells)

Ext2Spec == Ext2Init /\ [][Ext2Next]_ext2Vars

-----------------------------------------------------------------------------
Children(S) ==
  {e[1] : e \in UNION {Range(Entries(disk, disk.ino[i])) : i \in {j \in S : disk.ino[j].mode = "dir"}}}

(* The inodes that names lead to; paths have at most two names.            *)
Reachable == LET one == Children({EXT2_ROOT_INODE}) IN one \cup Children(one)

(* The places of an inode that hold a block number, with the number.       *)
Pointers(i) ==
  LET node == disk.ino[i]
  IN {<<i, k, node.block[k]>> : k \in 0 .. Direct}
     \cup {<<i, k, BlockAt(disk, node, k - 1)>> : k \in Direct + 1 .. Direct + Ptrs}

(* A directory longer than a block is safe only until the first crash: an  *)
(* entry merged over the boundary and split again needs two writes.        *)
OneWriteDirs ==
  crashes = 0 \/ \A i \in Reachable : disk.ino[i].mode = "dir" => disk.ino[i].size <= Slots

(* Whatever write a crash cuts, every name leads to an inode that is       *)
(* allocated, every block of it is allocated, and no block belongs twice:  *)
(* the order of the driver's writes may lose space, never share it.        *)
CrashSafe ==
  OneWriteDirs =>
  LET used == {p \in UNION {Pointers(i) : i \in Reachable} : p[3] # 0}
  IN /\ Reachable \subseteq disk.map.inodes
     /\ \A p \in used : p[3] \in disk.map.blocks
     /\ \A p, q \in used : p[3] = q[3] => p = q

(* A file holds what it was last saved with, whatever is created, removed, *)
(* saved or logged beside it and wherever a crash cuts those.              *)
FilesKept ==
  \A path \in Path : kept[path] # <<>> /\ OneWriteDirs =>
    LET s == ext2_mount(disk)
        node == disk.ino[vfs_resolve_path(s, path)]
    IN /\ vfs_resolve_path(s, path) # 0
       /\ node.size >= Len(kept[path])
       /\ \A k \in DOMAIN kept[path] : ext2_read_inode_data(disk, node)[k] = kept[path][k]

(* Until a crash, the counters that allocation trusts agree with the       *)
(* bitmaps, on the disk and in the driver.                                 *)
CountersExact ==
  crashes = 0 =>
           /\ \A kind \in Kind :
                /\ disk.sb[kind] = Cardinality(UNION {GroupMembers[kind][g] : g \in Group}
                                               \ disk.map[kind])
                /\ \A g \in Group :
                     disk.gd[g][kind] = Cardinality(GroupMembers[kind][g] \ disk.map[kind])
           /\ mem.up => mem.sb = disk.sb /\ mem.gd = disk.gd
=============================================================================

# A TLA+ verification of the ALOS kernel

ALOS is a hobby operating system for x86-64, written in C: a kernel with
preemptive threads, user programs, an ext2 file system, a TCP/IP stack with an
HTTP server, and a graphical shell. This directory holds TLA+ models of its
concurrent and stateful parts, translated from the code under `src/src/`, the
TLC configurations that check them, and TLAPS proofs about the synchronisation
primitives, the worker pool, the life of threads and programs, the keyboard, the
sockets and the client protocols.

`PROJECT.json` lists the components, the runs, the lines each definition
translates, the hazards each property is aimed at, and the theorems.

## How ALOS executes

Everything below rests on how the kernel interleaves:

- There is one CPU. Code that runs with interrupts disabled is atomic until it
  calls the scheduler. All of `sync.c` is written this way.
- Timer interrupt 0 preempts a kernel thread when interrupts are enabled
  (`thread.c`, `scheduler_preempt`). So kernel threads interleave at every
  instruction, and with interrupt handlers.
- A system call enters through an interrupt gate and runs with interrupts
  disabled. It is atomic except where it blocks.
- The handler of the network card runs to its end. It does the whole receive
  path, TCP included, in the interrupt.
- At boot, `net_poll` also runs that path in a thread (`kernel.c:375`).

The models take the smallest steps at which two actors can see each other: one
step per call in `sync.c` and in system calls, one step per load or store of
shared state in threads that run with interrupts enabled.

## Inventory

| Part | State | Operations | Interacts with | Hard behaviour | What should hold |
|---|---|---|---|---|---|
| Semaphore | count, wait list | wait, trywait, timedwait, post | scheduler, keyboard, worker pool | overtaking, timeouts | no unit lost, no waiter forgotten |
| Mutex | owner, depth, wait list, priorities | lock, trylock, unlock | scheduler | overtaking, inheritance | exclusion, boosts undone |
| Condition variable | wait list | wait, timedwait, signal, broadcast | mutex | test-then-wait | no missed broadcast |
| Read-write lock | readers, writer, two lists | 4 locks, 2 unlocks, upgrade, downgrade | scheduler | preference, conversion | exclusion, exact counters |
| Scheduler | run queues, sleep queue, slices | create, block, wake, sleep, kill, yield, tick, preempt, age | everything | one link field for two lists | queues exact, nobody starves |
| Exit, join, reaper | zombie list, reference counts | exit, join, reap | condition variable | unlocked list | freed once, freed eventually |
| Process creation | objects held | exec, load, thread creation | heap, memory, reaper | failure at each stage, early exit | nothing leaks |
| Worker pool | queue, semaphore, flags | create, submit, work, shutdown, destroy | semaphore, threads | shutdown against submit | run once, in order |
| TCP | socket table, buffers | segment handler, send, recv, close, bind | ARP, system calls, HTTP server | duplicated and reordered segments, growth | one socket per connection, exact stream |
| Socket calls | descriptor table | socket, bind, listen, accept, recv, send, close | TCP | waits in calls | a descriptor owns its socket |
| HTTP server | flags, thread, lock | start, stop, serve | TCP, mutex | stop against start | one server, a stop ends it |
| Kernel heap | block list | kmalloc, kfree, krealloc | everything | long histories | blocks tile the heap |
| ext2, VFS, log | bitmaps, inodes, directories, counters | mount, create, mkdir, unlink, write | disk, heap | crash after any write, full disk | no dangling or shared block |
| Frames and page tables | bitmap, tables | alloc, free, map, copy | processes, reaper | memory runs out anywhere; stores in the middle of a byte | no frame lost or shared |
| Card rings (e1000e, PCnet, virtio) | descriptor rings, virtqueues | send, receive, refill, interrupt, poll | network stack | the card acts at any time | each frame handled once, sent as accepted |
| DHCP, routes, ARP, DNS, ping | lease state, tables, one pending query, cache | packets, waits, retries | interface, shell | lost, late, repeated packets | the lease is kept and routed; an answer fits its query |
| Keyboard | modifiers, circular buffer, semaphore | interrupt, read, clear | semaphore, shell | units and characters drift apart | keys in order, each one read |
| Shell, configuration files | line, history ring, files | editing keys, netconf, save, restart | VFS | files are never truncated | what is saved is read back |
| Mouse, GUI | one window, event queue | pointer moves and clicks | interrupt | none: all in one handler | |
| Consoles, rendering, fonts, PCI, ATA, MMIO, boot | | | | I/O and pure code | |

All rows but the last two are modelled. Each part has an entry in
`PROJECT.json`, with what is left out of it.

## Modules

### Synchronisation (`src/src/kernel/sync.c`)

- `KernelThreads` declares the threads and the null pointer.
- `Semaphore`: `count`, the wait list, the place of each thread, and deadlines
  against `ticks`. An action is a call up to its `scheduler_schedule()`. A woken
  thread tests the count again in a later step, so others may overtake it.
- `Mutex`: owner, recursion, wait list and `priority` of each thread, for the
  types NORMAL, RECURSIVE and ERRORCHECK. `Lock` is the abstract lock it implements.
- `CondVar` composes the condition variable with the mutex and with clients that
  follow the kernel's own test in `shell/commands.c`.
- `RWLock` has both preferences, `rwlock_upgrade` and `rwlock_downgrade`.
  `ReadersWriter` is the abstract lock it implements.

### Threads and processes (`thread.c`, `process.c`, `workqueue.c`)

- `Scheduler` keeps the run queues and the sleep queue as the code does: heads,
  tails and the links `sched_next` and `sched_prev` of each thread. A workload
  record says which operations a run explores, so that each stays small.
- `Lifecycle` covers process creation with a failure possible at each stage,
  `thread_exit`, `thread_join`, and the reaper at the level of its loads and
  stores. `heap` holds the objects a program still owns, and `overfreed` records
  every object freed when it was not allocated.
- `WorkerPool` has submitters, workers and the shutdown, preempted between steps.

### Network (`tcp.c`, `syscall.c`, `httpd.c`)

- `Tcp` is the socket table and the receive path. Peers send any segment at any
  time, so lost, repeated and reordered segments are all included. Whether ARP
  has resolved a peer is an input, and an unresolved peer makes a send fail.
- `Sockets` is a server program on the system calls, with their waits. Its policy
  is to serve one connection at a time or to accept several.
- `Httpd` is the server thread, interleaved with the interrupt, and start and stop.

### Storage (`kheap.c`, `ext2.c`, `vfs.c`, `klog.c`)

- `KHeap`: blocks by address with their `next` links; `live` says who owns which
  block. `krealloc` takes two steps, one per call of the allocator it makes.
- `Ext2`: the disk, the counters and inodes cached in memory, and the log file.
  An operation yields the list of disk states after each sector write. It either
  completes or is cut after any of them and the volume is mounted again.

### Memory (`pmm.c`, `vmm.c`, with `process.c` and `elf.c`)

- `Frames`: the bitmap is built from a memory map as `init_pmm_limine` does. The
  shell's thread creates processes, page by page and table by table, and the
  reaper gives them back. `pmm_alloc_block` and `pmm_free_block` are two steps
  each, a load and a store, as the -O2 build makes them.

### Keyboard and shell (`keyboard.c`, `shell.c`, `config.c`)

- `Keyboard`: the handler with its modifiers, prefix byte and dead key, and the
  reader at the level of its loads and stores. The handler may run between any
  two of them.
- `Shell`: the line editor, the history ring and the files of `/config`. Files are
  sequences of small cells, and are parsed and written the way `config.c` does.
  A restart loses everything but the files.

### Cards and client protocols (`drivers/net`, `drivers/virtio`, `net`)

- `Rings`: the three cards, each as a process that reads and writes its rings at
  any time, against the interrupt handler and a thread. A board record says which
  card, on which interrupt line, and how many frames, sends and polls.
- `NetClient`: DHCP, routes, ARP, DNS, ping, and the name look-up of `wget`. The
  set `wire` holds every answer that a request has caused. Each may be delivered
  never, once or many times, in any order. A scene record says what is typed.

`MCSync`, `MCScheduler`, `MCKernel` and `MCNet` instantiate these for TLC. Where
one of them holds several parts that share no state, Init chooses the part that a
behaviour exercises and the others keep their initial state.

## Runs

| Run | Result | What it asks |
|---|---|---|
| `sync` | passes, 72,571 states | Three threads on each primitive, and the keyboard. Units and counters are exact; no wake-up is lost; boosts last as long as ownership; the mutex implements `Lock` and the read-write lock `ReadersWriter`; every waiter is woken; keys come out in order, each one is read, and no modifier sticks. |
| `sync_timeout` | violated | Does a timed wait end at its deadline? |
| `sched` | passes, 129,477 states | Four workloads. Run queues hold exactly the READY threads and the sleep queue exactly the sleepers, in order; the highest is picked; sleepers wake on their tick; aging lets every READY kernel thread run. |
| `sched_kill` | violated | Do sleepers still wake on time when one of them is killed? |
| `kernel` | passes, 147,422 states | Exit, join, reaper and failing process creation; the worker pool with its shutdown; two threads on the heap; a volume filled, emptied and crashed after any write; history and settings saved and read back; page tables built and freed while memory runs out. |
| `reaper` | violated | Is every zombie reaped? |
| `reclaim` | violated | Is a process freed once its thread is reaped? |
| `frames_race` | violated | Is the bitmap exact when `pmm.c` is preempted inside a function? |
| `netconf` | violated | Does a restart apply what `netconf` saved? |
| `net` | passes, 126,624 states | A server program and the HTTP server against arbitrary segments; the three cards; and the client protocols on a network that loses, repeats and delays. |
| `net_recv` | violated | Does `recv` return when data arrives? |
| `net_accept` | violated | Does a descriptor own its connection when a server accepts twice? |

The eight violated runs each show one place where the code does not do what a
comment or a message of the repository says:

1. `sem_timedwait` marks its caller SLEEPING and never puts it on the sleep
   queue, so the deadline passes unnoticed (`sync.c:398`).
2. `thread_kill` puts a sleeper on a run queue without removing it from the
   sleep queue. Both use `sched_next`, so later sleepers are cut off
   (`thread.c:730`).
3. The reaper tests the zombie list and then waits. A signal between the two is
   lost (`thread.c:1687`).
4. A new thread may run, exit and be reaped before its creator sets
   `thread_count` to 1. The counter then wraps and the process is never freed
   (`process.c:987`).
5. `pmm_free_block` loads a byte of the bitmap, clears a bit and stores the byte,
   with interrupts enabled. An allocation in between is undone (`pmm.c:280`).
6. `netconf` saves to a file of the interface and says "Reboot to apply changes.";
   the boot reads another file (`config.c:474`).
7. `sys_recv` waits with a NULL predicate, and the wait loop never leaves
   without a predicate (`syscall.c:803`).
8. `tcp_find_ready_client` also returns connections that were accepted already
   (`tcp.c:296`).

The passing runs are restricted where one of these would hide everything else.
`sched` kills no sleeper. `kernel` lets the reaper and the shell interleave
between calls of `pmm.c` and not inside one. `net` serves one connection at a
time. `sync` has timed waits, and asks nothing of their end.

### Bounds, and why they are enough

- Three threads per primitive: one holds, one waits, one overtakes. `MaxPosts`,
  `MaxTick` and `MaxDepth` cap the unbounded counters. Depth 3 has an inner and an
  outer nested unlock. The semaphore starts with 1 unit and a maximum of 2, so
  both blocking and a refused post happen.
- The scheduler has `main`, `idle` and two more threads: three in one queue give
  a head, a middle and a tail to unlink. The slices are 1 to 3 ticks and the
  aging threshold is 1 to 3 instead of 100, so that both fall due.
- Two programs, one kernel thread and one joiner: two zombies are needed to lose
  one from the list. `thread_count` is counted modulo 4 instead of 2^32; it wraps
  below zero in the same way.
- Two workers and two items show order, overtaking and a worker left waiting.
- Two peers, two sockets that may grow to three, a receive buffer of two bytes,
  sequence numbers modulo 4 that start at 3: the table fills, the buffer wraps
  and overflows, the sequence number wraps.
- A heap of 200 bytes with headers of 24 (the size of the structure) and requests
  of 1, 20 and 50: up to five blocks; splits, refusals to split, and merges on
  both sides.
- A volume of seven blocks in two groups, with two inodes per group, three slots
  per block and one direct block: both groups are used, the volume fills up,
  files need their indirect block, directories grow to a second block. One crash
  is explored.

- The keyboard buffer has three cells, so it fills with two characters and wraps.
  Five boards divide the keys: two letters with every call of the reader, then
  modifiers, the dead key, Caps Lock with an arrow, and Ctrl+C.
- A history of two lines of up to three letters wraps and is saved from its
  middle. Addresses have octets of three digits (see below).
- Memory of 22 to 26 blocks, with eight blocks per byte of the bitmap: the
  usable region is chosen so that memory runs out at each stage of the first or
  the second creation, or not at all. Two preemptions of a busy thread suffice to
  put the whole of one between two steps of the other.
- Rings of two or three descriptors; as many frames as go round each ring, or
  more than fit. Virtqueue indices wrap at 4 instead of 2^16. Twelve boards:
  each card with reception only, with sends, with answers, and with polling.
- Two DHCP servers, two names, an address on the link and one beyond the gateway,
  an ARP cache of one entry and a DNS cache of two. Two queries and two pings show
  late answers to the earlier one.

### Fairness

- A READY thread runs again: weak fairness of its next step. The scheduler's
  aging provides this for kernel threads (`NoStarvation` in `sched`).
- The timer keeps ticking: `FairSpec` of `Scheduler`, `SemTick` of `Semaphore`.
- Callers release what they hold: a condition on the callers of locks, stated for
  the lock liveness properties only. Under `tested = "mutex"` it reads
  `[]<>(owner # t \/ t is blocked)`.
- An interrupt that is pending is taken, and a driver that has begun goes on. The
  network delivers nothing by itself.
- Nobody is assumed to press a key, to post, exit, join, submit, send a segment or stop the
  server. A call that has begun goes on.

`MCSync` turns deadlock checking off: three threads that all wait for a post
that nobody owes them, or an owner that locks a NORMAL mutex again, really stop.
Everywhere else deadlock is checked. `Ended` in `MCKernel` lists the only states
in which a part may be finished. In `MCNet` the cards and the clients may stop
anywhere, because their bounds end them and a wire may stay silent; that cards
do not stop early is what `FramesHandled` says.

## Proofs

The theorems hold for any finite set of threads and any values of the other
constants that the named assumptions allow (`SemaphoreAssumption`,
`MutexAssumption`, `RWLockAssumption`, `PoolAssumption`, `LifeAssumption`,
`KeyboardAssumption`, `NetClientAssumption`, `TcpAssumption` and
`SocketsAssumption`; each is in the module that declares the constants). Each
safety theorem rests on an inductive invariant. What the invariant adds to the
property, and why, is below.

### Synchronisation (`SyncProofs`)

- Semaphore: types, `UnitsConserved`, `SemWaitListExact` and `SemNoLostWakeup`.
  Their conjunction is inductive. The wake-up property counts woken threads
  against units, so it needs the wait list to be exact: `sem_post` wakes the head,
  which must be a thread that is not woken yet.
- Mutex: types, wait list, `MutexNoLostWakeup`, `BoostUndone`, the action
  property `BoostKept`, and the refinement `ImplementsLock`. The invariant adds
  `DepthOne`: a mutex that is not recursive is never locked twice. Without it an
  unlock would not map to one release of the abstract lock.
- Condition variable: `NoMissedBroadcast`, the wait list, and that the clients take
  only steps of the mutex (`CondVarUsesMutex`), which gives them mutual exclusion.
  `CVIInv` adds that what was broadcast stays true and that whoever waits is in
  the list, because `condvar_wait` enters it before it releases the mutex.
- Read-write lock: types, `CountsExact`, `RWWaitListsExact`, `RWNoLostWakeup`, the
  action property `WriterPreferred`, and the refinement
  `ImplementsReadersWriter`. The invariant adds `Holders`: a thread in a wait loop
  holds nothing and a writer excludes readers. The code tests counters;
  `CountsExact` turns them into the sets the rest speaks of.

### Threads, programs and the worker pool

- `WorkerPoolProofs`: types, `WorkExact`, and that a worker never dequeues from
  an empty queue before the shutdown. The invariant adds `Phases` (which flags and
  workers go with which phase of the pool), `QueueIsRest` (the queue is what was
  accepted and not taken) and `AcceptedOnce`.
- `LifecycleProofs` has three layers.
  - `JoinersExact`: `LifeIInv` adds that only threads that have exited reach the
    reaper, and that a program has no thread before the last stage of its creation.
  - `ExitListsExact`: `ListIInv` names the list of zombies as a sequence without
    repetition along the links (`ListIs`) and says where the reaper's own zombie
    is (`InHand`). `reaper_add_zombie` may push between the reaper's load of the
    head and its store; the store then cuts off the pushed zombies, and what is
    left is still a list.
  - `FreedExactlyOnce`: `MemoryIInv` says what each program holds. Up to the last
    stage this is a table (`HeldAt`, checked against the stages of both creating
    functions by `Leads`). Afterwards it depends on the creator, the thread and
    the reaper (`ProgramOK`); a thread that is reaped before its creator has set
    `thread_count` is the case that makes it hard.

### Keyboard (`KeyboardProofs`)

- `KeysInOrder`, for every size of the buffer. It says nothing of the time between
  the two stores of `keyboard_clear_buffer`, where interrupts still put characters
  in. The invariant adds `FromZero` for it: the new characters lie from index 0
  on, and stop short of the old `kb_tail`, so that the second store leaves a sound
  buffer.
- `ModifiersMatch`: `DecoderIInv` says what is left on the wire of the one key
  event under way, and whether its prefix byte has been seen (`Arriving`).

### Network

- `NetClientProofs`: `ConfigurationHolds`, `NamesAnswered` and `RepliesCounted`,
  with any number of servers, hosts, names, queries and sessions, and with answers
  delivered late, repeatedly or never. `LeaseIInv` ties each message on the wire
  and the installed routes to the server that was asked. `NamesIInv` says
  that an answer which fits the pending query is about the name asked. Two scenes that the code
  fails (see the table at the end) are excluded in the statements: a static
  configuration in the first, `wget` with several names in the second
  (`WgetOneName`).
- `TcpProofs` holds the lemmas about one socket and about the table: the
  arithmetic of the circular buffer, what each function of `tcp.c` does to a
  socket (`SocketOK`), and that each call changes at most one slot (`Becomes`).
- `SocketsProofs`: `HandshakeExact`, `StreamExact`, `FdsDistinct` and
  `AcceptorWoken` for a program that serves one connection at a time
  (`SerialSpec`; with several, the code breaks `FdsDistinct`, run `net_accept`).
  `SocketsIInv` adds that every socket is well formed, that a descriptor which no
  reallocation has made stale holds a socket in use, a server's one without a
  peer, and that a program waiting in `accept` has no connection open and waits
  at a listening socket. The bound on the table, the buffer and the range of the
  sequence numbers are arbitrary.

`ListLemmas` has the facts that several of these use: appending to a wait list,
taking its head, pushing and dropping, and the least element of a set of numbers,
from which the proofs that need an induction get it.

### Only model-checked

Liveness under fairness is beyond the proof system. The queues of the scheduler,
the kernel heap, ext2, the shell's files, the bitmap of frames and the rings of
the cards are checked on small instances only. Several of these are defined by
recursion over links or directories, and what a recursive definition computes
for every input is out of the prover's reach.

## Limits of the models

- Hardware is external: the disk writes a sector atomically and in program
  order, an interrupt handler is not interrupted (the PCnet's excepted, which
  enables interrupts by itself), a context switch is exact.
- `Ext2` has no doubly indirect blocks, no failing disk, and one caller at a time
  besides the log. After a crash its properties are stated for directories of one
  block: an entry merged over a block boundary and split again takes two writes,
  and a crash in between revives the removed name.
- `KHeap` models callers that hold `heap_lock` to the end; an interrupt that
  allocates while a thread holds the lock would spin forever.
- `Scheduler` changes the nice value of a READY thread only to one of the same
  priority, as all callers of `thread_set_nice` do.
- `Tcp` leaves out the states nothing reaches, and growing the socket table does
  not move the sockets, whereas the code frees the old array under its users.
- `Frames` assumes that the boot loader maps nothing below the higher half. The
  frames of user pages are never freed by the code (`vmm.c:421`), and the model
  counts them as in use for ever.
- `Keyboard` has one reader.
- `NetClient` does not count time: any wait may end with its timeout.

### Configurations that are known to fail

The models accept these; the passing runs leave them out, because a property
that the code breaks in one known way shows nothing more. Each was found with
TLC on the module named.

| Module | Configuration | What happens |
|---|---|---|
| `Rings` | e1000e, a thread sends while the handler answers | `tx_cur` is read again after the descriptor was chosen: a frame reported as sent is not (`e1000e.c:399`, `e1000e.c:436`) |
| `Rings` | e1000e, as many sends in flight as descriptors | the tail reaches the head and the card takes the ring for empty |
| `Rings` | a card with its interrupt enabled and polled too | both handle the same frame (`kernel.c:375`) |
| `Rings` | e1000e on another line than 11 | nobody services it (`interrupts.s:459`) |
| `NetClient` | `wget` of a cached name while an older query is pending | the pending query is closed with its old identifier, and the late answer fits it (`dns.c:271`) |
| `NetClient` | a static configuration | no route is installed, so nothing is sent (`config.c:343`) |
| `Keyboard` | the right Ctrl key | its release is ignored: Ctrl stays on (`keyboard.c:209`) |
| `Shell` | settings whose text is shorter than what the file held | the tail of the old text is read too: files are not truncated |

### Not modelled

- Mouse and GUI. The `gui` command starts a demonstration. All of its handling
  runs to the end inside the mouse interrupt, which pushes at most five events
  and drains them at once. `events.c:102` passes clicks to the menu bar only above
  its lower edge, so no item of an open menu can be chosen and the only window is
  the one `start_gui` makes. What is left is the geometry of one rectangle.
- Consoles, rendering and fonts: output without state that another part reads.
  The font tables are about 108,000 of the 155,571 lines of the repository, which
  is why the lines mapped are a small share of all lines.
- PCI, ATA, MMIO and interrupt controllers: register I/O.
- The HTTP client beyond its name look-up: `tcp_handle_packet` has no case for
  SYN_SENT, so a connection that the kernel opens is never established.
- Parsing and printing (ELF headers, HTTP requests, commands that only print).

### Hazards without a property

`PROJECT.json` lists the main hazards with the properties that cover them. These
others were met while reading the code; no property is about them:

| Where | What |
|---|---|
| `sync.c:165` | an inherited priority is computed from the waiters at entry only |
| `sync.c:526` | a thread of a process leaves `condvar_wait` while it is still listed |
| `sync.c:870` | with writer preference a stream of writers keeps readers out |
| `thread.c:700` | a joiner tests the state of a thread the reaper may have freed |
| `workqueue.c:141` | a failed creation frees the pool under workers that still run |
| `tcp.c:249`, `tcp.c:803`, `tcp.c:903` | a slot taken by thread and interrupt; acknowledged bytes that were dropped; sockets that are never freed |
| `httpd.c:456` | a server killed after five seconds keeps its port and perhaps its lock |
| `kheap.c:183`, `kheap.c:197` | a second `kfree`; coalescing stops after 10000 blocks |
| `vfs.c:282` | a closed node is not freed |
| `ext2.c:796`, `ext2.c:1015`, `ext2.c:1344`, `ext2.c:1710` | second-level block linked before it is zeroed; stale inode copies; a block lost when one is left; directories are never freed |
| `pmm.c:95`, `vmm.c:421`, `vmm.c:486` | the last frames are never used; mapped frames are never freed; a failed mapping is reported as success |
| `virtio_net.c:107` | a used buffer that is too short is not put back |
| `dhcp.c:448`, `icmp.c:96`, `icmp.c:405` | nothing is sent again after a lost message or a NAK; the sequence of a reply is not compared; the continuous ping sends each echo twice |
| `syscall.c:290` | a program that polls the keyboard is a second reader |

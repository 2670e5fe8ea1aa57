# A TLA+ verification of the operating-system core

This directory models, model-checks and proves properties of the C programs under `src/`: a
user-level thread library (`src/Level - 2`), a virtual memory manager (`src/Level -3`) and a FUSE
file system (`src/Level - 4`), with a few small exercises (`src/Level - 1`).  The programs are
separate: no level calls another one.

Every definition is written from the C source.  `PROJECT.json` maps each to the lines it models,
and lists the components, the hazards of the code, the runs, the findings, the mutants and the
theorems.

## 1. Inventory

### Thread library - `Level - 2/worker.c`, `worker.h`

| | |
|---|---|
| State | tcbs (status, `waiting_thread`, priority, time used, context), one node per tcb, `ready_queue`, `waiting_queue`, `MLFQ_queue[]`, one `wait_queue` per mutex, `running_thread`/`running_node`, `interrupt_disabled`, `thread_count`, the mutexes' `is_locked` and `owner` |
| Operations | `worker_create`, `worker_yield`, `worker_exit`, `worker_join`, `worker_mutex_init/lock/unlock/destroy`; `interrupt_handler` on SIGPROF; `schedule` with `sched_rr` or `sched_mlfq` (chosen when compiled) |
| Interaction | One CPU. A call or the handler swaps to the scheduler's context, which chooses a thread and resumes it. All lists are linked through the ONE `next_node` field of the nodes, so two lists may share it |
| Hard | A signal handler that may fire after any statement while the flag `interrupt_disabled` is 0, also while the scheduler runs; lists changed by several statements; the flag cleared on some returns and not on others; wakeups; threads that free each other's tcbs |
| Correct if | mutual exclusion; lock and join return when they should and never before; no READY or BLOCKED thread is forgotten; each level of the scheduler is a FIFO; no internal "something went wrong" exit; no freed tcb is read |

### Virtual memory manager - `Level -3/my_vm.c`, `my_vm.h`

| | |
|---|---|
| State | a physical memory of frames, two bitmaps (frames and virtual pages), a page directory and page tables inside that memory, a TLB (a list with head, tail and length, and two counters of hits and misses), one lock |
| Operations | `t_malloc` (with `set_physical_mem`, `get_next_avail`, `page_map`), `t_free`, `put_value`, `get_value` (with `translate`), `mat_mult`; `add_TLB`, `check_TLB`, `arrange`, `delete_from_tlb`; `set_bit_at_index`, `unset_bit_at_index`, `form_virtual_address`, `get_next_page` |
| Interaction | `t_malloc` takes virtual pages and frames and calls `page_map`, which may take a frame for a page table; `put_value` and `get_value` translate page by page through the TLB; each of the four calls holds the lock |
| Hard | page tables come from the memory they map; freed pages must leave the TLB; a tail pointer that is not moved with its node; frames cleared by `t_free` only; frames running out between two rounds; returns that keep the lock; bitmap arithmetic; the first address, 0 |
| Correct if | no frame has two uses; the TLB agrees with the tables and keeps within its length; what was put is what is got, and nothing else changes; no word is followed that is no address; every call gives back the lock |

### The variant with sub-page allocation - `Level -3/my_vm_internal_fragmentation.c`, `.h`

| | |
|---|---|
| State | as above, and a list of partly used pages with the bytes taken of each, and for each such page a list of allotments (first and last byte, free or not) |
| Operations | the same calls; `check_partial_list`, `add_partial_page`, `update_partial_list`, `delete_partial_node`, `add_alloc_entry`, `is_part_page_valid`, `free_part_page` |
| Interaction | `t_malloc` of less than a page looks in the list first; the rest of an area's last page becomes available to others; `t_free`, `put_value` and `get_value` test every page of a request against its allotments |
| Hard | a page shared by areas that are freed in any order; three counts of the same bytes (taken, allotments, bitmap); offsets computed in different ways |
| Correct if | areas never overlap; a page goes with its last area and not before; a request is met inside an area and nowhere else; nothing is left when everything is freed |

### File system - `Level - 4/rufs.c`, `rufs.h`, on the block device `block.c`

| | |
|---|---|
| State | one disk file: superblock, inode bitmap, block bitmap, inodes, data blocks (directory tables, index blocks, file data); a copy of the superblock in memory; one mutex |
| Operations | `rufs_init` (with `rufs_mkfs`), `rufs_destroy`, `getattr`, `opendir`, `readdir`, `mkdir`, `rmdir`, `create`, `open`, `read`, `write`, `unlink`; `truncate`, `flush`, `release`, `releasedir`, `utimens` are stubs |
| Interaction | FUSE calls the handlers, possibly from several threads; each handler holds the mutex from its first statement to its last. The kernel looks up every prefix of a path first |
| Hard | calls that take an inode, a block and a slot one after the other and may fail at each; directories and files that reuse them; direct and indirect pointers; a mount of an existing disk |
| Correct if | the bitmaps, the inodes and the pointers agree; the directories are a tree; nothing is lost by a call that succeeds; what is read is what was written; what was there before a remount is there after it |

### Small programs - `Level - 1`

`threads.c` (two pthreads increment one counter), `bit-shifting.c` (top bits, set and get of a
bitmap's bits) and `signal.c` (changes a saved program counter).  None is modelled, section 7.  The
benchmarks and tests are clients; the thread benchmarks gave the programs of `MCWorker` their
shape.

## 2. Modules

| Module | Models | Status |
|---|---|---|
| `NodeQueue` | the linked lists: `enqueue` (in its two assignments), `pop_from_queue`, `delete_from_queue`, `find_thread`, as operators on a heap `[next, queue]` | done |
| `Worker` | the thread library: every call, the handler and both schedulers | done |
| `WorkerProps` | its properties and refinement mappings | done |
| `MutexSpec` | abstract: who is inside which critical section | done |
| `LevelQueues` | abstract: a FIFO of runnable threads per level; round robin is the case of one level | done |
| `MCWorker` | client programs and bounds for TLC | done |
| `WorkerProof` | what the queue operations preserve; types, mutual exclusion and its refinement, how an owner is lost, signals | done |
| `SchedulerProof` | lists, and what the queue operations and loops do to them; the invariant of programs that fork and join, and the queue properties that follow | done |
| `Rufs` | the disk and the FUSE operations, requests that span blocks among them | done |
| `RufsProps` | its properties and the mapping to `FileTree` | done |
| `FileTree` | abstract: a tree of directories and files | done |
| `MCRufs` | instances for TLC | done |
| `RufsDiskProof` | the invariant of a disk, and what the helpers (bitmaps, inodes, tables, pointers) preserve of it | done |
| `RufsProof` | the inductive invariant of the calls, and the properties that follow | done |
| `RufsTreeProof` | lookup, the refinement of `FileTree`, what calls that succeed do to the tree, and what they may lose | done |
| `Tlb` | the TLB's list: `add_TLB`, `arrange`, `delete_from_tlb`, as operators on a record | done |
| `VirtualMemory` | `my_vm.c`: frames, tables, bitmaps, the four calls and the lock | done |
| `VirtualMemoryProps` | its properties and the mapping to `PageStore` | done |
| `PageStore` | abstract: pages that appear with zeros, are written, and disappear | done |
| `MCVirtualMemory` | instances for TLC | done |
| `SubPages`, `SubPagesProps`, `MCSubPages` | what `my_vm_internal_fragmentation.c` adds | done, but for requests that find no pages and what follows an area that reaches behind its page |
| `SubPagesProof` | the inductive invariant of areas and allotments, and the properties that follow | done |
| `VirtualMemoryProof`, `PageStoreProof` | what the functions on the TLB preserve, and the inductive invariant; the refinement, the action properties and whole requests | done |

Composition: `Worker` extends `NodeQueue`; `WorkerProps` extends `Worker` and instantiates
`MutexSpec` and `LevelQueues` under refinement mappings; `RufsProps` extends `Rufs` and instantiates
`FileTree`; `VirtualMemory` extends `Tlb`, and `VirtualMemoryProps` instantiates `PageStore`.  The proof modules
extend the properties of their component, and build on each other: `RufsTreeProof` on `RufsProof` on
`RufsDiskProof`, `PageStoreProof` on `VirtualMemoryProof`, `SchedulerProof` on `WorkerProof`.

### How `Worker` corresponds to the code

* One CPU.  `cpu` says what executes: the running thread, or a part of the scheduler: `window`
  (from `schedule()` to the point where the policy has looked at the previous thread), `rr_pick`,
  `mlfq_boost`, `mlfq_pick`, `mlfq_run`, `fallback` (no thread is ready), `resume` (`setcontext`).
* `pc`, `ip` and `local` are a thread's place in a call, the index of the call in its program and
  the local variable that survives a switch.  `Program` is a constant: the calls of each thread.
* An action is a stretch of a call that no tick can split, or, where signals are enabled, one
  statement that touches shared state: `worker_mutex_lock` is ten actions, and `enqueue` is
  split in two where it runs with signals enabled.  Three stretches are coarser than the code: a
  turn of the loop of `unblock_threads`, the making of a tcb, and the stages of `sched_mlfq`.
  What a tick inside those would break is listed as a hazard where we know of it.
* `Tick` is the handler in a thread's code and `TickInScheduler` the handler in the scheduler's.
  The constant `TickPoints` says where ticks may come: in program code (`user`), in the library,
  in the scheduler.  The real timer knows no such limits.  The code breaks under ticks in the
  library or the scheduler (section 5), so most properties hold only for `{"user"}`: these
  runs say what the code guarantees as long as no tick hits a library call.  Mutual exclusion and
  the way an owner is lost are checked, and proved, with no such limit, and three configurations of
  section 5 show what ticks in the library do.
* A read of a freed tcb, the use of a mutex queue that `worker_mutex_destroy` has freed, or a
  resumption of a context that was not saved by its thread, ends in `process = "undefined"`; an exit
  with an internal error in `"aborted"`; a loop over a cyclic list is a step that changes nothing.
* The flag test of the lock, `__sync_lock_test_and_set`, is one step.
* `in_cs` and `joined` are history: which locks and joins returned 0.
* Not modelled: return values, turnaround and response times, the interval of the timer (a tick
  may come at any time; `time_on_cpu >= allotment` is a choice that stays true until it is reset).

### How `Rufs` corresponds to the code

* `disk` holds the two bitmaps, the inodes and the data blocks.  A block is zero, a directory
  table, an index block or data.  `fs` says whether the file system is mounted, and whether
  through its superblock or through zeros; `ret` is the result of the last call.
* Each handler is one action, since it holds the mutex throughout; `write` is one action for each
  round of its loop (`WriteRound`), of which the first is in `rufs_write` and the others are
  `WriteNext`.  Between them, `call` holds the arguments and the copy of the inode, which goes to
  the disk with the last round.  The order of a
  handler's steps shows in what remains when a later step fails: `mkdir` that finds the directory
  full has taken an inode and a block, `write` that finds no data block has taken an index block.
* Offsets and sizes count words, `BlockSize` to a block; a word is a client's value or zero.
  `Piece` is the part of a request that one round copies, and `PieceStart` where it begins: in
  the code the buffer's address stays the same in every round, and so do `Merged` (write) and
  `CopiedLast` (read, whose rounds change nothing on the disk and are one action).
* The kernel's part: it sends no call for a path below a file, no `rmdir` for a file, no
  `unlink` or `write` for a directory.
* `Clients` are the kinds of clients, each with its paths, its writes and its reads; `client` is
  chosen by `Init` and stays.  The constant `RemovesFullDirs` says whether clients call `rmdir` on
  directories with entries; it is FALSE in the passing run.  A write may begin anywhere up to the
  size, as in the code, so files get holes.  Requests that span blocks are ordinary: FUSE reads ahead, and writes whole requests with the option `big_writes`.
* `Unmount` also stands for the end of the process, between two calls or two rounds of a write.
  Inside the other calls it is not modelled: as the next mount does not read the superblock, the
  disk is never used again.  After such a mount, a call that allocates writes over the first blocks
  of the disk (`Misuse`), and the model stops there.

### How `VirtualMemory` and `Tlb` correspond to the code

* The unit is the word, of the width of a page table entry: a frame holds a page table or
  `TableEntries` words of data.  A frame number stands for the frame's address; a number that is
  not a frame, or a value of a client, can still stand where the code expects an address, and
  following it ends in `Wild`.
* A call takes the lock in its first action (`TMalloc`, `TFree`, `Access`), which also makes the
  tests before the loop, and is refused there while memory is not initialised; then one step per
  round (`MapPage`, `UnmapPage`, `CheckPage`, `CopyPage`); `Return` unlocks.  Since all shared state is touched under the lock, the calls of
  several threads are the calls of one client that chooses any next call.
* A return that does not unlock ends in `lost`; the read through the null pointer that
  `find_free_physical_page` returns, in `Crash`.
* `get_next_avail` finds no run of free pages: its NULL goes on as page 0, as in the code.  The
  first area that is found has the address 0 as well.  A request for one page asks for two free
  pages (`Starts`), since the search begins its test one page late.
* The TLB's nodes are a sequence.  `arrange` and `add_TLB` do not move the tail pointer, so `tail`
  is part of the state, by the page of its node; where it points to freed memory, both outcomes
  of the test against a new node's address are possible (`Freed`).
* A bitmap is the set of its bits.  `unset_bit_at_index` clears nothing beyond the first byte;
  `ByteBits` scales the 8 bits of a byte.
* One value is written by each `put_value`.  `malloc` of the bitmaps and of a node never fails.  The
  counters of hits and misses and `mat_mult`, a loop of `get_value` and `put_value`, are left out.
  Sizes are numbers of pages, rounded up already (`my_vm.c:349`, 407), and never 0.
* `get_next_page` relies on a shift by the width of the word, which C does not define; with
  the flags of the Makefile (`-m32 -g`) it yields the offset 0 that is needed.
* `FreesScattered` is FALSE in the passing run and in the proofs: clients then free only areas in
  one page table whose frames follow one another (`Regular`), which `t_free` takes for granted.  What
  happens otherwise is the finding `v_vm_free`.

### How `SubPages` corresponds to the code

* The unit is the byte.  Frames, tables and the TLB are as in `VirtualMemory` and are not repeated:
  `mapped` stands for the entries that are set, all in one page table.
* `t_malloc` is one action, `MallocPartial` or `MallocPages`; `t_free` is one action for its tests
  and one per round of its loop.  `put_value` and `get_value` change none of these variables; they
  are the tests `PutWrites` and `GetReads`, which a property compares with the areas.
* A request for exactly what seems left of a page is accepted (890), and the byte that is skipped between
  allotments (891) puts its last byte into the next page.  `spilt` holds that byte, and the model ends there
  (`Ready`, `Stopped`): what the calls then do to two pages whose records contradict each other is not
  modelled.  Such an area is reached from every state that has the space for it.
* `put_value` through the null pointer of a page that is not mapped (512-519) counts as not written.
* Requests that find no pages, which go on at page 0 as in `my_vm.c`, are left out.

## 3. Runs

All runs check deadlock: `Stopped` is the only action of a state where the program has ended or a
bound is reached.

| Run | Shows | Bounds |
|---|---|---|
| `rr_mutex` | `MutualExclusion`, `MutexInv`, `MutexRefinement`, `OwnerKept` whatever the timer does | three threads, one mutex, `Unusual` calls (a second lock, an unlock by a stranger, exit with the mutex, destroy), ticks everywhere; 132 000 states |
| `rr_join` | `JoinWaits`, `NoFault`, `BlockedQueued`, `SignalsOn`, and under fairness `ReadyRuns` | three workers that compute and yield, ticks in program code |
| `mlfq_lock` | `TypeOK`, `ReadyQueued`, `QueuedReady`, `NoLostWakeup`, `QueueRefinement`, and under fairness `LockGranted`, `Terminates` | two workers that lock once, two levels, boost after two cycles, ticks in program code; 22 800 states |
| `rufs_calls` | `TypeOK`, `BlocksOwned`, `OneTree`, `FreeIsZero`, `PartsReadBack`, `LosesOnlyOnFailure`, `TreeRefinement`, `CallsDoAsSaid` | 3 inodes, 5 blocks of two words, 4 entries, files of 3 blocks (one direct, an index of two) and sizes up to 5, two values. Two kinds of clients: builders of trees (two names, two levels, no path with the same name twice in a row, whole blocks of one value) and users of one file (requests of one or two words at any offset, within a block and across two), the process ending between any two rounds; 22 100 states, names and values symmetric |
| `vm_calls` | `TypeOK`, `FramesOwned`, `FreeFramesZero`, `MallocMapsArea`, `AccessesWholeRequest`, `TlbAgrees`, `NoWildPointer`, `LosesFramesOnlyThere`, `Refinement`, `ChangesOnlyItsOwn`, and under fairness `MutexGivenBack` | 4 pages in two tables of two entries, 6 frames, TLB of 3, requests of up to 3 pages, bytes of 4 bits, one value; 304 000 states, the longest of the runs |
| `sub_pages` | `TypeOK`, `AreasApart`, `PartialPagesLive`, `RequestsWithinAreas`, `NothingKept` | 4 pages of 4 bytes, requests of up to 9 bytes, bytes of 3 bits; 18 100 states |
| `v_*` | `JoinWaits`, `NoLostWakeup`, `OwnerIsHolder`, `PathsStay`, `FramesOwned`, `NoOverlap` violated, section 5 | the smallest instance that shows it |

Why the bounds are enough.  Two workers and main give every pairwise race for a mutex, with a
thread to be forgotten; three workers give a waiting queue with a middle.  `NumThreads` is the
number of threads the programs create, so `CreateTcb` never meets it.  `Nodes` has two more nodes
than threads: `Fallback` makes one for main each time nobody is ready.  Two MLFQ levels show
both the loop over levels and the boost.  The file system's instance lets inodes and blocks run
out in every call and uses files on both sides of the direct pointers, two files at a time, a
directory in a directory, and slots, inodes and blocks that are used again.  Blocks of two
words let a part of a block be written before and after the rest, and a request of two words cross
from the direct block to the index, and from one pointer of the index to the next.  A write of two
blocks runs out of space in its second round, because a `mkdir` that fails leaks a block.  A size of 5 is what a file of two
blocks reaches when one is overwritten, and lets a write begin behind its blocks.  A second
round that finds no direct pointer free (`rufs.c:1119`) needs two of them and is not reached.  With
two names a directory of four entries is never full: `rufs_full.cfg` has directories of one name, where
`mkdir` and `create` fail at `rufs.c:373`, and `OneTree` and `TreeRefinement` hold.  Names are
symmetric, as the code never orders them, and values are, as it never looks at them.  The memory of `vm_calls` holds the directory, two page
tables and three pages, so that frames run out in the first round, in a later one, and for a page
table; two frames have bits that cannot be cleared; a TLB of three is full before all four pages
are cached; requests of three pages cross from one page to the next and from the last page to
page 0.  One value suffices, since every page begins with zeros and the code never compares values.
In `sub_pages` a page takes three areas, an area covers three pages, and exact fits reach behind a page.

Fairness (`FairSpec`).  The scheduler is weakly fair: it is straight-line code on its own stack.  A
thread is strongly fair: a tick may always come first, but a time slice is 20 ms (`worker.h:24`), far
longer than a call, so a thread that is given the CPU again and again makes its next step at one of
those times.  `LockGranted` and `ReadyRuns` allow for the end of the process: main may
return while workers are left.  For the memory manager only `Proceed` is weakly fair: a thread that
holds the lock runs straight-line code and goes on; no client has to make a call.

What the passing properties say about the code:

* `MutexRefinement`: the critical sections of the program, over all its interleavings, are those
  of an abstract mutex.
* `OwnerKept`: a thread enters a critical section as its owner, and there is one way to lose
  that: another thread is between the two statements of unlock that clear the flag and the owner.
  `v_owner_cleared` shows that this happens.
* `QueueRefinement`: no thread is lost, queued twice or overtaken on its level, and the CPU goes to the
  first level that is not empty.  It allows a thread to go down one level when it is queued again, as
  `L-2_report.pdf` describes, or to stay: the test in the code (`worker.c:494`) asks for a priority above the
  last level, so no thread ever goes down.  With the test corrected to `priority < MLFQ_LEVELS - 1`,
  `mlfq_lock` still passes, and threads then use both levels.
* `TreeRefinement` and `CallsDoAsSaid`: the tree that lookup shows is changed by one node per call,
  or by the words that a write names, and not at all by a call that fails before it stores a word.
  A file's content is what its pointers lead to, whatever its size says: a write of several
  blocks that fails after it has linked a block through an old index leaves words behind the size,
  which appear when a later overwrite makes the size grow.  `CallsDoAsSaid` asks a write for the
  right words only within a block, and then that they can be read back; across blocks the code
  stores wrong ones (section 5), and what is checked is that nothing else changes.
* `PartsReadBack`: a read within a block returns the words the file holds at its offset.
* `LosesOnlyOnFailure`: a call that succeeds leaves no inode and no block behind that is marked as
  used and owned by nothing, but for `unlink` of a file with a hole: it keeps exactly the blocks behind the
  first missing pointer of the inode or of an index block (`BehindGap`).  Calls that fail may lose what they
  took: the model has these leaks, and the other properties hold in spite of them.
* `Refinement` (of `PageStore`): seen through `Entry`, the calls are those of a memory of pages.  A page
  appears filled with zeros although `t_malloc` does not clear it, and a write reaches one page.
* `MutexGivenBack` names the only two ways to keep the lock: the end of physical memory, and a
  request within one page at an address that is not mapped.
* `LosesFramesOnlyThere`: frames leak (section 5), but only by the two defects it names, and
  `FramesOwned` holds in spite of them.
* `AreasApart`: two areas share no byte but `spilt`, which is the first byte of a page.
* `RequestsWithinAreas` says which requests the tests of the sub-page variant let through, and names
  two it gets wrong: byte 0 of a page after a free, and a read that runs into a shared page.

Each property of a passing run has a mutant: an operator beside the definition it changes, with
the change a slip in that code would make, which TLC finds to violate the property.

## 4. Proofs

### Thread library

The theorems of `WorkerProof` hold for every number of threads, nodes, mutexes and levels, every
program, both schedulers and ticks anywhere.  They rest on `WorkerAssumption` and
`NodeQueue`'s two assumptions about its constants: NULL is no node, and there are finitely many nodes.

* `TypeInvariant == Spec => []TypeOK`.  One lemma per group of actions, after the lemmas that say
  what the queue operators return.
* `MutexInvariant == Spec => []MutexInv`, the inductive invariant.  Mutual exclusion alone is not
  inductive.  It needs that a thread *holds* a mutex from its test-and-set on, before it is
  inside, up to the statement that clears the flag, after it has left (`Holds`, `OneHolder`); that
  the flag is set meanwhile (`HeldLocked`), so that a second test-and-set fails; and that `owner` names
  a thread only if it holds the mutex or is just about to clear `owner` (`OwnerHolds`), because
  `worker_mutex_lock` lets the owner in again and `worker_mutex_unlock` lets only the owner out.
  `ClearLeft` ties the place `unlock_clear` to the critical section that was left.
* `MutualExclusionHolds`, from `OneHolder`.
* `MutexesImplementSpec == Spec => MutexRefinement`: every step is an entry, an exit, or leaves
  `in_cs` alone.
* `OwnerKeptHolds == Spec => OwnerKept`, for ticks anywhere.  `MutexInv` says that `owner` names nobody but
  the thread inside; that it does name it is false (`v_owner_cleared`), and this is what is left: the
  only statement that takes the ownership from a thread inside is the second one of an unlock whose first
  has let that thread in.  The invariant needs that a thread about to be counted as inside is still the
  owner or has lost it in the same way (`AssertOwns`), and that a thread about to clear the owner has
  left (`OwnerLeft`).
* `SignalsOnHolds == JoinedOnce => (Spec => []SignalsOn)`, for ticks anywhere.  `worker_join` has a return
  that leaves signals off (249), taken by the second join of a thread, so programs are assumed to join
  each thread at most once, as the benchmarks do.  The invariant says that signals are off only while
  `sched_rr` chooses (`OffInPick`), and that a thread with a joiner was joined by a call already made
  (`JoinersCalled`), which leaves none for the bad return.

The theorems of `SchedulerProof` are about the queues.  What they state is false in general: a mutex
puts a node in two lists, a second joiner or waiter meets the defect of `delete_from_queue`, and a
tick inside `worker_create` finds a list half changed (section 5).  So they are stated for `ForkJoin`:
ticks come in the threads' own code; main and the workers create, yield and compute, workers exit, and main
joins threads that its earlier calls have made, any number of times and in any order.  `external_cal`
without its lock is such a program, and the one of `rr_join` is.  Within that they hold for every number of
threads, calls, nodes and levels, and both schedulers.

* `JoinWaitsHolds`, `NoFaultHolds`, `BlockedQueuedHolds`, `ReadyQueuedHolds`, `QueuedReadyHolds`, and
  `SchedulersKeepQueues == ForkJoin => (Spec => QueueRefinement)`.
* `ForkInvariant`: the inductive invariant `ForkInv`, which TLC found to hold under both schedulers before
  it was proved.  `QueuesInv`: there is a sequence of all READY threads but the one
  that is being made or dispatched (`Listed`), and the links of the ready queue lead through just these
  nodes, each once, to NULL (`IsList`); a thread whose `enqueue` has set the link and not yet the
  tail counts as appended (`Settled`).  `waiting_queue` holds main or nothing, all other queues are empty,
  and no thread leaves level 0,
  which is so only because of the demotion test (section 5).  `CpuInv` and `StatusInv` tie statuses to what the CPU executes, to the
  places in calls and to contexts.  `JoinInv`: while main is blocked, its target has not been freed and
  knows main as its joiner; that the target exists at all is a count of main's calls of `worker_create`
  (`Creates`).
* These need one another: the ready queue is never empty when a thread is chosen, because main is in
  it or waits for a thread that is (`SomeReady`); so `Fallback` is never reached, which would resume
  main in the middle of a join; so a join that returns has a terminated target.
* A loop over a queue is a recursive function of the heap.  That it reads exactly the nodes of the
  list and ends (`ChainOfList`, `LoopOfList`, `NodesOfList`) is proved by the least step at which it would
  not; `Enqueued`, `Popped` and `Woken` say what `enqueue`,
  `pop_from_queue` and `delete_from_queue` make of a list.
* For the refinement each lemma on an action says besides the invariant how the sequence changes
  (`ListStep`), so a step of the library is a step of `LevelQueues` with that sequence on level 0
  (`TopSteps`).

### Virtual memory manager

The theorems of `VirtualMemoryProof` and `PageStoreProof` hold for every number of frames, every
shape of the tables, every size of the TLB, of the bitmaps' bytes and of requests, and rest on
`VirtualMemoryAssumption`, `TlbAssumption` and `~FreesScattered`, the assumption about clients that
`t_free` itself makes.

* The first part shows of `add_TLB`, `arrange` and `delete_from_tlb`, for any tail pointer: the list stays
  well kept (no page twice, no more nodes than `length`, `length` within `TLB_ENTRIES`), and its
  pairs are among the old ones, save for the one added and never with the one deleted.
* `Invariance == ~FreesScattered => (Spec => []IInv)`.  `IInv` joins the invariants of the run, which
  need one another: a frame in hand is no page table because `FramesOwned` says all owned frames are
  marked; a new page is zero because of `FreeFramesZero`; an access goes to the page's own frame
  because of `TlbAgrees`.  What it adds: before the first `t_malloc` memory is zero (`Fresh`); only
  mapped pages are cached (`TlbMapped`), or `page_map` could make a cached translation false; mapped
  pages are marked (`MappedMarked`), so that `get_next_avail` does not find them; and how far the
  loops have come: the frame in hand is free and the rest of the area is unmapped (`Mapping`), the
  rest of the area still has frames that follow one another (`Unmapping`).
* The proof reads `FramesOwned` as a tree (`PageTree`): `MapPageEntries` and `UnmapPageMemory` say
  that a round changes one entry, which is where tables kept in the memory they map could go wrong.
* `TypeCorrect`, `FramesHaveOneUse`, `FreeFramesStayZero`, `TlbIsCoherent`, `NoWildPointers` and
  `MallocReturnsMapped` are its conjuncts.
* `ImplementsPageStore == ~FreesScattered => (Spec => Refinement)`: a round of `t_malloc` is a `Map`
  or a stutter, one of `t_free` an `Unmap`, one of `put_value` a `Write` or a stutter.
* `OthersWordsKept` and `FramesLostOnlyThere` are the two action properties, from the same lemmas.
* `RequestsAreWhole == ~FreesScattered => (Spec => []AccessesWholeRequest)` needs how far the copying
  loop has come (`Copying`): the words already copied are served, the buffer of a read holds as many as
  were, and the next one is in the page and at the offset at hand.  That steps from page to page with
  an offset computed anew, through two levels of tables, so half of the proof is arithmetic of pages.

### Sub-page variant

The theorems of `SubPagesProof` hold for every page size, number of pages, size of requests and of
the bitmap's bytes, under `SubPagesAssumption` alone.

* `Invariant == Spec => []Full`: `IInv` holds until an area reaches behind its page, and `AfterSpill` in the
  state where one does, with which the model ends.  `AreasApart` alone is not inductive: the code never compares areas,
  it only has three records of them, so the invariant says page by page what these have to do with
  the areas.  No byte has two areas (`Apart`); an area has a page to itself, which then has no
  allotments, or an allotment with its very bytes (`Known`); an allotment that is not free is that of an
  area (`Entries`); a page is mapped if and only if it is in use (`InUse`).  A node of the list has a
  count behind which no area begins or ends (`Nodes`), and it is there that `t_malloc` places the next.
  An area that goes on in a second page starts a page (`Placed`).  Between the rounds of `t_free` the part that
  is not freed yet (`Rest`) counts as an area, which is what makes the rounds preserve all of this.
* `AreasStayApart`, `PartialPagesStayLive`, `NothingIsKept`, `RequestsStayWithin` and `TypeCorrect` follow from it.
  That an area which reaches behind its page takes one byte more, and no more, is `Nodes`: what a node
  offers begins at most one byte too far.  `RequestsStayWithin` is about the states before that.

### File system

The theorems of `RufsDiskProof`, `RufsProof` and `RufsTreeProof` hold for every number of inodes, blocks,
entries and pointers, every block size and set of clients, under `RufsAssumption` and
`NoCallAssumption` (the value for no write under way is not a write), and
for files with holes.  All but `PartsAreReadBack` assume
`~RemovesFullDirs`: the code's test for an empty directory does not work (section 5), and a
directory removed with entries leaves them behind.

* `Invariant`: `IInv`.  Its body is `Good(d)`, in parts: everything in use is marked and each block has one
  use (`Owned`); pointers lead to blocks of the right kind, so a table is never read as an index
  (`Shape`); an inode that is not valid has no type (`Dead`); tables keep their first two entries, unique
  names, entries that are clear where they are not valid, a size that counts them, and together form a
  tree (`Tree1`); free blocks are zero (`FreeZero`), without which a new table would have entries and a new
  index pointers.
* Between the rounds of a write the disk itself is not `Good`: blocks are linked from the copy of the
  inode in memory and from nowhere else.  So `IInv` says it of `Virtual`, the disk with that inode written;
  and that the inode on disk has no pointer that the copy has not (`Fewer`), so the disk is good too
  when the process ends there, but for blocks that are lost.
* `RufsDiskProof` shows what each helper does to `Good`; in `RufsProof` each call is one lemma, with a case
  per return, also those that fail halfway.
* `TypeCorrect`, `BlocksAreOwned`, `DirectoriesAreATree` and `FreeBlocksAreZero` follow.  `PartsAreReadBack` needs no
  invariant of the disk and no assumption on clients: it is about the arithmetic of offsets.
* `ImplementsFileTree == ~RemovesFullDirs => (Spec => TreeRefinement)`.  `get_node_by_path` is a recursive
  function, which cannot be unfolded along a path of any length.  What it finds is therefore described
  as the end of a walk from the root (`IsWalk`, of which each path has one), and two lookups are compared by
  induction on paths, each prefix from the one before.  A new entry adds exactly one path because its inode had no other name; an
  entry that is removed had nothing below.
* For writes the invariant grows by `WriteKept`: through the copy of the inode, the file has its old words
  outside the request, and a client's words where the rounds so far went (`CallWords`); TLC found this
  to hold on the instance of `rufs_calls` before it was proved.  A round is then a `Write` of the words
  it stored in blocks the file already had, or a stutter; the last one writes the inode, and with it
  the words of all rounds appear.
* `CallsDoAsSaidHolds == ~RemovesFullDirs => (Spec => CallsDoAsSaid)`: the refinement allows a call any step
  of the tree; this says that a call that succeeds takes the one it was asked for.  The lemmas on nodes
  therefore name the path and the node that appears or goes, and a write within a block is one
  round, whose words are the request (`OneRoundWords`): the inode's size covers them and none of their
  blocks is missing, so they can be read.  For rounds of longer writes the invariant gains `PathKept`:
  the path of the write under way still leads to the inode it started with.
* `LosesOnlyOnFailureHolds == ~RemovesFullDirs => (Spec => LosesOnlyOnFailure)`.  What a call
  takes, the inode or table it writes leads to; what it gives back must be all that the node had, and
  a directory has its one table.  The loops of `unlink` stop at the first pointer that is -1 (1231, 1237), so
  they meet each block of the file or it is in `BehindGap`.  It needs no invariant beyond that of the
  refinement (`TInv`): clients may leave holes.  A round of a write that finds no block may leave an index
  block that it took first, which is a failure and may lose it; the call then ends and no later one
  sees the copy that had it.

### Only model-checked

* Liveness (`LockGranted`, `ReadyRuns`, `Terminates`, `MutexGivenBack`) is beyond the prover.
* Of the thread library, `NoLostWakeup`, and the properties of `SchedulerProof` for programs that lock:
  `mlfq_lock` checks them with one mutex and two workers.  With more waiters they are false (`v_waiter_dropped`),
  and in between the lists share links and `Fallback` resumes a blocked main.
* Of the file system, every property of `rufs_calls` is proved.

## 5. Where the code does not do what it says

Each of these is a run that TLC ends with a counterexample.

* `v_join_returns_early` - `worker_join` looks for its target in the ready queue only
  (`worker.c:235`), so it returns 0 for a target that is blocked on a mutex.
* `v_waiter_dropped` - `delete_from_queue` clears the link of the head (713) before it follows it
  (721): the rest of `waiting_queue` is lost, and a thread in it is never woken.
* `v_owner_cleared` - `worker_mutex_unlock` clears `is_locked`, then `owner` (345, 346): a thread that takes
  the mutex between them is inside without being its owner, and cannot unlock it.
* `v_rufs_paths` - a path that nobody removed is no longer found: a mount of an existing disk does not
  read the superblock (`rufs.c:553`), and the test whether a directory is empty reads a zeroed table
  (832), so `rmdir` takes what is below with it.
* `v_vm_free` - `t_free` zeroes each page's own frame (`my_vm.c:434`) and clears the bits counted
  from the area's first frame (430, 436).  Frames of one area need not follow one another: a page
  table may lie between them, and its bit is then cleared while it is in use.
* `v_sub_exact_fit` - a request for exactly what seems left of a page is placed one byte too far
  (`my_vm_internal_fragmentation.c:891`) and gets a byte of the next page, which another area has.

Further configurations show what the passing properties name as exceptions or leave to their
conditions; each is checked with `tlc -config <name>.cfg` on the module of its component (`MCWorker`, `MCRufs`,
`MCSubPages`) and ends with the counterexample.

* `v_mlfq_demotes.cfg`, `UsedSliceDemotes` - a thread that has used up its slice is queued on the level it
  was on (`worker.c:494`); `L-2_report.pdf` says that it "is placed one level down".  With the test
  corrected the property holds.
* `v_lock_tick.cfg`, `BlockedQueued` - a tick between the status BLOCKED (302) and `waiting_queue` (307) leaves a
  thread where no unlock looks for it.
* `v_create_tick.cfg`, `ReadyQueued` - a tick between the two assignments of `enqueue` (680, 681) lets the scheduler
  append at the old tail, and one of the two threads is in no queue.
* `v_join_twice.cfg`, `SignalsOn` - the second `worker_join` of a thread returns with signals off (249), so its
  caller is never preempted again.
* `v_rufs_rmdir.cfg`, `RmdirEmptyOnly` - the second half of `v_rufs_paths` alone.
* `v_rufs_read.cfg`, `ReadsWhatIsThere` - each round of a read copies to the start of the buffer
  (`rufs.c:1056`): the last block comes first, and the rest of the buffer is left as it was, though the
  full size is returned.  The test that reads a large file asks for a single block and looks at its first byte (`benchmark/test_cases.c:211`).  `rufs_write` has the same slip (1165), which `Merged` models.
* `v_rufs_holes.cfg`, `LosesNothing` - overwriting makes a file's size grow (1175), so a client can write behind
  the end and leave a hole, and `unlink` stops at the first (1231, 1237): the blocks behind it stay marked.
* `v_sub_byte0.cfg`, `StrangersRefused` - a freed allotment keeps the range of byte 0 (1048), which can then be
  written though it is nobody's.
* `v_sub_get.cfg`, `AreasReadable` - `get_value` tests each page with the size of the whole request (607): an area
  that ends in a shared page cannot be read as a whole.

Seen in the source, and not given a run of their own.

Thread library (`worker.c`): a tick between `enqueue` and `makecontext` (170, 175) resumes a context that is
not made; a tick in the scheduler saves the scheduler's context as the thread's (567); `return_values` is
indexed by the thread id without a test (208); an interval of 100 ms arms no timer (596); the queues
come from `malloc` and are not cleared (817); `worker_mutex_destroy` frees the queue of a mutex that threads
are about to use (373).

Memory manager (`my_vm.c`): the lock is kept on two returns (469, 535) and at the end of physical
memory the process reads through NULL (380, 275); the NULL of `get_next_avail` is ignored (362);
bits from 8 on are never cleared (761).  `L-3-Report.pdf` says the TLB replaces the least recently
used entry; the code replaces the head, which is the one used last (`add_TLB`, 128-137).  It also says that
no memory is allocated where no pages are found, and that `page_map` returns an error when frames
have run out; see 362 and 275.

Sub-page variant (`my_vm_internal_fragmentation.c`): the offset used to decide whether a page is full is
made of the wrong bits (935).

File system (`rufs.c`): the loops over `indirect_ptr` run to 16, and it has 8
entries (64); a read past the end returns nothing instead of the part that exists (1001); a write
of several blocks that finds no block returns the size of what it stored before, though the inode
that would lead to it is not written (1119).

## 6. Plan

1. `Rufs`: a crash inside the calls that change directories, if a mount ever reads the disk.

## 7. Not modelled

* `Level - 1/threads.c`: two pthreads run `x = x + 1` without a lock (35).  The program has no other
  state, and says itself what it shows.
* `Level - 1/bit-shifting.c`: a program of constant inputs without state; `set_bit_at_index` and
  `get_bit_at_index` are repeated in `my_vm.c`, where `VirtualMemory` models them.
* `Level - 1/signal.c`: changes the program counter saved on the machine stack of one compiled
  binary; nothing of it exists above the instruction set.
* The tests and benchmarks of the levels: clients, whose calls are covered by the calls of the
  models.
* Inside modelled components: what section 2 names as left out.

------------------------------- MODULE Worker -------------------------------
(***************************************************************************)
(* The user-level thread library of src/Level - 2/worker.c: thread         *)
(* creation, yield, exit and join, mutexes, and the round-robin and MLFQ   *)
(* schedulers that run on a context of their own.                          *)
(*                                                                         *)
(* There is one CPU.  It executes either the code of running_thread or the *)
(* scheduler; the SIGPROF handler (Tick, TickInScheduler) may move it from *)
(* the first to a fresh run of the second wherever signals are enabled.    *)
(* A thread executes the calls of its Program one after the other, and an  *)
(* action is a stretch of a call that no tick can split, or, where signals *)
(* are enabled, a statement that touches shared state.  Three stretches    *)
(* are coarser than that: a turn of the loop of unblock_threads, the       *)
(* making of a tcb, and the stages of sched_mlfq are one action each.      *)
(***************************************************************************)
EXTENDS NodeQueue, Sequences

CONSTANTS
  Scheduler,    \* SCHEDULER: "rr" or "mlfq"
  NumThreads,   \* bound on thread_count
  Mutexes,      \* the ids of the mutexes, all initialised before the first create
  Program,      \* the library calls each thread makes
  TickPoints,   \* where SIGPROF may arrive: "user", "library", "scheduler"
  Levels,       \* MLFQ_LEVELS
  BoostCycles   \* PRIORITY_BOOST_CYCLES

NoThread == -1
Main     == 0
Threads  == 0..(NumThreads - 1)
Call     == [op : {"lock", "unlock", "destroy"}, arg : Mutexes]
              \cup [op : {"join"}, arg : Threads]
              \cup [op : {"create", "yield", "exit"}, arg : {0}]

ASSUME WorkerAssumption ==
  /\ Scheduler \in {"rr", "mlfq"}
  /\ NumThreads \in Nat \ {0}
  /\ Mutexes \subseteq Nat
  /\ Nodes \subseteq Nat /\ Threads \subseteq Nodes
  /\ Program \in [Threads -> Seq(Call)]
  /\ TickPoints \subseteq {"user", "library", "scheduler"}
  /\ Levels \in Nat \ {0}
  /\ BoostCycles \in Nat \ {0}

\* create_thread's node is numbered like its thread; the others are the nodes
\* that the scheduler makes for main when no thread is ready.
ThreadOf(n) == IF n \in Threads THEN n ELSE Main
NodesOf(t)  == {n \in Nodes : ThreadOf(n) = t}

ready_queue   == <<"ready", 0>>
waiting_queue == <<"waiting", 0>>
MLFQ_queue    == [i \in 0..(Levels - 1) |-> <<"mlfq", i>>]
wait_queue(m) == <<"mutex", m>>
QueueNames    == {ready_queue, waiting_queue} \cup {MLFQ_queue[i] : i \in 0..(Levels - 1)}
                   \cup {wait_queue(m) : m \in Mutexes}

VARIABLES
  process,            \* "up", or how the process ended
  cpu,                \* what executes: the running thread or a part of the scheduler
  interrupt_disabled,
  running_thread, running_node,
  sched_next,         \* next_node of the scheduler
  schedule_cycles,
  status, waiting_thread, priority,
  slice_used,         \* time_on_cpu has reached the allotment of the priority
  context,            \* what a thread's ucontext_t holds
  thread_count,
  spare,              \* nodes that create_node has not handed out yet
  heap,               \* the queues
  pc, ip, local,      \* per thread: place in a call, index of the call, its local variable
  is_locked, owner, destroyed,
  in_cs,              \* per thread: mutexes locked with result 0 and not given back
  joined              \* per thread: threads whose join returned 0

machine == <<process, cpu, interrupt_disabled>>
sched   == <<running_thread, running_node, sched_next, schedule_cycles>>
tcbs    == <<status, waiting_thread, priority, slice_used, context>>
pools   == <<thread_count, spare>>
code    == <<pc, ip, local>>
mutexes == <<is_locked, owner, destroyed>>
ghosts  == <<in_cs, joined>>
vars    == <<machine, sched, tcbs, pools, heap, code, mutexes, ghosts>>

Labels == {"user", "create_enqueue", "create_tail", "create_context", "join_return",
           "lock_tas", "lock_check", "lock_enqueue", "lock_tail", "lock_block",
           "lock_wait", "wait_tail", "lock_yield", "lock_own", "lock_assert",
           "unlock_clear", "unlock_owner", "unlock_test", "unblock", "done"}

Heap == [next : [Nodes -> NodePtr], queue : [QueueNames -> Queue]]

TypeOK ==
  /\ process \in {"up", "returned", "aborted", "undefined"}
  /\ cpu \in {"thread", "window", "rr_pick", "mlfq_boost", "mlfq_pick", "mlfq_run",
              "fallback", "resume"}
  /\ interrupt_disabled \in {0, 1}
  /\ running_thread \in Threads
  /\ running_node \in Nodes
  /\ sched_next \in NodePtr
  /\ cpu = "mlfq_run" => sched_next # NoNode
  /\ schedule_cycles \in 0..BoostCycles
  /\ status \in [Threads -> {"none", "ready", "running", "blocked", "finished", "freed"}]
  /\ waiting_thread \in [Threads -> Threads \cup {NoThread}]
  /\ priority \in [Threads -> 0..(Levels - 1)]
  /\ slice_used \in [Threads -> BOOLEAN]
  /\ context \in [Threads -> {"none", "saved", "scheduler"}]
  /\ thread_count \in 1..NumThreads
  /\ spare \subseteq Nodes
  /\ heap \in Heap
  /\ pc \in [Threads -> Labels]
  /\ ip \in [Threads -> Nat \ {0}]
  /\ local \in [Threads -> Nodes \cup {NoNode}]
  /\ is_locked \in [Mutexes -> {0, 1}]
  /\ owner \in [Mutexes -> Threads \cup {NoThread}]
  /\ destroyed \in [Mutexes -> BOOLEAN]
  /\ in_cs \in [Threads -> SUBSET Mutexes]
  /\ joined \in [Threads -> SUBSET Threads]

(***************************************************************************)
(* The state after init() and the rest of the first call's section of      *)
(* worker_create: the caller is thread 0, running, in no queue.            *)
(***************************************************************************)
Init ==
  /\ process = "up" /\ cpu = "thread" /\ interrupt_disabled = 0
  /\ running_thread = Main /\ running_node = Main
  /\ sched_next = NoNode /\ schedule_cycles = 0
  /\ status = [t \in Threads |-> IF t = Main THEN "running" ELSE "none"]
  /\ waiting_thread = [t \in Threads |-> NoThread]
  /\ priority = [t \in Threads |-> 0]
  /\ slice_used = [t \in Threads |-> FALSE]
  /\ context = [t \in Threads |-> "none"]
  /\ thread_count = 1
  /\ spare = Nodes \ Threads
  /\ heap = [next |-> [n \in Nodes |-> NoNode], queue |-> [q \in QueueNames |-> Empty]]
  /\ pc = [t \in Threads |-> "user"]
  /\ ip = [t \in Threads |-> 1]
  /\ local = [t \in Threads |-> NoNode]
  /\ is_locked = [m \in Mutexes |-> 0]
  /\ owner = [m \in Mutexes |-> NoThread]
  /\ destroyed = [m \in Mutexes |-> FALSE]
  /\ in_cs = [t \in Threads |-> {}]
  /\ joined = [t \in Threads |-> {}]

-----------------------------------------------------------------------------
\* Control.

Ended(t)      == ip[t] > Len(Program[t])
Arg(t)        == Program[t][ip[t]].arg
InCall(t, op) == ~Ended(t) /\ Program[t][ip[t]].op = op

Runs(t, label) == /\ process = "up"
                  /\ cpu = "thread"
                  /\ running_thread = t
                  /\ pc[t] = label

Goto(t, label) == /\ pc' = [pc EXCEPT ![t] = label]
                  /\ UNCHANGED ip

Return(t) == /\ pc' = [pc EXCEPT ![t] = "user"]
             /\ ip' = [ip EXCEPT ![t] = @ + 1]

Die(how) == /\ process' = how
            /\ UNCHANGED <<cpu, interrupt_disabled, sched, tcbs, pools, heap, code,
                           mutexes, ghosts>>

\* swapcontext to sched_context; schedule() ends by enabling signals, before
\* the policy it then calls.
SwitchOut(t) == /\ context' = [context EXCEPT ![t] = "saved"]
                /\ cpu' = "window"
                /\ interrupt_disabled' = 0

(***************************************************************************)
(* A loop over queue q that looks for the nodes S: it reads freed memory,  *)
(* never ends (a step that changes nothing), or is followed by action A.   *)
(***************************************************************************)
Dangling == {n \in Nodes : status[ThreadOf(n)] = "freed"}

Walk(q, S, A) ==
  LET head == heap.queue[q].head
  IN  IF Visited(heap, head, S) \cap Dangling # {} THEN Die("undefined")
      ELSE IF Endless(heap, head, S) THEN UNCHANGED vars
      ELSE A

\* What enqueue does before its first assignment: it looks for the last node if
\* the tail is NULL, and follows the tail, which sched_rr may have freed.
Into(q, A) ==
  LET tail == heap.queue[q].tail
  IN  IF heap.queue[q].head = NoNode THEN A
      ELSE IF tail = NoNode THEN Walk(q, {}, A)
      ELSE IF Scheduler = "rr" /\ tail \in Dangling THEN Die("undefined")
      ELSE A

InQueue(q, t) == Hits(heap, heap.queue[q].head, NodesOf(t))

ReadyQueue(t) == IF Scheduler = "rr" THEN ready_queue ELSE MLFQ_queue[priority[t]]

\* find_ready_threads: the first ready queue that holds t, else the last one read.
FindQueue(t) ==
  IF Scheduler = "rr" THEN ready_queue
  ELSE MLFQ_queue[CHOOSE i \in 0..(Levels - 1) :
                    /\ \A j \in 0..(i - 1) : ~InQueue(MLFQ_queue[j], t)
                    /\ InQueue(MLFQ_queue[i], t) \/ i = Levels - 1]

\* The loop of release_threads and unblock_threads finds t in the waiting queue.
CanWake(t) == t >= 0 /\ InQueue(waiting_queue, t)

\* Mutant of WakeHeap: the thread leaves the waiting queue and enters no ready queue.
WakeUnqueued(t) == IF CanWake(t) THEN Delete(heap, waiting_queue, NodesOf(t)) ELSE heap

\* Mutant of WakeStatus: the woken thread is not made READY.
WakeBlocked(t) == status

\* The part that both share: move t from the waiting queue, if it is there, to the end of
\* its ready queue.
WakeHeap(t)   == IF CanWake(t)
                 THEN Enqueue(Delete(heap, waiting_queue, NodesOf(t)), ReadyQueue(t),
                              FirstIn(heap, heap.queue[waiting_queue].head, NodesOf(t)))
                 ELSE heap
WakeStatus(t) == IF CanWake(t) THEN [status EXCEPT ![t] = "ready"] ELSE status

\* The loop over the waiting queue, and the enqueue of the thread if it was found, before A.
Wake(t, A) == Walk(waiting_queue, NodesOf(t),
                   IF CanWake(t) THEN Into(ReadyQueue(t), A) ELSE A)

-----------------------------------------------------------------------------
\* worker_create, with signals enabled throughout.

CreateTcb(t) ==
  /\ Runs(t, "user") /\ InCall(t, "create")
  /\ thread_count < NumThreads
  /\ status' = [status EXCEPT ![thread_count] = "ready"]
  /\ thread_count' = thread_count + 1
  /\ local' = [local EXCEPT ![t] = thread_count]
  /\ Goto(t, "create_enqueue")
  /\ UNCHANGED <<machine, sched, waiting_thread, priority, slice_used, context, spare,
                 heap, mutexes, ghosts>>

CreateEnqueue(t) ==
  LET q == ReadyQueue(local[t])
  IN  /\ Runs(t, "create_enqueue")
      /\ Into(q, /\ heap' = Link(heap, q, local[t])
                 /\ Goto(t, "create_tail")
                 /\ UNCHANGED <<machine, sched, tcbs, pools, local, mutexes, ghosts>>)

CreateTail(t) ==
  /\ Runs(t, "create_tail")
  /\ heap' = Retail(heap, ReadyQueue(local[t]), local[t])
  /\ Goto(t, "create_context")
  /\ UNCHANGED <<machine, sched, tcbs, pools, local, mutexes, ghosts>>

\* makecontext: until here the new context is a copy of its creator's.
CreateContext(t) ==
  /\ Runs(t, "create_context")
  /\ context' = [context EXCEPT ![local[t]] = "saved"]
  /\ Return(t)
  /\ UNCHANGED <<machine, sched, status, waiting_thread, priority, slice_used, pools, heap,
                 local, mutexes, ghosts>>

-----------------------------------------------------------------------------
\* worker_yield, worker_exit and worker_join, with signals disabled.

Yield(t) ==
  /\ Runs(t, "user") /\ InCall(t, "yield")
  /\ SwitchOut(t)
  /\ Return(t)
  /\ UNCHANGED <<process, sched, status, waiting_thread, priority, slice_used, pools, heap,
                 local, mutexes, ghosts>>

\* A call of worker_exit, or the one thread_wrapper makes when the function returns.
Exit(t) ==
  /\ Runs(t, "user")
  /\ (t # Main /\ Ended(t)) \/ InCall(t, "exit")
  /\ \/ /\ status[t] # "running"
        /\ Die("aborted")
     \/ /\ status[t] = "running"
        /\ status' = [status EXCEPT ![t] = "finished"]
        /\ SwitchOut(t)
        /\ Goto(t, "done")
        /\ UNCHANGED <<process, sched, waiting_thread, priority, slice_used, pools, heap,
                       local, mutexes, ghosts>>

\* main() returns: the process ends with whatever threads are left.
MainReturn ==
  /\ Runs(Main, "user") /\ Ended(Main)
  /\ Die("returned")

\* Mutant of JoinMissing: no enable_signal before the return.
JoinMissingMasked(t, j) ==
  /\ joined' = IF j <= thread_count THEN [joined EXCEPT ![t] = @ \cup {j}] ELSE joined
  /\ interrupt_disabled' = 1
  /\ Return(t)
  /\ UNCHANGED <<process, cpu, sched, tcbs, pools, heap, local, mutexes, in_cs>>

\* The target is not ready: it is taken to have terminated if its id is not too large.
JoinMissing(t, j) ==
  /\ joined' = IF j <= thread_count THEN [joined EXCEPT ![t] = @ \cup {j}] ELSE joined
  /\ interrupt_disabled' = 0
  /\ Return(t)
  /\ UNCHANGED <<process, cpu, sched, tcbs, pools, heap, local, mutexes, in_cs>>

\* Another thread joined the target before: -1 is returned with signals disabled.
JoinTaken(t) ==
  /\ interrupt_disabled' = 1
  /\ Return(t)
  /\ UNCHANGED <<process, cpu, sched, tcbs, pools, heap, local, mutexes, ghosts>>

\* Mutant of JoinBlock: the joining thread is queued but stays RUNNING.
JoinBlockRunning(t, j) ==
  Into(waiting_queue,
       /\ waiting_thread' = [waiting_thread EXCEPT ![j] = t]
       /\ heap' = Enqueue(heap, waiting_queue, running_node)
       /\ SwitchOut(t)
       /\ Goto(t, "join_return")
       /\ UNCHANGED <<process, sched, status, priority, slice_used, pools, local, mutexes,
                      ghosts>>)

\* Mutant of JoinBlock: the joining thread is BLOCKED but not queued.
JoinBlockUnqueued(t, j) ==
  /\ waiting_thread' = [waiting_thread EXCEPT ![j] = t]
  /\ status' = [status EXCEPT ![t] = "blocked"]
  /\ SwitchOut(t)
  /\ Goto(t, "join_return")
  /\ UNCHANGED <<process, sched, priority, slice_used, pools, heap, local, mutexes, ghosts>>

JoinBlock(t, j) ==
  Into(waiting_queue,
       /\ waiting_thread' = [waiting_thread EXCEPT ![j] = t]
       /\ status' = [status EXCEPT ![t] = "blocked"]
       /\ heap' = Enqueue(heap, waiting_queue, running_node)
       /\ SwitchOut(t)
       /\ Goto(t, "join_return")
       /\ UNCHANGED <<process, sched, priority, slice_used, pools, local, mutexes, ghosts>>)

Join(t) ==
  /\ Runs(t, "user") /\ InCall(t, "join")
  /\ LET j == Arg(t) IN
       Walk(FindQueue(j), NodesOf(j),
            \/ ~InQueue(FindQueue(j), j) /\ JoinMissing(t, j)
            \/ InQueue(FindQueue(j), j) /\ waiting_thread[j] > 0 /\ JoinTaken(t)
            \/ InQueue(FindQueue(j), j) /\ waiting_thread[j] <= 0 /\ JoinBlock(t, j))

JoinReturn(t) ==
  /\ Runs(t, "join_return") /\ InCall(t, "join")
  /\ joined' = [joined EXCEPT ![t] = @ \cup {Arg(t)}]
  /\ interrupt_disabled' = 0
  /\ Return(t)
  /\ UNCHANGED <<process, cpu, sched, tcbs, pools, heap, local, mutexes, in_cs>>

-----------------------------------------------------------------------------
\* worker_mutex_lock, with signals enabled; a woken thread starts again at
\* the test-and-set.

\* Mutant of LockTas: the owner is tested instead of the flag.
LockTasByOwner(t) ==
  /\ InCall(t, "lock")
  /\ Runs(t, "user") \/ Runs(t, "lock_tas")
  /\ is_locked' = [is_locked EXCEPT ![Arg(t)] = 1]
  /\ Goto(t, IF owner[Arg(t)] # NoThread THEN "lock_check" ELSE "lock_own")
  /\ UNCHANGED <<machine, sched, tcbs, pools, heap, local, owner, destroyed, ghosts>>

LockTas(t) ==
  /\ InCall(t, "lock")
  /\ Runs(t, "user") \/ Runs(t, "lock_tas")
  /\ is_locked' = [is_locked EXCEPT ![Arg(t)] = 1]
  /\ Goto(t, IF is_locked[Arg(t)] = 1 THEN "lock_check" ELSE "lock_own")
  /\ UNCHANGED <<machine, sched, tcbs, pools, heap, local, owner, destroyed, ghosts>>

\* Mutant of LockCheck: any owner counts as the same thread.
LockCheckAnyOwner(t) ==
  /\ Runs(t, "lock_check") /\ InCall(t, "lock")
  /\ IF owner[Arg(t)] # NoThread
     THEN in_cs' = [in_cs EXCEPT ![t] = @ \cup {Arg(t)}] /\ Return(t)
     ELSE Goto(t, "lock_enqueue") /\ UNCHANGED in_cs
  /\ UNCHANGED <<machine, sched, tcbs, pools, heap, local, mutexes, joined>>

\* Mutant of LockCheck: a thread that finds the mutex locked spins.
LockCheckSpins(t) ==
  /\ Runs(t, "lock_check") /\ InCall(t, "lock")
  /\ Goto(t, "lock_tas")
  /\ UNCHANGED <<machine, sched, tcbs, pools, heap, local, mutexes, ghosts>>

LockCheck(t) ==
  /\ Runs(t, "lock_check") /\ InCall(t, "lock")
  /\ IF owner[Arg(t)] = t
     THEN in_cs' = [in_cs EXCEPT ![t] = @ \cup {Arg(t)}] /\ Return(t)
     ELSE Goto(t, "lock_enqueue") /\ UNCHANGED in_cs
  /\ UNCHANGED <<machine, sched, tcbs, pools, heap, local, mutexes, joined>>

LockEnqueue(t) ==
  /\ Runs(t, "lock_enqueue") /\ InCall(t, "lock")
  /\ IF destroyed[Arg(t)] THEN Die("undefined")
     ELSE Into(wait_queue(Arg(t)),
               /\ heap' = Link(heap, wait_queue(Arg(t)), running_node)
               /\ Goto(t, "lock_tail")
               /\ UNCHANGED <<machine, sched, tcbs, pools, local, mutexes, ghosts>>)

LockTail(t) ==
  /\ Runs(t, "lock_tail") /\ InCall(t, "lock")
  /\ IF destroyed[Arg(t)] THEN Die("undefined")
     ELSE /\ heap' = Retail(heap, wait_queue(Arg(t)), running_node)
          /\ Goto(t, "lock_block")
          /\ UNCHANGED <<machine, sched, tcbs, pools, local, mutexes, ghosts>>

LockBlock(t) ==
  /\ Runs(t, "lock_block")
  /\ status' = [status EXCEPT ![t] = "blocked"]
  /\ Goto(t, "lock_wait")
  /\ UNCHANGED <<machine, sched, waiting_thread, priority, slice_used, context, pools, heap,
                 local, mutexes, ghosts>>

\* The SAME node goes into the waiting queue: its link now serves two lists.
LockWait(t) ==
  /\ Runs(t, "lock_wait")
  /\ Into(waiting_queue,
          /\ heap' = Link(heap, waiting_queue, running_node)
          /\ Goto(t, "wait_tail")
          /\ UNCHANGED <<machine, sched, tcbs, pools, local, mutexes, ghosts>>)

WaitTail(t) ==
  /\ Runs(t, "wait_tail")
  /\ heap' = Retail(heap, waiting_queue, running_node)
  /\ Goto(t, "lock_yield")
  /\ UNCHANGED <<machine, sched, tcbs, pools, local, mutexes, ghosts>>

LockYield(t) ==
  /\ Runs(t, "lock_yield")
  /\ SwitchOut(t)
  /\ Goto(t, "lock_tas")
  /\ UNCHANGED <<process, sched, status, waiting_thread, priority, slice_used, pools, heap,
                 local, mutexes, ghosts>>

LockOwn(t) ==
  /\ Runs(t, "lock_own") /\ InCall(t, "lock")
  /\ owner' = [owner EXCEPT ![Arg(t)] = t]
  /\ is_locked' = [is_locked EXCEPT ![Arg(t)] = 1]
  /\ Goto(t, "lock_assert")
  /\ UNCHANGED <<machine, sched, tcbs, pools, heap, local, destroyed, ghosts>>

LockAssert(t) ==
  /\ Runs(t, "lock_assert") /\ InCall(t, "lock")
  /\ IF owner[Arg(t)] = NoThread \/ is_locked[Arg(t)] = 0
     THEN Die("aborted")
     ELSE /\ in_cs' = [in_cs EXCEPT ![t] = @ \cup {Arg(t)}]
          /\ Return(t)
          /\ UNCHANGED <<machine, sched, tcbs, pools, heap, local, mutexes, joined>>

-----------------------------------------------------------------------------
\* worker_mutex_unlock and worker_mutex_destroy, with signals enabled.

\* Mutant of UnlockCheck: the owner is not tested.
UnlockCheckAnyThread(t) ==
  /\ Runs(t, "user") /\ InCall(t, "unlock")
  /\ IF is_locked[Arg(t)] = 0
     THEN Return(t) /\ UNCHANGED in_cs
     ELSE Goto(t, "unlock_clear") /\ in_cs' = [in_cs EXCEPT ![t] = @ \ {Arg(t)}]
  /\ UNCHANGED <<machine, sched, tcbs, pools, heap, local, mutexes, joined>>

UnlockCheck(t) ==
  /\ Runs(t, "user") /\ InCall(t, "unlock")
  /\ IF is_locked[Arg(t)] = 0 \/ owner[Arg(t)] # t
     THEN Return(t) /\ UNCHANGED in_cs
     ELSE Goto(t, "unlock_clear") /\ in_cs' = [in_cs EXCEPT ![t] = @ \ {Arg(t)}]
  /\ UNCHANGED <<machine, sched, tcbs, pools, heap, local, mutexes, joined>>

UnlockClear(t) ==
  /\ Runs(t, "unlock_clear") /\ InCall(t, "unlock")
  /\ is_locked' = [is_locked EXCEPT ![Arg(t)] = 0]
  /\ Goto(t, "unlock_owner")
  /\ UNCHANGED <<machine, sched, tcbs, pools, heap, local, owner, destroyed, ghosts>>

\* Mutant of UnlockOwner: the mutex is handed to the first waiter, with its flag clear.
UnlockOwnerHandsOver(t) ==
  LET head == heap.queue[wait_queue(Arg(t))].head
  IN  /\ Runs(t, "unlock_owner") /\ InCall(t, "unlock")
      /\ owner' = [owner EXCEPT ![Arg(t)] = IF head = NoNode THEN NoThread ELSE ThreadOf(head)]
      /\ Goto(t, "unlock_test")
      /\ UNCHANGED <<machine, sched, tcbs, pools, heap, local, is_locked, destroyed, ghosts>>

UnlockOwner(t) ==
  /\ Runs(t, "unlock_owner") /\ InCall(t, "unlock")
  /\ owner' = [owner EXCEPT ![Arg(t)] = NoThread]
  /\ Goto(t, "unlock_test")
  /\ UNCHANGED <<machine, sched, tcbs, pools, heap, local, is_locked, destroyed, ghosts>>

\* Mutant of UnlockTest: a queue of one waiter counts as empty.
UnlockTestOne(t) ==
  /\ Runs(t, "unlock_test") /\ InCall(t, "unlock")
  /\ LET q == heap.queue[wait_queue(Arg(t))]
     IN  /\ local' = [local EXCEPT ![t] = q.head]
         /\ IF q.head = q.tail THEN Return(t) ELSE Goto(t, "unblock")
  /\ UNCHANGED <<machine, sched, tcbs, pools, heap, mutexes, ghosts>>

UnlockTest(t) ==
  /\ Runs(t, "unlock_test") /\ InCall(t, "unlock")
  /\ IF destroyed[Arg(t)] THEN Die("undefined")
     ELSE LET head == heap.queue[wait_queue(Arg(t))].head
          IN  /\ local' = [local EXCEPT ![t] = head]
              /\ IF head = NoNode THEN Return(t) ELSE Goto(t, "unblock")
              /\ UNCHANGED <<machine, sched, tcbs, pools, heap, mutexes, ghosts>>

\* One turn of the loop of unblock_threads; local[t] is temp_head.
Unblock(t) ==
  LET w == ThreadOf(local[t])
  IN  /\ Runs(t, "unblock")
      /\ local[t] # NoNode
      /\ IF local[t] \in Dangling THEN Die("undefined")
         ELSE Wake(w, /\ heap' = WakeHeap(w)
                      /\ status' = WakeStatus(w)
                      /\ local' = [local EXCEPT ![t] = heap.next[local[t]]]
                      /\ UNCHANGED <<machine, sched, waiting_thread, priority, slice_used,
                                     context, pools, pc, ip, mutexes, ghosts>>)

UnlockEmpty(t) ==
  /\ Runs(t, "unblock") /\ InCall(t, "unlock")
  /\ local[t] = NoNode
  /\ IF destroyed[Arg(t)] THEN Die("undefined")
     ELSE /\ heap' = [heap EXCEPT !.queue[wait_queue(Arg(t))] = Empty]
          /\ Return(t)
          /\ UNCHANGED <<machine, sched, tcbs, pools, local, mutexes, ghosts>>

\* wait_queue is freed, with its waiters; a second free is undefined.
Destroy(t) ==
  /\ Runs(t, "user") /\ InCall(t, "destroy")
  /\ IF is_locked[Arg(t)] = 0 /\ destroyed[Arg(t)] THEN Die("undefined")
     ELSE /\ destroyed' = [destroyed EXCEPT ![Arg(t)] = @ \/ is_locked[Arg(t)] = 0]
          /\ Return(t)
          /\ UNCHANGED <<machine, sched, tcbs, pools, heap, local, is_locked, owner, ghosts>>

-----------------------------------------------------------------------------
\* interrupt_handler: the saved context is the interrupted thread's, or, when
\* the scheduler is interrupted, the scheduler's own.

MayTick(t) == \/ "user" \in TickPoints /\ pc[t] = "user"
              \/ "library" \in TickPoints /\ pc[t] # "user"

Tick(t) ==
  /\ process = "up" /\ cpu = "thread" /\ running_thread = t
  /\ interrupt_disabled = 0
  /\ MayTick(t)
  /\ SwitchOut(t)
  /\ UNCHANGED <<process, sched, status, waiting_thread, priority, slice_used, pools, heap,
                 code, mutexes, ghosts>>

TickInScheduler ==
  /\ process = "up" /\ cpu # "thread"
  /\ interrupt_disabled = 0
  /\ "scheduler" \in TickPoints
  /\ IF status[running_thread] = "freed" THEN Die("undefined")
     ELSE /\ context' = [context EXCEPT ![running_thread] = "scheduler"]
          /\ cpu' = "window"
          /\ UNCHANGED <<process, interrupt_disabled, sched, status, waiting_thread, priority,
                         slice_used, pools, heap, code, mutexes, ghosts>>

-----------------------------------------------------------------------------
\* schedule, sched_rr and sched_mlfq.  sched_rr disables signals until it has
\* chosen a thread; sched_mlfq runs with signals enabled.

InScheduler(where) == process = "up" /\ cpu = where

\* release_threads: the loop over the waiting queue is skipped when nobody joined prev.
Release(prev, A) ==
  LET w == waiting_thread[prev]
      B == /\ heap' = WakeHeap(w)
           /\ status' = [WakeStatus(w) EXCEPT ![prev] = "freed"]
           /\ A
  IN  IF w < 0 THEN B ELSE Wake(w, B)

RRRequeue ==
  LET prev == running_thread
      Chosen == /\ cpu' = "rr_pick"
                /\ interrupt_disabled' = 1
                /\ UNCHANGED <<process, sched, waiting_thread, priority, slice_used, context,
                               pools, code, mutexes, ghosts>>
  IN  /\ Scheduler = "rr" /\ InScheduler("window")
      /\ CASE status[prev] = "finished" -> Release(prev, Chosen)
           [] status[prev] = "blocked"  -> UNCHANGED <<heap, status>> /\ Chosen
           [] OTHER ->
                Into(ready_queue, /\ heap' = Enqueue(heap, ready_queue, running_node)
                                  /\ status' = [status EXCEPT ![prev] = "ready"]
                                  /\ Chosen)

\* The chosen node becomes the running one, if its thread is not blocked.
Dispatch(n) ==
  LET t == ThreadOf(n)
  IN  IF n \in Dangling THEN Die("undefined")
      ELSE IF status[t] = "blocked" THEN Die("aborted")
      ELSE /\ heap' = IF Scheduler = "rr" THEN Pop(heap, ready_queue) ELSE heap
           /\ status' = [status EXCEPT ![t] = "running"]
           /\ running_thread' = t /\ running_node' = n
           /\ sched_next' = NoNode
           /\ cpu' = "resume" /\ interrupt_disabled' = 0
           /\ UNCHANGED <<process, schedule_cycles, waiting_thread, priority, slice_used,
                          context, pools, code, mutexes, ghosts>>

RRPick ==
  LET head == heap.queue[ready_queue].head
  IN  /\ InScheduler("rr_pick")
      /\ IF head # NoNode THEN Dispatch(head)
         ELSE /\ cpu' = "fallback" /\ interrupt_disabled' = 0
              /\ UNCHANGED <<process, sched, tcbs, pools, heap, code, mutexes, ghosts>>

\* The test for a lower level is `priority > MLFQ_LEVELS-1'.
MLFQRequeue ==
  LET prev   == running_thread
      cycles == IF schedule_cycles < BoostCycles THEN schedule_cycles + 1 ELSE BoostCycles
      Chosen == /\ schedule_cycles' = cycles
                /\ cpu' = IF cycles >= BoostCycles THEN "mlfq_boost" ELSE "mlfq_pick"
                /\ sched_next' = NoNode
                /\ UNCHANGED <<process, interrupt_disabled, running_thread, running_node,
                               waiting_thread, context, pools, code, mutexes, ghosts>>
  IN  /\ Scheduler = "mlfq" /\ InScheduler("window")
      /\ \E used \in BOOLEAN :
           /\ slice_used[prev] => used
           /\ LET lower == used /\ priority[prev] > Levels - 1
                  level == IF lower THEN priority[prev] + 1 ELSE priority[prev]
              IN  CASE status[prev] = "finished" ->
                         Release(prev, Chosen /\ UNCHANGED <<priority, slice_used>>)
                    [] status[prev] = "running" ->
                         Into(MLFQ_queue[level],
                              /\ heap' = Enqueue(heap, MLFQ_queue[level], running_node)
                              /\ status' = [status EXCEPT ![prev] = "ready"]
                              /\ priority' = [priority EXCEPT ![prev] = level]
                              /\ slice_used' = [slice_used EXCEPT ![prev] = used /\ ~lower]
                              /\ Chosen)
                    [] OTHER ->
                         /\ slice_used' = [slice_used EXCEPT ![prev] = used]
                         /\ UNCHANGED <<heap, status, priority>>
                         /\ Chosen

\* The levels of S that hold a node, and the first of them.
Occupied(S)   == {i \in S : heap.queue[MLFQ_queue[i]].head # NoNode}
FirstLevel(S) == CHOOSE i \in S : \A j \in S : i <= j

\* One turn of the loops of boost_priority, or their end.
MLFQBoost ==
  LET lower == Occupied(1..(Levels - 1))
      q     == MLFQ_queue[FirstLevel(lower)]
      n     == heap.queue[q].head
  IN  /\ InScheduler("mlfq_boost")
      /\ IF lower # {}
         THEN /\ heap' = Enqueue(Pop(heap, q), MLFQ_queue[0], n)
              /\ priority' = [priority EXCEPT ![ThreadOf(n)] = 0]
              /\ UNCHANGED <<cpu, schedule_cycles>>
         ELSE /\ cpu' = "mlfq_pick" /\ schedule_cycles' = 0
              /\ UNCHANGED <<heap, priority>>
      /\ UNCHANGED <<process, interrupt_disabled, running_thread, running_node, sched_next,
                     status, waiting_thread, slice_used, context, pools, code, mutexes, ghosts>>

\* Mutant of MLFQPick: the chosen node is dispatched without the test for NULL.
MLFQPickUnchecked ==
  LET levels == Occupied(0..(Levels - 1))
      q      == MLFQ_queue[FirstLevel(levels)]
  IN  /\ InScheduler("mlfq_pick")
      /\ IF levels = {} THEN UNCHANGED <<heap, sched_next>>
         ELSE heap' = Pop(heap, q) /\ sched_next' = heap.queue[q].head
      /\ cpu' = "mlfq_run"
      /\ UNCHANGED <<process, interrupt_disabled, running_thread, running_node, schedule_cycles,
                     tcbs, pools, code, mutexes, ghosts>>

\* get_next_thread_mlfq
MLFQPick ==
  LET levels == Occupied(0..(Levels - 1))
      q      == MLFQ_queue[FirstLevel(levels)]
  IN  /\ InScheduler("mlfq_pick")
      /\ IF levels = {} THEN UNCHANGED <<heap, sched_next>>
         ELSE heap' = Pop(heap, q) /\ sched_next' = heap.queue[q].head
      /\ cpu' = IF levels = {} THEN "fallback" ELSE "mlfq_run"
      /\ UNCHANGED <<process, interrupt_disabled, running_thread, running_node, schedule_cycles,
                     tcbs, pools, code, mutexes, ghosts>>

MLFQRun == Scheduler = "mlfq" /\ InScheduler("mlfq_run") /\ Dispatch(sched_next)

\* No thread is ready: main is resumed with a new node, whatever its status.
Fallback ==
  /\ InScheduler("fallback")
  /\ \E n \in spare :
       /\ \A k \in spare : n <= k
       /\ IF status[Main] = "freed" THEN Die("undefined")
          ELSE /\ spare' = spare \ {n}
               /\ running_thread' = Main /\ running_node' = n
               /\ status' = [status EXCEPT ![Main] = "running"]
               /\ cpu' = "resume"
               /\ UNCHANGED <<process, interrupt_disabled, sched_next, schedule_cycles,
                              waiting_thread, priority, slice_used, context, thread_count,
                              heap, code, mutexes, ghosts>>

\* setcontext: only a context that was made or saved by its own thread can be resumed.
Resume ==
  /\ InScheduler("resume")
  /\ IF context[running_thread] # "saved" THEN Die("undefined")
     ELSE /\ cpu' = "thread"
          /\ UNCHANGED <<process, interrupt_disabled, sched, tcbs, pools, heap, code, mutexes,
                         ghosts>>

-----------------------------------------------------------------------------
CreateStep(t) == CreateTcb(t) \/ CreateEnqueue(t) \/ CreateTail(t) \/ CreateContext(t)

LockStep(t) == \/ LockTas(t) \/ LockCheck(t) \/ LockEnqueue(t) \/ LockTail(t) \/ LockBlock(t)
               \/ LockWait(t) \/ WaitTail(t) \/ LockYield(t) \/ LockOwn(t) \/ LockAssert(t)

UnlockStep(t) == \/ UnlockCheck(t) \/ UnlockClear(t) \/ UnlockOwner(t) \/ UnlockTest(t)
                 \/ Unblock(t) \/ UnlockEmpty(t) \/ Destroy(t)

ThreadStep(t) == \/ CreateStep(t) \/ LockStep(t) \/ UnlockStep(t)
                 \/ Yield(t) \/ Exit(t) \/ Join(t) \/ JoinReturn(t)
                 \/ t = Main /\ MainReturn

SchedulerStep == \/ RRRequeue \/ RRPick
                 \/ MLFQRequeue \/ MLFQBoost \/ MLFQPick \/ MLFQRun
                 \/ Fallback \/ Resume

\* The process has ended, or a bound of the model (Nodes, NumThreads) is reached.
Stopped ==
  /\ \/ process # "up"
     \/ cpu = "fallback" /\ spare = {}
     \/ cpu = "thread" /\ InCall(running_thread, "create") /\ thread_count = NumThreads
  /\ UNCHANGED vars

Next == \/ \E t \in Threads : ThreadStep(t) \/ Tick(t)
        \/ SchedulerStep \/ TickInScheduler \/ Stopped

Spec == Init /\ [][Next]_vars

(***************************************************************************)
(* Fairness: the scheduler runs to its end, and a thread that is given the *)
(* CPU again and again executes its next step at one of these times (a     *)
(* time slice of 20 ms is far longer than any call).                       *)
(***************************************************************************)
FairSpec == /\ Spec
            /\ WF_vars(SchedulerStep)
            /\ \A t \in Threads : SF_vars(ThreadStep(t))

=============================================================================

----------------------------- MODULE WorkerProof -----------------------------
(***************************************************************************)
(* Type correctness and mutual exclusion of the thread library, for every  *)
(* number of threads, every set of mutexes, every program, both schedulers *)
(* and every arrival of the timer signal.                                  *)
(***************************************************************************)
EXTENDS WorkerProps, WellFoundedInduction, TLAPS

-----------------------------------------------------------------------------
\* The queue operations keep a heap well typed, whatever the links are: also on chains that share
\* nodes or are cyclic.

HeapOf(Q) == [next : [Nodes -> NodePtr], queue : [Q -> Queue]]

\* A search that hits ends at a node of the set.
LEMMA FirstInType ==
  ASSUME NEW h, NEW n, NEW S, Hits(h, n, S)
  PROVE  FirstIn(h, n, S) \in Nodes /\ FirstIn(h, n, S) \in S
<1>1. PICK x : x \in Visited(h, n, S) \cap S
  BY DEF Hits
<1>2. x \in Nodes
  BY <1>1 DEF Visited
<1> QED
  BY <1>1, <1>2, Zenon DEF FirstIn

\* prev is NULL or a node.
LEMMA BeforeType ==
  ASSUME NEW h, NEW n, NEW x
  PROVE  Before(h, n, x) \in NodePtr
<1> DEFINE P == {p \in Visited(h, n, {x}) : h.next[p] = x}
<1>1. P \subseteq Nodes
  BY DEF Visited
<1>2. CASE P = {}
  BY <1>2, Zenon DEF Before, NodePtr
<1>3. CASE P # {}
  <2>1. (CHOOSE p \in P : TRUE) \in P
    BY <1>3, Zenon
  <2> QED
    BY <1>1, <1>3, <2>1, Zenon DEF Before, NodePtr
<1> QED
  BY <1>2, <1>3

\* enqueue's first assignment.
LEMMA LinkType ==
  ASSUME NEW Q, NEW h \in HeapOf(Q), NEW q, NEW n \in NodePtr
  PROVE  Link(h, q, n) \in HeapOf(Q)
<1> DEFINE last == IF h.queue[q].tail = NoNode THEN Last(h, h.queue[q].head)
                   ELSE h.queue[q].tail
<1>1. [h EXCEPT !.queue[q].head = n] \in HeapOf(Q)
  BY DEF HeapOf, Queue
<1>2. [h EXCEPT !.next[last] = n] \in HeapOf(Q)
  BY DEF HeapOf
<1> QED
  BY <1>1, <1>2, Zenon DEF Link

\* enqueue's second assignment.
LEMMA RetailType ==
  ASSUME NEW Q, NEW h \in HeapOf(Q), NEW q, NEW n \in NodePtr
  PROVE  Retail(h, q, n) \in HeapOf(Q)
BY DEF Retail, HeapOf, Queue

\* enqueue as a whole.
LEMMA EnqueueType ==
  ASSUME NEW Q, NEW h \in HeapOf(Q), NEW q, NEW n \in NodePtr
  PROVE  Enqueue(h, q, n) \in HeapOf(Q)
BY LinkType, RetailType, Zenon DEF Enqueue

\* pop_from_queue.
LEMMA PopType ==
  ASSUME NEW Q, NEW h \in HeapOf(Q), NEW q \in Q, h.queue[q].head # NoNode
  PROVE  Pop(h, q) \in HeapOf(Q)
<1> DEFINE head == h.queue[q].head
           rest == IF head = h.queue[q].tail THEN Empty
                   ELSE [head |-> h.next[head], tail |-> h.queue[q].tail]
<1>1. head \in Nodes /\ h.queue[q].tail \in NodePtr
  BY DEF HeapOf, Queue, NodePtr
<1>2. rest \in Queue
  BY <1>1 DEF HeapOf, Queue, Empty, NodePtr
<1>3. [h EXCEPT !.next[head] = NoNode, !.queue[q] = rest] \in HeapOf(Q)
  BY <1>2 DEF HeapOf, NodePtr
<1> QED
  BY <1>3, Zenon DEF Pop

\* delete_from_queue.
LEMMA DeleteType ==
  ASSUME NEW Q, NEW h \in HeapOf(Q), NEW q \in Q, NEW S
  PROVE  Delete(h, q, S) \in HeapOf(Q)
<1> DEFINE head == h.queue[q].head
           tail == h.queue[q].tail
           n    == FirstIn(h, head, S)
           p    == Before(h, head, n)
           rest == IF head = tail THEN Empty ELSE [head |-> NoNode, tail |-> tail]
<1>1. CASE ~Hits(h, head, S)
  BY <1>1, Zenon DEF Delete
<1>2. CASE Hits(h, head, S)
  <2>1. n \in Nodes
    BY <1>2, FirstInType
  <2>2. p \in NodePtr
    BY BeforeType
  <2>3. tail \in NodePtr /\ h.next[n] \in NodePtr
    BY <2>1 DEF HeapOf, Queue
  <2>4. rest \in Queue
    BY <2>3 DEF Queue, Empty, NodePtr
  <2> HIDE DEF head, tail, n, p, rest
  <2>5. [h EXCEPT !.next[n] = NoNode, !.queue[q] = rest] \in HeapOf(Q)
    BY <2>4 DEF HeapOf, NodePtr
  <2>6. [h EXCEPT !.next = [@ EXCEPT ![n] = NoNode, ![p] = NoNode], !.queue[q].tail = p]
          \in HeapOf(Q)
    BY <2>2, ZenonT(60) DEF HeapOf, NodePtr, Queue
  <2>7. [h EXCEPT !.next = [@ EXCEPT ![n] = NoNode, ![p] = h.next[n]]] \in HeapOf(Q)
    BY <2>3 DEF HeapOf, NodePtr
  <2> QED
    BY <1>2, <2>5, <2>6, <2>7, Zenon DEF Delete, head, tail, n, p, rest
<1> QED
  BY <1>1, <1>2

-----------------------------------------------------------------------------
\* Lemmas about single operators.

\* An argument has the type that its call asks for.
LEMMA ArgType ==
  ASSUME TypeOK, NEW t \in Threads
  PROVE  /\ InCall(t, "lock") => Arg(t) \in Mutexes
         /\ InCall(t, "unlock") => Arg(t) \in Mutexes
         /\ InCall(t, "destroy") => Arg(t) \in Mutexes
         /\ InCall(t, "join") => Arg(t) \in Threads
<1>1. Program[t] \in Seq(Call)
  BY WorkerAssumption
<1>2. ~Ended(t) => ip[t] \in 1..Len(Program[t])
  BY <1>1 DEF Ended, TypeOK
<1>3. ~Ended(t) => Program[t][ip[t]] \in Call
  BY <1>1, <1>2
<1> QED
  BY <1>3 DEF InCall, Arg, Call

\* Thread ids, node ids and queue names are of the types the variables need.
LEMMA ConstantTypes ==
  /\ Main \in Threads /\ Main \in Nodes
  /\ Threads \subseteq Nodes
  /\ NoThread \notin Threads
  /\ \A n : ThreadOf(n) \in Threads
  /\ ready_queue \in QueueNames /\ waiting_queue \in QueueNames
  /\ \A m \in Mutexes : wait_queue(m) \in QueueNames
  /\ \A i \in 0..(Levels - 1) : MLFQ_queue[i] \in QueueNames
  /\ 0 \in 0..(Levels - 1)
BY WorkerAssumption DEF Threads, Main, NoThread, ThreadOf, QueueNames, MLFQ_queue

\* The heap of Worker is the heap that the lemmas of the queue operations speak of.
LEMMA HeapType == Heap = HeapOf(QueueNames)
BY DEF Heap, HeapOf

\* Moving a waiting thread to its ready queue.
LEMMA WakeType ==
  ASSUME TypeOK, NEW t
  PROVE  WakeHeap(t) \in Heap
<1>1. CASE CanWake(t)
  <2> DEFINE d == Delete(heap, waiting_queue, NodesOf(t))
             n == FirstIn(heap, heap.queue[waiting_queue].head, NodesOf(t))
  <2>1. heap \in HeapOf(QueueNames)
    BY HeapType DEF TypeOK
  <2>2. d \in HeapOf(QueueNames)
    BY <2>1, ConstantTypes, DeleteType
  <2>3. n \in NodePtr
    BY <1>1, FirstInType DEF CanWake, InQueue, NodePtr
  <2>4. Enqueue(d, ReadyQueue(t), n) \in HeapOf(QueueNames)
    BY <2>2, <2>3, EnqueueType
  <2> QED
    BY <1>1, <2>4, HeapType, Zenon DEF WakeHeap
<1>2. CASE ~CanWake(t)
  BY <1>2, Zenon DEF WakeHeap, TypeOK
<1> QED
  BY <1>1, <1>2

\* A wake of release_threads or unblock_threads keeps every status a status.
LEMMA WakeStatusType ==
  ASSUME TypeOK, NEW t
  PROVE  WakeStatus(t) \in [Threads -> {"none", "ready", "running", "blocked", "finished", "freed"}]
BY DEF WakeStatus, TypeOK

\* Level selection finds the first occupied level.
LEMMA FirstLevelType ==
  ASSUME NEW S, S \subseteq 0..(Levels - 1), S # {}
  PROVE  FirstLevel(S) \in S
<1> DEFINE R == {ss \in Nat \X Nat : ss[1] < ss[2]}
<1>1. S \subseteq Nat
  BY WorkerAssumption
<1>2. R = OpToRel(<, Nat)
  BY Zenon DEF OpToRel
<1>3. IsWellFoundedOn(R, Nat)
  BY <1>2, NatLessThanWellFounded, Zenon
<1> HIDE DEF R
<1>4. PICK i \in S : \A j \in S : ~(<<j, i>> \in R)
  BY <1>1, <1>3, WFMin, Zenon
<1>5. \A j \in S : i <= j
  <2> SUFFICES ASSUME NEW j \in S, j < i
               PROVE  FALSE
    BY <1>1
  <2> DEFINE ji == <<j, i>>
  <2>1. ji \in Nat \X Nat
    BY <1>1
  <2>2. ji[1] = j /\ ji[2] = i
    OBVIOUS
  <2> HIDE DEF ji
  <2>3. ji \in R
    BY <2>1, <2>2 DEF R
  <2> QED
    BY <1>4, <2>3 DEF ji
<1> QED
  BY <1>5, Zenon DEF FirstLevel

-----------------------------------------------------------------------------
\* Type correctness, one action at a time.

\* The shared parts of the actions.
LEMMA ControlType ==
  ASSUME TypeOK, NEW t \in Threads
  PROVE  /\ Return(t) => pc' \in [Threads -> Labels] /\ ip' \in [Threads -> Nat \ {0}]
         /\ \A l \in Labels : Goto(t, l) => pc' \in [Threads -> Labels] /\ ip' = ip
         /\ SwitchOut(t) => /\ context' \in [Threads -> {"none", "saved", "scheduler"}]
                           /\ cpu' = "window" /\ interrupt_disabled' = 0
<1>1. "user" \in Labels
  BY DEF Labels
<1>2. pc \in [Threads -> Labels] /\ ip \in [Threads -> Nat \ {0}]
  BY DEF TypeOK
<1>3. Return(t) => pc' \in [Threads -> Labels] /\ ip' \in [Threads -> Nat \ {0}]
  BY <1>1, <1>2 DEF Return
<1>4. \A l \in Labels : Goto(t, l) => pc' \in [Threads -> Labels] /\ ip' = ip
  BY <1>2 DEF Goto
<1>5. SwitchOut(t) => /\ context' \in [Threads -> {"none", "saved", "scheduler"}]
                      /\ cpu' = "window" /\ interrupt_disabled' = 0
  BY DEF TypeOK, SwitchOut
<1> QED
  BY <1>3, <1>4, <1>5

\* A loop that never ends changes nothing, so no type.
LEMMA UnchangedType == TypeOK /\ UNCHANGED vars => TypeOK'
BY DEF TypeOK, vars, machine, sched, tcbs, pools, code, mutexes, ghosts

\* The end of the process keeps the types.
LEMMA DieType ==
  ASSUME TypeOK, NEW how \in {"returned", "aborted", "undefined"}, Die(how)
  PROVE  TypeOK'
BY DEF TypeOK, Die, machine, sched, tcbs, pools, code, mutexes, ghosts

\* Every statement of worker_create keeps the types.
LEMMA CreateType ==
  ASSUME TypeOK, NEW t \in Threads, CreateStep(t)
  PROVE  TypeOK'
<1>1. CASE CreateTcb(t)
  <2>1. thread_count \in Threads /\ thread_count \in Nodes /\ thread_count + 1 \in 1..NumThreads
    BY <1>1, WorkerAssumption DEF CreateTcb, TypeOK, Threads
  <2>2. pc' \in [Threads -> Labels] /\ ip' = ip
    BY <1>1, ControlType DEF CreateTcb, Labels
  <2> QED
    BY <1>1, <2>1, <2>2 DEF TypeOK, CreateTcb, machine, sched, mutexes, ghosts
<1>2. CASE CreateEnqueue(t)
  <2> DEFINE q == ReadyQueue(local[t])
             A == /\ heap' = Link(heap, q, local[t])
                  /\ Goto(t, "create_tail")
                  /\ UNCHANGED <<machine, sched, tcbs, pools, local, mutexes, ghosts>>
  <2>1. CASE A
    <3>1. heap' \in Heap
      BY <2>1, HeapType, LinkType DEF TypeOK, NodePtr
    <3>2. pc' \in [Threads -> Labels] /\ ip' = ip
      BY <2>1, ControlType DEF Labels
    <3> QED
      BY <2>1, <3>1, <3>2 DEF TypeOK, machine, sched, tcbs, pools, mutexes, ghosts
  <2>2. A \/ Die("undefined") \/ UNCHANGED vars
    BY <1>2, Zenon DEF CreateEnqueue, Into, Walk
  <2> QED
    BY <2>1, <2>2, UnchangedType, DieType
<1>3. CASE CreateTail(t)
  <2>1. heap' \in Heap
    BY <1>3, HeapType, RetailType DEF CreateTail, TypeOK, NodePtr
  <2>2. pc' \in [Threads -> Labels] /\ ip' = ip
    BY <1>3, ControlType DEF CreateTail, Labels
  <2> QED
    BY <1>3, <2>1, <2>2 DEF TypeOK, CreateTail, machine, sched, tcbs, pools, mutexes, ghosts
<1>4. CASE CreateContext(t)
  <2>1. pc' \in [Threads -> Labels] /\ ip' \in [Threads -> Nat \ {0}]
    BY <1>4, ControlType DEF CreateContext
  <2> QED
    BY <1>4, <2>1 DEF TypeOK, CreateContext, machine, sched, pools, mutexes, ghosts
<1> QED
  BY <1>1, <1>2, <1>3, <1>4 DEF CreateStep

\* Every statement of worker_mutex_lock keeps the types.
LEMMA LockType ==
  ASSUME TypeOK, NEW t \in Threads, LockStep(t)
  PROVE  TypeOK'
<1>1. CASE LockTas(t)
  <2>1. pc' \in [Threads -> Labels] /\ ip' = ip
    BY <1>1, ControlType DEF LockTas, Labels
  <2> QED
    BY <1>1, <2>1 DEF TypeOK, LockTas, machine, sched, tcbs, pools, ghosts
<1>2. CASE LockCheck(t)
  <2>1. pc' \in [Threads -> Labels] /\ ip' \in [Threads -> Nat \ {0}]
    BY <1>2, ControlType DEF LockCheck, Labels, TypeOK
  <2>2. in_cs' \in [Threads -> SUBSET Mutexes]
    BY <1>2, ArgType DEF LockCheck, TypeOK
  <2> QED
    BY <1>2, <2>1, <2>2 DEF TypeOK, LockCheck, machine, sched, tcbs, pools, mutexes
<1>3. CASE LockEnqueue(t)
  <2> DEFINE q == wait_queue(Arg(t))
             A == /\ heap' = Link(heap, q, running_node)
                  /\ Goto(t, "lock_tail")
                  /\ UNCHANGED <<machine, sched, tcbs, pools, local, mutexes, ghosts>>
  <2>1. CASE A
    <3>1. heap' \in Heap
      BY <2>1, HeapType, LinkType DEF TypeOK, NodePtr
    <3>2. pc' \in [Threads -> Labels] /\ ip' = ip
      BY <2>1, ControlType DEF Labels
    <3> QED
      BY <2>1, <3>1, <3>2 DEF TypeOK, machine, sched, tcbs, pools, mutexes, ghosts
  <2>2. A \/ Die("undefined") \/ UNCHANGED vars
    BY <1>3, Zenon DEF LockEnqueue, Into, Walk
  <2> QED
    BY <2>1, <2>2, UnchangedType, DieType
<1>4. CASE LockTail(t)
  <2>1. CASE Die("undefined")
    BY <2>1, DieType
  <2>2. CASE ~Die("undefined")
    <3>1. heap' \in Heap
      BY <1>4, <2>2, HeapType, RetailType DEF LockTail, TypeOK, NodePtr
    <3>2. pc' \in [Threads -> Labels] /\ ip' = ip
      BY <1>4, <2>2, ControlType DEF LockTail, Labels
    <3> QED
      BY <1>4, <2>2, <3>1, <3>2 DEF TypeOK, LockTail, machine, sched, tcbs, pools, mutexes, ghosts
  <2> QED
    BY <2>1, <2>2
<1>5. CASE LockBlock(t)
  <2>1. pc' \in [Threads -> Labels] /\ ip' = ip
    BY <1>5, ControlType DEF LockBlock, Labels
  <2> QED
    BY <1>5, <2>1 DEF TypeOK, LockBlock, machine, sched, pools, mutexes, ghosts
<1>6. CASE LockWait(t)
  <2> DEFINE A == /\ heap' = Link(heap, waiting_queue, running_node)
                  /\ Goto(t, "wait_tail")
                  /\ UNCHANGED <<machine, sched, tcbs, pools, local, mutexes, ghosts>>
  <2>1. CASE A
    <3>1. heap' \in Heap
      BY <2>1, HeapType, LinkType DEF TypeOK, NodePtr
    <3>2. pc' \in [Threads -> Labels] /\ ip' = ip
      BY <2>1, ControlType DEF Labels
    <3> QED
      BY <2>1, <3>1, <3>2 DEF TypeOK, machine, sched, tcbs, pools, mutexes, ghosts
  <2>2. A \/ Die("undefined") \/ UNCHANGED vars
    BY <1>6, Zenon DEF LockWait, Into, Walk
  <2> QED
    BY <2>1, <2>2, UnchangedType, DieType
<1>7. CASE WaitTail(t)
  <2>1. heap' \in Heap
    BY <1>7, HeapType, RetailType DEF WaitTail, TypeOK, NodePtr
  <2>2. pc' \in [Threads -> Labels] /\ ip' = ip
    BY <1>7, ControlType DEF WaitTail, Labels
  <2> QED
    BY <1>7, <2>1, <2>2 DEF TypeOK, WaitTail, machine, sched, tcbs, pools, mutexes, ghosts
<1>8. CASE LockYield(t)
  <2>1. pc' \in [Threads -> Labels] /\ ip' = ip
    BY <1>8, ControlType DEF LockYield, Labels
  <2>2. context' \in [Threads -> {"none", "saved", "scheduler"}] /\ cpu' = "window"
        /\ interrupt_disabled' = 0
    BY <1>8, ControlType DEF LockYield
  <2> QED
    BY <1>8, <2>1, <2>2 DEF TypeOK, LockYield, sched, pools, mutexes, ghosts
<1>9. CASE LockOwn(t)
  <2>1. pc' \in [Threads -> Labels] /\ ip' = ip
    BY <1>9, ControlType DEF LockOwn, Labels
  <2> QED
    BY <1>9, <2>1 DEF TypeOK, LockOwn, machine, sched, tcbs, pools, ghosts
<1>10. CASE LockAssert(t)
  <2> DEFINE A == /\ in_cs' = [in_cs EXCEPT ![t] = @ \cup {Arg(t)}]
                  /\ Return(t)
                  /\ UNCHANGED <<machine, sched, tcbs, pools, heap, local, mutexes, joined>>
  <2>1. CASE A
    <3>1. pc' \in [Threads -> Labels] /\ ip' \in [Threads -> Nat \ {0}]
      BY <2>1, ControlType
    <3>2. in_cs' \in [Threads -> SUBSET Mutexes]
      BY <1>10, <2>1, ArgType DEF LockAssert, TypeOK
    <3> QED
      BY <2>1, <3>1, <3>2 DEF TypeOK, machine, sched, tcbs, pools, mutexes
  <2>2. A \/ Die("aborted")
    BY <1>10, Zenon DEF LockAssert
  <2> QED
    BY <2>1, <2>2, DieType
<1> QED
  BY <1>1, <1>2, <1>3, <1>4, <1>5, <1>6, <1>7, <1>8, <1>9, <1>10 DEF LockStep

\* Every statement of worker_mutex_unlock, unblock_threads included, keeps the types.
LEMMA UnlockType ==
  ASSUME TypeOK, NEW t \in Threads, UnlockStep(t)
  PROVE  TypeOK'
<1>1. CASE UnlockCheck(t)
  <2>1. pc' \in [Threads -> Labels] /\ ip' \in [Threads -> Nat \ {0}]
    BY <1>1, ControlType DEF UnlockCheck, Labels, TypeOK
  <2>2. in_cs' \in [Threads -> SUBSET Mutexes]
    BY <1>1 DEF UnlockCheck, TypeOK
  <2> QED
    BY <1>1, <2>1, <2>2 DEF TypeOK, UnlockCheck, machine, sched, tcbs, pools, mutexes
<1>2. CASE UnlockClear(t)
  <2>1. pc' \in [Threads -> Labels] /\ ip' = ip
    BY <1>2, ControlType DEF UnlockClear, Labels
  <2> QED
    BY <1>2, <2>1 DEF TypeOK, UnlockClear, machine, sched, tcbs, pools, ghosts
<1>3. CASE UnlockOwner(t)
  <2>1. pc' \in [Threads -> Labels] /\ ip' = ip
    BY <1>3, ControlType DEF UnlockOwner, Labels
  <2> QED
    BY <1>3, <2>1 DEF TypeOK, UnlockOwner, machine, sched, tcbs, pools, ghosts
<1>4. CASE UnlockTest(t)
  <2> DEFINE head == heap.queue[wait_queue(Arg(t))].head
             A == /\ local' = [local EXCEPT ![t] = head]
                  /\ IF head = NoNode THEN Return(t) ELSE Goto(t, "unblock")
                  /\ UNCHANGED <<machine, sched, tcbs, pools, heap, mutexes, ghosts>>
  <2>1. CASE A
    <3>1. head \in NodePtr
      BY <1>4, ArgType, ConstantTypes DEF UnlockTest, TypeOK, Heap, Queue
    <3>2. pc' \in [Threads -> Labels] /\ ip' \in [Threads -> Nat \ {0}]
      BY <2>1, ControlType DEF Labels, TypeOK
    <3> HIDE DEF head
    <3> QED
      BY <2>1, <3>1, <3>2 DEF TypeOK, NodePtr, machine, sched, tcbs, pools, mutexes, ghosts
  <2>2. A \/ Die("undefined")
    BY <1>4, Zenon DEF UnlockTest
  <2> QED
    BY <2>1, <2>2, DieType
<1>5. CASE Unblock(t)
  <2> DEFINE w == ThreadOf(local[t])
             A == /\ heap' = WakeHeap(w)
                  /\ status' = WakeStatus(w)
                  /\ local' = [local EXCEPT ![t] = heap.next[local[t]]]
                  /\ UNCHANGED <<machine, sched, waiting_thread, priority, slice_used,
                                 context, pools, pc, ip, mutexes, ghosts>>
  <2>1. CASE A
    <3>1. heap' \in Heap
      BY <2>1, WakeType
    <3>2. status' \in [Threads -> {"none", "ready", "running", "blocked", "finished", "freed"}]
      BY <2>1, WakeStatusType
    <3>3. local[t] \in Nodes
      BY <1>5 DEF Unblock, TypeOK
    <3>4. heap.next[local[t]] \in NodePtr
      BY <3>3 DEF TypeOK, Heap
    <3> QED
      BY <2>1, <3>1, <3>2, <3>4 DEF TypeOK, NodePtr, machine, sched, pools, mutexes, ghosts
  <2>2. A \/ Die("undefined") \/ UNCHANGED vars
    BY <1>5, Zenon DEF Unblock, Wake, Into, Walk
  <2> QED
    BY <2>1, <2>2, UnchangedType, DieType
<1>6. CASE UnlockEmpty(t)
  <2>1. CASE Die("undefined")
    BY <2>1, DieType
  <2>2. CASE ~Die("undefined")
    <3>1. pc' \in [Threads -> Labels] /\ ip' \in [Threads -> Nat \ {0}]
      BY <1>6, <2>2, ControlType DEF UnlockEmpty
    <3>2. heap' \in Heap
      <4>1. heap' = [heap EXCEPT !.queue[wait_queue(Arg(t))] = Empty]
        BY <1>6, <2>2 DEF UnlockEmpty
      <4>2. heap \in Heap /\ Empty \in Queue
        BY DEF TypeOK, Empty, Queue, NodePtr
      <4> QED
        BY <4>1, <4>2 DEF Heap
    <3> QED
      BY <1>6, <2>2, <3>1, <3>2 DEF TypeOK, UnlockEmpty, machine, sched, tcbs, pools, mutexes, ghosts
  <2> QED
    BY <2>1, <2>2
<1>7. CASE Destroy(t)
  <2> DEFINE A == /\ destroyed' = [destroyed EXCEPT ![Arg(t)] = @ \/ is_locked[Arg(t)] = 0]
                  /\ Return(t)
                  /\ UNCHANGED <<machine, sched, tcbs, pools, heap, local, is_locked, owner, ghosts>>
  <2>1. CASE A
    <3>1. pc' \in [Threads -> Labels] /\ ip' \in [Threads -> Nat \ {0}]
      BY <2>1, ControlType
    <3>2. destroyed' \in [Mutexes -> BOOLEAN]
      BY <2>1, Zenon DEF TypeOK
    <3> QED
      BY <2>1, <3>1, <3>2 DEF TypeOK, machine, sched, tcbs, pools, ghosts
  <2>2. A \/ Die("undefined")
    BY <1>7, Zenon DEF Destroy
  <2> QED
    BY <2>1, <2>2, DieType
<1> QED
  BY <1>1, <1>2, <1>3, <1>4, <1>5, <1>6, <1>7 DEF UnlockStep

\* Every path of worker_join keeps the types.
LEMMA JoinType ==
  ASSUME TypeOK, NEW t \in Threads, Join(t) \/ JoinReturn(t)
  PROVE  TypeOK'
<1>1. CASE Join(t)
  <2> DEFINE j == Arg(t)
  <2>1. j \in Threads
    BY <1>1, ArgType DEF Join
  <2>2. CASE JoinMissing(t, j)
    <3>1. pc' \in [Threads -> Labels] /\ ip' \in [Threads -> Nat \ {0}]
      BY <2>2, ControlType DEF JoinMissing
    <3>2. joined' \in [Threads -> SUBSET Threads]
      BY <2>1, <2>2 DEF JoinMissing, TypeOK
    <3> QED
      BY <2>2, <3>1, <3>2 DEF TypeOK, JoinMissing, sched, tcbs, pools, mutexes
  <2>3. CASE JoinTaken(t)
    <3>1. pc' \in [Threads -> Labels] /\ ip' \in [Threads -> Nat \ {0}]
      BY <2>3, ControlType DEF JoinTaken
    <3> QED
      BY <2>3, <3>1 DEF TypeOK, JoinTaken, sched, tcbs, pools, mutexes, ghosts
  <2>4. CASE JoinBlock(t, j)
    <3> DEFINE A == /\ waiting_thread' = [waiting_thread EXCEPT ![j] = t]
                    /\ status' = [status EXCEPT ![t] = "blocked"]
                    /\ heap' = Enqueue(heap, waiting_queue, running_node)
                    /\ SwitchOut(t)
                    /\ Goto(t, "join_return")
                    /\ UNCHANGED <<process, sched, priority, slice_used, pools, local,
                                   mutexes, ghosts>>
    <3>1. CASE A
      <4>1. heap' \in Heap
        BY <3>1, HeapType, EnqueueType DEF TypeOK, NodePtr
      <4>2. pc' \in [Threads -> Labels] /\ ip' = ip
        BY <3>1, ControlType DEF Labels
      <4>3. context' \in [Threads -> {"none", "saved", "scheduler"}] /\ cpu' = "window"
            /\ interrupt_disabled' = 0
        BY <3>1, ControlType
      <4> QED
        BY <2>1, <3>1, <4>1, <4>2, <4>3 DEF TypeOK, sched, pools, mutexes, ghosts
    <3>2. A \/ Die("undefined") \/ UNCHANGED vars
      BY <2>4, Zenon DEF JoinBlock, Into, Walk
    <3> QED
      BY <3>1, <3>2, UnchangedType, DieType
  <2>5. JoinMissing(t, j) \/ JoinTaken(t) \/ JoinBlock(t, j) \/ Die("undefined") \/ UNCHANGED vars
    BY <1>1, Zenon DEF Join, Walk
  <2> QED
    BY <2>2, <2>3, <2>4, <2>5, UnchangedType, DieType
<1>2. CASE JoinReturn(t)
  <2>1. pc' \in [Threads -> Labels] /\ ip' \in [Threads -> Nat \ {0}]
    BY <1>2, ControlType DEF JoinReturn
  <2>2. joined' \in [Threads -> SUBSET Threads]
    BY <1>2, ArgType DEF JoinReturn, TypeOK
  <2> QED
    BY <1>2, <2>1, <2>2 DEF TypeOK, JoinReturn, sched, tcbs, pools, mutexes
<1> QED
  BY <1>1, <1>2

\* worker_yield, worker_exit, the return of main and the tick handler keep the types.
LEMMA SwitchType ==
  ASSUME TypeOK, NEW t \in Threads,
         Yield(t) \/ Exit(t) \/ MainReturn \/ Tick(t) \/ TickInScheduler
  PROVE  TypeOK'
<1>1. SwitchOut(t) => /\ context' \in [Threads -> {"none", "saved", "scheduler"}]
                      /\ cpu' = "window" /\ interrupt_disabled' = 0
  BY ControlType
<1>2. CASE Yield(t)
  <2>1. pc' \in [Threads -> Labels] /\ ip' \in [Threads -> Nat \ {0}]
    BY <1>2, ControlType DEF Yield
  <2> QED
    BY <1>1, <1>2, <2>1 DEF TypeOK, Yield, sched, pools, mutexes, ghosts
<1>3. CASE Exit(t)
  <2>1. CASE Die("aborted")
    BY <2>1, DieType
  <2>2. CASE ~Die("aborted")
    <3>1. pc' \in [Threads -> Labels] /\ ip' = ip
      BY <1>3, <2>2, ControlType DEF Exit, Labels
    <3> QED
      BY <1>1, <1>3, <2>2, <3>1 DEF TypeOK, Exit, sched, pools, mutexes, ghosts
  <2> QED
    BY <2>1, <2>2
<1>4. CASE MainReturn
  BY <1>4, DieType DEF MainReturn
<1>5. CASE Tick(t)
  BY <1>1, <1>5 DEF TypeOK, Tick, sched, pools, code, mutexes, ghosts
<1>6. CASE TickInScheduler
  <2>1. CASE Die("undefined")
    BY <2>1, DieType
  <2>2. CASE ~Die("undefined")
    BY <1>6, <2>2 DEF TypeOK, TickInScheduler, sched, pools, code, mutexes, ghosts
  <2> QED
    BY <2>1, <2>2
<1> QED
  BY <1>2, <1>3, <1>4, <1>5, <1>6

\* A dispatched node is a node, and for sched_rr the head of the ready queue.
LEMMA DispatchType ==
  ASSUME TypeOK, NEW n \in Nodes, Dispatch(n),
         Scheduler = "rr" => heap.queue[ready_queue].head # NoNode
  PROVE  TypeOK'
<1> DEFINE t == ThreadOf(n)
           h == IF Scheduler = "rr" THEN Pop(heap, ready_queue) ELSE heap
           A == /\ heap' = h
                /\ status' = [status EXCEPT ![t] = "running"]
                /\ running_thread' = t /\ running_node' = n
                /\ sched_next' = NoNode
                /\ cpu' = "resume" /\ interrupt_disabled' = 0
                /\ UNCHANGED <<process, schedule_cycles, waiting_thread, priority, slice_used,
                               context, pools, code, mutexes, ghosts>>
<1>1. CASE A
  <2>1. h \in Heap
    BY HeapType, PopType, ConstantTypes DEF TypeOK
  <2>2. t \in Threads
    BY ConstantTypes
  <2> HIDE DEF h, t
  <2> QED
    BY <1>1, <2>1, <2>2 DEF TypeOK, NodePtr, pools, code, mutexes, ghosts
<1>2. A \/ Die("undefined") \/ Die("aborted")
  BY Zenon DEF Dispatch
<1> QED
  BY <1>1, <1>2, DieType

\* What follows a thread that has finished.
LEMMA ReleaseType ==
  ASSUME TypeOK, NEW prev \in Threads, NEW ACTION A, Release(prev, A)
  PROVE  \/ /\ heap' \in Heap
            /\ status' \in [Threads -> {"none", "ready", "running", "blocked", "finished", "freed"}]
            /\ A
         \/ Die("undefined") \/ UNCHANGED vars
<1> DEFINE w == waiting_thread[prev]
           B == /\ heap' = WakeHeap(w)
                /\ status' = [WakeStatus(w) EXCEPT ![prev] = "freed"]
                /\ A
<1>1. B \/ Die("undefined") \/ UNCHANGED vars
  BY Zenon DEF Release, Wake, Into, Walk
<1>2. WakeHeap(w) \in Heap
  BY WakeType
<1>3. WakeStatus(w) \in [Threads -> {"none", "ready", "running", "blocked", "finished", "freed"}]
  BY WakeStatusType
<1> HIDE DEF w
<1> QED
  BY <1>1, <1>2, <1>3

\* What the schedulers do with the thread that gave up the CPU keeps the types.
LEMMA RequeueType ==
  ASSUME TypeOK, RRRequeue \/ MLFQRequeue
  PROVE  TypeOK'
<1> DEFINE prev == running_thread
<1>0. prev \in Threads
  BY DEF TypeOK
<1>1. CASE RRRequeue
  <2> DEFINE Chosen == /\ cpu' = "rr_pick"
                       /\ interrupt_disabled' = 1
                       /\ UNCHANGED <<process, sched, waiting_thread, priority, slice_used,
                                      context, pools, code, mutexes, ghosts>>
             Ready == /\ heap' = Enqueue(heap, ready_queue, running_node)
                      /\ status' = [status EXCEPT ![prev] = "ready"]
                      /\ Chosen
             Typed == /\ heap' \in Heap
                      /\ status' \in [Threads -> {"none", "ready", "running", "blocked",
                                                  "finished", "freed"}]
                      /\ Chosen
  <2>1. \/ Release(prev, Chosen)
        \/ UNCHANGED <<heap, status>> /\ Chosen
        \/ Ready \/ Die("undefined") \/ UNCHANGED vars
    BY <1>1, Zenon DEF RRRequeue, Into, Walk
  <2>2. Release(prev, Chosen) => Typed \/ Die("undefined") \/ UNCHANGED vars
    BY <1>0, ReleaseType, Zenon
  <2>3. UNCHANGED <<heap, status>> /\ Chosen => Typed
    BY DEF TypeOK
  <2>4. Ready => Typed
    <3>1. Enqueue(heap, ready_queue, running_node) \in Heap
      BY HeapType, EnqueueType DEF TypeOK, NodePtr
    <3>2. [status EXCEPT ![prev] = "ready"] \in
             [Threads -> {"none", "ready", "running", "blocked", "finished", "freed"}]
      BY DEF TypeOK
    <3> QED
      BY <3>1, <3>2
  <2>5. Typed => TypeOK'
    BY DEF TypeOK, sched, pools, code, mutexes, ghosts
  <2> QED
    BY <2>1, <2>2, <2>3, <2>4, <2>5, UnchangedType, DieType
<1>2. CASE MLFQRequeue
  <2> DEFINE cycles == IF schedule_cycles < BoostCycles THEN schedule_cycles + 1 ELSE BoostCycles
             Chosen == /\ schedule_cycles' = cycles
                       /\ cpu' = IF cycles >= BoostCycles THEN "mlfq_boost" ELSE "mlfq_pick"
                       /\ sched_next' = NoNode
                       /\ UNCHANGED <<process, interrupt_disabled, running_thread, running_node,
                                      waiting_thread, context, pools, code, mutexes, ghosts>>
             Typed == /\ heap' \in Heap
                      /\ status' \in [Threads -> {"none", "ready", "running", "blocked",
                                                  "finished", "freed"}]
                      /\ priority' \in [Threads -> 0..(Levels - 1)]
                      /\ slice_used' \in [Threads -> BOOLEAN]
                      /\ Chosen
  <2>1. PICK used \in BOOLEAN :
          LET lower == used /\ priority[prev] > Levels - 1
              level == IF lower THEN priority[prev] + 1 ELSE priority[prev]
          IN  CASE status[prev] = "finished" ->
                     Release(prev, Chosen /\ UNCHANGED <<priority, slice_used>>)
                [] status[prev] = "running" ->
                     Into(MLFQ_queue[level],
                          /\ heap' = Enqueue(heap, MLFQ_queue[level], running_node)
                          /\ status' = [status EXCEPT ![prev] = "ready"]
                          /\ priority' = [priority EXCEPT ![prev] = level]
                          /\ slice_used' = [slice_used EXCEPT ![prev] = used /\ ~lower]
                          /\ Chosen)
                [] OTHER ->
                     /\ slice_used' = [slice_used EXCEPT ![prev] = used]
                     /\ UNCHANGED <<heap, status, priority>>
                     /\ Chosen
    BY <1>2, Zenon DEF MLFQRequeue
  <2> DEFINE lower == used /\ priority[prev] > Levels - 1
             level == IF lower THEN priority[prev] + 1 ELSE priority[prev]
             Ready == /\ heap' = Enqueue(heap, MLFQ_queue[level], running_node)
                      /\ status' = [status EXCEPT ![prev] = "ready"]
                      /\ priority' = [priority EXCEPT ![prev] = level]
                      /\ slice_used' = [slice_used EXCEPT ![prev] = used /\ ~lower]
                      /\ Chosen
             Other == /\ slice_used' = [slice_used EXCEPT ![prev] = used]
                      /\ UNCHANGED <<heap, status, priority>>
                      /\ Chosen
  <2>2. \/ Release(prev, Chosen /\ UNCHANGED <<priority, slice_used>>)
        \/ Ready \/ Other \/ Die("undefined") \/ UNCHANGED vars
    BY <2>1, Zenon DEF Into, Walk
  <2>3. Release(prev, Chosen /\ UNCHANGED <<priority, slice_used>>)
          => Typed \/ Die("undefined") \/ UNCHANGED vars
    <3> HIDE DEF Chosen
    <3>1. Release(prev, Chosen /\ UNCHANGED <<priority, slice_used>>)
            => \/ /\ heap' \in Heap
                  /\ status' \in [Threads -> {"none", "ready", "running", "blocked",
                                              "finished", "freed"}]
                  /\ Chosen /\ UNCHANGED <<priority, slice_used>>
               \/ Die("undefined") \/ UNCHANGED vars
      BY <1>0, ReleaseType, Zenon
    <3>2. UNCHANGED <<priority, slice_used>>
            => /\ priority' \in [Threads -> 0..(Levels - 1)]
               /\ slice_used' \in [Threads -> BOOLEAN]
      BY DEF TypeOK
    <3> QED
      BY <3>1, <3>2
  <2>4. lower = FALSE /\ level \in 0..(Levels - 1)
    BY <1>0, WorkerAssumption DEF TypeOK
  <2>5. Ready => Typed
    <3>1. Enqueue(heap, MLFQ_queue[level], running_node) \in Heap
      BY HeapType, EnqueueType DEF TypeOK, NodePtr
    <3>2. [status EXCEPT ![prev] = "ready"] \in
             [Threads -> {"none", "ready", "running", "blocked", "finished", "freed"}]
      BY DEF TypeOK
    <3>3. [priority EXCEPT ![prev] = level] \in [Threads -> 0..(Levels - 1)]
      BY <2>4 DEF TypeOK
    <3>4. [slice_used EXCEPT ![prev] = used /\ ~lower] \in [Threads -> BOOLEAN]
      BY Zenon DEF TypeOK
    <3> HIDE DEF Chosen, lower, level
    <3> QED
      BY <3>1, <3>2, <3>3, <3>4
  <2>6. Other => Typed
    <3>1. [slice_used EXCEPT ![prev] = used] \in [Threads -> BOOLEAN]
      BY Zenon DEF TypeOK
    <3> HIDE DEF Chosen
    <3> QED
      BY <3>1 DEF TypeOK
  <2>7. Typed => TypeOK'
    <3>1. cycles \in 0..BoostCycles
      BY WorkerAssumption DEF TypeOK
    <3> HIDE DEF cycles
    <3> QED
      BY <3>1 DEF TypeOK, NodePtr, pools, code, mutexes, ghosts
  <2> HIDE DEF Ready, Other, Typed
  <2> QED
    BY <2>2, <2>3, <2>5, <2>6, <2>7, UnchangedType, DieType
<1> QED
  BY <1>1, <1>2

\* An occupied level of the MLFQ is one of its levels.
LEMMA OccupiedType ==
  ASSUME TypeOK, NEW S, S \subseteq 0..(Levels - 1), Occupied(S) # {}
  PROVE  LET q == MLFQ_queue[FirstLevel(Occupied(S))]
         IN  q \in QueueNames /\ heap.queue[q].head \in Nodes
<1> DEFINE i == FirstLevel(Occupied(S))
<1>1. Occupied(S) \subseteq 0..(Levels - 1)
  BY DEF Occupied
<1>2. i \in Occupied(S)
  BY <1>1, FirstLevelType
<1>3. heap.queue[MLFQ_queue[i]].head # NoNode
  BY <1>2 DEF Occupied
<1>4. MLFQ_queue[i] \in QueueNames
  BY <1>1, <1>2, ConstantTypes
<1> HIDE DEF i
<1>5. heap.queue[MLFQ_queue[i]].head \in Nodes
  BY <1>3, <1>4 DEF TypeOK, Heap, Queue, NodePtr
<1> QED
  BY <1>4, <1>5 DEF i

\* Every stage of sched_rr and sched_mlfq keeps the types.
LEMMA SchedulerType ==
  ASSUME TypeOK, SchedulerStep
  PROVE  TypeOK'
<1>1. CASE RRPick
  <2> DEFINE head == heap.queue[ready_queue].head
  <2>1. CASE head # NoNode
    <3>1. head \in Nodes
      BY <2>1, ConstantTypes DEF TypeOK, Heap, Queue, NodePtr
    <3>2. Dispatch(head)
      BY <1>1, <2>1, Zenon DEF RRPick
    <3> QED
      BY <2>1, <3>1, <3>2, DispatchType
  <2>2. CASE head = NoNode
    BY <1>1, <2>2 DEF RRPick, TypeOK, sched, tcbs, pools, code, mutexes, ghosts
  <2> QED
    BY <2>1, <2>2
<1>2. CASE MLFQBoost
  <2> DEFINE S == 1..(Levels - 1)
             q == MLFQ_queue[FirstLevel(Occupied(S))]
             n == heap.queue[q].head
  <2>1. CASE Occupied(S) # {}
    <3>1. S \subseteq 0..(Levels - 1)
      BY WorkerAssumption
    <3>2. q \in QueueNames /\ n \in Nodes
      BY <2>1, <3>1, OccupiedType, Zenon
    <3> HIDE DEF q, S
    <3>3. heap' = Enqueue(Pop(heap, q), MLFQ_queue[0], n)
          /\ priority' = [priority EXCEPT ![ThreadOf(n)] = 0]
          /\ UNCHANGED <<cpu, schedule_cycles>>
      BY <1>2, <2>1, Zenon DEF MLFQBoost, q, S
    <3>4. Pop(heap, q) \in HeapOf(QueueNames)
      BY <3>2, HeapType, PopType, NoNodeAssumption DEF TypeOK
    <3>5. heap' \in Heap
      BY <3>2, <3>3, <3>4, HeapType, EnqueueType DEF NodePtr
    <3>6. priority' \in [Threads -> 0..(Levels - 1)]
      BY <3>3, ConstantTypes DEF TypeOK
    <3> QED
      BY <1>2, <3>3, <3>5, <3>6 DEF MLFQBoost, TypeOK, pools, code, mutexes, ghosts
  <2>2. CASE Occupied(S) = {}
    <3>1. /\ cpu' = "mlfq_pick" /\ schedule_cycles' = 0
          /\ UNCHANGED <<heap, priority>>
      BY <1>2, <2>2, Zenon DEF MLFQBoost
    <3>2. 0 \in 0..BoostCycles
      BY WorkerAssumption
    <3> HIDE DEF S
    <3> QED
      BY <1>2, <3>1, <3>2 DEF MLFQBoost, TypeOK, pools, code, mutexes, ghosts
  <2> QED
    BY <2>1, <2>2
<1>3. CASE MLFQPick
  <2> DEFINE S == 0..(Levels - 1)
             q == MLFQ_queue[FirstLevel(Occupied(S))]
  <2>1. CASE Occupied(S) # {}
    <3>1. q \in QueueNames /\ heap.queue[q].head \in Nodes
      BY <2>1, OccupiedType, Zenon
    <3> HIDE DEF q, S
    <3>2. heap' = Pop(heap, q) /\ sched_next' = heap.queue[q].head /\ cpu' = "mlfq_run"
      BY <1>3, <2>1, Zenon DEF MLFQPick, q, S
    <3>3. heap' \in Heap
      BY <3>1, <3>2, HeapType, PopType, NoNodeAssumption DEF TypeOK
    <3>4. sched_next' \in Nodes /\ sched_next' # NoNode
      BY <3>1, <3>2, NoNodeAssumption
    <3> QED
      BY <1>3, <3>2, <3>3, <3>4
      DEF MLFQPick, TypeOK, NodePtr, tcbs, pools, code, mutexes, ghosts
  <2>2. CASE Occupied(S) = {}
    BY <1>3, <2>2 DEF MLFQPick, TypeOK, tcbs, pools, code, mutexes, ghosts
  <2> QED
    BY <2>1, <2>2
<1>4. CASE MLFQRun
  <2>1. sched_next \in Nodes
    BY <1>4 DEF MLFQRun, InScheduler, TypeOK, NodePtr
  <2>2. Dispatch(sched_next) /\ Scheduler = "mlfq"
    BY <1>4, Zenon DEF MLFQRun
  <2> QED
    BY <2>1, <2>2, DispatchType
<1>5. CASE Fallback
  <2>1. CASE Die("undefined")
    BY <2>1, DieType
  <2>2. CASE ~Die("undefined")
    BY <1>5, <2>2, ConstantTypes
    DEF Fallback, InScheduler, TypeOK, NodePtr, code, mutexes, ghosts
  <2> QED
    BY <2>1, <2>2
<1>6. CASE Resume
  <2>1. CASE Die("undefined")
    BY <2>1, DieType
  <2>2. CASE ~Die("undefined")
    BY <1>6, <2>2 DEF Resume, TypeOK, sched, tcbs, pools, code, mutexes, ghosts
  <2> QED
    BY <2>1, <2>2
<1>7. CASE RRRequeue \/ MLFQRequeue
  BY <1>7, RequeueType
<1> QED
  BY <1>1, <1>2, <1>3, <1>4, <1>5, <1>6, <1>7 DEF SchedulerStep

\* Type correctness of the whole library.
THEOREM TypeInvariant == Spec => []TypeOK
<1>1. Init => TypeOK
  <2>1. [next |-> [n \in Nodes |-> NoNode], queue |-> [q \in QueueNames |-> Empty]] \in Heap
    BY DEF Heap, Queue, NodePtr, Empty
  <2>2. "user" \in Labels
    BY DEF Labels
  <2> QED
    BY <2>1, <2>2, ConstantTypes, WorkerAssumption
    DEF Init, TypeOK, Threads, Main, NodePtr, NoThread
<1>2. TypeOK /\ [Next]_vars => TypeOK'
  <2> SUFFICES ASSUME TypeOK, [Next]_vars
               PROVE  TypeOK'
    OBVIOUS
  <2>1. ASSUME NEW t \in Threads, ThreadStep(t) \/ Tick(t)
        PROVE  TypeOK'
    BY <2>1, CreateType, LockType, UnlockType, JoinType, SwitchType DEF ThreadStep
  <2>2. CASE SchedulerStep
    BY <2>2, SchedulerType
  <2>3. CASE TickInScheduler
    BY <2>3, ConstantTypes, SwitchType
  <2>4. CASE Stopped \/ UNCHANGED vars
    BY <2>4, UnchangedType DEF Stopped
  <2> QED
    BY <2>1, <2>2, <2>3, <2>4 DEF Next
<1> QED
  BY <1>1, <1>2, PTL DEF Spec

-----------------------------------------------------------------------------
\* Mutual exclusion.

\* The places of a call at which a thread is on its way into or out of a critical section.
Passing == {"lock_own", "lock_assert", "unlock_clear", "unlock_owner"}

\* A step of t that stays out of those places and leaves the mutexes alone.
Quiet(t) == /\ UNCHANGED <<is_locked, owner, in_cs>>
            /\ pc[t] \notin Passing /\ pc'[t] \notin Passing
            /\ \A u \in Threads \ {t} : pc'[u] = pc[u] /\ ip'[u] = ip[u]

\* Such a step keeps MutexInv.
LEMMA QuietStep ==
  ASSUME MutexInv, NEW t \in Threads, Quiet(t)
  PROVE  MutexInv'
<1>1. \A u \in Threads, m \in Mutexes : Holds(u, m)' <=> Holds(u, m)
  BY DEF Quiet, Holds, Arg, Passing
<1>2. \A u \in Threads, m \in Mutexes :
        (pc[u] = "unlock_owner" /\ Arg(u) = m)' <=> (pc[u] = "unlock_owner" /\ Arg(u) = m)
  BY DEF Quiet, Arg, Passing
<1>3. \A u \in Threads : (pc[u] = "unlock_clear" => Arg(u) \notin in_cs[u])'
  BY DEF MutexInv, ClearLeft, Quiet, Arg, Passing
<1>4. is_locked' = is_locked /\ owner' = owner
  BY DEF Quiet
<1> QED
  BY <1>1, <1>2, <1>3, <1>4 DEF MutexInv, OneHolder, HeldLocked, OwnerHolds, ClearLeft

\* A step that leaves the threads' places and the mutexes alone keeps MutexInv.
LEMMA StillStep ==
  ASSUME MutexInv, UNCHANGED <<code, is_locked, owner, in_cs>>
  PROVE  MutexInv'
BY DEF MutexInv, OneHolder, HeldLocked, OwnerHolds, ClearLeft, Holds, Arg, code

\* The end of the process is such a step.
LEMMA DieStill ==
  ASSUME NEW how, Die(how) \/ UNCHANGED vars
  PROVE  UNCHANGED <<code, is_locked, owner, in_cs>>
BY DEF Die, vars, code, mutexes, ghosts

\* The steps that move a thread into or out of a critical section.
LEMMA PassingStep ==
  ASSUME TypeOK, MutexInv, NEW t \in Threads,
         \/ LockTas(t) \/ LockCheck(t) \/ LockOwn(t) \/ LockAssert(t)
         \/ UnlockCheck(t) \/ UnlockClear(t) \/ UnlockOwner(t)
  PROVE  MutexInv'
<1> DEFINE m == Arg(t)
<1>0. /\ pc \in [Threads -> Labels] /\ ip \in [Threads -> Nat \ {0}]
      /\ is_locked \in [Mutexes -> {0, 1}]
      /\ owner \in [Mutexes -> Threads \cup {NoThread}]
      /\ in_cs \in [Threads -> SUBSET Mutexes]
  BY DEF TypeOK
<1>1. CASE LockTas(t)
  <2>1. /\ m \in Mutexes /\ pc[t] \in {"user", "lock_tas"}
        /\ is_locked' = [is_locked EXCEPT ![m] = 1]
        /\ pc' = [pc EXCEPT ![t] = IF is_locked[m] = 1 THEN "lock_check" ELSE "lock_own"]
        /\ ip' = ip /\ owner' = owner /\ in_cs' = in_cs
    BY <1>1, ArgType DEF LockTas, Runs, Goto, ghosts
  <2>2. \A u \in Threads, k \in Mutexes :
          Holds(u, k)' => Holds(u, k) \/ (u = t /\ k = m /\ is_locked[m] = 0)
    BY <1>0, <2>1 DEF Holds, Arg
  <2>3. \A u \in Threads, k \in Mutexes : Holds(u, k) => Holds(u, k)'
    BY <1>0, <2>1 DEF Holds, Arg
  <2>4. OneHolder'
    BY <2>1, <2>2 DEF MutexInv, OneHolder, HeldLocked
  <2>5. HeldLocked'
    BY <1>0, <2>1, <2>2 DEF MutexInv, HeldLocked
  <2>6. OwnerHolds'
    BY <1>0, <2>1, <2>3 DEF MutexInv, OwnerHolds, Arg
  <2>7. ClearLeft'
    BY <1>0, <2>1 DEF MutexInv, ClearLeft, Arg
  <2> QED
    BY <2>4, <2>5, <2>6, <2>7 DEF MutexInv
<1>2. CASE LockCheck(t)
  <2>1. /\ m \in Mutexes /\ pc[t] = "lock_check"
        /\ is_locked' = is_locked /\ owner' = owner
    BY <1>2, ArgType DEF LockCheck, Runs, mutexes
  <2>2. CASE owner[m] = t
    <3>1. m \in in_cs[t]
      BY <2>1, <2>2 DEF MutexInv, OwnerHolds, Holds
    <3>2. in_cs' = in_cs /\ pc' = [pc EXCEPT ![t] = "user"] /\ ip' = [ip EXCEPT ![t] = @ + 1]
      <4>1. in_cs' = [in_cs EXCEPT ![t] = @ \cup {m}] /\ Return(t)
        BY <1>2, <2>2, Zenon DEF LockCheck
      <4>2. in_cs[t] \cup {m} = in_cs[t]
        BY <3>1
      <4>3. in_cs' = in_cs
        BY <1>0, <4>1, <4>2
      <4> QED
        BY <4>1, <4>3 DEF Return
    <3>3. Quiet(t)
      BY <1>0, <2>1, <3>2 DEF Quiet, Passing
    <3> QED
      BY <3>3, QuietStep
  <2>3. CASE owner[m] # t
    <3>1. Quiet(t)
      BY <1>0, <1>2, <2>1, <2>3 DEF LockCheck, Goto, Quiet, Passing
    <3> QED
      BY <3>1, QuietStep
  <2> QED
    BY <2>2, <2>3
<1>3. CASE LockOwn(t)
  <2>1. /\ m \in Mutexes /\ pc[t] = "lock_own"
        /\ owner' = [owner EXCEPT ![m] = t] /\ is_locked' = [is_locked EXCEPT ![m] = 1]
        /\ pc' = [pc EXCEPT ![t] = "lock_assert"] /\ ip' = ip /\ in_cs' = in_cs
    BY <1>3, ArgType DEF LockOwn, Runs, Goto, ghosts
  <2>2. \A u \in Threads, k \in Mutexes : Holds(u, k)' <=> Holds(u, k)
    BY <1>0, <2>1 DEF Holds, Arg
  <2>3. Holds(t, m)
    BY <2>1 DEF Holds
  <2>4. OneHolder' /\ HeldLocked'
    BY <1>0, <2>1, <2>2 DEF MutexInv, OneHolder, HeldLocked
  <2>5. OwnerHolds'
    BY <1>0, <2>1, <2>2, <2>3 DEF MutexInv, OwnerHolds, Arg
  <2>6. ClearLeft'
    BY <1>0, <2>1 DEF MutexInv, ClearLeft, Arg
  <2> QED
    BY <2>4, <2>5, <2>6 DEF MutexInv
<1>4. CASE LockAssert(t)
  <2>1. CASE Die("aborted")
    BY <2>1, DieStill, StillStep
  <2>2. CASE ~Die("aborted")
    <3>1. /\ m \in Mutexes /\ pc[t] = "lock_assert"
          /\ in_cs' = [in_cs EXCEPT ![t] = @ \cup {m}]
          /\ pc' = [pc EXCEPT ![t] = "user"] /\ ip' = [ip EXCEPT ![t] = @ + 1]
          /\ is_locked' = is_locked /\ owner' = owner
      BY <1>4, <2>2, ArgType DEF LockAssert, Runs, Return, mutexes
    <3>2. \A u \in Threads, k \in Mutexes : Holds(u, k)' <=> Holds(u, k)
      BY <1>0, <3>1 DEF Holds, Arg
    <3>3. OneHolder' /\ HeldLocked'
      BY <3>1, <3>2 DEF MutexInv, OneHolder, HeldLocked
    <3>4. OwnerHolds'
      BY <1>0, <3>1, <3>2 DEF MutexInv, OwnerHolds, Arg
    <3>5. ClearLeft'
      BY <1>0, <3>1 DEF MutexInv, ClearLeft, Arg
    <3> QED
      BY <3>3, <3>4, <3>5 DEF MutexInv
  <2> QED
    BY <2>1, <2>2
<1>5. CASE UnlockCheck(t)
  <2>1. /\ m \in Mutexes /\ pc[t] = "user"
        /\ is_locked' = is_locked /\ owner' = owner
    BY <1>5, ArgType DEF UnlockCheck, Runs, mutexes
  <2>2. CASE is_locked[m] = 0 \/ owner[m] # t
    <3>1. Quiet(t)
      BY <1>0, <1>5, <2>1, <2>2 DEF UnlockCheck, Return, Quiet, Passing
    <3> QED
      BY <3>1, QuietStep
  <2>3. CASE ~(is_locked[m] = 0 \/ owner[m] # t)
    <3>1. /\ pc' = [pc EXCEPT ![t] = "unlock_clear"] /\ ip' = ip
          /\ in_cs' = [in_cs EXCEPT ![t] = @ \ {m}]
      BY <1>5, <2>3 DEF UnlockCheck, Goto
    <3>2. m \in in_cs[t]
      BY <2>1, <2>3 DEF MutexInv, OwnerHolds, Holds
    <3>3. \A u \in Threads, k \in Mutexes : Holds(u, k)' <=> Holds(u, k)
      BY <1>0, <2>1, <3>1, <3>2 DEF Holds, Arg
    <3>4. OneHolder' /\ HeldLocked'
      BY <2>1, <3>3 DEF MutexInv, OneHolder, HeldLocked
    <3>5. OwnerHolds'
      BY <1>0, <2>1, <3>1, <3>3 DEF MutexInv, OwnerHolds, Arg
    <3>6. ClearLeft'
      BY <1>0, <2>1, <3>1 DEF MutexInv, ClearLeft, Arg
    <3> QED
      BY <3>4, <3>5, <3>6 DEF MutexInv
  <2> QED
    BY <2>2, <2>3
<1>6. CASE UnlockClear(t)
  <2>1. /\ m \in Mutexes /\ pc[t] = "unlock_clear"
        /\ is_locked' = [is_locked EXCEPT ![m] = 0]
        /\ pc' = [pc EXCEPT ![t] = "unlock_owner"] /\ ip' = ip
        /\ owner' = owner /\ in_cs' = in_cs
    BY <1>6, ArgType DEF UnlockClear, Runs, Goto, ghosts
  <2>2. m \notin in_cs[t] /\ Holds(t, m)
    BY <2>1 DEF MutexInv, ClearLeft, Holds
  <2>3. \A u \in Threads, k \in Mutexes :
          Holds(u, k)' <=> Holds(u, k) /\ ~(u = t /\ k = m)
    BY <1>0, <2>1, <2>2 DEF Holds, Arg
  <2>4. OneHolder'
    BY <2>3 DEF MutexInv, OneHolder
  <2>5. HeldLocked'
    BY <1>0, <2>1, <2>2, <2>3 DEF MutexInv, OneHolder, HeldLocked
  <2>6. OwnerHolds'
    BY <1>0, <2>1, <2>3 DEF MutexInv, OwnerHolds, Arg
  <2>7. ClearLeft'
    BY <1>0, <2>1 DEF MutexInv, ClearLeft, Arg
  <2> QED
    BY <2>4, <2>5, <2>6, <2>7 DEF MutexInv
<1>7. CASE UnlockOwner(t)
  <2>1. /\ m \in Mutexes /\ pc[t] = "unlock_owner"
        /\ owner' = [owner EXCEPT ![m] = NoThread]
        /\ pc' = [pc EXCEPT ![t] = "unlock_test"] /\ ip' = ip
        /\ is_locked' = is_locked /\ in_cs' = in_cs
    BY <1>7, ArgType DEF UnlockOwner, Runs, Goto, ghosts
  <2>2. \A u \in Threads, k \in Mutexes : Holds(u, k)' <=> Holds(u, k)
    BY <1>0, <2>1 DEF Holds, Arg
  <2>3. OneHolder' /\ HeldLocked'
    BY <2>1, <2>2 DEF MutexInv, OneHolder, HeldLocked
  <2>4. OwnerHolds'
    BY <1>0, <2>1, <2>2, ConstantTypes DEF MutexInv, OwnerHolds, Arg
  <2>5. ClearLeft'
    BY <1>0, <2>1 DEF MutexInv, ClearLeft, Arg
  <2> QED
    BY <2>3, <2>4, <2>5 DEF MutexInv
<1> QED
  BY <1>1, <1>2, <1>3, <1>4, <1>5, <1>6, <1>7

\* All other steps of a thread are quiet, or leave its place and the mutexes alone.
LEMMA OtherStep ==
  ASSUME TypeOK, NEW t \in Threads,
         \/ CreateStep(t) \/ Yield(t) \/ Exit(t) \/ Join(t) \/ JoinReturn(t)
         \/ LockEnqueue(t) \/ LockTail(t) \/ LockBlock(t) \/ LockWait(t)
         \/ WaitTail(t) \/ LockYield(t)
         \/ UnlockTest(t) \/ Unblock(t) \/ UnlockEmpty(t) \/ Destroy(t)
  PROVE  Quiet(t) \/ UNCHANGED <<code, is_locked, owner, in_cs>>
<1> DEFINE Alone == UNCHANGED <<is_locked, owner, in_cs>>
           Still == Alone /\ UNCHANGED code
<1>0. pc \in [Threads -> Labels] /\ ip \in [Threads -> Nat \ {0}]
  BY DEF TypeOK
<1>2. \A how : Die(how) \/ UNCHANGED vars => Still
  BY DieStill DEF code
<1>3. CASE CreateStep(t)
  <2>1. Still \/ Quiet(t)
    <3>1. CASE CreateTcb(t)
      BY <1>0, <3>1 DEF CreateTcb, Runs, Goto, Quiet, Passing, mutexes, ghosts
    <3>2. CASE CreateEnqueue(t)
      BY <1>0, <1>2, <3>2 DEF CreateEnqueue, Into, Walk, Runs, Goto, Quiet, Passing, mutexes, ghosts
    <3>3. CASE CreateTail(t)
      BY <1>0, <3>3 DEF CreateTail, Runs, Goto, Quiet, Passing, mutexes, ghosts
    <3>4. CASE CreateContext(t)
      BY <1>0, <3>4 DEF CreateContext, Runs, Return, Quiet, Passing, mutexes, ghosts
    <3> QED
      BY <1>3, <3>1, <3>2, <3>3, <3>4 DEF CreateStep
  <2> QED
    BY <2>1
<1>4. CASE Yield(t) \/ Exit(t) \/ JoinReturn(t)
  <2>1. CASE Yield(t)
    BY <1>0, <2>1 DEF Yield, Runs, Return, Quiet, Passing, mutexes, ghosts
  <2>2. CASE Exit(t)
    <3>1. CASE Die("aborted")
      BY <1>2, <3>1
    <3>2. CASE ~Die("aborted")
      BY <1>0, <2>2, <3>2 DEF Exit, Runs, Goto, Quiet, Passing, mutexes, ghosts
    <3> QED
      BY <3>1, <3>2
  <2>3. CASE JoinReturn(t)
    BY <1>0, <2>3 DEF JoinReturn, Runs, Return, Quiet, Passing, mutexes
  <2> QED
    BY <1>4, <2>1, <2>2, <2>3
<1>5. CASE Join(t)
  <2> DEFINE j == Arg(t)
  <2>1. pc[t] = "user"
    BY <1>5 DEF Join, Runs
  <2>2. JoinMissing(t, j) \/ JoinTaken(t) \/ JoinBlock(t, j) \/ Die("undefined") \/ UNCHANGED vars
    BY <1>5, Zenon DEF Join, Walk
  <2>3. JoinMissing(t, j) \/ JoinTaken(t) => Quiet(t)
    BY <1>0, <2>1 DEF JoinMissing, JoinTaken, Return, Quiet, Passing, mutexes, ghosts
  <2>4. JoinBlock(t, j) => \/ Goto(t, "join_return") /\ UNCHANGED <<mutexes, ghosts>>
                          \/ Die("undefined") \/ UNCHANGED vars
    BY Zenon DEF JoinBlock, Into, Walk
  <2>5. Goto(t, "join_return") /\ UNCHANGED <<mutexes, ghosts>> => Quiet(t)
    BY <1>0, <2>1 DEF Goto, Quiet, Passing, mutexes, ghosts
  <2> QED
    BY <1>2, <2>2, <2>3, <2>4, <2>5
<1>6. CASE LockEnqueue(t) \/ LockTail(t) \/ LockBlock(t) \/ LockWait(t) \/ WaitTail(t) \/ LockYield(t)
  <2>1. CASE LockEnqueue(t)
    <3>1. \/ Goto(t, "lock_tail") /\ UNCHANGED <<mutexes, ghosts>>
          \/ Die("undefined") \/ UNCHANGED vars
      BY <2>1, Zenon DEF LockEnqueue, Into, Walk
    <3>2. pc[t] = "lock_enqueue"
      BY <2>1 DEF LockEnqueue, Runs
    <3>3. Goto(t, "lock_tail") /\ UNCHANGED <<mutexes, ghosts>> => Quiet(t)
      BY <1>0, <3>2 DEF Goto, Quiet, Passing, mutexes, ghosts
    <3> QED
      BY <1>2, <3>1, <3>3
  <2>2. CASE LockTail(t)
    <3>1. CASE Die("undefined")
      BY <1>2, <3>1
    <3>2. CASE ~Die("undefined")
      BY <1>0, <2>2, <3>2 DEF LockTail, Runs, Goto, Quiet, Passing, mutexes, ghosts
    <3> QED
      BY <3>1, <3>2
  <2>3. CASE LockBlock(t)
    BY <1>0, <2>3 DEF LockBlock, Runs, Goto, Quiet, Passing, mutexes, ghosts
  <2>4. CASE LockWait(t)
    <3>1. \/ Goto(t, "wait_tail") /\ UNCHANGED <<mutexes, ghosts>>
          \/ Die("undefined") \/ UNCHANGED vars
      BY <2>4, Zenon DEF LockWait, Into, Walk
    <3>2. pc[t] = "lock_wait"
      BY <2>4 DEF LockWait, Runs
    <3>3. Goto(t, "wait_tail") /\ UNCHANGED <<mutexes, ghosts>> => Quiet(t)
      BY <1>0, <3>2 DEF Goto, Quiet, Passing, mutexes, ghosts
    <3> QED
      BY <1>2, <3>1, <3>3
  <2>5. CASE WaitTail(t)
    BY <1>0, <2>5 DEF WaitTail, Runs, Goto, Quiet, Passing, mutexes, ghosts
  <2>6. CASE LockYield(t)
    BY <1>0, <2>6 DEF LockYield, Runs, Goto, Quiet, Passing, mutexes, ghosts
  <2> QED
    BY <1>6, <2>1, <2>2, <2>3, <2>4, <2>5, <2>6
<1>7. CASE UnlockTest(t) \/ Unblock(t) \/ UnlockEmpty(t) \/ Destroy(t)
  <2>1. CASE UnlockTest(t)
    <3>1. \/ (Return(t) \/ Goto(t, "unblock")) /\ UNCHANGED <<mutexes, ghosts>>
          \/ Die("undefined")
      BY <2>1, Zenon DEF UnlockTest
    <3>2. pc[t] = "unlock_test"
      BY <2>1 DEF UnlockTest, Runs
    <3>3. (Return(t) \/ Goto(t, "unblock")) /\ UNCHANGED <<mutexes, ghosts>> => Quiet(t)
      BY <1>0, <3>2 DEF Return, Goto, Quiet, Passing, mutexes, ghosts
    <3> QED
      BY <1>2, <3>1, <3>3
  <2>2. CASE Unblock(t)
    <3>1. \/ UNCHANGED <<pc, ip, mutexes, ghosts>>
          \/ Die("undefined") \/ UNCHANGED vars
      BY <2>2, Zenon DEF Unblock, Wake, Into, Walk
    <3>2. pc[t] = "unblock"
      BY <2>2 DEF Unblock, Runs
    <3>3. UNCHANGED <<pc, ip, mutexes, ghosts>> => Quiet(t)
      BY <3>2 DEF Quiet, Passing, mutexes, ghosts
    <3> QED
      BY <1>2, <3>1, <3>3
  <2>3. CASE UnlockEmpty(t)
    <3>1. CASE Die("undefined")
      BY <1>2, <3>1
    <3>2. CASE ~Die("undefined")
      BY <1>0, <2>3, <3>2 DEF UnlockEmpty, Runs, Return, Quiet, Passing, mutexes, ghosts
    <3> QED
      BY <3>1, <3>2
  <2>4. CASE Destroy(t)
    <3>1. CASE Die("undefined")
      BY <1>2, <3>1
    <3>2. CASE ~Die("undefined")
      BY <1>0, <2>4, <3>2 DEF Destroy, Runs, Return, Quiet, Passing, ghosts
    <3> QED
      BY <3>1, <3>2
  <2> QED
    BY <1>7, <2>1, <2>2, <2>3, <2>4
<1> QED
  BY <1>3, <1>4, <1>5, <1>6, <1>7

\* So is every step of the schedulers.
LEMMA SchedulerStill ==
  ASSUME NEW t, SchedulerStep \/ Tick(t) \/ TickInScheduler \/ MainReturn \/ Stopped
  PROVE  UNCHANGED <<code, is_locked, owner, in_cs>>
<1> DEFINE Still == UNCHANGED <<code, is_locked, owner, in_cs>>
<1>1. \A how : Die(how) \/ UNCHANGED vars => Still
  BY DieStill
<1>2. UNCHANGED <<code, mutexes, ghosts>> => Still
  BY DEF mutexes, ghosts
<1>3. \A n : Dispatch(n) => Still
  BY <1>1, <1>2, Zenon DEF Dispatch
<1>4. CASE RRPick \/ MLFQRun
  BY <1>2, <1>3, <1>4, Zenon DEF RRPick, MLFQRun
<1>5. CASE RRRequeue
  BY <1>1, <1>2, <1>5, Zenon DEF RRRequeue, Release, Wake, Into, Walk
<1>6. CASE MLFQRequeue
  BY <1>1, <1>2, <1>6, Zenon DEF MLFQRequeue, Release, Wake, Into, Walk
<1>7. CASE MLFQBoost \/ MLFQPick \/ Fallback
  BY <1>1, <1>2, <1>7, Zenon DEF MLFQBoost, MLFQPick, Fallback
<1>8. CASE Resume \/ TickInScheduler
  BY <1>1, <1>2, <1>8, Zenon DEF Resume, TickInScheduler
<1>9. CASE Tick(t) \/ MainReturn \/ Stopped
  BY <1>1, <1>2, <1>9, Zenon DEF Tick, MainReturn, Stopped
<1> QED
  BY <1>4, <1>5, <1>6, <1>7, <1>8, <1>9 DEF SchedulerStep

\* The inductive step, for the theorems below.
LEMMA MutexInvStep ==
  ASSUME TypeOK, MutexInv, [Next]_vars
  PROVE  MutexInv'
<1>1. ASSUME NEW t \in Threads, ThreadStep(t) \/ Tick(t)
      PROVE  MutexInv'
  BY <1>1, PassingStep, OtherStep, QuietStep, SchedulerStill, StillStep
  DEF ThreadStep, LockStep, UnlockStep
<1>2. CASE SchedulerStep \/ TickInScheduler \/ Stopped
  BY <1>2, SchedulerStill, StillStep
<1>3. CASE UNCHANGED vars
  BY <1>3, DieStill, StillStep
<1> QED
  BY <1>1, <1>2, <1>3 DEF Next

\* lock and unlock: at every step the flag, the owner and the threads' places agree.
THEOREM MutexInvariant == Spec => []MutexInv
<1>1. Init => MutexInv
  BY ConstantTypes DEF Init, MutexInv, OneHolder, HeldLocked, OwnerHolds, ClearLeft, Holds
<1>2. TypeOK /\ MutexInv /\ [Next]_vars => MutexInv'
  BY MutexInvStep
<1> QED
  BY <1>1, <1>2, TypeInvariant, PTL DEF Spec

\* worker_mutex_lock: no two threads are in the critical section of one mutex.
THEOREM MutualExclusionHolds == Spec => []MutualExclusion
<1>1. TypeOK /\ MutexInv => MutualExclusion
  BY DEF TypeOK, MutexInv, OneHolder, Holds, MutualExclusion
<1> QED
  BY <1>1, TypeInvariant, MutexInvariant, PTL

-----------------------------------------------------------------------------
\* Refinement of MutexSpec.

\* Only a lock that succeeds and an unlock that passes its tests change in_cs.
LEMMA CriticalSections ==
  ASSUME NEW t \in Threads, ThreadStep(t) \/ Tick(t)
  PROVE  in_cs' = in_cs \/ LockCheck(t) \/ LockAssert(t) \/ UnlockCheck(t)
<1> DEFINE Same == in_cs' = in_cs
<1>1. \A how : Die(how) \/ UNCHANGED vars => Same
  BY DieStill
<1>2. UNCHANGED ghosts => Same
  BY DEF ghosts
<1>3. CreateStep(t) => Same
  BY <1>1, <1>2, Zenon
  DEF CreateStep, CreateTcb, CreateEnqueue, CreateTail, CreateContext, Into, Walk
<1>4. Yield(t) \/ Exit(t) \/ JoinReturn(t) => Same
  BY <1>1, <1>2, Zenon DEF Yield, Exit, JoinReturn
<1>5. Join(t) => Same
  BY <1>1, <1>2, Zenon DEF Join, JoinMissing, JoinTaken, JoinBlock, Into, Walk
<1>6. LockStep(t) => Same \/ LockCheck(t) \/ LockAssert(t)
  BY <1>1, <1>2, Zenon
  DEF LockStep, LockTas, LockEnqueue, LockTail, LockBlock, LockWait, WaitTail, LockYield,
      LockOwn, Into, Walk
<1>7. UnlockStep(t) => Same \/ UnlockCheck(t)
  BY <1>1, <1>2, Zenon
  DEF UnlockStep, UnlockClear, UnlockOwner, UnlockTest, Unblock, UnlockEmpty, Destroy, Wake,
      Into, Walk
<1>8. Tick(t) \/ MainReturn => Same
  BY SchedulerStill
<1> QED
  BY <1>3, <1>4, <1>5, <1>6, <1>7, <1>8 DEF ThreadStep

\* The library's mutexes implement the abstract ones.
THEOREM MutexesImplementSpec == Spec => MutexRefinement
<1>1. Init => MutexAbs!Init
  BY DEF Init, MutexAbs!Init
<1>2. TypeOK /\ MutexInv /\ [Next]_vars => [MutexAbs!Next]_in_cs
  <2> SUFFICES ASSUME TypeOK, MutexInv, [Next]_vars, in_cs' # in_cs
               PROVE  MutexAbs!Next
    OBVIOUS
  <2>1. PICK t \in Threads : ThreadStep(t) \/ Tick(t)
    BY DieStill, SchedulerStill DEF Next
  <2> DEFINE m == Arg(t)
  <2>2. in_cs \in [Threads -> SUBSET Mutexes]
    BY DEF TypeOK
  <2>3. CASE LockCheck(t)
    <3>1. in_cs' = [in_cs EXCEPT ![t] = @ \cup {m}] /\ owner[m] = t /\ m \in Mutexes
          /\ pc[t] = "lock_check"
      BY <2>3, ArgType DEF LockCheck, Runs
    <3>2. m \in in_cs[t]
      BY <3>1 DEF MutexInv, OwnerHolds, Holds
    <3> QED
      BY <2>2, <3>1, <3>2
  <2>4. CASE LockAssert(t)
    <3>1. in_cs' = [in_cs EXCEPT ![t] = @ \cup {m}] /\ m \in Mutexes /\ pc[t] = "lock_assert"
      BY <2>4, ArgType, DieStill DEF LockAssert, Runs
    <3>2. Holds(t, m)
      BY <3>1 DEF Holds
    <3>3. \A u \in Threads : m \in in_cs[u] => u = t
      BY <3>1, <3>2 DEF MutexInv, OneHolder, Holds
    <3>4. m \notin in_cs[t]
      BY <2>2, <3>1
    <3> QED
      BY <3>1, <3>3, <3>4 DEF MutexAbs!Next, MutexAbs!Enter
  <2>5. CASE UnlockCheck(t)
    <3>1. /\ in_cs' = [in_cs EXCEPT ![t] = @ \ {m}] /\ m \in Mutexes
          /\ owner[m] = t /\ pc[t] = "user"
      BY <2>5, ArgType DEF UnlockCheck, Runs
    <3>2. m \in in_cs[t]
      BY <3>1 DEF MutexInv, OwnerHolds, Holds
    <3> QED
      BY <3>1, <3>2 DEF MutexAbs!Next, MutexAbs!Leave
  <2> QED
    BY <2>1, <2>3, <2>4, <2>5, CriticalSections
<1> QED
  BY <1>1, <1>2, TypeInvariant, MutexInvariant, PTL DEF Spec, MutexRefinement, MutexAbs!Spec

-----------------------------------------------------------------------------
\* The owner of a mutex.

\* A thread's step is taken by the executing thread.
LEMMA ThreadRuns ==
  ASSUME NEW t \in Threads, ThreadStep(t)
  PROVE  process = "up" /\ cpu = "thread" /\ running_thread = t
<1>1. CreateStep(t) => process = "up" /\ cpu = "thread" /\ running_thread = t
  BY DEF CreateStep, CreateTcb, CreateEnqueue, CreateTail, CreateContext, Runs
<1>2. LockStep(t) => process = "up" /\ cpu = "thread" /\ running_thread = t
  BY DEF LockStep, LockTas, LockCheck, LockEnqueue, LockTail, LockBlock, LockWait, WaitTail,
         LockYield, LockOwn, LockAssert, Runs
<1>3. UnlockStep(t) => process = "up" /\ cpu = "thread" /\ running_thread = t
  BY DEF UnlockStep, UnlockCheck, UnlockClear, UnlockOwner, UnlockTest, Unblock, UnlockEmpty,
         Destroy, Runs
<1>4. Yield(t) \/ Exit(t) \/ Join(t) \/ JoinReturn(t) => process = "up" /\ cpu = "thread" /\ running_thread = t
  BY DEF Yield, Exit, Join, JoinReturn, Runs
<1>5. t = Main /\ MainReturn => process = "up" /\ cpu = "thread" /\ running_thread = t
  BY DEF MainReturn, Runs
<1> QED
  BY <1>1, <1>2, <1>3, <1>4, <1>5 DEF ThreadStep

\* What OwnerKept needs between the statements of lock and unlock: an owner that is about to
\* be counted as inside was at most cleared; whoever clears the owner has left.
AssertOwns == \A t \in Threads : pc[t] = "lock_assert" => owner[Arg(t)] \in {t, NoThread}
OwnerLeft  == \A t \in Threads : pc[t] = "unlock_owner" => Arg(t) \notin in_cs[t]
OwnerInv   == AssertOwns /\ OwnerLeft

\* A step that leaves the places and the mutexes alone, or is quiet, keeps the owners.
LEMMA OwnerQuiet ==
  ASSUME OwnerInv, NEW t \in Threads, Quiet(t) \/ UNCHANGED <<code, is_locked, owner, in_cs>>
  PROVE  OwnerInv' /\ KeepsOwner
<1>1. in_cs' = in_cs /\ owner' = owner
  BY DEF Quiet
<1>2. \A u \in Threads : pc'[u] \in Passing => pc'[u] = pc[u] /\ Arg(u)' = Arg(u)
  BY DEF Quiet, Arg, code
<1>3. OwnerInv'
  BY <1>1, <1>2 DEF OwnerInv, AssertOwns, OwnerLeft, Passing
<1>4. KeepsOwner
  BY <1>1 DEF KeepsOwner
<1> QED
  BY <1>3, <1>4

\* The steps of lock and unlock that change a mutex or who is inside it.
LEMMA OwnerPassing ==
  ASSUME TypeOK, MutexInv, OwnerInv, NEW t \in Threads,
         \/ LockTas(t) \/ LockCheck(t) \/ LockOwn(t) \/ LockAssert(t)
         \/ UnlockCheck(t) \/ UnlockClear(t) \/ UnlockOwner(t)
  PROVE  OwnerInv' /\ KeepsOwner
<1> DEFINE m == Arg(t)
<1>0. /\ pc \in [Threads -> Labels] /\ ip \in [Threads -> Nat \ {0}]
      /\ owner \in [Mutexes -> Threads \cup {NoThread}]
      /\ in_cs \in [Threads -> SUBSET Mutexes]
  BY DEF TypeOK
<1>1. m \in Mutexes
  BY ArgType DEF LockTas, LockCheck, LockOwn, LockAssert, UnlockCheck, UnlockClear, UnlockOwner
<1>2. owner' = owner /\ in_cs' = in_cs => KeepsOwner
  BY DEF KeepsOwner
<1>3. CASE LockTas(t)
  <2>1. /\ pc' = [pc EXCEPT ![t] = IF is_locked[m] = 1 THEN "lock_check" ELSE "lock_own"]
        /\ ip' = ip /\ owner' = owner /\ in_cs' = in_cs
    BY <1>3 DEF LockTas, Goto, ghosts
  <2>2. OwnerInv'
    BY <1>0, <2>1 DEF OwnerInv, AssertOwns, OwnerLeft, Arg
  <2> QED
    BY <1>2, <2>1, <2>2
<1>4. CASE LockCheck(t)
  <2>1. /\ pc[t] = "lock_check" /\ owner' = owner
        /\ pc'[t] \in {"user", "lock_enqueue"}
        /\ \A u \in Threads \ {t} : pc'[u] = pc[u] /\ ip'[u] = ip[u]
        /\ in_cs' = in_cs \/ (owner[m] = t /\ in_cs' = [in_cs EXCEPT ![t] = @ \cup {m}])
    BY <1>0, <1>4 DEF LockCheck, Runs, Goto, Return, mutexes
  <2>2. owner[m] = t => m \in in_cs[t]
    BY <1>1, <2>1 DEF MutexInv, OwnerHolds, Holds
  <2>3. in_cs' = in_cs
    BY <1>0, <2>1, <2>2
  <2>4. OwnerInv'
    BY <2>1, <2>3 DEF OwnerInv, AssertOwns, OwnerLeft, Arg
  <2> QED
    BY <1>2, <2>1, <2>3, <2>4
<1>5. CASE LockOwn(t)
  <2>1. /\ pc[t] = "lock_own" /\ pc' = [pc EXCEPT ![t] = "lock_assert"] /\ ip' = ip
        /\ owner' = [owner EXCEPT ![m] = t] /\ in_cs' = in_cs
    BY <1>5 DEF LockOwn, Runs, Goto, ghosts
  <2>2. \A u \in Threads : Holds(u, m) => u = t
    BY <1>1, <2>1 DEF MutexInv, OneHolder, Holds
  <2>3. AssertOwns'
    BY <1>0, <1>1, <2>1, <2>2 DEF OwnerInv, AssertOwns, Arg, Holds
  <2>4. OwnerLeft'
    BY <1>0, <2>1 DEF OwnerInv, OwnerLeft, Arg
  <2>5. KeepsOwner
    BY <1>0, <1>1, <2>1, <2>2 DEF KeepsOwner, Holds
  <2> QED
    BY <2>3, <2>4, <2>5 DEF OwnerInv
<1>6. CASE LockAssert(t)
  <2>1. CASE Die("aborted")
    BY <2>1, DieStill, OwnerQuiet
  <2>2. CASE ~Die("aborted")
    <3>1. /\ pc[t] = "lock_assert" /\ owner' = owner /\ owner[m] # NoThread
          /\ pc' = [pc EXCEPT ![t] = "user"] /\ ip' = [ip EXCEPT ![t] = @ + 1]
          /\ in_cs' = [in_cs EXCEPT ![t] = @ \cup {m}]
      BY <1>6, <2>2 DEF LockAssert, Runs, Return, mutexes
    <3>2. owner[m] = t
      BY <3>1 DEF OwnerInv, AssertOwns
    <3>3. OwnerInv'
      BY <1>0, <3>1 DEF OwnerInv, AssertOwns, OwnerLeft, Arg
    <3>4. KeepsOwner
      BY <1>0, <3>1, <3>2 DEF KeepsOwner
    <3> QED
      BY <3>3, <3>4
  <2> QED
    BY <2>1, <2>2
<1>7. CASE UnlockCheck(t)
  <2>1. /\ owner' = owner /\ pc'[t] \in {"user", "unlock_clear"}
        /\ \A u \in Threads \ {t} : pc'[u] = pc[u] /\ ip'[u] = ip[u]
        /\ in_cs' = in_cs \/ in_cs' = [in_cs EXCEPT ![t] = @ \ {m}]
    BY <1>0, <1>7 DEF UnlockCheck, Goto, Return, mutexes
  <2>2. OwnerInv'
    BY <1>0, <2>1 DEF OwnerInv, AssertOwns, OwnerLeft, Arg
  <2>3. KeepsOwner
    BY <1>0, <2>1 DEF KeepsOwner
  <2> QED
    BY <2>2, <2>3
<1>8. CASE UnlockClear(t)
  <2>1. /\ pc[t] = "unlock_clear" /\ pc' = [pc EXCEPT ![t] = "unlock_owner"] /\ ip' = ip
        /\ owner' = owner /\ in_cs' = in_cs
    BY <1>8 DEF UnlockClear, Runs, Goto, ghosts
  <2>2. m \notin in_cs[t]
    BY <2>1 DEF MutexInv, ClearLeft
  <2>3. OwnerInv'
    BY <1>0, <2>1, <2>2 DEF OwnerInv, AssertOwns, OwnerLeft, Arg
  <2> QED
    BY <1>2, <2>1, <2>3
<1>9. CASE UnlockOwner(t)
  <2>1. /\ pc[t] = "unlock_owner" /\ running_thread = t
        /\ pc' = [pc EXCEPT ![t] = "unlock_test"] /\ ip' = ip
        /\ owner' = [owner EXCEPT ![m] = NoThread] /\ in_cs' = in_cs
    BY <1>9 DEF UnlockOwner, Runs, Goto, ghosts
  <2>2. m \notin in_cs[t]
    BY <2>1 DEF OwnerInv, OwnerLeft
  <2>3. OwnerInv'
    BY <1>0, <1>1, <2>1 DEF OwnerInv, AssertOwns, OwnerLeft, Arg
  <2>4. KeepsOwner
    BY <1>0, <1>1, <2>1, <2>2 DEF KeepsOwner
  <2> QED
    BY <2>3, <2>4
<1> QED
  BY <1>3, <1>4, <1>5, <1>6, <1>7, <1>8, <1>9

\* worker_mutex_lock and worker_mutex_unlock: wherever the timer fires, a thread enters a
\* critical section as its owner, and only the clearing of the owner by another thread's
\* unlock, after that has cleared the flag, takes this from it.
THEOREM OwnerKeptHolds == Spec => OwnerKept
<1>1. Init => OwnerInv
  BY DEF Init, OwnerInv, AssertOwns, OwnerLeft
<1>2. TypeOK /\ MutexInv /\ OwnerInv /\ [Next]_vars => OwnerInv' /\ [KeepsOwner]_vars
  <2> SUFFICES ASSUME TypeOK, MutexInv, OwnerInv, [Next]_vars
               PROVE  OwnerInv' /\ KeepsOwner
    OBVIOUS
  <2>1. ASSUME NEW t \in Threads, ThreadStep(t) \/ Tick(t)
        PROVE  OwnerInv' /\ KeepsOwner
    BY <2>1, OwnerPassing, OtherStep, OwnerQuiet, SchedulerStill
    DEF ThreadStep, LockStep, UnlockStep
  <2>2. ASSUME SchedulerStep \/ TickInScheduler \/ Stopped \/ UNCHANGED vars
        PROVE  OwnerInv' /\ KeepsOwner
    BY <2>2, ConstantTypes, SchedulerStill, DieStill, OwnerQuiet
  <2> QED
    BY <2>1, <2>2 DEF Next
<1> QED
  BY <1>1, <1>2, TypeInvariant, MutexInvariant, PTL DEF Spec, OwnerKept

-----------------------------------------------------------------------------
\* Signals, when no two calls of worker_join name the same thread.

JoinAt(t, i, j) == i \in 1..Len(Program[t]) /\ Program[t][i].op = "join" /\ Program[t][i].arg = j

\* A program that joins each thread at most once, as the benchmarks do.
JoinedOnce == \A t, u, j \in Threads : \A i, k \in Nat :
                JoinAt(t, i, j) /\ JoinAt(u, k, j) => t = u /\ i = k

\* Signals are off only while sched_rr chooses a thread.
OffInPick == process = "up" /\ interrupt_disabled = 1 => cpu = "rr_pick"

\* A thread that is joined was joined by a call that its joiner has made, or waits in.
JoinMade(t, i) == i < ip[t] \/ (i = ip[t] /\ pc[t] = "join_return")
JoinersCalled  == \A j \in Threads : waiting_thread[j] # NoThread =>
                    \E i \in Nat : JoinAt(waiting_thread[j], i, j) /\ JoinMade(waiting_thread[j], i)

SignalsInv == OffInPick /\ JoinersCalled

\* A step of t outside worker_join: it turns no signal off and makes no thread a joiner, and t
\* goes on to its next call or stays in this one.
Plain(t) == /\ interrupt_disabled' \in {interrupt_disabled, 0}
            /\ waiting_thread' = waiting_thread
            /\ ip'[t] \in {ip[t], ip[t] + 1}
            /\ \A u \in Threads \ {t} : pc'[u] = pc[u] /\ ip'[u] = ip[u]

LEMMA DiePlain ==
  ASSUME NEW how, NEW t, Die(how) \/ UNCHANGED vars
  PROVE  Plain(t)
BY DEF Die, vars, code, tcbs, machine, Plain

\* Every step of a thread but Join is plain, and only JoinReturn leaves a join.
LEMMA PlainStep ==
  ASSUME TypeOK, NEW t \in Threads, ThreadStep(t), ~Join(t)
  PROVE  Plain(t) /\ (pc[t] = "join_return" => JoinReturn(t))
<1>0. pc \in [Threads -> Labels] /\ ip \in [Threads -> Nat \ {0}]
  BY DEF TypeOK
<1> DEFINE Frame == interrupt_disabled' \in {interrupt_disabled, 0} /\ waiting_thread' = waiting_thread
<1>1. \A l : Goto(t, l) /\ Frame => Plain(t)
  BY <1>0 DEF Goto, Plain
<1>2. Return(t) /\ Frame => Plain(t)
  BY <1>0 DEF Return, Plain
<1>3. \A how : Die(how) \/ UNCHANGED vars => Plain(t)
  BY DiePlain
<1>4. UNCHANGED <<machine, tcbs>> => Frame
  BY DEF machine, tcbs
<1>5. UNCHANGED <<machine, waiting_thread>> => Frame
  BY DEF machine
<1>6. SwitchOut(t) /\ UNCHANGED waiting_thread => Frame
  BY DEF SwitchOut
<1>7. interrupt_disabled' = 0 /\ UNCHANGED tcbs => Frame
  BY DEF tcbs
<1>8. UNCHANGED <<pc, ip>> /\ Frame => Plain(t)
  BY DEF Plain
<1> HIDE DEF Frame
<1>9. CASE CreateStep(t)
  <2>1. Plain(t)
    BY <1>1, <1>2, <1>3, <1>4, <1>5, <1>9, Zenon
    DEF CreateStep, CreateTcb, CreateEnqueue, CreateTail, CreateContext, Into, Walk
  <2>2. pc[t] # "join_return"
    BY <1>9 DEF CreateStep, CreateTcb, CreateEnqueue, CreateTail, CreateContext, Runs
  <2> QED
    BY <2>1, <2>2
<1>10. CASE LockStep(t)
  <2>1. LockTas(t) \/ LockTail(t) \/ WaitTail(t) \/ LockOwn(t) => Plain(t)
    BY <1>1, <1>3, <1>4, Zenon DEF LockTas, LockTail, WaitTail, LockOwn
  <2>2. LockCheck(t) => Plain(t)
    BY <1>1, <1>2, <1>4, Zenon DEF LockCheck
  <2>3. LockEnqueue(t) => Plain(t)
    BY <1>1, <1>3, <1>4, Zenon DEF LockEnqueue, Into, Walk
  <2>4. LockWait(t) => Plain(t)
    BY <1>1, <1>3, <1>4, Zenon DEF LockWait, Into, Walk
  <2>5. LockBlock(t) \/ LockYield(t) => Plain(t)
    BY <1>1, <1>5, <1>6, Zenon DEF LockBlock, LockYield
  <2>6. LockAssert(t) => Plain(t)
    BY <1>2, <1>3, <1>4, Zenon DEF LockAssert
  <2>7. pc[t] # "join_return"
    BY <1>10 DEF LockStep, LockTas, LockCheck, LockEnqueue, LockTail, LockBlock, LockWait, WaitTail,
       LockYield, LockOwn, LockAssert, Runs
  <2> QED
    BY <1>10, <2>1, <2>2, <2>3, <2>4, <2>5, <2>6, <2>7 DEF LockStep
<1>11. CASE UnlockStep(t)
  <2>1. UnlockCheck(t) => Plain(t)
    BY <1>1, <1>2, <1>4, Zenon DEF UnlockCheck
  <2>2. UnlockClear(t) \/ UnlockOwner(t) => Plain(t)
    BY <1>1, <1>4, Zenon DEF UnlockClear, UnlockOwner
  <2>3. UnlockTest(t) => Plain(t)
    BY <1>1, <1>2, <1>3, <1>4, Zenon DEF UnlockTest
  <2>4. Unblock(t) => Plain(t)
    BY <1>3, <1>5, <1>8, Zenon DEF Unblock, Wake, Into, Walk
  <2>5. UnlockEmpty(t) => Plain(t)
    BY <1>2, <1>3, <1>4, Zenon DEF UnlockEmpty
  <2>6. Destroy(t) => Plain(t)
    BY <1>2, <1>3, <1>4, Zenon DEF Destroy
  <2>7. pc[t] # "join_return"
    BY <1>11 DEF UnlockStep, UnlockCheck, UnlockClear, UnlockOwner, UnlockTest, Unblock,
       UnlockEmpty, Destroy, Runs
  <2> QED
    BY <1>11, <2>1, <2>2, <2>3, <2>4, <2>5, <2>6, <2>7 DEF UnlockStep
<1>12. CASE Yield(t) \/ Exit(t)
  <2>1. Plain(t)
    BY <1>1, <1>2, <1>3, <1>6, <1>12, Zenon DEF Yield, Exit
  <2>2. pc[t] # "join_return"
    BY <1>12 DEF Yield, Exit, Runs
  <2> QED
    BY <2>1, <2>2
<1>13. CASE JoinReturn(t)
  BY <1>2, <1>7, <1>13, Zenon DEF JoinReturn
<1>14. CASE t = Main /\ MainReturn
  <2>1. Plain(t)
    BY <1>3, <1>14, Zenon DEF MainReturn
  <2>2. pc[t] # "join_return"
    BY <1>14 DEF MainReturn, Runs
  <2> QED
    BY <2>1, <2>2
<1> QED
  BY <1>9, <1>10, <1>11, <1>12, <1>13, <1>14 DEF ThreadStep

\* Every end of worker_join but JoinTaken turns the signals on; a thread that waits is the
\* joiner of the thread it names.
LEMMA JoinSignals ==
  ASSUME TypeOK, JoinedOnce, SignalsInv, NEW t \in Threads, Join(t)
  PROVE  SignalsInv'
<1> DEFINE j == Arg(t)
<1>0. /\ pc \in [Threads -> Labels] /\ ip \in [Threads -> Nat \ {0}]
      /\ waiting_thread \in [Threads -> Threads \cup {NoThread}] /\ j \in Threads
  BY ArgType DEF TypeOK, Join
<1>1. pc[t] = "user" /\ JoinAt(t, ip[t], j)
  <2>1. Program[t] \in Seq(Call)
    BY WorkerAssumption
  <2> QED
    BY <1>0, <2>1 DEF Join, Runs, InCall, Ended, Arg, JoinAt
<1>2. interrupt_disabled # 1
  BY DEF Join, Runs, SignalsInv, OffInPick
<1>3. waiting_thread[j] = NoThread
  <2> SUFFICES ASSUME waiting_thread[j] # NoThread
               PROVE  FALSE
    OBVIOUS
  <2>1. PICK i \in Nat : JoinAt(waiting_thread[j], i, j) /\ JoinMade(waiting_thread[j], i)
    BY <1>0 DEF SignalsInv, JoinersCalled
  <2>2. waiting_thread[j] = t /\ i = ip[t]
    BY <1>0, <1>1, <2>1 DEF JoinedOnce
  <2> QED
    BY <1>0, <1>1, <2>1, <2>2 DEF JoinMade
<1>4. JoinMissing(t, j) \/ JoinBlock(t, j) \/ Die("undefined") \/ UNCHANGED vars
  <2>1. ~(waiting_thread[j] > 0)
    BY <1>3 DEF NoThread
  <2> QED
    BY <2>1, Zenon DEF Join, Walk
<1>5. CASE JoinMissing(t, j)
  <2>1. /\ interrupt_disabled' = 0 /\ waiting_thread' = waiting_thread
        /\ ip' = [ip EXCEPT ![t] = @ + 1] /\ pc' = [pc EXCEPT ![t] = "user"]
    BY <1>5 DEF JoinMissing, Return, tcbs
  <2>2. \A u \in Threads, i \in Nat : JoinMade(u, i) => JoinMade(u, i)'
    BY <1>0, <1>1, <2>1 DEF JoinMade
  <2> QED
    BY <1>0, <2>1, <2>2 DEF SignalsInv, OffInPick, JoinersCalled
<1>6. CASE JoinBlock(t, j)
  <2>1. CASE Die("undefined") \/ UNCHANGED vars
    <3>1. interrupt_disabled' = interrupt_disabled /\ waiting_thread' = waiting_thread
          /\ pc' = pc /\ ip' = ip
      BY <2>1 DEF Die, vars, code, tcbs, machine
    <3> QED
      BY <1>2, <3>1 DEF SignalsInv, OffInPick, JoinersCalled, JoinMade
  <2>2. CASE ~(Die("undefined") \/ UNCHANGED vars)
    <3>1. /\ waiting_thread' = [waiting_thread EXCEPT ![j] = t]
          /\ SwitchOut(t) /\ Goto(t, "join_return")
      BY <1>6, <2>2, Zenon DEF JoinBlock, Into, Walk
    <3>2. interrupt_disabled' = 0 /\ ip' = ip /\ pc' = [pc EXCEPT ![t] = "join_return"]
      BY <3>1 DEF SwitchOut, Goto
    <3>3. \A u \in Threads, i \in Nat : JoinMade(u, i) => JoinMade(u, i)'
      BY <1>0, <1>1, <3>2 DEF JoinMade
    <3>4. PICK i0 \in Nat : JoinAt(t, i0, j) /\ JoinMade(t, i0)'
      BY <1>0, <1>1, <3>2 DEF JoinMade
    <3>5. JoinersCalled'
      <4> SUFFICES ASSUME NEW k \in Threads, waiting_thread'[k] # NoThread
                   PROVE  \E i \in Nat : JoinAt(waiting_thread'[k], i, k)
                                       /\ JoinMade(waiting_thread[k], i)'
        BY DEF JoinersCalled
      <4>1. CASE k = j
        <5>1. waiting_thread'[k] = t
          BY <1>0, <3>1, <4>1
        <5>2. JoinAt(waiting_thread'[k], i0, k) /\ JoinMade(waiting_thread[k], i0)'
          BY <3>4, <4>1, <5>1 DEF JoinMade
        <5> QED
          BY <5>2
      <4>2. CASE k # j
        <5>1. waiting_thread'[k] = waiting_thread[k]
          BY <1>0, <3>1, <4>2
        <5>2. PICK i \in Nat : JoinAt(waiting_thread[k], i, k) /\ JoinMade(waiting_thread[k], i)
          BY <5>1 DEF SignalsInv, JoinersCalled
        <5>3. waiting_thread[k] \in Threads
          BY <1>0, <5>1
        <5>4. JoinMade(waiting_thread[k], i)'
          BY <3>3, <5>1, <5>2, <5>3 DEF JoinMade
        <5> QED
          BY <5>1, <5>2, <5>4
      <4> QED
        BY <4>1, <4>2
    <3> QED
      BY <3>2, <3>5 DEF SignalsInv, OffInPick
  <2> QED
    BY <2>1, <2>2
<1>7. CASE Die("undefined") \/ UNCHANGED vars
  <2>1. interrupt_disabled' = interrupt_disabled /\ waiting_thread' = waiting_thread
        /\ pc' = pc /\ ip' = ip
    BY <1>7 DEF Die, vars, code, tcbs, machine
  <2> QED
    BY <1>2, <2>1 DEF SignalsInv, OffInPick, JoinersCalled, JoinMade
<1> QED
  BY <1>4, <1>5, <1>6, <1>7

\* The scheduler turns the signals off only where sched_rr does, and makes no thread a joiner.
LEMMA SchedulerSignals ==
  ASSUME OffInPick, NEW t, SchedulerStep \/ Tick(t) \/ TickInScheduler
  PROVE  OffInPick' /\ waiting_thread' = waiting_thread /\ code' = code
<1> DEFINE Good == OffInPick' /\ waiting_thread' = waiting_thread
<1>1. \A how : Die(how) /\ process = "up" => Good \/ how = "up"
  BY DEF Die, OffInPick, tcbs
<1>2. UNCHANGED vars => Good
  BY DEF OffInPick, vars, machine, tcbs
<1>3. \A n : Dispatch(n) /\ process = "up" => Good
  BY <1>1 DEF Dispatch, OffInPick
<1>4. code' = code
  BY SchedulerStill
<1>5. CASE RRRequeue
  <2>1. \/ cpu' = "rr_pick" /\ UNCHANGED waiting_thread
        \/ Die("undefined") \/ UNCHANGED vars
    BY <1>5, Zenon DEF RRRequeue, Release, Wake, Into, Walk
  <2>2. process = "up"
    BY <1>5 DEF RRRequeue, InScheduler
  <2> QED
    BY <1>1, <1>2, <1>4, <2>1, <2>2 DEF OffInPick
<1>6. CASE RRPick
  BY <1>3, <1>4, <1>6 DEF RRPick, InScheduler, OffInPick, tcbs
<1>7. CASE MLFQRequeue
  <2>1. \/ UNCHANGED <<process, interrupt_disabled, waiting_thread>>
        \/ Die("undefined") \/ UNCHANGED vars
    BY <1>7, Zenon DEF MLFQRequeue, Release, Wake, Into, Walk
  <2>2. process = "up" /\ cpu = "window"
    BY <1>7 DEF MLFQRequeue, InScheduler
  <2> QED
    BY <1>1, <1>2, <1>4, <2>1, <2>2 DEF OffInPick
<1>8. CASE MLFQBoost \/ MLFQPick
  BY <1>4, <1>8 DEF MLFQBoost, MLFQPick, InScheduler, OffInPick, tcbs
<1>9. CASE MLFQRun
  BY <1>3, <1>4, <1>9 DEF MLFQRun, InScheduler
<1>10. CASE Fallback
  <2>1. \/ UNCHANGED <<process, interrupt_disabled, waiting_thread>>
        \/ Die("undefined")
    BY <1>10, Zenon DEF Fallback
  <2>2. process = "up" /\ cpu = "fallback"
    BY <1>10 DEF Fallback, InScheduler
  <2> QED
    BY <1>1, <1>4, <2>1, <2>2 DEF OffInPick
<1>11. CASE Resume
  BY <1>1, <1>4, <1>11 DEF Resume, InScheduler, OffInPick, tcbs
<1>12. CASE TickInScheduler
  BY <1>1, <1>4, <1>12 DEF TickInScheduler, OffInPick, tcbs
<1>13. CASE Tick(t)
  BY <1>4, <1>13 DEF Tick, SwitchOut, OffInPick
<1> QED
  BY <1>5, <1>6, <1>7, <1>8, <1>9, <1>10, <1>11, <1>12, <1>13 DEF SchedulerStep

\* No step breaks the invariant.
LEMMA SignalsStep ==
  ASSUME TypeOK, JoinedOnce, SignalsInv, [Next]_vars
  PROVE  SignalsInv'
<1>0. pc \in [Threads -> Labels] /\ ip \in [Threads -> Nat \ {0}]
      /\ waiting_thread \in [Threads -> Threads \cup {NoThread}]
  BY DEF TypeOK
<1>1. ASSUME waiting_thread' = waiting_thread, code' = code
      PROVE  JoinersCalled'
  BY <1>1 DEF SignalsInv, JoinersCalled, JoinMade, code
<1>2. ASSUME NEW t \in Threads, ThreadStep(t), ~Join(t)
      PROVE  SignalsInv'
  <2>1. Plain(t) /\ (pc[t] = "join_return" => JoinReturn(t))
    BY <1>2, PlainStep
  <2>2. cpu = "thread" /\ process = "up"
    BY <1>2, ThreadRuns
  <2>3. JoinReturn(t) => ip'[t] = ip[t] + 1
    BY <1>0 DEF JoinReturn, Return
  <2>4. \A u \in Threads, i \in Nat : JoinMade(u, i) => JoinMade(u, i)'
    BY <1>0, <2>1, <2>3 DEF JoinMade, Plain
  <2>5. JoinersCalled'
    BY <1>0, <2>1, <2>4 DEF SignalsInv, JoinersCalled, Plain
  <2>6. OffInPick'
    BY <2>1, <2>2 DEF SignalsInv, OffInPick, Plain
  <2> QED
    BY <2>5, <2>6 DEF SignalsInv
<1>3. ASSUME NEW t \in Threads, Tick(t)
      PROVE  SignalsInv'
  BY <1>1, <1>3, SchedulerSignals DEF SignalsInv
<1>4. CASE SchedulerStep \/ TickInScheduler
  BY <1>1, <1>4, SchedulerSignals DEF SignalsInv
<1>5. CASE Stopped \/ UNCHANGED vars
  BY <1>1, <1>5 DEF Stopped, SignalsInv, OffInPick, vars, machine, tcbs, code
<1> QED
  BY <1>2, <1>3, <1>4, <1>5, JoinSignals DEF Next

\* worker_join and the schedulers: where no thread is joined twice, a thread executes its own
\* code with signals enabled, so a tick reaches schedule().
THEOREM SignalsOnHolds == JoinedOnce => (Spec => []SignalsOn)
<1> SUFFICES ASSUME JoinedOnce
             PROVE  Spec => []SignalsOn
  OBVIOUS
<1>1. Init => SignalsInv
  BY DEF Init, SignalsInv, OffInPick, JoinersCalled
<1>2. TypeOK /\ SignalsInv /\ [Next]_vars => SignalsInv'
  BY SignalsStep
<1>3. TypeOK /\ SignalsInv => SignalsOn
  BY DEF TypeOK, SignalsInv, OffInPick, SignalsOn, Runs
<1> QED
  BY <1>1, <1>2, <1>3, TypeInvariant, PTL DEF Spec

=============================================================================

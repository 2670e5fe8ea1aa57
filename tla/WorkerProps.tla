----------------------------- MODULE WorkerProps -----------------------------
(***************************************************************************)
(* What the thread library should guarantee, stated over the state of      *)
(* Worker.  The runs say for which programs and for which arrivals of the  *)
(* timer signal each property holds, or is violated.                       *)
(***************************************************************************)
EXTENDS Worker

-----------------------------------------------------------------------------
\* Mutexes.

\* worker_mutex_lock and worker_mutex_unlock: no two threads are between a lock of one
\* mutex that returned 0 and the unlock that gives it back.
MutualExclusion == \A t, u \in Threads : t # u => in_cs[t] \cap in_cs[u] = {}

\* The mutexes implement MutexSpec: with the program's critical sections as its state,
\* every step of the library is an entry, an exit or invisible.
MutexAbs == INSTANCE MutexSpec WITH inside <- in_cs
MutexRefinement == MutexAbs!Spec

\* The invariant behind both: a thread holds a mutex from the test-and-set that found it
\* free to the statement that clears the flag; while it does the flag is set; and owner
\* names a thread only from its own lock_own to its own unlock_owner, so that no thread
\* passes the tests of lock and unlock in the place of another.
Holds(t, m) == \/ m \in in_cs[t]
               \/ pc[t] \in {"lock_own", "lock_assert", "unlock_clear"} /\ Arg(t) = m
OneHolder   == \A t, u \in Threads : \A m \in Mutexes : Holds(t, m) /\ Holds(u, m) => t = u
HeldLocked  == \A t \in Threads : \A m \in Mutexes : Holds(t, m) => is_locked[m] = 1
OwnerHolds  == \A t \in Threads : \A m \in Mutexes :
                 owner[m] = t => Holds(t, m) \/ (pc[t] = "unlock_owner" /\ Arg(t) = m)
ClearLeft   == \A t \in Threads : pc[t] = "unlock_clear" => Arg(t) \notin in_cs[t]
MutexInv    == OneHolder /\ HeldLocked /\ OwnerHolds /\ ClearLeft

\* mutex->owner names the thread that is in the critical section, as the assertion of
\* worker_mutex_lock (313) and the check of worker_mutex_unlock (341) take for granted.
OwnerIsHolder == \A t \in Threads : \A m \in in_cs[t] : owner[m] = t

\* A thread gets into a critical section only as its owner, and stops being the owner there
\* in one way: the executing thread is between clearing is_locked and clearing owner.
KeepsOwner == \A t \in Threads : \A m \in in_cs'[t] :
  owner'[m] # t => /\ m \in in_cs[t]
                   /\ \/ owner[m] # t
                      \/ /\ pc[running_thread] = "unlock_owner" /\ Arg(running_thread) = m
                         /\ running_thread # t
OwnerKept == [][KeepsOwner]_vars

\* worker_mutex_unlock puts all threads that are blocked on the mutex back to run: none
\* stays blocked on a mutex that is free and that nobody is in the middle of unlocking.
BlockedOn(m) == {t \in Threads : status[t] = "blocked" /\ pc[t] = "lock_tas" /\ Arg(t) = m}
Unlocking(m) == \E t \in Threads :
                  pc[t] \in {"unlock_owner", "unlock_test", "unblock"} /\ Arg(t) = m
NoLostWakeup == \A m \in Mutexes : is_locked[m] = 0 /\ ~Unlocking(m) => BlockedOn(m) = {}

\* A thread that asks for a mutex gets it, unless main ends the process first.
Locking     == {"lock_tas", "lock_check", "lock_enqueue", "lock_tail", "lock_block",
                "lock_wait", "wait_tail", "lock_yield"}
LockGranted == \A t \in Threads : pc[t] \in Locking ~> pc[t] \notin Locking \/ process # "up"

-----------------------------------------------------------------------------
\* Threads and queues.

\* worker_join returns 0 only when the joined thread has terminated.
JoinWaits == \A t \in Threads : \A j \in joined[t] : status[j] \in {"finished", "freed"}

\* The library meets none of its own "something went wrong" exits, and resumes no
\* context and reads no tcb that it should not.
NoFault == process \notin {"aborted", "undefined"}

InReady(t)  == \E q \in {ready_queue} \cup {MLFQ_queue[i] : i \in 0..(Levels - 1)} :
                  InQueue(q, t)
InFlight(t) == \/ \E u \in Threads : local[u] = t /\ pc[u] \in {"create_enqueue", "create_tail"}
               \/ sched_next # NoNode /\ ThreadOf(sched_next) = t

\* A READY thread is in a ready queue, or on its way into or out of one: the scheduler
\* forgets no thread that could run.
ReadyQueued == \A t \in Threads :
  process = "up" /\ status[t] = "ready" => InReady(t) \/ InFlight(t)

\* ready_queue and MLFQ_queue hold only READY threads, so none that still waits.
QueuedReady == \A t \in Threads : InReady(t) => status[t] = "ready"

\* A BLOCKED thread that has given up the CPU is in waiting_queue, where
\* unblock_threads and release_threads look for it.
BlockedQueued == \A t \in Threads :
  status[t] = "blocked" /\ t # running_thread => InQueue(waiting_queue, t)

\* A thread executes its own code with signals enabled, so a tick reaches schedule().
SignalsOn == \A t \in Threads : Runs(t, "user") => interrupt_disabled = 0

-----------------------------------------------------------------------------
\* Scheduling.

ThreadList(q) == LET l == NodeList(heap, heap.queue[q].head)
                 IN  [i \in DOMAIN l |-> ThreadOf(l[i])]
Current       == IF cpu \in {"thread", "window", "resume"} THEN running_thread
                 ELSE IF cpu = "mlfq_run" THEN ThreadOf(sched_next) ELSE NoThread

\* Both schedulers implement LevelQueues, sched_rr with its one queue as level 0: no
\* thread is lost, queued twice, or overtaken on its level.
Queues == INSTANCE LevelQueues WITH
            ready   <- [i \in 0..(Levels - 1) |->
                          IF Scheduler = "mlfq" THEN ThreadList(MLFQ_queue[i])
                          ELSE IF i = 0 THEN ThreadList(ready_queue) ELSE <<>>],
            level   <- priority,
            current <- Current,
            parked  <- {t \in Threads : status[t] = "blocked" /\ t # Current},
            gone    <- {t \in Threads : status[t] = "freed"}
QueueRefinement == Queues!Spec

\* L-2_report.pdf: a thread that has used up the time slice of its level goes one level
\* down.  So one that is queued again above the last level has not used up the slice of the
\* level it is queued on.
UsedSliceDemotes == [][\A t \in Threads :
  /\ Scheduler = "mlfq"
  /\ status[t] = "running" /\ status'[t] = "ready"
  /\ priority'[t] < Levels - 1
  => ~slice_used'[t]]_vars

\* A thread in a ready queue gets the CPU, unless main ends the process first.
ReadyRuns == \A t \in Threads :
  InReady(t) ~> (cpu = "thread" /\ running_thread = t) \/ process # "up"

\* A program of threads that terminate terminates.
Terminates == <>(process = "returned")

=============================================================================

---------------------------- MODULE LevelQueues ----------------------------
(***************************************************************************)
(* What a scheduler of the thread library promises: every thread that is   *)
(* neither running, parked nor gone is in the queue of its level, exactly  *)
(* once; each queue is first-in-first-out, and the CPU always goes to the  *)
(* head of the first one that is not empty.  A thread starts on level 0,   *)
(* goes down one level at a time, and comes back to level 0 by a boost.    *)
(* With one level this is round robin.                                     *)
(***************************************************************************)
EXTENDS Integers, Sequences

CONSTANTS Threads, Main, NoThread, Levels

VARIABLES
  ready,     \* per level: its queue
  level,     \* per thread: the level on which it is queued
  current,   \* the thread that has the CPU, or NoThread while one is chosen
  parked,    \* threads that wait for a mutex or for another thread
  gone       \* threads that have terminated

vars == <<ready, level, current, parked, gone>>

LevelIds  == 0..(Levels - 1)
Queued(l) == {ready[l][i] : i \in 1..Len(ready[l])}

Init == /\ ready = [l \in LevelIds |-> <<>>]
        /\ level = [t \in Threads |-> 0]
        /\ current = Main /\ parked = {} /\ gone = {}

Put(t, l) == ready' = [ready EXCEPT ![l] = Append(@, t)]

\* The running thread makes a new thread.
Spawn(t) == /\ t \notin {current} \cup parked \cup gone
            /\ \A l \in LevelIds : t \notin Queued(l)
            /\ level[t] = 0
            /\ Put(t, 0)
            /\ UNCHANGED <<level, current, parked, gone>>

\* The running thread gives back a mutex that t waits for.
Wake(t) == /\ t \in parked
           /\ Put(t, level[t])
           /\ parked' = parked \ {t}
           /\ UNCHANGED <<level, current, gone>>

\* The running thread is preempted or yields, and may go down a level; it blocks; or it
\* terminates, and the thread that waits for it wakes.
Requeue == /\ current # NoThread
           /\ \E l \in LevelIds \cap {level[current], level[current] + 1} :
                /\ Put(current, l)
                /\ level' = [level EXCEPT ![current] = l]
           /\ current' = NoThread
           /\ UNCHANGED <<parked, gone>>

Park == /\ current # NoThread
        /\ parked' = parked \cup {current}
        /\ current' = NoThread
        /\ UNCHANGED <<ready, level, gone>>

Retire == /\ current # NoThread
          /\ gone' = gone \cup {current}
          /\ current' = NoThread
          /\ \/ UNCHANGED <<ready, parked>>
             \/ \E t \in parked : Put(t, level[t]) /\ parked' = parked \ {t}
          /\ UNCHANGED level

First(l) == ready[l] # <<>> /\ \A k \in LevelIds : k < l => ready[k] = <<>>

Dispatch == /\ current = NoThread
            /\ \E l \in LevelIds : /\ First(l)
                                   /\ current' = Head(ready[l])
                                   /\ ready' = [ready EXCEPT ![l] = Tail(@)]
            /\ UNCHANGED <<level, parked, gone>>

\* The boost: the head of a lower level goes to the end of level 0.
Raise(l) == /\ current = NoThread
            /\ l > 0 /\ ready[l] # <<>>
            /\ ready' = [ready EXCEPT ![l] = Tail(@), ![0] = Append(@, Head(ready[l]))]
            /\ level' = [level EXCEPT ![Head(ready[l])] = 0]
            /\ UNCHANGED <<current, parked, gone>>

\* No thread is ready: main gets the CPU although it is parked.
Rescue == /\ current = NoThread
          /\ \A l \in LevelIds : ready[l] = <<>>
          /\ Main \in parked
          /\ current' = Main
          /\ parked' = parked \ {Main}
          /\ UNCHANGED <<ready, level, gone>>

Next == \/ \E t \in Threads : Spawn(t) \/ Wake(t)
        \/ Requeue \/ Park \/ Retire \/ Dispatch \/ Rescue
        \/ \E l \in LevelIds : Raise(l)

Spec == Init /\ [][Next]_vars

=============================================================================

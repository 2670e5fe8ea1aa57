----------------------------- MODULE MutexSpec -----------------------------
(***************************************************************************)
(* What the mutexes of the thread library promise: a thread enters the     *)
(* critical section of a mutex only when no thread is inside, and only a   *)
(* thread that is inside leaves it.                                        *)
(***************************************************************************)
CONSTANTS Threads, Mutexes

VARIABLE inside   \* per thread: the mutexes whose critical section it is in

Init == inside = [t \in Threads |-> {}]

Enter(t, m) == /\ \A u \in Threads : m \notin inside[u]
               /\ inside' = [inside EXCEPT ![t] = @ \cup {m}]

Leave(t, m) == /\ m \in inside[t]
               /\ inside' = [inside EXCEPT ![t] = @ \ {m}]

Next == \E t \in Threads, m \in Mutexes : Enter(t, m) \/ Leave(t, m)

Spec == Init /\ [][Next]_inside

=============================================================================

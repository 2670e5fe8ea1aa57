------------------------------ MODULE NodeQueue ------------------------------
(***************************************************************************)
(* The intrusive singly linked queues of the user-level thread library     *)
(* (src/Level - 2/worker.c).                                               *)
(*                                                                         *)
(* A queue is a pair of pointers, head and tail.  The links are not part   *)
(* of the queue: each node has ONE next_node field, so a node that is      *)
(* enqueued on two queues shares its link between both lists.  A heap h is *)
(* therefore a record of                                                   *)
(*    h.next   the next_node field of every node                           *)
(*    h.queue  the head and tail of every queue                            *)
(* and every operator maps a heap to a heap.                               *)
(***************************************************************************)
EXTENDS Integers, FiniteSets

CONSTANTS
  Nodes,    \* the nodes that create_node may allocate
  NoNode    \* the NULL pointer

ASSUME NoNodeAssumption == NoNode \notin Nodes

\* Memory ends: the loops of Chain below count on it.
ASSUME FiniteNodes == IsFiniteSet(Nodes)

NodePtr == Nodes \cup {NoNode}
Queue   == [head: NodePtr, tail: NodePtr]
Empty   == [head |-> NoNode, tail |-> NoNode]

NodeCount == Cardinality(Nodes)

(***************************************************************************)
(* Chain(h, n)[k] is the pointer a loop holds after k assignments          *)
(* "p = p->next_node" that start at p = n.  A chain that has not met NULL  *)
(* after NodeCount steps is a cycle.                                       *)
(***************************************************************************)
Chain(h, n) ==
  LET c[k \in 0..NodeCount] ==
        IF k = 0 THEN n
        ELSE IF c[k-1] = NoNode THEN NoNode ELSE h.next[c[k-1]]
  IN  c

\* The nodes read by a loop from n that stops at the first node of S, or at NULL.
Visited(h, n, S) ==
  LET c == Chain(h, n)
  IN  {c[k] : k \in {i \in 0..NodeCount : \A j \in 0..(i-1) : c[j] \notin S}} \cap Nodes

Hits(h, n, S) == Visited(h, n, S) \cap S # {}

\* The loop from n meets no node of S and never reaches NULL.
Endless(h, n, S) == ~Hits(h, n, S) /\ Chain(h, n)[NodeCount] # NoNode

\* The nodes of a chain that ends, in order.
NodeList(h, n) == [i \in 1..Cardinality(Visited(h, n, {})) |-> Chain(h, n)[i - 1]]

FirstIn(h, n, S) == CHOOSE x \in Nodes : x \in Visited(h, n, S) \cap S

\* prev of such a loop when it stops at x: NULL if x is the first node.
Before(h, n, x) == LET P == {p \in Visited(h, n, {x}) : h.next[p] = x}
                   IN  IF P = {} THEN NoNode ELSE CHOOSE p \in P : TRUE

Last(h, n) == CHOOSE p \in Nodes : p \in Visited(h, n, {}) /\ h.next[p] = NoNode

(***************************************************************************)
(* enqueue runs with signals enabled in most of its callers, so its two    *)
(* assignments are two operators: Link reaches the new node from the head  *)
(* or from the last node, Retail moves the tail.  The link field of the    *)
(* new node itself is not written.                                         *)
(***************************************************************************)
Link(h, q, n) ==
  LET head == h.queue[q].head
      last == IF h.queue[q].tail = NoNode THEN Last(h, head) ELSE h.queue[q].tail
  IN  IF head = NoNode THEN [h EXCEPT !.queue[q].head = n]
                       ELSE [h EXCEPT !.next[last] = n]

Retail(h, q, n) == [h EXCEPT !.queue[q].tail = n]

Enqueue(h, q, n) == Retail(Link(h, q, n), q, n)

\* Mutant of Pop: the link of the popped node is not cleared (line 693).
PopKeepsLink(h, q) ==
  LET head == h.queue[q].head
      tail == h.queue[q].tail
  IN  [h EXCEPT !.queue[q] = IF head = tail THEN Empty
                             ELSE [head |-> h.next[head], tail |-> tail]]

\* pop_from_queue on a queue whose head is not NULL; the popped node is the old head.
Pop(h, q) ==
  LET head == h.queue[q].head
      tail == h.queue[q].tail
  IN  [h EXCEPT !.next[head] = NoNode,
                !.queue[q] = IF head = tail THEN Empty
                             ELSE [head |-> h.next[head], tail |-> tail]]

(***************************************************************************)
(* delete_from_queue: unlinks the first node of S, where S is the set of   *)
(* nodes of the thread that is looked for.  The node's link is cleared     *)
(* BEFORE the head is advanced through it, so deleting the head of a       *)
(* longer list makes the head NULL and keeps the old tail.                 *)
(***************************************************************************)
Delete(h, q, S) ==
  LET head == h.queue[q].head
      tail == h.queue[q].tail
      n    == FirstIn(h, head, S)
      p    == Before(h, head, n)
  IN  IF ~Hits(h, head, S) THEN h
      ELSE IF n = head
           THEN [h EXCEPT !.next[n] = NoNode,
                          !.queue[q] = IF head = tail THEN Empty
                                       ELSE [head |-> NoNode, tail |-> tail]]
           ELSE IF n = tail
                THEN [h EXCEPT !.next = [@ EXCEPT ![n] = NoNode, ![p] = NoNode],
                               !.queue[q].tail = p]
                ELSE [h EXCEPT !.next = [@ EXCEPT ![n] = NoNode, ![p] = h.next[n]]]

=============================================================================

--------------------------- MODULE SchedulerProof ---------------------------
(***************************************************************************)
(* The queues of the thread library and its schedulers, for programs that  *)
(* fork and join (ForkJoin): the ready queue is a list of just the READY   *)
(* threads, it implements LevelQueues, and joins and blocked threads are   *)
(* served.  For every number of threads, nodes and levels, both            *)
(* schedulers, and ticks wherever a thread executes its own code.          *)
(***************************************************************************)
EXTENDS WorkerProof, SequenceTheorems, FiniteSetTheorems

-----------------------------------------------------------------------------
\* Numbers.

\* A non-empty set of numbers has a least one.
LEMMA LeastOf ==
  ASSUME NEW S, S \subseteq Nat, S # {}
  PROVE  \E i \in S : \A j \in S : i <= j
<1> DEFINE R == {ss \in Nat \X Nat : ss[1] < ss[2]}
<1>1. R = OpToRel(<, Nat)
  BY Zenon DEF OpToRel
<1>2. IsWellFoundedOn(R, Nat)
  BY <1>1, NatLessThanWellFounded, Zenon
<1> HIDE DEF R
<1>3. PICK i \in S : \A j \in S : ~(<<j, i>> \in R)
  BY <1>2, WFMin, Zenon
<1>4. \A j \in S : i <= j
  <2> SUFFICES ASSUME NEW j \in S, j < i
               PROVE  FALSE
    OBVIOUS
  <2> DEFINE ji == <<j, i>>
  <2>1. ji \in Nat \X Nat
    OBVIOUS
  <2>2. ji[1] = j /\ ji[2] = i
    OBVIOUS
  <2> HIDE DEF ji
  <2>3. ji \in R
    BY <2>1, <2>2 DEF R
  <2> QED
    BY <1>3, <2>3 DEF ji
<1> QED
  BY <1>4, Zenon

-----------------------------------------------------------------------------
\* Lists.

\* The nodes of a list.
Members(s) == {s[i] : i \in 1..Len(s)}

\* From the head of queue q the links lead through the nodes of s, each once, to NULL.
Linked(h, q, s) ==
  /\ \A i, k \in 1..Len(s) : s[i] = s[k] => i = k
  /\ h.queue[q].head = IF s = <<>> THEN NoNode ELSE s[1]
  /\ \A i \in 1..Len(s) : h.next[s[i]] = IF i = Len(s) THEN NoNode ELSE s[i + 1]

\* The tail is the last node, and all other nodes are in no list.
IsList(h, q, s) ==
  /\ Linked(h, q, s)
  /\ h.queue[q].tail = IF s = <<>> THEN NoNode ELSE s[Len(s)]
  /\ \A n \in Nodes \ Members(s) : h.next[n] = NoNode

\* A list has no more nodes than there are.
LEMMA ListFits ==
  ASSUME NEW h, NEW q, NEW s \in Seq(Nodes), Linked(h, q, s)
  PROVE  /\ Len(s) <= NodeCount
         /\ Len(s) \in Nat /\ NodeCount \in Nat
         /\ Cardinality(Members(s)) = Len(s)
         /\ Members(s) \subseteq Nodes
         /\ \A i \in 1..Len(s) : s[i] \in Nodes
<1>1. Len(s) \in Nat /\ s \in [1..Len(s) -> Nodes]
  OBVIOUS
<1>2. Members(s) \subseteq Nodes
  BY <1>1 DEF Members
<1>3. s \in Bijection(1..Len(s), Members(s))
  <2>1. s \in [1..Len(s) -> Members(s)]
    BY <1>1 DEF Members
  <2>2. IsInjective(s)
    BY <1>1 DEF Linked, IsInjective
  <2>3. \A m \in Members(s) : \E i \in 1..Len(s) : s[i] = m
    BY Zenon DEF Members
  <2> QED
    BY <2>1, <2>2, <2>3, Zenon DEF Bijection, Injection, Surjection
<1>4. Cardinality(Members(s)) = Len(s)
  BY <1>1, <1>3, FS_CountingElements DEF ExistsBijection
<1>5. Cardinality(Members(s)) <= NodeCount /\ NodeCount \in Nat
  BY <1>2, FiniteNodes, FS_Subset, FS_CardinalityType DEF NodeCount
<1> QED
  BY <1>1, <1>2, <1>4, <1>5

\* The loops of worker.c over a list: after k assignments the pointer is at node k + 1, or NULL.
LEMMA ChainOfList ==
  ASSUME NEW h, NEW q, NEW s \in Seq(Nodes), Linked(h, q, s)
  PROVE  \A k \in 0..NodeCount :
           Chain(h, h.queue[q].head)[k] = IF k < Len(s) THEN s[k + 1] ELSE NoNode
<1> DEFINE n == h.queue[q].head
           N == NodeCount
           Step(c, k) == IF k = 0 THEN n
                         ELSE IF c[k - 1] = NoNode THEN NoNode ELSE h.next[c[k - 1]]
           at == [k \in 0..N |-> IF k < Len(s) THEN s[k + 1] ELSE NoNode]
           c0 == CHOOSE c : c = [k \in 0..N |-> Step(c, k)]
<1>1. Chain(h, n) = c0
  BY DEF Chain
<1>2. N \in Nat /\ Len(s) \in Nat /\ \A i \in 1..Len(s) : s[i] \in Nodes /\ s[i] # NoNode
  BY ListFits, NoNodeAssumption
<1>3. \A k \in 0..N : at[k] = Step(at, k)
  <2> SUFFICES ASSUME NEW k \in 0..N
               PROVE  at[k] = Step(at, k)
    OBVIOUS
  <2>0. k \in Nat
    BY <1>2
  <2>1. CASE k = 0
    BY <1>2, <2>1 DEF Linked
  <2>2. CASE k # 0
    <3>1. k - 1 \in 0..N /\ (k - 1) + 1 = k
      BY <1>2, <2>0, <2>2
    <3>2. at[k - 1] = IF k - 1 < Len(s) THEN s[k] ELSE NoNode
      BY <3>1
    <3>3. CASE k - 1 < Len(s)
      <4>1. k \in 1..Len(s)
        BY <1>2, <2>0, <2>2, <3>3
      <4>2. at[k - 1] = s[k] /\ s[k] # NoNode
        BY <1>2, <3>2, <3>3, <4>1
      <4>3. Step(at, k) = h.next[s[k]]
        BY <2>2, <4>2
      <4>4. h.next[s[k]] = IF k = Len(s) THEN NoNode ELSE s[k + 1]
        BY <4>1 DEF Linked
      <4> QED
        BY <1>2, <4>1, <4>3, <4>4
    <3>4. CASE ~(k - 1 < Len(s))
      BY <1>2, <2>0, <2>2, <3>2, <3>4
    <3> QED
      BY <3>3, <3>4
  <2> QED
    BY <2>1, <2>2
<1>4. at = [k \in 0..N |-> Step(at, k)]
  <2> HIDE DEF Step
  <2> QED
    BY <1>3
<1>5. c0 = [k \in 0..N |-> Step(c0, k)]
  <2> HIDE DEF at, Step
  <2> QED
    BY <1>4, Zenon
<1> HIDE DEF c0
<1>6. \A k \in 0..N : c0[k] = Step(c0, k)
  <2> HIDE DEF Step
  <2> QED
    BY <1>5
<1>7. \A k \in 0..N : c0[k] = at[k]
  <2> DEFINE B == {k \in 0..N : c0[k] # at[k]}
  <2> SUFFICES ASSUME B # {}
               PROVE  FALSE
    OBVIOUS
  <2>1. B \subseteq Nat
    BY <1>2
  <2> HIDE DEF B
  <2>2. PICK k \in B : \A j \in B : k <= j
    BY <2>1, LeastOf
  <2> USE DEF B
  <2> HIDE DEF at
  <2>3. k \in 0..N /\ k \in Nat /\ c0[k] # at[k]
    BY <1>2, <2>2
  <2>4. k # 0
    BY <1>3, <1>6, <2>3
  <2>5. k - 1 \in 0..N /\ ~(k <= k - 1)
    BY <1>2, <2>3, <2>4
  <2>6. c0[k - 1] = at[k - 1]
    BY <2>2, <2>5
  <2> QED
    BY <1>3, <1>6, <2>3, <2>4, <2>6
<1> QED
  BY <1>1, <1>7

\* A loop over a list reads nodes of the list only, and ends.
LEMMA LoopOfList ==
  ASSUME NEW h, NEW q, NEW s \in Seq(Nodes), Linked(h, q, s), NEW S
  PROVE  /\ Visited(h, h.queue[q].head, S) \subseteq Members(s)
         /\ ~Endless(h, h.queue[q].head, S)
         /\ Visited(h, h.queue[q].head, {}) = Members(s)
         /\ Hits(h, h.queue[q].head, S) <=> Members(s) \cap S # {}
<1> DEFINE n == h.queue[q].head
           c == Chain(h, n)
<1>1. Len(s) \in Nat /\ NodeCount \in Nat /\ Len(s) <= NodeCount
      /\ \A i \in 1..Len(s) : s[i] \in Nodes
  BY ListFits
<1>2. \A k \in 0..NodeCount : c[k] = IF k < Len(s) THEN s[k + 1] ELSE NoNode
  BY ChainOfList
<1> HIDE DEF n, c
<1>3. \A T : Visited(h, n, T)
        = {c[k] : k \in {i \in 0..NodeCount : \A j \in 0..(i - 1) : c[j] \notin T}} \cap Nodes
  BY DEF Visited, c
<1>4. \A T : Visited(h, n, T) \subseteq Members(s)
  <2> SUFFICES ASSUME NEW T, NEW x \in Visited(h, n, T)
               PROVE  x \in Members(s)
    OBVIOUS
  <2>1. PICK k \in 0..NodeCount : x = c[k] /\ x \in Nodes
    BY <1>3
  <2>2. k < Len(s) /\ x = s[k + 1]
    BY <1>2, <2>1, NoNodeAssumption
  <2>3. k + 1 \in 1..Len(s)
    BY <1>1, <2>2
  <2> QED
    BY <2>2, <2>3 DEF Members
<1>5. c[NodeCount] = NoNode
  BY <1>1, <1>2
<1>6. Members(s) \subseteq Visited(h, n, {})
  <2> SUFFICES ASSUME NEW i \in 1..Len(s)
               PROVE  s[i] \in Visited(h, n, {})
    BY DEF Members
  <2>1. i - 1 \in 0..NodeCount /\ i - 1 < Len(s) /\ (i - 1) + 1 = i
    BY <1>1
  <2>2. c[i - 1] = s[i] /\ s[i] \in Nodes
    BY <1>1, <1>2, <2>1
  <2> QED
    BY <1>3, <2>1, <2>2
<1>7. ASSUME NEW i \in 1..Len(s), s[i] \in S
      PROVE  Visited(h, n, S) \cap S # {}
  <2> DEFINE I == {k \in 1..Len(s) : s[k] \in S}
  <2>1. I \subseteq Nat /\ I # {}
    BY <1>7
  <2> HIDE DEF I
  <2>2. PICK k \in I : \A j \in I : k <= j
    BY <2>1, LeastOf
  <2> USE DEF I
  <2>3. k \in 1..Len(s) /\ s[k] \in S
    BY <2>2
  <2>4. k - 1 \in 0..NodeCount /\ k - 1 < Len(s) /\ (k - 1) + 1 = k
    BY <1>1, <2>3
  <2>5. c[k - 1] = s[k] /\ s[k] \in Nodes
    BY <1>1, <1>2, <2>3, <2>4
  <2>6. \A j \in 0..((k - 1) - 1) : c[j] \notin S
    <3> SUFFICES ASSUME NEW j \in 0..((k - 1) - 1)
                 PROVE  c[j] \notin S
      OBVIOUS
    <3>1. j + 1 \in 1..Len(s) /\ ~(k <= j + 1) /\ j \in 0..NodeCount /\ j < Len(s)
      BY <1>1, <2>3
    <3>2. c[j] = s[j + 1]
      BY <1>2, <3>1
    <3>3. s[j + 1] \notin S
      BY <2>2, <3>1
    <3> QED
      BY <3>2, <3>3
  <2>7. s[k] \in Visited(h, n, S)
    BY <1>3, <2>4, <2>5, <2>6
  <2> QED
    BY <2>3, <2>7
<1>8. Members(s) \cap S # {} => Visited(h, n, S) \cap S # {}
  BY <1>7 DEF Members
<1>9. Hits(h, n, S) <=> Members(s) \cap S # {}
  BY <1>4, <1>8 DEF Hits
<1>10. ~Endless(h, n, S)
  BY <1>5 DEF Endless, c
<1> QED
  BY <1>4, <1>6, <1>9, <1>10 DEF n

\* The list that the loop of a queue reads is the sequence.
LEMMA NodesOfList ==
  ASSUME NEW h, NEW q, NEW s \in Seq(Nodes), Linked(h, q, s)
  PROVE  NodeList(h, h.queue[q].head) = s
<1> DEFINE n == h.queue[q].head
<1>1. Visited(h, n, {}) = Members(s)
  BY LoopOfList
<1>2. Len(s) \in Nat /\ NodeCount \in Nat /\ Len(s) <= NodeCount
      /\ Cardinality(Members(s)) = Len(s)
  BY ListFits
<1>3. \A k \in 0..NodeCount : Chain(h, n)[k] = IF k < Len(s) THEN s[k + 1] ELSE NoNode
  BY ChainOfList
<1> HIDE DEF n
<1>4. NodeList(h, n) = [i \in 1..Len(s) |-> Chain(h, n)[i - 1]]
  BY <1>1, <1>2 DEF NodeList
<1>5. \A i \in 1..Len(s) : Chain(h, n)[i - 1] = s[i]
  <2> SUFFICES ASSUME NEW i \in 1..Len(s)
               PROVE  Chain(h, n)[i - 1] = s[i]
    OBVIOUS
  <2>1. i - 1 \in 0..NodeCount /\ i - 1 < Len(s) /\ (i - 1) + 1 = i
    BY <1>2
  <2> QED
    BY <1>3, <2>1
<1>6. s = [i \in 1..Len(s) |-> s[i]]
  OBVIOUS
<1> QED
  BY <1>4, <1>5, <1>6 DEF n

-----------------------------------------------------------------------------
\* What enqueue and pop_from_queue do to a list.

\* The nodes after an append.
LEMMA MembersAppend ==
  ASSUME NEW s \in Seq(Nodes), NEW n \in Nodes
  PROVE  Members(Append(s, n)) = Members(s) \cup {n}
<1>1. /\ Len(Append(s, n)) = Len(s) + 1 /\ Len(s) \in Nat
      /\ \A i \in 1..Len(s) : Append(s, n)[i] = s[i]
      /\ Append(s, n)[Len(s) + 1] = n
  BY AppendProperties
<1> DEFINE a == Append(s, n)
<1> HIDE DEF a
<1>2. Members(a) \subseteq Members(s) \cup {n}
  <2> SUFFICES ASSUME NEW i \in 1..Len(a)
               PROVE  a[i] \in Members(s) \cup {n}
    BY DEF Members
  <2>1. i \in 1..Len(s) \/ i = Len(s) + 1
    BY <1>1 DEF a
  <2> QED
    BY <1>1, <2>1 DEF a, Members
<1>3. Members(s) \cup {n} \subseteq Members(a)
  <2>1. \A i \in 1..Len(s) : i \in 1..Len(a) /\ a[i] = s[i]
    BY <1>1 DEF a
  <2>2. Len(s) + 1 \in 1..Len(a) /\ a[Len(s) + 1] = n
    BY <1>1 DEF a
  <2> QED
    BY <2>1, <2>2 DEF Members
<1> QED
  BY <1>2, <1>3 DEF a

\* enqueue of a node that is in no list.
LEMMA Enqueued ==
  ASSUME NEW Q, NEW h \in HeapOf(Q), NEW q \in Q, NEW s \in Seq(Nodes), IsList(h, q, s),
         NEW n \in Nodes \ Members(s)
  PROVE  /\ Append(s, n) \in Seq(Nodes)
         /\ IsList(Enqueue(h, q, n), q, Append(s, n))
         /\ \A p \in Q \ {q} : Enqueue(h, q, n).queue[p] = h.queue[p]
<1> DEFINE a == Append(s, n)
           g == Enqueue(h, q, n)
           l == Len(s)
<1>1. /\ a \in Seq(Nodes) /\ a # <<>>
      /\ Len(a) = l + 1 /\ l \in Nat
      /\ \A i \in 1..l : a[i] = s[i]
      /\ a[l + 1] = n
  BY AppendProperties
<1>2. Members(a) = Members(s) \cup {n}
  BY MembersAppend
<1>3. \A i \in 1..l : s[i] \in Nodes /\ s[i] \in Members(s) /\ s[i] # n
  BY ListFits DEF IsList, Members
<1>4. \A i, k \in 1..l : s[i] = s[k] => i = k
  BY DEF IsList, Linked
<1>5. h.next[n] = NoNode
  BY DEF IsList
<1>6. \A i, k \in 1..Len(a) : a[i] = a[k] => i = k
  <2> HIDE DEF a, l
  <2> SUFFICES ASSUME NEW i \in 1..Len(a), NEW k \in 1..Len(a), a[i] = a[k]
               PROVE  i = k
    OBVIOUS
  <2>1. (i \in 1..l \/ i = l + 1) /\ (k \in 1..l \/ k = l + 1)
    BY <1>1
  <2> QED
    BY <1>1, <1>3, <1>4, <2>1
<1>7. CASE s = <<>>
  <2>1. l = 0 /\ h.queue[q].head = NoNode
    BY <1>7 DEF IsList, Linked
  <2>2. Link(h, q, n) = [h EXCEPT !.queue[q].head = n]
    BY <2>1 DEF Link
  <2>3. g = [[h EXCEPT !.queue[q].head = n] EXCEPT !.queue[q].tail = n]
    BY <2>2 DEF Enqueue, Retail
  <2>4. /\ g.queue[q].head = n /\ g.queue[q].tail = n /\ g.next = h.next
        /\ \A p \in Q \ {q} : g.queue[p] = h.queue[p]
    BY <2>3 DEF HeapOf, Queue
  <2>5. Members(s) = {}
    BY <2>1 DEF Members
  <2>6. \A m \in Nodes : h.next[m] = NoNode
    BY <2>5 DEF IsList
  <2> HIDE DEF a, g
  <2>7. Linked(g, q, a)
    BY <1>1, <1>6, <2>1, <2>4, <2>6 DEF Linked
  <2> QED
    BY <1>1, <2>1, <2>4, <2>6, <2>7 DEF IsList, a, g
<1>8. CASE s # <<>>
  <2>1. l \in 1..l /\ h.queue[q].head = s[1] /\ h.queue[q].tail = s[l]
    BY <1>1, <1>8 DEF IsList, Linked
  <2>2. h.queue[q].head # NoNode /\ h.queue[q].tail # NoNode /\ s[l] \in Nodes
    BY <1>1, <1>3, <2>1, NoNodeAssumption
  <2>3. Link(h, q, n) = [h EXCEPT !.next[s[l]] = n]
    BY <2>1, <2>2 DEF Link
  <2>4. g = [[h EXCEPT !.next[s[l]] = n] EXCEPT !.queue[q].tail = n]
    BY <2>3 DEF Enqueue, Retail
  <2>5. /\ g.queue[q].head = s[1] /\ g.queue[q].tail = n
        /\ g.next = [h.next EXCEPT ![s[l]] = n]
        /\ \A p \in Q \ {q} : g.queue[p] = h.queue[p]
    BY <2>1, <2>4 DEF HeapOf, Queue
  <2>6. h.next \in [Nodes -> NodePtr]
    BY DEF HeapOf
  <2> HIDE DEF a, g, l
  <2>7. ASSUME NEW i \in 1..Len(a)
        PROVE  g.next[a[i]] = IF i = Len(a) THEN NoNode ELSE a[i + 1]
    <3>1. CASE i = l + 1
      BY <1>1, <1>3, <1>5, <2>1, <2>5, <2>6, <3>1
    <3>2. CASE i = l
      BY <1>1, <2>1, <2>2, <2>5, <2>6, <3>2
    <3>3. CASE i # l + 1 /\ i # l
      <4>1. i \in 1..l /\ i + 1 \in 1..l
        BY <1>1, <3>3
      <4>2. a[i] = s[i] /\ a[i + 1] = s[i + 1] /\ s[i] \in Nodes
        BY <1>1, <1>3, <4>1
      <4>3. s[i] # s[l]
        BY <1>4, <2>1, <3>3, <4>1
      <4>4. h.next[s[i]] = s[i + 1]
        BY <3>3, <4>1 DEF IsList, Linked, l
      <4> QED
        BY <1>1, <2>5, <2>6, <3>3, <4>1, <4>2, <4>3, <4>4
    <3> QED
      BY <3>1, <3>2, <3>3
  <2>8. Linked(g, q, a)
    <3>1. 1 \in 1..l
      BY <1>1, <2>1
    <3>2. g.queue[q].head = a[1]
      BY <1>1, <2>5, <3>1
    <3> QED
      BY <1>1, <1>6, <2>7, <3>2, Zenon DEF Linked
  <2>9. \A m \in Nodes \ Members(a) : g.next[m] = NoNode
    BY <1>2, <1>3, <2>1, <2>5, <2>6 DEF IsList
  <2> QED
    BY <1>1, <2>5, <2>8, <2>9 DEF IsList, a, g, l
<1> QED
  BY <1>7, <1>8

\* pop_from_queue takes the first node out.
LEMMA Popped ==
  ASSUME NEW Q, NEW h \in HeapOf(Q), NEW q \in Q, NEW s \in Seq(Nodes), IsList(h, q, s),
         s # <<>>
  PROVE  /\ Tail(s) \in Seq(Nodes)
         /\ IsList(Pop(h, q), q, Tail(s))
         /\ Members(Tail(s)) = Members(s) \ {s[1]}
         /\ \A p \in Q \ {q} : Pop(h, q).queue[p] = h.queue[p]
<1> DEFINE a == Tail(s)
           g == Pop(h, q)
           l == Len(s)
           rest == IF s[1] = s[l] THEN Empty ELSE [head |-> h.next[s[1]], tail |-> s[l]]
<1>1. /\ a \in Seq(Nodes) /\ Len(a) = l - 1 /\ l \in Nat /\ 1 \in 1..l /\ l \in 1..l
      /\ \A i \in 1..Len(a) : a[i] = s[i + 1]
  BY HeadTailProperties
<1>2. \A i \in 1..l : s[i] \in Nodes /\ s[i] \in Members(s)
  BY ListFits DEF IsList, Members
<1>3. \A i, k \in 1..l : s[i] = s[k] => i = k
  BY DEF IsList, Linked
<1>4. h.queue[q].head = s[1] /\ h.queue[q].tail = s[l]
  BY DEF IsList, Linked
<1>5. g = [h EXCEPT !.next[s[1]] = NoNode, !.queue[q] = rest]
  BY <1>4 DEF Pop
<1> HIDE DEF rest
<1>6. /\ g.queue[q] = rest
      /\ g.next = [h.next EXCEPT ![s[1]] = NoNode]
      /\ \A p \in Q \ {q} : g.queue[p] = h.queue[p]
      /\ h.next \in [Nodes -> NodePtr]
  BY <1>5 DEF HeapOf
<1> HIDE DEF a, g, l
<1>7. \A i, k \in 1..Len(a) : a[i] = a[k] => i = k
  BY <1>1, <1>3
<1>8. Members(a) = Members(s) \ {s[1]}
  <2>1. Members(a) \subseteq Members(s) \ {s[1]}
    <3> SUFFICES ASSUME NEW i \in 1..Len(a)
                 PROVE  a[i] \in Members(s) \ {s[1]}
      BY DEF Members
    <3>1. i + 1 \in 1..l /\ i + 1 # 1 /\ a[i] = s[i + 1]
      BY <1>1
    <3> QED
      BY <1>1, <1>2, <1>3, <3>1
  <2>2. Members(s) \ {s[1]} \subseteq Members(a)
    <3> SUFFICES ASSUME NEW i \in 1..l, s[i] # s[1]
                 PROVE  s[i] \in Members(a)
      BY DEF Members, l
    <3>1. i - 1 \in 1..Len(a) /\ a[i - 1] = s[i]
      BY <1>1
    <3> QED
      BY <3>1 DEF Members
  <2> QED
    BY <2>1, <2>2
<1>9. ASSUME NEW i \in 1..Len(a)
      PROVE  g.next[a[i]] = IF i = Len(a) THEN NoNode ELSE a[i + 1]
  <2>1. i + 1 \in 1..l /\ a[i] = s[i + 1] /\ s[i + 1] # s[1]
    BY <1>1, <1>3
  <2>2. g.next[a[i]] = h.next[s[i + 1]]
    BY <1>2, <1>6, <2>1
  <2>3. h.next[s[i + 1]] = IF i + 1 = l THEN NoNode ELSE s[(i + 1) + 1]
    BY <2>1 DEF IsList, Linked, l
  <2>4. i # Len(a) => a[i + 1] = s[(i + 1) + 1]
    BY <1>1, <2>1
  <2> QED
    BY <1>1, <2>1, <2>2, <2>3, <2>4
<1>10. \A m \in Nodes \ Members(a) : g.next[m] = NoNode
  BY <1>2, <1>6, <1>8 DEF IsList
<1>11. CASE l = 1
  <2>1. Len(a) = 0 /\ a = <<>> /\ rest = Empty
    BY <1>1, <1>11 DEF rest
  <2>2. g.queue[q].head = NoNode /\ g.queue[q].tail = NoNode
    BY <1>6, <2>1 DEF Empty
  <2>3. Linked(g, q, a)
    BY <1>7, <1>9, <2>1, <2>2 DEF Linked
  <2> QED
    BY <1>1, <1>6, <1>8, <1>10, <2>1, <2>2, <2>3 DEF IsList, a, g
<1>12. CASE l # 1
  <2>1. a # <<>> /\ Len(a) \in 1..Len(a) /\ 1 \in 1..Len(a) /\ a[1] = s[2] /\ a[Len(a)] = s[l]
    BY <1>1, <1>12
  <2>2. s[1] # s[l]
    BY <1>1, <1>3, <1>12
  <2>3. h.next[s[1]] = s[1 + 1]
    BY <1>1, <1>12 DEF IsList, Linked, l
  <2>4. g.queue[q].head = s[2] /\ g.queue[q].tail = s[l]
    BY <1>6, <2>2, <2>3 DEF rest
  <2>5. Linked(g, q, a)
    BY <1>7, <1>9, <2>1, <2>4 DEF Linked
  <2> QED
    BY <1>1, <1>6, <1>8, <1>10, <2>1, <2>4, <2>5 DEF IsList, a, g
<1> QED
  BY <1>11, <1>12

\* delete_from_queue on a waiting queue that holds only main.
LEMMA Woken ==
  ASSUME NEW Q, NEW h \in HeapOf(Q), NEW q \in Q, NEW w \in Q, q # w,
         NEW s \in Seq(Nodes), IsList(h, q, s), Main \in Nodes \ Members(s),
         h.queue[w] = [head |-> Main, tail |-> Main]
  PROVE  /\ FirstIn(h, h.queue[w].head, NodesOf(Main)) = Main
         /\ Hits(h, h.queue[w].head, NodesOf(Main))
         /\ Delete(h, w, NodesOf(Main)) \in HeapOf(Q)
         /\ Delete(h, w, NodesOf(Main)).queue[w] = Empty
         /\ \A p \in Q \ {w} : Delete(h, w, NodesOf(Main)).queue[p] = h.queue[p]
         /\ IsList(Delete(h, w, NodesOf(Main)), q, s)
<1> DEFINE S == NodesOf(Main)
           m == <<Main>>
           d == Delete(h, w, S)
<1>0. Main \in Threads /\ Main \in Nodes
  BY ConstantTypes
<1>1. h.queue[w].head = Main /\ h.queue[w].tail = Main /\ h.next[Main] = NoNode
  BY DEF IsList
<1>2. m \in Seq(Nodes) /\ Len(m) = 1 /\ m # <<>> /\ m[1] = Main
  BY <1>0
<1> HIDE DEF m
<1>3. Linked(h, w, m) /\ Members(m) = {Main}
  BY <1>1, <1>2 DEF Linked, Members
<1>4. Main \in S
  BY <1>0 DEF NodesOf, ThreadOf
<1> HIDE DEF S
<1>5. Hits(h, Main, S) /\ Visited(h, Main, S) \subseteq {Main}
  <2>1. /\ Visited(h, h.queue[w].head, S) \subseteq Members(m)
        /\ Hits(h, h.queue[w].head, S) <=> Members(m) \cap S # {}
    BY <1>2, <1>3, LoopOfList
  <2>2. Members(m) \cap S # {}
    BY <1>3, <1>4
  <2> QED
    BY <1>1, <1>3, <2>1, <2>2
<1>6. Main \in Visited(h, Main, S)
  BY <1>5 DEF Hits
<1>7. FirstIn(h, Main, S) = Main
  <2>1. \A x \in Nodes : x \in Visited(h, Main, S) \cap S <=> x = Main
    BY <1>0, <1>4, <1>5, <1>6
  <2> QED
    BY <1>0, <2>1 DEF FirstIn
<1>8. d = [h EXCEPT !.next[Main] = NoNode, !.queue[w] = Empty]
  BY <1>1, <1>5, <1>7 DEF Delete
<1>9. d \in HeapOf(Q)
  BY DeleteType
<1>10. /\ d.queue[w] = Empty
       /\ d.next = h.next
       /\ \A p \in Q \ {w} : d.queue[p] = h.queue[p]
  BY <1>1, <1>8 DEF HeapOf
<1> HIDE DEF d
<1>11. IsList(d, q, s)
  <2>1. d.queue[q] = h.queue[q]
    BY <1>10
  <2> QED
    BY <1>10, <2>1 DEF IsList, Linked
<1> QED
  BY <1>1, <1>5, <1>7, <1>9, <1>10, <1>11 DEF S, d

-----------------------------------------------------------------------------
\* Programs that fork and join: main makes workers and joins threads that its earlier calls have
\* made, the workers compute, make further workers, yield and end, and a tick may fall between any
\* two calls.

\* The calls of worker_create that main makes before its call i.
Creates(i) == Cardinality({k \in 1..(i - 1) : Program[Main][k].op = "create"})

ForkJoin ==
  /\ TickPoints \subseteq {"user"}
  /\ \A t \in Threads : \A i \in 1..Len(Program[t]) :
       /\ Program[t][i].op \in {"create", "yield", "exit", "join"}
       /\ Program[t][i].op = "exit" => t # Main
       /\ Program[t][i].op = "join" => t = Main /\ Program[t][i].arg \in 1..Creates(i)

\* The queue that all threads are in: none ever leaves level 0.
Ready == IF Scheduler = "rr" THEN ready_queue ELSE MLFQ_queue[0]

\* The thread that is being made: it is READY, but cannot be resumed, and not yet in the queue or
\* not yet its tail.
Making  == {"create_enqueue", "create_tail", "create_context"}
New(t)  == pc[running_thread] \in Making /\ local[running_thread] = t
Settled == IF pc[running_thread] = "create_tail"
           THEN Retail(heap, Ready, local[running_thread]) ELSE heap

\* The threads that must be in the queue.
Listed == {t \in Threads : /\ status[t] = "ready"
                           /\ t # Current
                           /\ ~(pc[running_thread] = "create_enqueue" /\ New(t))}

\* The ready queue is a list of just these threads; main is in the waiting queue while it is
\* blocked; the other queues are empty.
ReadyList(s) == IsList(Settled, Ready, s) /\ Members(s) = Listed
QueuesInv ==
  /\ \E s \in Seq(Threads) : ReadyList(s)
  /\ heap.queue[waiting_queue] =
       IF status[Main] = "blocked" THEN [head |-> Main, tail |-> Main] ELSE Empty
  /\ \A q \in QueueNames \ {Ready, waiting_queue} : heap.queue[q] = Empty
  /\ \A t \in Threads : priority[t] = 0

\* What the CPU executes, and the status that the thread has there.
CpuInv ==
  /\ process \in {"up", "returned"}
  /\ cpu # "fallback"
  /\ running_node = running_thread
  /\ cpu # "mlfq_run" => sched_next = NoNode
  /\ cpu = "mlfq_run" => sched_next \in Threads /\ status[sched_next] = "ready"
  /\ cpu \in {"thread", "resume"} => status[running_thread] = "running"
  /\ cpu = "window" => status[running_thread] \in {"running", "finished", "blocked"}
  /\ cpu \in {"window", "resume"} => context[running_thread] = "saved"
  /\ cpu # "thread" => pc[running_thread] \notin Making
  /\ cpu = "rr_pick" => Scheduler = "rr"
  /\ cpu \in {"mlfq_boost", "mlfq_pick", "mlfq_run"} => Scheduler = "mlfq"

\* The other threads wait for the CPU or for another thread, or are no more, or not yet.
StatusInv ==
  /\ \A t \in Threads :
       /\ t # Current => status[t] \in {"none", "ready", "blocked", "freed"}
       /\ status[t] = "none" <=> t >= thread_count
       /\ status[t] = "blocked" => t = Main
       /\ status[t] \in {"ready", "blocked"} => New(t) \/ context[t] = "saved"
       /\ New(t) => status[t] = "ready" /\ t # running_thread
       /\ pc[t] \in Making => t = running_thread
       /\ pc[t] \in {"user", "join_return", "done"} \cup Making
       /\ pc[t] = "done" <=> status[t] \in {"finished", "freed"}
  /\ status[Main] \notin {"finished", "freed"}
  /\ pc[running_thread] \in Making => local[running_thread] \in Threads

\* Main is blocked until the thread it joins has ended, and that thread knows it.
JoinInv ==
  /\ \A t \in Threads : pc[t] = "join_return" => t = Main
  /\ status[Main] = "blocked" => /\ pc[Main] = "join_return"
                                 /\ waiting_thread[Arg(Main)] = Main
                                 /\ status[Arg(Main)] \in {"ready", "running", "finished"}
  /\ pc[Main] = "join_return" => /\ InCall(Main, "join")
                                 /\ status[Main] = "blocked" \/ status[Arg(Main)] = "freed"
  /\ \A k \in Threads : waiting_thread[k] # NoThread =>
       /\ waiting_thread[k] = Main
       /\ status[k] = "freed" \/ (status[Main] = "blocked" /\ Arg(Main) = k)
  /\ \A t \in Threads : \A j \in joined[t] : status[j] = "freed"
  /\ thread_count > Creates(ip[Main]) + (IF pc[Main] \in Making THEN 1 ELSE 0)

ForkInv == QueuesInv /\ CpuInv /\ StatusInv /\ JoinInv

\* The thread that Current names.
LEMMA CurrentIs ==
  ASSUME TypeOK, CpuInv
  PROVE  /\ cpu \in {"thread", "window", "resume"} => Current = running_thread
         /\ cpu = "mlfq_run" => Current = sched_next
         /\ cpu \in {"rr_pick", "mlfq_boost", "mlfq_pick"} => Current = NoThread
         /\ cpu \in {"thread", "window", "resume", "mlfq_run", "rr_pick", "mlfq_boost", "mlfq_pick"}
         /\ running_thread \in Threads
BY DEF TypeOK, CpuInv, Current, ThreadOf

\* The names of the queues differ.
LEMMA QueuesDiffer ==
  /\ Ready \in QueueNames /\ waiting_queue \in QueueNames /\ Ready # waiting_queue
  /\ Scheduler = "rr" => Ready = ready_queue
  /\ Scheduler # "rr" => Scheduler = "mlfq" /\ Ready = MLFQ_queue[0]
  /\ \A i \in 0..(Levels - 1) : /\ MLFQ_queue[i] \in QueueNames
                                /\ MLFQ_queue[i] # waiting_queue
                                /\ MLFQ_queue[i] # ready_queue
                                /\ \A k \in 0..(Levels - 1) : MLFQ_queue[i] = MLFQ_queue[k] => i = k
  /\ Main \in Threads /\ Main = 0 /\ NoThread = -1
  /\ Threads \subseteq Nodes /\ Threads \subseteq Nat
  /\ NoNode \notin Nodes
  /\ \A t \in Threads : ThreadOf(t) = t
<1>1. ready_queue # waiting_queue
  BY DEF ready_queue, waiting_queue
<1>2. \A i \in 0..(Levels - 1) : MLFQ_queue[i] = <<"mlfq", i>>
  BY DEF MLFQ_queue
<1>3. \A i : <<"mlfq", i>> # waiting_queue /\ <<"mlfq", i>> # ready_queue
  BY DEF ready_queue, waiting_queue
<1>4. \A i, k : <<"mlfq", i>> = <<"mlfq", k>> => i = k
  OBVIOUS
<1>5. Ready \in QueueNames /\ Ready # waiting_queue
  BY <1>1, <1>2, <1>3, ConstantTypes DEF Ready
<1>6. Scheduler # "rr" => Scheduler = "mlfq" /\ Ready = MLFQ_queue[0]
  BY WorkerAssumption DEF Ready
<1>7. Threads \subseteq Nat /\ \A t \in Threads : ThreadOf(t) = t
  BY WorkerAssumption DEF Threads, ThreadOf
<1> QED
  BY <1>2, <1>3, <1>4, <1>5, <1>6, <1>7, ConstantTypes, NoNodeAssumption DEF Ready, Main, NoThread

\* What every loop over a queue finds while the invariant holds.
LEMMA ReadyFacts ==
  ASSUME TypeOK, QueuesInv, NEW s \in Seq(Threads), ReadyList(s)
  PROVE  /\ s \in Seq(Nodes)
         /\ Linked(heap, Ready, s)
         /\ \A x \in Members(s) : x \in Threads /\ status[x] = "ready" /\ x \notin Dangling
         /\ \A S : /\ Visited(heap, heap.queue[Ready].head, S) \cap Dangling = {}
                   /\ ~Endless(heap, heap.queue[Ready].head, S)
         /\ \A t \in Threads : InQueue(Ready, t) <=> t \in Members(s)
         /\ s # <<>> => s[1] \in Members(s) /\ heap.queue[Ready].head = s[1]
         /\ s = <<>> => heap.queue[Ready].head = NoNode /\ Members(s) = {}
<1>1. s \in Seq(Nodes) /\ Len(s) \in Nat /\ \A i \in 1..Len(s) : s[i] \in Threads
  <2>1. Threads \subseteq Nodes
    BY QueuesDiffer
  <2>2. s \in Seq(Nodes)
    BY <2>1, SeqMonotonic
  <2> QED
    BY <2>2
<1>2. Linked(heap, Ready, s)
  <2>1. heap \in HeapOf(QueueNames) /\ Ready \in QueueNames
    BY HeapType, QueuesDiffer DEF TypeOK
  <2>2. Settled.next = heap.next /\ Settled.queue[Ready].head = heap.queue[Ready].head
    BY <2>1 DEF Settled, Retail, HeapOf, Queue
  <2> QED
    BY <2>2 DEF ReadyList, IsList, Linked
<1>3. Members(s) = Listed
  BY DEF ReadyList
<1>4. \A x \in Members(s) : x \in Threads /\ status[x] = "ready" /\ x \notin Dangling
  BY <1>3, QueuesDiffer DEF Listed, Dangling
<1>5. \A S : /\ Visited(heap, heap.queue[Ready].head, S) \subseteq Members(s)
             /\ ~Endless(heap, heap.queue[Ready].head, S)
             /\ Hits(heap, heap.queue[Ready].head, S) <=> Members(s) \cap S # {}
  BY <1>1, <1>2, LoopOfList
<1>6. \A t \in Threads : Members(s) \cap NodesOf(t) # {} <=> t \in Members(s)
  <2>1. \A x \in Members(s) : x \in Threads /\ ThreadOf(x) = x
    BY <1>4, QueuesDiffer
  <2>2. \A t \in Threads : t \in NodesOf(t)
    BY QueuesDiffer DEF NodesOf
  <2>3. \A t \in Threads, x \in Members(s) : x \in NodesOf(t) => x = t
    BY <2>1 DEF NodesOf
  <2> QED
    BY <2>2, <2>3
<1>7. s # <<>> => 1 \in 1..Len(s)
  BY <1>1
<1>8. s # <<>> => s[1] \in Members(s) /\ heap.queue[Ready].head = s[1]
  BY <1>2, <1>7 DEF Members, Linked
<1>9. s = <<>> => heap.queue[Ready].head = NoNode /\ Members(s) = {}
  BY <1>2 DEF Members, Linked
<1> QED
  BY <1>1, <1>2, <1>4, <1>5, <1>6, <1>8, <1>9 DEF InQueue

\* Where no enqueue is half done, the tail of the ready queue is its last node.
LEMMA ReadyTail ==
  ASSUME TypeOK, QueuesInv, NEW s \in Seq(Threads), ReadyList(s),
         pc[running_thread] # "create_tail"
  PROVE  /\ IsList(heap, Ready, s)
         /\ \/ heap.queue[Ready].head = NoNode
            \/ /\ heap.queue[Ready].head # NoNode
               /\ heap.queue[Ready].tail # NoNode /\ heap.queue[Ready].tail \notin Dangling
<1>1. IsList(heap, Ready, s)
  BY DEF ReadyList, Settled
<1>2. CASE s = <<>>
  BY <1>1, <1>2 DEF IsList, Linked
<1>3. CASE s # <<>>
  <2>1. Len(s) \in 1..Len(s) /\ 1 \in 1..Len(s)
    BY <1>3
  <2>2. s[Len(s)] \in Members(s) /\ s[1] \in Members(s)
    BY <2>1 DEF Members
  <2>3. s[Len(s)] \in Nodes /\ s[Len(s)] \notin Dangling /\ s[1] \in Nodes
    BY <2>2, ReadyFacts, QueuesDiffer
  <2> QED
    BY <1>1, <1>3, <2>3, QueuesDiffer DEF IsList, Linked
<1> QED
  BY <1>1, <1>2, <1>3

\* The waiting queue holds main if it is blocked, and nothing else.
LEMMA WaitingFacts ==
  ASSUME TypeOK, QueuesInv
  PROVE  /\ \A S : /\ Visited(heap, heap.queue[waiting_queue].head, S) \cap Dangling = {}
                   /\ ~Endless(heap, heap.queue[waiting_queue].head, S)
         /\ InQueue(waiting_queue, Main) <=> status[Main] = "blocked"
         /\ \A t \in Threads : InQueue(waiting_queue, t) => t = Main
<1>0. PICK s \in Seq(Threads) : ReadyList(s)
  BY DEF QueuesInv
<1>1. CASE status[Main] = "blocked"
  <2> DEFINE m == <<Main>>
  <2>1. m \in Seq(Nodes) /\ Len(m) = 1 /\ m # <<>> /\ m[1] = Main
    BY QueuesDiffer
  <2> HIDE DEF m
  <2>2. heap.queue[waiting_queue].head = Main
    BY <1>1 DEF QueuesInv
  <2>3. Main \notin Members(s) /\ Main \in Nodes
    BY <1>0, <1>1, QueuesDiffer DEF ReadyList, Listed
  <2>4. Settled.next = heap.next
    BY DEF Settled, Retail
  <2>5. heap.next[Main] = NoNode
    BY <1>0, <2>3, <2>4 DEF ReadyList, IsList
  <2>6. Linked(heap, waiting_queue, m) /\ Members(m) = {Main}
    BY <2>1, <2>2, <2>5 DEF Linked, Members
  <2>7. \A S : /\ Visited(heap, heap.queue[waiting_queue].head, S) \subseteq {Main}
               /\ ~Endless(heap, heap.queue[waiting_queue].head, S)
               /\ Hits(heap, heap.queue[waiting_queue].head, S) <=> {Main} \cap S # {}
    BY <2>1, <2>6, LoopOfList
  <2>8. Main \notin Dangling /\ \A t \in Threads : Main \in NodesOf(t) <=> t = Main
    BY <1>1, QueuesDiffer DEF Dangling, NodesOf
  <2> QED
    BY <1>1, <2>7, <2>8, QueuesDiffer DEF InQueue
<1>2. CASE status[Main] # "blocked"
  <2> DEFINE m == <<>>
  <2>1. m \in Seq(Nodes) /\ Len(m) = 0 /\ m = <<>>
    OBVIOUS
  <2> HIDE DEF m
  <2>2. heap.queue[waiting_queue].head = NoNode
    BY <1>2 DEF QueuesInv, Empty
  <2>3. Linked(heap, waiting_queue, m) /\ Members(m) = {}
    BY <2>1, <2>2 DEF Linked, Members
  <2>4. \A S : /\ Visited(heap, heap.queue[waiting_queue].head, S) \subseteq {}
               /\ ~Endless(heap, heap.queue[waiting_queue].head, S)
               /\ Hits(heap, heap.queue[waiting_queue].head, S) <=> {} \cap S # {}
    BY <2>1, <2>3, LoopOfList
  <2> QED
    BY <1>2, <2>4, QueuesDiffer DEF InQueue
<1> QED
  BY <1>1, <1>2

\* An empty queue.
LEMMA EmptyFacts ==
  ASSUME NEW q, heap.queue[q] = Empty
  PROVE  \A S : /\ Visited(heap, heap.queue[q].head, S) = {}
                /\ ~Endless(heap, heap.queue[q].head, S)
                /\ ~Hits(heap, heap.queue[q].head, S)
<1> DEFINE m == <<>>
<1>1. m \in Seq(Nodes) /\ Len(m) = 0 /\ m = <<>>
  OBVIOUS
<1> HIDE DEF m
<1>2. Linked(heap, q, m) /\ Members(m) = {}
  BY <1>1 DEF Linked, Members, Empty
<1>3. \A S : /\ Visited(heap, heap.queue[q].head, S) \subseteq Members(m)
             /\ ~Endless(heap, heap.queue[q].head, S)
             /\ Hits(heap, heap.queue[q].head, S) <=> Members(m) \cap S # {}
  BY <1>1, <1>2, LoopOfList
<1> QED
  BY <1>2, <1>3

\* find_ready_threads: its loops read no freed node and end, and it finds the queue of a thread
\* that is in one.
LEMMA FindFacts ==
  ASSUME TypeOK, QueuesInv, NEW s \in Seq(Threads), ReadyList(s), NEW j \in Threads
  PROVE  /\ \A S : /\ Visited(heap, heap.queue[FindQueue(j)].head, S) \cap Dangling = {}
                   /\ ~Endless(heap, heap.queue[FindQueue(j)].head, S)
         /\ InQueue(FindQueue(j), j) <=> j \in Members(s)
<1>1. CASE Scheduler = "rr"
  BY <1>1, ReadyFacts, QueuesDiffer DEF FindQueue
<1>2. CASE Scheduler # "rr"
  <2> DEFINE P(i) == /\ \A k \in 0..(i - 1) : ~InQueue(MLFQ_queue[k], j)
                     /\ InQueue(MLFQ_queue[i], j) \/ i = Levels - 1
             f == CHOOSE i \in 0..(Levels - 1) : P(i)
  <2>1. Levels \in Nat \ {0} /\ 0 \in 0..(Levels - 1) /\ Levels - 1 \in 0..(Levels - 1)
    BY WorkerAssumption
  <2>2. Ready = MLFQ_queue[0]
    BY <1>2, QueuesDiffer
  <2>3. \A i \in 0..(Levels - 1) : i # 0 =>
          heap.queue[MLFQ_queue[i]] = Empty /\ ~InQueue(MLFQ_queue[i], j)
    <3>1. \A i \in 0..(Levels - 1) : i # 0 => heap.queue[MLFQ_queue[i]] = Empty
      BY <2>1, <2>2, QueuesDiffer DEF QueuesInv
    <3> QED
      BY <3>1, EmptyFacts DEF InQueue
  <2>4. InQueue(MLFQ_queue[0], j) <=> j \in Members(s)
    BY <2>2, ReadyFacts
  <2>5. \E i \in 0..(Levels - 1) : P(i)
    <3>1. CASE j \in Members(s)
      <4>1. P(0)
        BY <2>4, <3>1
      <4> QED
        BY <2>1, <4>1
    <3>2. CASE j \notin Members(s)
      <4>1. P(Levels - 1)
        BY <2>1, <2>3, <2>4, <3>2
      <4> QED
        BY <2>1, <4>1
    <3> QED
      BY <3>1, <3>2
  <2> HIDE DEF P
  <2>6. f \in 0..(Levels - 1) /\ P(f)
    BY <2>5, Zenon
  <2>7. FindQueue(j) = MLFQ_queue[f]
    BY <1>2 DEF FindQueue, P
  <2> HIDE DEF f
  <2>8. CASE f = 0
    BY <2>2, <2>4, <2>7, <2>8, ReadyFacts
  <2>9. CASE f # 0
    <3>1. ~InQueue(MLFQ_queue[0], j)
      BY <2>6, <2>9 DEF P
    <3>2. ~InQueue(MLFQ_queue[f], j) /\ heap.queue[MLFQ_queue[f]] = Empty
      BY <2>3, <2>6, <2>9
    <3> QED
      BY <2>4, <2>7, <3>1, <3>2, EmptyFacts
  <2> QED
    BY <2>8, <2>9
<1> QED
  BY <1>1, <1>2

\* The types that the steps need.
ForkTypes ==
  /\ status \in [Threads -> {"none", "ready", "running", "blocked", "finished", "freed"}]
  /\ waiting_thread \in [Threads -> Threads \cup {NoThread}]
  /\ context \in [Threads -> {"none", "saved", "scheduler"}]
  /\ pc \in [Threads -> Labels] /\ ip \in [Threads -> Nat \ {0}]
  /\ local \in [Threads -> Nodes \cup {NoNode}]
  /\ joined \in [Threads -> SUBSET Threads]
  /\ running_thread \in Threads /\ thread_count \in 1..NumThreads
  /\ NumThreads \in Nat \ {0} /\ Threads = 0..(NumThreads - 1)
  /\ Main \in Threads /\ Main = 0 /\ NoThread \notin Threads

LEMMA Types == TypeOK => ForkTypes
BY QueuesDiffer, WorkerAssumption, ConstantTypes DEF TypeOK, ForkTypes, Threads

-----------------------------------------------------------------------------
\* The calls of a program that forks and joins.

\* How many threads main has made grows with its calls of worker_create only.
LEMMA CreatesGrow ==
  ASSUME NEW i \in Nat \ {0}
  PROVE  /\ Creates(i) \in Nat
         /\ Creates(i + 1) = IF Program[Main][i].op = "create" THEN Creates(i) + 1 ELSE Creates(i)
<1> DEFINE C(n) == {k \in 1..(n - 1) : Program[Main][k].op = "create"}
<1>1. IsFiniteSet(C(i))
  <2>1. IsFiniteSet(1..(i - 1))
    BY FS_Interval
  <2> QED
    BY <2>1, FS_Subset
<1>2. C(i + 1) = IF Program[Main][i].op = "create" THEN C(i) \cup {i} ELSE C(i)
  <2>1. (i + 1) - 1 = i /\ 1..i = (1..(i - 1)) \cup {i}
    OBVIOUS
  <2> QED
    BY <2>1
<1>3. i \notin C(i)
  OBVIOUS
<1>4. Creates(i) = Cardinality(C(i)) /\ Creates(i + 1) = Cardinality(C(i + 1))
  BY DEF Creates
<1> HIDE DEF C
<1>5. Cardinality(C(i)) \in Nat
  BY <1>1, FS_CardinalityType
<1>6. Cardinality(C(i) \cup {i}) = Cardinality(C(i)) + 1
  BY <1>1, <1>3, FS_AddElement
<1> QED
  BY <1>2, <1>4, <1>5, <1>6

\* Main joins only threads that it has made; only main joins; no call locks.
LEMMA CallsMade ==
  ASSUME TypeOK, ForkJoin, NEW t \in Threads
  PROVE  /\ \A op \in {"lock", "unlock", "destroy"} : ~InCall(t, op)
         /\ InCall(t, "exit") => t # Main
         /\ InCall(t, "join") => t = Main /\ Arg(t) \in 1..Creates(ip[t])
         /\ \A op : InCall(t, op) => Program[t][ip[t]].op = op
<1>1. Program[t] \in Seq(Call) /\ ip[t] \in Nat \ {0}
  BY WorkerAssumption DEF TypeOK
<1>2. \A op : InCall(t, op) => ip[t] \in 1..Len(Program[t]) /\ Program[t][ip[t]].op = op
  BY <1>1 DEF InCall, Ended
<1> QED
  BY <1>2 DEF ForkJoin, Arg

\* The thread that main is joining: it is not main, and has been made.
LEMMA JoinedThread ==
  ASSUME TypeOK, ForkJoin, JoinInv, StatusInv, InCall(Main, "join")
  PROVE  /\ Arg(Main) \in Threads /\ Arg(Main) # Main /\ Arg(Main) > 0
         /\ status[Arg(Main)] # "none" /\ Arg(Main) < thread_count
<1>1. Main \in Threads /\ Main = 0
  BY QueuesDiffer
<1>2. Arg(Main) \in 1..Creates(ip[Main]) /\ Arg(Main) \in Threads
  BY <1>1, CallsMade, ArgType
<1>3. Creates(ip[Main]) \in Nat /\ thread_count \in Nat
  <2>1. ForkTypes
    BY Types
  <2>2. ip[Main] \in Nat \ {0} /\ thread_count \in Nat
    BY <2>1 DEF ForkTypes
  <2> QED
    BY <2>2, CreatesGrow
<1>4. thread_count > Creates(ip[Main])
  BY <1>3 DEF JoinInv
<1>5. Arg(Main) < thread_count /\ Arg(Main) > 0
  BY <1>2, <1>3, <1>4
<1> QED
  BY <1>1, <1>2, <1>3, <1>5 DEF StatusInv

\* A thread of such a program makes these steps only.
ForkStep(t) == \/ CreateTcb(t) \/ CreateEnqueue(t) \/ CreateTail(t) \/ CreateContext(t)
               \/ Yield(t) \/ Exit(t) \/ Join(t) \/ JoinReturn(t)
               \/ t = Main /\ MainReturn

LEMMA ForkStepOnly ==
  ASSUME TypeOK, ForkJoin, ForkInv, NEW t \in Threads, ThreadStep(t)
  PROVE  ForkStep(t)
<1>1. /\ ~InCall(t, "lock") /\ ~InCall(t, "unlock") /\ ~InCall(t, "destroy")
  BY CallsMade
<1>2. pc[t] \in {"user", "join_return", "done"} \cup Making
  BY DEF ForkInv, StatusInv
<1>3. ~LockStep(t)
  BY <1>1, <1>2 DEF LockStep, LockTas, LockCheck, LockEnqueue, LockTail, LockBlock, LockWait,
     WaitTail, LockYield, LockOwn, LockAssert, Runs, Making
<1>4. ~UnlockStep(t)
  BY <1>1, <1>2 DEF UnlockStep, UnlockCheck, UnlockClear, UnlockOwner, UnlockTest, Unblock,
     UnlockEmpty, Destroy, Runs, Making
<1> QED
  BY <1>3, <1>4 DEF ThreadStep, CreateStep, ForkStep

-----------------------------------------------------------------------------
\* worker_create.

\* A step that leaves the queues alone and takes no thread to them or from them.
LEMMA SameQueues ==
  ASSUME QueuesInv, heap' = heap, priority' = priority, Listed' = Listed, Settled' = Settled,
         status'[Main] = "blocked" <=> status[Main] = "blocked"
  PROVE  QueuesInv' /\ \A s \in Seq(Threads) : ReadyList(s) => ReadyList(s)'
BY DEF QueuesInv, ReadyList

\* A step that a first-in-first-out queue does not see.
Parked == {t \in Threads : status[t] = "blocked" /\ t # Current}
Gone   == {t \in Threads : status[t] = "freed"}
Calm   == /\ \A s \in Seq(Threads) : ReadyList(s) => ReadyList(s)'
          /\ Current' = Current /\ Parked' = Parked /\ Gone' = Gone

\* What such a queue does see: a thread is made, leaves the CPU for the queue, for the parked or
\* for the gone threads (main may then leave the parked ones), or gets the CPU.
ListStep(s, a) ==
  \/ a = s /\ Current' = Current /\ Parked' = Parked /\ Gone' = Gone
  \/ /\ \E n \in Threads \ (Members(s) \cup {Current} \cup Parked \cup Gone) : a = Append(s, n)
     /\ Current' = Current /\ Parked' = Parked /\ Gone' = Gone
  \/ /\ Current # NoThread /\ Current' = NoThread
     /\ \/ a = Append(s, Current) /\ Parked' = Parked /\ Gone' = Gone
        \/ a = s /\ Parked' = Parked \cup {Current} /\ Gone' = Gone
        \/ a = s /\ Parked' = Parked /\ Gone' = Gone \cup {Current}
        \/ /\ \E n \in Parked : a = Append(s, n) /\ Parked' = Parked \ {n}
           /\ Gone' = Gone \cup {Current}
  \/ /\ Current = NoThread /\ s # <<>>
     /\ Current' = s[1] /\ a = Tail(s) /\ Parked' = Parked /\ Gone' = Gone
FifoMove ==
  \A s \in Seq(Threads) : ReadyList(s) => \E a \in Seq(Threads) : ReadyList(a)' /\ ListStep(s, a)

LEMMA CalmMoves == Calm => FifoMove
BY DEF Calm, FifoMove, ListStep

\* A step of the running thread that starts or ends no join.
LEMMA SameJoins ==
  ASSUME TypeOK, JoinInv, NEW t \in Threads, NEW l \in Labels \ {"join_return"},
         status[t] = "running", pc[t] # "join_return",
         pc' = [pc EXCEPT ![t] = l], ip' = ip \/ ip' = [ip EXCEPT ![t] = @ + 1],
         status' = status \/ (t # Main /\ status' = [status EXCEPT ![t] = "finished"]),
         waiting_thread' = waiting_thread, joined' = joined, thread_count' = thread_count,
         thread_count > Creates(ip'[Main]) + (IF pc'[Main] \in Making THEN 1 ELSE 0)
  PROVE  JoinInv'
<1>0. ForkTypes
  BY Types
<1> USE <1>0
<1>1. \A x \in Threads : x # t => /\ pc'[x] = pc[x] /\ status'[x] = status[x] /\ ip'[x] = ip[x]
                                 /\ Arg(x)' = Arg(x)
                                 /\ InCall(x, "join")' = InCall(x, "join")
  BY DEF ForkTypes, Arg, InCall, Ended
<1>2. pc'[t] # "join_return" /\ status'[t] \in {"running", "finished"}
  BY DEF ForkTypes
<1>3. t = Main => status'[Main] = "running"
  BY DEF ForkTypes
<1>4. \A x \in Threads : status[x] = "freed" => status'[x] = "freed"
  BY DEF ForkTypes
<1>5. \A x \in Threads : status[x] \in {"ready", "running", "finished"}
                          => status'[x] \in {"ready", "running", "finished"}
  BY DEF ForkTypes
<1>6. \A x \in Threads : \A j \in joined[x] : j \in Threads
  BY DEF ForkTypes
<1>7. status[Main] = "blocked" => waiting_thread[Arg(Main)] = Main
                                  /\ status[Arg(Main)] \in {"ready", "running", "finished"}
                                  /\ pc[Main] = "join_return" /\ Main # t
  BY DEF JoinInv
<1>8. status'[Main] = "blocked" <=> status[Main] = "blocked"
  BY <1>1, <1>3 DEF ForkTypes
<1>9. \A x \in Threads : pc'[x] = "join_return" => x = Main
  BY <1>1, <1>2 DEF JoinInv
<1>10. Main \in Threads /\ (Main # t => Arg(Main)' = Arg(Main)
                                     /\ InCall(Main, "join")' = InCall(Main, "join"))
  BY <1>1 DEF ForkTypes
<1>11. InCall(Main, "join") => Arg(Main) \in Threads
  BY ArgType DEF ForkTypes
<1>12. status'[Main] = "blocked" =>
         /\ pc'[Main] = "join_return"
         /\ waiting_thread'[Arg(Main)'] = Main
         /\ status'[Arg(Main)'] \in {"ready", "running", "finished"}
  BY <1>1, <1>5, <1>7, <1>8, <1>10, <1>11 DEF JoinInv
<1>13. pc'[Main] = "join_return" =>
         /\ InCall(Main, "join")'
         /\ status'[Main] = "blocked" \/ status'[Arg(Main)'] = "freed"
  BY <1>1, <1>2, <1>4, <1>8, <1>10, <1>11 DEF JoinInv
<1>14. \A k \in Threads : waiting_thread'[k] # NoThread =>
         /\ waiting_thread'[k] = Main
         /\ status'[k] = "freed" \/ (status'[Main] = "blocked" /\ Arg(Main)' = k)
  BY <1>4, <1>7, <1>8, <1>10 DEF JoinInv
<1>15. \A x \in Threads : \A j \in joined'[x] : status'[j] = "freed"
  BY <1>4, <1>6 DEF JoinInv
<1>16. (thread_count > Creates(ip[Main]) + (IF pc[Main] \in Making THEN 1 ELSE 0))'
  OBVIOUS
<1> QED
  BY <1>9, <1>12, <1>13, <1>14, <1>15, <1>16 DEF JoinInv

\* tcb and node of the new thread.
LEMMA TcbFork ==
  ASSUME TypeOK, ForkJoin, ForkInv, NEW t \in Threads, CreateTcb(t)
  PROVE  ForkInv' /\ Calm
<1> DEFINE n == thread_count
<1>0. ForkTypes
  BY Types
<1>1. /\ process = "up" /\ cpu = "thread" /\ running_thread = t /\ pc[t] = "user"
      /\ n < NumThreads
      /\ status' = [status EXCEPT ![n] = "ready"] /\ thread_count' = n + 1
      /\ local' = [local EXCEPT ![t] = n]
      /\ pc' = [pc EXCEPT ![t] = "create_enqueue"] /\ ip' = ip
      /\ process' = process /\ cpu' = cpu /\ running_thread' = t /\ running_node' = running_node
      /\ sched_next' = sched_next /\ waiting_thread' = waiting_thread /\ priority' = priority
      /\ context' = context /\ heap' = heap /\ joined' = joined
  BY DEF CreateTcb, Runs, Goto, machine, sched, ghosts
<1>2. n \in Threads /\ status[n] = "none" /\ n # Main /\ n # t /\ status[t] = "running"
  BY <1>0, <1>1 DEF ForkTypes, ForkInv, StatusInv, CpuInv
<1>3. Current = t /\ Current' = t
  BY <1>1 DEF Current
<1>4. (\A x : ~New(x)) /\ (\A x : New(x)' <=> x = n)
  BY <1>0, <1>1, <1>2 DEF New, Making, ForkTypes
<1>5. CpuInv'
  BY <1>0, <1>1, <1>2 DEF ForkInv, CpuInv, ForkTypes
<1>6. StatusInv'
  <2>1. \A x \in Threads : status'[x] = (IF x = n THEN "ready" ELSE status[x])
                        /\ pc'[x] = (IF x = t THEN "create_enqueue" ELSE pc[x])
    BY <1>0, <1>1, <1>2 DEF ForkTypes
  <2>2. \A x \in Threads : status'[x] = "none" <=> x >= thread_count'
    BY <1>0, <1>1, <1>2, <2>1 DEF ForkTypes, ForkInv, StatusInv
  <2> QED
    BY <1>0, <1>1, <1>2, <1>3, <1>4, <2>1, <2>2 DEF ForkInv, StatusInv, Making, ForkTypes
<1>7. JoinInv'
  <2>1. t = Main => Program[Main][ip[Main]].op = "create"
    BY CallsMade DEF CreateTcb
  <2>2. Creates(ip[Main]) \in Nat
    BY <1>0, CreatesGrow DEF ForkTypes
  <2>3. thread_count' > Creates(ip'[Main]) + (IF pc'[Main] \in Making THEN 1 ELSE 0)
    BY <1>0, <1>1, <1>2, <2>2 DEF ForkInv, JoinInv, ForkTypes, Making
  <2>4. Arg(Main)' = Arg(Main) /\ InCall(Main, "join")' = InCall(Main, "join")
    BY <1>1 DEF Arg, InCall, Ended
  <2>5. \A x \in Threads : status'[x] = (IF x = n THEN "ready" ELSE status[x])
                        /\ pc'[x] = (IF x = t THEN "create_enqueue" ELSE pc[x])
    BY <1>0, <1>1, <1>2 DEF ForkTypes
  <2>6. InCall(Main, "join") => Arg(Main) # n /\ Arg(Main) \in Threads
    BY <1>2, JoinedThread DEF ForkInv
  <2>7. status[Main] = "blocked" => Main # t
    BY <1>2
  <2>8. \A x \in Threads : \A j \in joined[x] : j \in Threads
    BY <1>0 DEF ForkTypes
  <2> QED
    BY <1>0, <1>1, <1>2, <2>3, <2>4, <2>5, <2>6, <2>7, <2>8 DEF ForkInv, JoinInv, ForkTypes
<1>8. QueuesInv' /\ \A s \in Seq(Threads) : ReadyList(s) => ReadyList(s)'
  <2>1. \A x \in Threads : status'[x] = (IF x = n THEN "ready" ELSE status[x])
    BY <1>0, <1>1, <1>2 DEF ForkTypes
  <2>2. Listed' = Listed
    BY <1>0, <1>1, <1>2, <1>3, <1>4, <2>1 DEF Listed, ForkTypes
  <2>3. Settled' = Settled
    BY <1>0, <1>1 DEF Settled, ForkTypes
  <2> QED
    BY <1>1, <1>2, <2>1, <2>2, <2>3, <1>0, SameQueues DEF ForkInv, ForkTypes
<1>9. Current' = Current /\ Parked' = Parked /\ Gone' = Gone
  <2>1. \A x \in Threads : status'[x] = (IF x = n THEN "ready" ELSE status[x])
    BY <1>0, <1>1, <1>2 DEF ForkTypes
  <2>2. Current' = Current
    BY <1>1 DEF Current
  <2> QED
    BY <1>2, <2>1, <2>2 DEF Parked, Gone
<1> QED
  BY <1>5, <1>6, <1>7, <1>8, <1>9 DEF ForkInv, Calm

\* enqueue's first assignment: the new thread is in the list, and its tail is still to be set.
LEMMA EnqueueFork ==
  ASSUME TypeOK, ForkJoin, ForkInv, NEW t \in Threads, CreateEnqueue(t)
  PROVE  ForkInv' /\ FifoMove
<1> DEFINE n == local[t]
<1>0. ForkTypes
  BY Types
<1>1. /\ process = "up" /\ cpu = "thread" /\ running_thread = t /\ pc[t] = "create_enqueue"
  BY DEF CreateEnqueue, Runs
<1>2. New(n) /\ \A x : New(x) => x = n
  BY <1>1 DEF New, Making
<1>3. n \in Threads /\ status[n] = "ready" /\ n # t /\ status[t] = "running"
  <2>1. n \in Threads
    BY <1>0, <1>1, WorkerAssumption DEF ForkTypes, ForkInv, StatusInv, New
  <2> QED
    BY <1>1, <1>2, <2>1 DEF ForkInv, StatusInv, CpuInv
<1>4. ReadyQueue(n) = Ready
  BY <1>3 DEF ForkInv, QueuesInv, ReadyQueue, Ready
<1>5. PICK s0 \in Seq(Threads) : ReadyList(s0)
  BY DEF ForkInv, QueuesInv
<1>6. /\ heap.queue[Ready].head = NoNode
         \/ (heap.queue[Ready].tail # NoNode /\ heap.queue[Ready].tail \notin Dangling)
  BY <1>1, <1>5, ReadyTail DEF ForkInv
<1>7. /\ heap' = Link(heap, Ready, n)
      /\ pc' = [pc EXCEPT ![t] = "create_tail"] /\ ip' = ip
      /\ process' = process /\ cpu' = cpu /\ running_thread' = t /\ running_node' = running_node
      /\ sched_next' = sched_next /\ waiting_thread' = waiting_thread /\ priority' = priority
      /\ context' = context /\ joined' = joined /\ status' = status
      /\ thread_count' = thread_count /\ local' = local
  <2> DEFINE A == /\ heap' = Link(heap, Ready, n)
                  /\ Goto(t, "create_tail")
                  /\ UNCHANGED <<machine, sched, tcbs, pools, local, mutexes, ghosts>>
  <2>1. A
    BY <1>4, <1>6, Zenon DEF CreateEnqueue, Into
  <2> QED
    BY <1>1, <2>1 DEF Goto, machine, sched, tcbs, pools, ghosts
<1>8. Current = t /\ Current' = t
  BY <1>1, <1>7 DEF Current
<1>9. \A x : New(x)' <=> New(x)
  BY <1>0, <1>1, <1>7 DEF New, Making, ForkTypes
<1>10. Listed' = Listed \cup {n} /\ n \notin Listed
  BY <1>0, <1>1, <1>2, <1>3, <1>7, <1>8, <1>9 DEF Listed, ForkTypes
<1>11. Settled = heap /\ Settled' = Enqueue(heap, Ready, n)
  BY <1>0, <1>1, <1>7 DEF Settled, Enqueue, ForkTypes
<1>12. /\ Link(heap, Ready, n).queue[waiting_queue] = heap.queue[waiting_queue]
       /\ \A q \in QueueNames \ {Ready, waiting_queue} :
            Link(heap, Ready, n).queue[q] = heap.queue[q]
  <2>1. heap \in HeapOf(QueueNames)
    BY HeapType DEF TypeOK
  <2> QED
    BY <2>1, QueuesDiffer DEF Link, HeapOf
<1>13. ASSUME NEW s \in Seq(Threads), ReadyList(s)
       PROVE  /\ n \notin Members(s)
              /\ \E a \in Seq(Threads) : a = Append(s, n) /\ ReadyList(a)'
  <2>1. IsList(heap, Ready, s) /\ s \in Seq(Nodes) /\ Members(s) = Listed
    BY <1>1, <1>13, ReadyTail, ReadyFacts DEF ReadyList, ForkInv
  <2>2. heap \in HeapOf(QueueNames) /\ Ready \in QueueNames /\ n \in Nodes \ Members(s)
    BY <1>3, <1>10, <2>1, HeapType, QueuesDiffer DEF TypeOK
  <2>3. IsList(Enqueue(heap, Ready, n), Ready, Append(s, n))
    BY <2>1, <2>2, Enqueued
  <2>4. Members(Append(s, n)) = Members(s) \cup {n}
    BY <2>1, <2>2, MembersAppend
  <2>5. Append(s, n) \in Seq(Threads)
    BY <1>3, AppendProperties
  <2>6. PICK a \in Seq(Threads) : a = Append(s, n)
    BY <2>5
  <2>7. ReadyList(a)'
    BY <1>10, <1>11, <2>1, <2>3, <2>4, <2>6 DEF ReadyList
  <2> QED
    BY <2>2, <2>6, <2>7
<1>14. QueuesInv'
  <2>1. \E s \in Seq(Threads) : ReadyList(s)'
    BY <1>5, <1>13
  <2> QED
    BY <1>7, <1>12, <2>1 DEF ForkInv, QueuesInv
<1>15. \A x \in Threads : pc'[x] = IF x = t THEN "create_tail" ELSE pc[x]
  BY <1>0, <1>7 DEF ForkTypes
<1>16. CpuInv'
  BY <1>1, <1>7 DEF ForkInv, CpuInv
<1>17. StatusInv'
  BY <1>0, <1>1, <1>7, <1>8, <1>9, <1>15 DEF ForkInv, StatusInv, Making, ForkTypes
<1>18. JoinInv'
  <2>1. Arg(Main)' = Arg(Main) /\ InCall(Main, "join")' = InCall(Main, "join")
    BY <1>7 DEF Arg, InCall, Ended
  <2> QED
    BY <1>0, <1>1, <1>7, <1>15, <2>1 DEF ForkInv, JoinInv, Making, ForkTypes
<1>19. FifoMove
  <2>1. Current' = Current /\ Parked' = Parked /\ Gone' = Gone
    BY <1>7, <1>8 DEF Parked, Gone
  <2>2. n \notin {Current} \cup Parked \cup Gone
    BY <1>3, <1>8 DEF Parked, Gone
  <2> QED
    BY <1>3, <1>13, <2>1, <2>2 DEF FifoMove, ListStep
<1> QED
  BY <1>14, <1>16, <1>17, <1>18, <1>19 DEF ForkInv

\* enqueue's second assignment.
LEMMA TailFork ==
  ASSUME TypeOK, ForkJoin, ForkInv, NEW t \in Threads, CreateTail(t)
  PROVE  ForkInv' /\ Calm
<1> DEFINE n == local[t]
<1>0. ForkTypes
  BY Types
<1>1. /\ process = "up" /\ cpu = "thread" /\ running_thread = t /\ pc[t] = "create_tail"
  BY DEF CreateTail, Runs
<1>2. n \in Threads
  BY <1>1 DEF ForkInv, StatusInv, Making
<1>4. ReadyQueue(n) = Ready
  BY <1>2 DEF ForkInv, QueuesInv, ReadyQueue, Ready
<1>7. /\ heap' = Retail(heap, Ready, n)
      /\ pc' = [pc EXCEPT ![t] = "create_context"] /\ ip' = ip
      /\ process' = process /\ cpu' = cpu /\ running_thread' = t /\ running_node' = running_node
      /\ sched_next' = sched_next /\ waiting_thread' = waiting_thread /\ priority' = priority
      /\ context' = context /\ joined' = joined /\ status' = status
      /\ thread_count' = thread_count /\ local' = local
  BY <1>1, <1>4 DEF CreateTail, Goto, machine, sched, tcbs, pools, ghosts
<1>8. Current = t /\ Current' = t
  BY <1>1, <1>7 DEF Current
<1>9. \A x : New(x)' <=> New(x)
  BY <1>0, <1>1, <1>7 DEF New, Making, ForkTypes
<1>10. Listed' = Listed
  BY <1>0, <1>1, <1>7, <1>8, <1>9 DEF Listed, ForkTypes
<1>11. Settled' = Settled
  BY <1>0, <1>1, <1>7 DEF Settled, ForkTypes
<1>12. /\ heap'.queue[waiting_queue] = heap.queue[waiting_queue]
       /\ \A q \in QueueNames \ {Ready, waiting_queue} : heap'.queue[q] = heap.queue[q]
  <2>1. heap \in HeapOf(QueueNames)
    BY HeapType DEF TypeOK
  <2> QED
    BY <1>7, <2>1, QueuesDiffer DEF Retail, HeapOf
<1>13. \A s \in Seq(Threads) : ReadyList(s) => ReadyList(s)'
  BY <1>10, <1>11 DEF ReadyList
<1>14. QueuesInv'
  <2>1. \E s \in Seq(Threads) : ReadyList(s)'
    BY <1>13 DEF ForkInv, QueuesInv
  <2> QED
    BY <1>7, <1>12, <2>1 DEF ForkInv, QueuesInv
<1>15. \A x \in Threads : pc'[x] = IF x = t THEN "create_context" ELSE pc[x]
  BY <1>0, <1>7 DEF ForkTypes
<1>16. CpuInv'
  BY <1>1, <1>7 DEF ForkInv, CpuInv
<1>17. StatusInv'
  BY <1>0, <1>1, <1>7, <1>8, <1>9, <1>15 DEF ForkInv, StatusInv, Making, ForkTypes
<1>18. JoinInv'
  <2>1. Arg(Main)' = Arg(Main) /\ InCall(Main, "join")' = InCall(Main, "join")
    BY <1>7 DEF Arg, InCall, Ended
  <2> QED
    BY <1>0, <1>1, <1>7, <1>15, <2>1 DEF ForkInv, JoinInv, Making, ForkTypes
<1>19. Parked' = Parked /\ Gone' = Gone
  BY <1>7, <1>8 DEF Parked, Gone
<1> QED
  BY <1>8, <1>13, <1>14, <1>16, <1>17, <1>18, <1>19 DEF ForkInv, Calm

\* makecontext: the new thread can be resumed.
LEMMA ContextFork ==
  ASSUME TypeOK, ForkJoin, ForkInv, NEW t \in Threads, CreateContext(t)
  PROVE  ForkInv' /\ Calm
<1> DEFINE n == local[t]
<1>0. ForkTypes
  BY Types
<1>1. /\ process = "up" /\ cpu = "thread" /\ running_thread = t /\ pc[t] = "create_context"
      /\ pc' = [pc EXCEPT ![t] = "user"] /\ ip' = [ip EXCEPT ![t] = @ + 1]
      /\ context' = [context EXCEPT ![n] = "saved"]
      /\ process' = process /\ cpu' = cpu /\ running_thread' = t /\ running_node' = running_node
      /\ sched_next' = sched_next /\ waiting_thread' = waiting_thread /\ priority' = priority
      /\ joined' = joined /\ status' = status /\ heap' = heap
      /\ thread_count' = thread_count /\ local' = local
  BY DEF CreateContext, Runs, Return, machine, sched, pools, ghosts
<1>2. n \in Threads /\ status[t] = "running" /\ (\A x : New(x) <=> x = n) /\ \A x : ~New(x)'
  BY <1>0, <1>1 DEF ForkInv, StatusInv, CpuInv, New, Making, ForkTypes
<1>3. Current = t /\ Current' = t
  BY <1>1 DEF Current
<1>4. \A x \in Threads : /\ pc'[x] = (IF x = t THEN "user" ELSE pc[x])
                         /\ context'[x] = (IF x = n THEN "saved" ELSE context[x])
  BY <1>0, <1>1 DEF ForkTypes
<1>5. CpuInv'
  BY <1>1 DEF ForkInv, CpuInv
<1>6. StatusInv'
  BY <1>0, <1>1, <1>2, <1>3, <1>4 DEF ForkInv, StatusInv, Making, ForkTypes
<1>7. JoinInv'
  <2>1. /\ Creates(ip[Main]) \in Nat
        /\ Creates(ip[Main] + 1) \in {Creates(ip[Main]), Creates(ip[Main]) + 1}
    BY <1>0, CreatesGrow DEF ForkTypes
  <2>2. thread_count > Creates(ip[Main]) + (IF pc[Main] \in Making THEN 1 ELSE 0)
    BY DEF ForkInv, JoinInv
  <2>3. thread_count > Creates(ip'[Main]) + (IF pc'[Main] \in Making THEN 1 ELSE 0)
    <3>1. CASE t = Main
      <4>1. ip'[Main] = ip[Main] + 1 /\ pc'[Main] \notin Making /\ pc[Main] \in Making
        BY <1>0, <1>1, <1>4, <3>1 DEF Making, ForkTypes
      <4> QED
        BY <1>0, <2>1, <2>2, <4>1 DEF ForkTypes
    <3>2. CASE t # Main
      <4>1. ip'[Main] = ip[Main] /\ pc'[Main] = pc[Main]
        BY <1>0, <1>1, <1>4, <3>2 DEF ForkTypes
      <4> QED
        BY <2>2, <4>1
    <3> QED
      BY <3>1, <3>2
  <2> QED
    BY <1>0, <1>1, <1>2, <2>3, SameJoins DEF ForkInv, Labels
<1>8. Listed' = Listed /\ Settled' = Settled
  BY <1>0, <1>1, <1>3 DEF Listed, Settled, ForkTypes
<1>9. QueuesInv' /\ \A s \in Seq(Threads) : ReadyList(s) => ReadyList(s)'
  BY <1>1, <1>8, SameQueues DEF ForkInv
<1> QED
  BY <1>1, <1>3, <1>5, <1>6, <1>7, <1>9 DEF ForkInv, Calm, Parked, Gone

\* A tick in a thread's own code, worker_yield and worker_exit: the thread leaves the CPU.
LEMMA LeaveFork ==
  ASSUME TypeOK, ForkJoin, ForkInv, NEW t \in Threads, Tick(t) \/ Yield(t) \/ Exit(t)
  PROVE  ForkInv' /\ Calm
<1>0. ForkTypes
  BY Types
<1>a. process = "up" /\ cpu = "thread" /\ running_thread = t
  BY DEF Tick, Yield, Exit, Runs
<1>b. pc[t] = "user" /\ status[t] = "running"
  <2>1. MayTick(t) => pc[t] = "user"
    BY DEF ForkJoin, MayTick
  <2> QED
    BY <1>a, <2>1 DEF Tick, Yield, Exit, Runs, ForkInv, CpuInv
<1>1. /\ context' = [context EXCEPT ![t] = "saved"]
      /\ process' = process /\ cpu' = "window"
      /\ running_thread' = t /\ running_node' = running_node
      /\ sched_next' = sched_next /\ waiting_thread' = waiting_thread /\ priority' = priority
      /\ joined' = joined /\ heap' = heap
      /\ thread_count' = thread_count /\ local' = local
      /\ \/ status' = status /\ pc' = pc /\ ip' = ip
         \/ status' = status /\ pc' = [pc EXCEPT ![t] = "user"] /\ ip' = [ip EXCEPT ![t] = @ + 1]
            /\ InCall(t, "yield")
         \/ t # Main /\ status' = [status EXCEPT ![t] = "finished"] /\ ip' = ip
            /\ pc' = [pc EXCEPT ![t] = "done"]
  <2>1. CASE Tick(t)
    BY <1>a, <2>1 DEF Tick, SwitchOut, sched, pools, code, ghosts
  <2>2. CASE Yield(t)
    BY <1>a, <2>2 DEF Yield, SwitchOut, Return, sched, pools, ghosts
  <2>3. CASE Exit(t)
    <3>1. t # Main
      BY <2>3, CallsMade DEF Exit
    <3> QED
      BY <1>a, <1>b, <2>3, <3>1 DEF Exit, SwitchOut, Goto, sched, pools, ghosts
  <2> QED
    BY <2>1, <2>2, <2>3
<1>2. (\A x : ~New(x)) /\ (\A x : ~New(x)')
  BY <1>0, <1>a, <1>b, <1>1 DEF New, Making, ForkTypes
<1>3. Current = t /\ Current' = t
  BY <1>a, <1>1 DEF Current
<1>4. \A x \in Threads : /\ context'[x] = (IF x = t THEN "saved" ELSE context[x])
                         /\ x # t => pc'[x] = pc[x] /\ status'[x] = status[x]
                         /\ x = t => \/ pc'[x] = "user" /\ status'[x] = "running"
                                     \/ pc'[x] = "done" /\ status'[x] = "finished" /\ t # Main
  BY <1>0, <1>b, <1>1 DEF ForkTypes
<1>5. CpuInv'
  BY <1>0, <1>a, <1>1, <1>4 DEF ForkInv, CpuInv, ForkTypes, Making
<1>6. StatusInv'
  BY <1>0, <1>a, <1>b, <1>1, <1>2, <1>3, <1>4, SMTT(30) DEF ForkInv, StatusInv, Making, ForkTypes
<1>7. JoinInv'
  <2>1. Creates(ip[Main]) \in Nat
    BY <1>0, CreatesGrow DEF ForkTypes
  <2>2. thread_count > Creates(ip[Main]) + (IF pc[Main] \in Making THEN 1 ELSE 0)
    BY DEF ForkInv, JoinInv
  <2>3. Creates(ip'[Main]) = Creates(ip[Main])
    <3>1. CASE ip'[Main] = ip[Main]
      BY <3>1
    <3>2. CASE ip'[Main] # ip[Main]
      <4>1. InCall(Main, "yield") /\ ip'[Main] = ip[Main] + 1
        BY <1>0, <1>1, <3>2 DEF ForkTypes
      <4>2. Program[Main][ip[Main]].op = "yield"
        BY <1>0, <4>1, CallsMade DEF ForkTypes
      <4> QED
        BY <1>0, <4>1, <4>2, CreatesGrow DEF ForkTypes
    <3> QED
      BY <3>1, <3>2
  <2>4. thread_count > Creates(ip'[Main]) + (IF pc'[Main] \in Making THEN 1 ELSE 0)
    <3>1. pc'[Main] \in Making => pc[Main] \in Making
      BY <1>0, <1>4 DEF ForkTypes, Making
    <3>2. thread_count \in Nat /\ thread_count' = thread_count
      BY <1>0, <1>1 DEF ForkTypes
    <3> QED
      BY <2>1, <2>2, <2>3, <3>1, <3>2
  <2>5. \E l \in {"user", "done"} : pc' = [pc EXCEPT ![t] = l]
    <3>1. pc' = pc => pc' = [pc EXCEPT ![t] = "user"]
      BY <1>0, <1>b DEF ForkTypes
    <3> QED
      BY <1>1, <3>1
  <2> QED
    BY <1>0, <1>b, <1>1, <2>4, <2>5, SameJoins DEF ForkInv, Labels
<1>8. Listed' = Listed /\ Settled' = Settled
  BY <1>0, <1>a, <1>b, <1>1, <1>3, <1>4 DEF Listed, Settled, ForkTypes
<1>9. QueuesInv' /\ \A s \in Seq(Threads) : ReadyList(s) => ReadyList(s)'
  BY <1>0, <1>b, <1>1, <1>4, <1>8, SameQueues DEF ForkInv, ForkTypes
<1>10. Parked' = Parked /\ Gone' = Gone
  BY <1>b, <1>3, <1>4 DEF Parked, Gone
<1> QED
  BY <1>3, <1>5, <1>6, <1>7, <1>9, <1>10 DEF ForkInv, Calm

\* main() returns.
LEMMA ReturnFork ==
  ASSUME TypeOK, ForkInv, MainReturn
  PROVE  ForkInv' /\ Calm
<1>1. UNCHANGED <<cpu, interrupt_disabled, sched, tcbs, pools, heap, code, mutexes, ghosts>>
      /\ process' = "returned"
  BY DEF MainReturn, Die
<1>2. UNCHANGED <<cpu, running_thread, running_node, sched_next, status, waiting_thread, priority,
                  context, thread_count, heap, pc, ip, local, joined>>
  BY <1>1 DEF sched, tcbs, pools, code, ghosts
<1>3. Current' = Current /\ (\A x : New(x)' <=> New(x)) /\ Arg(Main)' = Arg(Main)
      /\ InCall(Main, "join")' = InCall(Main, "join") /\ Dangling' = Dangling
  BY <1>2 DEF Current, New, Arg, InCall, Ended, Dangling
<1>4. Listed' = Listed /\ Settled' = Settled
  BY <1>2, <1>3 DEF Listed, Settled
<1>5. QueuesInv' /\ \A s \in Seq(Threads) : ReadyList(s) => ReadyList(s)'
  BY <1>2, <1>4, SameQueues DEF ForkInv
<1>6. CpuInv'
  BY <1>1, <1>2 DEF ForkInv, CpuInv
<1>7. StatusInv'
  BY <1>2, <1>3 DEF ForkInv, StatusInv
<1>8. JoinInv'
  BY <1>2, <1>3 DEF ForkInv, JoinInv
<1>9. Parked' = Parked /\ Gone' = Gone
  BY <1>2, <1>3 DEF Parked, Gone
<1> QED
  BY <1>3, <1>5, <1>6, <1>7, <1>8, <1>9 DEF ForkInv, Calm

\* worker_join: main returns at once if the thread has ended, else it is blocked in the waiting
\* queue and noted as the joiner.
LEMMA JoinEffect ==
  ASSUME TypeOK, ForkJoin, ForkInv, NEW t \in Threads, Join(t)
  PROVE  /\ t = Main /\ process = "up" /\ cpu = "thread" /\ running_thread = Main
         /\ pc[Main] = "user" /\ InCall(Main, "join")
         /\ \/ status[Arg(Main)] = "freed" /\ JoinMissing(Main, Arg(Main))
            \/ /\ status[Arg(Main)] = "ready"
               /\ waiting_thread' = [waiting_thread EXCEPT ![Arg(Main)] = Main]
               /\ status' = [status EXCEPT ![Main] = "blocked"]
               /\ heap' = Enqueue(heap, waiting_queue, running_node)
               /\ SwitchOut(Main)
               /\ Goto(Main, "join_return")
               /\ UNCHANGED <<process, sched, priority, slice_used, pools, local, mutexes, ghosts>>
<1> DEFINE j == Arg(Main)
           q == FindQueue(j)
<1>0. ForkTypes
  BY Types
<1>1. t = Main /\ process = "up" /\ cpu = "thread" /\ running_thread = Main
      /\ pc[Main] = "user" /\ InCall(Main, "join")
  BY CallsMade DEF Join, Runs
<1>2. j \in Threads /\ j # Main /\ status[j] # "none"
  BY <1>1, JoinedThread DEF ForkInv
<1>3. Current = Main
  BY <1>1 DEF Current
<1>4. status[j] \in {"ready", "freed"} /\ status[Main] = "running"
  BY <1>1, <1>2, <1>3 DEF ForkInv, StatusInv, CpuInv
<1>5. PICK s \in Seq(Threads) : ReadyList(s)
  BY DEF ForkInv, QueuesInv
<1>6. j \in Members(s) <=> status[j] = "ready"
  BY <1>1, <1>2, <1>3, <1>5 DEF ReadyList, Listed
<1>7. /\ Visited(heap, heap.queue[q].head, NodesOf(j)) \cap Dangling = {}
      /\ ~Endless(heap, heap.queue[q].head, NodesOf(j))
      /\ InQueue(q, j) <=> status[j] = "ready"
  BY <1>2, <1>5, <1>6, FindFacts DEF ForkInv
<1> HIDE DEF q
<1>8. \/ ~InQueue(q, j) /\ JoinMissing(Main, j)
      \/ InQueue(q, j) /\ waiting_thread[j] > 0 /\ JoinTaken(Main)
      \/ InQueue(q, j) /\ waiting_thread[j] <= 0 /\ JoinBlock(Main, j)
  BY <1>1, <1>7, Zenon DEF Join, Walk, q
<1>9. ~(waiting_thread[j] > 0)
  <2>1. waiting_thread[j] = NoThread \/ waiting_thread[j] = Main
    BY <1>2 DEF ForkInv, JoinInv
  <2> QED
    BY <2>1, QueuesDiffer
<1>10. heap.queue[waiting_queue].head = NoNode
  BY <1>4 DEF ForkInv, QueuesInv, Empty
<1>11. CASE status[j] = "freed"
  BY <1>1, <1>7, <1>8, <1>11
<1>12. CASE status[j] # "freed"
  <2>1. JoinBlock(Main, j)
    BY <1>4, <1>7, <1>8, <1>9, <1>12
  <2> QED
    BY <1>1, <1>4, <1>10, <1>12, <2>1 DEF JoinBlock, Into
<1> QED
  BY <1>11, <1>12

\* The return of worker_join.
LEMMA MissingFork ==
  ASSUME TypeOK, ForkJoin, ForkInv, running_thread = Main, cpu = "thread", process = "up",
         InCall(Main, "join"), status[Arg(Main)] = "freed", pc[Main] \in {"user", "join_return"},
         Return(Main),
         \/ joined' = joined
         \/ joined' = [joined EXCEPT ![Main] = @ \cup {Arg(Main)}],
         UNCHANGED <<process, cpu, sched, tcbs, pools, heap, local>>
  PROVE  ForkInv' /\ Calm
<1>0. ForkTypes /\ Arg(Main) \in Threads
  BY Types, JoinedThread DEF ForkInv
<1>1. /\ pc' = [pc EXCEPT ![Main] = "user"] /\ ip' = [ip EXCEPT ![Main] = @ + 1]
      /\ UNCHANGED <<process, cpu, running_thread, running_node, sched_next, status, waiting_thread,
                     priority, context, thread_count, heap, local>>
  BY DEF Return, sched, tcbs, pools
<1>2. (\A x : ~New(x)) /\ (\A x : ~New(x)') /\ Current = Main /\ Current' = Main
      /\ status[Main] = "running"
  BY <1>0, <1>1 DEF New, Making, ForkTypes, Current, ForkInv, CpuInv
<1>3. \A x \in Threads : pc'[x] = IF x = Main THEN "user" ELSE pc[x]
  BY <1>0, <1>1 DEF ForkTypes
<1>4. CpuInv'
  BY <1>1 DEF ForkInv, CpuInv
<1>5. StatusInv'
  BY <1>0, <1>1, <1>2, <1>3 DEF ForkInv, StatusInv, Making, ForkTypes
<1>6. JoinInv'
  <2>1. Creates(ip[Main]) \in Nat /\ Creates(ip'[Main]) = Creates(ip[Main])
    <3>1. Program[Main][ip[Main]].op = "join"
      BY <1>0, CallsMade DEF ForkTypes
    <3> QED
      BY <1>0, <1>1, <3>1, CreatesGrow DEF ForkTypes
  <2>2. thread_count > Creates(ip[Main]) + (IF pc[Main] \in Making THEN 1 ELSE 0)
    BY DEF ForkInv, JoinInv
  <2>3. pc[Main] \notin Making /\ pc'[Main] \notin Making
    BY <1>0, <1>3 DEF Making, ForkTypes
  <2>4. (thread_count > Creates(ip[Main]) + (IF pc[Main] \in Making THEN 1 ELSE 0))'
    BY <1>1, <2>1, <2>2, <2>3
  <2>5. \A x \in Threads : \A j \in joined'[x] : status'[j] = "freed"
    <3>1. \A x \in Threads : \A j \in joined[x] : status[j] = "freed"
      BY DEF ForkInv, JoinInv
    <3>2. \A x \in Threads : joined'[x] \subseteq joined[x] \cup {Arg(Main)}
      BY <1>0, SMTT(30) DEF ForkTypes
    <3>3. status' = status
      BY <1>1
    <3> QED
      BY <3>1, <3>2, <3>3
  <2>6. pc'[Main] # "join_return" /\ status'[Main] # "blocked"
    BY <1>0, <1>1, <1>2, <1>3 DEF ForkTypes
  <2> QED
    BY <1>0, <1>1, <1>2, <1>3, <2>4, <2>5, <2>6 DEF ForkInv, JoinInv, ForkTypes
<1>7. Listed' = Listed /\ Settled' = Settled
  BY <1>0, <1>1, <1>2, <1>3 DEF Listed, Settled, ForkTypes
<1>8. QueuesInv' /\ \A s \in Seq(Threads) : ReadyList(s) => ReadyList(s)'
  BY <1>1, <1>7, SameQueues DEF ForkInv
<1>9. Parked' = Parked /\ Gone' = Gone
  BY <1>1, <1>2 DEF Parked, Gone
<1> QED
  BY <1>2, <1>4, <1>5, <1>6, <1>8, <1>9 DEF ForkInv, Calm

\* worker_join as a whole.
LEMMA JoinFork ==
  ASSUME TypeOK, ForkJoin, ForkInv, NEW t \in Threads, Join(t) \/ JoinReturn(t)
  PROVE  ForkInv' /\ Calm
<1> DEFINE j == Arg(Main)
<1>0. ForkTypes
  BY Types
<1>1. CASE JoinReturn(t)
  <2>1. t = Main /\ process = "up" /\ cpu = "thread" /\ running_thread = Main
        /\ pc[Main] = "join_return" /\ InCall(Main, "join")
    BY <1>1, CallsMade DEF JoinReturn, Runs
  <2>2. status[j] = "freed"
    BY <2>1 DEF ForkInv, CpuInv, JoinInv
  <2>3. /\ Return(Main) /\ joined' = [joined EXCEPT ![Main] = @ \cup {Arg(Main)}]
        /\ UNCHANGED <<process, cpu, sched, tcbs, pools, heap, local>>
    BY <1>1, <2>1 DEF JoinReturn
  <2> QED
    BY <2>1, <2>2, <2>3, MissingFork
<1>2. CASE Join(t) /\ status[j] = "freed"
  <2>1. /\ t = Main /\ process = "up" /\ cpu = "thread" /\ running_thread = Main
        /\ pc[Main] = "user" /\ InCall(Main, "join") /\ JoinMissing(Main, j)
    BY <1>2, JoinEffect
  <2>2. /\ Return(Main)
        /\ joined' = joined \/ joined' = [joined EXCEPT ![Main] = @ \cup {Arg(Main)}]
        /\ UNCHANGED <<process, cpu, sched, tcbs, pools, heap, local>>
    BY <2>1, Zenon DEF JoinMissing
  <2> QED
    BY <1>2, <2>1, <2>2, MissingFork
<1>3. CASE Join(t) /\ status[j] # "freed"
  <2>1. /\ t = Main /\ process = "up" /\ cpu = "thread" /\ running_thread = Main
        /\ pc[Main] = "user" /\ InCall(Main, "join") /\ status[j] = "ready"
        /\ waiting_thread' = [waiting_thread EXCEPT ![j] = Main]
        /\ status' = [status EXCEPT ![Main] = "blocked"]
        /\ heap' = Enqueue(heap, waiting_queue, running_node)
        /\ SwitchOut(Main)
        /\ Goto(Main, "join_return")
        /\ UNCHANGED <<process, sched, priority, slice_used, pools, local, mutexes, ghosts>>
    BY <1>3, JoinEffect
  <2>2. /\ process' = process /\ cpu' = "window" /\ running_thread' = Main
        /\ running_node' = running_node /\ running_node = Main
        /\ sched_next' = sched_next /\ priority' = priority
        /\ context' = [context EXCEPT ![Main] = "saved"]
        /\ joined' = joined /\ thread_count' = thread_count /\ local' = local
        /\ pc' = [pc EXCEPT ![Main] = "join_return"] /\ ip' = ip
    BY <2>1 DEF SwitchOut, Goto, sched, pools, ghosts, ForkInv, CpuInv
  <2>3. j \in Threads /\ j # Main
    BY <2>1, JoinedThread DEF ForkInv
  <2>4. (\A x : ~New(x)) /\ (\A x : ~New(x)') /\ Current = Main /\ Current' = Main
        /\ status[Main] = "running"
    BY <1>0, <2>1, <2>2 DEF New, Making, ForkTypes, Current, ForkInv, CpuInv
  <2>5. \A x \in Threads : /\ pc'[x] = (IF x = Main THEN "join_return" ELSE pc[x])
                           /\ status'[x] = (IF x = Main THEN "blocked" ELSE status[x])
                           /\ context'[x] = (IF x = Main THEN "saved" ELSE context[x])
                           /\ waiting_thread'[x] = (IF x = j THEN Main ELSE waiting_thread[x])
    BY <1>0, <2>1, <2>2, <2>3 DEF ForkTypes
  <2>6. CpuInv'
    BY <1>0, <2>1, <2>2, <2>5 DEF ForkInv, CpuInv, Making, ForkTypes
  <2>7. StatusInv'
    BY <1>0, <2>1, <2>2, <2>4, <2>5 DEF ForkInv, StatusInv, Making, ForkTypes
  <2>8. JoinInv'
    <3>1. Arg(Main)' = j /\ InCall(Main, "join")'
      BY <2>1, <2>2 DEF Arg, InCall, Ended
    <3>2. (thread_count > Creates(ip[Main]) + (IF pc[Main] \in Making THEN 1 ELSE 0))'
      <4>1. thread_count > Creates(ip[Main]) + (IF pc[Main] \in Making THEN 1 ELSE 0)
        BY DEF ForkInv, JoinInv
      <4>2. pc[Main] \notin Making /\ pc'[Main] \notin Making
        BY <1>0, <2>1, <2>5 DEF Making, ForkTypes
      <4> QED
        BY <2>2, <4>1, <4>2
    <3>3. \A x \in Threads : \A k \in joined'[x] : status'[k] = "freed"
      BY <1>0, <2>2, <2>4, <2>5 DEF ForkInv, JoinInv, ForkTypes
    <3>4. \A k \in Threads : waiting_thread[k] # NoThread => waiting_thread[k] = Main
                                                          /\ status[k] = "freed"
      BY <2>4 DEF ForkInv, JoinInv
    <3>5. \A x \in Threads : pc[x] = "join_return" => x = Main
      BY DEF ForkInv, JoinInv
    <3>6. \A x \in Threads : pc'[x] = "join_return" => x = Main
      BY <2>5, <3>5
    <3>7. /\ pc'[Main] = "join_return" /\ waiting_thread'[j] = Main
          /\ status'[j] = "ready" /\ status'[Main] = "blocked"
      BY <1>0, <2>1, <2>3, <2>5 DEF ForkTypes
    <3>8. \A k \in Threads : waiting_thread'[k] # NoThread =>
            /\ waiting_thread'[k] = Main
            /\ status'[k] = "freed" \/ k = j
      BY <1>0, <2>1, <2>3, <2>4, <2>5, <3>4 DEF ForkTypes
    <3> QED
      BY <3>1, <3>2, <3>3, <3>6, <3>7, <3>8 DEF JoinInv
  <2>9. /\ heap'.next = heap.next
        /\ heap'.queue[waiting_queue] = [head |-> Main, tail |-> Main]
        /\ \A q \in QueueNames \ {waiting_queue} : heap'.queue[q] = heap.queue[q]
    <3>1. heap.queue[waiting_queue].head = NoNode
      BY <2>4 DEF ForkInv, QueuesInv, Empty
    <3>2. heap' = [[heap EXCEPT !.queue[waiting_queue].head = Main]
                     EXCEPT !.queue[waiting_queue].tail = Main]
      BY <2>1, <2>2, <3>1 DEF Enqueue, Link, Retail
    <3>3. heap \in HeapOf(QueueNames) /\ waiting_queue \in QueueNames
      BY HeapType, QueuesDiffer DEF TypeOK
    <3> QED
      BY <3>2, <3>3 DEF HeapOf, Queue
  <2>10. Listed' = Listed
    BY <1>0, <2>1, <2>2, <2>4, <2>5 DEF Listed, ForkTypes
  <2>11. Settled = heap /\ Settled' = heap'
    BY <1>0, <2>1, <2>2, <2>5 DEF Settled, ForkTypes
  <2>12. \A s \in Seq(Threads) : ReadyList(s) => ReadyList(s)'
    <3>1. heap'.queue[Ready] = heap.queue[Ready]
      BY <2>9, QueuesDiffer
    <3> QED
      BY <2>9, <2>10, <2>11, <3>1 DEF ReadyList, IsList, Linked
  <2>13. QueuesInv'
    <3>1. \E s \in Seq(Threads) : ReadyList(s)'
      BY <2>12 DEF ForkInv, QueuesInv
    <3>2. status'[Main] = "blocked"
      BY <1>0, <2>5 DEF ForkTypes
    <3> QED
      BY <2>2, <2>9, <3>1, <3>2 DEF ForkInv, QueuesInv
  <2>14. Parked' = Parked /\ Gone' = Gone
    BY <2>4, <2>5 DEF Parked, Gone
  <2> QED
    BY <2>4, <2>6, <2>7, <2>8, <2>12, <2>13, <2>14 DEF ForkInv, Calm
<1> QED
  BY <1>1, <1>2, <1>3

\* The steps of the running thread.
LEMMA ThreadFork ==
  ASSUME TypeOK, ForkJoin, ForkInv, NEW t \in Threads, ThreadStep(t) \/ Tick(t)
  PROVE  ForkInv' /\ FifoMove
<1>1. CASE Tick(t)
  BY <1>1, LeaveFork, CalmMoves
<1>2. CASE ThreadStep(t)
  <2>1. ForkStep(t)
    BY <1>2, ForkStepOnly
  <2>2. CASE CreateTcb(t)
    BY <2>2, TcbFork, CalmMoves
  <2>3. CASE CreateEnqueue(t)
    BY <2>3, EnqueueFork
  <2>4. CASE CreateTail(t)
    BY <2>4, TailFork, CalmMoves
  <2>5. CASE CreateContext(t)
    BY <2>5, ContextFork, CalmMoves
  <2>6. CASE Yield(t) \/ Exit(t)
    BY <2>6, LeaveFork, CalmMoves
  <2>7. CASE Join(t) \/ JoinReturn(t)
    BY <2>7, JoinFork, CalmMoves
  <2>8. CASE MainReturn
    BY <2>8, ReturnFork, CalmMoves
  <2> QED
    BY <2>1, <2>2, <2>3, <2>4, <2>5, <2>6, <2>7, <2>8 DEF ForkStep
<1> QED
  BY <1>1, <1>2

-----------------------------------------------------------------------------
\* The schedulers.

\* How schedule() leaves the previous thread, by its status: sched_rr and sched_mlfq do the same,
\* as no thread leaves level 0.
LEMMA RequeueEffect ==
  ASSUME TypeOK, ForkInv, RRRequeue \/ MLFQRequeue
  PROVE  /\ process = "up" /\ cpu = "window"
         /\ cpu' \in IF Scheduler = "rr" THEN {"rr_pick"} ELSE {"mlfq_boost", "mlfq_pick"}
         /\ sched_next' = NoNode /\ priority' = priority
         /\ UNCHANGED <<process, running_thread, running_node, waiting_thread, context, pools, code,
                        joined>>
         /\ \/ /\ status[running_thread] = "running"
               /\ heap' = Enqueue(heap, Ready, running_thread)
               /\ status' = [status EXCEPT ![running_thread] = "ready"]
            \/ /\ status[running_thread] = "blocked"
               /\ heap' = heap /\ status' = status
            \/ /\ status[running_thread] = "finished"
               /\ waiting_thread[running_thread] = NoThread
               /\ heap' = heap
               /\ status' = [status EXCEPT ![running_thread] = "freed"]
            \/ /\ status[running_thread] = "finished"
               /\ waiting_thread[running_thread] = Main
               /\ heap' = Enqueue(Delete(heap, waiting_queue, NodesOf(Main)), Ready,
                            FirstIn(heap, heap.queue[waiting_queue].head, NodesOf(Main)))
               /\ status' = [[status EXCEPT ![Main] = "ready"] EXCEPT ![running_thread] = "freed"]
<1> DEFINE p == running_thread
           w == waiting_thread[p]
           Same == UNCHANGED <<process, running_thread, running_node, waiting_thread, context,
                               pools, code, joined>>
<1>0. ForkTypes /\ Main \in Threads /\ NoThread = -1 /\ Main = 0
  BY Types, QueuesDiffer
<1>1. process = "up" /\ cpu = "window"
  BY DEF RRRequeue, MLFQRequeue, InScheduler
<1>2. /\ status[p] \in {"running", "finished", "blocked"} /\ running_node = p /\ sched_next = NoNode
      /\ pc[p] \notin Making /\ p \in Threads
  BY <1>0, <1>1 DEF ForkInv, CpuInv, ForkTypes
<1>3. PICK s \in Seq(Threads) : ReadyList(s)
  BY DEF ForkInv, QueuesInv
<1>4. heap.queue[Ready].head = NoNode
        \/ (heap.queue[Ready].tail # NoNode /\ heap.queue[Ready].tail \notin Dangling)
  <2>1. pc[running_thread] # "create_tail"
    BY <1>2 DEF Making
  <2> QED
    BY <1>3, <2>1, ReadyTail DEF ForkInv
<1>5. /\ ReadyQueue(p) = Ready /\ ReadyQueue(Main) = Ready
      /\ priority[p] = 0 /\ priority \in [Threads -> 0..(Levels - 1)]
  BY <1>0, <1>2 DEF ForkInv, QueuesInv, ReadyQueue, Ready, TypeOK
<1>6. w = NoThread \/ w = Main
  BY <1>2 DEF ForkInv, JoinInv
<1>7. w = Main => InQueue(waiting_queue, Main)
  BY <1>0, <1>2, WaitingFacts DEF ForkInv, JoinInv
<1>8. /\ Visited(heap, heap.queue[waiting_queue].head, NodesOf(w)) \cap Dangling = {}
      /\ ~Endless(heap, heap.queue[waiting_queue].head, NodesOf(w))
  BY WaitingFacts DEF ForkInv
<1>9. ASSUME NEW ACTION A, Release(p, A)
      PROVE  /\ heap' = WakeHeap(w)
             /\ status' = [WakeStatus(w) EXCEPT ![p] = "freed"]
             /\ A
  <2> DEFINE B == /\ heap' = WakeHeap(w)
                  /\ status' = [WakeStatus(w) EXCEPT ![p] = "freed"]
                  /\ A
  <2>1. CASE w < 0
    BY <1>9, <2>1, Zenon DEF Release
  <2>2. CASE ~(w < 0)
    <3>1. Walk(waiting_queue, NodesOf(w), IF CanWake(w) THEN Into(ReadyQueue(w), B) ELSE B)
      BY <1>9, <2>2, Zenon DEF Release, Wake
    <3>2. w = Main /\ CanWake(w)
      BY <1>0, <1>6, <1>7, <2>2 DEF CanWake
    <3> HIDE DEF B, w
    <3>3. Into(ReadyQueue(w), B)
      BY <1>8, <3>1, <3>2, Zenon DEF Walk
    <3>4. Into(Ready, B)
      BY <1>5, <3>2, <3>3
    <3>5. B
      BY <1>4, <3>4, Zenon DEF Into
    <3> QED
      BY <3>5 DEF B, w
  <2> QED
    BY <2>1, <2>2
<1>10. ASSUME heap' = WakeHeap(w), status' = [WakeStatus(w) EXCEPT ![p] = "freed"]
       PROVE  \/ w = NoThread /\ heap' = heap /\ status' = [status EXCEPT ![p] = "freed"]
              \/ /\ w = Main
                 /\ heap' = Enqueue(Delete(heap, waiting_queue, NodesOf(Main)), Ready,
                              FirstIn(heap, heap.queue[waiting_queue].head, NodesOf(Main)))
                 /\ status' = [[status EXCEPT ![Main] = "ready"] EXCEPT ![p] = "freed"]
  <2> HIDE DEF p
  <2>1. CASE w = NoThread
    <3>1. ~CanWake(w)
      BY <1>0, <2>1 DEF CanWake
    <3> QED
      BY <1>10, <2>1, <3>1 DEF WakeHeap, WakeStatus
  <2>2. CASE w = Main
    <3>1. CanWake(Main)
      BY <1>0, <1>7, <2>2 DEF CanWake
    <3> HIDE DEF w
    <3>2. /\ heap' = WakeHeap(Main)
          /\ status' = [WakeStatus(Main) EXCEPT ![p] = "freed"]
      BY <1>10, <2>2
    <3> QED
      BY <1>5, <2>2, <3>1, <3>2 DEF WakeHeap, WakeStatus
  <2> QED
    BY <1>6, <2>1, <2>2
<1>11. CASE RRRequeue
  <2> DEFINE A == /\ cpu' = "rr_pick"
                  /\ interrupt_disabled' = 1
                  /\ UNCHANGED <<process, sched, waiting_thread, priority, slice_used, context,
                                 pools, code, mutexes, ghosts>>
  <2>1. Ready = ready_queue /\ Scheduler = "rr"
    BY <1>11 DEF RRRequeue, Ready
  <2>2. A => cpu' = "rr_pick" /\ sched_next' = NoNode /\ priority' = priority /\ Same
    BY <1>2 DEF sched, ghosts
  <2>3. CASE status[p] = "finished"
    <3>1. Release(p, A)
      BY <1>11, <2>3, Zenon DEF RRRequeue
    <3> HIDE DEF A
    <3>2. heap' = WakeHeap(w) /\ status' = [WakeStatus(w) EXCEPT ![p] = "freed"] /\ A
      BY <1>9, <3>1
    <3> QED
      BY <1>1, <1>10, <2>1, <2>2, <2>3, <3>2
  <2>4. CASE status[p] = "blocked"
    <3>1. heap' = heap /\ status' = status /\ A
      BY <1>11, <2>4 DEF RRRequeue
    <3> HIDE DEF A
    <3> QED
      BY <1>1, <2>1, <2>2, <2>4, <3>1
  <2>5. CASE status[p] = "running"
    <3> DEFINE B == /\ heap' = Enqueue(heap, ready_queue, running_node)
                    /\ status' = [status EXCEPT ![p] = "ready"]
                    /\ A
    <3>1. Into(ready_queue, B)
      BY <1>11, <2>5 DEF RRRequeue
    <3> HIDE DEF A, B
    <3>2. B
      BY <1>4, <2>1, <3>1, Zenon DEF Into
    <3> QED
      BY <1>1, <1>2, <2>1, <2>2, <2>5, <3>2 DEF B
  <2> QED
    BY <1>2, <2>3, <2>4, <2>5
<1>12. CASE MLFQRequeue
  <2> DEFINE c == IF schedule_cycles < BoostCycles THEN schedule_cycles + 1 ELSE BoostCycles
             A == /\ schedule_cycles' = c
                  /\ cpu' = IF c >= BoostCycles THEN "mlfq_boost" ELSE "mlfq_pick"
                  /\ sched_next' = NoNode
                  /\ UNCHANGED <<process, interrupt_disabled, running_thread, running_node,
                                 waiting_thread, context, pools, code, mutexes, ghosts>>
  <2>1. Ready = MLFQ_queue[0] /\ Scheduler = "mlfq"
    BY <1>12, QueuesDiffer DEF MLFQRequeue
  <2>2. A => cpu' \in {"mlfq_boost", "mlfq_pick"} /\ sched_next' = NoNode /\ Same
    BY DEF ghosts
  <2>3. PICK used \in BOOLEAN :
          LET lower == used /\ priority[p] > Levels - 1
              level == IF lower THEN priority[p] + 1 ELSE priority[p]
          IN  CASE status[p] = "finished" ->
                     Release(p, A /\ UNCHANGED <<priority, slice_used>>)
                [] status[p] = "running" ->
                     Into(MLFQ_queue[level],
                          /\ heap' = Enqueue(heap, MLFQ_queue[level], running_node)
                          /\ status' = [status EXCEPT ![p] = "ready"]
                          /\ priority' = [priority EXCEPT ![p] = level]
                          /\ slice_used' = [slice_used EXCEPT ![p] = used /\ ~lower]
                          /\ A)
                [] OTHER ->
                     /\ slice_used' = [slice_used EXCEPT ![p] = used]
                     /\ UNCHANGED <<heap, status, priority>>
                     /\ A
    BY <1>12, ZenonT(40) DEF MLFQRequeue
  <2>4. ~(priority[p] > Levels - 1)
    BY <1>5, WorkerAssumption
  <2>5. CASE status[p] = "finished"
    <3> DEFINE B == A /\ UNCHANGED <<priority, slice_used>>
    <3>1. Release(p, B)
      BY <2>3, <2>5, Zenon
    <3>2. B => A /\ priority' = priority
      OBVIOUS
    <3> HIDE DEF A, B
    <3>3. heap' = WakeHeap(w) /\ status' = [WakeStatus(w) EXCEPT ![p] = "freed"] /\ B
      BY <1>9, <3>1
    <3> QED
      BY <1>1, <1>10, <2>1, <2>2, <2>5, <3>2, <3>3
  <2>6. CASE status[p] = "running"
    <3> DEFINE B == /\ heap' = Enqueue(heap, MLFQ_queue[0], running_node)
                    /\ status' = [status EXCEPT ![p] = "ready"]
                    /\ priority' = [priority EXCEPT ![p] = 0]
                    /\ slice_used' = [slice_used EXCEPT ![p] = used]
                    /\ A
    <3> HIDE DEF A
    <3>1. Into(MLFQ_queue[0], B)
      BY <1>5, <2>3, <2>4, <2>6
    <3> HIDE DEF B
    <3>2. B
      BY <1>4, <2>1, <3>1, Zenon DEF Into
    <3>3. priority' = priority
      BY <1>2, <1>5, <3>2 DEF B
    <3> QED
      BY <1>1, <1>2, <2>1, <2>2, <2>6, <3>2, <3>3 DEF B
  <2>7. CASE status[p] = "blocked"
    <3> HIDE DEF A
    <3>1. heap' = heap /\ status' = status /\ priority' = priority /\ A
      BY <2>3, <2>7
    <3> QED
      BY <1>1, <2>1, <2>2, <2>7, <3>1
  <2> QED
    BY <1>2, <2>5, <2>6, <2>7
<1> QED
  BY <1>11, <1>12

\* The list that enqueue makes of the ready queue, when a settled list is there to start from.
LEMMA ReadyEnqueue ==
  ASSUME NEW h \in HeapOf(QueueNames), NEW s \in Seq(Threads), IsList(h, Ready, s),
         NEW n \in Threads \ Members(s)
  PROVE  /\ Append(s, n) \in Seq(Threads)
         /\ Members(Append(s, n)) = Members(s) \cup {n}
         /\ IsList(Enqueue(h, Ready, n), Ready, Append(s, n))
         /\ \A q \in QueueNames \ {Ready} : Enqueue(h, Ready, n).queue[q] = h.queue[q]
<1>1. Threads \subseteq Nodes /\ Ready \in QueueNames
  BY QueuesDiffer
<1>2. s \in Seq(Nodes) /\ n \in Nodes \ Members(s)
  BY <1>1, SeqMonotonic
<1>3. Append(s, n) \in Seq(Threads)
  BY AppendProperties
<1>4. Members(Append(s, n)) = Members(s) \cup {n}
  BY <1>2, MembersAppend
<1> QED
  BY <1>1, <1>2, <1>3, <1>4, Enqueued

\* Nothing but the status of the previous thread, and of main if it is woken, changes for the
\* invariants of threads and joins.
LEMMA RequeueStatus ==
  ASSUME TypeOK, ForkInv, cpu = "window", process' = process, running_thread' = running_thread,
         running_node' = running_node, waiting_thread' = waiting_thread, context' = context,
         thread_count' = thread_count, pc' = pc, ip' = ip, local' = local, joined' = joined,
         cpu' \in IF Scheduler = "rr" THEN {"rr_pick"} ELSE {"mlfq_boost", "mlfq_pick"},
         sched_next' = NoNode,
         \A x \in Threads : x # running_thread /\ x # Main => status'[x] = status[x],
         \/ /\ status[running_thread] = "running" /\ status'[running_thread] = "ready"
            /\ Main # running_thread => status'[Main] = status[Main]
         \/ /\ status[running_thread] = "blocked" /\ status'[running_thread] = "blocked"
            /\ Main # running_thread => status'[Main] = status[Main]
         \/ /\ status[running_thread] = "finished" /\ status'[running_thread] = "freed"
            /\ waiting_thread[running_thread] = NoThread
            /\ Main # running_thread => status'[Main] = status[Main]
         \/ /\ status[running_thread] = "finished" /\ status'[running_thread] = "freed"
            /\ waiting_thread[running_thread] = Main /\ status'[Main] = "ready"
  PROVE  CpuInv' /\ StatusInv' /\ JoinInv'
<1> DEFINE p == running_thread
<1>0. ForkTypes
  BY Types
<1>1. p \in Threads /\ context[p] = "saved" /\ pc[p] \notin Making
  BY <1>0 DEF ForkInv, CpuInv, ForkTypes
<1>2. (\A x : ~New(x)) /\ (\A x : ~New(x)') /\ Current = p /\ Current' = NoThread
  BY <1>1 DEF New, Current
<1>3. status[p] = "finished" => p # Main
  BY DEF ForkInv, StatusInv
<1>4. Arg(Main)' = Arg(Main) /\ InCall(Main, "join")' = InCall(Main, "join")
  BY DEF Arg, InCall, Ended
<1>5. status[p] = "finished" /\ waiting_thread[p] = Main
        => status[Main] = "blocked" /\ Arg(Main) = p
  BY <1>0, <1>1 DEF ForkInv, JoinInv, ForkTypes
<1>6. status[Main] = "blocked" => Arg(Main) \in Threads /\ Arg(Main) # Main
                                  /\ waiting_thread[Arg(Main)] = Main
  BY <1>0, <1>1, ArgType DEF ForkInv, JoinInv, ForkTypes
<1>7. CpuInv'
  BY <1>1, WorkerAssumption DEF ForkInv, CpuInv
<1>8. StatusInv'
  <2>1. \A t \in Threads : status'[t] \in {"none", "ready", "blocked", "freed"}
    BY <1>1, <1>2, <1>3 DEF ForkInv, StatusInv
  <2>2. \A t \in Threads : status'[t] = "none" <=> t >= thread_count
    BY <1>1, <1>5 DEF ForkInv, StatusInv
  <2>3. \A t \in Threads : status'[t] = "blocked" => t = Main
    BY <1>1 DEF ForkInv, StatusInv
  <2>4. \A t \in Threads : status'[t] \in {"ready", "blocked"} => context[t] = "saved"
    BY <1>1, <1>2, <1>5 DEF ForkInv, StatusInv
  <2>5. \A t \in Threads : pc[t] = "done" <=> status'[t] = "freed"
    <3>1. \A t \in Threads : pc[t] = "done" <=> status[t] \in {"finished", "freed"}
      BY DEF ForkInv, StatusInv
    <3>2. \A t \in Threads \ {p} : status[t] # "finished"
      BY <1>2 DEF ForkInv, StatusInv
    <3>3. pc[p] = "done" <=> status'[p] = "freed"
      <4>1. pc[p] = "done" <=> status[p] \in {"finished", "freed"}
        BY <1>1, <3>1
      <4> QED
        BY <1>3, <1>5, <4>1
    <3>4. Main # p => (pc[Main] = "done" <=> status'[Main] = "freed")
      <4>1. pc[Main] = "done" <=> status[Main] \in {"finished", "freed"}
        BY <3>1, QueuesDiffer
      <4>2. Main # p => status[Main] # "finished"
        BY <3>2, QueuesDiffer
      <4> QED
        BY <1>5, <4>1, <4>2
    <3>5. ASSUME NEW t \in Threads, t # p, t # Main
          PROVE  pc[t] = "done" <=> status'[t] = "freed"
      BY <3>1, <3>2, <3>5
    <3> QED
      BY <3>3, <3>4, <3>5
  <2>6. status'[Main] \notin {"finished", "freed"}
    BY <1>3 DEF ForkInv, StatusInv
  <2>7. \A t \in Threads : /\ pc[t] \in Making => t = p
                           /\ pc[t] \in {"user", "join_return", "done"} \cup Making
    BY DEF ForkInv, StatusInv
  <2> QED
    BY <1>1, <1>2, <2>1, <2>2, <2>3, <2>4, <2>5, <2>6, <2>7 DEF StatusInv
<1>9. JoinInv'
  <2>1. \A t \in Threads : pc[t] = "join_return" => t = Main
    BY DEF ForkInv, JoinInv
  <2>2. status'[Main] = "blocked" =>
          /\ pc[Main] = "join_return"
          /\ waiting_thread[Arg(Main)] = Main
          /\ status'[Arg(Main)] \in {"ready", "running", "finished"}
    <3> SUFFICES ASSUME status'[Main] = "blocked"
                 PROVE  /\ pc[Main] = "join_return"
                        /\ waiting_thread[Arg(Main)] = Main
                        /\ status'[Arg(Main)] \in {"ready", "running", "finished"}
      OBVIOUS
    <3>1. status[Main] = "blocked"
      BY <1>3
    <3>2. /\ pc[Main] = "join_return" /\ waiting_thread[Arg(Main)] = Main
          /\ status[Arg(Main)] \in {"ready", "running", "finished"}
      BY <3>1 DEF ForkInv, JoinInv
    <3>3. Arg(Main) \in Threads /\ Arg(Main) # Main
      BY <1>6, <3>1
    <3>4. CASE Arg(Main) = p
      BY <1>0, <3>1, <3>2, <3>4 DEF ForkTypes
    <3>5. CASE Arg(Main) # p
      BY <3>2, <3>3, <3>5
    <3> QED
      BY <3>4, <3>5
  <2>3. \A x \in Threads : status[x] = "freed" => status'[x] = "freed"
    BY <1>5 DEF ForkInv, StatusInv
  <2>4. pc[Main] = "join_return" =>
          /\ InCall(Main, "join")
          /\ status'[Main] = "blocked" \/ status'[Arg(Main)] = "freed"
    <3> SUFFICES ASSUME pc[Main] = "join_return"
                 PROVE  /\ InCall(Main, "join")
                        /\ status'[Main] = "blocked" \/ status'[Arg(Main)] = "freed"
      OBVIOUS
    <3>1. InCall(Main, "join") /\ (status[Main] = "blocked" \/ status[Arg(Main)] = "freed")
      BY DEF ForkInv, JoinInv
    <3>2. Arg(Main) \in Threads
      BY <1>0, <3>1, ArgType DEF ForkTypes
    <3>3. CASE status[Arg(Main)] = "freed"
      BY <2>3, <3>1, <3>2, <3>3
    <3>4. CASE status[Main] = "blocked"
      BY <1>5, <3>1, <3>4
    <3> QED
      BY <3>1, <3>3, <3>4
  <2>5. \A k \in Threads : waiting_thread[k] # NoThread =>
          /\ waiting_thread[k] = Main
          /\ status'[k] = "freed" \/ (status'[Main] = "blocked" /\ Arg(Main) = k)
    <3> SUFFICES ASSUME NEW k \in Threads, waiting_thread[k] # NoThread
                 PROVE  /\ waiting_thread[k] = Main
                        /\ status'[k] = "freed" \/ (status'[Main] = "blocked" /\ Arg(Main) = k)
      OBVIOUS
    <3>1. /\ waiting_thread[k] = Main
          /\ status[k] = "freed" \/ (status[Main] = "blocked" /\ Arg(Main) = k)
      BY DEF ForkInv, JoinInv
    <3> QED
      BY <1>3, <1>5, <2>3, <3>1
  <2>6. \A t \in Threads : \A j \in joined[t] : status'[j] = "freed"
    <3>1. \A t \in Threads : \A j \in joined[t] : j \in Threads
      BY <1>0 DEF ForkTypes
    <3> QED
      BY <2>3, <3>1 DEF ForkInv, JoinInv
  <2>7. thread_count > Creates(ip[Main]) + (IF pc[Main] \in Making THEN 1 ELSE 0)
    BY DEF ForkInv, JoinInv
  <2> QED
    BY <1>4, <2>1, <2>2, <2>4, <2>5, <2>6, <2>7 DEF JoinInv
<1> QED
  BY <1>7, <1>8, <1>9

\* schedule() up to the choice of the next thread.
LEMMA RequeueFork ==
  ASSUME TypeOK, ForkInv, RRRequeue \/ MLFQRequeue
  PROVE  ForkInv' /\ FifoMove
<1> DEFINE p == running_thread
<1>0. ForkTypes
  BY Types
<1>1. /\ process = "up" /\ cpu = "window"
      /\ cpu' \in IF Scheduler = "rr" THEN {"rr_pick"} ELSE {"mlfq_boost", "mlfq_pick"}
      /\ sched_next' = NoNode /\ priority' = priority
      /\ process' = process /\ running_thread' = p /\ running_node' = running_node
      /\ waiting_thread' = waiting_thread /\ context' = context /\ thread_count' = thread_count
      /\ pc' = pc /\ ip' = ip /\ local' = local /\ joined' = joined
  BY RequeueEffect DEF pools, code
<1>2. /\ status[p] \in {"running", "finished", "blocked"}
      /\ pc[p] \notin Making /\ p \in Threads /\ (status[p] = "blocked" => p = Main)
      /\ status[p] = "finished" => p # Main
  BY <1>0, <1>1 DEF ForkInv, CpuInv, StatusInv, ForkTypes
<1>3. (\A x : ~New(x)) /\ (\A x : ~New(x)') /\ Current = p /\ Current' = NoThread
      /\ Settled = heap /\ Settled' = heap' /\ p # NoThread /\ pc[p] # "create_tail"
  BY <1>0, <1>1, <1>2 DEF New, Current, Making, Settled, ForkTypes
<1>4. heap \in HeapOf(QueueNames) /\ Ready \in QueueNames /\ waiting_queue \in QueueNames
      /\ Ready # waiting_queue
  BY HeapType, QueuesDiffer DEF TypeOK
<1>5. ASSUME NEW s \in Seq(Threads), ReadyList(s)
      PROVE  IsList(heap, Ready, s) /\ Members(s) = Listed
  BY <1>3, <1>5 DEF ReadyList
<1>6. PICK s0 \in Seq(Threads) : ReadyList(s0)
  BY DEF ForkInv, QueuesInv
<1>7. Listed = {t \in Threads : status[t] = "ready" /\ t # p}
      /\ Listed' = {t \in Threads : status'[t] = "ready"}
  BY <1>0, <1>3 DEF Listed, ForkTypes
<1>8. Parked = {t \in Threads : status[t] = "blocked" /\ t # p}
      /\ Parked' = {t \in Threads : status'[t] = "blocked"}
  BY <1>0, <1>3 DEF Parked, ForkTypes
<1>9. ASSUME NEW a \in Seq(Threads), IsList(heap', Ready, a), Members(a) = Listed'
      PROVE  ReadyList(a)'
  BY <1>3, <1>9 DEF ReadyList
<1>10. CASE /\ status[p] = "running"
            /\ heap' = Enqueue(heap, Ready, p)
            /\ status' = [status EXCEPT ![p] = "ready"]
  <2>1. \A x \in Threads : status'[x] = IF x = p THEN "ready" ELSE status[x]
    BY <1>0, <1>2, <1>10 DEF ForkTypes
  <2>2. CpuInv' /\ StatusInv' /\ JoinInv'
    BY <1>1, <1>2, <1>10, <2>1, RequeueStatus
  <2>3. Listed' = Listed \cup {p} /\ p \notin Listed /\ Parked' = Parked /\ Gone' = Gone
    BY <1>2, <1>7, <1>8, <1>10, <2>1 DEF Gone
  <2>4. ASSUME NEW s \in Seq(Threads), ReadyList(s)
        PROVE  /\ \E a \in Seq(Threads) : ReadyList(a)' /\ a = Append(s, p)
               /\ \A q \in QueueNames \ {Ready} : heap'.queue[q] = heap.queue[q]
    <3>1. IsList(heap, Ready, s) /\ Members(s) = Listed
      BY <1>5, <2>4
    <3>2. p \in Threads \ Members(s)
      BY <1>2, <2>3, <3>1
    <3>3. PICK a \in Seq(Threads) : a = Append(s, p) /\ Members(a) = Members(s) \cup {p}
                                    /\ IsList(Enqueue(heap, Ready, p), Ready, a)
                                    /\ \A q \in QueueNames \ {Ready} :
                                         Enqueue(heap, Ready, p).queue[q] = heap.queue[q]
      BY <1>4, <3>1, <3>2, ReadyEnqueue
    <3> QED
      BY <1>9, <1>10, <2>3, <3>1, <3>3
  <2>5. QueuesInv'
    <3>1. \A q \in QueueNames \ {Ready} : heap'.queue[q] = heap.queue[q]
      BY <1>6, <2>4
    <3>2. \E s \in Seq(Threads) : ReadyList(s)'
      BY <1>6, <2>4
    <3>3. status'[Main] = "blocked" <=> status[Main] = "blocked"
      BY <1>0, <1>10, <2>1 DEF ForkTypes
    <3> QED
      BY <1>1, <1>4, <3>1, <3>2, <3>3 DEF ForkInv, QueuesInv
  <2>6. FifoMove
    BY <1>3, <2>3, <2>4 DEF FifoMove, ListStep
  <2> QED
    BY <2>2, <2>5, <2>6 DEF ForkInv
<1>11. CASE status[p] = "blocked" /\ heap' = heap /\ status' = status
  <2>1. CpuInv' /\ StatusInv' /\ JoinInv'
    BY <1>1, <1>2, <1>11, RequeueStatus
  <2>2. Listed' = Listed /\ Parked' = Parked \cup {p} /\ Gone' = Gone
    BY <1>2, <1>7, <1>8, <1>11 DEF Gone
  <2>3. Settled' = Settled
    BY <1>3, <1>11
  <2>4. QueuesInv' /\ \A s \in Seq(Threads) : ReadyList(s) => ReadyList(s)'
    BY <1>1, <1>11, <2>2, <2>3, SameQueues DEF ForkInv
  <2>5. FifoMove
    BY <1>3, <2>2, <2>4 DEF FifoMove, ListStep
  <2> QED
    BY <2>1, <2>4, <2>5 DEF ForkInv
<1>12. CASE /\ status[p] = "finished" /\ waiting_thread[p] = NoThread
            /\ heap' = heap /\ status' = [status EXCEPT ![p] = "freed"]
  <2>1. \A x \in Threads : status'[x] = IF x = p THEN "freed" ELSE status[x]
    BY <1>0, <1>2, <1>12 DEF ForkTypes
  <2>2. CpuInv' /\ StatusInv' /\ JoinInv'
    BY <1>1, <1>2, <1>12, <2>1, RequeueStatus
  <2>3. Listed' = Listed /\ Parked' = Parked /\ Gone' = Gone \cup {p}
    BY <1>2, <1>7, <1>8, <1>12, <2>1 DEF Gone
  <2>4. Settled' = Settled
    BY <1>3, <1>12
  <2>5. status'[Main] = "blocked" <=> status[Main] = "blocked"
    BY <1>0, <1>2, <1>12, <2>1 DEF ForkTypes
  <2>6. QueuesInv' /\ \A s \in Seq(Threads) : ReadyList(s) => ReadyList(s)'
    BY <1>1, <1>12, <2>3, <2>4, <2>5, SameQueues DEF ForkInv
  <2>7. FifoMove
    BY <1>3, <2>3, <2>6 DEF FifoMove, ListStep
  <2> QED
    BY <2>2, <2>6, <2>7 DEF ForkInv
<1>13. CASE /\ status[p] = "finished" /\ waiting_thread[p] = Main
            /\ heap' = Enqueue(Delete(heap, waiting_queue, NodesOf(Main)), Ready,
                         FirstIn(heap, heap.queue[waiting_queue].head, NodesOf(Main)))
            /\ status' = [[status EXCEPT ![Main] = "ready"] EXCEPT ![p] = "freed"]
  <2>1. \A x \in Threads : status'[x] = IF x = p THEN "freed"
                                        ELSE IF x = Main THEN "ready" ELSE status[x]
    BY <1>0, <1>2, <1>13 DEF ForkTypes
  <2>2. Main \in Threads /\ Main # p /\ status[Main] = "blocked"
    BY <1>0, <1>2, <1>13 DEF ForkInv, JoinInv, ForkTypes
  <2>3. CpuInv' /\ StatusInv' /\ JoinInv'
    BY <1>1, <1>2, <1>13, <2>1, <2>2, RequeueStatus
  <2>4. Listed' = Listed \cup {Main} /\ Main \notin Listed
        /\ Main \in Parked /\ Parked' = Parked \ {Main} /\ Gone' = Gone \cup {p}
    <3>0. status[p] = "finished"
      BY <1>13
    <3>1. Listed' = Listed \cup {Main} /\ Main \notin Listed
      BY <1>7, <2>1, <2>2, <3>0
    <3>2. Main \in Parked /\ Parked' = Parked \ {Main}
      BY <1>8, <2>1, <2>2, <3>0
    <3>3. Gone' = Gone \cup {p}
      BY <1>2, <2>1, <2>2, <3>0 DEF Gone
    <3> QED
      BY <3>1, <3>2, <3>3
  <2>5. heap.queue[waiting_queue] = [head |-> Main, tail |-> Main]
    BY <2>2 DEF ForkInv, QueuesInv
  <2>6. ASSUME NEW s \in Seq(Threads), ReadyList(s)
        PROVE  /\ \E a \in Seq(Threads) : ReadyList(a)' /\ a = Append(s, Main)
               /\ heap'.queue[waiting_queue] = Empty
               /\ \A q \in QueueNames \ {Ready, waiting_queue} : heap'.queue[q] = heap.queue[q]
    <3> DEFINE d == Delete(heap, waiting_queue, NodesOf(Main))
    <3>1. IsList(heap, Ready, s) /\ Members(s) = Listed
      BY <1>5, <2>6
    <3>2. s \in Seq(Nodes) /\ Main \in Nodes \ Members(s)
      BY <2>2, <2>4, <3>1, QueuesDiffer, SeqMonotonic
    <3>3. /\ FirstIn(heap, heap.queue[waiting_queue].head, NodesOf(Main)) = Main
          /\ d \in HeapOf(QueueNames)
          /\ d.queue[waiting_queue] = Empty
          /\ \A q \in QueueNames \ {waiting_queue} : d.queue[q] = heap.queue[q]
          /\ IsList(d, Ready, s)
      BY <1>4, <2>5, <3>1, <3>2, Woken
    <3> HIDE DEF d
    <3>4. heap' = Enqueue(d, Ready, Main)
      BY <1>13, <3>3 DEF d
    <3>5. Main \in Threads \ Members(s)
      BY <2>2, <3>2
    <3>6. PICK a \in Seq(Threads) : a = Append(s, Main) /\ Members(a) = Members(s) \cup {Main}
                                    /\ IsList(Enqueue(d, Ready, Main), Ready, a)
                                    /\ \A q \in QueueNames \ {Ready} :
                                         Enqueue(d, Ready, Main).queue[q] = d.queue[q]
      BY <3>3, <3>5, ReadyEnqueue
    <3> QED
      BY <1>4, <1>9, <2>4, <3>1, <3>3, <3>4, <3>6
  <2>7. QueuesInv'
    <3>1. /\ heap'.queue[waiting_queue] = Empty
          /\ \A q \in QueueNames \ {Ready, waiting_queue} : heap'.queue[q] = heap.queue[q]
      BY <1>6, <2>6
    <3>2. \E s \in Seq(Threads) : ReadyList(s)'
      BY <1>6, <2>6
    <3>3. status'[Main] # "blocked"
      BY <2>1, <2>2
    <3> QED
      BY <1>1, <3>1, <3>2, <3>3 DEF ForkInv, QueuesInv
  <2>8. FifoMove
    BY <1>3, <2>4, <2>6 DEF FifoMove, ListStep
  <2> QED
    BY <2>3, <2>7, <2>8 DEF ForkInv
<1> QED
  BY <1>10, <1>11, <1>12, <1>13, RequeueEffect

\* While no thread has the CPU the queue is not empty: main is in it, or waits for a thread there.
LEMMA SomeReady ==
  ASSUME TypeOK, ForkJoin, ForkInv, cpu \in {"rr_pick", "mlfq_boost", "mlfq_pick"},
         NEW s \in Seq(Threads), ReadyList(s)
  PROVE  /\ s # <<>> /\ heap.queue[Ready].head = s[1]
         /\ s[1] \in Threads /\ s[1] \in Listed /\ s[1] \notin Dangling /\ status[s[1]] = "ready"
<1>0. ForkTypes
  BY Types
<1>1. Current = NoThread /\ \A x : ~New(x)
  BY DEF Current, ForkInv, CpuInv, New
<1>2. \A x \in Threads : status[x] = "ready" => x \in Listed
  BY <1>0, <1>1 DEF Listed, ForkTypes
<1>3. status[Main] \in {"ready", "blocked"}
  BY <1>0, <1>1 DEF ForkInv, StatusInv, ForkTypes
<1>4. CASE status[Main] = "ready"
  <2>1. Main \in Members(s)
    BY <1>0, <1>2, <1>4 DEF ReadyList, ForkTypes
  <2> QED
    BY <2>1, ReadyFacts DEF ForkInv, ReadyList
<1>5. CASE status[Main] = "blocked"
  <2>1. InCall(Main, "join") /\ status[Arg(Main)] \in {"ready", "running", "finished"}
    BY <1>5 DEF ForkInv, JoinInv
  <2>2. Arg(Main) \in Threads
    BY <2>1, JoinedThread DEF ForkInv
  <2>3. status[Arg(Main)] = "ready"
    BY <1>0, <1>1, <2>1, <2>2 DEF ForkInv, StatusInv, ForkTypes
  <2>4. Arg(Main) \in Members(s)
    BY <1>2, <2>2, <2>3 DEF ReadyList
  <2> QED
    BY <2>4, ReadyFacts DEF ForkInv, ReadyList
<1> QED
  BY <1>3, <1>4, <1>5

\* The invariants of threads and joins when thread n, the chosen one, is given the CPU.
LEMMA RunStatus ==
  ASSUME TypeOK, ForkInv, NEW n \in Threads, status[n] = "ready",
         status' = [status EXCEPT ![n] = "running"],
         \/ cpu = "rr_pick"
         \/ cpu = "mlfq_run" /\ sched_next = n,
         running_thread' = n, running_node' = n, sched_next' = NoNode, cpu' = "resume",
         process' = process, waiting_thread' = waiting_thread, context' = context,
         thread_count' = thread_count, pc' = pc, ip' = ip, local' = local, joined' = joined
  PROVE  /\ CpuInv' /\ StatusInv' /\ JoinInv'
         /\ (\A x : ~New(x)) /\ (\A x : ~New(x)')
         /\ Current' = n /\ (cpu = "rr_pick" => Current = NoThread)
         /\ (cpu = "mlfq_run" => Current = n)
         /\ \A x \in Threads : status'[x] = IF x = n THEN "running" ELSE status[x]
<1>0. ForkTypes /\ ThreadOf(n) = n
  BY Types, QueuesDiffer
<1>1. \A x \in Threads : status'[x] = IF x = n THEN "running" ELSE status[x]
  BY <1>0 DEF ForkTypes
<1>2. pc[running_thread] \notin Making /\ \A x \in Threads : pc[x] \notin Making
  BY DEF ForkInv, CpuInv, StatusInv
<1>3. /\ (\A x : ~New(x)) /\ (\A x : ~New(x)')
      /\ Current' = n /\ (cpu = "rr_pick" => Current = NoThread)
      /\ (cpu = "mlfq_run" => Current = n)
  BY <1>0, <1>2 DEF New, Current
<1>4. CpuInv'
  BY <1>1, <1>2, <1>3 DEF ForkInv, CpuInv, StatusInv
<1>5. StatusInv'
  <2>1. \A t \in Threads : t # n => status[t] \in {"none", "ready", "blocked", "freed"}
    BY <1>0, <1>3 DEF ForkInv, StatusInv, ForkTypes
  <2>2. \A t \in Threads : status'[t] = "none" <=> t >= thread_count
    BY <1>1 DEF ForkInv, StatusInv
  <2>3. \A t \in Threads : status'[t] = "blocked" => t = Main
    BY <1>1 DEF ForkInv, StatusInv
  <2>4. \A t \in Threads : status'[t] \in {"ready", "blocked"} => context[t] = "saved"
    BY <1>1, <1>3 DEF ForkInv, StatusInv
  <2>5. \A t \in Threads : pc[t] = "done" <=> status'[t] \in {"finished", "freed"}
    BY <1>1 DEF ForkInv, StatusInv
  <2>6. status'[Main] \notin {"finished", "freed"}
    BY <1>0, <1>1 DEF ForkInv, StatusInv, ForkTypes
  <2>7. \A t \in Threads : pc[t] \in {"user", "join_return", "done"} \cup Making
    BY DEF ForkInv, StatusInv
  <2> QED
    BY <1>1, <1>2, <1>3, <2>1, <2>2, <2>3, <2>4, <2>5, <2>6, <2>7 DEF StatusInv
<1>6. JoinInv'
  <2>1. Arg(Main)' = Arg(Main) /\ InCall(Main, "join")' = InCall(Main, "join")
    BY DEF Arg, InCall, Ended
  <2>2. Main \in Threads /\ (status'[Main] = "blocked" <=> status[Main] = "blocked")
    BY <1>0, <1>1 DEF ForkTypes
  <2>3. \A x \in Threads : status[x] = "freed" => status'[x] = "freed"
    BY <1>1
  <2>4. \A x \in Threads : status[x] \in {"ready", "running", "finished"}
                             => status'[x] \in {"ready", "running", "finished"}
    BY <1>1
  <2>5. InCall(Main, "join") => Arg(Main) \in Threads
    BY <2>2, ArgType
  <2>6. \A t \in Threads : \A j \in joined[t] : j \in Threads
    BY <1>0 DEF ForkTypes
  <2>7. status'[Main] = "blocked" =>
          /\ pc[Main] = "join_return"
          /\ waiting_thread[Arg(Main)] = Main
          /\ status'[Arg(Main)] \in {"ready", "running", "finished"}
    BY <2>2, <2>4, <2>5 DEF ForkInv, JoinInv
  <2>8. pc[Main] = "join_return" =>
          /\ InCall(Main, "join")
          /\ status'[Main] = "blocked" \/ status'[Arg(Main)] = "freed"
    BY <2>2, <2>3, <2>5 DEF ForkInv, JoinInv
  <2>9. \A k \in Threads : waiting_thread[k] # NoThread =>
          /\ waiting_thread[k] = Main
          /\ status'[k] = "freed" \/ (status'[Main] = "blocked" /\ Arg(Main) = k)
    BY <2>2, <2>3 DEF ForkInv, JoinInv
  <2>10. \A t \in Threads : \A j \in joined[t] : status'[j] = "freed"
    BY <2>3, <2>6 DEF ForkInv, JoinInv
  <2>11. /\ \A t \in Threads : pc[t] = "join_return" => t = Main
         /\ thread_count > Creates(ip[Main]) + (IF pc[Main] \in Making THEN 1 ELSE 0)
    BY DEF ForkInv, JoinInv
  <2> QED
    BY <2>1, <2>7, <2>8, <2>9, <2>10, <2>11 DEF JoinInv
<1> QED
  BY <1>1, <1>3, <1>4, <1>5, <1>6

\* Dispatch of a ready thread.
LEMMA DispatchEffect ==
  ASSUME TypeOK, NEW n \in Threads, status[n] = "ready", Dispatch(n)
  PROVE  /\ heap' = IF Scheduler = "rr" THEN Pop(heap, ready_queue) ELSE heap
         /\ status' = [status EXCEPT ![n] = "running"]
         /\ running_thread' = n /\ running_node' = n /\ sched_next' = NoNode /\ cpu' = "resume"
         /\ process' = process /\ waiting_thread' = waiting_thread /\ context' = context
         /\ thread_count' = thread_count /\ pc' = pc /\ ip' = ip /\ local' = local
         /\ joined' = joined /\ priority' = priority
<1>1. ThreadOf(n) = n /\ n \notin Dangling
  BY QueuesDiffer DEF Dangling
<1> QED
  BY <1>1 DEF Dispatch, pools, code, ghosts

\* The head of the ready queue leaves it.
LEMMA ReadyPop ==
  ASSUME NEW h \in HeapOf(QueueNames), NEW s \in Seq(Threads), IsList(h, Ready, s), s # <<>>
  PROVE  /\ Tail(s) \in Seq(Threads)
         /\ Members(Tail(s)) = Members(s) \ {s[1]}
         /\ IsList(Pop(h, Ready), Ready, Tail(s))
         /\ \A q \in QueueNames \ {Ready} : Pop(h, Ready).queue[q] = h.queue[q]
<1>1. Threads \subseteq Nodes /\ Ready \in QueueNames
  BY QueuesDiffer
<1>2. s \in Seq(Nodes)
  BY <1>1, SeqMonotonic
<1>3. Tail(s) \in Seq(Threads)
  BY HeadTailProperties
<1> QED
  BY <1>1, <1>2, <1>3, Popped

\* sched_rr gives the CPU to the head of the queue.
LEMMA RRPickFork ==
  ASSUME TypeOK, ForkJoin, ForkInv, RRPick
  PROVE  ForkInv' /\ FifoMove
<1>0. ForkTypes
  BY Types
<1>1. cpu = "rr_pick" /\ Scheduler = "rr" /\ Ready = ready_queue
  BY DEF RRPick, InScheduler, ForkInv, CpuInv, Ready
<1>2. pc[running_thread] # "create_tail" /\ Settled = heap
  BY <1>1 DEF ForkInv, CpuInv, Making, Settled
<1>3. heap \in HeapOf(QueueNames)
  BY HeapType DEF TypeOK
<1>4. ASSUME NEW s \in Seq(Threads), ReadyList(s)
      PROVE  /\ CpuInv' /\ StatusInv' /\ JoinInv' /\ priority' = priority
             /\ status'[Main] = "blocked" <=> status[Main] = "blocked"
             /\ \A q \in QueueNames \ {Ready} : heap'.queue[q] = heap.queue[q]
             /\ \E a \in Seq(Threads) : ReadyList(a)' /\ ListStep(s, a)
  <2> DEFINE n == s[1]
  <2>1. /\ s # <<>> /\ heap.queue[Ready].head = n
        /\ n \in Threads /\ n \in Listed /\ n \notin Dangling /\ status[n] = "ready"
    BY <1>1, <1>4, SomeReady
  <2> HIDE DEF n
  <2>2. Dispatch(n)
    BY <1>1, <2>1, QueuesDiffer DEF RRPick
  <2>3. /\ heap' = Pop(heap, Ready)
        /\ status' = [status EXCEPT ![n] = "running"]
        /\ running_thread' = n /\ running_node' = n /\ sched_next' = NoNode /\ cpu' = "resume"
        /\ process' = process /\ waiting_thread' = waiting_thread /\ context' = context
        /\ thread_count' = thread_count /\ pc' = pc /\ ip' = ip /\ local' = local
        /\ joined' = joined /\ priority' = priority
    BY <1>1, <2>1, <2>2, DispatchEffect
  <2>4. /\ CpuInv' /\ StatusInv' /\ JoinInv'
        /\ (\A x : ~New(x)) /\ (\A x : ~New(x)')
        /\ Current' = n /\ Current = NoThread
        /\ \A x \in Threads : status'[x] = IF x = n THEN "running" ELSE status[x]
    BY <1>1, <2>1, <2>3, RunStatus
  <2>5. Listed' = Listed \ {n}
    BY <1>0, <2>4 DEF Listed, ForkTypes
  <2>6. Parked' = Parked /\ Gone' = Gone
    <3>1. NoThread \notin Threads
      BY <1>0 DEF ForkTypes
    <3> QED
      BY <2>1, <2>4, <3>1 DEF Parked, Gone
  <2>7. Settled' = heap'
    <3>1. pc'[running_thread'] # "create_tail"
      BY <2>3, <2>4 DEF New, Making
    <3> QED
      BY <3>1 DEF Settled
  <2>8. IsList(heap, Ready, s) /\ Members(s) = Listed
    BY <1>2, <1>4 DEF ReadyList
  <2>9. PICK a \in Seq(Threads) : /\ a = Tail(s)
                                  /\ Members(a) = Members(s) \ {s[1]}
                                  /\ IsList(Pop(heap, Ready), Ready, a)
                                  /\ \A q \in QueueNames \ {Ready} :
                                       Pop(heap, Ready).queue[q] = heap.queue[q]
    BY <1>3, <2>1, <2>8, ReadyPop
  <2>10. ReadyList(a)'
    BY <2>3, <2>5, <2>7, <2>8, <2>9 DEF ReadyList, n
  <2>11. ListStep(s, a)
    BY <2>1, <2>4, <2>6, <2>9 DEF ListStep, n
  <2>12. status'[Main] = "blocked" <=> status[Main] = "blocked"
    BY <1>0, <2>1, <2>4 DEF ForkTypes
  <2> QED
    BY <2>3, <2>4, <2>9, <2>10, <2>11, <2>12
<1>5. PICK s0 \in Seq(Threads) : ReadyList(s0)
  BY DEF ForkInv, QueuesInv
<1>6. FifoMove
  BY <1>4 DEF FifoMove
<1>7. QueuesInv'
  <2>1. \E s \in Seq(Threads) : ReadyList(s)'
    BY <1>5, <1>6 DEF FifoMove
  <2>2. /\ \A q \in QueueNames \ {Ready} : heap'.queue[q] = heap.queue[q]
        /\ priority' = priority /\ (status'[Main] = "blocked" <=> status[Main] = "blocked")
    BY <1>4, <1>5
  <2> QED
    BY <2>1, <2>2, QueuesDiffer DEF ForkInv, QueuesInv
<1> QED
  BY <1>4, <1>5, <1>6, <1>7 DEF ForkInv

\* All threads are in level 0.
LEMMA LevelZero ==
  ASSUME TypeOK, ForkJoin, ForkInv, cpu \in {"mlfq_boost", "mlfq_pick"}
  PROVE  /\ Ready = MLFQ_queue[0]
         /\ Occupied(1..(Levels - 1)) = {}
         /\ Occupied(0..(Levels - 1)) = {0}
         /\ FirstLevel(Occupied(0..(Levels - 1))) = 0
<1>1. Ready = MLFQ_queue[0] /\ Levels \in Nat \ {0}
  BY WorkerAssumption, QueuesDiffer DEF ForkInv, CpuInv, Ready
<1>2. \A i \in 1..(Levels - 1) : heap.queue[MLFQ_queue[i]].head = NoNode
  <2> SUFFICES ASSUME NEW i \in 1..(Levels - 1)
               PROVE  heap.queue[MLFQ_queue[i]].head = NoNode
    OBVIOUS
  <2>1. i \in 0..(Levels - 1) /\ 0 \in 0..(Levels - 1) /\ i # 0
    BY <1>1
  <2>2. MLFQ_queue[i] \in QueueNames \ {Ready, waiting_queue}
    BY <1>1, <2>1, QueuesDiffer
  <2> QED
    BY <2>2 DEF ForkInv, QueuesInv, Empty
<1>3. heap.queue[MLFQ_queue[0]].head # NoNode
  <2>1. PICK s \in Seq(Threads) : ReadyList(s)
    BY DEF ForkInv, QueuesInv
  <2>2. heap.queue[Ready].head = s[1] /\ s[1] \in Threads
    BY <2>1, SomeReady
  <2> QED
    BY <1>1, <2>2, QueuesDiffer
<1>4. Occupied(1..(Levels - 1)) = {}
  BY <1>2 DEF Occupied
<1>5. Occupied(0..(Levels - 1)) = {0}
  <2>1. \A i \in 0..(Levels - 1) : i = 0 \/ i \in 1..(Levels - 1)
    BY <1>1
  <2>2. 0 \in 0..(Levels - 1)
    BY <1>1
  <2> QED
    BY <1>2, <1>3, <2>1, <2>2 DEF Occupied
<1>6. FirstLevel({0}) = 0
  BY DEF FirstLevel
<1> QED
  BY <1>1, <1>4, <1>5, <1>6

\* A step of the scheduler after which another of its stages runs, with no thread on the CPU.
LEMMA StageFork ==
  ASSUME TypeOK, ForkInv, cpu = "mlfq_boost", cpu' = "mlfq_pick",
         UNCHANGED <<process, running_thread, running_node, sched_next, tcbs, pools, heap, code,
                     joined>>
  PROVE  ForkInv' /\ Calm
<1>1. /\ status' = status /\ waiting_thread' = waiting_thread /\ priority' = priority
      /\ context' = context /\ thread_count' = thread_count
      /\ pc' = pc /\ ip' = ip /\ local' = local
  BY DEF tcbs, pools, code
<1>2. Current = NoThread /\ Current' = NoThread /\ \A x : New(x)' <=> New(x)
  BY <1>1 DEF Current, New
<1>3. CpuInv'
  BY <1>1 DEF ForkInv, CpuInv
<1>4. StatusInv'
  BY <1>1, <1>2 DEF ForkInv, StatusInv
<1>5. JoinInv'
  <2>1. Arg(Main)' = Arg(Main) /\ InCall(Main, "join")' = InCall(Main, "join")
    BY <1>1 DEF Arg, InCall, Ended
  <2> QED
    BY <1>1, <2>1 DEF ForkInv, JoinInv
<1>6. Listed' = Listed /\ Settled' = Settled /\ Parked' = Parked /\ Gone' = Gone
  BY <1>1, <1>2 DEF Listed, Settled, Parked, Gone
<1>7. QueuesInv' /\ \A s \in Seq(Threads) : ReadyList(s) => ReadyList(s)'
  BY <1>1, <1>6, SameQueues DEF ForkInv
<1> QED
  BY <1>2, <1>3, <1>4, <1>5, <1>6, <1>7 DEF ForkInv, Calm

LEMMA BoostFork ==
  ASSUME TypeOK, ForkJoin, ForkInv, MLFQBoost
  PROVE  ForkInv' /\ Calm
<1>1. cpu = "mlfq_boost"
  BY DEF MLFQBoost, InScheduler
<1>2. Occupied(1..(Levels - 1)) = {}
  BY <1>1, LevelZero
<1>3. cpu' = "mlfq_pick" /\ heap' = heap /\ priority' = priority
  BY <1>2 DEF MLFQBoost
<1>4. UNCHANGED <<process, running_thread, running_node, sched_next, tcbs, pools, heap, code,
                  joined>>
  BY <1>3 DEF MLFQBoost, tcbs, ghosts
<1> QED
  BY <1>1, <1>3, <1>4, StageFork

\* get_next_thread_mlfq takes the head of level 0 out.
LEMMA MLFQPickFork ==
  ASSUME TypeOK, ForkJoin, ForkInv, MLFQPick
  PROVE  ForkInv' /\ FifoMove
<1>0. ForkTypes
  BY Types
<1>1. cpu = "mlfq_pick" /\ Ready = MLFQ_queue[0]
      /\ Occupied(0..(Levels - 1)) = {0} /\ FirstLevel({0}) = 0
  <2>1. cpu = "mlfq_pick"
    BY DEF MLFQPick, InScheduler
  <2> QED
    BY <2>1, LevelZero
<1>2. /\ pc[running_thread] \notin Making /\ Settled = heap /\ (\A x : ~New(x))
      /\ Current = NoThread
  BY <1>1 DEF ForkInv, CpuInv, Making, Settled, New, Current
<1>3. /\ heap' = Pop(heap, Ready) /\ sched_next' = heap.queue[Ready].head /\ cpu' = "mlfq_run"
      /\ process' = process /\ running_thread' = running_thread /\ running_node' = running_node
      /\ status' = status /\ waiting_thread' = waiting_thread /\ priority' = priority
      /\ context' = context /\ thread_count' = thread_count /\ pc' = pc /\ ip' = ip
      /\ local' = local /\ joined' = joined
  BY <1>1 DEF MLFQPick, tcbs, pools, code, ghosts
<1>4. heap \in HeapOf(QueueNames)
  BY HeapType DEF TypeOK
<1>5. ASSUME NEW s \in Seq(Threads), ReadyList(s)
      PROVE  /\ CpuInv' /\ StatusInv'
             /\ \A q \in QueueNames \ {Ready} : heap'.queue[q] = heap.queue[q]
             /\ \E a \in Seq(Threads) : ReadyList(a)' /\ ListStep(s, a)
  <2> DEFINE n == s[1]
  <2>1. /\ s # <<>> /\ heap.queue[Ready].head = n /\ ThreadOf(n) = n /\ n # NoNode
        /\ n \in Threads /\ n \in Listed /\ n \notin Dangling /\ status[n] = "ready"
    BY <1>1, <1>5, SomeReady, QueuesDiffer
  <2> HIDE DEF n
  <2>2. Current' = n /\ \A x : ~New(x)'
    BY <1>2, <1>3, <2>1 DEF Current, New
  <2>3. CpuInv'
    BY <1>1, <1>2, <1>3, <2>1 DEF ForkInv, CpuInv
  <2>4. StatusInv'
    <3>1. \A t \in Threads : status[t] \in {"none", "ready", "blocked", "freed"}
      BY <1>0, <1>2 DEF ForkInv, StatusInv, ForkTypes
    <3> QED
      BY <1>2, <1>3, <2>2, <3>1 DEF ForkInv, StatusInv
  <2>5. Listed' = Listed \ {n}
    BY <1>0, <1>2, <1>3, <2>2 DEF Listed, ForkTypes
  <2>6. Parked' = Parked /\ Gone' = Gone
    <3>1. NoThread \notin Threads
      BY <1>0 DEF ForkTypes
    <3> QED
      BY <1>2, <1>3, <2>1, <2>2, <3>1 DEF Parked, Gone
  <2>7. Settled' = heap'
    BY <1>2, <1>3 DEF Settled, Making
  <2>8. IsList(heap, Ready, s) /\ Members(s) = Listed
    BY <1>2, <1>5 DEF ReadyList
  <2>9. PICK a \in Seq(Threads) : /\ a = Tail(s)
                                  /\ Members(a) = Members(s) \ {s[1]}
                                  /\ IsList(Pop(heap, Ready), Ready, a)
                                  /\ \A q \in QueueNames \ {Ready} :
                                       Pop(heap, Ready).queue[q] = heap.queue[q]
    BY <1>4, <2>1, <2>8, ReadyPop
  <2>10. ReadyList(a)'
    BY <1>3, <2>5, <2>7, <2>8, <2>9 DEF ReadyList, n
  <2>11. ListStep(s, a)
    BY <1>2, <2>1, <2>2, <2>6, <2>9 DEF ListStep, n
  <2> QED
    BY <1>3, <2>3, <2>4, <2>9, <2>10, <2>11
<1>6. PICK s0 \in Seq(Threads) : ReadyList(s0)
  BY DEF ForkInv, QueuesInv
<1>7. FifoMove
  BY <1>5 DEF FifoMove
<1>8. QueuesInv'
  <2>1. \E s \in Seq(Threads) : ReadyList(s)'
    BY <1>6, <1>7 DEF FifoMove
  <2>2. \A q \in QueueNames \ {Ready} : heap'.queue[q] = heap.queue[q]
    BY <1>5, <1>6
  <2> QED
    BY <1>3, <2>1, <2>2, QueuesDiffer DEF ForkInv, QueuesInv
<1>9. JoinInv'
  <2>1. Arg(Main)' = Arg(Main) /\ InCall(Main, "join")' = InCall(Main, "join")
    BY <1>3 DEF Arg, InCall, Ended
  <2> QED
    BY <1>3, <2>1 DEF ForkInv, JoinInv
<1> QED
  BY <1>5, <1>6, <1>7, <1>8, <1>9 DEF ForkInv

\* The chosen thread is out of the queue already when sched_mlfq gives it the CPU.
LEMMA MLFQRunFork ==
  ASSUME TypeOK, ForkInv, MLFQRun
  PROVE  ForkInv' /\ Calm
<1> DEFINE n == sched_next
<1>0. ForkTypes
  BY Types
<1>1. /\ cpu = "mlfq_run" /\ Scheduler = "mlfq" /\ Dispatch(n)
      /\ n \in Threads /\ status[n] = "ready"
  BY DEF MLFQRun, InScheduler, ForkInv, CpuInv
<1>2. /\ heap' = heap
      /\ status' = [status EXCEPT ![n] = "running"]
      /\ running_thread' = n /\ running_node' = n /\ sched_next' = NoNode /\ cpu' = "resume"
      /\ process' = process /\ waiting_thread' = waiting_thread /\ context' = context
      /\ thread_count' = thread_count /\ pc' = pc /\ ip' = ip /\ local' = local
      /\ joined' = joined /\ priority' = priority
  BY <1>1, DispatchEffect
<1>3. /\ CpuInv' /\ StatusInv' /\ JoinInv'
      /\ (\A x : ~New(x)) /\ (\A x : ~New(x)')
      /\ Current' = n /\ Current = n
      /\ \A x \in Threads : status'[x] = IF x = n THEN "running" ELSE status[x]
  BY <1>1, <1>2, RunStatus
<1>4. Listed' = Listed /\ Parked' = Parked /\ Gone' = Gone
  BY <1>0, <1>1, <1>3 DEF Listed, Parked, Gone, ForkTypes
<1>5. Settled' = Settled
  <2>1. pc[running_thread] # "create_tail" /\ pc'[running_thread'] # "create_tail"
    BY <1>3 DEF New, Making
  <2> QED
    BY <1>2, <2>1 DEF Settled
<1>6. status'[Main] = "blocked" <=> status[Main] = "blocked"
  BY <1>0, <1>1, <1>3 DEF ForkTypes
<1>7. QueuesInv' /\ \A s \in Seq(Threads) : ReadyList(s) => ReadyList(s)'
  BY <1>2, <1>4, <1>5, <1>6, SameQueues DEF ForkInv
<1> QED
  BY <1>3, <1>4, <1>7 DEF ForkInv, Calm

\* setcontext: the context is the thread's own.
LEMMA ResumeFork ==
  ASSUME TypeOK, ForkInv, Resume
  PROVE  ForkInv' /\ Calm
<1>1. cpu = "resume" /\ context[running_thread] = "saved"
  BY DEF Resume, InScheduler, ForkInv, CpuInv
<1>2. /\ cpu' = "thread" /\ heap' = heap /\ process' = process /\ joined' = joined
      /\ running_thread' = running_thread /\ running_node' = running_node
      /\ sched_next' = sched_next /\ status' = status /\ waiting_thread' = waiting_thread
      /\ priority' = priority /\ context' = context /\ thread_count' = thread_count
      /\ pc' = pc /\ ip' = ip /\ local' = local
  BY <1>1 DEF Resume, sched, tcbs, pools, code, ghosts
<1>3. Current = running_thread /\ Current' = running_thread /\ \A x : New(x)' <=> New(x)
  BY <1>1, <1>2 DEF Current, New
<1>4. CpuInv'
  BY <1>1, <1>2 DEF ForkInv, CpuInv
<1>5. StatusInv'
  BY <1>2, <1>3 DEF ForkInv, StatusInv
<1>6. JoinInv'
  <2>1. Arg(Main)' = Arg(Main) /\ InCall(Main, "join")' = InCall(Main, "join")
    BY <1>2 DEF Arg, InCall, Ended
  <2> QED
    BY <1>2, <2>1 DEF ForkInv, JoinInv
<1>7. Listed' = Listed /\ Settled' = Settled /\ Parked' = Parked /\ Gone' = Gone
  BY <1>2, <1>3 DEF Listed, Settled, Parked, Gone
<1>8. QueuesInv' /\ \A s \in Seq(Threads) : ReadyList(s) => ReadyList(s)'
  BY <1>2, <1>7, SameQueues DEF ForkInv
<1> QED
  BY <1>3, <1>4, <1>5, <1>6, <1>7, <1>8 DEF ForkInv, Calm

\* Every step of a program that forks and joins.
LEMMA NextFork ==
  ASSUME TypeOK, ForkJoin, ForkInv, [Next]_vars
  PROVE  ForkInv' /\ FifoMove
<1>1. CASE UNCHANGED vars
  <2>1. /\ process' = process /\ cpu' = cpu /\ running_thread' = running_thread
        /\ running_node' = running_node /\ sched_next' = sched_next /\ status' = status
        /\ waiting_thread' = waiting_thread /\ priority' = priority /\ context' = context
        /\ thread_count' = thread_count /\ heap' = heap /\ pc' = pc /\ ip' = ip
        /\ local' = local /\ joined' = joined
    BY <1>1 DEF vars, machine, sched, tcbs, pools, code, ghosts
  <2>2. Current' = Current /\ \A x : New(x)' <=> New(x)
    BY <2>1 DEF Current, New
  <2>3. Listed' = Listed /\ Settled' = Settled /\ Parked' = Parked /\ Gone' = Gone
    BY <2>1, <2>2 DEF Listed, Settled, Parked, Gone
  <2>4. QueuesInv' /\ \A s \in Seq(Threads) : ReadyList(s) => ReadyList(s)'
    BY <2>1, <2>3, SameQueues DEF ForkInv
  <2>5. CpuInv' /\ StatusInv'
    BY <2>1, <2>2 DEF ForkInv, CpuInv, StatusInv
  <2>6. JoinInv'
    <3>1. Arg(Main)' = Arg(Main) /\ InCall(Main, "join")' = InCall(Main, "join")
      BY <2>1 DEF Arg, InCall, Ended
    <3> QED
      BY <2>1, <3>1 DEF ForkInv, JoinInv
  <2>7. Calm
    BY <2>2, <2>3, <2>4 DEF Calm
  <2> QED
    BY <2>4, <2>5, <2>6, <2>7, CalmMoves DEF ForkInv
<1>2. CASE \E t \in Threads : ThreadStep(t) \/ Tick(t)
  BY <1>2, ThreadFork
<1>3. CASE RRRequeue \/ MLFQRequeue
  BY <1>3, RequeueFork
<1>4. CASE RRPick
  BY <1>4, RRPickFork
<1>5. CASE MLFQPick
  BY <1>5, MLFQPickFork
<1>6. CASE MLFQBoost
  BY <1>6, BoostFork, CalmMoves
<1>7. CASE MLFQRun
  BY <1>7, MLFQRunFork, CalmMoves
<1>8. CASE Resume
  BY <1>8, ResumeFork, CalmMoves
<1>9. ~Fallback
  BY DEF ForkInv, CpuInv, Fallback, InScheduler
<1>10. ~TickInScheduler
  BY DEF ForkJoin, TickInScheduler
<1>11. Stopped => UNCHANGED vars
  BY DEF Stopped
<1> QED
  BY <1>1, <1>2, <1>3, <1>4, <1>5, <1>6, <1>7, <1>8, <1>9, <1>10, <1>11 DEF Next, SchedulerStep

\* Before the first call: no thread but main.
LEMMA InitFork == ASSUME TypeOK, Init PROVE ForkInv /\ ReadyList(<<>>)
<1>0. ForkTypes /\ TypeOK
  BY Types
<1>1. /\ process = "up" /\ cpu = "thread" /\ running_thread = Main /\ running_node = Main
      /\ sched_next = NoNode /\ thread_count = 1
      /\ status = [t \in Threads |-> IF t = Main THEN "running" ELSE "none"]
      /\ waiting_thread = [t \in Threads |-> NoThread]
      /\ priority = [t \in Threads |-> 0]
      /\ heap = [next |-> [n \in Nodes |-> NoNode], queue |-> [q \in QueueNames |-> Empty]]
      /\ pc = [t \in Threads |-> "user"] /\ ip = [t \in Threads |-> 1]
      /\ joined = [t \in Threads |-> {}]
  BY DEF Init
<1>2. /\ \A t \in Threads : /\ status[t] = (IF t = Main THEN "running" ELSE "none")
                            /\ waiting_thread[t] = NoThread /\ priority[t] = 0
                            /\ pc[t] = "user" /\ ip[t] = 1 /\ joined[t] = {}
      /\ \A q \in QueueNames : heap.queue[q] = Empty
      /\ \A n \in Nodes : heap.next[n] = NoNode
  BY <1>1
<1>3. (\A x : ~New(x)) /\ Current = Main /\ Settled = heap /\ pc[Main] = "user"
  BY <1>0, <1>1, <1>2 DEF New, Making, Current, Settled, ForkTypes
<1>4. Listed = {}
  BY <1>2 DEF Listed
<1>5. ReadyList(<<>>)
  <2> DEFINE m == <<>>
  <2>1. m \in Seq(Threads) /\ Len(m) = 0 /\ m = <<>>
    OBVIOUS
  <2> HIDE DEF m
  <2>2. Members(m) = {}
    BY <2>1 DEF Members
  <2>3. IsList(heap, Ready, m)
    BY <1>2, <2>1, <2>2, QueuesDiffer DEF IsList, Linked, Empty
  <2> QED
    BY <1>3, <1>4, <2>1, <2>2, <2>3 DEF ReadyList
<1>6. QueuesInv
  <2>1. \E s \in Seq(Threads) : ReadyList(s)
    <3>1. <<>> \in Seq(Threads)
      OBVIOUS
    <3> QED
      BY <1>5, <3>1
  <2>2. status[Main] # "blocked"
    BY <1>0, <1>2 DEF ForkTypes
  <2> QED
    BY <1>2, <2>1, <2>2, QueuesDiffer DEF QueuesInv
<1>7. CpuInv
  BY <1>0, <1>1, <1>2 DEF CpuInv, ForkTypes
<1>8. StatusInv
  BY <1>0, <1>1, <1>2, <1>3 DEF StatusInv, Making, ForkTypes
<1>9. JoinInv
  <2>1. Creates(1) = 0
    <3>1. {k \in 1..(1 - 1) : Program[Main][k].op = "create"} = {}
      OBVIOUS
    <3> QED
      BY <3>1, FS_EmptySet DEF Creates
  <2> QED
    BY <1>0, <1>1, <1>2, <1>3, <2>1 DEF JoinInv, Making, ForkTypes
<1> QED
  BY <1>5, <1>6, <1>7, <1>8, <1>9 DEF ForkInv

\* The invariant holds in every state of such a program.
THEOREM ForkInvariant == ForkJoin => (Spec => []ForkInv)
<1> SUFFICES ASSUME ForkJoin
             PROVE  Spec => []ForkInv
  OBVIOUS
<1>1. TypeOK /\ Init => ForkInv
  BY InitFork
<1>2. TypeOK /\ ForkInv /\ [Next]_vars => ForkInv'
  BY NextFork
<1> QED
  BY <1>1, <1>2, TypeInvariant, PTL DEF Spec

\* worker_join returns 0 only when the joined thread has terminated.
THEOREM JoinWaitsHolds == ForkJoin => (Spec => []JoinWaits)
<1> SUFFICES ASSUME ForkJoin
             PROVE  Spec => []JoinWaits
  OBVIOUS
<1>1. ForkInv => JoinWaits
  BY DEF ForkInv, JoinInv, JoinWaits
<1> QED
  BY <1>1, ForkInvariant, PTL

\* The library resumes no context that is not made, reads no freed tcb, and meets none of its own
\* "something went wrong" exits.
THEOREM NoFaultHolds == ForkJoin => (Spec => []NoFault)
<1> SUFFICES ASSUME ForkJoin
             PROVE  Spec => []NoFault
  OBVIOUS
<1>1. ForkInv => NoFault
  BY DEF ForkInv, CpuInv, NoFault
<1> QED
  BY <1>1, ForkInvariant, PTL

\* A thread that has blocked and given up the CPU is where release_threads looks for it.
THEOREM BlockedQueuedHolds == ForkJoin => (Spec => []BlockedQueued)
<1> SUFFICES ASSUME ForkJoin
             PROVE  Spec => []BlockedQueued
  OBVIOUS
<1>1. TypeOK /\ ForkInv => BlockedQueued
  BY WaitingFacts DEF ForkInv, StatusInv, BlockedQueued
<1> QED
  BY <1>1, TypeInvariant, ForkInvariant, PTL

\* The scheduler forgets no READY thread: it is in a ready queue, or on its way into or out of it.
THEOREM ReadyQueuedHolds == ForkJoin => (Spec => []ReadyQueued)
<1> SUFFICES ASSUME ForkJoin
             PROVE  Spec => []ReadyQueued
  OBVIOUS
<1>1. TypeOK /\ ForkInv => ReadyQueued
  <2> SUFFICES ASSUME TypeOK, ForkInv, NEW t \in Threads, status[t] = "ready"
               PROVE  InReady(t) \/ InFlight(t)
    BY DEF ReadyQueued
  <2>0. ForkTypes
    BY Types
  <2>1. PICK s \in Seq(Threads) : ReadyList(s)
    BY DEF ForkInv, QueuesInv
  <2>2. CASE t \in Listed
    <3>1. InQueue(Ready, t)
      BY <2>1, <2>2, ReadyFacts DEF ForkInv, ReadyList
    <3>2. Ready \in {ready_queue} \cup {MLFQ_queue[i] : i \in 0..(Levels - 1)}
      BY WorkerAssumption DEF Ready
    <3> QED
      BY <3>1, <3>2 DEF InReady
  <2>3. CASE t = Current
    <3>1. cpu = "mlfq_run" /\ t = sched_next
      BY <2>0, <2>3, CurrentIs DEF ForkInv, CpuInv, ForkTypes
    <3> QED
      BY <3>1, QueuesDiffer DEF InFlight
  <2>4. CASE pc[running_thread] = "create_enqueue" /\ New(t)
    BY <2>0, <2>4 DEF InFlight, New, ForkTypes
  <2> QED
    BY <2>2, <2>3, <2>4 DEF Listed
<1> QED
  BY <1>1, TypeInvariant, ForkInvariant, PTL

\* A ready queue holds no thread that still waits, runs or has terminated.
THEOREM QueuedReadyHolds == ForkJoin => (Spec => []QueuedReady)
<1> SUFFICES ASSUME ForkJoin
             PROVE  Spec => []QueuedReady
  OBVIOUS
<1>1. TypeOK /\ ForkInv => QueuedReady
  <2> SUFFICES ASSUME TypeOK, ForkInv, NEW t \in Threads, InReady(t)
               PROVE  status[t] = "ready"
    BY DEF QueuedReady
  <2>1. PICK s \in Seq(Threads) : ReadyList(s)
    BY DEF ForkInv, QueuesInv
  <2>2. PICK q \in {ready_queue} \cup {MLFQ_queue[i] : i \in 0..(Levels - 1)} : InQueue(q, t)
    BY DEF InReady
  <2>3. q \in QueueNames \ {waiting_queue}
    BY <2>2, QueuesDiffer DEF QueueNames, ready_queue, waiting_queue
  <2>4. q = Ready
    <3>1. ~InQueue(q, t) \/ heap.queue[q] # Empty
      BY EmptyFacts DEF InQueue
    <3> QED
      BY <2>2, <2>3, <3>1 DEF ForkInv, QueuesInv
  <2> QED
    BY <2>1, <2>2, <2>4, ReadyFacts DEF ForkInv
<1> QED
  BY <1>1, TypeInvariant, ForkInvariant, PTL

-----------------------------------------------------------------------------
\* The schedulers implement the queues of levels; these programs use level 0 alone.

\* What the refinement takes for the abstract queues and levels, and what they are.
LevelLists == [i \in 0..(Levels - 1) |->
                 IF Scheduler = "mlfq" THEN ThreadList(MLFQ_queue[i])
                 ELSE IF i = 0 THEN ThreadList(ready_queue) ELSE <<>>]
TopOnly(s) == [i \in 0..(Levels - 1) |-> IF i = 0 THEN s ELSE <<>>]
Represents == /\ \A s \in Seq(Threads) : ReadyList(s) => LevelLists = TopOnly(s)
              /\ priority = [t \in Threads |-> 0]

\* The threads of the nodes of one queue.
LEMMA ThreadListIs ==
  ASSUME NEW q, NEW s \in Seq(Nodes), Linked(heap, q, s),
         \A i \in 1..Len(s) : ThreadOf(s[i]) = s[i]
  PROVE  ThreadList(q) = s
<1>1. NodeList(heap, heap.queue[q].head) = s
  BY NodesOfList
<1>2. ThreadList(q) = [i \in DOMAIN s |-> ThreadOf(s[i])]
  BY <1>1 DEF ThreadList
<1>3. s = [i \in 1..Len(s) |-> s[i]] /\ DOMAIN s = 1..Len(s)
  OBVIOUS
<1> QED
  BY <1>2, <1>3

\* A level whose queue is empty has no threads.
LEMMA EmptyLevel ==
  ASSUME TypeOK, QueuesInv, NEW i \in 0..(Levels - 1), i # 0
  PROVE  ThreadList(MLFQ_queue[i]) = <<>> \/ Scheduler = "rr"
<1> DEFINE m == <<>>
<1>1. m \in Seq(Nodes) /\ Len(m) = 0 /\ m = <<>>
  OBVIOUS
<1> HIDE DEF m
<1>2. Levels \in Nat \ {0} /\ 0 \in 0..(Levels - 1)
  BY WorkerAssumption
<1> SUFFICES ASSUME Scheduler # "rr"
             PROVE  ThreadList(MLFQ_queue[i]) = m
  BY <1>1
<1>3. MLFQ_queue[i] \in QueueNames \ {Ready, waiting_queue}
  BY <1>2, QueuesDiffer
<1>4. heap.queue[MLFQ_queue[i]].head = NoNode
  BY <1>3 DEF QueuesInv, Empty
<1>5. Linked(heap, MLFQ_queue[i], m)
  BY <1>1, <1>4 DEF Linked
<1>6. \A k \in 1..Len(m) : ThreadOf(m[k]) = m[k]
  BY <1>1
<1> QED
  BY <1>1, <1>5, <1>6, ThreadListIs

LEMMA QueueIsList ==
  ASSUME TypeOK, QueuesInv
  PROVE  Represents
<1>1. ASSUME NEW s \in Seq(Threads), ReadyList(s)
      PROVE  LevelLists = TopOnly(s)
  <2>1. s \in Seq(Nodes) /\ Linked(heap, Ready, s)
    BY <1>1, ReadyFacts
  <2>2. \A i \in 1..Len(s) : ThreadOf(s[i]) = s[i]
    <3>1. \A i \in 1..Len(s) : s[i] \in Threads
      OBVIOUS
    <3> QED
      BY <3>1, QueuesDiffer
  <2>3. ThreadList(Ready) = s
    BY <2>1, <2>2, ThreadListIs
  <2>4. CASE Scheduler = "rr"
    BY <2>3, <2>4 DEF LevelLists, TopOnly, Ready
  <2>5. CASE Scheduler # "rr"
    <3>1. Scheduler = "mlfq" /\ Ready = MLFQ_queue[0]
      BY <2>5, QueuesDiffer
    <3>2. \A i \in 0..(Levels - 1) : i # 0 => ThreadList(MLFQ_queue[i]) = <<>>
      BY <2>5, EmptyLevel
    <3> QED
      BY <2>3, <3>1, <3>2 DEF LevelLists, TopOnly
  <2> QED
    BY <2>4, <2>5
<1>2. priority = [t \in Threads |-> 0]
  BY DEF TypeOK, QueuesInv
<1> QED
  BY <1>1, <1>2 DEF Represents

\* How a step of a list on level 0 is one of all levels.
LEMMA TopSteps ==
  ASSUME NEW s \in Seq(Threads)
  PROVE  /\ 0 \in 0..(Levels - 1) /\ TopOnly(s)[0] = s
         /\ \A l \in 0..(Levels - 1) : l # 0 => TopOnly(s)[l] = <<>>
         /\ \A n : TopOnly(Append(s, n)) = [TopOnly(s) EXCEPT ![0] = Append(@, n)]
         /\ TopOnly(Tail(s)) = [TopOnly(s) EXCEPT ![0] = Tail(@)]
<1>1. 0 \in 0..(Levels - 1)
  BY WorkerAssumption
<1>2. \A r : TopOnly(r) = [TopOnly(s) EXCEPT ![0] = r]
  BY <1>1 DEF TopOnly
<1> QED
  BY <1>1, <1>2 DEF TopOnly

\* No READY thread is lost, queued twice, or overtaken: every step of the library is a step of
\* the queues of levels, or one that they do not see.
THEOREM SchedulersKeepQueues == ForkJoin => (Spec => QueueRefinement)
<1> SUFFICES ASSUME ForkJoin
             PROVE  Spec => QueueRefinement
  OBVIOUS
<1>1. TypeOK /\ ForkInv => Represents
  BY QueueIsList DEF ForkInv
<1>2. TypeOK /\ Init => Queues!Init
  <2> SUFFICES ASSUME TypeOK, Init
               PROVE  Queues!Init
    OBVIOUS
  <2>1. ForkInv /\ ReadyList(<<>>)
    BY InitFork
  <2>2. LevelLists = TopOnly(<<>>) /\ priority = [t \in Threads |-> 0]
    <3>1. <<>> \in Seq(Threads) /\ Represents
      BY <2>1, QueueIsList DEF ForkInv
    <3> QED
      BY <2>1, <3>1 DEF Represents
  <2>3. Current = Main
    BY DEF Init, Current
  <2>4. \A t \in Threads : status[t] = IF t = Main THEN "running" ELSE "none"
    BY DEF Init
  <2>5. TopOnly(<<>>) = [l \in 0..(Levels - 1) |-> <<>>]
    BY DEF TopOnly
  <2> QED
    BY <2>2, <2>3, <2>4, <2>5 DEF Queues!Init, Queues!LevelIds, LevelLists
<1>3. TypeOK /\ ForkInv /\ Represents /\ Represents' /\ [Next]_vars => [Queues!Next]_Queues!vars
  <2> SUFFICES ASSUME TypeOK, ForkInv, Represents, Represents', [Next]_vars
               PROVE  [Queues!Next]_Queues!vars
    OBVIOUS
  <2>1. PICK s \in Seq(Threads) : ReadyList(s)
    BY DEF ForkInv, QueuesInv
  <2>2. PICK a \in Seq(Threads) : ReadyList(a)' /\ ListStep(s, a)
    BY <2>1, NextFork DEF FifoMove
  <2> DEFINE ready == [i \in 0..(Levels - 1) |->
                         IF Scheduler = "mlfq" THEN ThreadList(MLFQ_queue[i])
                         ELSE IF i = 0 THEN ThreadList(ready_queue) ELSE <<>>]
             top   == TopOnly(s)
  <2>3. ready = top
    BY <2>1 DEF Represents, LevelLists
  <2>4. ready' = TopOnly(a)
    BY <2>2 DEF Represents, LevelLists, TopOnly
  <2>5. priority = [t \in Threads |-> 0] /\ priority' = priority
    BY DEF Represents
  <2>6. /\ {t \in Threads : status[t] = "blocked" /\ t # Current} = Parked
        /\ {t \in Threads : status[t] = "blocked" /\ t # Current}' = Parked'
        /\ {t \in Threads : status[t] = "freed"} = Gone
        /\ {t \in Threads : status[t] = "freed"}' = Gone'
    BY DEF Parked, Gone
  <2>7. /\ 0 \in 0..(Levels - 1) /\ top[0] = s
        /\ \A l \in 0..(Levels - 1) : l # 0 => top[l] = <<>>
        /\ \A n : TopOnly(Append(s, n)) = [top EXCEPT ![0] = Append(@, n)]
        /\ TopOnly(Tail(s)) = [top EXCEPT ![0] = Tail(@)]
    BY TopSteps
  <2> HIDE DEF ready, top
  <2>8. CASE a = s /\ Current' = Current /\ Parked' = Parked /\ Gone' = Gone
    <3>1. ready' = ready
      BY <2>3, <2>4, <2>8 DEF top
    <3> QED
      BY <2>5, <2>6, <2>8, <3>1 DEF Queues!vars, ready
  <2>9. CASE \E n \in Threads \ (Members(s) \cup {Current} \cup Parked \cup Gone) :
               a = Append(s, n) /\ Current' = Current /\ Parked' = Parked /\ Gone' = Gone
    <3>1. PICK n \in Threads \ (Members(s) \cup {Current} \cup Parked \cup Gone) : a = Append(s, n)
      BY <2>9
    <3>2. ready' = [ready EXCEPT ![0] = Append(@, n)]
      BY <2>3, <2>4, <2>7, <3>1
    <3>3. \A l \in 0..(Levels - 1) : n \notin {ready[l][i] : i \in 1..Len(ready[l])}
      BY <2>3, <2>7, <3>1 DEF Members
    <3>4. Queues!Spawn(n)
      BY <2>5, <2>6, <2>9, <3>1, <3>2, <3>3
      DEF Queues!Spawn, Queues!Put, Queues!Queued, Queues!LevelIds, ready
    <3> QED
      BY <3>1, <3>4 DEF Queues!Next
  <2>10. CASE Current # NoThread /\ Current' = NoThread
              /\ a = Append(s, Current) /\ Parked' = Parked /\ Gone' = Gone
    <3>1. ready' = [ready EXCEPT ![0] = Append(@, Current)]
      BY <2>3, <2>4, <2>7, <2>10
    <3>2. Current \in Threads
      BY <2>10, CurrentIs DEF ForkInv, CpuInv
    <3>3. 0 \in Queues!LevelIds \cap {priority[Current], priority[Current] + 1}
      BY <2>5, <2>7, <3>2 DEF Queues!LevelIds
    <3>4. priority' = [priority EXCEPT ![Current] = 0]
      BY <2>5, <3>2
    <3>5. Queues!Requeue
      BY <2>5, <2>6, <2>10, <3>1, <3>3, <3>4 DEF Queues!Requeue, Queues!Put, ready
    <3> QED
      BY <3>5 DEF Queues!Next
  <2>11. CASE Current # NoThread /\ Current' = NoThread
              /\ a = s /\ Parked' = Parked \cup {Current} /\ Gone' = Gone
    <3>1. ready' = ready
      BY <2>3, <2>4, <2>11 DEF top
    <3>2. Queues!Park
      BY <2>5, <2>6, <2>11, <3>1 DEF Queues!Park, ready
    <3> QED
      BY <3>2 DEF Queues!Next
  <2>12. CASE Current # NoThread /\ Current' = NoThread /\ Gone' = Gone \cup {Current}
              /\ \/ a = s /\ Parked' = Parked
                 \/ \E n \in Parked : a = Append(s, n) /\ Parked' = Parked \ {n}
    <3>1. CASE a = s /\ Parked' = Parked
      <4>1. ready' = ready
        BY <2>3, <2>4, <3>1 DEF top
      <4> QED
        BY <2>5, <2>6, <2>12, <3>1, <4>1 DEF Queues!Next, Queues!Retire, ready
    <3>2. CASE \E n \in Parked : a = Append(s, n) /\ Parked' = Parked \ {n}
      <4>1. PICK n \in Parked : a = Append(s, n) /\ Parked' = Parked \ {n}
        BY <3>2
      <4>2. ready' = [ready EXCEPT ![priority[n]] = Append(@, n)]
        BY <2>3, <2>4, <2>5, <2>7, <4>1 DEF Parked
      <4>3. Queues!Retire
        BY <2>5, <2>6, <2>12, <4>1, <4>2 DEF Queues!Retire, Queues!Put, ready
      <4> QED
        BY <4>3 DEF Queues!Next
    <3> QED
      BY <2>12, <3>1, <3>2
  <2>13. CASE Current = NoThread /\ s # <<>> /\ Current' = s[1] /\ a = Tail(s)
              /\ Parked' = Parked /\ Gone' = Gone
    <3>1. Head(s) = s[1]
      BY <2>13
    <3>2. ready' = [ready EXCEPT ![0] = Tail(@)]
      BY <2>3, <2>4, <2>7, <2>13
    <3>3. Queues!First(0)
      BY <2>3, <2>7, <2>13 DEF Queues!First, Queues!LevelIds, ready
    <3>4. Queues!Dispatch
      <4>1. Current' = Head(ready[0]) /\ 0 \in Queues!LevelIds
        BY <2>3, <2>7, <2>13, <3>1 DEF Queues!LevelIds
      <4> QED
        BY <2>5, <2>6, <2>13, <3>2, <3>3, <4>1 DEF Queues!Dispatch, ready
    <3> QED
      BY <3>4 DEF Queues!Next
  <2> QED
    BY <2>2, <2>8, <2>9, <2>10, <2>11, <2>12, <2>13, Zenon DEF ListStep
<1> QED
  BY <1>1, <1>2, <1>3, TypeInvariant, ForkInvariant, PTL DEF Spec, QueueRefinement, Queues!Spec

=============================================================================

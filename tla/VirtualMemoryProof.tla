------------------------- MODULE VirtualMemoryProof -------------------------
(***************************************************************************)
(* The inductive invariant of the virtual memory manager, for every number *)
(* of frames, every shape of the page tables, every size of the TLB and    *)
(* every sequence of calls whose frees are Regular.  First come the        *)
(* functions on the TLB, for any tail pointer: P stands for the pages and  *)
(* A for the words that may be cached.                                     *)
(***************************************************************************)
EXTENDS VirtualMemoryProps, SequenceTheorems, FiniteSetTheorems, WellFoundedInduction, TLAPS

-----------------------------------------------------------------------------
\* The TLB.

Node(P, A) == [va : P, pa : A]

TlbType(P, A) ==
  [nodes : Seq(Node(P, A)), tail : P \cup {NoNode, Freed}, length : 0..TLB_ENTRIES]

\* The translations that are cached.
Pairs(t) == {t.nodes[i] : i \in DOMAIN t.nodes}

\* No page is cached twice, and length counts the nodes or more.
WellKept(t) ==
  /\ \A i, j \in DOMAIN t.nodes : t.nodes[i].va = t.nodes[j].va => i = j
  /\ Len(t.nodes) <= t.length
  /\ t.nodes = <<>> => t.length < TLB_ENTRIES

GoodTlb(t, P, A) == t \in TlbType(P, A) /\ WellKept(t)

-----------------------------------------------------------------------------
\* Lists of nodes.

\* An element in front of a list.
LEMMA ConsFacts ==
  ASSUME NEW S, NEW s \in Seq(S), NEW e \in S
  PROVE  /\ Cons(e, s) \in Seq(S)
         /\ Len(Cons(e, s)) = Len(s) + 1
         /\ Cons(e, s)[1] = e
         /\ \A i \in 2..(Len(s) + 1) : Cons(e, s)[i] = s[i - 1]
<1>1. <<e>> \in Seq(S) /\ Len(<<e>>) = 1 /\ <<e>>[1] = e
  OBVIOUS
<1>2. Len(s) \in Nat
  OBVIOUS
<1> QED
  BY <1>1, <1>2, ConcatProperties DEF Cons

\* The first n elements of a list.
LEMMA SubSeqFacts ==
  ASSUME NEW S, NEW s \in Seq(S), NEW n \in 0..Len(s)
  PROVE  /\ SubSeq(s, 1, n) \in Seq(S)
         /\ Len(SubSeq(s, 1, n)) = n
         /\ \A i \in 1..n : SubSeq(s, 1, n)[i] = s[i]
<1>1. \A i \in 1..n : s[i] \in S
  OBVIOUS
<1> QED
  BY <1>1, SubSeqProperties

\* A list without its k-th element.
LEMMA RemoveAtFacts ==
  ASSUME NEW S, NEW s \in Seq(S), NEW k \in 1..Len(s)
  PROVE  /\ RemoveAt(s, k) \in Seq(S)
         /\ Len(RemoveAt(s, k)) = Len(s) - 1
         /\ \A i \in 1..(Len(s) - 1) : RemoveAt(s, k)[i] = IF i < k THEN s[i] ELSE s[i + 1]
<1> DEFINE l == SubSeq(s, 1, k - 1)
           r == SubSeq(s, k + 1, Len(s))
<1>1. Len(s) \in Nat /\ k \in Int /\ k >= 1 /\ k <= Len(s)
  OBVIOUS
<1>2. l \in Seq(S) /\ Len(l) = k - 1 /\ \A i \in 1..(k - 1) : l[i] = s[i]
  BY <1>1, SubSeqFacts
<1>3. \A i \in (k + 1)..Len(s) : s[i] \in S
  BY <1>1
<1>4. /\ r \in Seq(S)
      /\ Len(r) = IF k + 1 <= Len(s) THEN Len(s) - (k + 1) + 1 ELSE 0
      /\ \A i \in 1..(Len(s) - (k + 1) + 1) : r[i] = s[(k + 1) + i - 1]
  BY <1>1, <1>3, SubSeqProperties
<1>5. Len(r) = Len(s) - k /\ \A i \in 1..(Len(s) - k) : r[i] = s[k + i]
  BY <1>1, <1>4
<1> HIDE DEF l, r
<1>6. /\ l \o r \in Seq(S)
      /\ Len(l \o r) = Len(l) + Len(r)
      /\ \A i \in 1..(Len(l) + Len(r)) : (l \o r)[i] = IF i <= Len(l) THEN l[i] ELSE r[i - Len(l)]
  BY <1>2, <1>4, ConcatProperties
<1>7. ASSUME NEW i \in 1..(Len(s) - 1)
      PROVE  (l \o r)[i] = IF i < k THEN s[i] ELSE s[i + 1]
  <2>1. CASE i < k
    BY <1>1, <1>2, <1>5, <1>6, <2>1
  <2>2. CASE ~(i < k)
    <3>1. (l \o r)[i] = r[i - (k - 1)]
      BY <1>1, <1>2, <1>5, <1>6, <2>2
    <3>2. i - (k - 1) \in 1..(Len(s) - k) /\ k + (i - (k - 1)) = i + 1
      BY <1>1, <2>2
    <3> QED
      BY <1>5, <2>2, <3>1, <3>2
  <2> QED
    BY <2>1, <2>2
<1>8. Len(l \o r) = Len(s) - 1
  BY <1>1, <1>2, <1>5, <1>6
<1> QED
  BY <1>6, <1>7, <1>8 DEF RemoveAt, l, r

-----------------------------------------------------------------------------

\* The search loop of check_TLB and delete_from_tlb ends at the node of the page.
LEMMA PositionFacts ==
  ASSUME NEW P, NEW A, NEW t, GoodTlb(t, P, A), NEW va \in Cached(t)
  PROVE  /\ Position(t, va) \in 1..Len(t.nodes)
         /\ t.nodes[Position(t, va)].va = va
         /\ \A i \in 1..Len(t.nodes) : t.nodes[i].va = va => i = Position(t, va)
<1>1. t.nodes \in Seq(Node(P, A)) /\ Len(t.nodes) \in Nat /\ DOMAIN t.nodes = 1..Len(t.nodes)
  BY DEF GoodTlb, TlbType
<1>2. PICK i \in DOMAIN t.nodes : t.nodes[i].va = va
  BY DEF Cached
<1>3. \A j \in 1..(i - 1) : t.nodes[j].va # va
  BY <1>1, <1>2 DEF GoodTlb, WellKept
<1>4. /\ Position(t, va) \in DOMAIN t.nodes
      /\ t.nodes[Position(t, va)].va = va
  BY <1>2, <1>3 DEF Position
<1> QED
  BY <1>1, <1>4 DEF GoodTlb, WellKept

-----------------------------------------------------------------------------
\* What each function does to the translations.

\* Cutting a list short, or taking one node out, keeps pages distinct; kept as a fact about
\* any list whose elements are those of another, in order.
LEMMA Shrunk ==
  ASSUME NEW P, NEW A, NEW t, GoodTlb(t, P, A),
         NEW s \in Seq(Node(P, A)), NEW tail \in P \cup {NoNode, Freed},
         NEW f \in [1..Len(s) -> 1..Len(t.nodes)],
         \A i, j \in 1..Len(s) : f[i] = f[j] => i = j,
         \A i \in 1..Len(s) : s[i] = t.nodes[f[i]],
         Len(s) < Len(t.nodes)
  PROVE  LET r == [nodes |-> s, tail |-> tail, length |-> t.length - 1]
         IN  GoodTlb(r, P, A) /\ Pairs(r) \subseteq Pairs(t)
<1> DEFINE r == [nodes |-> s, tail |-> tail, length |-> t.length - 1]
<1>1. /\ t.nodes \in Seq(Node(P, A)) /\ Len(t.nodes) \in Nat /\ DOMAIN t.nodes = 1..Len(t.nodes)
      /\ t.length \in 0..TLB_ENTRIES /\ Len(t.nodes) <= t.length
      /\ Len(s) \in Nat /\ DOMAIN s = 1..Len(s)
      /\ TLB_ENTRIES \in Nat
  BY TlbAssumption DEF GoodTlb, TlbType, WellKept
<1>2. t.length - 1 \in 0..TLB_ENTRIES /\ Len(s) <= t.length - 1 /\ t.length - 1 < TLB_ENTRIES
  BY <1>1
<1>3. r \in TlbType(P, A)
  BY <1>2 DEF TlbType
<1>4. \A i, j \in 1..Len(s) : s[i].va = s[j].va => i = j
  BY <1>1 DEF GoodTlb, WellKept
<1>5. WellKept(r)
  BY <1>1, <1>2, <1>4 DEF WellKept
<1>6. Pairs(r) \subseteq Pairs(t)
  BY <1>1 DEF Pairs
<1> QED
  BY <1>3, <1>5, <1>6 DEF GoodTlb

\* Every page loses its translation with delete_from_tlb, and no translation is added, wherever
\* the tail points.
LEMMA DeleteFacts ==
  ASSUME NEW P, NEW A, NEW t, GoodTlb(t, P, A), NEW va \in P,
         NoNode \notin P, Freed \notin P
  PROVE  /\ GoodTlb(delete_from_tlb(t, va), P, A)
         /\ Pairs(delete_from_tlb(t, va)) \subseteq {p \in Pairs(t) : p.va # va}
<1> DEFINE s == t.nodes
           k == Position(t, va)
<1>1. /\ s \in Seq(Node(P, A)) /\ Len(s) \in Nat /\ DOMAIN s = 1..Len(s)
      /\ t.tail \in P \cup {NoNode, Freed}
      /\ t.length \in 0..TLB_ENTRIES /\ Len(s) <= t.length
      /\ t = [nodes |-> s, tail |-> t.tail, length |-> t.length]
  BY DEF GoodTlb, TlbType, WellKept
<1>2. CASE va \notin Cached(t)
  <2>1. delete_from_tlb(t, va) = t
    BY <1>2 DEF delete_from_tlb
  <2> QED
    BY <1>2, <2>1 DEF Pairs, Cached
<1>3. CASE va \in Cached(t)
  <2>1. k \in 1..Len(s) /\ s[k].va = va /\ \A i \in 1..Len(s) : s[i].va = va => i = k
    BY <1>3, PositionFacts
  <2>2. Len(s) >= 1 /\ s # <<>>
    BY <1>1, <2>1
  <2> DEFINE d == delete_from_tlb(t, va)
             Removes(q) == /\ GoodTlb(q, P, A)
                           /\ Pairs(q) \subseteq {p \in Pairs(t) : p.va # va}
  <2>3. ASSUME NEW q \in Seq(Node(P, A)), NEW tail \in P \cup {NoNode, Freed},
               NEW f \in [1..Len(q) -> 1..Len(s)],
               \A i, j \in 1..Len(q) : f[i] = f[j] => i = j,
               \A i \in 1..Len(q) : q[i] = s[f[i]] /\ f[i] # k,
               Len(q) < Len(s)
        PROVE  Removes([nodes |-> q, tail |-> tail, length |-> t.length - 1])
    <3> DEFINE r == [nodes |-> q, tail |-> tail, length |-> t.length - 1]
    <3>1. GoodTlb(r, P, A) /\ Pairs(r) \subseteq Pairs(t)
      BY <2>3, Shrunk
    <3>2. \A i \in 1..Len(q) : q[i].va # va
      BY <2>1, <2>3
    <3>3. \A p \in Pairs(r) : p.va # va
      BY <3>2 DEF Pairs
    <3> QED
      BY <3>1, <3>3
  <2> HIDE DEF Removes
  <2>4. CASE s[1].va = va /\ t.tail = va
    <3>1. d = [nodes |-> <<>>, tail |-> NoNode, length |-> t.length - 1]
      BY <1>3, <2>4 DEF delete_from_tlb
    <3> DEFINE q == <<>>
               f == [i \in 1..Len(q) |-> 1]
    <3>2. q \in Seq(Node(P, A)) /\ Len(q) = 0 /\ 1..Len(q) = {}
      OBVIOUS
    <3>3. f \in [1..Len(q) -> 1..Len(s)] /\ Len(q) < Len(s)
      BY <1>1, <2>2, <3>2
    <3> HIDE DEF f, q
    <3>4. /\ \A i, j \in 1..Len(q) : f[i] = f[j] => i = j
          /\ \A i \in 1..Len(q) : q[i] = s[f[i]] /\ f[i] # k
      BY <3>2
    <3>5. Removes([nodes |-> q, tail |-> NoNode, length |-> t.length - 1])
      BY <2>3, <3>2, <3>3, <3>4
    <3> QED
      BY <3>1, <3>5 DEF Removes, q
  <2>5. CASE s[1].va = va /\ t.tail # va
    <3>1. d = [nodes |-> Tail(s), tail |-> t.tail, length |-> t.length - 1]
      BY <1>1, <1>3, <2>5 DEF delete_from_tlb
    <3>2. /\ Tail(s) \in Seq(Node(P, A)) /\ Len(Tail(s)) = Len(s) - 1
          /\ \A i \in 1..Len(Tail(s)) : Tail(s)[i] = s[i + 1]
      BY <1>1, <2>2, HeadTailProperties
    <3>3. k = 1
      BY <1>1, <2>1, <2>2, <2>5
    <3> DEFINE f == [i \in 1..Len(Tail(s)) |-> i + 1]
    <3>4. /\ f \in [1..Len(Tail(s)) -> 1..Len(s)]
          /\ \A i, j \in 1..Len(Tail(s)) : f[i] = f[j] => i = j
          /\ \A i \in 1..Len(Tail(s)) : Tail(s)[i] = s[f[i]] /\ f[i] # k
      BY <1>1, <3>2, <3>3
    <3>5. Len(Tail(s)) < Len(s)
      BY <1>1, <3>2
    <3> HIDE DEF f
    <3>6. Removes([nodes |-> Tail(s), tail |-> t.tail, length |-> t.length - 1])
      BY <1>1, <2>3, <3>2, <3>4, <3>5
    <3> QED
      BY <3>1, <3>6 DEF Removes
  <2>6. CASE s[1].va # va /\ t.tail = va
    <3>1. d = [nodes |-> SubSeq(s, 1, k - 1), tail |-> s[k - 1].va, length |-> t.length - 1]
      BY <1>3, <2>6 DEF delete_from_tlb
    <3>2. k # 1 /\ k - 1 \in 1..Len(s) /\ k - 1 \in 0..Len(s) /\ s[k - 1] \in Node(P, A)
      BY <1>1, <2>1, <2>6
    <3>3. /\ SubSeq(s, 1, k - 1) \in Seq(Node(P, A)) /\ Len(SubSeq(s, 1, k - 1)) = k - 1
          /\ \A i \in 1..(k - 1) : SubSeq(s, 1, k - 1)[i] = s[i]
      BY <1>1, <3>2, SubSeqFacts
    <3> DEFINE f == [i \in 1..Len(SubSeq(s, 1, k - 1)) |-> i]
    <3>4. /\ f \in [1..Len(SubSeq(s, 1, k - 1)) -> 1..Len(s)]
          /\ \A i, j \in 1..Len(SubSeq(s, 1, k - 1)) : f[i] = f[j] => i = j
          /\ \A i \in 1..Len(SubSeq(s, 1, k - 1)) : SubSeq(s, 1, k - 1)[i] = s[f[i]] /\ f[i] # k
      BY <1>1, <2>1, <3>2, <3>3
    <3>5. s[k - 1].va \in P \cup {NoNode, Freed}
      BY <3>2 DEF Node
    <3>6. Len(SubSeq(s, 1, k - 1)) < Len(s)
      BY <1>1, <2>1, <3>3
    <3> HIDE DEF f
    <3>7. Removes([nodes |-> SubSeq(s, 1, k - 1), tail |-> s[k - 1].va, length |-> t.length - 1])
      BY <2>3, <3>3, <3>4, <3>5, <3>6
    <3> QED
      BY <3>1, <3>7 DEF Removes
  <2>7. CASE s[1].va # va /\ t.tail # va
    <3>1. d = [nodes |-> RemoveAt(s, k), tail |-> t.tail, length |-> t.length - 1]
      BY <1>1, <1>3, <2>7 DEF delete_from_tlb
    <3>2. /\ RemoveAt(s, k) \in Seq(Node(P, A)) /\ Len(RemoveAt(s, k)) = Len(s) - 1
          /\ \A i \in 1..(Len(s) - 1) : RemoveAt(s, k)[i] = IF i < k THEN s[i] ELSE s[i + 1]
      BY <1>1, <2>1, RemoveAtFacts
    <3> DEFINE f == [i \in 1..Len(RemoveAt(s, k)) |-> IF i < k THEN i ELSE i + 1]
    <3>3. /\ f \in [1..Len(RemoveAt(s, k)) -> 1..Len(s)]
          /\ \A i, j \in 1..Len(RemoveAt(s, k)) : f[i] = f[j] => i = j
          /\ \A i \in 1..Len(RemoveAt(s, k)) : RemoveAt(s, k)[i] = s[f[i]] /\ f[i] # k
      BY <1>1, <2>1, <3>2
    <3> HIDE DEF f
    <3>4. Len(RemoveAt(s, k)) < Len(s)
      BY <1>1, <3>2
    <3>5. Removes([nodes |-> RemoveAt(s, k), tail |-> t.tail, length |-> t.length - 1])
      BY <1>1, <2>3, <3>2, <3>3, <3>4
    <3> QED
      BY <3>1, <3>5 DEF Removes
  <2> QED
    BY <2>4, <2>5, <2>6, <2>7
<1> QED
  BY <1>2, <1>3

\* Moving a node to the front changes no translation.
LEMMA ArrangeFacts ==
  ASSUME NEW P, NEW A, NEW t, GoodTlb(t, P, A), NEW va \in Cached(t)
  PROVE  GoodTlb(arrange(t, va), P, A) /\ Pairs(arrange(t, va)) \subseteq Pairs(t)
<1> DEFINE s == t.nodes
           k == Position(t, va)
           rest == RemoveAt(s, k)
           q == Cons(s[k], rest)
<1>1. /\ s \in Seq(Node(P, A)) /\ Len(s) \in Nat /\ DOMAIN s = 1..Len(s)
      /\ t.tail \in P \cup {NoNode, Freed}
      /\ t.length \in 0..TLB_ENTRIES /\ Len(s) <= t.length
      /\ t = [nodes |-> s, tail |-> t.tail, length |-> t.length]
      /\ \A i, j \in 1..Len(s) : s[i].va = s[j].va => i = j
  BY DEF GoodTlb, TlbType, WellKept
<1>2. k \in 1..Len(s)
  BY PositionFacts
<1>3. s[k] \in Node(P, A)
  BY <1>1, <1>2
<1>4. /\ rest \in Seq(Node(P, A)) /\ Len(rest) = Len(s) - 1
      /\ \A i \in 1..(Len(s) - 1) : rest[i] = IF i < k THEN s[i] ELSE s[i + 1]
  BY <1>1, <1>2, RemoveAtFacts
<1> HIDE DEF k, rest
<1> DEFINE e == s[k]
<1> HIDE DEF e
<1>5. /\ q \in Seq(Node(P, A)) /\ Len(q) = Len(rest) + 1 /\ q[1] = s[k]
      /\ \A i \in 2..(Len(rest) + 1) : q[i] = rest[i - 1]
  <2>1. e \in Node(P, A) /\ rest \in Seq(Node(P, A))
    BY <1>3, <1>4 DEF e
  <2>2. /\ Cons(e, rest) \in Seq(Node(P, A)) /\ Len(Cons(e, rest)) = Len(rest) + 1
        /\ Cons(e, rest)[1] = e
        /\ \A i \in 2..(Len(rest) + 1) : Cons(e, rest)[i] = rest[i - 1]
    BY <2>1, ConsFacts
  <2>3. e = s[k]
    BY DEF e
  <2> HIDE DEF s
  <2> QED
    BY <2>2, <2>3
<1> HIDE DEF q
<1>6. Len(q) = Len(s) /\ \A i \in 2..Len(s) : q[i] = IF i <= k THEN s[i - 1] ELSE s[i]
  <2>1. Len(q) = Len(s)
    BY <1>1, <1>4, <1>5
  <2>2. ASSUME NEW i \in 2..Len(s)
        PROVE  q[i] = IF i <= k THEN s[i - 1] ELSE s[i]
    <3>1. i - 1 \in 1..(Len(s) - 1) /\ (i - 1) + 1 = i /\ (i - 1 < k <=> i <= k)
      BY <1>1, <1>2
    <3>2. q[i] = rest[i - 1]
      BY <1>1, <1>4, <1>5
    <3> QED
      BY <1>4, <3>1, <3>2
  <2> QED
    BY <2>1, <2>2
<1> DEFINE f == [i \in 1..Len(s) |-> IF i = 1 THEN k ELSE IF i <= k THEN i - 1 ELSE i]
<1>7. /\ f \in [1..Len(s) -> 1..Len(s)]
      /\ \A i, j \in 1..Len(s) : f[i] = f[j] => i = j
      /\ \A i \in 1..Len(s) : q[i] = s[f[i]]
  <2>1. f \in [1..Len(s) -> 1..Len(s)]
    BY <1>1, <1>2
  <2>2. \A i, j \in 1..Len(s) : f[i] = f[j] => i = j
    BY <1>1, <1>2
  <2>3. \A i \in 1..Len(s) : q[i] = s[f[i]]
    BY <1>1, <1>2, <1>5, <1>6
  <2> QED
    BY <2>1, <2>2, <2>3
<1> HIDE DEF f
<1> DEFINE r == [nodes |-> q, tail |-> t.tail, length |-> t.length]
<1>8. r \in TlbType(P, A)
  BY <1>1, <1>5 DEF TlbType
<1>9. \A i, j \in 1..Len(s) : q[i].va = q[j].va => i = j
  BY <1>1, <1>7
<1>10. DOMAIN q = 1..Len(s) /\ q # <<>> /\ Len(q) <= t.length
  BY <1>1, <1>2, <1>5, <1>6
<1>11. WellKept(r) /\ Pairs(r) \subseteq Pairs(t)
  <2>1. WellKept(r)
    BY <1>9, <1>10 DEF WellKept
  <2>2. \A i \in DOMAIN q : q[i] \in Pairs(t)
    BY <1>1, <1>7, <1>10 DEF Pairs
  <2> QED
    BY <2>1, <2>2 DEF Pairs
<1>12. arrange(t, va) = IF HeadIsTail(t) THEN t ELSE r
  BY <1>1 DEF arrange, q, k, rest
<1> QED
  BY <1>8, <1>11, <1>12 DEF GoodTlb

\* A page that was not cached is cached now, with the translation that is given; nothing else
\* is added.
LEMMA AddFacts ==
  ASSUME NEW P, NEW A, NEW t, GoodTlb(t, P, A), NEW va \in P \ Cached(t), NEW pa \in A,
         NEW r \in add_TLB(t, va, pa)
  PROVE  GoodTlb(r, P, A) /\ Pairs(r) \subseteq Pairs(t) \cup {[va |-> va, pa |-> pa]}
<1> DEFINE s == t.nodes
           node == [va |-> va, pa |-> pa]
<1>1. /\ s \in Seq(Node(P, A)) /\ Len(s) \in Nat /\ DOMAIN s = 1..Len(s)
      /\ t.tail \in P \cup {NoNode, Freed}
      /\ t.length \in 0..TLB_ENTRIES /\ Len(s) <= t.length
      /\ \A i, j \in 1..Len(s) : s[i].va = s[j].va => i = j
      /\ s = <<>> => t.length < TLB_ENTRIES
  BY DEF GoodTlb, TlbType, WellKept
<1>2. node \in Node(P, A) /\ TLB_ENTRIES \in Nat \ {0}
  BY TlbAssumption DEF Node
<1>3. \A i \in 1..Len(s) : s[i].va # va
  BY <1>1 DEF Cached
<1>4. CASE s = <<>>
  <2>1. r = [nodes |-> <<node>>, tail |-> va, length |-> t.length + 1]
    BY <1>4 DEF add_TLB
  <2>2. /\ <<node>> \in Seq(Node(P, A)) /\ Len(<<node>>) = 1 /\ <<node>>[1] = node
        /\ DOMAIN <<node>> = {1} /\ <<node>> # <<>>
    BY <1>2
  <2> DEFINE q == <<node>>
  <2> HIDE DEF q
  <2>3. t.length + 1 \in 0..TLB_ENTRIES /\ 1 <= t.length + 1
    BY <1>1, <1>2, <1>4
  <2>4. r = [nodes |-> q, tail |-> va, length |-> t.length + 1]
    BY <2>1 DEF q
  <2>5. q \in Seq(Node(P, A)) /\ Len(q) = 1 /\ DOMAIN q = {1} /\ q # <<>> /\ q[1] = node
    BY <2>2 DEF q
  <2>6. r \in TlbType(P, A)
    BY <2>3, <2>4, <2>5 DEF TlbType
  <2>7. WellKept(r)
    BY <2>3, <2>4, <2>5 DEF WellKept
  <2>8. Pairs(r) \subseteq Pairs(t) \cup {node}
    BY <2>4, <2>5 DEF Pairs
  <2> QED
    BY <2>6, <2>7, <2>8 DEF GoodTlb
<1>5. CASE s # <<>> /\ t.length < TLB_ENTRIES
  <2>1. PICK e \in P \cup {NoNode, Freed} :
          r = [nodes |-> Cons(node, s), tail |-> e, length |-> t.length + 1]
    BY <1>1, <1>5 DEF add_TLB
  <2> DEFINE q == Cons(node, s)
  <2>2. /\ q \in Seq(Node(P, A)) /\ Len(q) = Len(s) + 1 /\ q[1] = node
        /\ \A i \in 2..(Len(s) + 1) : q[i] = s[i - 1]
    <3> HIDE DEF node
    <3>1. node \in Node(P, A) /\ s \in Seq(Node(P, A))
      BY <1>1, <1>2
    <3> HIDE DEF s
    <3> QED
      BY <3>1, ConsFacts
  <2> HIDE DEF q
  <2>3. \A i, j \in 1..Len(q) : q[i].va = q[j].va => i = j
    <3>1. Len(q) = Len(s) + 1 /\ q[1].va = va
      BY <2>2
    <3>2. \A i \in 2..Len(q) : i - 1 \in 1..Len(s) /\ q[i] = s[i - 1] /\ q[i].va # va
      BY <1>1, <1>3, <2>2
    <3>3. \A i \in 2..Len(q) : q[i].va # q[1].va
      BY <3>1, <3>2
    <3>4. \A i, j \in 2..Len(q) : q[i].va = q[j].va => i = j
      <4> SUFFICES ASSUME NEW i \in 2..Len(q), NEW j \in 2..Len(q), q[i].va = q[j].va
                   PROVE  i = j
        OBVIOUS
      <4>1. i - 1 = j - 1
        BY <1>1, <3>2
      <4> QED
        BY <1>1, <3>1, <4>1
    <3> QED
      BY <1>1, <3>1, <3>3, <3>4
  <2>4. r \in TlbType(P, A)
    <3>1. t.length + 1 \in 0..TLB_ENTRIES
      BY <1>1, <1>2, <1>5
    <3>2. r = [nodes |-> q, tail |-> e, length |-> t.length + 1]
      BY <2>1 DEF q
    <3> QED
      BY <2>2, <3>1, <3>2 DEF TlbType
  <2>5. WellKept(r)
    <3>1. DOMAIN q = 1..Len(q) /\ q # <<>>
      BY <1>1, <2>2
    <3>2. r.nodes = q /\ r.length = t.length + 1
      BY <2>1 DEF q
    <3> QED
      BY <1>1, <1>5, <2>2, <2>3, <3>1, <3>2 DEF WellKept
  <2>6. Pairs(r) \subseteq Pairs(t) \cup {node}
    <3>1. DOMAIN q = 1..Len(q) /\ r.nodes = q
      BY <2>1, <2>2 DEF q
    <3>2. \A i \in 1..Len(q) : q[i] = node \/ \E j \in 1..Len(s) : q[i] = s[j]
      BY <1>1, <2>2
    <3> QED
      BY <1>1, <3>1, <3>2 DEF Pairs
  <2> QED
    BY <2>4, <2>5, <2>6 DEF GoodTlb
<1>6. CASE s # <<>> /\ ~(t.length < TLB_ENTRIES)
  <2>1. PICK e \in P \cup {NoNode, Freed} :
          r = [nodes |-> Cons(node, Tail(s)), tail |-> e, length |-> t.length]
    BY <1>1, <1>6 DEF add_TLB
  <2>2. /\ Tail(s) \in Seq(Node(P, A)) /\ Len(Tail(s)) = Len(s) - 1
        /\ \A i \in 1..Len(Tail(s)) : Tail(s)[i] = s[i + 1]
    BY <1>1, <1>6, HeadTailProperties
  <2> DEFINE q == Cons(node, Tail(s))
  <2>3. /\ q \in Seq(Node(P, A)) /\ Len(q) = Len(s) /\ q[1] = node
        /\ \A i \in 2..Len(s) : q[i] = s[i]
    <3>1. /\ q \in Seq(Node(P, A)) /\ Len(q) = Len(Tail(s)) + 1 /\ q[1] = node
          /\ \A i \in 2..(Len(Tail(s)) + 1) : q[i] = Tail(s)[i - 1]
      <4> DEFINE tl == Tail(s)
      <4> HIDE DEF node, tl
      <4>1. node \in Node(P, A) /\ tl \in Seq(Node(P, A))
        BY <1>2, <2>2 DEF tl
      <4>2. /\ Cons(node, tl) \in Seq(Node(P, A)) /\ Len(Cons(node, tl)) = Len(tl) + 1
            /\ Cons(node, tl)[1] = node
            /\ \A i \in 2..(Len(tl) + 1) : Cons(node, tl)[i] = tl[i - 1]
        BY <4>1, ConsFacts
      <4> QED
        BY <4>2 DEF tl
    <3> HIDE DEF q
    <3>2. \A i \in 2..Len(s) : Tail(s)[i - 1] = s[i]
      BY <1>1, <2>2
    <3> QED
      BY <1>1, <2>2, <3>1, <3>2
  <2> HIDE DEF q
  <2>4. \A i, j \in 1..Len(q) : q[i].va = q[j].va => i = j
    BY <1>1, <1>3, <2>3
  <2>5. r \in TlbType(P, A)
    BY <1>1, <2>1, <2>3 DEF TlbType, q
  <2>6. WellKept(r)
    <3>1. DOMAIN q = 1..Len(q) /\ q # <<>>
      BY <1>1, <1>6, <2>3
    <3>2. r.nodes = q /\ r.length = t.length
      BY <2>1 DEF q
    <3> QED
      BY <1>1, <2>3, <2>4, <3>1, <3>2 DEF WellKept
  <2>7. Pairs(r) \subseteq Pairs(t) \cup {node}
    <3>1. DOMAIN q = 1..Len(q) /\ r.nodes = q
      BY <2>1, <2>3 DEF q
    <3>2. \A i \in 1..Len(q) : q[i] = node \/ \E j \in 1..Len(s) : q[i] = s[j]
      BY <1>1, <2>3
    <3> QED
      BY <1>1, <3>1, <3>2 DEF Pairs
  <2> QED
    BY <2>5, <2>6, <2>7 DEF GoodTlb
<1> QED
  BY <1>4, <1>5, <1>6

-----------------------------------------------------------------------------
\* Numbers.

\* What the assumptions on the constants give: frames, pages and words begin at 0.
LEMMA Constants ==
  /\ NumPages \in Nat \ {0} /\ DirEntries \in Nat \ {0} /\ TableEntries \in Nat \ {0}
  /\ ByteBits \in Nat \ {0} /\ MaxPages \in Nat \ {0} /\ DirEntries <= TableEntries
  /\ Frames \subseteq Nat /\ IsFiniteSet(Frames) /\ 0 \in Frames
  /\ Null \notin Frames /\ Null \notin Values
  /\ Virt \subseteq Nat /\ 0 \in Virt /\ 0 \in Words
  /\ Frames \subseteq Word /\ Values \subseteq Word /\ Null \in Word
<1>1. /\ NumPages \in Nat \ {0} /\ DirEntries \in Nat \ {0} /\ TableEntries \in Nat \ {0}
      /\ ByteBits \in Nat \ {0} /\ MaxPages \in Nat \ {0} /\ DirEntries <= TableEntries
      /\ Null \notin Frames /\ Null \notin Values
  BY VirtualMemoryAssumption
<1>2. Frames \subseteq Nat /\ 0 \in Frames /\ 0 \in Words
  BY <1>1 DEF Frames, Words
<1>3. IsFiniteSet(Frames)
  BY <1>1, FS_Interval DEF Frames
<1>4. DirEntries * TableEntries \in Nat \ {0}
  BY <1>1
<1>5. Virt \subseteq Nat /\ 0 \in Virt
  BY <1>4 DEF Virt
<1> QED
  BY <1>1, <1>2, <1>3, <1>5 DEF Word

\* A page number is split into an index in the directory and an index in a table.
LEMMA PageParts ==
  ASSUME NEW v \in Virt
  PROVE  /\ DirIndex(v) \in Directory /\ DirIndex(v) \in Words
         /\ TableIndex(v) \in Words
         /\ v = TableEntries * DirIndex(v) + TableIndex(v)
<1> DEFINE q == v \div TableEntries
           r == v % TableEntries
<1>1. /\ v \in Nat /\ v < DirEntries * TableEntries
      /\ TableEntries \in Nat /\ TableEntries > 0 /\ DirEntries \in Nat /\ DirEntries <= TableEntries
  BY Constants DEF Virt
<1>2. q \in Int /\ r \in 0..(TableEntries - 1) /\ v = TableEntries * q + r
  BY <1>1
<1> HIDE DEF q, r
<1>3. q >= 0
  <2> SUFFICES ASSUME q <= -1 PROVE FALSE
    BY <1>2
  <2>1. TableEntries * q <= TableEntries * (-1)
    BY <1>1, <1>2
  <2> QED
    BY <1>1, <1>2, <2>1
<1>4. q < DirEntries
  <2> SUFFICES ASSUME q >= DirEntries PROVE FALSE
    BY <1>1, <1>2
  <2>1. TableEntries * q >= TableEntries * DirEntries
    BY <1>1, <1>2
  <2>2. TableEntries * DirEntries = DirEntries * TableEntries
    BY <1>1
  <2> QED
    BY <1>1, <1>2, <2>1, <2>2
<1> QED
  BY <1>1, <1>2, <1>3, <1>4 DEF q, r, DirIndex, TableIndex, Directory, Words

\* The page behind an index in the directory and one in a table.
LEMMA PartsPage ==
  ASSUME NEW d \in Directory, NEW w \in Words, NEW v, v = TableEntries * d + w
  PROVE  v \in Virt /\ DirIndex(v) = d /\ TableIndex(v) = w
<1>1. /\ TableEntries \in Nat /\ TableEntries > 0 /\ DirEntries \in Nat
      /\ d \in Nat /\ d <= DirEntries - 1 /\ w \in Nat /\ w < TableEntries
  BY Constants DEF Directory, Words
<1>2. TableEntries * d \in Nat /\ TableEntries * d <= TableEntries * (DirEntries - 1)
  BY <1>1
<1>3. TableEntries * (DirEntries - 1) = DirEntries * TableEntries - TableEntries
  BY <1>1
<1>4. v \in Virt
  BY <1>1, <1>2, <1>3 DEF Virt
<1>5. /\ DirIndex(v) \in Nat /\ TableIndex(v) \in 0..(TableEntries - 1)
      /\ v = TableEntries * DirIndex(v) + TableIndex(v)
  BY <1>4, PageParts DEF Directory, Words
<1> DEFINE q == DirIndex(v)
           r == TableIndex(v)
<1> HIDE DEF q, r
<1>6. TableEntries * d + w = TableEntries * q + r /\ q \in Nat /\ r \in 0..(TableEntries - 1)
  BY <1>5 DEF q, r
<1>7. q = d
  <2>1. CASE q >= d + 1
    <3>1. TableEntries * q >= TableEntries * (d + 1)
      BY <1>1, <1>6, <2>1
    <3>2. TableEntries * (d + 1) = TableEntries * d + TableEntries
      BY <1>1
    <3> QED
      BY <1>1, <1>2, <1>6, <3>1, <3>2
  <2>2. CASE q <= d - 1
    <3>1. TableEntries * q <= TableEntries * (d - 1)
      BY <1>1, <1>6, <2>2
    <3>2. TableEntries * (d - 1) = TableEntries * d - TableEntries
      BY <1>1
    <3> QED
      BY <1>1, <1>2, <1>6, <3>1, <3>2
  <2> QED
    BY <1>1, <1>6, <2>1, <2>2
<1>8. r = w
  BY <1>1, <1>2, <1>6, <1>7
<1> QED
  BY <1>4, <1>7, <1>8 DEF q, r

\* The next page is the one behind, but for the last.
LEMMA NextPage ==
  ASSUME NEW v \in Virt
  PROVE  get_next_page(v) \in Virt /\ (v + 1 \in Virt => get_next_page(v) = v + 1)
<1> DEFINE k == DirEntries * TableEntries
           y == v + 1
<1>1. k \in Nat \ {0}
  BY Constants
<1>2. Virt = 0..(k - 1) /\ get_next_page(v) = y % k
  BY DEF Virt, get_next_page
<1> HIDE DEF k
<1>3. y \in Nat
  BY <1>1, <1>2
<1> HIDE DEF y
<1>4. y % k \in 0..(k - 1) /\ (y \in 0..(k - 1) => y % k = y)
  BY <1>1, <1>3
<1> QED
  BY <1>2, <1>4 DEF y

\* Pages that follow one another in a table.
LEMMA NextInTable ==
  ASSUME NEW v \in Virt, NEW i \in Nat, TableIndex(v) + i < TableEntries
  PROVE  /\ v + i \in Virt
         /\ DirIndex(v + i) = DirIndex(v) /\ TableIndex(v + i) = TableIndex(v) + i
         /\ TableIndex(v) + i \in Words
         /\ form_virtual_address(DirIndex(v), TableIndex(v) + i) = v + i
<1>1. /\ DirIndex(v) \in Directory /\ TableIndex(v) \in Words
      /\ v = TableEntries * DirIndex(v) + TableIndex(v)
      /\ TableEntries \in Nat /\ TableEntries > 0 /\ DirIndex(v) \in Nat /\ TableIndex(v) \in Nat
      /\ TableEntries * DirIndex(v) \in Nat
  BY PageParts, Constants DEF Directory, Words
<1>2. TableIndex(v) + i \in Words /\ v + i = TableEntries * DirIndex(v) + (TableIndex(v) + i)
  BY <1>1 DEF Words
<1>3. /\ v + i \in Virt
      /\ DirIndex(v + i) = DirIndex(v) /\ TableIndex(v + i) = TableIndex(v) + i
  BY <1>1, <1>2, PartsPage
<1> DEFINE k == TableIndex(v) + i
           d == DirIndex(v)
<1>4. k % TableEntries = k
  <2> HIDE DEF k
  <2> SUFFICES ASSUME k \in 0..(TableEntries - 1)
               PROVE  k % TableEntries = k
    BY <1>2 DEF Words, k
  <2> QED
    BY <1>1
<1>5. form_virtual_address(d, k) = d * TableEntries + k
  BY <1>4 DEF form_virtual_address
<1>6. d * TableEntries = TableEntries * d
  BY <1>1
<1> QED
  BY <1>2, <1>3, <1>5, <1>6

\* A table index below TableEntries lies in the table's own frame.
LEMMA InsideTable ==
  ASSUME NEW f \in Frames, NEW k \in Words
  PROVE  /\ f + (k \div TableEntries) = f /\ k % TableEntries = k
         /\ InMemory(f, k) /\ WordAt(f, k) = mem[f][k]
<1>1. TableEntries \in Nat /\ TableEntries > 0 /\ k \in 0..(TableEntries - 1) /\ f \in Nat
  BY Constants DEF Words
<1>2. k \div TableEntries = 0 /\ k % TableEntries = k
  BY <1>1
<1> QED
  BY <1>1, <1>2 DEF InMemory, WordAt

\* The search loops end at the first number of the set.
LEMMA FirstFacts ==
  ASSUME NEW S, S \subseteq Nat, S # {}
  PROVE  First(S) \in S
<1> DEFINE R == {ss \in Nat \X Nat : ss[1] < ss[2]}
<1>1. R = OpToRel(<, Nat)
  BY Zenon DEF OpToRel
<1>2. IsWellFoundedOn(R, Nat)
  BY <1>1, NatLessThanWellFounded, Zenon
<1> HIDE DEF R
<1>3. PICK i \in S : \A j \in S : ~(<<j, i>> \in R)
  BY <1>2, WFMin, Zenon
<1>4. \A j \in S : i <= j
  <2> SUFFICES ASSUME NEW j \in S, j < i
               PROVE  FALSE
    OBVIOUS
  <2> DEFINE ji == <<j, i>>
  <2>1. ji \in Nat \X Nat
    OBVIOUS
  <2>2. ji[1] = j /\ ji[2] = i
    OBVIOUS
  <2> HIDE DEF ji
  <2>3. ji \in R
    BY <2>1, <2>2 DEF R
  <2> QED
    BY <1>3, <2>3 DEF ji
<1> QED
  BY <1>4 DEF First

-----------------------------------------------------------------------------
\* The inductive invariant.

\* Before the first t_malloc memory is as it was allocated.
Fresh == ~up => /\ mem = [f \in Frames |-> Zeroed] /\ tlb = EmptyTlb
                /\ virt_bitmap = {} /\ call \in {Idle, Refuse}

\* Only pages that are mapped are in the TLB.
TlbMapped == \A i \in DOMAIN tlb.nodes : tlb.nodes[i].pa # Null

\* A mapped page has its bit set.
MappedMarked == Mapped \subseteq virt_bitmap

\* While t_malloc maps, the frame in hand is free; of the area it found, the pages before
\* the one in hand are mapped and the others are not.
Mapping ==
  call.pc = "map" =>
    /\ up /\ call.i < call.n /\ call.frame \in Free(phy_bitmap)
    /\ call.found => /\ call.va = call.start + call.i
                     /\ \A j \in call.i..(call.n - 1) : call.start + j \in Virt \ virt_bitmap
                     /\ \A j \in 0..(call.i - 1) : call.start + j \in Mapped

\* While t_free unmaps, the pages that are left have frames that follow one another.
Unmapping ==
  call.pc = "unmap" =>
    /\ up /\ call.i < call.n /\ TableIndex(call.va) + call.n <= TableEntries
    /\ \A j \in call.i..(call.n - 1) :
         call.va + j \in Mapped /\ Entry(call.va + j) = call.frame + j

\* An access goes on only when memory is set up, and put_value has a value.
Accessing ==
  call.pc \in {"one", "check", "copy"} => up /\ (call.op = "put_value" => call.val \in Values)

IInv ==
  /\ TypeOK /\ FramesOwned /\ FreeFramesZero /\ TlbAgrees /\ NoWildPointer
  /\ Fresh /\ TlbMapped /\ MappedMarked /\ Mapping /\ Unmapping /\ Accessing
  /\ MallocMapsArea


-----------------------------------------------------------------------------
\* The page tables as a tree.

\* FramesOwned, said of pages and indexes.
PageTree ==
  /\ 0 \in phy_bitmap
  /\ \A d \in Directory : mem[0][d] # Null => mem[0][d] \in phy_bitmap \ {0}
  /\ \A d, e \in Directory : mem[0][d] # Null /\ mem[0][d] = mem[0][e] => d = e
  /\ \A v \in Virt : Entry(v) # Null => Entry(v) \in phy_bitmap \ {0}
  /\ \A v, u \in Virt : Entry(v) # Null /\ Entry(v) = Entry(u) => v = u
  /\ \A v \in Virt, d \in Directory : Entry(v) # Null => Entry(v) # mem[0][d]

MemType == mem \in [Frames -> [Words -> Word]]

\* While memory is set up, the page tables are a tree.
LEMMA TreeFromOwned ==
  ASSUME FramesOwned, up PROVE PageTree
<1> SUFFICES /\ \A d \in Directory : mem[0][d] # Null => mem[0][d] \in Tables
             /\ \A v \in Virt : Entry(v) # Null => v \in Mapped /\ Entry(v) \in OwnFrames
             /\ \A d \in Directory : mem[0][d] # Null => d \in Present
             /\ Null \notin OwnFrames
  <2> HIDE DEF Entry, Tables, OwnFrames, Mapped, Present
  <2> QED
    BY DEF FramesOwned, PageTree
<1> HIDE DEF Entry
<1> QED
  BY DEF Tables, Present, Mapped, OwnFrames

\* A tree of page tables has frames of its own.
LEMMA OwnedFromTree ==
  ASSUME PageTree' PROVE FramesOwned'
<1> QED
  BY DEF PageTree, FramesOwned, OwnFrames, Tables, Present, Mapped

\* The walk of directory and table.
LEMMA WalkFacts ==
  ASSUME MemType, PageTree, NEW v \in Virt
  PROVE  /\ mem[0][DirIndex(v)] = Null => Entry(v) = Null
         /\ mem[0][DirIndex(v)] # Null =>
              /\ mem[0][DirIndex(v)] \in Frames \ {0}
              /\ Entry(v) = mem[mem[0][DirIndex(v)]][TableIndex(v)]
<1> QED
  BY Constants, PageParts DEF PageTree, Entry, Frames

\* An area of one page table lies in that table.
LEMMA WalkInTable ==
  ASSUME MemType, PageTree, NEW v \in Virt, NEW i \in Nat, TableIndex(v) + i < TableEntries,
         mem[0][DirIndex(v)] # Null
  PROVE  /\ InMemory(mem[0][DirIndex(v)], TableIndex(v) + i)
         /\ WordAt(mem[0][DirIndex(v)], TableIndex(v) + i) = Entry(v + i)
         /\ v + i \in Virt
<1>1. /\ v + i \in Virt
      /\ DirIndex(v + i) = DirIndex(v) /\ TableIndex(v + i) = TableIndex(v) + i
      /\ TableIndex(v) + i \in Words
  BY NextInTable
<1>2. mem[0][DirIndex(v)] \in Frames
  BY WalkFacts
<1> DEFINE f == mem[0][DirIndex(v)]
           k == TableIndex(v) + i
<1>3. InMemory(f, k) /\ WordAt(f, k) = mem[f][k]
  BY <1>1, <1>2, InsideTable
<1>4. Entry(v + i) = mem[f][k]
  BY <1>1, WalkFacts
<1> QED
  BY <1>1, <1>3, <1>4

-----------------------------------------------------------------------------
\* Free frames.

\* find_free_physical_page finds a frame that is free.
LEMMA FreeFacts ==
  ASSUME NEW B, Cardinality(Free(B)) >= 1
  PROVE  First(Free(B)) \in Frames \ B
<1>1. Free(B) \subseteq Frames /\ Free(B) \subseteq Nat
  BY Constants DEF Free
<1>2. Free(B) # {}
  BY FS_EmptySet
<1>3. First(Free(B)) \in Free(B)
  BY <1>1, <1>2, FirstFacts
<1> QED
  BY <1>3 DEF Free

\* Of two free frames one is left when the other is taken.
LEMMA FreeAfterOne ==
  ASSUME NEW B, NEW x \in Frames \ B, Cardinality(Free(B)) >= 2
  PROVE  Cardinality(Free(B \cup {x})) >= 1
<1>1. IsFiniteSet(Free(B))
  BY Constants, FS_Subset DEF Free
<1>2. x \in Free(B) /\ Free(B \cup {x}) = Free(B) \ {x}
  BY DEF Free
<1>3. Cardinality(Free(B)) \in Nat
  BY <1>1, FS_CardinalityType
<1>4. Cardinality(Free(B) \ {x}) = Cardinality(Free(B)) - 1
  BY <1>1, <1>2, FS_RemoveElement
<1> QED
  BY <1>2, <1>3, <1>4

-----------------------------------------------------------------------------
\* The TLB and the page tables.

\* Every cached translation is that of a page that is mapped.
TlbGood ==
  /\ GoodTlb(tlb, Virt, Word)
  /\ \A p \in Pairs(tlb) : Entry(p.va) = p.pa /\ p.pa # Null

\* The invariants of the TLB, said of its pairs.
LEMMA TlbFromAgrees ==
  ASSUME TypeOK, TlbAgrees, TlbMapped PROVE TlbGood
<1>1. tlb \in TlbType(Virt, Word)
  BY DEF TypeOK, TlbType, Node
<1> QED
  BY <1>1 DEF TlbGood, GoodTlb, WellKept, Pairs, TlbAgrees, TlbMapped

\* What is cached is a page.
LEMMA CachedPages ==
  ASSUME NEW t, GoodTlb(t, Virt, Word)
  PROVE  /\ Cached(t) \subseteq Virt
         /\ \A p \in Pairs(t) : p.va \in Virt /\ p.va \in Cached(t) /\ p = [va |-> p.va, pa |-> p.pa]
<1>1. t.nodes \in Seq(Node(Virt, Word))
  BY DEF GoodTlb, TlbType
<1>2. \A i \in DOMAIN t.nodes : t.nodes[i] \in [va : Virt, pa : Word]
  <2> DEFINE s == t.nodes
             N == Node(Virt, Word)
  <2>1. N = [va : Virt, pa : Word]
    BY DEF Node
  <2>2. \A i \in DOMAIN s : s[i] \in N
    <3>1. s \in Seq(N)
      BY <1>1
    <3> HIDE DEF s, N
    <3> QED
      BY <3>1
  <2> QED
    BY <2>1, <2>2
<1>3. \A p \in Pairs(t) : p \in [va : Virt, pa : Word] /\ p.va \in Cached(t)
  BY <1>2 DEF Pairs, Cached
<1> QED
  BY <1>2, <1>3 DEF Cached

\* The pairs of the TLB, said as its invariants.
LEMMA AgreesFromTlb ==
  ASSUME TlbGood'
  PROVE  /\ TlbAgrees' /\ TlbMapped'
         /\ tlb' \in [nodes : Seq([va : Virt, pa : Word]), tail : Virt \cup {NoNode, Freed},
                      length : 0..TLB_ENTRIES]
<1>1. tlb' \in TlbType(Virt, Word) /\ WellKept(tlb')
  BY DEF TlbGood, GoodTlb
<1> QED
  BY <1>1 DEF TlbGood, WellKept, Pairs, TlbAgrees, TlbMapped, TlbType, Node


-----------------------------------------------------------------------------
\* t_malloc.

Table == TableOf(call.va, set_bit_at_index(phy_bitmap, call.frame))

\* What one round of t_malloc finds: a free frame in hand, and a frame for the page table that
\* is another one.
LEMMA MapPageFrames ==
  ASSUME TypeOK, PageTree, Mapping, MapPage
  PROVE  /\ call \in MapCall /\ up /\ call.frame \in Frames \ phy_bitmap
         /\ NoTable(call.va) => Table \in Frames \ (phy_bitmap \cup {call.frame})
         /\ ~NoTable(call.va) => Table = mem[0][DirIndex(call.va)] /\ Table \in phy_bitmap
         /\ Table \in Frames \ {0, call.frame}
         /\ phy_bitmap' = phy_bitmap \cup {call.frame, Table}
         /\ First(Free(phy_bitmap')) \in Frames \ phy_bitmap'
<1> DEFINE v == call.va
           B == phy_bitmap \cup {call.frame}
<1>1. call.pc = "map" /\ call \in MapCall /\ call.va \in Virt
  <2>1. call.pc = "map"
    BY DEF MapPage
  <2> QED
    BY <2>1 DEF TypeOK, Idle, Crash, Wild, Refuse, MapCall, UnmapCall, AccessCall, Ended
<1>2. up /\ call.frame \in Frames \ phy_bitmap
  BY <1>1 DEF Mapping, Free
<1>3. /\ ~RunsOut(v, B) /\ phy_bitmap' = WithTable(v, B) /\ Table = TableOf(v, B)
  BY DEF MapPage, set_bit_at_index, Table
<1>4. 0 \in phy_bitmap /\ phy_bitmap \subseteq Frames
  BY DEF PageTree, TypeOK
<1>5. Cardinality(Free(B)) \in Nat
  <2>1. IsFiniteSet(Free(B))
    BY Constants, FS_Subset DEF Free
  <2> QED
    BY <2>1, FS_CardinalityType
<1> HIDE DEF B
<1>6. CASE NoTable(v)
  <2>1. Cardinality(Free(B)) >= 2
    BY <1>3, <1>5, <1>6 DEF RunsOut, FramesTaken
  <2>2. Table = First(Free(B)) /\ Table \in Frames \ B
    BY <1>3, <1>5, <1>6, <2>1, FreeFacts DEF TableOf
  <2>3. phy_bitmap' = B \cup {Table}
    BY <1>3, <1>6 DEF WithTable, set_bit_at_index
  <2>4. First(Free(B \cup {Table})) \in Frames \ (B \cup {Table})
    BY <2>1, <2>2, FreeAfterOne, FreeFacts
  <2> QED
    BY <1>1, <1>2, <1>4, <1>6, <2>2, <2>3, <2>4 DEF B
<1>7. CASE ~NoTable(v)
  <2>1. Cardinality(Free(B)) >= 1
    BY <1>3, <1>5, <1>7 DEF RunsOut, FramesTaken
  <2>2. Table = mem[0][DirIndex(v)] /\ phy_bitmap' = B
    BY <1>3, <1>7 DEF WithTable, TableOf
  <2>3. Table \in phy_bitmap \ {0}
    BY <1>1, <1>7, <2>2, PageParts DEF NoTable, PageTree
  <2>4. First(Free(B)) \in Frames \ B
    BY <2>1, FreeFacts
  <2> QED
    BY <1>1, <1>2, <1>4, <1>7, <2>2, <2>3, <2>4 DEF B
<1> QED
  BY <1>6, <1>7

\* What page_map writes: the directory entry of the page's table, and the page's entry.
LEMMA MapPageMemory ==
  ASSUME TypeOK, PageTree, Mapping, MapPage
  PROVE  /\ MemType'
         /\ \A d \in Directory : mem'[0][d] = IF d = DirIndex(call.va) THEN Table ELSE mem[0][d]
         /\ mem'[Table][TableIndex(call.va)] =
              IF Entry(call.va) = Null THEN call.frame ELSE Entry(call.va)
         /\ \A w \in Words \ {TableIndex(call.va)} :
              mem'[Table][w] = IF NoTable(call.va) THEN Null ELSE mem[Table][w]
         /\ \A g \in Frames \ {0, Table} : mem'[g] = mem[g]
<1> DEFINE v == call.va
           d == DirIndex(v)
           w == TableIndex(v)
           f == Table
           x == call.frame
           m == IF NoTable(v) THEN [mem EXCEPT ![0][d] = f, ![f] = Zeroed] ELSE mem
<1>1. /\ v \in Virt /\ x \in Frames
      /\ f \in Frames \ {0}
      /\ ~NoTable(v) => f = mem[0][d]
  BY MapPageFrames DEF MapCall
<1>2. d \in Directory /\ d \in Words /\ w \in Words /\ Directory \subseteq Words
  <2>1. d \in Directory /\ d \in Words /\ w \in Words
    BY <1>1, PageParts
  <2> HIDE DEF d, w
  <2> QED
    BY <2>1, Constants DEF Directory, Words
<1>3. 0 \in Frames /\ Frames \subseteq Word /\ Null \in Word /\ mem \in [Frames -> [Words -> Word]]
  BY Constants DEF TypeOK
<1>4. mem' = [m EXCEPT ![f][w] = IF @ = Null THEN x ELSE @]
  BY DEF MapPage, page_map, set_bit_at_index, Table
<1>5. Zeroed \in [Words -> Word] /\ \A u \in Words : Zeroed[u] = Null
  BY <1>3 DEF Zeroed
<1>6. NoTable(v) <=> mem[0][d] = Null
  BY DEF NoTable
<1>7. /\ mem[0][d] = Null => Entry(v) = Null
      /\ mem[0][d] # Null => Entry(v) = mem[f][w]
  BY <1>1, <1>6, WalkFacts DEF TypeOK, MemType
<1> HIDE DEF v, d, w, f, x
<1>8. m \in [Frames -> [Words -> Word]]
  BY <1>1, <1>2, <1>3, <1>5
<1>9. CASE NoTable(v)
  <2>1. m = [mem EXCEPT ![0][d] = f, ![f] = Zeroed]
    BY <1>9
  <2>2. m[f] = Zeroed /\ m[0] = [mem[0] EXCEPT ![d] = f] /\ \A g \in Frames \ {0, f} : m[g] = mem[g]
    BY <1>1, <1>3, <2>1
  <2> HIDE DEF m
  <2>3. mem' = [m EXCEPT ![f] = [m[f] EXCEPT ![w] = x]]
    BY <1>1, <1>2, <1>4, <1>5, <1>8, <2>2
  <2> QED
    BY <1>1, <1>2, <1>3, <1>5, <1>6, <1>7, <1>8, <1>9, <2>2, <2>3 DEF MemType, v, d, w, f, x
<1>10. CASE ~NoTable(v)
  <2>1. mem' = [mem EXCEPT ![f][w] = IF @ = Null THEN x ELSE @]
    BY <1>4, <1>10
  <2> QED
    BY <1>1, <1>2, <1>3, <1>6, <1>7, <1>10, <2>1 DEF MemType, v, d, w, f, x
<1> QED
  BY <1>9, <1>10

\* One round of t_malloc maps one page, and only if it was not mapped.
LEMMA MapPageEntries ==
  ASSUME TypeOK, PageTree, Mapping, MapPage, NEW u \in Virt
  PROVE  Entry(u)' = IF u = call.va /\ Entry(u) = Null THEN call.frame ELSE Entry(u)
<1> DEFINE v == call.va
<1>1. /\ v \in Virt /\ call.frame \in Frames
      /\ Table \in Frames \ {0, call.frame}
      /\ NoTable(v) => Table \notin phy_bitmap
      /\ ~NoTable(v) => Table = mem[0][DirIndex(v)]
  BY MapPageFrames DEF MapCall
<1>2. /\ DirIndex(v) \in Directory /\ TableIndex(v) \in Words
      /\ DirIndex(u) \in Directory /\ TableIndex(u) \in Words
      /\ (DirIndex(u) = DirIndex(v) /\ TableIndex(u) = TableIndex(v)) => u = v
  BY <1>1, PageParts
<1>3. MemType
  BY DEF TypeOK, MemType
<1>4. Null \notin Frames
  BY Constants
<1>5. Entry(u)' = IF mem'[0][DirIndex(u)] \in Frames
                  THEN mem'[mem'[0][DirIndex(u)]][TableIndex(u)] ELSE mem'[0][DirIndex(u)]
  BY DEF Entry
<1>6. NoTable(v) <=> mem[0][DirIndex(v)] = Null
  BY DEF NoTable
<1>7. CASE DirIndex(u) = DirIndex(v)
  <2>1. Entry(u)' = mem'[Table][TableIndex(u)]
    BY <1>1, <1>2, <1>5, <1>7, MapPageMemory
  <2>2. CASE u = v
    BY <2>1, <2>2, MapPageMemory
  <2>3. CASE u # v
    <3>1. Entry(u)' = IF NoTable(v) THEN Null ELSE mem[Table][TableIndex(u)]
      BY <1>2, <1>7, <2>1, <2>3, MapPageMemory
    <3>2. Entry(u) = IF NoTable(v) THEN Null ELSE mem[Table][TableIndex(u)]
      BY <1>1, <1>3, <1>6, <1>7, WalkFacts
    <3> QED
      BY <2>3, <3>1, <3>2
  <2> QED
    BY <2>2, <2>3
<1>8. CASE DirIndex(u) # DirIndex(v)
  <2>1. mem'[0][DirIndex(u)] = mem[0][DirIndex(u)]
    BY <1>2, <1>8, MapPageMemory
  <2>2. CASE mem[0][DirIndex(u)] = Null
    BY <1>3, <1>4, <1>5, <1>8, <2>1, <2>2, WalkFacts
  <2>3. CASE mem[0][DirIndex(u)] # Null
    <3>1. mem[0][DirIndex(u)] \in Frames \ {0} /\ Entry(u) = mem[mem[0][DirIndex(u)]][TableIndex(u)]
      BY <1>3, <2>3, WalkFacts
    <3>2. mem[0][DirIndex(u)] # Table
      BY <1>1, <1>2, <1>6, <1>8, <2>3 DEF PageTree
    <3>3. mem'[mem[0][DirIndex(u)]] = mem[mem[0][DirIndex(u)]]
      BY <3>1, <3>2, MapPageMemory
    <3> QED
      BY <1>5, <1>8, <2>1, <3>1, <3>3
  <2> QED
    BY <2>2, <2>3
<1> QED
  BY <1>7, <1>8

\* One round of t_malloc keeps the page tables apart.
LEMMA MapPageTree ==
  ASSUME TypeOK, PageTree, FreeFramesZero, Mapping, MapPage
  PROVE  PageTree' /\ FreeFramesZero'
<1> DEFINE v == call.va
           x == call.frame
<1>1. /\ v \in Virt /\ up /\ x \in Frames \ phy_bitmap
      /\ NoTable(v) => Table \in Frames \ (phy_bitmap \cup {x})
      /\ ~NoTable(v) => Table = mem[0][DirIndex(v)]
      /\ Table \in Frames \ {0, x}
      /\ phy_bitmap' = phy_bitmap \cup {x, Table}
  BY MapPageFrames DEF MapCall
<1>2. DirIndex(v) \in Directory /\ (NoTable(v) <=> mem[0][DirIndex(v)] = Null)
  BY <1>1, PageParts DEF NoTable
<1>3. \A d \in Directory : mem'[0][d] = IF d = DirIndex(v) THEN Table ELSE mem[0][d]
  BY MapPageMemory
<1>4. \A u \in Virt : Entry(u)' = IF u = v /\ Entry(u) = Null THEN x ELSE Entry(u)
  BY MapPageEntries
<1>5. Null \notin Frames /\ phy_bitmap \subseteq Frames
  BY Constants DEF TypeOK
<1>6. PageTree'
  <2> HIDE DEF v, x
  <2>1. 0 \in phy_bitmap'
    BY <1>1 DEF PageTree
  <2>2. \A d \in Directory : mem'[0][d] # Null => mem'[0][d] \in phy_bitmap' \ {0}
    BY <1>1, <1>3 DEF PageTree
  <2>3. \A d, e \in Directory : mem'[0][d] # Null /\ mem'[0][d] = mem'[0][e] => d = e
    BY <1>1, <1>2, <1>3 DEF PageTree
  <2>4. \A u \in Virt : Entry(u)' # Null => Entry(u)' \in phy_bitmap' \ {0}
    BY <1>1, <1>4 DEF PageTree
  <2>5. \A u, z \in Virt : Entry(u)' # Null /\ Entry(u)' = Entry(z)' => u = z
    BY <1>1, <1>4 DEF PageTree
  <2>6. \A u \in Virt, d \in Directory : Entry(u)' # Null => Entry(u)' # mem'[0][d]
    BY <1>1, <1>2, <1>3, <1>4 DEF PageTree
  <2> QED
    BY <2>1, <2>2, <2>3, <2>4, <2>5, <2>6 DEF PageTree
<1>7. FreeFramesZero'
  <2>1. \A g \in Frames \ {0, Table} : mem'[g] = mem[g]
    BY MapPageMemory
  <2>2. 0 \in phy_bitmap
    BY DEF PageTree
  <2> HIDE DEF v, x
  <2> QED
    BY <1>1, <1>5, <2>1, <2>2 DEF FreeFramesZero, Free
<1> QED
  BY <1>6, <1>7

\* The call after one round of t_malloc: it goes on with the next page, or returns.
LEMMA MapPageCall ==
  ASSUME TypeOK, PageTree, MappedMarked, Mapping, MapPage
  PROVE  /\ call' \in MapCall \cup Ended
         /\ Mapping' /\ MallocMapsArea'
         /\ virt_bitmap' \subseteq Virt /\ MappedMarked'
         /\ call'.pc \in {"map", "ret"}
<1> DEFINE v == call.va
           i == call.i
           n == call.n
           s == call.start
           x == First(Free(phy_bitmap'))
<1>1. /\ call \in MapCall /\ up /\ v \in Virt /\ call.pc = "map" /\ call.op = "t_malloc"
      /\ i \in 0..(MaxPages - 1) /\ n \in 1..MaxPages /\ s \in Virt /\ call.found \in BOOLEAN
      /\ call.frame \in Frames
  BY MapPageFrames DEF MapCall
<1>2. /\ i < n /\ MaxPages \in Nat /\ Virt \subseteq Nat /\ up' = up
      /\ call.found => /\ v = s + i
                       /\ \A j \in i..(n - 1) : s + j \in Virt \ virt_bitmap
                       /\ \A j \in 0..(i - 1) : s + j \in Mapped
  BY <1>1, Constants DEF Mapping, MapPage
<1>3. x \in Frames \ phy_bitmap'
  BY MapPageFrames
<1>4. /\ virt_bitmap' = virt_bitmap \cup {v}
      /\ virt_bitmap \subseteq Virt
  BY DEF MapPage, set_bit_at_index, TypeOK
<1>5. \A u \in Virt : Entry(u)' = IF u = v /\ Entry(u) = Null THEN call.frame ELSE Entry(u)
  BY MapPageEntries
<1>6. Null \notin Frames
  BY Constants
<1>7. Mapped' = Mapped \cup {v}
  BY <1>1, <1>5, <1>6 DEF Mapped
<1>8. virt_bitmap' \subseteq Virt /\ MappedMarked'
  BY <1>1, <1>4, <1>7 DEF MappedMarked
<1>9. CASE i = n - 1
  <2>1. call' = [pc |-> "ret", op |-> "t_malloc", start |-> s, n |-> n, found |-> call.found]
    BY <1>9 DEF MapPage
  <2>2. call' \in Ended /\ call'.pc = "ret" /\ call'.found = call.found
        /\ call'.start = s /\ call'.n = n
    BY <1>1, <2>1 DEF Ended
  <2>3. Mapping'
    BY <2>2 DEF Mapping
  <2>4. ASSUME call.found PROVE Area(s, n) \subseteq Mapped'
    <3>1. \A j \in 0..(n - 1) : j \in 0..(i - 1) \/ j = i
      BY <1>1, <1>9
    <3>2. \A j \in 0..(n - 1) : s + j \in Mapped'
      BY <1>2, <1>7, <2>4, <3>1
    <3> QED
      BY <3>2 DEF Area
  <2>5. MallocMapsArea'
    BY <2>2, <2>4 DEF MallocMapsArea
  <2> QED
    BY <1>8, <2>2, <2>3, <2>5
<1>10. CASE i # n - 1
  <2>1. call' = [call EXCEPT !.va = get_next_page(v), !.i = i + 1, !.frame = x]
    <3>1. phy_bitmap' = WithTable(call.va, set_bit_at_index(phy_bitmap, call.frame))
      BY DEF MapPage
    <3> QED
      BY <1>10, <3>1, Zenon DEF MapPage
  <2>2. call = [pc |-> "map", op |-> "t_malloc", start |-> s, n |-> n, found |-> call.found,
                va |-> v, i |-> i, frame |-> call.frame]
    BY <1>1 DEF MapCall
  <2> DEFINE z == get_next_page(v)
  <2>3. z \in Virt
    BY <1>1, NextPage
  <2>4. ASSUME v + 1 \in Virt PROVE z = v + 1
    BY <1>1, <2>4, NextPage
  <2> HIDE DEF x, v, i, n, s, z
  <2>5. call' = [pc |-> "map", op |-> "t_malloc", start |-> s, n |-> n, found |-> call.found,
                va |-> z, i |-> i + 1, frame |-> x]
    <3> DEFINE c1 == [call EXCEPT !.va = z]
               c2 == [c1 EXCEPT !.i = i + 1]
    <3>1. c1 = [pc |-> "map", op |-> "t_malloc", start |-> s, n |-> n, found |-> call.found,
                va |-> z, i |-> i, frame |-> call.frame]
      BY <2>2
    <3>2. c2 = [pc |-> "map", op |-> "t_malloc", start |-> s, n |-> n, found |-> call.found,
                va |-> z, i |-> i + 1, frame |-> call.frame]
      <4> HIDE DEF c1
      <4> QED
        BY <3>1
    <3>3. call' = [c2 EXCEPT !.frame = x]
      BY <2>1, Zenon DEF v, i, x, z
    <3> HIDE DEF c2
    <3> QED
      BY <3>2, <3>3
  <2>6. call' \in MapCall
    BY <1>1, <1>2, <1>3, <1>10, <2>3, <2>5 DEF MapCall
  <2>7. /\ call'.pc = "map" /\ call'.op = "t_malloc" /\ call'.start = s /\ call'.n = n
        /\ call'.found = call.found /\ call'.va = z /\ call'.i = i + 1 /\ call'.frame = x
    BY <2>5
  <2>8. ASSUME call.found
        PROVE  /\ z = s + (i + 1)
               /\ \A j \in (i + 1)..(n - 1) : s + j \in Virt \ virt_bitmap'
               /\ \A j \in 0..i : s + j \in Mapped'
    <3>1. s \in Nat /\ i \in Nat /\ n \in Nat
      BY <1>1, <1>2
    <3>2. s + (i + 1) \in Virt /\ v = s + i
      BY <1>1, <1>2, <1>10, <2>8, <3>1
    <3>3. z = s + (i + 1)
      BY <2>4, <3>1, <3>2
    <3>4. \A j \in (i + 1)..(n - 1) : s + j \in Virt \ virt_bitmap'
      BY <1>1, <1>2, <1>4, <2>8, <3>1, <3>2
    <3>5. \A j \in 0..i : s + j \in Mapped'
      <4> TAKE j \in 0..i
      <4>1. j \in 0..(i - 1) \/ j = i
        BY <3>1
      <4> QED
        BY <1>2, <1>7, <2>8, <4>1
    <3> QED
      BY <3>3, <3>4, <3>5
  <2>9. Mapping'
    <3>1. i + 1 < n /\ i + 1 - 1 = i
      BY <1>1, <1>2, <1>10
    <3> QED
      BY <1>1, <1>2, <1>3, <2>7, <2>8, <3>1 DEF Mapping, Free
  <2>10. MallocMapsArea'
    <3>1. ASSUME call.found PROVE z \notin Mapped'
      <4>1. i + 1 \in (i + 1)..(n - 1) /\ s \in Nat
        BY <1>1, <1>2, <1>10
      <4>2. z \notin virt_bitmap'
        BY <2>8, <3>1, <4>1
      <4> QED
        BY <1>8, <4>2 DEF MappedMarked
    <3> QED
      BY <2>7, <3>1 DEF MallocMapsArea
  <2> QED
    BY <1>8, <2>6, <2>7, <2>9, <2>10
<1> QED
  BY <1>9, <1>10

\* One round of t_malloc keeps the invariant.
LEMMA MapPageInv ==
  ASSUME IInv, MapPage PROVE IInv'
<1>1. /\ TypeOK /\ FramesOwned /\ FreeFramesZero /\ TlbAgrees /\ TlbMapped /\ MappedMarked
      /\ Mapping
  BY DEF IInv
<1>2. call.pc = "map" /\ up /\ up' = up /\ lock' = lock /\ tlb' = tlb
  BY <1>1 DEF MapPage, Mapping
<1>3. PageTree
  BY <1>1, <1>2, TreeFromOwned
<1>4. FramesOwned' /\ FreeFramesZero'
  BY <1>1, <1>3, MapPageTree, OwnedFromTree
<1>5. TlbGood'
  <2>1. TlbGood
    BY <1>1, TlbFromAgrees
  <2>2. \A p \in Pairs(tlb) : p.va \in Virt /\ Entry(p.va) = p.pa /\ p.pa # Null
    BY <2>1, CachedPages DEF TlbGood
  <2>3. \A p \in Pairs(tlb) : Entry(p.va)' = p.pa
    BY <1>1, <1>3, <2>2, MapPageEntries
  <2> QED
    BY <1>2, <2>1, <2>2, <2>3 DEF TlbGood
<1>6. /\ call' \in MapCall \cup Ended /\ call'.pc \in {"map", "ret"}
      /\ Mapping' /\ MallocMapsArea' /\ virt_bitmap' \subseteq Virt /\ MappedMarked'
  BY <1>1, <1>3, MapPageCall
<1>7. MemType' /\ phy_bitmap' \subseteq Frames
  BY <1>1, <1>3, MapPageMemory, MapPageFrames DEF TypeOK
<1>8. TypeOK'
  BY <1>1, <1>2, <1>5, <1>6, <1>7, AgreesFromTlb DEF TypeOK, MemType
<1>9. Fresh' /\ Unmapping' /\ Accessing' /\ NoWildPointer'
  BY <1>2, <1>6 DEF Fresh, Unmapping, Accessing, NoWildPointer
<1> QED
  BY <1>4, <1>5, <1>6, <1>8, <1>9, AgreesFromTlb DEF IInv

\* Where memory, bitmaps and TLB stay as they are, so do the invariants about them.
LEMMA SameMemory ==
  ASSUME IInv, UNCHANGED <<up, phy_bitmap, virt_bitmap, mem, tlb>>,
         lock' \in BOOLEAN, up \/ call' \in {Idle, Refuse},
         call' \in {Crash, Wild, Refuse, Idle} \cup MapCall \cup UnmapCall \cup AccessCall \cup Ended
  PROVE  /\ TypeOK' /\ FramesOwned' /\ FreeFramesZero' /\ TlbAgrees' /\ Fresh' /\ TlbMapped'
         /\ MappedMarked'
<1>1. /\ TypeOK /\ FramesOwned /\ FreeFramesZero /\ TlbAgrees /\ Fresh /\ TlbMapped /\ MappedMarked
  BY DEF IInv
<1>2. TypeOK'
  BY <1>1 DEF TypeOK
<1>3. Mapped' = Mapped /\ \A v : Entry(v)' = Entry(v)
  BY DEF Mapped, Entry
<1>4. FramesOwned' /\ FreeFramesZero'
  BY <1>1, <1>3 DEF FramesOwned, FreeFramesZero, OwnFrames, Tables, Present
<1>5. TlbAgrees' /\ TlbMapped' /\ MappedMarked' /\ Fresh'
  BY <1>1, <1>3 DEF TlbAgrees, TlbMapped, MappedMarked, Fresh
<1> QED
  BY <1>2, <1>4, <1>5

\* The end of physical memory.
LEMMA MapPageCrashInv ==
  ASSUME IInv, MapPageCrash PROVE IInv'
<1>1. call.pc = "map" /\ call' = Crash /\ up
  BY DEF MapPageCrash, IInv, Mapping
<1>2. lock' \in BOOLEAN /\ UNCHANGED <<up, phy_bitmap, virt_bitmap, mem, tlb>>
  BY DEF MapPageCrash, IInv, TypeOK
<1>3. /\ TypeOK' /\ FramesOwned' /\ FreeFramesZero' /\ TlbAgrees' /\ Fresh' /\ TlbMapped'
      /\ MappedMarked'
  BY <1>1, <1>2, SameMemory
<1>4. call'.pc = "crash"
  BY <1>1 DEF Crash
<1>5. Mapping' /\ Unmapping' /\ Accessing' /\ NoWildPointer' /\ MallocMapsArea'
  BY <1>4 DEF Mapping, Unmapping, Accessing, NoWildPointer, MallocMapsArea
<1> QED
  BY <1>3, <1>5 DEF IInv

\* A call that returns.
LEMMA ReturnInv ==
  ASSUME IInv, Return PROVE IInv'
<1>1. call.pc = "ret" /\ call' = Idle /\ lock' = FALSE
      /\ UNCHANGED <<up, phy_bitmap, virt_bitmap, mem, tlb>>
  BY DEF Return
<1>2. /\ TypeOK' /\ FramesOwned' /\ FreeFramesZero' /\ TlbAgrees' /\ Fresh' /\ TlbMapped'
      /\ MappedMarked'
  BY <1>1, SameMemory
<1>3. call'.pc = "idle"
  BY <1>1 DEF Idle
<1>4. Mapping' /\ Unmapping' /\ Accessing' /\ NoWildPointer' /\ MallocMapsArea'
  BY <1>3 DEF Mapping, Unmapping, Accessing, NoWildPointer, MallocMapsArea
<1> QED
  BY <1>2, <1>4 DEF IInv

\* A call that is refused, also because memory is not set up.
LEMMA RefusedInv ==
  ASSUME IInv, call' = Refuse, lock' = TRUE, UNCHANGED <<up, phy_bitmap, virt_bitmap, mem, tlb>>
  PROVE  IInv'
<1>1. /\ TypeOK' /\ FramesOwned' /\ FreeFramesZero' /\ TlbAgrees' /\ Fresh' /\ TlbMapped'
      /\ MappedMarked'
  BY SameMemory
<1>2. call'.pc = "ret" /\ call'.op = "refused"
  BY DEF Refuse
<1>3. Mapping' /\ Unmapping' /\ Accessing' /\ NoWildPointer' /\ MallocMapsArea'
  BY <1>2 DEF Mapping, Unmapping, Accessing, NoWildPointer, MallocMapsArea
<1> QED
  BY <1>1, <1>3 DEF IInv

\* t_malloc: memory is set up once, and the area found has pages that are not in use.
LEMMA TMallocInv ==
  ASSUME IInv, NEW n \in 1..MaxPages, TMalloc(n) PROVE IInv'
<1> DEFINE found == Starts(n) # {}
           start == IF found THEN First(Starts(n)) ELSE 0
           x == First(Free(phy_bitmap'))
           map == [pc |-> "map", op |-> "t_malloc", start |-> start, n |-> n, found |-> found,
                   va |-> start, i |-> 0, frame |-> x]
<1>1. /\ up' = TRUE /\ lock' = TRUE /\ phy_bitmap' = IF up THEN phy_bitmap ELSE {0}
      /\ UNCHANGED <<virt_bitmap, mem, tlb>>
      /\ call' = IF Cardinality(Free(phy_bitmap')) < n THEN Refuse ELSE map
  BY DEF TMalloc
<1>2. n \in Nat /\ n >= 1 /\ MaxPages \in Nat \ {0} /\ Virt \subseteq Nat /\ 0 \in Virt /\ 0 \in Frames
  BY Constants
<1>3. /\ start \in Virt
      /\ found => \A k \in 0..(n - 1) : start + k \in Virt \ virt_bitmap
  <2>1. Starts(n) \subseteq Virt /\ Starts(n) \subseteq Nat
    BY <1>2 DEF Starts
  <2>2. CASE found
    <3>1. start \in Starts(n)
      BY <2>1, <2>2, FirstFacts
    <3> HIDE DEF start
    <3> QED
      BY <3>1 DEF Starts
  <2> QED
    BY <1>2, <2>2
<1>4. call' # Refuse => x \in Frames \ phy_bitmap' /\ call' = map
  <2> SUFFICES ASSUME ~(Cardinality(Free(phy_bitmap')) < n)
               PROVE  x \in Frames \ phy_bitmap'
    BY <1>1
  <2>1. phy_bitmap' \subseteq Frames
    BY <1>1, <1>2 DEF IInv, TypeOK
  <2>2. IsFiniteSet(Free(phy_bitmap'))
    BY Constants, FS_Subset DEF Free
  <2>3. Cardinality(Free(phy_bitmap')) \in Nat
    BY <2>2, FS_CardinalityType
  <2>4. Cardinality(Free(phy_bitmap')) >= 1
    BY <1>2, <2>3
  <2> QED
    BY <2>4, FreeFacts
<1>5. Mapped' = Mapped /\ \A v : Entry(v)' = Entry(v)
  BY <1>1 DEF Mapped, Entry
<1>6. MappedMarked /\ MappedMarked'
  BY <1>1, <1>5 DEF IInv, MappedMarked
<1> HIDE DEF found, start, x
<1>7. x \in Frames => map \in MapCall
  BY <1>2, <1>3 DEF MapCall, found
<1>8. call' \in {Crash, Wild, Refuse, Idle} \cup MapCall \cup UnmapCall \cup AccessCall \cup Ended
  BY <1>4, <1>7
<1>9. /\ TypeOK' /\ FramesOwned' /\ FreeFramesZero' /\ TlbAgrees' /\ Fresh' /\ TlbMapped'
      /\ MappedMarked'
  <2>1. CASE up
    BY <1>1, <1>8, <2>1, SameMemory
  <2>2. CASE ~up
    <3>1. mem = [f \in Frames |-> Zeroed] /\ tlb = EmptyTlb /\ virt_bitmap = {}
      BY <2>2 DEF IInv, Fresh
    <3>2. \A v \in Virt : mem[0][DirIndex(v)] = Null
      BY <1>2, <3>1, PageParts DEF Zeroed
    <3>3. \A v \in Virt : Entry(v) = Null
      <4> TAKE v \in Virt
      <4>1. mem[0][DirIndex(v)] = Null
        BY <3>2
      <4> QED
        BY <4>1, Constants DEF Entry
    <3>4. \A d \in Directory : mem[0][d] = Null
      BY Constants, <3>1 DEF Directory, Words, Zeroed
    <3>5. FramesOwned'
      <4>1. PageTree'
        BY <1>1, <1>5, <2>2, <3>3, <3>4 DEF PageTree
      <4> QED
        BY <4>1, OwnedFromTree
    <3>6. FreeFramesZero'
      BY <1>1, <3>1 DEF FreeFramesZero, Free
    <3>7. TlbAgrees' /\ TlbMapped'
      <4>1. tlb'.nodes = <<>> /\ tlb'.length = 0 /\ TLB_ENTRIES \in Nat \ {0}
        BY <1>1, <3>1, TlbAssumption DEF EmptyTlb
      <4> QED
        BY <4>1 DEF TlbAgrees, TlbMapped
    <3>8. TypeOK'
      BY <1>1, <1>2, <1>8, <2>2 DEF IInv, TypeOK
    <3> QED
      BY <1>1, <1>6, <3>5, <3>6, <3>7, <3>8 DEF Fresh
  <2> QED
    BY <2>1, <2>2
<1>10. CASE call' = Refuse
  <2>1. call'.pc = "ret" /\ call'.op = "refused"
    BY <1>10 DEF Refuse
  <2>2. Mapping' /\ Unmapping' /\ Accessing' /\ NoWildPointer' /\ MallocMapsArea'
    BY <2>1 DEF Mapping, Unmapping, Accessing, NoWildPointer, MallocMapsArea
  <2> QED
    BY <1>9, <2>2 DEF IInv
<1>11. CASE call' # Refuse
  <2>1. /\ call'.pc = "map" /\ call'.start = start /\ call'.n = n /\ call'.found = found
        /\ call'.va = start /\ call'.i = 0 /\ call'.frame = x /\ x \in Frames \ phy_bitmap'
    BY <1>4, <1>11
  <2>2. Mapping'
    <3>1. \A j \in 0..(0 - 1) : FALSE
      OBVIOUS
    <3>2. start = start + 0 /\ 0 < n
      BY <1>2, <1>3
    <3> QED
      BY <1>1, <1>3, <2>1, <3>1, <3>2 DEF Mapping, Free
  <2>3. MallocMapsArea'
    <3>1. ASSUME found PROVE start \notin Mapped'
      <4>1. 0 \in 0..(n - 1) /\ start + 0 = start
        BY <1>2, <1>3
      <4> QED
        BY <1>3, <1>5, <1>6, <3>1, <4>1 DEF MappedMarked
    <3> QED
      BY <2>1, <3>1 DEF MallocMapsArea
  <2>4. Unmapping' /\ Accessing' /\ NoWildPointer'
    BY <2>1 DEF Unmapping, Accessing, NoWildPointer
  <2> QED
    BY <1>9, <2>2, <2>3, <2>4 DEF IInv
<1> QED
  BY <1>10, <1>11

-----------------------------------------------------------------------------
\* t_free.

\* t_free starts to unmap only an area all of whose pages are mapped.
LEMMA TFreeInv ==
  ASSUME IInv, ~FreesScattered, NEW n \in 1..MaxPages, NEW v \in Virt, TFree(v, n) PROVE IInv'
<1> DEFINE f == mem[0][DirIndex(v)]
           w == TableIndex(v)
           last == w + n - 1
           unmap == [pc |-> "unmap", op |-> "t_free", va |-> v, n |-> n, i |-> 0,
                     frame |-> WordAt(f, w)]
<1>0. /\ Regular(v, n) /\ lock' = TRUE
      /\ call' = IF ~up \/ f = Null THEN Refuse
                 ELSE IF ~InMemory(f, last) THEN Wild
                 ELSE IF Holes(f, w, last) # {} THEN Refuse
                 ELSE unmap
      /\ UNCHANGED <<up, phy_bitmap, virt_bitmap, mem, tlb>>
  BY DEF TFree
<1> SUFFICES ASSUME up PROVE IInv'
  BY <1>0, RefusedInv
<1>1. /\ up /\ Regular(v, n) /\ lock' = TRUE
      /\ call' = IF f = Null THEN Refuse
                 ELSE IF ~InMemory(f, last) THEN Wild
                 ELSE IF Holes(f, w, last) # {} THEN Refuse
                 ELSE unmap
      /\ UNCHANGED <<up, phy_bitmap, virt_bitmap, mem, tlb>>
  BY <1>0
<1>2. /\ TypeOK /\ PageTree /\ MemType
  BY <1>1, TreeFromOwned DEF IInv, TypeOK, MemType
<1>3. /\ n \in Nat /\ n >= 1 /\ MaxPages \in Nat \ {0} /\ TableEntries \in Nat \ {0}
      /\ w \in Nat /\ w + n <= TableEntries
      /\ \A i \in 0..(n - 1) : {v, v + i} \subseteq Mapped => Entry(v + i) = Entry(v) + i
  BY <1>1, Constants, PageParts DEF Regular, Words
<1>4. f # Null => \A i \in 0..(n - 1) :
        InMemory(f, w + i) /\ WordAt(f, w + i) = Entry(v + i) /\ v + i \in Virt
  <2> SUFFICES ASSUME f # Null, NEW i \in 0..(n - 1)
               PROVE  InMemory(f, w + i) /\ WordAt(f, w + i) = Entry(v + i) /\ v + i \in Virt
    OBVIOUS
  <2>1. i \in Nat /\ w + i < TableEntries
    BY <1>3
  <2> QED
    BY <1>2, <2>1, WalkInTable
<1> HIDE DEF f, w
<1>5. f # Null => InMemory(f, last)
  <2>1. n - 1 \in 0..(n - 1) /\ w + (n - 1) = last
    BY <1>3
  <2> QED
    BY <1>4, <2>1
<1>6. f # Null /\ Holes(f, w, last) = {} =>
        /\ \A i \in 0..(n - 1) : v + i \in Mapped /\ Entry(v + i) = Entry(v) + i
        /\ WordAt(f, w) = Entry(v) /\ Entry(v) \in Frames
  <2> SUFFICES ASSUME f # Null, Holes(f, w, last) = {}
               PROVE  /\ \A i \in 0..(n - 1) : v + i \in Mapped /\ Entry(v + i) = Entry(v) + i
                      /\ WordAt(f, w) = Entry(v) /\ Entry(v) \in Frames
    OBVIOUS
  <2>1. \A k \in w..last : WordAt(f, k) # Null
    BY DEF Holes
  <2>2. \A i \in 0..(n - 1) : v + i \in Mapped
    <3> TAKE i \in 0..(n - 1)
    <3>1. w + i \in w..last
      BY <1>3
    <3>2. Entry(v + i) # Null /\ v + i \in Virt
      BY <1>4, <2>1, <3>1
    <3> QED
      BY <3>2 DEF Mapped
  <2>3. 0 \in 0..(n - 1) /\ v + 0 = v /\ w + 0 = w
    BY <1>3, Constants
  <2>4. v \in Mapped /\ WordAt(f, w) = Entry(v)
    BY <1>4, <2>2, <2>3
  <2>5. Entry(v) \in Frames
    BY <1>2, <2>4 DEF PageTree, Mapped, TypeOK
  <2> QED
    BY <1>3, <2>2, <2>4, <2>5
<1>7. \/ call' = Refuse
      \/ /\ call' = unmap /\ unmap \in UnmapCall
         /\ \A i \in 0..(n - 1) : v + i \in Mapped /\ Entry(v + i) = WordAt(f, w) + i
  <2> SUFFICES ASSUME call' # Refuse
               PROVE  /\ call' = unmap /\ unmap \in UnmapCall
                      /\ \A i \in 0..(n - 1) : v + i \in Mapped /\ Entry(v + i) = WordAt(f, w) + i
    OBVIOUS
  <2>1. f # Null /\ Holes(f, w, last) = {} /\ call' = unmap
    BY <1>1, <1>5
  <2>2. WordAt(f, w) \in Frames
    BY <1>6, <2>1
  <2>3. unmap \in UnmapCall
    BY <1>3, <2>2 DEF UnmapCall
  <2> QED
    BY <1>6, <2>1, <2>3
<1> HIDE DEF unmap
<1>8. /\ TypeOK' /\ FramesOwned' /\ FreeFramesZero' /\ TlbAgrees' /\ Fresh' /\ TlbMapped'
      /\ MappedMarked'
  BY <1>1, <1>7, SameMemory
<1>9. CASE call' = Refuse
  BY <1>1, <1>9, RefusedInv
<1>10. CASE call' # Refuse
  <2>1. /\ call'.pc = "unmap" /\ call'.va = v /\ call'.n = n /\ call'.i = 0
        /\ call'.frame = WordAt(f, w)
    BY <1>7, <1>10 DEF unmap
  <2>2. Mapped' = Mapped /\ \A u : Entry(u)' = Entry(u)
    BY <1>1 DEF Mapped, Entry
  <2>3. /\ TableIndex(v) + n <= TableEntries /\ 0 < n
        /\ \A i \in 0..(n - 1) : v + i \in Mapped /\ Entry(v + i) = WordAt(f, w) + i
    BY <1>3, <1>7, <1>10 DEF w
  <2>4. Unmapping'
    BY <1>1, <2>1, <2>2, <2>3 DEF Unmapping
  <2>5. Mapping' /\ Accessing' /\ NoWildPointer' /\ MallocMapsArea'
    BY <2>1 DEF Mapping, Accessing, NoWildPointer, MallocMapsArea
  <2> QED
    BY <1>8, <2>4, <2>5 DEF IInv
<1> QED
  BY <1>9, <1>10

\* One round of t_free: the frame that is zeroed is the page's own, and so is the entry.
LEMMA UnmapPageMemory ==
  ASSUME TypeOK, PageTree, Unmapping, UnmapPage
  PROVE  LET z == call.va + call.i
         IN  /\ call \in UnmapCall /\ z \in Mapped
             /\ Entry(z) = call.frame + call.i /\ Entry(z) \in phy_bitmap \ {0}
             /\ MemType'
             /\ mem'[0] = mem[0]
             /\ mem'[Entry(z)] = Zeroed
             /\ \A u \in Virt : Entry(u)' = IF u = z THEN Null ELSE Entry(u)
             /\ \A g \in Frames \ phy_bitmap : mem'[g] = mem[g]
             /\ \A u \in Mapped \ {z} : mem'[Entry(u)] = mem[Entry(u)]
             /\ tlb' = delete_from_tlb(tlb, z)
             /\ phy_bitmap' = unset_bit_at_index(phy_bitmap, Entry(z))
             /\ virt_bitmap' = unset_bit_at_index(virt_bitmap, z)
             /\ call' = IF call.i = call.n - 1
                        THEN [pc |-> "ret", op |-> "t_free", va |-> call.va, n |-> call.n]
                        ELSE [call EXCEPT !.i = @ + 1]
<1> DEFINE a == call.va
           i == call.i
           d == DirIndex(a)
           f == mem[0][d]
           k == TableIndex(a) + i
           z == a + i
           e == Entry(z)
<1>1. call.pc = "unmap" /\ call \in UnmapCall
  <2>1. call.pc = "unmap"
    BY DEF UnmapPage
  <2> QED
    BY <2>1 DEF TypeOK, Idle, Crash, Wild, Refuse, MapCall, UnmapCall, AccessCall, Ended
<1>2. /\ a \in Virt /\ i \in Nat /\ call.n \in Nat /\ call.frame \in Frames
  BY <1>1, Constants DEF UnmapCall
<1>3. /\ i < call.n /\ TableIndex(a) + call.n <= TableEntries
      /\ i \in i..(call.n - 1)
      /\ z \in Mapped /\ e = call.frame + i
  <2>1. /\ i < call.n /\ TableIndex(a) + call.n <= TableEntries
        /\ \A j \in i..(call.n - 1) : a + j \in Mapped /\ Entry(a + j) = call.frame + j
    BY <1>1 DEF Unmapping
  <2>2. i \in i..(call.n - 1)
    BY <1>2, <2>1
  <2> QED
    BY <2>1, <2>2
<1>4. MemType
  BY DEF TypeOK, MemType
<1>5. TableIndex(a) + i < TableEntries
  <2>1. TableIndex(a) \in Words
    BY <1>2, PageParts
  <2>2. TableEntries \in Nat
    BY Constants
  <2> HIDE DEF i, a
  <2>3. TableIndex(a) \in Int
    BY <2>1, <2>2 DEF Words
  <2> QED
    BY <1>2, <1>3, <2>2, <2>3
<1>6. /\ z \in Virt /\ DirIndex(z) = d /\ TableIndex(z) = k /\ k \in Words
      /\ form_virtual_address(d, k) = z
  BY <1>2, <1>5, NextInTable
<1>7. e # Null /\ e \in phy_bitmap \ {0} /\ e \in Frames
  BY <1>3, <1>6 DEF Mapped, PageTree, TypeOK
<1>8. f # Null
  BY <1>4, <1>6, <1>7, WalkFacts
<1>9. /\ f \in Frames \ {0} /\ f \in phy_bitmap /\ WordAt(f, k) = e /\ f # e
      /\ f + (k \div TableEntries) = f /\ k % TableEntries = k /\ e = mem[f][k]
      /\ d \in Directory
  <2>1. f \in Frames \ {0} /\ e = mem[f][k]
    BY <1>4, <1>6, <1>8, WalkFacts
  <2>2. /\ f + (k \div TableEntries) = f /\ k % TableEntries = k /\ WordAt(f, k) = mem[f][k]
    BY <1>6, <2>1, InsideTable
  <2>3. d \in Directory
    BY <1>2, PageParts
  <2>4. f \in phy_bitmap /\ f # e
    BY <1>6, <1>7, <1>8, <2>3 DEF PageTree
  <2> QED
    BY <2>1, <2>2, <2>3, <2>4
<1>10. /\ mem' = Released(f, k)
       /\ tlb' = delete_from_tlb(tlb, z)
       /\ phy_bitmap' = unset_bit_at_index(phy_bitmap, e)
       /\ virt_bitmap' = unset_bit_at_index(virt_bitmap, z)
       /\ call' = IF call.i = call.n - 1
                  THEN [pc |-> "ret", op |-> "t_free", va |-> call.va, n |-> call.n]
                  ELSE [call EXCEPT !.i = @ + 1]
  <2>1. {WordAt(f, k), call.frame} \subseteq Frames
    BY <1>2, <1>7, <1>9
  <2>2. /\ mem' = Released(f, k)
        /\ tlb' = delete_from_tlb(tlb, form_virtual_address(d, k))
        /\ phy_bitmap' = unset_bit_at_index(phy_bitmap, call.frame + i)
        /\ virt_bitmap' = unset_bit_at_index(virt_bitmap, a + i)
        /\ call' = IF call.i = call.n - 1
                   THEN [pc |-> "ret", op |-> "t_free", va |-> call.va, n |-> call.n]
                   ELSE [call EXCEPT !.i = @ + 1]
    BY <2>1, Zenon DEF UnmapPage
  <2> QED
    BY <1>3, <1>6, <2>2
<1> HIDE DEF a, i, d, f, k, z, e
<1>11. mem' = [mem EXCEPT ![e] = Zeroed, ![f][k] = Null]
  BY <1>9, <1>10 DEF Released
<1>12. /\ Zeroed \in [Words -> Word] /\ Null \in Word /\ 0 \in Frames
       /\ mem \in [Frames -> [Words -> Word]]
  BY <1>4, Constants DEF Zeroed, MemType
<1>13. /\ mem' \in [Frames -> [Words -> Word]]
       /\ \A g \in Frames \ {e, f} : mem'[g] = mem[g]
       /\ mem'[e] = Zeroed
       /\ mem'[f] = [mem[f] EXCEPT ![k] = Null]
  BY <1>6, <1>7, <1>9, <1>11, <1>12
<1>14. /\ mem'[0] = mem[0]
       /\ \A g \in Frames \ phy_bitmap : mem'[g] = mem[g]
  BY <1>7, <1>9, <1>12, <1>13
<1>15. \A u \in Virt : Entry(u)' = IF u = z THEN Null ELSE Entry(u)
  <2> TAKE u \in Virt
  <2> DEFINE h == mem[0][DirIndex(u)]
  <2>1. Entry(u)' = IF h \in Frames THEN mem'[h][TableIndex(u)] ELSE h
    BY <1>14 DEF Entry
  <2>2. /\ DirIndex(u) \in Directory /\ TableIndex(u) \in Words
        /\ (DirIndex(u) = d /\ TableIndex(u) = k) => u = z
    BY <1>6, PageParts
  <2>3. CASE h = Null
    <3>1. Entry(u)' = Null /\ Entry(u) = Null
      BY <1>4, <2>1, <2>3, WalkFacts, Constants
    <3> QED
      BY <3>1
  <2>4. CASE h # Null
    <3>1. h \in Frames \ {0} /\ Entry(u) = mem[h][TableIndex(u)]
      BY <1>4, <2>4, WalkFacts
    <3>2. h # e
      BY <1>6, <1>7, <2>2, <2>4 DEF PageTree, e
    <3>3. h = f <=> DirIndex(u) = d
      BY <1>8, <1>9, <2>2, <2>4 DEF PageTree, f
    <3> HIDE DEF h
    <3>4. CASE h = f
      <4>1. Entry(u)' = mem'[f][TableIndex(u)]
        BY <2>1, <3>1, <3>4
      <4>2. mem'[f][TableIndex(u)] = IF TableIndex(u) = k THEN Null ELSE mem[f][TableIndex(u)]
        BY <1>6, <1>9, <1>12, <1>13, <2>2
      <4>3. u = z => TableIndex(u) = k
        BY <1>6
      <4> QED
        BY <2>2, <3>1, <3>3, <3>4, <4>1, <4>2, <4>3
    <3>5. CASE h # f
      <4>1. u # z
        BY <1>6, <3>3, <3>5
      <4>2. mem'[h] = mem[h]
        BY <1>13, <3>1, <3>2, <3>5
      <4> QED
        BY <2>1, <3>1, <4>1, <4>2
    <3> QED
      BY <3>4, <3>5
  <2> QED
    BY <2>3, <2>4
<1>16. MemType'
  BY <1>13 DEF MemType
<1>17. \A u \in Mapped \ {z} : mem'[Entry(u)] = mem[Entry(u)]
  <2> TAKE u \in Mapped \ {z}
  <2>1. Entry(u) \in Frames /\ Entry(u) # f /\ Entry(u) # e
    BY <1>6, <1>9 DEF Mapped, PageTree, TypeOK, e, f
  <2> QED
    BY <1>13, <2>1
<1> QED
  <2>1. /\ call \in UnmapCall /\ z \in Mapped
        /\ Entry(z) = call.frame + call.i /\ Entry(z) \in phy_bitmap \ {0}
    BY <1>1, <1>3, <1>7 DEF e, i
  <2>2. /\ MemType' /\ mem'[0] = mem[0] /\ mem'[Entry(z)] = Zeroed
        /\ \A u \in Virt : Entry(u)' = IF u = z THEN Null ELSE Entry(u)
        /\ \A g \in Frames \ phy_bitmap : mem'[g] = mem[g]
        /\ \A u \in Mapped \ {z} : mem'[Entry(u)] = mem[Entry(u)]
    BY <1>13, <1>14, <1>15, <1>16, <1>17 DEF e
  <2>3. /\ tlb' = delete_from_tlb(tlb, z)
        /\ phy_bitmap' = unset_bit_at_index(phy_bitmap, Entry(z))
        /\ virt_bitmap' = unset_bit_at_index(virt_bitmap, z)
    BY <1>10, Zenon DEF e
  <2>4. z = call.va + call.i
    BY DEF z, a, i
  <2> HIDE DEF z
  <2> QED
    BY <1>10, <2>1, <2>2, <2>3, <2>4, Zenon

\* unset_bit_at_index clears one bit or none.
LEMMA UnsetFacts ==
  ASSUME NEW B, NEW b
  PROVE  unset_bit_at_index(B, b) \subseteq B /\ B \ {b} \subseteq unset_bit_at_index(B, b)
<1> QED
  BY DEF unset_bit_at_index

\* One round of t_free keeps the page tables apart.
LEMMA UnmapPageTree ==
  ASSUME TypeOK, PageTree, FreeFramesZero, Unmapping, UnmapPage
  PROVE  PageTree' /\ FreeFramesZero'
<1> DEFINE z == call.va + call.i
           e == Entry(z)
<1>1. /\ z \in Mapped /\ e \in phy_bitmap \ {0} /\ e # Null
      /\ mem'[0] = mem[0] /\ mem'[e] = Zeroed
      /\ \A u \in Virt : Entry(u)' = IF u = z THEN Null ELSE Entry(u)
      /\ \A g \in Frames \ phy_bitmap : mem'[g] = mem[g]
      /\ phy_bitmap' = unset_bit_at_index(phy_bitmap, e)
  BY UnmapPageMemory DEF Mapped
<1>2. phy_bitmap' \subseteq phy_bitmap /\ phy_bitmap \ {e} \subseteq phy_bitmap'
  BY <1>1, UnsetFacts
<1>3. z \in Virt /\ up /\ up' = up
  BY <1>1 DEF Mapped, Unmapping, UnmapPage
<1> HIDE DEF z
<1>4. PageTree'
  <2>1. \A d \in Directory : mem'[0][d] # Null => mem'[0][d] \in phy_bitmap' \ {0}
    BY <1>1, <1>2, <1>3 DEF PageTree
  <2>2. \A u \in Virt : Entry(u)' # Null => Entry(u)' \in phy_bitmap' \ {0}
    BY <1>1, <1>2, <1>3 DEF PageTree
  <2>3. 0 \in phy_bitmap' /\ \A u \in Virt : Entry(u)' # Null => Entry(u)' = Entry(u)
    BY <1>1, <1>2 DEF PageTree
  <2> QED
    BY <1>1, <2>1, <2>2, <2>3 DEF PageTree
<1>5. FreeFramesZero'
  <2>1. \A g \in Frames \ phy_bitmap' : g = e \/ g \in Frames \ phy_bitmap
    BY <1>2
  <2> QED
    BY <1>1, <1>3, <2>1 DEF FreeFramesZero, Free
<1> QED
  BY <1>4, <1>5

\* One round of t_free keeps the invariant.
LEMMA UnmapPageInv ==
  ASSUME IInv, UnmapPage PROVE IInv'
<1> DEFINE z == call.va + call.i
           i == call.i
           n == call.n
           a == call.va
           x == call.frame
<1>1. /\ TypeOK /\ FramesOwned /\ FreeFramesZero /\ TlbAgrees /\ TlbMapped /\ MappedMarked
      /\ Unmapping
  BY DEF IInv
<1>2. call.pc = "unmap" /\ up /\ up' = up /\ lock' = lock
  BY <1>1 DEF UnmapPage, Unmapping
<1>3. PageTree
  BY <1>1, <1>2, TreeFromOwned
<1>4. FramesOwned' /\ FreeFramesZero'
  BY <1>1, <1>3, UnmapPageTree, OwnedFromTree
<1>5. /\ call \in UnmapCall /\ z \in Mapped /\ MemType'
      /\ \A u \in Virt : Entry(u)' = IF u = z THEN Null ELSE Entry(u)
      /\ tlb' = delete_from_tlb(tlb, z)
      /\ phy_bitmap' = unset_bit_at_index(phy_bitmap, Entry(z))
      /\ virt_bitmap' = unset_bit_at_index(virt_bitmap, z)
  BY <1>1, <1>3, UnmapPageMemory
<1>6. call' = IF i = n - 1 THEN [pc |-> "ret", op |-> "t_free", va |-> a, n |-> n]
              ELSE [call EXCEPT !.i = i + 1]
  BY <1>1, <1>3, UnmapPageMemory
<1>7. z \in Virt /\ Virt \subseteq Nat
  BY <1>5, Constants DEF Mapped
<1>8. TlbGood'
  <2>1. TlbGood
    BY <1>1, TlbFromAgrees
  <2>2. NoNode \notin Virt /\ Freed \notin Virt
    BY <1>7 DEF NoNode, Freed
  <2>3. /\ GoodTlb(tlb', Virt, Word)
        /\ Pairs(tlb') \subseteq {p \in Pairs(tlb) : p.va # z}
    BY <1>5, <1>7, <2>1, <2>2, DeleteFacts DEF TlbGood
  <2>4. \A p \in Pairs(tlb') : p \in Pairs(tlb) /\ p.va # z /\ p.va \in Virt
    BY <2>1, <2>3, CachedPages DEF TlbGood
  <2> HIDE DEF z
  <2> QED
    BY <1>5, <2>1, <2>3, <2>4 DEF TlbGood
<1>9. virt_bitmap' \subseteq Virt /\ phy_bitmap' \subseteq Frames /\ MappedMarked'
  <2>1. virt_bitmap' \subseteq virt_bitmap /\ virt_bitmap \ {z} \subseteq virt_bitmap'
    BY <1>5, UnsetFacts
  <2>2. phy_bitmap' \subseteq phy_bitmap
    BY <1>5, UnsetFacts
  <2>3. \A u \in Mapped' : u \in Mapped /\ u # z
    BY <1>5 DEF Mapped
  <2> QED
    BY <1>1, <2>1, <2>2, <2>3 DEF MappedMarked, TypeOK
<1>10. /\ i \in 0..(MaxPages - 1) /\ n \in 1..MaxPages /\ a \in Virt /\ x \in Frames
       /\ MaxPages \in Nat /\ i < n /\ TableIndex(a) + n <= TableEntries
       /\ \A j \in i..(n - 1) : a + j \in Mapped /\ Entry(a + j) = x + j
       /\ call = [pc |-> "unmap", op |-> "t_free", va |-> a, n |-> n, i |-> i, frame |-> x]
  BY <1>1, <1>2, <1>5, Constants DEF UnmapCall, Unmapping
<1> HIDE DEF i, n, a, x
<1>11. \/ call' = [pc |-> "ret", op |-> "t_free", va |-> a, n |-> n]
       \/ call' = [pc |-> "unmap", op |-> "t_free", va |-> a, n |-> n, i |-> i + 1, frame |-> x]
          /\ i # n - 1
  BY <1>6, <1>10
<1>12. CASE call' = [pc |-> "ret", op |-> "t_free", va |-> a, n |-> n]
  <2>1. call' \in Ended /\ call'.pc = "ret" /\ call'.op = "t_free"
    BY <1>10, <1>12 DEF Ended
  <2>2. Mapping' /\ Unmapping' /\ Accessing' /\ NoWildPointer' /\ MallocMapsArea' /\ Fresh'
    BY <1>2, <2>1 DEF Mapping, Unmapping, Accessing, NoWildPointer, MallocMapsArea, Fresh
  <2>3. TypeOK'
    BY <1>1, <1>2, <1>5, <1>8, <1>9, <2>1, AgreesFromTlb DEF TypeOK, MemType
  <2> QED
    BY <1>4, <1>8, <1>9, <2>2, <2>3, AgreesFromTlb DEF IInv
<1>13. CASE call' = [pc |-> "unmap", op |-> "t_free", va |-> a, n |-> n, i |-> i + 1, frame |-> x]
            /\ i # n - 1
  <2>1. /\ call'.pc = "unmap" /\ call'.va = a /\ call'.n = n /\ call'.i = i + 1 /\ call'.frame = x
    BY <1>13
  <2>2. call' \in UnmapCall
    BY <1>10, <1>13 DEF UnmapCall
  <2>3. ASSUME NEW j \in (i + 1)..(n - 1), NEW u, u = a + j
        PROVE  u \in Mapped' /\ Entry(u)' = x + j
    <3>1. j \in i..(n - 1) /\ u # z
      BY <1>7, <1>10, <2>3 DEF z, a, i
    <3>2. u \in Mapped /\ Entry(u) = x + j /\ u \in Virt
      BY <1>10, <2>3, <3>1 DEF Mapped
    <3>3. Entry(u)' = Entry(u)
      BY <1>5, <3>1, <3>2
    <3> QED
      BY <3>2, <3>3 DEF Mapped
  <2>4. Unmapping'
    <3>1. i + 1 < n
      BY <1>10, <1>13
    <3> QED
      BY <1>2, <1>10, <2>1, <2>3, <3>1 DEF Unmapping
  <2>5. Mapping' /\ Accessing' /\ NoWildPointer' /\ MallocMapsArea' /\ Fresh'
    BY <1>2, <2>1 DEF Mapping, Accessing, NoWildPointer, MallocMapsArea, Fresh
  <2>6. TypeOK'
    BY <1>1, <1>2, <1>5, <1>8, <1>9, <2>2, AgreesFromTlb DEF TypeOK, MemType
  <2> QED
    BY <1>4, <1>8, <1>9, <2>4, <2>5, <2>6, AgreesFromTlb DEF IInv
<1> QED
  BY <1>11, <1>12, <1>13

-----------------------------------------------------------------------------
\* put_value and get_value.

\* translate returns what the page tables say, and caches nothing else.
LEMMA TranslateFacts ==
  ASSUME TypeOK, PageTree, TlbGood, NEW v \in Virt, NEW r \in translate(v)
  PROVE  /\ r.pa = Entry(v) /\ GoodTlb(r.tlb, Virt, Word)
         /\ \A p \in Pairs(r.tlb) : p.va \in Virt /\ Entry(p.va) = p.pa /\ p.pa # Null
<1>1. /\ GoodTlb(tlb, Virt, Word)
      /\ \A p \in Pairs(tlb) : p.va \in Virt /\ Entry(p.va) = p.pa /\ p.pa # Null
  BY CachedPages DEF TlbGood
<1>2. CASE v \in Cached(tlb)
  <2>1. r = [tlb |-> arrange(tlb, v), pa |-> tlb.nodes[Position(tlb, v)].pa]
    BY <1>2 DEF translate
  <2>2. r.tlb = arrange(tlb, v) /\ r.pa = tlb.nodes[Position(tlb, v)].pa
    BY <2>1
  <2>3. GoodTlb(r.tlb, Virt, Word) /\ Pairs(r.tlb) \subseteq Pairs(tlb)
    BY <1>1, <1>2, <2>2, ArrangeFacts
  <2>4. Position(tlb, v) \in 1..Len(tlb.nodes) /\ tlb.nodes[Position(tlb, v)].va = v
    BY <1>1, <1>2, PositionFacts
  <2>5. tlb.nodes[Position(tlb, v)] \in Pairs(tlb)
    BY <1>1, <2>4 DEF Pairs, GoodTlb, TlbType
  <2> QED
    BY <1>1, <2>2, <2>3, <2>4, <2>5
<1>3. CASE v \notin Cached(tlb) /\ Entry(v) = Null
  <2>1. r = [tlb |-> tlb, pa |-> Null]
    BY <1>3 DEF translate
  <2> QED
    BY <1>1, <1>3, <2>1
<1>4. CASE v \notin Cached(tlb) /\ Entry(v) # Null
  <2>1. PICK t \in add_TLB(tlb, v, Entry(v)) : r = [tlb |-> t, pa |-> Entry(v)]
    BY <1>4 DEF translate
  <2>2. r.tlb = t /\ r.pa = Entry(v)
    BY <2>1
  <2>3. Entry(v) \in Word
    BY <1>4, Constants DEF PageTree, TypeOK
  <2>4. /\ GoodTlb(t, Virt, Word)
        /\ Pairs(t) \subseteq Pairs(tlb) \cup {[va |-> v, pa |-> Entry(v)]}
    BY <1>1, <1>4, <2>3, AddFacts
  <2> DEFINE q == [va |-> v, pa |-> Entry(v)]
  <2>5. q.va = v /\ q.pa = Entry(v)
    OBVIOUS
  <2> HIDE DEF q
  <2>6. \A p \in Pairs(t) : p \in Pairs(tlb) \/ p = q
    BY <2>4 DEF q
  <2> QED
    BY <1>1, <1>4, <2>2, <2>4, <2>5, <2>6
<1> QED
  BY <1>2, <1>3, <1>4

\* An access has one of these forms.
LEMMA AccessFacts ==
  ASSUME TypeOK, call.pc \in {"one", "check", "copy"}
  PROVE  /\ call \in AccessCall
         /\ call = [pc |-> call.pc, op |-> call.op, start |-> call.start, first |-> call.first,
                    size |-> call.size, val |-> call.val, va |-> call.va, off |-> call.off,
                    left |-> call.left, buf |-> call.buf]
         /\ call.start \in Virt /\ call.va \in Virt /\ call.off \in Words /\ call.first \in Words
         /\ call.left \in Nat /\ call.size \in Nat /\ call.buf \in Seq(Word)
         /\ call.op \in {"put_value", "get_value"} /\ call.val \in Values \cup {Null}
<1>1. call \in AccessCall
  BY DEF TypeOK, Idle, Crash, Wild, Refuse, MapCall, UnmapCall, AccessCall, Ended
<1> QED
  BY <1>1 DEF AccessCall

\* The call that goes on with the next page.
LEMMA AdvancedFacts ==
  ASSUME TypeOK, call.pc \in {"one", "check", "copy"}
  PROVE  /\ Advanced = [pc |-> call.pc, op |-> call.op, start |-> call.start,
                        first |-> call.first, size |-> call.size, val |-> call.val,
                        va |-> get_next_page(call.va), off |-> 0,
                        left |-> call.left - (TableEntries - call.off), buf |-> call.buf]
         /\ Advanced.left > 0 => Advanced \in AccessCall
<1> DEFINE z == get_next_page(call.va)
           l == call.left - (TableEntries - call.off)
           R(y, o, k) == [pc |-> call.pc, op |-> call.op, start |-> call.start,
                          first |-> call.first, size |-> call.size, val |-> call.val,
                          va |-> y, off |-> o, left |-> k, buf |-> call.buf]
           c1 == [call EXCEPT !.va = z]
           c2 == [c1 EXCEPT !.off = 0]
<1>1. call = R(call.va, call.off, call.left)
  BY AccessFacts
<1>2. c1 = R(z, call.off, call.left)
  BY <1>1
<1>3. c2 = R(z, 0, call.left)
  <2> HIDE DEF c1
  <2> QED
    BY <1>2
<1>4. Advanced = [c2 EXCEPT !.left = l]
  BY Zenon DEF Advanced
<1>5. Advanced = R(z, 0, l)
  <2> HIDE DEF c2
  <2> QED
    BY <1>3, <1>4
<1>6. /\ z \in Virt /\ 0 \in Words /\ l \in Int
  BY AccessFacts, NextPage, Constants DEF Words
<1>7. ASSUME Advanced.left > 0 PROVE R(z, 0, l) \in AccessCall
  <2>1. l > 0
    BY <1>5, <1>7
  <2> HIDE DEF z, l
  <2>2. l \in Nat
    BY <1>6, <2>1
  <2> QED
    BY <1>6, <2>2, AccessFacts DEF AccessCall
<1> QED
  BY <1>5, <1>7

\* put_value and get_value take the mutex.
LEMMA AccessInv ==
  ASSUME IInv, NEW op \in {"put_value", "get_value"}, NEW v \in Virt, NEW off \in Words,
         NEW size \in Nat, NEW val \in Values \cup {Null}, op = "put_value" => val \in Values,
         Access(op, v, off, size, val)
  PROVE  IInv'
<1> SUFFICES ASSUME up PROVE IInv'
  <2>1. ~up => call' = Refuse /\ lock' = TRUE /\ UNCHANGED <<up, phy_bitmap, virt_bitmap, mem, tlb>>
    BY DEF Access
  <2> QED
    BY <2>1, RefusedInv
<1>1. /\ up /\ lock' = TRUE /\ UNCHANGED <<up, phy_bitmap, virt_bitmap, mem, tlb>>
      /\ call' = [pc |-> IF off + size < TableEntries THEN "one" ELSE "check",
                  op |-> op, start |-> v, first |-> off, size |-> size, val |-> val,
                  va |-> v, off |-> off, left |-> size, buf |-> <<>>]
  BY DEF Access
<1>2. call' \in AccessCall /\ call'.pc \in {"one", "check"}
  <2>1. <<>> \in Seq(Word)
    OBVIOUS
  <2> QED
    BY <1>1, <2>1 DEF AccessCall
<1>3. /\ TypeOK' /\ FramesOwned' /\ FreeFramesZero' /\ TlbAgrees' /\ Fresh' /\ TlbMapped'
      /\ MappedMarked'
  BY <1>1, <1>2, SameMemory
<1>4. Mapping' /\ Unmapping' /\ Accessing' /\ NoWildPointer' /\ MallocMapsArea'
  BY <1>1, <1>2 DEF Mapping, Unmapping, Accessing, NoWildPointer, MallocMapsArea
<1> QED
  BY <1>3, <1>4 DEF IInv

\* A step of put_value or get_value that leaves the page tables alone keeps the invariant.
LEMMA AccessStep ==
  ASSUME IInv, up, UNCHANGED <<up, phy_bitmap, virt_bitmap, lock>>,
         MemType', mem'[0] = mem[0], \A u \in Virt : Entry(u)' = Entry(u),
         \A g \in Frames \ phy_bitmap : mem'[g] = mem[g],
         NEW v \in Virt, NEW r \in translate(v), tlb' = r.tlb,
         call' \in {Refuse} \cup AccessCall \cup Ended,
         call'.pc \in {"one", "check", "copy", "lost", "ret"}, call'.op # "t_malloc",
         call'.pc \in {"one", "check", "copy"} /\ call'.op = "put_value" => call'.val \in Values
  PROVE  IInv'
<1>1. /\ TypeOK /\ FramesOwned /\ FreeFramesZero /\ TlbAgrees /\ TlbMapped /\ MappedMarked
  BY DEF IInv
<1>2. PageTree /\ TlbGood
  BY <1>1, TreeFromOwned, TlbFromAgrees
<1>3. FramesOwned'
  <2>1. PageTree'
    BY <1>2 DEF PageTree
  <2> QED
    BY <2>1, OwnedFromTree
<1>4. FreeFramesZero'
  BY <1>1 DEF FreeFramesZero, Free
<1>5. TlbGood'
  <2>1. /\ GoodTlb(tlb', Virt, Word)
        /\ \A p \in Pairs(tlb') : p.va \in Virt /\ Entry(p.va) = p.pa /\ p.pa # Null
    BY <1>1, <1>2, TranslateFacts
  <2> QED
    BY <2>1 DEF TlbGood
<1>6. MappedMarked'
  BY <1>1 DEF MappedMarked, Mapped
<1>7. TypeOK'
  BY <1>1, <1>5, AgreesFromTlb DEF TypeOK, MemType
<1>8. /\ Fresh' /\ Mapping' /\ Unmapping' /\ Accessing' /\ NoWildPointer' /\ MallocMapsArea'
  BY DEF Fresh, Mapping, Unmapping, Accessing, NoWildPointer, MallocMapsArea
<1> QED
  BY <1>3, <1>4, <1>5, <1>6, <1>7, <1>8, AgreesFromTlb DEF IInv

\* The first loop of put_value and get_value.
LEMMA CheckPageInv ==
  ASSUME IInv, CheckPage PROVE IInv'
<1>1. /\ call.pc = "check" /\ UNCHANGED <<up, phy_bitmap, virt_bitmap, mem, lock>>
  BY DEF CheckPage
<1>2. up /\ TypeOK
  BY <1>1 DEF IInv, Accessing
<1>3. PICK r \in translate(call.va) :
        /\ tlb' = r.tlb
        /\ call' = IF r.pa = Null THEN Refuse
                   ELSE IF Advanced.left > 0 THEN Advanced
                   ELSE [call EXCEPT !.pc = "copy", !.va = call.start, !.off = call.first,
                                      !.left = call.size]
  BY Zenon DEF CheckPage
<1> DEFINE R(y, o, k) == [pc |-> "copy", op |-> call.op, start |-> call.start,
                          first |-> call.first, size |-> call.size, val |-> call.val,
                          va |-> y, off |-> o, left |-> k, buf |-> call.buf]
           c1 == [call EXCEPT !.pc = "copy"]
           c2 == [c1 EXCEPT !.va = call.start]
           c3 == [c2 EXCEPT !.off = call.first]
           c4 == [c3 EXCEPT !.left = call.size]
<1>4. c1 = R(call.va, call.off, call.left)
  <2>1. call = [pc |-> call.pc, op |-> call.op, start |-> call.start, first |-> call.first,
                size |-> call.size, val |-> call.val, va |-> call.va, off |-> call.off,
                left |-> call.left, buf |-> call.buf]
    BY <1>1, <1>2, AccessFacts
  <2> QED
    BY <2>1
<1>5. c2 = R(call.start, call.off, call.left)
  <2> HIDE DEF c1
  <2> QED
    BY <1>4
<1>6. c3 = R(call.start, call.first, call.left)
  <2> HIDE DEF c2
  <2> QED
    BY <1>5
<1>7. c4 = R(call.start, call.first, call.size)
  <2> HIDE DEF c3
  <2> QED
    BY <1>6
<1>8. call' = Refuse \/ (Advanced.left > 0 /\ call' = Advanced) \/ call' = c4
  BY <1>3, Zenon
<1> HIDE DEF c4
<1>9. c4 \in AccessCall /\ c4.pc = "copy" /\ c4.op = call.op /\ c4.val = call.val
  BY <1>1, <1>2, <1>7, AccessFacts DEF AccessCall
<1>10. /\ call.op # "t_malloc" /\ call.va \in Virt
       /\ call.op = "put_value" => call.val \in Values
  BY <1>1, <1>2, AccessFacts DEF IInv, Accessing
<1>11. /\ call' \in {Refuse} \cup AccessCall \cup Ended
       /\ call'.pc \in {"one", "check", "copy", "lost", "ret"} /\ call'.op # "t_malloc"
       /\ call'.pc \in {"one", "check", "copy"} /\ call'.op = "put_value" => call'.val \in Values
  <2>1. CASE call' = Refuse
    BY <2>1 DEF Refuse
  <2>2. CASE Advanced.left > 0 /\ call' = Advanced
    <3>1. /\ Advanced \in AccessCall /\ Advanced.pc = call.pc /\ Advanced.op = call.op
          /\ Advanced.val = call.val
      BY <1>1, <1>2, <2>2, AdvancedFacts
    <3> QED
      BY <1>1, <1>10, <2>2, <3>1
  <2>3. CASE call' = c4
    BY <1>9, <1>10, <2>3
  <2> QED
    BY <1>8, <2>1, <2>2, <2>3
<1>12. MemType' /\ \A u \in Virt : Entry(u)' = Entry(u)
  BY <1>1, <1>2 DEF TypeOK, MemType, Entry
<1> QED
  BY <1>1, <1>2, <1>3, <1>10, <1>11, <1>12, AccessStep

\* A page is copied to or from its own frame: the words the request covers.
LEMMA CoveredFacts ==
  ASSUME TypeOK, call.pc \in {"one", "check", "copy"}
  PROVE  /\ Cardinality(Covered) \in Nat
         /\ \A j \in 1..Cardinality(Covered) : call.off + j - 1 \in Words
<1>1. call.off \in Words /\ call.left \in Nat /\ TableEntries \in Nat \ {0}
  BY AccessFacts, Constants
<1> DEFINE a == call.off
           b == IF call.off + call.left < TableEntries THEN call.off + call.left ELSE TableEntries
<1>2. a \in Nat /\ b \in Nat /\ a <= b /\ b <= TableEntries
  BY <1>1 DEF Words
<1>3. Covered = a..(b - 1)
  BY <1>1, <1>2 DEF Covered, Words
<1> HIDE DEF b
<1>4. Cardinality(a..(b - 1)) = IF a > b - 1 THEN 0 ELSE b - 1 - a + 1
  <2> DEFINE m == b - 1
  <2>1. a \in Int /\ m \in Int
    BY <1>2
  <2> HIDE DEF a, m
  <2>2. Cardinality(a..m) = IF a > m THEN 0 ELSE m - a + 1
    BY <2>1, FS_Interval
  <2> QED
    BY <2>2 DEF m
<1> DEFINE c == Cardinality(a..(b - 1))
<1>5. c = b - a
  BY <1>2, <1>4
<1> HIDE DEF a, c
<1>6. c \in Nat /\ \A j \in 1..c : a + j - 1 \in 0..(TableEntries - 1)
  BY <1>1, <1>2, <1>5
<1>7. Cardinality(Covered) = c
  BY <1>3 DEF c
<1> QED
  BY <1>6, <1>7 DEF Words, a

\* A page is copied to or from its own frame, and the page tables stay as they are.
LEMMA CopyPageMemory ==
  ASSUME IInv, CopyPage, call.pc \in {"one", "check", "copy"}
  PROVE  /\ \/ mem' = mem
            \/ /\ call.op = "put_value" /\ call.val \in Values /\ call.va \in Mapped
               /\ mem' = [mem EXCEPT ![Entry(call.va)] = Copied(@)]
         /\ MemType' /\ mem'[0] = mem[0]
         /\ \A u \in Virt : Entry(u)' = Entry(u)
         /\ \A g \in Frames \ phy_bitmap : mem'[g] = mem[g]
<1> DEFINE v == call.va
<1>1. up /\ TypeOK /\ MemType
  BY DEF IInv, Accessing, TypeOK, MemType
<1>2. PICK r \in translate(v) :
        \/ r.pa \in Frames /\ call.op = "put_value" /\ mem' = [mem EXCEPT ![r.pa] = Copied(@)]
        \/ mem' = mem
  BY Zenon DEF CopyPage
<1>3. PageTree /\ TlbGood
  BY <1>1, TreeFromOwned, TlbFromAgrees DEF IInv
<1>4. v \in Virt /\ (call.op = "put_value" => call.val \in Values)
  BY <1>1, AccessFacts DEF IInv, Accessing
<1>5. r.pa = Entry(v)
  BY <1>1, <1>2, <1>3, <1>4, TranslateFacts
<1> HIDE DEF v
<1>6. CASE mem' = mem
  BY <1>1, <1>6 DEF MemType, Entry
<1>7. CASE /\ r.pa \in Frames /\ call.op = "put_value"
           /\ mem' = [mem EXCEPT ![r.pa] = Copied(@)]
  <2>1. /\ Entry(v) # Null /\ r.pa \in phy_bitmap \ {0}
        /\ \A d \in Directory : mem[0][d] # r.pa
    BY <1>3, <1>4, <1>5, <1>7, Constants DEF PageTree
  <2>2. Copied(mem[r.pa]) \in [Words -> Word]
    <3>1. mem[r.pa] \in [Words -> Word]
      BY <1>1, <1>7 DEF MemType
    <3>2. call.val \in Word
      BY <1>1, AccessFacts DEF Word
    <3> QED
      BY <3>1, <3>2 DEF Copied
  <2>3. /\ MemType' /\ mem'[0] = mem[0]
        /\ \A g \in Frames \ {r.pa} : mem'[g] = mem[g]
    BY <1>1, <1>7, <2>1, <2>2, Constants DEF MemType
  <2>4. \A u \in Virt : Entry(u)' = Entry(u)
    <3> TAKE u \in Virt
    <3> DEFINE h == mem[0][DirIndex(u)]
    <3>1. Entry(u) = IF h \in Frames THEN mem[h][TableIndex(u)] ELSE h
      BY DEF Entry
    <3>2. Entry(u)' = IF h \in Frames THEN mem'[h][TableIndex(u)] ELSE h
      BY <2>3 DEF Entry
    <3>3. h # r.pa
      BY <2>1, PageParts
    <3> HIDE DEF h
    <3> QED
      BY <2>3, <3>1, <3>2, <3>3
  <2>5. \A g \in Frames \ phy_bitmap : mem'[g] = mem[g]
    BY <2>1, <2>3
  <2>6. v \in Mapped
    BY <1>4, <2>1 DEF Mapped
  <2>7. mem' = [mem EXCEPT ![Entry(v)] = Copied(@)]
    BY <1>5, <1>7
  <2> QED
    BY <1>4, <1>7, <2>3, <2>4, <2>5, <2>6, <2>7 DEF v
<1> QED
  BY <1>2, <1>6, <1>7

\* One round of put_value or get_value keeps the invariant.
LEMMA CopyPageInv ==
  ASSUME IInv, CopyPage PROVE IInv'
<1> DEFINE v == call.va
           Buf(r) == LET part == [j \in 1..Cardinality(Covered) |-> mem[r.pa][call.off + j - 1]]
                     IN  IF call.op = "get_value" THEN call.buf \o part ELSE <<>>
           done(buf) == [pc |-> "ret", op |-> call.op, start |-> call.start,
                         first |-> call.first, size |-> call.size, val |-> call.val,
                         buf |-> buf]
<1>1. /\ call.pc \in {"one", "check", "copy"} /\ call.pc \in {"one", "copy"}
      /\ UNCHANGED <<up, phy_bitmap, virt_bitmap, lock>>
  BY DEF CopyPage
<1>2. up /\ TypeOK /\ MemType
  BY <1>1 DEF IInv, Accessing, TypeOK, MemType
<1>3. PICK r \in translate(v) :
        /\ tlb' = r.tlb
        /\ \/ /\ r.pa \in Frames
              /\ call' = IF Advanced.left > 0 THEN [Advanced EXCEPT !.buf = Buf(r)]
                         ELSE done(Buf(r))
           \/ /\ r.pa \notin Frames
              /\ call' = IF r.pa # Null THEN Wild
                         ELSE IF call.pc = "one" THEN [call EXCEPT !.pc = "lost"] ELSE Refuse
  BY Zenon DEF CopyPage
<1>4. PageTree /\ TlbGood
  BY <1>2, TreeFromOwned, TlbFromAgrees DEF IInv
<1>5. /\ v \in Virt /\ call.op \in {"put_value", "get_value"}
      /\ call.op = "put_value" => call.val \in Values
  BY <1>1, <1>2, AccessFacts DEF IInv, Accessing
<1>6. r.pa = Entry(v)
  BY <1>2, <1>3, <1>4, <1>5, TranslateFacts
<1> HIDE DEF Buf, done, v
<1>7. /\ call' \in {Refuse} \cup AccessCall \cup Ended
      /\ call'.pc \in {"one", "check", "copy", "lost", "ret"} /\ call'.op # "t_malloc"
      /\ call'.pc \in {"one", "check", "copy"} /\ call'.op = "put_value" => call'.val \in Values
  <2>1. CASE r.pa \in Frames
    <3>1. Buf(r) \in Seq(Word)
      <4> DEFINE c == Cardinality(Covered)
                 part == [j \in 1..c |-> mem[r.pa][call.off + j - 1]]
      <4>1. c \in Nat /\ \A j \in 1..c : call.off + j - 1 \in Words
        BY <1>1, <1>2, CoveredFacts
      <4>2. \A j \in 1..c : mem[r.pa][call.off + j - 1] \in Word
        BY <1>2, <2>1, <4>1 DEF MemType
      <4> HIDE DEF c
      <4>3. part \in Seq(Word)
        BY <4>1, <4>2
      <4>4. call.buf \in Seq(Word)
        BY <1>1, <1>2, AccessFacts
      <4>5. <<>> \in Seq(Word)
        OBVIOUS
      <4>6. Buf(r) = IF call.op = "get_value" THEN call.buf \o part ELSE <<>>
        BY DEF Buf, c
      <4> HIDE DEF part
      <4>7. call.buf \o part \in Seq(Word)
        BY <4>3, <4>4, ConcatProperties
      <4> QED
        BY <4>5, <4>6, <4>7
    <3>2. CASE Advanced.left > 0
      <4> DEFINE b == Buf(r)
                 A == Advanced
      <4>1. /\ A = [pc |-> call.pc, op |-> call.op, start |-> call.start,
                    first |-> call.first, size |-> call.size, val |-> call.val,
                    va |-> get_next_page(call.va), off |-> 0,
                    left |-> call.left - (TableEntries - call.off), buf |-> call.buf]
            /\ A \in AccessCall
        BY <1>1, <1>2, <3>2, AdvancedFacts
      <4>2. call' = [A EXCEPT !.buf = b]
        BY <1>3, <2>1, <3>2, Zenon
      <4>3. A.pc = call.pc /\ A.op = call.op /\ A.val = call.val
        BY <4>1
      <4> HIDE DEF A, b
      <4>4. call' \in AccessCall /\ call'.pc = A.pc /\ call'.op = A.op /\ call'.val = A.val
        <5>1. b \in Seq(Word)
          BY <3>1 DEF b
        <5> QED
          BY <4>1, <4>2, <5>1 DEF AccessCall
      <4> QED
        BY <1>1, <1>5, <4>3, <4>4
    <3>3. CASE ~(Advanced.left > 0)
      <4> DEFINE b == Buf(r)
      <4>1. call' = done(b)
        BY <1>3, <2>1, <3>3, Zenon
      <4>2. b \in Seq(Word)
        BY <3>1
      <4> HIDE DEF b
      <4>3. done(b) \in Ended /\ done(b).pc = "ret" /\ done(b).op = call.op
        BY <1>1, <1>2, <4>2, AccessFacts DEF done, Ended
      <4> QED
        BY <1>5, <4>1, <4>3
    <3> QED
      BY <3>2, <3>3
  <2>2. CASE r.pa \notin Frames
    <3>1. r.pa = Null
      BY <1>2, <1>4, <1>5, <1>6, <2>2 DEF PageTree, TypeOK
    <3>2. call' \in {[call EXCEPT !.pc = "lost"], Refuse}
      BY <1>3, <2>2, <3>1
    <3>3. CASE call' = Refuse
      BY <3>3 DEF Refuse
    <3>4. CASE call' = [call EXCEPT !.pc = "lost"]
      <4>1. call \in AccessCall
        BY <1>1, <1>2, AccessFacts
      <4>2. call' \in AccessCall /\ call'.pc = "lost" /\ call'.op = call.op
        BY <3>4, <4>1 DEF AccessCall
      <4> QED
        BY <1>5, <4>2
    <3> QED
      BY <3>2, <3>3, <3>4
  <2> QED
    BY <2>1, <2>2
<1>8. /\ MemType' /\ mem'[0] = mem[0]
      /\ \A u \in Virt : Entry(u)' = Entry(u)
      /\ \A g \in Frames \ phy_bitmap : mem'[g] = mem[g]
  BY <1>1, CopyPageMemory
<1> QED
  BY <1>1, <1>2, <1>3, <1>5, <1>7, <1>8, AccessStep

-----------------------------------------------------------------------------
\* The specification.

\* The invariant holds before the first t_malloc.
LEMMA InitInv ==
  ASSUME Init PROVE IInv
<1>1. /\ up = FALSE /\ phy_bitmap = {} /\ virt_bitmap = {} /\ lock = FALSE
      /\ mem = [f \in Frames |-> Zeroed] /\ tlb = EmptyTlb /\ call = Idle
  BY DEF Init
<1>2. tlb.nodes = <<>> /\ tlb.length = 0 /\ TLB_ENTRIES \in Nat \ {0}
  BY <1>1, TlbAssumption DEF EmptyTlb
<1>3. tlb \in [nodes : Seq([va : Virt, pa : Word]), tail : Virt \cup {NoNode, Freed},
               length : 0..TLB_ENTRIES]
  <2>1. <<>> \in Seq([va : Virt, pa : Word]) /\ 0 \in 0..TLB_ENTRIES
    BY <1>2
  <2> QED
    BY <1>1, <2>1 DEF EmptyTlb
<1>4. mem \in [Frames -> [Words -> Word]]
  BY <1>1, Constants DEF Zeroed
<1>5. TypeOK
  BY <1>1, <1>3, <1>4 DEF TypeOK
<1>6. TlbAgrees /\ TlbMapped
  BY <1>2 DEF TlbAgrees, TlbMapped
<1>7. \A v \in Virt : Entry(v) = Null
  <2> TAKE v \in Virt
  <2>1. mem[0][DirIndex(v)] = Null
    BY <1>1, Constants, PageParts DEF Zeroed
  <2> QED
    BY <2>1, Constants DEF Entry
<1>8. MappedMarked
  BY <1>7 DEF MappedMarked, Mapped
<1>9. call.pc = "idle"
  BY <1>1 DEF Idle
<1>10. Mapping /\ Unmapping /\ Accessing /\ NoWildPointer /\ MallocMapsArea
  BY <1>9 DEF Mapping, Unmapping, Accessing, NoWildPointer, MallocMapsArea
<1>11. FramesOwned /\ FreeFramesZero /\ Fresh
  BY <1>1 DEF FramesOwned, FreeFramesZero, Fresh
<1> QED
  BY <1>5, <1>6, <1>8, <1>10, <1>11 DEF IInv

\* Every step of every call keeps the invariant, if the frees are Regular.
LEMMA NextInv ==
  ASSUME ~FreesScattered, IInv, [Next]_vars PROVE IInv'
<1>1. CASE UNCHANGED vars
  <2>1. UNCHANGED <<up, phy_bitmap, virt_bitmap, mem, tlb, lock, call>>
    BY <1>1 DEF vars
  <2>2. Mapped' = Mapped /\ \A v : Entry(v)' = Entry(v)
    BY <2>1 DEF Mapped, Entry
  <2>3. FramesOwned' /\ FreeFramesZero'
    BY <2>1, <2>2 DEF IInv, FramesOwned, FreeFramesZero, OwnFrames, Tables, Present
  <2>4. TypeOK' /\ Fresh' /\ NoWildPointer' /\ Accessing'
    BY <2>1 DEF IInv, TypeOK, Fresh, NoWildPointer, Accessing
  <2>5. TlbAgrees' /\ TlbMapped' /\ MappedMarked'
    BY <2>1, <2>2 DEF IInv, TlbAgrees, TlbMapped, MappedMarked
  <2>6. Mapping' /\ Unmapping' /\ MallocMapsArea'
    BY <2>1, <2>2 DEF IInv, Mapping, Unmapping, MallocMapsArea
  <2> QED
    BY <2>3, <2>4, <2>5, <2>6 DEF IInv
<1>2. CASE \E n \in 1..MaxPages : TMalloc(n)
  BY <1>2, TMallocInv
<1>3. CASE \E n \in 1..MaxPages, v \in Virt : TFree(v, n)
  BY <1>3, TFreeInv
<1>4. CASE Accesses
  <2>1. PICK v \in Virt, off \in Words, size \in 0..(MaxPages * TableEntries) :
          GetValue(v, off, size) \/ \E val \in Values : PutValue(v, off, size, val)
    BY <1>4, Zenon DEF Accesses
  <2>2. size \in Nat
    BY <2>1, Constants
  <2>3. CASE GetValue(v, off, size)
    <3>1. Access("get_value", v, off, size, Null)
      BY <2>3 DEF GetValue
    <3> QED
      BY <2>2, <3>1, AccessInv
  <2>4. ASSUME NEW val \in Values, PutValue(v, off, size, val) PROVE IInv'
    <3>1. Access("put_value", v, off, size, val)
      BY <2>4 DEF PutValue
    <3> QED
      BY <2>2, <3>1, AccessInv
  <2> QED
    BY <2>1, <2>3, <2>4
<1>5. CASE Proceed
  BY <1>5, MapPageInv, MapPageCrashInv, UnmapPageInv, CheckPageInv, CopyPageInv, ReturnInv
     DEF Proceed
<1>6. CASE Stopped
  BY <1>1, <1>6 DEF Stopped
<1> QED
  BY <1>1, <1>2, <1>3, <1>4, <1>5, <1>6 DEF Next

\* The manager keeps its invariant through every sequence of calls whose frees are Regular.
THEOREM Invariance == ~FreesScattered => (Spec => []IInv)
<1> SUFFICES ASSUME ~FreesScattered PROVE Spec => []IInv
  OBVIOUS
<1>1. Init => IInv
  BY InitInv
<1>2. IInv /\ [Next]_vars => IInv'
  BY NextInv
<1> QED
  BY <1>1, <1>2, PTL DEF Spec

\* The variables keep to what the code declares; add_TLB and delete_from_tlb keep the counter
\* of the TLB within TLB_ENTRIES.
THEOREM TypeCorrect == ~FreesScattered => (Spec => []TypeOK)
<1> SUFFICES ASSUME ~FreesScattered PROVE Spec => []TypeOK
  OBVIOUS
<1>1. IInv => TypeOK
  BY DEF IInv
<1> QED
  BY <1>1, Invariance, PTL

\* No frame of physical memory ever has two uses (page_map, find_free_physical_page, t_free).
THEOREM FramesHaveOneUse == ~FreesScattered => (Spec => []FramesOwned)
<1> SUFFICES ASSUME ~FreesScattered PROVE Spec => []FramesOwned
  OBVIOUS
<1>1. IInv => FramesOwned
  BY DEF IInv
<1> QED
  BY <1>1, Invariance, PTL

\* A frame that t_malloc may hand out is zero, though only t_free clears it.
THEOREM FreeFramesStayZero == ~FreesScattered => (Spec => []FreeFramesZero)
<1> SUFFICES ASSUME ~FreesScattered PROVE Spec => []FreeFramesZero
  OBVIOUS
<1>1. IInv => FreeFramesZero
  BY DEF IInv
<1> QED
  BY <1>1, Invariance, PTL

\* The TLB never holds a translation that the page tables do not (t_free deletes it in time).
THEOREM TlbIsCoherent == ~FreesScattered => (Spec => []TlbAgrees)
<1> SUFFICES ASSUME ~FreesScattered PROVE Spec => []TlbAgrees
  OBVIOUS
<1>1. IInv => TlbAgrees
  BY DEF IInv
<1> QED
  BY <1>1, Invariance, PTL

\* No call follows a word that is not the address of a frame (translate, t_free).
THEOREM NoWildPointers == ~FreesScattered => (Spec => []NoWildPointer)
<1> SUFFICES ASSUME ~FreesScattered PROVE Spec => []NoWildPointer
  OBVIOUS
<1>1. IInv => NoWildPointer
  BY DEF IInv
<1> QED
  BY <1>1, Invariance, PTL

\* t_malloc returns an area all of whose pages are mapped, if get_next_avail found one, and
\* page_map never meets an entry that is set.
THEOREM MallocReturnsMapped == ~FreesScattered => (Spec => []MallocMapsArea)
<1> SUFFICES ASSUME ~FreesScattered PROVE Spec => []MallocMapsArea
  OBVIOUS
<1>1. IInv => MallocMapsArea
  BY DEF IInv
<1> QED
  BY <1>1, Invariance, PTL
=============================================================================

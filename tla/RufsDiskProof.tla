---------------------------- MODULE RufsDiskProof ----------------------------
(***************************************************************************)
(* What holds of the disk of Rufs between any two operations, and what the *)
(* operations on bitmaps, inodes, directories and pointers preserve of it. *)
(***************************************************************************)
EXTENDS RufsProps, FiniteSetTheorems, SequenceTheorems, WellFoundedInduction, TLAPS

-----------------------------------------------------------------------------
\* The parts of a disk d.

LiveIn(d)  == {n \in Inos : d.inode[n].valid = 1}
IsDir(d, n)  == n \in LiveIn(d) /\ d.inode[n].type = "dir"
IsFile(d, n) == n \in LiveIn(d) /\ d.inode[n].type = "file"

DirectSlots   == 0..(NumDirect - 1)
IndirectSlots == 0..(NumIndirect - 1)
IndexSlots    == 0..(IndirectCap - 1)
EntrySlots    == 3..MaxEntries

IndexesIn(d) == {x \in Blocks : \E n \in LiveIn(d) : \E k \in IndirectSlots : d.inode[n].indirect[k] = x}

\* The i-th pointer of the given kind of the inode or index block o leads to block b.
Points(d, o, kind, i, b) ==
  \/ kind = "direct"   /\ o \in LiveIn(d)    /\ i \in DirectSlots   /\ b = d.inode[o].direct[i]
  \/ kind = "indirect" /\ o \in LiveIn(d)    /\ i \in IndirectSlots /\ b = d.inode[o].indirect[i]
  \/ kind = "index"    /\ o \in IndexesIn(d) /\ i \in IndexSlots    /\ b = d.block[o].ptr[i]

UsedSlots(d, n) == {i \in EntrySlots : Table(d, n)[i].valid = 1}

-----------------------------------------------------------------------------
\* The invariant of a disk.

\* What is in use is marked, and each block is used once.
Owned(d) ==
  /\ LiveIn(d) \subseteq d.i_bitmap
  /\ \A b, o, kind, i : b # Nil /\ Points(d, o, kind, i, b) => b \in d.d_bitmap
  /\ \A b, o, p, kind, sort, i, j :
       b # Nil /\ Points(d, o, kind, i, b) /\ Points(d, p, sort, j, b) => o = p /\ kind = sort /\ i = j

\* Pointers lead to blocks of the right kind.
DirShape(d, n) ==
  /\ d.inode[n].direct[0] # Nil
  /\ d.block[d.inode[n].direct[0]].as = "table"
  /\ \A i \in DirectSlots \ {0} : d.inode[n].direct[i] = Nil
  /\ \A k \in IndirectSlots : d.inode[n].indirect[k] = Nil

BytesAt(d, b) == b # Nil => d.block[b].as = "bytes"
IndexAt(d, x) == x # Nil => /\ d.block[x].as = "index"
                            /\ \A j \in IndexSlots : BytesAt(d, d.block[x].ptr[j])

FileShape(d, n) == /\ \A i \in DirectSlots : BytesAt(d, d.inode[n].direct[i])
                   /\ \A k \in IndirectSlots : IndexAt(d, d.inode[n].indirect[k])

Shape(d) == \A n \in LiveIn(d) : \/ d.inode[n].type = "dir"  /\ DirShape(d, n)
                                 \/ d.inode[n].type = "file" /\ FileShape(d, n)

\* A table begins with ".." and ".", and its other entries have names or are clear.
TableKept(d, n) ==
  /\ Table(d, n)[1].name = ".." /\ Table(d, n)[1].valid = 1
  /\ Table(d, n)[2] = Entry(".", n)
  /\ \A i \in EntrySlots : Table(d, n)[i].name \in (IF Table(d, n)[i].valid = 1 THEN Names ELSE {""})
  /\ \A i, j \in UsedSlots(d, n) : Table(d, n)[i].name = Table(d, n)[j].name => i = j
  /\ d.inode[n].size = Cardinality(UsedSlots(d, n))

Tree1(d) ==
  /\ IsDir(d, Root)
  /\ \A n \in LiveIn(d) : d.inode[n].type = "dir" => TableKept(d, n)
  /\ \A n \in LiveIn(d) : IsDir(d, n) => \A i \in UsedSlots(d, n) :
       LET m == Table(d, n)[i].ino
       IN  /\ m \in LiveIn(d) \ {Root}
           /\ IsDir(d, m) => Table(d, m)[1].ino = n
  /\ \A m \in LiveIn(d) \ {Root} : \E n \in LiveIn(d) :
       IsDir(d, n) /\ \E i \in UsedSlots(d, n) : Table(d, n)[i].ino = m
  /\ \A n, m \in LiveIn(d) : IsDir(d, n) /\ IsDir(d, m) =>
       \A i \in UsedSlots(d, n), j \in UsedSlots(d, m) :
         Table(d, n)[i].ino = Table(d, m)[j].ino => n = m /\ i = j

FreeZero(d) == \A b \in Blocks \ d.d_bitmap : d.block[b] = Zero

Dead(d) == \A n \in Inos \ LiveIn(d) : d.inode[n].type = "none"

Good(d) == d \in Disk /\ Owned(d) /\ Shape(d) /\ Dead(d) /\ Tree1(d) /\ FreeZero(d)

\* The disk as it will be when the write under way has written its inode.
Virtual == IF call = NoCall THEN disk ELSE [disk EXCEPT !.inode[call.ino] = call.inode]

\* g has no pointer that f has not.
Fewer(g, f) == /\ \A i \in DirectSlots : g.direct[i] \in {Nil, f.direct[i]}
               /\ \A k \in IndirectSlots : g.indirect[k] \in {Nil, f.indirect[k]}

CallKept ==
  call # NoCall =>
    /\ fs = "up"
    /\ IsFile(disk, call.ino) /\ IsFile(Virtual, call.ino)
    /\ Fewer(disk.inode[call.ino], call.inode)
    /\ call.inode.size + Len(call.words) <= MaxSize
    /\ call.off + Len(call.words) <= FileWords
    /\ call.off \div BlockSize + call.done <= (call.off + Len(call.words) - 1) \div BlockSize

IInv == /\ TypeOK
        /\ fs = "new" => call = NoCall
        /\ fs # "new" => Good(Virtual) /\ CallKept

-----------------------------------------------------------------------------
\* Numbers.

LEMMA Constants ==
  /\ MAX_INUM \in Nat \ {0} /\ MAX_DNUM \in Nat \ {0} /\ NumDirect \in Nat \ {0}
  /\ IndirectCap \in Nat \ {0} /\ BlockSize \in Nat \ {0} /\ NumIndirect \in Nat
  /\ MaxSize \in Nat /\ MaxRequest \in Nat /\ MaxEntries \in Nat /\ MaxEntries >= 2
  /\ Inos \subseteq Nat /\ Blocks \subseteq Nat /\ Root \in Inos /\ 0 \in Blocks
  /\ Nil \notin Inos /\ Nil \notin Blocks /\ Nil \in Int
  /\ "" \notin Names /\ "." \notin Names /\ ".." \notin Names
  /\ 0 \in DirectSlots
<1>1. {MAX_INUM, MAX_DNUM, NumDirect, IndirectCap, MaxDepth, BlockSize} \subseteq Nat \ {0}
  BY RufsAssumption
<1>2. {NumIndirect, MaxSize, MaxRequest} \subseteq Nat
  BY RufsAssumption
<1>3. MaxEntries \in Nat /\ MaxEntries >= 2 /\ Names \cap {"", ".", ".."} = {}
  BY RufsAssumption
<1>4. "" \notin Names /\ "." \notin Names /\ ".." \notin Names
  BY <1>3, Zenon
<1>5. /\ Inos \subseteq Nat /\ Root \in Inos /\ 0 \in DirectSlots
      /\ Blocks \subseteq Nat /\ 0 \in Blocks
  BY <1>1 DEF Inos, Blocks, Root, DirectSlots
<1>6. Nil \notin Inos /\ Nil \notin Blocks /\ Nil \in Int
  BY <1>5 DEF Nil
<1> QED
  BY <1>1, <1>2, <1>3, <1>4, <1>5, <1>6

\* The search loops end at the first number of the set, or at -1.
LEMMA FirstFacts ==
  ASSUME NEW S \in SUBSET Nat
  PROVE  /\ First[S] = Nil <=> S = {}
         /\ S # {} => First[S] \in S /\ \A m \in S : First[S] <= m
<1>1. First[S] = IF S = {} THEN Nil ELSE CHOOSE n \in S : \A m \in S : n <= m
  BY DEF First
<1>2. CASE S = {}
  BY <1>1, <1>2
<1>3. CASE S # {}
  <2> DEFINE R == {ss \in Nat \X Nat : ss[1] < ss[2]}
  <2>1. R = OpToRel(<, Nat)
    BY Zenon DEF OpToRel
  <2>2. IsWellFoundedOn(R, Nat)
    BY <2>1, NatLessThanWellFounded, Zenon
  <2> HIDE DEF R
  <2>3. PICK i \in S : \A j \in S : ~(<<j, i>> \in R)
    BY <1>3, <2>2, WFMin, Zenon
  <2>4. \A j \in S : i <= j
    <3> SUFFICES ASSUME NEW j \in S, j < i
                 PROVE  FALSE
      OBVIOUS
    <3> DEFINE ji == <<j, i>>
    <3>1. ji \in Nat \X Nat
      OBVIOUS
    <3>2. ji[1] = j /\ ji[2] = i
      OBVIOUS
    <3> HIDE DEF ji
    <3>3. ji \in R
      BY <3>1, <3>2 DEF R
    <3> QED
      BY <2>3, <3>3 DEF ji
  <2>5. First[S] \in S /\ \A m \in S : First[S] <= m
    BY <1>1, <1>3, <2>4
  <2>6. Nil \notin Nat
    BY DEF Nil
  <2> QED
    BY <1>3, <2>5, <2>6
<1> QED
  BY <1>2, <1>3

\* A number that is not marked in a bitmap, if there is one.
LEMMA AvailFacts ==
  ASSUME NEW d
  PROVE  /\ get_avail_ino(d) = Nil \/ get_avail_ino(d) \in Inos \ d.i_bitmap
         /\ get_avail_blkno(d) = Nil \/ get_avail_blkno(d) \in Blocks \ d.d_bitmap
<1>1. Inos \ d.i_bitmap \in SUBSET Nat /\ Blocks \ d.d_bitmap \in SUBSET Nat
  BY Constants
<1> QED
  BY <1>1, FirstFacts, Zenon DEF get_avail_ino, get_avail_blkno

-----------------------------------------------------------------------------
\* The kinds of values.

LEMMA DiskParts ==
  ASSUME NEW d \in Disk
  PROVE  /\ d = [i_bitmap |-> d.i_bitmap, d_bitmap |-> d.d_bitmap,
                 inode |-> d.inode, block |-> d.block]
         /\ d.i_bitmap \in SUBSET Inos /\ d.d_bitmap \in SUBSET Blocks
         /\ d.inode \in [Inos -> Inode] /\ d.block \in [Blocks -> Block]
BY DEF Disk

LEMMA DiskMake ==
  ASSUME NEW A \in SUBSET Inos, NEW B \in SUBSET Blocks,
         NEW I \in [Inos -> Inode], NEW K \in [Blocks -> Block]
  PROVE  [i_bitmap |-> A, d_bitmap |-> B, inode |-> I, block |-> K] \in Disk
BY DEF Disk

LEMMA InodeParts ==
  ASSUME NEW f \in Inode
  PROVE  /\ f.valid \in {0, 1} /\ f.type \in {"none", "file", "dir"}
         /\ f.size \in 0..(MaxSize + MaxEntries)
         /\ f.direct \in [DirectSlots -> Pointer] /\ f.indirect \in [IndirectSlots -> Pointer]
         /\ f = [valid |-> f.valid, type |-> f.type, size |-> f.size,
                 direct |-> f.direct, indirect |-> f.indirect]
BY DEF Inode, DirectSlots, IndirectSlots

LEMMA BlockParts ==
  ASSUME NEW x \in Block
  PROVE  /\ x.as \in {"bytes", "table", "index"}
         /\ x.as = "bytes" => x.val \in [0..(BlockSize - 1) -> Word] /\ x = [as |-> "bytes", val |-> x.val]
         /\ x.as = "table" => x.entry \in [1..MaxEntries -> Dirent] /\ x = [as |-> "table", entry |-> x.entry]
         /\ x.as = "index" => x.ptr \in [IndexSlots -> Pointer] /\ x = [as |-> "index", ptr |-> x.ptr]
BY DEF Block, IndexSlots

LEMMA BlockMake ==
  /\ \A v \in [0..(BlockSize - 1) -> Word] : [as |-> "bytes", val |-> v] \in Block
  /\ \A t \in [1..MaxEntries -> Dirent] : [as |-> "table", entry |-> t] \in Block
  /\ \A q \in [IndexSlots -> Pointer] : [as |-> "index", ptr |-> q] \in Block
BY DEF Block, IndexSlots

LEMMA EntryFacts ==
  /\ NoEntry.valid = 0 /\ NoEntry.valid # 1 /\ NoEntry.name = "" /\ NoEntry.ino = 0
  /\ \A name, ino : Entry(name, ino).valid = 1 /\ Entry(name, ino).name = name /\ Entry(name, ino).ino = ino
<1>1. NoEntry.valid = 0 /\ NoEntry.valid # 1
  BY DEF NoEntry
<1>2. NoEntry.name = "" /\ NoEntry.ino = 0
  BY DEF NoEntry
<1>3. \A name, ino : Entry(name, ino).valid = 1 /\ Entry(name, ino).name = name /\ Entry(name, ino).ino = ino
  BY DEF Entry
<1> QED
  BY <1>1, <1>2, <1>3, Zenon

LEMMA IndexTyped ==
  ASSUME NEW d \in Disk, NEW x \in Blocks, d.block[x].as = "index"
  PROVE  d.block[x].ptr \in [IndexSlots -> Pointer]
<1> DEFINE z == d.block[x]
<1>1. z \in Block
  BY DiskParts, Zenon
<1>2. z.as = "index"
  OBVIOUS
<1> HIDE DEF z
<1>3. z.ptr \in [IndexSlots -> Pointer]
  BY <1>1, <1>2, BlockParts, Zenon
<1> QED
  BY <1>3 DEF z

-----------------------------------------------------------------------------
\* Paths.

\* Induction over the natural numbers, for sets.
LEMMA SetInduction ==
  ASSUME NEW S \in SUBSET Nat, 0 \in S, \A n \in S : n + 1 \in S
  PROVE  Nat \subseteq S
<1> DEFINE T == Nat \ S
<1> SUFFICES ASSUME T # {} PROVE FALSE
  OBVIOUS
<1>1. T \in SUBSET Nat
  OBVIOUS
<1>2. First[T] \in T /\ \A m \in T : First[T] <= m
  BY <1>1, FirstFacts
<1> DEFINE n == First[T]
<1> HIDE DEF n
<1>3. n \in T /\ \A m \in T : n <= m
  BY <1>2 DEF n
<1>4. n \in Nat /\ n # 0 /\ n \notin S
  BY <1>3
<1>5. n - 1 \in Nat /\ n - 1 \notin T
  BY <1>3, <1>4
<1> QED
  BY <1>4, <1>5

\* What a lookup may return.
InoOrNil == Inos \cup {Nil}

\* A level of a path leads from an inode or from nothing to an inode or to nothing.
LevelTyped(d) == \A m \in InoOrNil, name \in Names : Level(d)[m][name] \in InoOrNil

\* A walk down the path p.
IsWalk(d, p, n, c) == /\ c \in [0..n -> InoOrNil]
                      /\ c[0] = Root
                      /\ \A k \in 1..n : c[k] = Level(d)[c[k - 1]][p[k]]

LEMMA WalkExists ==
  ASSUME NEW d, LevelTyped(d), NEW p \in Seq(Names)
  PROVE  \E c : IsWalk(d, p, Len(p), c)
<1> DEFINE S == {n \in Nat : n <= Len(p) => \E c : IsWalk(d, p, n, c)}
<1>1. 0 \in S
  <2> DEFINE c == [k \in 0..0 |-> Root]
  <2>1. c \in [0..0 -> InoOrNil] /\ c[0] = Root
    <3>1. 0 \in 0..0
      OBVIOUS
    <3>2. Root \in Inos
      BY Constants, Zenon
    <3> QED
      BY <3>1, <3>2, Zenon DEF InoOrNil
  <2>2. 1..0 = {}
    OBVIOUS
  <2> HIDE DEF c
  <2>3. IsWalk(d, p, 0, c)
    BY <2>1, <2>2 DEF IsWalk
  <2> QED
    BY <2>3
<1>2. ASSUME NEW n \in S PROVE n + 1 \in S
  <2> SUFFICES ASSUME n + 1 <= Len(p) PROVE \E c : IsWalk(d, p, n + 1, c)
    OBVIOUS
  <2>1. PICK c : IsWalk(d, p, n, c)
    BY LenProperties
  <2> DEFINE e == [k \in 0..(n + 1) |-> IF k <= n THEN c[k] ELSE Level(d)[c[n]][p[n + 1]]]
  <2>2. p[n + 1] \in Names
    BY ElementOfSeq
  <2>3. n \in Nat /\ c[n] \in InoOrNil
    BY <2>1 DEF IsWalk
  <2>4. Level(d)[c[n]][p[n + 1]] \in InoOrNil
    BY <2>2, <2>3 DEF LevelTyped
  <2>5. e \in [0..(n + 1) -> InoOrNil]
    BY <2>1, <2>3, <2>4 DEF IsWalk
  <2>6. e[0] = Root
    BY <2>1, <2>3 DEF IsWalk
  <2>7. ASSUME NEW k \in 1..(n + 1) PROVE e[k] = Level(d)[e[k - 1]][p[k]]
    <3>1. CASE k <= n
      BY <2>1, <2>3, <3>1 DEF IsWalk
    <3>2. CASE k = n + 1
      BY <2>3, <3>2
    <3> QED
      BY <2>3, <3>1, <3>2
  <2>8. IsWalk(d, p, n + 1, e)
    BY <2>5, <2>6, <2>7 DEF IsWalk
  <2> QED
    BY <2>8
<1> HIDE DEF S
<1>3. Nat \subseteq S
  <2>1. S \in SUBSET Nat
    BY DEF S
  <2> QED
    BY <1>1, <1>2, <2>1, SetInduction
<1>4. Len(p) \in S
  BY <1>3, LenProperties
<1> QED
  BY <1>4, LenProperties DEF S

\* Two walks down paths that agree are the same.
LEMMA WalkUnique ==
  ASSUME NEW d, NEW p, NEW q, NEW n \in Nat, NEW m \in Nat, NEW c, NEW e,
         IsWalk(d, p, n, c), IsWalk(d, q, m, e), \A k \in 1..n : p[k] = q[k], n <= m
  PROVE  \A k \in 0..n : c[k] = e[k]
<1> DEFINE S == {k \in Nat : k <= n => c[k] = e[k]}
<1>1. 0 \in S
  BY DEF IsWalk
<1>2. ASSUME NEW k \in S PROVE k + 1 \in S
  <2> SUFFICES ASSUME k + 1 <= n PROVE c[k + 1] = e[k + 1]
    OBVIOUS
  <2>1. k + 1 \in 1..n /\ k + 1 \in 1..m /\ (k + 1) - 1 = k /\ c[k] = e[k]
    OBVIOUS
  <2>2. c[k + 1] = Level(d)[c[k]][p[k + 1]] /\ e[k + 1] = Level(d)[e[k]][q[k + 1]]
    BY <2>1 DEF IsWalk
  <2> QED
    BY <2>1, <2>2
<1> HIDE DEF S
<1>3. Nat \subseteq S
  <2>1. S \in SUBSET Nat
    BY DEF S
  <2> QED
    BY <1>1, <1>2, <2>1, SetInduction
<1> QED
  BY <1>3 DEF S

\* get_node_by_path is the end of the walk.
LEMMA WalkIsLookup ==
  ASSUME NEW d, LevelTyped(d), NEW p \in Seq(Names), NEW c, IsWalk(d, p, Len(p), c)
  PROVE  get_node_by_path(d, p) = c[Len(p)]
<1> DEFINE Body(f) == [k \in 0..Len(p) |-> IF k = 0 THEN Root ELSE Level(d)[f[k - 1]][p[k]]]
           node    == CHOOSE f : f = Body(f)
<1>1. Len(p) \in Nat
  BY LenProperties
<1>2. c = Body(c)
  <2>1. c \in [0..Len(p) -> InoOrNil]
    BY DEF IsWalk
  <2>2. \A k \in 0..Len(p) : c[k] = IF k = 0 THEN Root ELSE Level(d)[c[k - 1]][p[k]]
    BY <1>1 DEF IsWalk
  <2> QED
    BY <2>1, <2>2
<1>3. node = Body(node)
  BY <1>2
<1> DEFINE S == {k \in Nat : k <= Len(p) => c[k] = node[k]}
<1> HIDE DEF node
<1>4. 0 \in S
  BY <1>1, <1>2, <1>3
<1>5. ASSUME NEW k \in S PROVE k + 1 \in S
  <2> SUFFICES ASSUME k + 1 <= Len(p) PROVE c[k + 1] = node[k + 1]
    OBVIOUS
  <2> DEFINE j == k + 1
  <2>1. j \in 0..Len(p) /\ j # 0 /\ j - 1 = k /\ c[k] = node[k]
    BY <1>1
  <2> HIDE DEF j
  <2>2. c[j] = Level(d)[c[j - 1]][p[j]]
    BY <1>2, <2>1
  <2>3. node[j] = Level(d)[node[j - 1]][p[j]]
    BY <1>3, <2>1
  <2> QED
    BY <2>1, <2>2, <2>3 DEF j
<1>6. Nat \subseteq S
  <2>1. S \in SUBSET Nat
    OBVIOUS
  <2> HIDE DEF S
  <2> QED
    BY <1>4, <1>5, <2>1, SetInduction
<1>7. get_node_by_path(d, p) = node[Len(p)]
  BY DEF get_node_by_path, node
<1> QED
  BY <1>1, <1>6, <1>7

\* A path is its parent's path and one more level.
\* A path without its last name, and the path as the two.
LEMMA ParentSeq ==
  ASSUME NEW p \in Seq(Names), p # <<>>
  PROVE  /\ Parent(p) \in Seq(Names) /\ Len(Parent(p)) = Len(p) - 1 /\ Len(p) \in Nat \ {0}
         /\ \A k \in 1..(Len(p) - 1) : Parent(p)[k] = p[k]
         /\ Name(p) \in Names
<1>1. Len(p) \in Nat \ {0}
  BY LenProperties, EmptySeq
<1>2. Parent(p) \in Seq(Names) /\ Len(Parent(p)) = Len(p) - 1
      /\ \A k \in 1..(Len(p) - 1) : Parent(p)[k] = p[k]
  <2> DEFINE m == Len(p) - 1
  <2>1. m \in Int /\ 1 \in Int /\ \A i \in 1..m : p[i] \in Names
    BY <1>1, ElementOfSeq
  <2>2. /\ SubSeq(p, 1, m) \in Seq(Names)
        /\ Len(SubSeq(p, 1, m)) = IF 1 <= m THEN m - 1 + 1 ELSE 0
        /\ \A i \in 1..(m - 1 + 1) : SubSeq(p, 1, m)[i] = p[1 + i - 1]
    <3> HIDE DEF m
    <3> QED
      BY <2>1, SubSeqProperties
  <2>3. m \in Nat
    BY <1>1
  <2>4. Len(SubSeq(p, 1, m)) = m /\ \A i \in 1..m : SubSeq(p, 1, m)[i] = p[i]
    <3> DEFINE q == SubSeq(p, 1, m)
    <3> HIDE DEF q, m
    <3>1. Len(q) = (IF 1 <= m THEN m - 1 + 1 ELSE 0) /\ \A i \in 1..(m - 1 + 1) : q[i] = p[1 + i - 1]
      BY <2>2 DEF q
    <3>2. Len(q) = m /\ \A i \in 1..m : 1 + i - 1 = i
      BY <2>3, <3>1
    <3>3. \A i \in 1..m : q[i] = p[i]
      BY <2>3, <3>1, <3>2
    <3> QED
      BY <3>2, <3>3 DEF q
  <2> QED
    BY <2>2, <2>4 DEF Parent
<1>3. Name(p) \in Names
  BY <1>1, ElementOfSeq DEF Name
<1> QED
  BY <1>1, <1>2, <1>3

LEMMA LookupStep ==
  ASSUME NEW d, LevelTyped(d), NEW p \in Seq(Names)
  PROVE  /\ p = <<>> => get_node_by_path(d, p) = Root
         /\ p # <<>> => /\ Parent(p) \in Seq(Names) /\ Len(Parent(p)) = Len(p) - 1
                        /\ Name(p) \in Names
                        /\ get_node_by_path(d, p) = Level(d)[get_node_by_path(d, Parent(p))][Name(p)]
         /\ get_node_by_path(d, p) \in InoOrNil
<1>1. PICK c : IsWalk(d, p, Len(p), c)
  BY WalkExists
<1>2. get_node_by_path(d, p) = c[Len(p)]
  BY <1>1, WalkIsLookup
<1>3. Len(p) \in Nat
  BY LenProperties
<1>4. get_node_by_path(d, p) \in InoOrNil
  BY <1>1, <1>2, <1>3 DEF IsWalk
<1>5. CASE p = <<>>
  <2>1. Len(p) = 0
    BY <1>5
  <2> QED
    BY <1>1, <1>2, <1>4, <1>5, <2>1 DEF IsWalk
<1>6. CASE p # <<>>
  <2>1. Len(p) \in Nat \ {0}
    BY <1>6, ParentSeq
  <2>2. Parent(p) \in Seq(Names) /\ Len(Parent(p)) = Len(p) - 1
        /\ \A k \in 1..(Len(p) - 1) : Parent(p)[k] = p[k]
    BY <1>6, ParentSeq
  <2>3. Name(p) \in Names
    BY <1>6, ParentSeq
  <2>4. PICK e : IsWalk(d, Parent(p), Len(p) - 1, e)
    BY <2>2, WalkExists
  <2>5. get_node_by_path(d, Parent(p)) = e[Len(p) - 1]
    BY <2>2, <2>4, WalkIsLookup
  <2>6. e[Len(p) - 1] = c[Len(p) - 1]
    <3> DEFINE n == Len(p) - 1
               m == Len(p)
    <3>1. n \in Nat /\ m \in Nat /\ n <= m /\ n \in 0..n
      BY <2>1
    <3>2. IsWalk(d, Parent(p), n, e) /\ IsWalk(d, p, m, c) /\ \A k \in 1..n : Parent(p)[k] = p[k]
      BY <1>1, <2>2, <2>4
    <3> HIDE DEF n, m
    <3>3. \A k \in 0..n : e[k] = c[k]
      BY <3>1, <3>2, WalkUnique
    <3> QED
      BY <3>1, <3>3 DEF n
  <2>7. c[Len(p)] = Level(d)[c[Len(p) - 1]][p[Len(p)]]
    BY <1>1, <2>1 DEF IsWalk
  <2> QED
    BY <1>2, <1>4, <1>6, <2>2, <2>3, <2>5, <2>6, <2>7 DEF Name
<1> QED
  BY <1>5, <1>6

-----------------------------------------------------------------------------
\* Directories.

\* The blocks of the table of a directory.
LEMMA TableFacts ==
  ASSUME NEW d \in Disk, NEW n \in Inos, d.inode[n].type = "dir", Dead(d), Shape(d)
  PROVE  /\ IsDir(d, n) /\ DirShape(d, n)
         /\ d.inode[n].direct[0] \in Blocks
         /\ d.block[d.inode[n].direct[0]] = [as |-> "table", entry |-> Table(d, n)]
         /\ Table(d, n) \in [1..MaxEntries -> Dirent]
<1>1. n \in LiveIn(d)
  BY DEF Dead
<1>2. DirShape(d, n) /\ IsDir(d, n)
  BY <1>1 DEF Shape, IsDir
<1>3. d.inode[n] \in Inode /\ 0 \in DirectSlots
  BY DiskParts, Constants, Zenon
<1>4. d.inode[n].direct[0] \in Pointer
  BY <1>3, InodeParts
<1>5. d.inode[n].direct[0] \in Blocks
  BY <1>2, <1>4 DEF DirShape, Pointer
<1>6. d.block[d.inode[n].direct[0]] \in Block
  BY <1>5, DiskParts, Zenon
<1> QED
  BY <1>2, <1>5, <1>6, BlockParts DEF DirShape, Table

\* What dir_find finds.
LEMMA SlotFacts ==
  ASSUME NEW d, NEW n, NEW name
  PROVE  /\ Slot(d, n, name) = Nil => \A i \in 1..MaxEntries : Table(d, n)[i].name # name
         /\ Slot(d, n, name) # Nil => /\ Slot(d, n, name) \in 1..MaxEntries
                                      /\ Table(d, n)[Slot(d, n, name)].name = name
<1> DEFINE S == {i \in 1..MaxEntries : Table(d, n)[i].name = name}
<1>1. S \in SUBSET Nat
  OBVIOUS
<1>2. Slot(d, n, name) = First[S]
  BY DEF Slot
<1>3. (First[S] = Nil <=> S = {}) /\ (S # {} => First[S] \in S)
  BY <1>1, FirstFacts
<1> QED
  BY <1>2, <1>3

LEMMA FindTyped ==
  ASSUME NEW d \in Disk, NEW n \in Inos, d.inode[n].type = "dir", Dead(d), Shape(d), NEW name
  PROVE  /\ dir_find(d, n, name) \in InoOrNil
         /\ dir_find(d, n, name) = Nil <=> Slot(d, n, name) = Nil
         /\ Slot(d, n, name) # Nil => dir_find(d, n, name) = Table(d, n)[Slot(d, n, name)].ino
<1>1. Table(d, n) \in [1..MaxEntries -> Dirent]
  BY TableFacts
<1>2. ASSUME Slot(d, n, name) # Nil
      PROVE  Table(d, n)[Slot(d, n, name)].ino \in Inos
  <2>1. Table(d, n)[Slot(d, n, name)] \in Dirent
    BY <1>1, <1>2, SlotFacts
  <2> QED
    BY <2>1 DEF Dirent
<1>3. Nil \notin Inos
  BY Constants, Zenon
<1> QED
  BY <1>2, <1>3 DEF dir_find, InoOrNil

LEMMA LevelIsTyped ==
  ASSUME NEW d \in Disk, Dead(d), Shape(d)
  PROVE  LevelTyped(d)
<1> SUFFICES ASSUME NEW m \in InoOrNil, NEW name \in Names
             PROVE  Level(d)[m][name] \in InoOrNil
  BY DEF LevelTyped
<1>1. Level(d)[m][name] = IF m = Nil \/ d.inode[m].type # "dir" THEN Nil ELSE dir_find(d, m, name)
  BY DEF Level, InoOrNil
<1>2. CASE m = Nil \/ d.inode[m].type # "dir"
  BY <1>1, <1>2 DEF InoOrNil
<1>3. CASE ~(m = Nil \/ d.inode[m].type # "dir")
  <2>1. m \in Inos /\ d.inode[m].type = "dir"
    BY <1>3 DEF InoOrNil
  <2> QED
    BY <1>1, <1>3, <2>1, FindTyped
<1> QED
  BY <1>2, <1>3

\* A name leads to the inode of its entry.
LEMMA LevelFacts ==
  ASSUME NEW d, Good(d), NEW m \in InoOrNil, NEW name \in Names
  PROVE  Level(d)[m][name] # Nil =>
           /\ IsDir(d, m)
           /\ Slot(d, m, name) \in UsedSlots(d, m)
           /\ Table(d, m)[Slot(d, m, name)].name = name
           /\ Level(d)[m][name] = Table(d, m)[Slot(d, m, name)].ino
           /\ Level(d)[m][name] \in LiveIn(d) \ {Root}
<1> SUFFICES ASSUME Level(d)[m][name] # Nil
             PROVE  /\ IsDir(d, m)
                    /\ Slot(d, m, name) \in UsedSlots(d, m)
                    /\ Table(d, m)[Slot(d, m, name)].name = name
                    /\ Level(d)[m][name] = Table(d, m)[Slot(d, m, name)].ino
                    /\ Level(d)[m][name] \in LiveIn(d) \ {Root}
  OBVIOUS
<1> DEFINE i == Slot(d, m, name)
<1>0. d \in Disk /\ Dead(d) /\ Shape(d) /\ Tree1(d)
  BY DEF Good
<1>1. Level(d)[m][name] = IF m = Nil \/ d.inode[m].type # "dir" THEN Nil ELSE dir_find(d, m, name)
  BY DEF Level, InoOrNil
<1>2. m \in Inos /\ d.inode[m].type = "dir" /\ Level(d)[m][name] = dir_find(d, m, name)
  BY <1>1 DEF InoOrNil
<1>3. IsDir(d, m) /\ Table(d, m) \in [1..MaxEntries -> Dirent]
  BY <1>0, <1>2, TableFacts
<1>4. i # Nil /\ Level(d)[m][name] = Table(d, m)[i].ino
  BY <1>0, <1>2, FindTyped
<1>5. i \in 1..MaxEntries /\ Table(d, m)[i].name = name
  BY <1>4, SlotFacts
<1>6. TableKept(d, m)
  BY <1>0, <1>3 DEF Tree1, IsDir
<1>7. name # "" /\ name # "." /\ name # ".."
  BY Constants, Zenon
<1>8. i # 1
  BY <1>5, <1>6, <1>7 DEF TableKept
<1>9. i # 2
  <2>1. Table(d, m)[2] = Entry(".", m)
    BY <1>6, Zenon DEF TableKept
  <2>2. Entry(".", m).name = "."
    BY DEF Entry
  <2>3. i = 2 => name = "."
    BY <1>5, <2>1, <2>2, Zenon
  <2> QED
    BY <1>7, <2>3, Zenon
<1>10. i \in EntrySlots
  <2>1. MaxEntries \in Nat
    BY Constants, Zenon
  <2> QED
    BY <1>5, <1>8, <1>9, <2>1 DEF EntrySlots
<1>11. Table(d, m)[i].valid = 1
  BY <1>5, <1>6, <1>7, <1>10 DEF TableKept
<1>12. i \in UsedSlots(d, m)
  BY <1>10, <1>11 DEF UsedSlots
<1>13. Table(d, m)[i].ino \in LiveIn(d) \ {Root}
  BY <1>0, <1>3, <1>12 DEF Tree1, IsDir
<1> QED
  BY <1>3, <1>4, <1>5, <1>12, <1>13

\* A lookup finds an inode in use, or nothing.
LEMMA LookupLive ==
  ASSUME NEW d, Good(d), NEW p \in Seq(Names)
  PROVE  get_node_by_path(d, p) \in LiveIn(d) \cup {Nil}
<1>1. LevelTyped(d)
  BY LevelIsTyped DEF Good
<1>2. CASE p = <<>>
  <2>1. get_node_by_path(d, p) = Root
    BY <1>1, <1>2, LookupStep
  <2>2. Root \in LiveIn(d)
    BY Zenon DEF Good, Tree1, IsDir
  <2> QED
    BY <2>1, <2>2
<1>3. CASE p # <<>>
  <2>1. /\ Parent(p) \in Seq(Names) /\ Name(p) \in Names
        /\ get_node_by_path(d, p) = Level(d)[get_node_by_path(d, Parent(p))][Name(p)]
    BY <1>1, <1>3, LookupStep
  <2>2. get_node_by_path(d, Parent(p)) \in InoOrNil
    BY <1>1, <2>1, LookupStep
  <2> QED
    BY <2>1, <2>2, LevelFacts
<1> QED
  BY <1>2, <1>3

-----------------------------------------------------------------------------
\* What the parts of the invariant are kept by.

\* Every pointer of e is one of d, or the one new pointer, to a block that was free.
OneNew(d, e, b0, o0, kind0, i0) ==
  /\ b0 \notin d.d_bitmap /\ b0 \in e.d_bitmap
  /\ \A b, o, kind, i : b # Nil /\ Points(e, o, kind, i, b) =>
       \/ Points(d, o, kind, i, b) /\ b \in e.d_bitmap
       \/ b = b0 /\ o = o0 /\ kind = kind0 /\ i = i0

LEMMA OwnedKept ==
  ASSUME NEW d, NEW e, Owned(d), LiveIn(e) \subseteq e.i_bitmap,
         NEW b0, NEW o0, NEW kind0, NEW i0, OneNew(d, e, b0, o0, kind0, i0)
  PROVE  Owned(e)
<1> USE DEF OneNew
<1>1. ASSUME NEW b, NEW o, NEW kind, NEW i, b # Nil, Points(e, o, kind, i, b)
      PROVE  b \in e.d_bitmap
  BY <1>1
<1>2. ASSUME NEW b, NEW o, NEW p, NEW kind, NEW sort, NEW i, NEW j,
             b # Nil, Points(e, o, kind, i, b), Points(e, p, sort, j, b)
      PROVE  o = p /\ kind = sort /\ i = j
  <2>1. CASE b = b0
    <3>1. ~Points(d, o, kind, i, b) /\ ~Points(d, p, sort, j, b)
      BY <1>2, <2>1, Zenon DEF Owned
    <3>2. o = o0 /\ kind = kind0 /\ i = i0
      BY <1>2, <3>1
    <3>3. p = o0 /\ sort = kind0 /\ j = i0
      BY <1>2, <3>1
    <3> QED
      BY <3>2, <3>3, Zenon
  <2>2. CASE b # b0
    <3>1. Points(d, o, kind, i, b) /\ Points(d, p, sort, j, b)
      BY <1>2, <2>2, Zenon
    <3> QED
      BY <1>2, <3>1, Zenon DEF Owned
  <2> QED
    BY <2>1, <2>2
<1> QED
  BY <1>1, <1>2, Zenon DEF Owned

\* A directory keeps its shape with its pointers and its table.
LEMMA DirShapeKept ==
  ASSUME NEW d, NEW e, NEW n, DirShape(d, n), e.block[d.inode[n].direct[0]].as = "table",
         e.inode[n].direct = d.inode[n].direct, e.inode[n].indirect = d.inode[n].indirect
  PROVE  DirShape(e, n)
BY DEF DirShape

\* Every pointer of e is one of d.
LEMMA OwnedFewer ==
  ASSUME NEW d, NEW e, Owned(d), LiveIn(e) \subseteq e.i_bitmap,
         \A b, o, kind, i : b # Nil /\ Points(e, o, kind, i, b) =>
            Points(d, o, kind, i, b) /\ b \in e.d_bitmap
  PROVE  Owned(e)
<1>1. ASSUME NEW b, NEW o, NEW p, NEW kind, NEW sort, NEW i, NEW j,
             b # Nil, Points(e, o, kind, i, b), Points(e, p, sort, j, b)
      PROVE  o = p /\ kind = sort /\ i = j
  <2>1. Points(d, o, kind, i, b) /\ Points(d, p, sort, j, b)
    BY <1>1, Zenon
  <2> QED
    BY <1>1, <2>1, ZenonT(40) DEF Owned
<1> QED
  BY <1>1, Zenon DEF Owned

\* The directories are as they were.
LEMMA TreeSame ==
  ASSUME NEW d, NEW e, Tree1(d), LiveIn(e) = LiveIn(d),
         \A n \in LiveIn(d) : e.inode[n].type = d.inode[n].type,
         \A n \in LiveIn(d) : IsDir(d, n) => /\ Table(e, n) = Table(d, n)
                                             /\ e.inode[n].size = d.inode[n].size
  PROVE  Tree1(e)
<1>1. \A n : IsDir(e, n) <=> IsDir(d, n)
  BY DEF IsDir
<1>2. \A n : IsDir(d, n) => Table(e, n) = Table(d, n) /\ UsedSlots(e, n) = UsedSlots(d, n)
  BY DEF IsDir, UsedSlots
<1>3. IsDir(e, Root)
  BY <1>1 DEF Tree1
<1>4. ASSUME NEW n \in LiveIn(e), e.inode[n].type = "dir"
      PROVE  TableKept(e, n)
  <2>1. IsDir(d, n) /\ TableKept(d, n)
    BY <1>4 DEF IsDir, Tree1
  <2>2. Table(e, n) = Table(d, n) /\ UsedSlots(e, n) = UsedSlots(d, n) /\ e.inode[n].size = d.inode[n].size
    BY <1>2, <2>1 DEF IsDir
  <2> QED
    BY <2>1, <2>2, Zenon DEF TableKept
<1>5. ASSUME NEW n \in LiveIn(e), IsDir(e, n), NEW i \in UsedSlots(e, n)
      PROVE  LET m == Table(e, n)[i].ino
             IN  /\ m \in LiveIn(e) \ {Root}
                 /\ IsDir(e, m) => Table(e, m)[1].ino = n
  <2>1. IsDir(d, n) /\ i \in UsedSlots(d, n) /\ Table(e, n) = Table(d, n)
    BY <1>1, <1>2, <1>5
  <2> QED
    BY <1>1, <1>2, <2>1 DEF Tree1, IsDir
<1>6. ASSUME NEW m \in LiveIn(e) \ {Root}
      PROVE  \E n \in LiveIn(e) : IsDir(e, n) /\ \E i \in UsedSlots(e, n) : Table(e, n)[i].ino = m
  BY <1>1, <1>2 DEF Tree1
<1>7. ASSUME NEW n \in LiveIn(e), NEW m \in LiveIn(e), IsDir(e, n), IsDir(e, m),
             NEW i \in UsedSlots(e, n), NEW j \in UsedSlots(e, m),
             Table(e, n)[i].ino = Table(e, m)[j].ino
      PROVE  n = m /\ i = j
  BY <1>1, <1>2, <1>7 DEF Tree1
<1> QED
  BY <1>3, <1>4, <1>5, <1>6, <1>7, Zenon DEF Tree1

\* The bitmaps may grow.
LEMMA BitsGood ==
  ASSUME NEW d, Good(d), NEW e \in Disk, e.inode = d.inode, e.block = d.block,
         d.i_bitmap \subseteq e.i_bitmap, d.d_bitmap \subseteq e.d_bitmap
  PROVE  Good(e)
<1>1. LiveIn(e) = LiveIn(d) /\ IndexesIn(e) = IndexesIn(d)
  BY DEF LiveIn, IndexesIn
<1>2. \A n : Table(e, n) = Table(d, n)
  BY DEF Table
<1>3. Owned(e)
  <2>1. \A b, o, kind, i : Points(e, o, kind, i, b) <=> Points(d, o, kind, i, b)
    BY <1>1 DEF Points
  <2>2. Owned(d)
    BY DEF Good
  <2>3. LiveIn(e) \subseteq e.i_bitmap
    BY <1>1, <2>2 DEF Owned
  <2>4. \A b, o, kind, i : b # Nil /\ Points(d, o, kind, i, b) => b \in e.d_bitmap
    BY <2>2 DEF Owned
  <2> QED
    BY <2>1, <2>2, <2>3, <2>4, OwnedFewer, Zenon
<1>4. Shape(e)
  <2>1. \A n : DirShape(d, n) => DirShape(e, n)
    BY DEF DirShape
  <2>2. ASSUME NEW n, FileShape(d, n) PROVE FileShape(e, n)
    <3>1. \A b : BytesAt(d, b) <=> BytesAt(e, b)
      BY DEF BytesAt
    <3>2. \A x : IndexAt(d, x) <=> IndexAt(e, x)
      BY <3>1 DEF IndexAt
    <3> QED
      BY <2>2, <3>1, <3>2 DEF FileShape
  <2> QED
    BY <1>1, <2>1, <2>2 DEF Good, Shape
<1>5. Dead(e)
  BY <1>1 DEF Good, Dead
<1>6. Tree1(e)
  BY <1>1, <1>2, TreeSame DEF Good
<1>7. FreeZero(e)
  BY DEF Good, FreeZero
<1> QED
  BY <1>3, <1>4, <1>5, <1>6, <1>7 DEF Good

-----------------------------------------------------------------------------
\* Changes of a file.

\* Pointers lead to blocks that are marked.
LEMMA PointsFacts ==
  ASSUME NEW d, Good(d), NEW n \in LiveIn(d)
  PROVE  /\ \A i \in DirectSlots : /\ Points(d, n, "direct", i, d.inode[n].direct[i])
                                   /\ d.inode[n].direct[i] # Nil => d.inode[n].direct[i] \in d.d_bitmap
                                   /\ d.inode[n].direct[i] \in Pointer
         /\ \A k \in IndirectSlots :
              LET x == d.inode[n].indirect[k]
              IN  /\ Points(d, n, "indirect", k, x)
                  /\ x \in Pointer
                  /\ x # Nil => /\ x \in d.d_bitmap
                                /\ x \in IndexesIn(d)
                                /\ \A j \in IndexSlots :
                                     /\ Points(d, x, "index", j, d.block[x].ptr[j])
                                     /\ d.block[x].ptr[j] # Nil => d.block[x].ptr[j] \in d.d_bitmap
<1>1. d \in Disk /\ Owned(d)
  BY DEF Good
<1>2. d.inode[n] \in Inode
  BY <1>1, DiskParts DEF LiveIn
<1>3. ASSUME NEW i \in DirectSlots
      PROVE  /\ Points(d, n, "direct", i, d.inode[n].direct[i])
             /\ d.inode[n].direct[i] # Nil => d.inode[n].direct[i] \in d.d_bitmap
             /\ d.inode[n].direct[i] \in Pointer
  <2>1. Points(d, n, "direct", i, d.inode[n].direct[i])
    BY DEF Points
  <2>2. d.inode[n].direct[i] \in Pointer
    BY <1>2, InodeParts
  <2> QED
    BY <1>1, <2>1, <2>2, Zenon DEF Owned
<1>4. ASSUME NEW k \in IndirectSlots, NEW x, x = d.inode[n].indirect[k]
      PROVE  /\ Points(d, n, "indirect", k, x)
             /\ x \in Pointer
             /\ x # Nil => /\ x \in d.d_bitmap
                           /\ x \in IndexesIn(d)
                           /\ \A j \in IndexSlots :
                                /\ Points(d, x, "index", j, d.block[x].ptr[j])
                                /\ d.block[x].ptr[j] # Nil => d.block[x].ptr[j] \in d.d_bitmap
  <2>1. Points(d, n, "indirect", k, x)
    BY <1>4 DEF Points
  <2>2. x \in Pointer
    BY <1>2, <1>4, InodeParts
  <2>3. ASSUME x # Nil
        PROVE  x \in d.d_bitmap /\ x \in IndexesIn(d)
    <3>1. x \in d.d_bitmap
      BY <1>1, <2>1, <2>3, Zenon DEF Owned
    <3>2. x \in Blocks
      BY <2>2, <2>3 DEF Pointer
    <3> QED
      BY <1>4, <3>1, <3>2 DEF IndexesIn
  <2>4. ASSUME x # Nil, NEW j \in IndexSlots
        PROVE  /\ Points(d, x, "index", j, d.block[x].ptr[j])
               /\ d.block[x].ptr[j] # Nil => d.block[x].ptr[j] \in d.d_bitmap
    <3>1. Points(d, x, "index", j, d.block[x].ptr[j])
      BY <2>3, <2>4 DEF Points
    <3> QED
      BY <1>1, <3>1, Zenon DEF Owned
  <2> QED
    BY <2>1, <2>2, <2>3, <2>4
<1> QED
  BY <1>3, <1>4

\* How a change of file ino may change block b.
Rewritten(d, e, ino, b) ==
  \/ e.block[b] = d.block[b]
  \/ b \notin d.d_bitmap /\ b \in e.d_bitmap
  \/ b \in d.d_bitmap /\ d.block[b].as = "bytes" /\ e.block[b].as = "bytes"
  \/ d.block[b].as = "index" /\ \E k \in IndirectSlots : d.inode[ino].indirect[k] = b

\* The directories and the other files do not notice it.
LEMMA FileGood ==
  ASSUME NEW d, Good(d), NEW e \in Disk, NEW ino \in Inos, IsFile(d, ino), IsFile(e, ino),
         \A n \in Inos \ {ino} : e.inode[n] = d.inode[n],
         e.i_bitmap = d.i_bitmap, d.d_bitmap \subseteq e.d_bitmap,
         \A b \in Blocks : Rewritten(d, e, ino, b),
         Owned(e), FileShape(e, ino)
  PROVE  Good(e)
<1>0. d \in Disk /\ Owned(d) /\ Shape(d) /\ Dead(d) /\ Tree1(d) /\ FreeZero(d)
  BY DEF Good
<1>1. LiveIn(e) = LiveIn(d)
  BY DEF LiveIn, IsFile
<1>2. ASSUME NEW n, IsDir(d, n)
      PROVE  e.inode[n] = d.inode[n] /\ e.block[d.inode[n].direct[0]] = d.block[d.inode[n].direct[0]]
  <2>1. n \in Inos \ {ino} /\ n \in LiveIn(d) /\ d.inode[n].type = "dir"
    BY <1>2 DEF IsDir, IsFile, LiveIn
  <2>2. DirShape(d, n) /\ d.inode[n].direct[0] \in Blocks
    BY <1>0, <2>1, TableFacts
  <2> DEFINE b == d.inode[n].direct[0]
  <2>3. b # Nil /\ d.block[b].as = "table"
    BY <2>2 DEF DirShape
  <2>4. b \in d.d_bitmap
    BY <2>1, <2>3, PointsFacts, Constants
  <2>5. Rewritten(d, e, ino, b)
    BY <2>2
  <2> HIDE DEF b
  <2>6. e.block[b] = d.block[b]
    BY <2>3, <2>4, <2>5 DEF Rewritten
  <2> QED
    BY <2>1, <2>6 DEF b
<1>3. \A n \in LiveIn(d) : e.inode[n].type = d.inode[n].type
  BY DEF LiveIn, IsFile
<1>4. Tree1(e)
  <2>1. \A n \in LiveIn(d) : IsDir(d, n) => Table(e, n) = Table(d, n) /\ e.inode[n].size = d.inode[n].size
    BY <1>2 DEF Table
  <2> QED
    BY <1>0, <1>1, <1>3, <2>1, TreeSame
<1>5. Dead(e)
  BY <1>0, <1>1 DEF Dead, IsFile
<1>6. FreeZero(e)
  <2> SUFFICES ASSUME NEW b \in Blocks, b \notin e.d_bitmap PROVE e.block[b] = Zero
    BY DEF FreeZero
  <2>1. b \notin d.d_bitmap /\ d.block[b] = Zero
    BY <1>0 DEF FreeZero
  <2>2. d.block[b].as # "index"
    BY <2>1 DEF Zero
  <2> QED
    BY <2>1, <2>2 DEF Rewritten
<1>7. ASSUME NEW b, b # Nil => b \in d.d_bitmap, BytesAt(d, b)
      PROVE  BytesAt(e, b)
  <2> SUFFICES ASSUME b # Nil PROVE e.block[b].as = "bytes"
    BY DEF BytesAt
  <2>1. b \in d.d_bitmap /\ b \in Blocks /\ d.block[b].as = "bytes"
    BY <1>0, <1>7, DiskParts DEF BytesAt
  <2> QED
    BY <2>1 DEF Rewritten
<1>8. ASSUME NEW n \in LiveIn(d), n # ino, FileShape(d, n)
      PROVE  FileShape(e, n)
  <2>1. e.inode[n] = d.inode[n]
    BY <1>8 DEF LiveIn
  <2>2. ASSUME NEW i \in DirectSlots
        PROVE  BytesAt(e, e.inode[n].direct[i])
    BY <1>7, <1>8, <2>1, <2>2, PointsFacts DEF FileShape
  <2>3. ASSUME NEW k \in IndirectSlots
        PROVE  IndexAt(e, e.inode[n].indirect[k])
    <3> DEFINE x == d.inode[n].indirect[k]
    <3> SUFFICES ASSUME x # Nil
                 PROVE  e.block[x].as = "index" /\ \A j \in IndexSlots : BytesAt(e, e.block[x].ptr[j])
      BY <2>1 DEF IndexAt
    <3>1. /\ Points(d, n, "indirect", k, x) /\ x \in d.d_bitmap
          /\ \A j \in IndexSlots : d.block[x].ptr[j] # Nil => d.block[x].ptr[j] \in d.d_bitmap
      BY PointsFacts, Zenon
    <3>2. IndexAt(d, x)
      BY <1>8 DEF FileShape
    <3> HIDE DEF x
    <3>3. d.block[x].as = "index" /\ \A j \in IndexSlots : BytesAt(d, d.block[x].ptr[j])
      BY <3>2 DEF IndexAt
    <3>4. ~ \E l \in IndirectSlots : d.inode[ino].indirect[l] = x
      <4> SUFFICES ASSUME NEW l \in IndirectSlots, d.inode[ino].indirect[l] = x PROVE FALSE
        OBVIOUS
      <4>1. Points(d, ino, "indirect", l, x)
        BY DEF Points, IsFile
      <4> QED
        BY <1>0, <1>8, <3>1, <4>1, Zenon DEF Owned
    <3>5. x \in Blocks
      BY <1>0, <3>1, DiskParts
    <3>6. e.block[x] = d.block[x]
      BY <3>1, <3>3, <3>4, <3>5 DEF Rewritten
    <3> QED
      BY <1>7, <3>1, <3>3, <3>6
  <2> QED
    BY <2>2, <2>3 DEF FileShape
<1>9. Shape(e)
  <2> SUFFICES ASSUME NEW n \in LiveIn(e)
               PROVE  \/ e.inode[n].type = "dir"  /\ DirShape(e, n)
                      \/ e.inode[n].type = "file" /\ FileShape(e, n)
    BY DEF Shape
  <2>1. CASE n = ino
    BY <2>1 DEF IsFile
  <2>2. CASE n # ino /\ d.inode[n].type = "dir"
    <3>1. IsDir(d, n) /\ DirShape(d, n)
      BY <1>0, <1>1, <2>2 DEF Shape, IsDir
    <3>2. e.inode[n] = d.inode[n] /\ e.block[d.inode[n].direct[0]] = d.block[d.inode[n].direct[0]]
      BY <1>2, <3>1
    <3> QED
      BY <2>2, <3>1, <3>2 DEF DirShape
  <2>3. CASE n # ino /\ d.inode[n].type # "dir"
    <3>1. n \in LiveIn(d) /\ d.inode[n].type = "file" /\ FileShape(d, n)
      BY <1>0, <1>1, <2>3 DEF Shape
    <3> QED
      BY <1>3, <1>8, <2>3, <3>1
  <2> QED
    BY <2>1, <2>2, <2>3
<1> QED
  BY <1>4, <1>5, <1>6, <1>9 DEF Good

\* The words of a block are written.
LEMMA DataGood ==
  ASSUME NEW d, Good(d), NEW e \in Disk, NEW ino \in Inos, IsFile(d, ino), NEW b \in d.d_bitmap,
         e.inode = d.inode, e.i_bitmap = d.i_bitmap, e.d_bitmap = d.d_bitmap,
         d.block[b].as = "bytes", e.block[b].as = "bytes",
         \A x \in Blocks \ {b} : e.block[x] = d.block[x]
  PROVE  Good(e)
<1>0. d \in Disk /\ Owned(d) /\ Shape(d)
  BY DEF Good
<1>1. LiveIn(e) = LiveIn(d) /\ IndexesIn(e) = IndexesIn(d)
  BY DEF LiveIn, IndexesIn
<1>2. b \in Blocks /\ \A x \in Blocks : Rewritten(d, e, ino, x)
  BY <1>0, DiskParts DEF Rewritten
<1>3. IsFile(e, ino) /\ FileShape(d, ino)
  BY <1>0, <1>1 DEF IsFile, Shape
<1>4. \A x : x \in IndexesIn(d) => d.block[x].as = "index" /\ e.block[x] = d.block[x]
  <2> SUFFICES ASSUME NEW x \in IndexesIn(d)
               PROVE  d.block[x].as = "index" /\ e.block[x] = d.block[x]
    OBVIOUS
  <2>1. PICK n \in LiveIn(d), k \in IndirectSlots : x \in Blocks /\ d.inode[n].indirect[k] = x
    BY DEF IndexesIn
  <2>2. x # Nil
    BY <2>1, Constants, Zenon
  <2>3. IndexAt(d, x)
    BY <1>0, <2>1, <2>2 DEF Shape, FileShape, DirShape
  <2> QED
    BY <2>1, <2>2, <2>3 DEF IndexAt
<1>5. \A p, o, kind, i : Points(e, o, kind, i, p) => Points(d, o, kind, i, p)
  BY <1>1, <1>4 DEF Points
<1>6. Owned(e)
  <2>1. LiveIn(e) \subseteq e.i_bitmap
    BY <1>0, <1>1 DEF Owned
  <2>2. \A p, o, kind, i : p # Nil /\ Points(e, o, kind, i, p) => Points(d, o, kind, i, p) /\ p \in e.d_bitmap
    BY <1>0, <1>5 DEF Owned
  <2> QED
    BY <1>0, <2>1, <2>2, OwnedFewer, Zenon
<1>7. FileShape(e, ino)
  <2>1. ASSUME NEW p, BytesAt(d, p), p \in Pointer PROVE BytesAt(e, p)
    BY <2>1 DEF BytesAt, Pointer
  <2>2. ino \in LiveIn(d)
    BY DEF IsFile
  <2>3. ASSUME NEW i \in DirectSlots PROVE BytesAt(e, e.inode[ino].direct[i])
    BY <1>3, <2>1, <2>2, PointsFacts DEF FileShape
  <2>4. ASSUME NEW k \in IndirectSlots PROVE IndexAt(e, e.inode[ino].indirect[k])
    <3> DEFINE x == d.inode[ino].indirect[k]
    <3> SUFFICES ASSUME x # Nil
                 PROVE  e.block[x].as = "index" /\ \A j \in IndexSlots : BytesAt(e, e.block[x].ptr[j])
      BY DEF IndexAt
    <3>1. x \in IndexesIn(d) /\ IndexAt(d, x)
      BY <1>3, <2>2, PointsFacts DEF FileShape
    <3> HIDE DEF x
    <3>2. d.block[x].as = "index" /\ e.block[x] = d.block[x] /\ x \in Blocks
      BY <1>4, <3>1 DEF IndexesIn
    <3>3. \A j \in IndexSlots : BytesAt(d, d.block[x].ptr[j])
      BY <3>1 DEF IndexAt
    <3>4. d.block[x].ptr \in [IndexSlots -> Pointer]
      BY <1>0, <3>2, DiskParts, BlockParts
    <3> QED
      BY <2>1, <3>2, <3>3, <3>4
  <2> QED
    BY <2>3, <2>4 DEF FileShape
<1> QED
  BY <1>2, <1>3, <1>6, <1>7, FileGood

\* A block of zeros becomes a direct block of a file.
LEMMA LinkDirect ==
  ASSUME NEW d, Good(d), NEW e \in Disk, NEW ino \in Inos, IsFile(d, ino),
         NEW b \in Blocks \ d.d_bitmap, NEW i0 \in DirectSlots, d.inode[ino].direct[i0] = Nil,
         e.block = d.block, e.i_bitmap = d.i_bitmap, e.d_bitmap = d.d_bitmap \cup {b},
         \A n \in Inos \ {ino} : e.inode[n] = d.inode[n],
         IsFile(e, ino), e.inode[ino].indirect = d.inode[ino].indirect,
         e.inode[ino].direct = [d.inode[ino].direct EXCEPT ![i0] = b]
  PROVE  Good(e) /\ d.block[b].as = "bytes"
<1>0. d \in Disk /\ Owned(d) /\ Shape(d) /\ FreeZero(d)
  BY DEF Good
<1>1. LiveIn(e) = LiveIn(d)
  BY DEF LiveIn, IsFile
<1>2. IndexesIn(e) = IndexesIn(d)
  BY <1>1 DEF IndexesIn, LiveIn
<1>3. d.block[b].as = "bytes"
  BY <1>0 DEF FreeZero, Zero
<1>4. ino \in LiveIn(d) /\ FileShape(d, ino)
  BY <1>0 DEF IsFile, Shape
<1>5. d.inode[ino].direct \in [DirectSlots -> Pointer]
  BY <1>0, DiskParts, InodeParts
<1>6. Owned(e)
  <2>1. LiveIn(e) \subseteq e.i_bitmap
    BY <1>0, <1>1 DEF Owned
  <2>2. ASSUME NEW p, NEW o, NEW kind, NEW i, p # Nil, Points(e, o, kind, i, p)
        PROVE  \/ Points(d, o, kind, i, p) /\ p \in e.d_bitmap
               \/ p = b /\ o = ino /\ kind = "direct" /\ i = i0
    <3>1. Points(d, o, kind, i, p) \/ (p = b /\ o = ino /\ kind = "direct" /\ i = i0)
      BY <1>1, <1>2, <1>5, <2>2 DEF Points, LiveIn
    <3> QED
      BY <1>0, <2>2, <3>1 DEF Owned
  <2>3. b \notin d.d_bitmap /\ b \in e.d_bitmap
    OBVIOUS
  <2>4. OneNew(d, e, b, ino, "direct", i0)
    BY <2>2, <2>3, Zenon DEF OneNew
  <2> QED
    BY <1>0, <2>1, <2>4, OwnedKept, Zenon
<1>7. FileShape(e, ino)
  <2>1. \A p : BytesAt(d, p) <=> BytesAt(e, p)
    BY DEF BytesAt
  <2>2. \A x : IndexAt(d, x) <=> IndexAt(e, x)
    BY <2>1 DEF IndexAt
  <2>3. BytesAt(e, b)
    BY <1>3 DEF BytesAt
  <2> QED
    BY <1>4, <1>5, <2>1, <2>2, <2>3 DEF FileShape
<1>8. \A x \in Blocks : Rewritten(d, e, ino, x)
  BY DEF Rewritten
<1> QED
  BY <1>3, <1>6, <1>7, <1>8, FileGood

\* An index block without pointers becomes an index block of a file.
LEMMA LinkIndex ==
  ASSUME NEW d, Good(d), NEW e \in Disk, NEW ino \in Inos, IsFile(d, ino),
         NEW b \in Blocks \ d.d_bitmap, NEW k0 \in IndirectSlots, d.inode[ino].indirect[k0] = Nil,
         e.block = [d.block EXCEPT ![b] = EmptyIndex],
         e.i_bitmap = d.i_bitmap, e.d_bitmap = d.d_bitmap \cup {b},
         \A n \in Inos \ {ino} : e.inode[n] = d.inode[n],
         IsFile(e, ino), e.inode[ino].direct = d.inode[ino].direct,
         e.inode[ino].indirect = [d.inode[ino].indirect EXCEPT ![k0] = b]
  PROVE  Good(e)
<1>0. d \in Disk /\ Owned(d) /\ Shape(d) /\ FreeZero(d)
  BY DEF Good
<1>1. LiveIn(e) = LiveIn(d)
  BY DEF LiveIn, IsFile
<1>2. ino \in LiveIn(d) /\ FileShape(d, ino)
  BY <1>0 DEF IsFile, Shape
<1>3. d.inode[ino].indirect \in [IndirectSlots -> Pointer] /\ d.block \in [Blocks -> Block] /\ b # Nil
  <2>1. Nil \notin Blocks
    BY Constants, Zenon
  <2> QED
    BY <1>0, <2>1, DiskParts, InodeParts
<1>4. IndexesIn(e) = IndexesIn(d) \cup {b}
  <2>1. ASSUME NEW x \in IndexesIn(e) PROVE x \in IndexesIn(d) \cup {b}
    BY <1>1, <1>3, <2>1 DEF IndexesIn, LiveIn
  <2>2. ASSUME NEW x \in IndexesIn(d) PROVE x \in IndexesIn(e)
    <3>1. PICK n \in LiveIn(d), k \in IndirectSlots : x \in Blocks /\ d.inode[n].indirect[k] = x
      BY <2>2 DEF IndexesIn
    <3>2. x # Nil
      BY <3>1, Constants, Zenon
    <3>3. e.inode[n].indirect[k] = x
      BY <1>3, <3>1, <3>2 DEF LiveIn
    <3> QED
      BY <1>1, <3>1, <3>3 DEF IndexesIn
  <2>3. b \in IndexesIn(e)
    BY <1>1, <1>2, <1>3 DEF IndexesIn
  <2> QED
    BY <2>1, <2>2, <2>3
<1>5. \A j \in IndexSlots : e.block[b].ptr[j] = Nil
  BY <1>3 DEF EmptyIndex, IndexSlots
<1>6. b \notin IndexesIn(d)
  <2> SUFFICES ASSUME b \in IndexesIn(d) PROVE FALSE
    OBVIOUS
  <2>1. PICK n \in LiveIn(d), k \in IndirectSlots : d.inode[n].indirect[k] = b
    BY DEF IndexesIn
  <2> QED
    BY <1>3, <2>1, PointsFacts
<1>7. Owned(e)
  <2>1. LiveIn(e) \subseteq e.i_bitmap
    BY <1>0, <1>1 DEF Owned
  <2>2. ASSUME NEW p, NEW o, NEW kind, NEW i, p # Nil, Points(e, o, kind, i, p)
        PROVE  \/ Points(d, o, kind, i, p) /\ p \in e.d_bitmap
               \/ p = b /\ o = ino /\ kind = "indirect" /\ i = k0
    <3>1. CASE kind = "direct"
      BY <1>0, <1>1, <2>2, <3>1 DEF Points, LiveIn, Owned
    <3>2. CASE kind = "indirect"
      <4>1. Points(d, o, kind, i, p) \/ (p = b /\ o = ino /\ kind = "indirect" /\ i = k0)
        BY <1>1, <1>3, <2>2, <3>2 DEF Points, LiveIn
      <4> QED
        BY <1>0, <2>2, <4>1 DEF Owned
    <3>3. CASE kind = "index"
      <4>1. o \in IndexesIn(e) /\ i \in IndexSlots /\ p = e.block[o].ptr[i]
        BY <2>2, <3>3 DEF Points
      <4>2. o # b /\ o \in IndexesIn(d) /\ o \in Blocks
        BY <1>4, <1>5, <2>2, <4>1 DEF IndexesIn
      <4>3. Points(d, o, kind, i, p)
        BY <1>3, <3>3, <4>1, <4>2 DEF Points
      <4> QED
        BY <1>0, <2>2, <4>3 DEF Owned
    <3> QED
      BY <2>2, <3>1, <3>2, <3>3 DEF Points
  <2>3. b \notin d.d_bitmap /\ b \in e.d_bitmap
    OBVIOUS
  <2>4. OneNew(d, e, b, ino, "indirect", k0)
    BY <2>2, <2>3, Zenon DEF OneNew
  <2> QED
    BY <1>0, <2>1, <2>4, OwnedKept, Zenon
<1>8. FileShape(e, ino)
  <2>1. ASSUME NEW p, p # Nil => p \in d.d_bitmap, BytesAt(d, p) PROVE BytesAt(e, p)
    <3>1. p # Nil => p \in Blocks /\ p # b
      BY <1>0, <2>1, DiskParts
    <3> QED
      BY <1>3, <2>1, <3>1 DEF BytesAt
  <2>2. ASSUME NEW i \in DirectSlots PROVE BytesAt(e, e.inode[ino].direct[i])
    BY <1>2, <2>1, PointsFacts DEF FileShape
  <2>3. ASSUME NEW k \in IndirectSlots PROVE IndexAt(e, e.inode[ino].indirect[k])
    <3>1. CASE k = k0
      <4>1. e.block[b].as = "index"
        BY <1>3 DEF EmptyIndex
      <4> QED
        BY <1>3, <1>5, <3>1, <4>1 DEF IndexAt, BytesAt
    <3>2. CASE k # k0
      <4> DEFINE x == d.inode[ino].indirect[k]
      <4>1. e.inode[ino].indirect[k] = x
        BY <1>3, <3>2
      <4>2. x # Nil => x \in d.d_bitmap /\ \A j \in IndexSlots : d.block[x].ptr[j] # Nil => d.block[x].ptr[j] \in d.d_bitmap
        BY <1>2, PointsFacts, Zenon
      <4>3. IndexAt(d, x)
        BY <1>2 DEF FileShape
      <4> HIDE DEF x
      <4>4. x # Nil => x \in Blocks /\ e.block[x] = d.block[x]
        BY <1>0, <1>3, <4>2, DiskParts
      <4>5. IndexAt(e, x)
        BY <2>1, <4>2, <4>3, <4>4 DEF IndexAt
      <4> QED
        BY <4>1, <4>5
    <3> QED
      BY <3>1, <3>2
  <2> QED
    BY <2>2, <2>3 DEF FileShape
<1>9. \A x \in Blocks : Rewritten(d, e, ino, x)
  BY <1>3 DEF Rewritten
<1> QED
  BY <1>7, <1>8, <1>9, FileGood

\* An index block of which pointer j is set.
PtrSet(ptr, j, b) == [as |-> "index", ptr |-> [ptr EXCEPT ![j] = b]]

\* A block of zeros becomes a block of a file, behind an index block.
LEMMA LinkPtr ==
  ASSUME NEW d, Good(d), NEW e \in Disk, NEW ino \in Inos, IsFile(d, ino),
         NEW b \in Blocks \ d.d_bitmap, NEW k0 \in IndirectSlots, NEW j0 \in IndexSlots,
         NEW x0, x0 = d.inode[ino].indirect[k0], x0 # Nil, d.block[x0].ptr[j0] = Nil,
         e.inode = d.inode, e.i_bitmap = d.i_bitmap, e.d_bitmap = d.d_bitmap \cup {b},
         \A x \in Blocks \ {x0} : e.block[x] = d.block[x],
         e.block[x0] = PtrSet(d.block[x0].ptr, j0, b)
  PROVE  Good(e) /\ d.block[b].as = "bytes" /\ b # x0
<1>0. d \in Disk /\ Owned(d) /\ Shape(d) /\ FreeZero(d)
  BY DEF Good
<1>1. LiveIn(e) = LiveIn(d) /\ IndexesIn(e) = IndexesIn(d)
  BY DEF LiveIn, IndexesIn
<1>2. ino \in LiveIn(d) /\ FileShape(d, ino) /\ IsFile(e, ino)
  BY <1>0, <1>1 DEF IsFile, Shape
<1>3. /\ Points(d, ino, "indirect", k0, x0) /\ x0 \in d.d_bitmap /\ x0 \in IndexesIn(d)
      /\ \A j \in IndexSlots : d.block[x0].ptr[j] # Nil => d.block[x0].ptr[j] \in d.d_bitmap
  BY <1>2, PointsFacts, Zenon
<1>4. x0 \in Blocks /\ b # x0 /\ b # Nil
  <2>1. Nil \notin Blocks
    BY Constants, Zenon
  <2> QED
    BY <1>0, <1>3, <2>1, DiskParts
<1>5. IndexAt(d, x0)
  BY <1>2 DEF FileShape
<1>6. d.block[x0].as = "index" /\ \A j \in IndexSlots : BytesAt(d, d.block[x0].ptr[j])
  BY <1>5 DEF IndexAt
<1>7. d.block[x0].ptr \in [IndexSlots -> Pointer]
  BY <1>0, <1>4, <1>6, IndexTyped, Zenon
<1>8. e.block[x0].as = "index" /\ e.block[x0].ptr = [d.block[x0].ptr EXCEPT ![j0] = b]
  <2>1. e.block[x0] = PtrSet(d.block[x0].ptr, j0, b)
    OBVIOUS
  <2> DEFINE z == e.block[x0]
             q == d.block[x0].ptr
  <2>2. z = PtrSet(q, j0, b)
    BY <2>1
  <2> HIDE DEF z, q
  <2>3. z.as = "index" /\ z.ptr = [q EXCEPT ![j0] = b]
    BY <2>2 DEF PtrSet
  <2> QED
    BY <2>3 DEF z, q
<1>9. d.block[b].as = "bytes"
  BY <1>0 DEF FreeZero, Zero
<1>10. Owned(e)
  <2>1. LiveIn(e) \subseteq e.i_bitmap
    BY <1>0, <1>1 DEF Owned
  <2>2. ASSUME NEW p, NEW o, NEW kind, NEW i, p # Nil, Points(e, o, kind, i, p)
        PROVE  \/ Points(d, o, kind, i, p) /\ p \in e.d_bitmap
               \/ p = b /\ o = x0 /\ kind = "index" /\ i = j0
    <3>1. CASE kind # "index"
      BY <1>0, <1>1, <2>2, <3>1 DEF Points, Owned
    <3>2. CASE kind = "index"
      <4>1. o \in IndexesIn(d) /\ o \in Blocks /\ i \in IndexSlots /\ p = e.block[o].ptr[i]
        BY <1>1, <2>2, <3>2 DEF Points, IndexesIn
      <4>2. p = d.block[o].ptr[i] \/ (p = b /\ o = x0 /\ i = j0)
        <5>1. CASE o = x0
          BY <1>7, <1>8, <4>1, <5>1
        <5>2. CASE o # x0
          BY <4>1, <5>2
        <5> QED
          BY <5>1, <5>2
      <4>3. Points(d, o, kind, i, p) \/ (p = b /\ o = x0 /\ i = j0)
        BY <3>2, <4>1, <4>2 DEF Points
      <4> QED
        BY <1>0, <2>2, <3>2, <4>3 DEF Owned
    <3> QED
      BY <3>1, <3>2
  <2>3. b \notin d.d_bitmap /\ b \in e.d_bitmap
    OBVIOUS
  <2>4. OneNew(d, e, b, x0, "index", j0)
    BY <2>2, <2>3, Zenon DEF OneNew
  <2> QED
    BY <1>0, <2>1, <2>4, OwnedKept, Zenon
<1>11. FileShape(e, ino)
  <2>1. ASSUME NEW p, BytesAt(d, p), p \in Pointer PROVE BytesAt(e, p)
    BY <1>6, <2>1 DEF BytesAt, Pointer
  <2>2. ASSUME NEW i \in DirectSlots PROVE BytesAt(e, e.inode[ino].direct[i])
    BY <1>2, <2>1, PointsFacts DEF FileShape
  <2>3. BytesAt(e, b)
    BY <1>4, <1>9 DEF BytesAt
  <2>4. ASSUME NEW k \in IndirectSlots PROVE IndexAt(e, e.inode[ino].indirect[k])
    <3> DEFINE x == d.inode[ino].indirect[k]
    <3>1. IndexAt(d, x) /\ x \in Pointer
      BY <1>2, PointsFacts DEF FileShape
    <3> HIDE DEF x
    <3>2. CASE x = x0
      <4>1. \A j \in IndexSlots : BytesAt(e, e.block[x0].ptr[j])
        BY <1>6, <1>7, <1>8, <2>1, <2>3
      <4> QED
        BY <1>8, <3>2, <4>1 DEF IndexAt, x
    <3>3. CASE x # x0
      <4>1. x # Nil => /\ e.block[x] = d.block[x] /\ d.block[x].as = "index"
                       /\ d.block[x].ptr \in [IndexSlots -> Pointer]
                       /\ \A j \in IndexSlots : BytesAt(d, d.block[x].ptr[j])
        <5> SUFFICES ASSUME x # Nil
                     PROVE  /\ e.block[x] = d.block[x] /\ d.block[x].as = "index"
                            /\ d.block[x].ptr \in [IndexSlots -> Pointer]
                            /\ \A j \in IndexSlots : BytesAt(d, d.block[x].ptr[j])
          OBVIOUS
        <5>1. x \in Blocks
          BY <3>1 DEF Pointer
        <5>2. d.block[x].as = "index" /\ \A j \in IndexSlots : BytesAt(d, d.block[x].ptr[j])
          BY <3>1 DEF IndexAt
        <5>3. e.block[x] = d.block[x]
          BY <3>3, <5>1
        <5> QED
          BY <1>0, <5>1, <5>2, <5>3, IndexTyped, Zenon
      <4>2. IndexAt(e, x)
        BY <2>1, <4>1 DEF IndexAt
      <4> QED
        BY <4>2 DEF x
    <3> QED
      BY <3>2, <3>3
  <2> QED
    BY <2>2, <2>4 DEF FileShape
<1>12. \A x \in Blocks : Rewritten(d, e, ino, x)
  <2>1. Rewritten(d, e, ino, x0)
    BY <1>6 DEF Rewritten
  <2> QED
    BY <2>1 DEF Rewritten
<1>13. Good(e)
  BY <1>2, <1>10, <1>11, <1>12, FileGood
<1> QED
  BY <1>4, <1>9, <1>13

\* A file's inode loses pointers, which leaves blocks marked that nothing uses, or its size changes.
LEMMA FewerGood ==
  ASSUME NEW d, Good(d), NEW e \in Disk, NEW ino \in Inos, IsFile(d, ino), IsFile(e, ino),
         e.block = d.block, e.i_bitmap = d.i_bitmap, e.d_bitmap = d.d_bitmap,
         \A n \in Inos \ {ino} : e.inode[n] = d.inode[n],
         Fewer(e.inode[ino], d.inode[ino])
  PROVE  Good(e)
<1>0. d \in Disk /\ Owned(d) /\ Shape(d)
  BY DEF Good
<1>1. LiveIn(e) = LiveIn(d) /\ ino \in LiveIn(d)
  BY DEF LiveIn, IsFile
<1>2. \A x : x \in IndexesIn(e) => x \in IndexesIn(d)
  <2> SUFFICES ASSUME NEW x \in IndexesIn(e) PROVE x \in IndexesIn(d)
    OBVIOUS
  <2>1. PICK n \in LiveIn(d), k \in IndirectSlots : x \in Blocks /\ e.inode[n].indirect[k] = x
    BY <1>1 DEF IndexesIn
  <2>2. x # Nil
    BY <2>1, Constants, Zenon
  <2>3. d.inode[n].indirect[k] = x
    BY <2>1, <2>2 DEF Fewer, LiveIn
  <2> QED
    BY <2>1, <2>3 DEF IndexesIn
<1>3. Owned(e)
  <2>1. LiveIn(e) \subseteq e.i_bitmap
    BY <1>0, <1>1 DEF Owned
  <2>2. ASSUME NEW p, NEW o, NEW kind, NEW i, p # Nil, Points(e, o, kind, i, p)
        PROVE  Points(d, o, kind, i, p) /\ p \in e.d_bitmap
    <3>1. Points(d, o, kind, i, p)
      BY <1>1, <1>2, <2>2 DEF Points, Fewer, LiveIn
    <3> QED
      BY <1>0, <2>2, <3>1 DEF Owned
  <2> QED
    BY <1>0, <2>1, <2>2, OwnedFewer
<1>4. FileShape(e, ino)
  <2>1. \A p : BytesAt(d, p) <=> BytesAt(e, p)
    BY DEF BytesAt
  <2>2. \A x : IndexAt(d, x) <=> IndexAt(e, x)
    BY <2>1 DEF IndexAt
  <2>3. BytesAt(e, Nil) /\ IndexAt(e, Nil)
    BY DEF BytesAt, IndexAt
  <2>4. FileShape(d, ino)
    BY <1>0, <1>1 DEF IsFile, Shape
  <2> QED
    BY <2>1, <2>2, <2>3, <2>4 DEF FileShape, Fewer
<1>5. \A x \in Blocks : Rewritten(d, e, ino, x)
  BY DEF Rewritten
<1> QED
  BY <1>3, <1>4, <1>5, FileGood

-----------------------------------------------------------------------------
\* Changes of a directory.

LEMMA UsedFinite ==
  ASSUME NEW d, NEW n
  PROVE  /\ IsFiniteSet(UsedSlots(d, n)) /\ Cardinality(UsedSlots(d, n)) \in Nat
         /\ Cardinality(UsedSlots(d, n)) <= MaxEntries
<1>1. MaxEntries \in Nat
  BY Constants, Zenon
<1>2. IsFiniteSet(1..MaxEntries) /\ Cardinality(1..MaxEntries) = MaxEntries
  <2>1. 1 \in Int /\ MaxEntries \in Int
    BY <1>1
  <2>2. Cardinality(1..MaxEntries) = IF 1 > MaxEntries THEN 0 ELSE MaxEntries - 1 + 1
    BY <2>1, FS_Interval
  <2> QED
    BY <1>1, <2>1, <2>2, FS_Interval
<1>3. UsedSlots(d, n) \in SUBSET (1..MaxEntries)
  BY <1>1 DEF UsedSlots, EntrySlots
<1>4. IsFiniteSet(UsedSlots(d, n)) /\ Cardinality(UsedSlots(d, n)) <= Cardinality(1..MaxEntries)
  BY <1>2, <1>3, FS_Subset
<1> QED
  BY <1>2, <1>4, FS_CardinalityType

\* Directory n0 gets an entry for the new inode ino, which is a file or an empty directory.
EntryAdded(d, e, n0, ino, name, i0) ==
  /\ IsDir(d, n0) /\ ino \in Inos \ LiveIn(d) /\ name \in Names
  /\ i0 \in EntrySlots /\ Table(d, n0)[i0].valid = 0
  /\ \A i \in 1..MaxEntries : Table(d, n0)[i].name # name
  /\ LiveIn(e) = LiveIn(d) \cup {ino}
  /\ \A n \in LiveIn(d) : e.inode[n].type = d.inode[n].type
  /\ \A n : IsDir(d, n) /\ n # n0 => Table(e, n) = Table(d, n) /\ e.inode[n].size = d.inode[n].size
  /\ Table(e, n0)[i0] = Entry(name, ino)
  /\ \A i \in 1..MaxEntries \ {i0} : Table(e, n0)[i] = Table(d, n0)[i]
  /\ e.inode[n0].size = d.inode[n0].size + 1
  /\ IsDir(e, ino) => e.inode[ino].size = 0 /\ Table(e, ino) = init_dirent_table(ino, n0).entry

LEMMA TreeAdd ==
  ASSUME NEW d, Tree1(d), NEW e, NEW n0, NEW ino, NEW name, NEW i0,
         EntryAdded(d, e, n0, ino, name, i0)
  PROVE  Tree1(e)
<1> USE DEF EntryAdded
<1>0. MaxEntries \in Nat /\ MaxEntries >= 2
  BY Constants, Zenon
<1>1. i0 \in 1..MaxEntries /\ i0 # 1 /\ i0 # 2 /\ EntrySlots \subseteq 1..MaxEntries
  BY <1>0 DEF EntrySlots
<1>2. \A n \in LiveIn(d) : IsDir(e, n) <=> IsDir(d, n)
  BY DEF IsDir
<1>3. \A n : IsDir(d, n) /\ n # n0 => UsedSlots(e, n) = UsedSlots(d, n)
  BY DEF UsedSlots
<1>4. /\ Table(e, n0)[i0] = Entry(name, ino)
      /\ \A i \in 1..MaxEntries \ {i0} : Table(e, n0)[i] = Table(d, n0)[i]
  OBVIOUS
<1>5. Entry(name, ino).valid = 1 /\ Entry(name, ino).name = name /\ Entry(name, ino).ino = ino
  BY DEF Entry
<1>6. UsedSlots(e, n0) = UsedSlots(d, n0) \cup {i0} /\ i0 \notin UsedSlots(d, n0)
  <2>1. Table(d, n0)[i0].valid = 0 /\ Table(e, n0)[i0].valid = 1
    BY <1>4, <1>5
  <2>2. \A i \in EntrySlots \ {i0} : Table(e, n0)[i] = Table(d, n0)[i]
    BY <1>1, <1>4
  <2>3. \A i \in EntrySlots : i \in UsedSlots(e, n0) <=> i \in UsedSlots(d, n0) \/ i = i0
    BY <2>1, <2>2 DEF UsedSlots
  <2>4. UsedSlots(e, n0) \subseteq EntrySlots /\ UsedSlots(d, n0) \subseteq EntrySlots /\ i0 \in EntrySlots
    BY <1>1 DEF UsedSlots
  <2>5. i0 \notin UsedSlots(d, n0)
    BY <2>1 DEF UsedSlots
  <2> QED
    BY <2>3, <2>4, <2>5
<1>7. IsDir(e, ino) => UsedSlots(e, ino) = {}
  <2> SUFFICES ASSUME IsDir(e, ino), NEW i \in EntrySlots PROVE Table(e, ino)[i].valid # 1
    BY DEF UsedSlots
  <2>1. i \in 1..MaxEntries /\ i # 1 /\ i # 2
    BY <1>0 DEF EntrySlots
  <2>2. Table(e, ino)[i] = NoEntry
    BY <2>1 DEF init_dirent_table
  <2> QED
    <3>1. NoEntry.valid # 1
      BY EntryFacts, Zenon
    <3> QED
      BY <2>2, <3>1, Zenon
<1>8. IsDir(d, Root) /\ IsDir(e, Root) /\ n0 \in LiveIn(d) /\ ino # n0 /\ ino # Root
  BY <1>2 DEF Tree1, IsDir
<1>9. ASSUME NEW n \in LiveIn(e), e.inode[n].type = "dir"
      PROVE  TableKept(e, n)
  <2>1. CASE n = ino
    <3>1. e.inode[ino].size = 0 /\ Table(e, ino) = init_dirent_table(ino, n0).entry /\ UsedSlots(e, ino) = {}
      BY <1>7, <1>9, <2>1 DEF IsDir
    <3>2. Table(e, ino)[1] = Entry("..", n0) /\ Table(e, ino)[2] = Entry(".", ino)
          /\ \A i \in EntrySlots : Table(e, ino)[i] = NoEntry
      BY <1>0, <3>1 DEF init_dirent_table, EntrySlots
    <3>3. Cardinality({}) = 0
      BY FS_EmptySet
    <3>4. Entry("..", n0).name = ".." /\ Entry("..", n0).valid = 1
      BY DEF Entry
    <3>5. \A i \in EntrySlots : Table(e, ino)[i].name \in (IF Table(e, ino)[i].valid = 1 THEN Names ELSE {""})
      <4>1. NoEntry.valid # 1 /\ NoEntry.name = ""
        BY EntryFacts, Zenon
      <4> QED
        BY <3>2, <4>1, Zenon
    <3>6. /\ Table(e, ino)[1].name = ".." /\ Table(e, ino)[1].valid = 1
          /\ Table(e, ino)[2] = Entry(".", ino) /\ e.inode[ino].size = Cardinality(UsedSlots(e, ino))
      BY <3>1, <3>2, <3>3, <3>4, Zenon
    <3>7. \A i, j \in UsedSlots(e, ino) : Table(e, ino)[i].name = Table(e, ino)[j].name => i = j
      BY <3>1, Zenon
    <3>8. TableKept(e, ino)
      BY <3>5, <3>6, <3>7, Zenon DEF TableKept
    <3> QED
      BY <2>1, <3>8
  <2>2. CASE n # ino /\ n # n0
    <3>1. IsDir(d, n) /\ TableKept(d, n)
      BY <1>2, <1>9, <2>2 DEF IsDir, Tree1
    <3>2. Table(e, n) = Table(d, n) /\ UsedSlots(e, n) = UsedSlots(d, n) /\ e.inode[n].size = d.inode[n].size
      BY <1>3, <2>2, <3>1
    <3> QED
      BY <3>1, <3>2, ZenonT(40) DEF TableKept
  <2>3. CASE n = n0
    <3>1. TableKept(d, n0)
      BY DEF Tree1, IsDir
    <3>2. Table(e, n0)[1] = Table(d, n0)[1] /\ Table(e, n0)[2] = Table(d, n0)[2]
      BY <1>0, <1>1, <1>4
    <3>3. \A i \in EntrySlots : Table(e, n0)[i].name \in (IF Table(e, n0)[i].valid = 1 THEN Names ELSE {""})
      <4> SUFFICES ASSUME NEW i \in EntrySlots
                   PROVE  Table(e, n0)[i].name \in (IF Table(e, n0)[i].valid = 1 THEN Names ELSE {""})
        OBVIOUS
      <4>1. CASE i = i0
        BY <1>4, <1>5, <4>1
      <4>2. CASE i # i0
        <5>1. Table(e, n0)[i] = Table(d, n0)[i]
          BY <1>1, <1>4, <4>2
        <5>2. Table(d, n0)[i].name \in (IF Table(d, n0)[i].valid = 1 THEN Names ELSE {""})
          BY <3>1, Zenon DEF TableKept
        <5> QED
          BY <5>1, <5>2, Zenon
      <4> QED
        BY <4>1, <4>2
    <3>4. ASSUME NEW i \in UsedSlots(e, n0), NEW j \in UsedSlots(e, n0), Table(e, n0)[i].name = Table(e, n0)[j].name
          PROVE  i = j
      <4>1. \A k \in UsedSlots(d, n0) : k \in 1..MaxEntries \ {i0} /\ Table(e, n0)[k] = Table(d, n0)[k]
        BY <1>1, <1>4, <1>6 DEF UsedSlots
      <4>2. \A k \in UsedSlots(d, n0) : Table(e, n0)[k].name # Table(e, n0)[i0].name
        BY <1>4, <1>5, <4>1
      <4>3. (i \in UsedSlots(d, n0) /\ j \in UsedSlots(d, n0)) \/ i = j
        BY <1>6, <3>4, <4>2
      <4> QED
        BY <3>1, <3>4, <4>1, <4>3 DEF TableKept
    <3>5. e.inode[n0].size = Cardinality(UsedSlots(e, n0))
      <4>1. d.inode[n0].size = Cardinality(UsedSlots(d, n0))
        BY <3>1, Zenon DEF TableKept
      <4>2. Cardinality(UsedSlots(e, n0)) = Cardinality(UsedSlots(d, n0)) + 1
        <5> DEFINE U == UsedSlots(d, n0)
        <5>1. IsFiniteSet(U)
          BY UsedFinite, Zenon
        <5>2. UsedSlots(e, n0) = U \cup {i0} /\ i0 \notin U
          BY <1>6
        <5> HIDE DEF U
        <5>3. Cardinality(U \cup {i0}) = Cardinality(U) + 1
          BY <5>1, <5>2, FS_AddElement
        <5> QED
          BY <5>2, <5>3 DEF U
      <4> QED
        BY <4>1, <4>2, Zenon
    <3>6. /\ Table(e, n0)[1].name = ".." /\ Table(e, n0)[1].valid = 1
          /\ Table(e, n0)[2] = Entry(".", n0)
      BY <3>1, <3>2, ZenonT(40) DEF TableKept
    <3> QED
      BY <2>3, <3>3, <3>4, <3>5, <3>6, Zenon DEF TableKept
  <2> QED
    BY <2>1, <2>2, <2>3
<1>10. ASSUME NEW n, IsDir(e, n), NEW i \in UsedSlots(e, n)
       PROVE  \/ n = n0 /\ i = i0 /\ Table(e, n)[i].ino = ino
              \/ /\ n \in LiveIn(d) /\ IsDir(d, n) /\ i \in UsedSlots(d, n)
                 /\ Table(e, n)[i] = Table(d, n)[i] /\ ~(n = n0 /\ i = i0)
                 /\ Table(d, n)[i].ino \in LiveIn(d) \ {Root}
  <2>1. n # ino /\ n \in LiveIn(d) /\ IsDir(d, n)
    BY <1>2, <1>7, <1>10 DEF IsDir
  <2>2. CASE n # n0
    <3>1. i \in UsedSlots(d, n) /\ Table(e, n)[i] = Table(d, n)[i]
      BY <1>3, <1>10, <2>1, <2>2
    <3> QED
      BY <2>1, <2>2, <3>1 DEF Tree1
  <2>3. CASE n = n0
    <3>1. CASE i = i0
      BY <1>4, <1>5, <2>3, <3>1
    <3>2. CASE i # i0
      <4>1. i \in UsedSlots(d, n) /\ i \in 1..MaxEntries \ {i0}
        BY <1>1, <1>6, <1>10, <2>3, <3>2 DEF UsedSlots
      <4>2. Table(e, n)[i] = Table(d, n)[i]
        BY <1>4, <2>3, <4>1
      <4> QED
        BY <2>1, <2>3, <3>2, <4>1, <4>2 DEF Tree1
    <3> QED
      BY <3>1, <3>2
  <2> QED
    BY <2>2, <2>3
<1>11. ASSUME NEW n, IsDir(d, n), NEW i \in UsedSlots(d, n)
       PROVE  IsDir(e, n) /\ i \in UsedSlots(e, n) /\ Table(e, n)[i] = Table(d, n)[i]
  <2>1. IsDir(e, n)
    BY <1>2, <1>11 DEF IsDir
  <2>2. CASE n # n0
    BY <1>3, <1>11, <2>1, <2>2
  <2>3. CASE n = n0
    <3>1. i \in UsedSlots(e, n) /\ i \in 1..MaxEntries \ {i0}
      BY <1>1, <1>6, <1>11, <2>3 DEF UsedSlots
    <3> QED
      BY <1>4, <2>1, <2>3, <3>1
  <2> QED
    BY <2>2, <2>3
<1>12. ASSUME NEW n \in LiveIn(e), IsDir(e, n), NEW i \in UsedSlots(e, n)
       PROVE  LET m == Table(e, n)[i].ino
              IN  /\ m \in LiveIn(e) \ {Root}
                  /\ IsDir(e, m) => Table(e, m)[1].ino = n
  <2> DEFINE m == Table(e, n)[i].ino
  <2>1. CASE n = n0 /\ i = i0 /\ m = ino
    <3>1. IsDir(e, ino) => Table(e, ino)[1].ino = n0
      <4>1. 1 \in 1..MaxEntries /\ Entry("..", n0).ino = n0
        BY <1>0 DEF Entry
      <4>2. IsDir(e, ino) => Table(e, ino)[1] = Entry("..", n0)
        BY <4>1 DEF init_dirent_table
      <4> QED
        BY <4>1, <4>2
    <3> QED
      BY <1>8, <2>1, <3>1
  <2>2. CASE /\ n \in LiveIn(d) /\ IsDir(d, n) /\ i \in UsedSlots(d, n)
             /\ Table(e, n)[i] = Table(d, n)[i] /\ Table(d, n)[i].ino \in LiveIn(d) \ {Root}
    <3>1. m = Table(d, n)[i].ino /\ m \in LiveIn(d) \ {Root}
      BY <2>2
    <3>2. IsDir(d, m) => Table(d, m)[1].ino = n
      BY <2>2, <3>1 DEF Tree1
    <3> HIDE DEF m
    <3>3. IsDir(d, m) => Table(e, m)[1] = Table(d, m)[1]
      BY <1>0, <1>1, <1>4
    <3>4. IsDir(e, m) => Table(e, m)[1].ino = n
      BY <1>2, <3>1, <3>2, <3>3
    <3> QED
      BY <3>1, <3>4 DEF m
  <2> QED
    BY <1>10, <1>12, <2>1, <2>2
<1>13. ASSUME NEW m \in LiveIn(e) \ {Root}
       PROVE  \E n \in LiveIn(e) : IsDir(e, n) /\ \E i \in UsedSlots(e, n) : Table(e, n)[i].ino = m
  <2>1. CASE m = ino
    <3>1. IsDir(e, n0) /\ n0 \in LiveIn(e) /\ i0 \in UsedSlots(e, n0) /\ Table(e, n0)[i0].ino = ino
      BY <1>2, <1>4, <1>5, <1>6, <1>8
    <3> QED
      BY <2>1, <3>1
  <2>2. CASE m # ino
    <3>1. PICK n \in LiveIn(d) : IsDir(d, n) /\ \E i \in UsedSlots(d, n) : Table(d, n)[i].ino = m
      BY <2>2 DEF Tree1
    <3>2. PICK i \in UsedSlots(d, n) : Table(d, n)[i].ino = m
      BY <3>1
    <3> QED
      BY <1>11, <3>1, <3>2
  <2> QED
    BY <2>1, <2>2
<1>14. ASSUME NEW n \in LiveIn(e), NEW m \in LiveIn(e), IsDir(e, n), IsDir(e, m),
              NEW i \in UsedSlots(e, n), NEW j \in UsedSlots(e, m),
              Table(e, n)[i].ino = Table(e, m)[j].ino
       PROVE  n = m /\ i = j
  <2>1. CASE Table(e, n)[i].ino = ino
    <3>1. n = n0 /\ i = i0
      BY <1>10, <1>14, <2>1
    <3>2. Table(e, m)[j].ino = ino
      BY <1>14, <2>1, Zenon
    <3>3. m = n0 /\ j = i0
      BY <1>10, <1>14, <3>2
    <3> QED
      BY <3>1, <3>3
  <2>2. CASE Table(e, n)[i].ino # ino
    <3>1. /\ n \in LiveIn(d) /\ IsDir(d, n) /\ i \in UsedSlots(d, n) /\ Table(e, n)[i] = Table(d, n)[i]
          /\ m \in LiveIn(d) /\ IsDir(d, m) /\ j \in UsedSlots(d, m) /\ Table(e, m)[j] = Table(d, m)[j]
      BY <1>10, <1>14, <2>2
    <3> QED
      BY <1>14, <3>1 DEF Tree1
  <2> QED
    BY <2>1, <2>2
<1> QED
  BY <1>8, <1>9, <1>12, <1>13, <1>14, Zenon DEF Tree1

\* Directory n0 loses its entry for the inode ino, which was a file or an empty directory.
EntryRemoved(d, e, n0, ino, i0) ==
  /\ IsDir(d, n0) /\ ino \in LiveIn(d) \ {Root, n0}
  /\ i0 \in UsedSlots(d, n0) /\ Table(d, n0)[i0].ino = ino
  /\ IsDir(d, ino) => UsedSlots(d, ino) = {}
  /\ LiveIn(e) = LiveIn(d) \ {ino}
  /\ \A n \in LiveIn(e) : e.inode[n].type = d.inode[n].type
  /\ \A n : IsDir(d, n) /\ n \notin {n0, ino} => Table(e, n) = Table(d, n) /\ e.inode[n].size = d.inode[n].size
  /\ Table(e, n0)[i0] = NoEntry
  /\ \A i \in 1..MaxEntries \ {i0} : Table(e, n0)[i] = Table(d, n0)[i]
  /\ e.inode[n0].size = d.inode[n0].size - 1

LEMMA TreeRemove ==
  ASSUME NEW d, Tree1(d), NEW e, NEW n0, NEW ino, NEW i0, EntryRemoved(d, e, n0, ino, i0)
  PROVE  Tree1(e)
<1> USE DEF EntryRemoved
<1>0. MaxEntries \in Nat /\ MaxEntries >= 2
  BY Constants, Zenon
<1>1. EntrySlots \subseteq 1..MaxEntries /\ i0 \in EntrySlots /\ i0 \in 1..MaxEntries /\ i0 # 1 /\ i0 # 2
  BY <1>0 DEF UsedSlots, EntrySlots
<1>2. \A n : IsDir(e, n) <=> IsDir(d, n) /\ n # ino
  BY DEF IsDir
<1>3. \A n : IsDir(d, n) /\ n \notin {n0, ino} => UsedSlots(e, n) = UsedSlots(d, n)
  BY DEF UsedSlots
<1>4. /\ Table(e, n0)[i0] = NoEntry
      /\ \A i \in 1..MaxEntries \ {i0} : Table(e, n0)[i] = Table(d, n0)[i]
  OBVIOUS
<1>5. NoEntry.valid # 1 /\ NoEntry.name = ""
  BY EntryFacts, Zenon
<1>6. UsedSlots(e, n0) = UsedSlots(d, n0) \ {i0}
  BY <1>1, <1>4, <1>5 DEF UsedSlots
<1>7. IsDir(e, Root) /\ IsDir(e, n0)
  BY <1>2 DEF Tree1
<1>8. ASSUME NEW n \in LiveIn(e), e.inode[n].type = "dir"
      PROVE  TableKept(e, n)
  <2>1. IsDir(d, n) /\ TableKept(d, n) /\ n # ino
    BY <1>2, <1>8 DEF IsDir, Tree1
  <2>2. CASE n # n0
    <3>1. Table(e, n) = Table(d, n) /\ UsedSlots(e, n) = UsedSlots(d, n) /\ e.inode[n].size = d.inode[n].size
      BY <1>3, <2>1, <2>2
    <3> QED
      BY <2>1, <3>1, Zenon DEF TableKept
  <2>3. CASE n = n0
    <3>1. TableKept(d, n0)
      BY <2>1, <2>3
    <3>2. Table(e, n0)[1] = Table(d, n0)[1] /\ Table(e, n0)[2] = Table(d, n0)[2]
      BY <1>0, <1>1, <1>4
    <3>3. ASSUME NEW i \in EntrySlots
          PROVE  Table(e, n0)[i].name \in (IF Table(e, n0)[i].valid = 1 THEN Names ELSE {""})
      <4>1. CASE i = i0
        BY <1>4, <1>5, <4>1, Zenon
      <4>2. CASE i # i0
        <5>1. Table(e, n0)[i] = Table(d, n0)[i]
          BY <1>1, <1>4, <4>2
        <5>2. Table(d, n0)[i].name \in (IF Table(d, n0)[i].valid = 1 THEN Names ELSE {""})
          BY <3>1, Zenon DEF TableKept
        <5> QED
          BY <5>1, <5>2, Zenon
      <4> QED
        BY <4>1, <4>2
    <3>4. ASSUME NEW i \in UsedSlots(e, n0), NEW j \in UsedSlots(e, n0), Table(e, n0)[i].name = Table(e, n0)[j].name
          PROVE  i = j
      <4>1. \A k \in UsedSlots(e, n0) : k \in UsedSlots(d, n0) /\ Table(e, n0)[k] = Table(d, n0)[k]
        BY <1>1, <1>4, <1>6 DEF UsedSlots
      <4>2. \A k, l \in UsedSlots(d, n0) : Table(d, n0)[k].name = Table(d, n0)[l].name => k = l
        BY <3>1, Zenon DEF TableKept
      <4> QED
        BY <3>4, <4>1, <4>2
    <3>5. e.inode[n0].size = Cardinality(UsedSlots(e, n0))
      <4>1. d.inode[n0].size = Cardinality(UsedSlots(d, n0))
        BY <3>1, Zenon DEF TableKept
      <4>2. Cardinality(UsedSlots(e, n0)) = Cardinality(UsedSlots(d, n0)) - 1
        <5>1. IsFiniteSet(UsedSlots(d, n0))
          BY UsedFinite, Zenon
        <5> QED
          BY <1>6, <5>1, FS_RemoveElement
      <4> QED
        BY <4>1, <4>2, Zenon
    <3>6. /\ Table(e, n0)[1].name = ".." /\ Table(e, n0)[1].valid = 1
          /\ Table(e, n0)[2] = Entry(".", n0)
      BY <3>1, <3>2, ZenonT(40) DEF TableKept
    <3> QED
      BY <2>3, <3>3, <3>4, <3>5, <3>6, Zenon DEF TableKept
  <2> QED
    BY <2>2, <2>3
<1>9. ASSUME NEW n, IsDir(e, n), NEW i \in UsedSlots(e, n)
      PROVE  /\ n \in LiveIn(d) /\ IsDir(d, n) /\ i \in UsedSlots(d, n)
             /\ Table(e, n)[i] = Table(d, n)[i] /\ ~(n = n0 /\ i = i0)
  <2>1. n # ino /\ n \in LiveIn(d) /\ IsDir(d, n)
    BY <1>2, <1>9 DEF IsDir
  <2>2. CASE n # n0
    BY <1>3, <1>9, <2>1, <2>2
  <2>3. CASE n = n0
    <3>1. i \in UsedSlots(d, n) /\ i # i0 /\ i \in 1..MaxEntries \ {i0}
      BY <1>1, <1>6, <1>9, <2>3 DEF UsedSlots
    <3>2. Table(e, n)[i] = Table(d, n)[i]
      BY <1>4, <2>3, <3>1
    <3> QED
      BY <2>1, <2>3, <3>1, <3>2
  <2> QED
    BY <2>2, <2>3
<1>10. ASSUME NEW n, IsDir(d, n), NEW i \in UsedSlots(d, n), Table(d, n)[i].ino # ino
       PROVE  IsDir(e, n) /\ i \in UsedSlots(e, n) /\ Table(e, n)[i] = Table(d, n)[i]
  <2>1. IsDir(e, n) /\ n # ino
    BY <1>2, <1>10
  <2>2. CASE n # n0
    BY <1>3, <1>10, <2>1, <2>2
  <2>3. CASE n = n0
    <3>1. i \in UsedSlots(e, n) /\ i \in 1..MaxEntries \ {i0}
      BY <1>1, <1>6, <1>10, <2>3 DEF UsedSlots
    <3> QED
      BY <1>4, <2>1, <2>3, <3>1
  <2> QED
    BY <2>2, <2>3
<1>11. ASSUME NEW n \in LiveIn(e), IsDir(e, n), NEW i \in UsedSlots(e, n)
       PROVE  LET m == Table(e, n)[i].ino
              IN  /\ m \in LiveIn(e) \ {Root}
                  /\ IsDir(e, m) => Table(e, m)[1].ino = n
  <2> DEFINE m == Table(e, n)[i].ino
  <2>1. /\ n \in LiveIn(d) /\ IsDir(d, n) /\ i \in UsedSlots(d, n)
        /\ m = Table(d, n)[i].ino /\ ~(n = n0 /\ i = i0)
    BY <1>9, <1>11
  <2>2. m \in LiveIn(d) \ {Root} /\ (IsDir(d, m) => Table(d, m)[1].ino = n)
    BY <2>1 DEF Tree1
  <2>3. m # ino
    <3>1. n0 \in LiveIn(d)
      BY DEF IsDir
    <3>2. Table(d, n)[i].ino = Table(d, n0)[i0].ino => n = n0 /\ i = i0
      <4>1. \A k \in UsedSlots(d, n), l \in UsedSlots(d, n0) : Table(d, n)[k].ino = Table(d, n0)[l].ino => n = n0 /\ k = l
        BY <2>1, <3>1 DEF Tree1
      <4> QED
        BY <2>1, <4>1
    <3> QED
      BY <2>1, <3>2, Zenon
  <2> HIDE DEF m
  <2>4. IsDir(e, m) => IsDir(d, m) /\ Table(e, m)[1] = Table(d, m)[1]
    BY <1>0, <1>1, <1>2, <1>4
  <2> QED
    BY <2>2, <2>3, <2>4 DEF m
<1>12. ASSUME NEW m \in LiveIn(e) \ {Root}
       PROVE  \E n \in LiveIn(e) : IsDir(e, n) /\ \E i \in UsedSlots(e, n) : Table(e, n)[i].ino = m
  <2>1. PICK n \in LiveIn(d) : IsDir(d, n) /\ \E i \in UsedSlots(d, n) : Table(d, n)[i].ino = m
    BY DEF Tree1
  <2>2. PICK i \in UsedSlots(d, n) : Table(d, n)[i].ino = m
    BY <2>1
  <2>3. IsDir(e, n) /\ i \in UsedSlots(e, n) /\ Table(e, n)[i] = Table(d, n)[i]
    BY <1>10, <2>1, <2>2
  <2> QED
    BY <2>2, <2>3 DEF IsDir
<1>13. ASSUME NEW n \in LiveIn(e), NEW m \in LiveIn(e), IsDir(e, n), IsDir(e, m),
              NEW i \in UsedSlots(e, n), NEW j \in UsedSlots(e, m),
              Table(e, n)[i].ino = Table(e, m)[j].ino
       PROVE  n = m /\ i = j
  <2>1. /\ n \in LiveIn(d) /\ IsDir(d, n) /\ i \in UsedSlots(d, n) /\ Table(e, n)[i] = Table(d, n)[i]
        /\ m \in LiveIn(d) /\ IsDir(d, m) /\ j \in UsedSlots(d, m) /\ Table(e, m)[j] = Table(d, m)[j]
    BY <1>9, <1>13
  <2> QED
    BY <1>13, <2>1 DEF Tree1
<1> QED
  BY <1>7, <1>8, <1>11, <1>12, <1>13, Zenon DEF Tree1

\* The new node: a file without blocks, or a directory with a table of its own.
NewFile(d, e, ino) == e.d_bitmap = d.d_bitmap /\ e.inode[ino] = init_inode("file")

NewDir(d, e, ino, n0, blk) ==
  /\ blk \in Blocks \ d.d_bitmap /\ e.d_bitmap = d.d_bitmap \cup {blk}
  /\ e.inode[ino] = [init_inode("dir") EXCEPT !.direct[0] = blk]
  /\ e.block[blk] = init_dirent_table(ino, n0)

LEMMA InitFacts ==
  ASSUME NEW type
  PROVE  /\ init_inode(type).valid = 1 /\ init_inode(type).type = type /\ init_inode(type).size = 0
         /\ init_inode(type).direct = [i \in DirectSlots |-> Nil]
         /\ init_inode(type).indirect = [k \in IndirectSlots |-> Nil]
BY DEF init_inode, DirectSlots, IndirectSlots

LEMMA NewDirFacts ==
  ASSUME NEW d, NEW e, NEW m, NEW n, NEW x, NewDir(d, e, m, n, x)
  PROVE  /\ e.inode[m].valid = 1 /\ e.inode[m].type = "dir" /\ e.inode[m].size = 0
         /\ e.inode[m].direct[0] = x /\ \A i \in DirectSlots \ {0} : e.inode[m].direct[i] = Nil
         /\ \A k \in IndirectSlots : e.inode[m].indirect[k] = Nil
         /\ e.block[x].as = "table" /\ e.block[x].entry = init_dirent_table(m, n).entry
<1> DEFINE f == init_inode("dir")
<1>1. /\ f.valid = 1 /\ f.type = "dir" /\ f.size = 0
      /\ f.direct = [i \in DirectSlots |-> Nil] /\ f.indirect = [k \in IndirectSlots |-> Nil]
  BY InitFacts
<1>2. 0 \in DirectSlots
  BY Constants, Zenon
<1>3. e.inode[m] = [f EXCEPT !.direct[0] = x]
  BY DEF NewDir
<1>4. f = [valid |-> 1, type |-> "dir", size |-> 0,
           direct |-> [i \in DirectSlots |-> Nil], indirect |-> [k \in IndirectSlots |-> Nil]]
  BY DEF init_inode, DirectSlots, IndirectSlots
<1> HIDE DEF f
<1>5. /\ e.inode[m].valid = 1 /\ e.inode[m].type = "dir" /\ e.inode[m].size = 0
      /\ e.inode[m].direct = [i \in DirectSlots |-> IF i = 0 THEN x ELSE Nil]
      /\ e.inode[m].indirect = [k \in IndirectSlots |-> Nil]
  <2> DEFINE z == [i \in DirectSlots |-> Nil]
             y == [k \in IndirectSlots |-> Nil]
  <2>1. [z EXCEPT ![0] = x] = [i \in DirectSlots |-> IF i = 0 THEN x ELSE Nil]
    BY <1>2
  <2>2. f = [valid |-> 1, type |-> "dir", size |-> 0, direct |-> z, indirect |-> y]
    BY <1>4
  <2> HIDE DEF z, y
  <2>3. [f EXCEPT !.direct[0] = x] =
          [valid |-> 1, type |-> "dir", size |-> 0, direct |-> [z EXCEPT ![0] = x], indirect |-> y]
    BY <2>2
  <2> DEFINE u == [z EXCEPT ![0] = x]
  <2>4. e.inode[m] = [valid |-> 1, type |-> "dir", size |-> 0, direct |-> u, indirect |-> y]
    BY <1>3, <2>3
  <2> HIDE DEF u
  <2>5. /\ e.inode[m].valid = 1 /\ e.inode[m].type = "dir" /\ e.inode[m].size = 0
        /\ e.inode[m].direct = u /\ e.inode[m].indirect = y
    BY <2>4
  <2> QED
    BY <2>1, <2>5 DEF u, y
<1>6. e.block[x].as = "table" /\ e.block[x].entry = init_dirent_table(m, n).entry
  BY DEF NewDir, init_dirent_table
<1> QED
  BY <1>2, <1>5, <1>6

\* Directory n0, whose table is block t, gets entry i0 for the new node ino.
NodeAdded(d, e, n0, ino, name, i0, t, blk) ==
  /\ IsDir(d, n0)
  /\ ino \in Inos \ d.i_bitmap
  /\ name \in Names
  /\ i0 \in 1..MaxEntries
  /\ Table(d, n0)[i0].valid = 0
  /\ \A i \in 1..MaxEntries : Table(d, n0)[i].name # name
  /\ t = d.inode[n0].direct[0]
  /\ e.i_bitmap = d.i_bitmap \cup {ino}
  /\ \A n \in Inos \ {n0, ino} : e.inode[n] = d.inode[n]
  /\ e.inode[n0] = [d.inode[n0] EXCEPT !.size = @ + 1]
  /\ e.block[t] = [as |-> "table", entry |-> [Table(d, n0) EXCEPT ![i0] = Entry(name, ino)]]
  /\ \A b \in Blocks \ {t} : b \in d.d_bitmap \/ b \notin e.d_bitmap => e.block[b] = d.block[b]
  /\ NewFile(d, e, ino) \/ NewDir(d, e, ino, n0, blk)

LEMMA AddGood ==
  ASSUME NEW d, Good(d), NEW e \in Disk, NEW n0, NEW ino, NEW name, NEW i0, NEW t, NEW blk,
         NodeAdded(d, e, n0, ino, name, i0, t, blk)
  PROVE  Good(e) /\ EntryAdded(d, e, n0, ino, name, i0)
<1> SUFFICES ASSUME IsDir(d, n0),
                    ino \in Inos \ d.i_bitmap,
                    name \in Names,
                    i0 \in 1..MaxEntries,
                    Table(d, n0)[i0].valid = 0,
                    \A i \in 1..MaxEntries : Table(d, n0)[i].name # name,
                    t = d.inode[n0].direct[0],
                    e.i_bitmap = d.i_bitmap \cup {ino},
                    \A n \in Inos \ {n0, ino} : e.inode[n] = d.inode[n],
                    e.inode[n0] = [d.inode[n0] EXCEPT !.size = @ + 1],
                    e.block[t] = [as |-> "table", entry |-> [Table(d, n0) EXCEPT ![i0] = Entry(name, ino)]],
                    \A b \in Blocks \ {t} : b \in d.d_bitmap \/ b \notin e.d_bitmap => e.block[b] = d.block[b],
                    NewFile(d, e, ino) \/ NewDir(d, e, ino, n0, blk)
             PROVE  Good(e) /\ EntryAdded(d, e, n0, ino, name, i0)
  BY DEF NodeAdded
<1>0. d \in Disk /\ Owned(d) /\ Shape(d) /\ Dead(d) /\ Tree1(d) /\ FreeZero(d)
  BY DEF Good
<1>1. n0 \in LiveIn(d) /\ n0 \in Inos /\ ino \notin LiveIn(d) /\ ino # n0 /\ ino \in Inos
  BY <1>0 DEF Owned, IsDir, LiveIn
<1>2. /\ DirShape(d, n0) /\ t \in Blocks /\ Table(d, n0) \in [1..MaxEntries -> Dirent]
      /\ d.block[t] = [as |-> "table", entry |-> Table(d, n0)]
  <2>1. d.inode[n0].type = "dir"
    BY DEF IsDir
  <2> QED
    BY <1>0, <1>1, <2>1, TableFacts
<1>3. TableKept(d, n0)
  BY <1>0 DEF Tree1, IsDir
<1>4. i0 \in EntrySlots
  <2>1. MaxEntries \in Nat
    BY Constants, Zenon
  <2>2. Table(d, n0)[1].valid = 1 /\ Table(d, n0)[2] = Entry(".", n0)
    BY <1>3, Zenon DEF TableKept
  <2>3. Entry(".", n0).valid = 1
    BY DEF Entry
  <2>4. i0 # 1 /\ i0 # 2
    BY <2>2, <2>3
  <2> QED
    BY <2>1, <2>4 DEF EntrySlots
<1>5. /\ e.inode[n0].valid = 1 /\ e.inode[n0].type = "dir"
      /\ e.inode[n0].direct = d.inode[n0].direct /\ e.inode[n0].indirect = d.inode[n0].indirect
      /\ e.inode[n0].size = d.inode[n0].size + 1
  <2>1. d.inode[n0].valid = 1 /\ d.inode[n0].type = "dir" /\ d.inode[n0] \in Inode
    BY <1>0, <1>1, DiskParts DEF IsDir, LiveIn
  <2> QED
    BY <2>1 DEF Inode
<1>6. /\ e.inode[ino].valid = 1 /\ e.inode[ino].size = 0 /\ e.inode[ino].type \in {"file", "dir"}
      /\ \A i \in DirectSlots \ {0} : e.inode[ino].direct[i] = Nil
      /\ \A k \in IndirectSlots : e.inode[ino].indirect[k] = Nil
      /\ NewFile(d, e, ino) => e.inode[ino].direct[0] = Nil /\ e.inode[ino].type = "file"
      /\ NewDir(d, e, ino, n0, blk) => e.inode[ino].direct[0] = blk /\ e.inode[ino].type = "dir"
  <2>1. 0 \in DirectSlots
    BY Constants, Zenon
  <2>2. CASE NewFile(d, e, ino)
    <3>1. ~NewDir(d, e, ino, n0, blk)
      BY <2>2 DEF NewFile, NewDir
    <3> QED
      BY <2>1, <2>2, <3>1, InitFacts DEF NewFile
  <2>3. CASE NewDir(d, e, ino, n0, blk)
    <3>1. ~NewFile(d, e, ino)
      BY <2>3 DEF NewFile, NewDir
    <3>2. /\ e.inode[ino].valid = 1 /\ e.inode[ino].type = "dir" /\ e.inode[ino].size = 0
          /\ e.inode[ino].direct[0] = blk /\ \A i \in DirectSlots \ {0} : e.inode[ino].direct[i] = Nil
          /\ \A k \in IndirectSlots : e.inode[ino].indirect[k] = Nil
      BY <2>3, NewDirFacts
    <3> QED
      BY <2>3, <3>1, <3>2
  <2> QED
    BY <2>2, <2>3
<1>7. LiveIn(e) = LiveIn(d) \cup {ino}
  <2> SUFFICES ASSUME NEW n \in Inos PROVE e.inode[n].valid = 1 <=> d.inode[n].valid = 1 \/ n = ino
    BY <1>1 DEF LiveIn
  <2>1. n \notin {n0, ino} => e.inode[n] = d.inode[n]
    OBVIOUS
  <2>2. d.inode[n0].valid = 1
    BY <1>1 DEF LiveIn
  <2> QED
    BY <1>1, <1>5, <1>6, <2>1, <2>2
<1>8. \A n \in LiveIn(d) : /\ e.inode[n].type = d.inode[n].type
                           /\ e.inode[n].direct = d.inode[n].direct
                           /\ e.inode[n].indirect = d.inode[n].indirect
  BY <1>1, <1>5 DEF LiveIn, IsDir
<1>9. d.d_bitmap \subseteq e.d_bitmap
  BY DEF NewFile, NewDir
<1>10. t # Nil /\ Points(d, n0, "direct", 0, t) /\ t \in d.d_bitmap
  <2>1. 0 \in DirectSlots /\ Nil \notin Blocks
    BY Constants, Zenon
  <2> QED
    BY <1>1, <1>2, <2>1, PointsFacts
<1>11. \A b \in d.d_bitmap \ {t} : e.block[b] = d.block[b]
  BY <1>0, DiskParts
<1>12. d.block[t].as = "table" /\ e.block[t].as = "table"
  BY <1>2
<1>13. IndexesIn(e) = IndexesIn(d)
  <2>1. \A n \in LiveIn(e), k \in IndirectSlots, x \in Blocks :
          e.inode[n].indirect[k] = x => n \in LiveIn(d) /\ d.inode[n].indirect[k] = x
    <3>1. Nil \notin Blocks
      BY Constants, Zenon
    <3> QED
      BY <1>6, <1>7, <1>8, <3>1
  <2> QED
    BY <1>7, <1>8, <2>1 DEF IndexesIn
<1>14. \A x \in IndexesIn(d) : x # t /\ x \in d.d_bitmap /\ e.block[x] = d.block[x] /\ x \in Blocks
  <2> SUFFICES ASSUME NEW x \in IndexesIn(d)
               PROVE  x # t /\ x \in d.d_bitmap /\ x \in Blocks
    BY <1>11
  <2>1. PICK n \in LiveIn(d), k \in IndirectSlots : x \in Blocks /\ d.inode[n].indirect[k] = x
    BY DEF IndexesIn
  <2>2. x # Nil
    BY <2>1, Constants, Zenon
  <2>3. x \in d.d_bitmap /\ Points(d, n, "indirect", k, x)
    BY <2>1, <2>2, PointsFacts
  <2>4. x # t
    BY <1>0, <1>10, <2>2, <2>3 DEF Owned
  <2> QED
    BY <2>1, <2>3, <2>4
<1>15. ASSUME NEW b, NEW o, NEW kind, NEW i, b # Nil, Points(e, o, kind, i, b)
       PROVE  Points(d, o, kind, i, b) \/ (o = ino /\ kind = "direct" /\ i = 0 /\ b = e.inode[ino].direct[0])
  <2>1. CASE kind = "index"
    BY <1>13, <1>14, <1>15, <2>1 DEF Points
  <2>2. CASE kind = "direct"
    BY <1>6, <1>7, <1>8, <1>15, <2>2 DEF Points
  <2>3. CASE kind = "indirect"
    BY <1>6, <1>7, <1>8, <1>15, <2>3 DEF Points
  <2> QED
    BY <1>15, <2>1, <2>2, <2>3 DEF Points
<1>16. Owned(e)
  <2>1. LiveIn(e) \subseteq e.i_bitmap
    BY <1>0, <1>7 DEF Owned
  <2>2. ASSUME NEW b, NEW o, NEW kind, NEW i, b # Nil, Points(d, o, kind, i, b)
        PROVE  b \in e.d_bitmap
    BY <1>0, <1>9, <2>2 DEF Owned
  <2>3. CASE NewFile(d, e, ino)
    <3>1. \A b, o, kind, i : b # Nil /\ Points(e, o, kind, i, b) => Points(d, o, kind, i, b) /\ b \in e.d_bitmap
      BY <1>6, <1>15, <2>2, <2>3
    <3> QED
      BY <1>0, <2>1, <3>1, OwnedFewer, Zenon
  <2>4. CASE NewDir(d, e, ino, n0, blk)
    <3>1. blk \notin d.d_bitmap /\ blk \in e.d_bitmap /\ e.inode[ino].direct[0] = blk
      BY <1>6, <2>4 DEF NewDir
    <3>2. OneNew(d, e, blk, ino, "direct", 0)
      BY <1>15, <2>2, <3>1 DEF OneNew
    <3> QED
      BY <1>0, <2>1, <3>2, OwnedKept, Zenon
  <2> QED
    BY <2>3, <2>4
<1>17. Dead(e)
  BY <1>0, <1>7, <1>1 DEF Dead
<1>18. FreeZero(e)
  BY <1>0, <1>9, <1>10 DEF FreeZero
<1>19. ASSUME NEW n, IsDir(d, n), n # n0
       PROVE  Table(e, n) = Table(d, n) /\ e.inode[n].size = d.inode[n].size
  <2> DEFINE b == d.inode[n].direct[0]
  <2>1. n \in LiveIn(d) /\ n \in Inos \ {n0, ino} /\ 0 \in DirectSlots
    <3>1. 0 \in DirectSlots
      BY Constants, Zenon
    <3> QED
      BY <1>1, <1>19, <3>1 DEF IsDir, LiveIn
  <2>2. DirShape(d, n)
    BY <1>0, <1>19 DEF Shape, IsDir
  <2>3. Points(d, n, "direct", 0, b) /\ b \in d.d_bitmap /\ b # Nil
    BY <2>1, <2>2, PointsFacts DEF DirShape
  <2>4. b # t
    BY <1>0, <1>10, <1>19, <2>3, Zenon DEF Owned
  <2>5. e.inode[n] = d.inode[n] /\ e.block[b] = d.block[b]
    BY <1>11, <2>1, <2>3, <2>4
  <2> QED
    BY <2>5 DEF Table
<1>20. /\ Table(e, n0)[i0] = Entry(name, ino)
       /\ \A i \in 1..MaxEntries \ {i0} : Table(e, n0)[i] = Table(d, n0)[i]
  <2>1. Table(e, n0) = e.block[t].entry
    BY <1>5 DEF Table
  <2> HIDE DEF Table
  <2>2. e.block[t].entry = [Table(d, n0) EXCEPT ![i0] = Entry(name, ino)]
    OBVIOUS
  <2> QED
    BY <1>2, <2>1, <2>2
<1>21. Tree1(e) /\ EntryAdded(d, e, n0, ino, name, i0)
  <2>1. IsDir(e, ino) => e.inode[ino].size = 0 /\ Table(e, ino) = init_dirent_table(ino, n0).entry
    <3> SUFFICES ASSUME IsDir(e, ino) PROVE Table(e, ino) = init_dirent_table(ino, n0).entry
      BY <1>6
    <3>1. NewDir(d, e, ino, n0, blk)
      BY <1>6 DEF IsDir
    <3> QED
      <4>1. e.inode[ino].direct[0] = blk
        BY <1>6, <3>1
      <4>2. e.block[blk].entry = init_dirent_table(ino, n0).entry
        BY <3>1, NewDirFacts
      <4> QED
        BY <4>1, <4>2 DEF Table
  <2>2. \A n \in LiveIn(d) : e.inode[n].type = d.inode[n].type
    BY <1>8
  <2>3. \A n : IsDir(d, n) /\ n # n0 => Table(e, n) = Table(d, n) /\ e.inode[n].size = d.inode[n].size
    BY <1>19
  <2>4. ino \in Inos \ LiveIn(d)
    BY <1>1
  <2>5. e.inode[n0].size = d.inode[n0].size + 1
    BY <1>5
  <2> QED
    <3>1. EntryAdded(d, e, n0, ino, name, i0)
      BY <1>4, <1>7, <1>20, <2>1, <2>2, <2>3, <2>4, <2>5, Zenon DEF EntryAdded
    <3> QED
      BY <1>0, <3>1, TreeAdd
<1>22. Shape(e)
  <2>1. ASSUME NEW b, b # Nil => b \in d.d_bitmap, BytesAt(d, b) PROVE BytesAt(e, b)
    BY <1>11, <1>12, <2>1 DEF BytesAt
  <2>2. ASSUME NEW x, x # Nil => x \in IndexesIn(d), IndexAt(d, x),
               x # Nil => \A j \in IndexSlots : d.block[x].ptr[j] # Nil => d.block[x].ptr[j] \in d.d_bitmap
        PROVE  IndexAt(e, x)
    BY <1>14, <2>1, <2>2 DEF IndexAt
  <2> SUFFICES ASSUME NEW n \in LiveIn(e)
               PROVE  \/ e.inode[n].type = "dir"  /\ DirShape(e, n)
                      \/ e.inode[n].type = "file" /\ FileShape(e, n)
    BY DEF Shape
  <2>3. CASE n = ino /\ NewFile(d, e, ino)
    <3>1. \A i \in DirectSlots : e.inode[ino].direct[i] = Nil
      BY <1>6, <2>3
    <3>2. BytesAt(e, Nil) /\ IndexAt(e, Nil)
      BY DEF BytesAt, IndexAt
    <3>3. FileShape(e, ino)
      BY <1>6, <3>1, <3>2 DEF FileShape
    <3> QED
      BY <1>6, <2>3, <3>3
  <2>4. CASE n = ino /\ NewDir(d, e, ino, n0, blk)
    <3>1. blk # Nil
      <4>1. Nil \notin Blocks
        BY Constants, Zenon
      <4> QED
        BY <2>4, <4>1 DEF NewDir
    <3>2. e.block[blk].as = "table"
      BY <2>4, NewDirFacts
    <3>3. DirShape(e, ino)
      BY <1>6, <2>4, <3>1, <3>2 DEF DirShape
    <3> QED
      BY <1>6, <2>4, <3>3
  <2>5. CASE n \in LiveIn(d) /\ d.inode[n].type = "dir"
    <3>1. DirShape(d, n) /\ IsDir(d, n)
      BY <1>0, <2>5 DEF Shape, IsDir
    <3>2. d.inode[n].direct[0] \in d.d_bitmap
      <4>1. 0 \in DirectSlots
        BY Constants, Zenon
      <4> QED
        BY <2>5, <3>1, <4>1, PointsFacts DEF DirShape
    <3>3. e.block[d.inode[n].direct[0]].as = "table"
      BY <1>11, <1>12, <3>1, <3>2 DEF DirShape
    <3>4. DirShape(e, n)
      <4>1. e.inode[n].direct = d.inode[n].direct /\ e.inode[n].indirect = d.inode[n].indirect
        BY <1>8, <2>5
      <4> QED
        BY <3>1, <3>3, <4>1, DirShapeKept
    <3> QED
      BY <1>8, <2>5, <3>4
  <2>6. CASE n \in LiveIn(d) /\ d.inode[n].type # "dir"
    <3>1. FileShape(d, n) /\ d.inode[n].type = "file"
      BY <1>0, <2>6 DEF Shape
    <3>2. ASSUME NEW i \in DirectSlots PROVE BytesAt(e, e.inode[n].direct[i])
      BY <1>8, <2>1, <2>6, <3>1, PointsFacts DEF FileShape
    <3>3. ASSUME NEW k \in IndirectSlots PROVE IndexAt(e, e.inode[n].indirect[k])
      <4> DEFINE x == d.inode[n].indirect[k]
      <4>1. /\ x # Nil => x \in IndexesIn(d)
            /\ x # Nil => \A j \in IndexSlots : d.block[x].ptr[j] # Nil => d.block[x].ptr[j] \in d.d_bitmap
        BY <2>6, PointsFacts
      <4>2. IndexAt(d, x)
        BY <3>1 DEF FileShape
      <4>3. e.inode[n].indirect[k] = x
        BY <1>8, <2>6
      <4> HIDE DEF x
      <4> QED
        BY <2>2, <4>1, <4>2, <4>3
    <3> QED
      BY <1>8, <2>6, <3>1, <3>2, <3>3 DEF FileShape
  <2> QED
    BY <1>7, <2>3, <2>4, <2>5, <2>6
<1> QED
  BY <1>16, <1>17, <1>18, <1>21, <1>22 DEF Good

\* Block b is one of node ino's own.
BelongsTo(d, ino, b) ==
  \/ \E i \in DirectSlots : b = d.inode[ino].direct[i]
  \/ \E k \in IndirectSlots : \/ b = d.inode[ino].indirect[k]
                              \/ /\ d.inode[ino].indirect[k] # Nil
                                 /\ \E j \in IndexSlots : b = d.block[d.inode[ino].indirect[k]].ptr[j]

\* Two nodes have no block in common.
LEMMA Apart ==
  ASSUME NEW d, Good(d), NEW ino \in LiveIn(d), NEW n \in LiveIn(d), n # ino,
         NEW b, b # Nil, BelongsTo(d, ino, b)
  PROVE  ~BelongsTo(d, n, b)
<1>0. Owned(d)
  BY DEF Good
<1>1. PICK o, kind, i : /\ Points(d, o, kind, i, b)
                        /\ kind # "index" => o = ino
                        /\ kind = "index" => \E k \in IndirectSlots : Points(d, ino, "indirect", k, o) /\ o # Nil
  <2>1. CASE \E l \in DirectSlots : b = d.inode[ino].direct[l]
    <3>1. PICK l \in DirectSlots : b = d.inode[ino].direct[l]
      BY <2>1
    <3>2. Points(d, ino, "direct", l, b)
      BY <3>1 DEF Points
    <3> QED
      BY <3>2
  <2>2. CASE \E k \in IndirectSlots : b = d.inode[ino].indirect[k]
    <3>1. PICK k \in IndirectSlots : b = d.inode[ino].indirect[k]
      BY <2>2
    <3>2. Points(d, ino, "indirect", k, b)
      BY <3>1 DEF Points
    <3> QED
      BY <3>2
  <2>3. CASE \E k \in IndirectSlots : /\ d.inode[ino].indirect[k] # Nil
                                      /\ \E j \in IndexSlots : b = d.block[d.inode[ino].indirect[k]].ptr[j]
    <3>1. PICK k \in IndirectSlots : /\ d.inode[ino].indirect[k] # Nil
                                     /\ \E j \in IndexSlots : b = d.block[d.inode[ino].indirect[k]].ptr[j]
      BY <2>3
    <3> DEFINE x == d.inode[ino].indirect[k]
    <3>2. PICK j \in IndexSlots : b = d.block[x].ptr[j]
      BY <3>1
    <3>3. Points(d, x, "index", j, b) /\ Points(d, ino, "indirect", k, x) /\ x # Nil
      BY <3>1, <3>2, PointsFacts
    <3> QED
      BY <3>3
  <2> QED
    BY <2>1, <2>2, <2>3 DEF BelongsTo
<1>2. ASSUME NEW l \in DirectSlots, d.inode[n].direct[l] = b PROVE FALSE
  <2>1. Points(d, n, "direct", l, b)
    BY <1>2 DEF Points
  <2>2. n = o /\ kind = "direct"
    BY <1>0, <1>1, <2>1 DEF Owned
  <2> QED
    BY <1>1, <2>2
<1>3. ASSUME NEW k \in IndirectSlots, d.inode[n].indirect[k] = b PROVE FALSE
  <2>1. Points(d, n, "indirect", k, b)
    BY <1>3 DEF Points
  <2>2. n = o /\ kind = "indirect"
    BY <1>0, <1>1, <2>1 DEF Owned
  <2> QED
    BY <1>1, <2>2
<1>4. ASSUME NEW k \in IndirectSlots, NEW x, d.inode[n].indirect[k] = x, x # Nil,
             NEW j \in IndexSlots, d.block[x].ptr[j] = b
      PROVE  FALSE
  <2>1. Points(d, x, "index", j, b) /\ Points(d, n, "indirect", k, x)
    BY <1>4, PointsFacts
  <2>2. x = o /\ kind = "index"
    BY <1>0, <1>1, <2>1 DEF Owned
  <2>3. PICK l \in IndirectSlots : Points(d, ino, "indirect", l, x)
    BY <1>1, <2>2
  <2>4. n = ino
    BY <1>0, <1>4, <2>1, <2>3 DEF Owned
  <2> QED
    BY <2>4
<1> QED
  BY <1>2, <1>3, <1>4 DEF BelongsTo

\* Node ino is cleared, with blocks of its own, and directory n0, whose table is block t, loses
\* its entry i0 for it.
NodeRemoved(d, e, n0, ino, i0, B, t) ==
  /\ IsDir(d, n0)
  /\ ino \in LiveIn(d) \ {Root, n0}
  /\ i0 \in UsedSlots(d, n0)
  /\ Table(d, n0)[i0].ino = ino
  /\ IsDir(d, ino) => UsedSlots(d, ino) = {}
  /\ \A b \in B : b \in Blocks /\ BelongsTo(d, ino, b)
  /\ t = d.inode[n0].direct[0]
  /\ e.i_bitmap = d.i_bitmap \ {ino}
  /\ e.d_bitmap = d.d_bitmap \ B
  /\ e.inode[ino].valid = 0
  /\ e.inode[ino].type = "none"
  /\ \A n \in Inos \ {n0, ino} : e.inode[n] = d.inode[n]
  /\ e.inode[n0] = [d.inode[n0] EXCEPT !.size = @ - 1]
  /\ e.block[t] = [as |-> "table", entry |-> [Table(d, n0) EXCEPT ![i0] = NoEntry]]
  /\ \A b \in B \ {t} : e.block[b] = Zero
  /\ \A b \in Blocks \ (B \cup {t}) : e.block[b] = d.block[b]

LEMMA RemoveGood ==
  ASSUME NEW d, Good(d), NEW e \in Disk, NEW n0, NEW ino, NEW i0, NEW B, NEW t,
         NodeRemoved(d, e, n0, ino, i0, B, t)
  PROVE  Good(e) /\ EntryRemoved(d, e, n0, ino, i0)
<1> SUFFICES ASSUME IsDir(d, n0),
                    ino \in LiveIn(d) \ {Root, n0},
                    i0 \in UsedSlots(d, n0),
                    Table(d, n0)[i0].ino = ino,
                    IsDir(d, ino) => UsedSlots(d, ino) = {},
                    \A b \in B : b \in Blocks /\ BelongsTo(d, ino, b),
                    t = d.inode[n0].direct[0],
                    e.i_bitmap = d.i_bitmap \ {ino},
                    e.d_bitmap = d.d_bitmap \ B,
                    e.inode[ino].valid = 0,
                    e.inode[ino].type = "none",
                    \A n \in Inos \ {n0, ino} : e.inode[n] = d.inode[n],
                    e.inode[n0] = [d.inode[n0] EXCEPT !.size = @ - 1],
                    e.block[t] = [as |-> "table", entry |-> [Table(d, n0) EXCEPT ![i0] = NoEntry]],
                    \A b \in B \ {t} : e.block[b] = Zero,
                    \A b \in Blocks \ (B \cup {t}) : e.block[b] = d.block[b]
             PROVE  Good(e) /\ EntryRemoved(d, e, n0, ino, i0)
  BY DEF NodeRemoved
<1>0. d \in Disk /\ Owned(d) /\ Shape(d) /\ Dead(d) /\ Tree1(d) /\ FreeZero(d)
  BY DEF Good
<1>1. n0 \in LiveIn(d) /\ n0 \in Inos /\ ino # n0 /\ ino \in Inos
  BY DEF IsDir, LiveIn
<1>2. /\ DirShape(d, n0) /\ t \in Blocks /\ Table(d, n0) \in [1..MaxEntries -> Dirent]
      /\ d.block[t] = [as |-> "table", entry |-> Table(d, n0)]
  <2>1. d.inode[n0].type = "dir"
    BY DEF IsDir
  <2> QED
    BY <1>0, <1>1, <2>1, TableFacts
<1>3. /\ e.inode[n0].valid = 1 /\ e.inode[n0].type = "dir"
      /\ e.inode[n0].direct = d.inode[n0].direct /\ e.inode[n0].indirect = d.inode[n0].indirect
      /\ e.inode[n0].size = d.inode[n0].size - 1
  <2>1. d.inode[n0].valid = 1 /\ d.inode[n0].type = "dir" /\ d.inode[n0] \in Inode
    BY <1>0, <1>1, DiskParts DEF IsDir, LiveIn
  <2> QED
    BY <2>1 DEF Inode
<1>4. LiveIn(e) = LiveIn(d) \ {ino}
  <2> SUFFICES ASSUME NEW n \in Inos PROVE e.inode[n].valid = 1 <=> d.inode[n].valid = 1 /\ n # ino
    BY DEF LiveIn
  <2>1. n \notin {n0, ino} => e.inode[n] = d.inode[n]
    OBVIOUS
  <2>2. d.inode[n0].valid = 1
    BY <1>1 DEF LiveIn
  <2>3. e.inode[n0].valid = 1 /\ e.inode[ino].valid = 0 /\ n0 # ino
    BY <1>1, <1>3
  <2>4. CASE n = ino
    BY <2>3, <2>4
  <2>5. CASE n = n0
    BY <2>2, <2>3, <2>5
  <2>6. CASE n \notin {n0, ino}
    BY <2>1, <2>6
  <2> QED
    BY <2>4, <2>5, <2>6
<1>5. \A n \in LiveIn(e) : /\ n \in LiveIn(d) /\ n # ino
                           /\ e.inode[n].type = d.inode[n].type
                           /\ e.inode[n].direct = d.inode[n].direct
                           /\ e.inode[n].indirect = d.inode[n].indirect
  <2> SUFFICES ASSUME NEW n \in LiveIn(e)
               PROVE  /\ n \in LiveIn(d) /\ n # ino
                      /\ e.inode[n].type = d.inode[n].type
                      /\ e.inode[n].direct = d.inode[n].direct
                      /\ e.inode[n].indirect = d.inode[n].indirect
    OBVIOUS
  <2>1. n \in LiveIn(d) /\ n # ino /\ n \in Inos
    BY <1>4 DEF LiveIn
  <2>2. CASE n = n0
    <3>1. d.inode[n0].type = "dir"
      BY DEF IsDir
    <3> QED
      BY <1>3, <2>1, <2>2, <3>1
  <2>3. CASE n # n0
    <3>1. e.inode[n] = d.inode[n]
      BY <2>1, <2>3
    <3> QED
      BY <2>1, <3>1
  <2> QED
    BY <2>2, <2>3
<1>6. Nil \notin B /\ Nil \notin Blocks /\ 0 \in DirectSlots
  BY Constants, Zenon
<1>7. \A n \in LiveIn(e) :
        /\ \A i \in DirectSlots : d.inode[n].direct[i] \notin B
        /\ \A k \in IndirectSlots :
             /\ d.inode[n].indirect[k] \notin B
             /\ d.inode[n].indirect[k] # Nil =>
                  \A j \in IndexSlots : d.block[d.inode[n].indirect[k]].ptr[j] \notin B
  <2>1. ASSUME NEW n \in LiveIn(e), NEW b \in B PROVE ~BelongsTo(d, n, b)
    <3>1. n \in LiveIn(d) /\ n # ino /\ b # Nil /\ BelongsTo(d, ino, b)
      BY <1>5, <1>6, <2>1
    <3> QED
      BY <3>1, Apart
  <2> SUFFICES ASSUME NEW n \in LiveIn(e)
               PROVE  /\ \A i \in DirectSlots : d.inode[n].direct[i] \notin B
                      /\ \A k \in IndirectSlots :
                           /\ d.inode[n].indirect[k] \notin B
                           /\ d.inode[n].indirect[k] # Nil =>
                                \A j \in IndexSlots : d.block[d.inode[n].indirect[k]].ptr[j] \notin B
    OBVIOUS
  <2>2. \A i \in DirectSlots : d.inode[n].direct[i] \notin B
    BY <2>1, ZenonT(30) DEF BelongsTo
  <2>3. ASSUME NEW k \in IndirectSlots
        PROVE  /\ d.inode[n].indirect[k] \notin B
               /\ d.inode[n].indirect[k] # Nil =>
                    \A j \in IndexSlots : d.block[d.inode[n].indirect[k]].ptr[j] \notin B
    <3> DEFINE x == d.inode[n].indirect[k]
    <3>1. ASSUME x \in B PROVE FALSE
      <4>1. BelongsTo(d, n, x)
        BY DEF BelongsTo
      <4> QED
        BY <2>1, <3>1, <4>1
    <3>2. ASSUME x # Nil, NEW j \in IndexSlots, d.block[x].ptr[j] \in B PROVE FALSE
      <4>1. BelongsTo(d, n, d.block[x].ptr[j])
        BY <3>2 DEF BelongsTo
      <4> QED
        BY <2>1, <3>2, <4>1
    <3> QED
      BY <3>1, <3>2
  <2> QED
    BY <2>2, <2>3
<1>8. t # Nil /\ Points(d, n0, "direct", 0, t) /\ t \in d.d_bitmap /\ t \notin B
  <2>1. t \notin B
    BY <1>1, <1>4, <1>6, <1>7
  <2> QED
    BY <1>1, <1>2, <1>6, <2>1, PointsFacts
<1>9. d.block[t].as = "table" /\ e.block[t].as = "table"
  BY <1>2
<1>10. \A x \in IndexesIn(e) : x \in IndexesIn(d) /\ x \in Blocks /\ x # t /\ x \notin B
                               /\ e.block[x] = d.block[x]
                               /\ \A j \in IndexSlots : d.block[x].ptr[j] \notin B
  <2> SUFFICES ASSUME NEW x \in IndexesIn(e)
               PROVE  /\ x \in IndexesIn(d) /\ x \in Blocks /\ x # t /\ x \notin B
                      /\ \A j \in IndexSlots : d.block[x].ptr[j] \notin B
    OBVIOUS
  <2>1. PICK n \in LiveIn(e), k \in IndirectSlots : x \in Blocks /\ e.inode[n].indirect[k] = x
    BY DEF IndexesIn
  <2>2. n \in LiveIn(d) /\ d.inode[n].indirect[k] = x /\ x # Nil
    BY <1>5, <1>6, <2>1
  <2>3. Points(d, n, "indirect", k, x)
    BY <2>2 DEF Points
  <2>4. x # t
    BY <1>0, <1>8, <2>2, <2>3 DEF Owned
  <2>5. x \in IndexesIn(d)
    BY <2>1, <2>2 DEF IndexesIn
  <2>6. x \notin B /\ \A j \in IndexSlots : d.block[x].ptr[j] \notin B
    BY <1>7, <2>2, Zenon
  <2> QED
    BY <2>1, <2>4, <2>5, <2>6, Zenon
<1>11. Owned(e)
  <2>1. LiveIn(e) \subseteq e.i_bitmap
    BY <1>0, <1>4 DEF Owned
  <2>2. ASSUME NEW b, NEW o, NEW kind, NEW i, b # Nil, Points(e, o, kind, i, b)
        PROVE  Points(d, o, kind, i, b) /\ b \in e.d_bitmap
    <3>1. Points(d, o, kind, i, b) /\ b \notin B
      <4>1. CASE kind = "direct"
        <5>1. o \in LiveIn(e) /\ i \in DirectSlots /\ b = e.inode[o].direct[i]
          BY <2>2, <4>1, Zenon DEF Points
        <5>2. o \in LiveIn(d) /\ b = d.inode[o].direct[i] /\ b \notin B
          BY <1>5, <1>7, <5>1
        <5> QED
          BY <4>1, <5>1, <5>2, Zenon DEF Points
      <4>2. CASE kind = "indirect"
        <5>1. o \in LiveIn(e) /\ i \in IndirectSlots /\ b = e.inode[o].indirect[i]
          BY <2>2, <4>2, Zenon DEF Points
        <5>2. o \in LiveIn(d) /\ b = d.inode[o].indirect[i] /\ b \notin B
          BY <1>5, <1>7, <2>2, <5>1
        <5> QED
          BY <4>2, <5>1, <5>2, Zenon DEF Points
      <4>3. CASE kind = "index"
        BY <1>10, <2>2, <4>3 DEF Points
      <4> QED
        BY <2>2, <4>1, <4>2, <4>3 DEF Points
    <3> QED
      BY <1>0, <2>2, <3>1 DEF Owned
  <2> QED
    BY <1>0, <2>1, <2>2, OwnedFewer
<1>12. Dead(e)
  <2> SUFFICES ASSUME NEW n \in Inos, n \notin LiveIn(e) PROVE e.inode[n].type = "none"
    BY DEF Dead
  <2>1. n = ino \/ (n \notin LiveIn(d) /\ n \notin {n0, ino})
    BY <1>1, <1>4
  <2> QED
    BY <1>0, <2>1 DEF Dead
<1>13. FreeZero(e)
  <2> SUFFICES ASSUME NEW b \in Blocks, b \notin e.d_bitmap PROVE e.block[b] = Zero
    BY DEF FreeZero
  <2>1. b # t /\ (b \in B \/ b \notin d.d_bitmap)
    BY <1>8
  <2>2. CASE b \in B
    BY <2>1, <2>2
  <2>3. CASE b \notin B
    BY <1>0, <2>1, <2>3 DEF FreeZero
  <2> QED
    BY <2>2, <2>3
<1>14. ASSUME NEW n, IsDir(d, n), n \notin {n0, ino}
       PROVE  /\ n \in LiveIn(e) /\ d.inode[n].direct[0] # t
              /\ Table(e, n) = Table(d, n) /\ e.inode[n].size = d.inode[n].size
  <2> DEFINE b == d.inode[n].direct[0]
  <2>1. n \in LiveIn(d) /\ n \in LiveIn(e) /\ n \in Inos \ {n0, ino}
    BY <1>4, <1>14 DEF IsDir, LiveIn
  <2>2. DirShape(d, n)
    BY <1>0, <1>14 DEF Shape, IsDir
  <2>3. Points(d, n, "direct", 0, b) /\ b \in Blocks /\ b # Nil /\ b \notin B
    <3>1. b # Nil
      BY <2>2 DEF DirShape
    <3>2. Points(d, n, "direct", 0, b) /\ b \in Pointer
      BY <1>6, <2>1, PointsFacts
    <3>3. b \notin B
      BY <1>6, <1>7, <2>1
    <3> QED
      BY <3>1, <3>2, <3>3 DEF Pointer
  <2>4. b # t
    BY <1>0, <1>8, <1>14, <2>3, Zenon DEF Owned
  <2>5. e.inode[n] = d.inode[n] /\ e.block[b] = d.block[b]
    BY <2>1, <2>3, <2>4
  <2> QED
    BY <2>1, <2>4, <2>5 DEF Table
<1>15. /\ Table(e, n0)[i0] = NoEntry
       /\ \A i \in 1..MaxEntries \ {i0} : Table(e, n0)[i] = Table(d, n0)[i]
  <2>1. Table(e, n0) = e.block[t].entry
    BY <1>3 DEF Table
  <2>2. i0 \in 1..MaxEntries
    <3>1. MaxEntries \in Nat
      BY Constants, Zenon
    <3> QED
      BY <3>1 DEF UsedSlots, EntrySlots
  <2> HIDE DEF Table
  <2>3. e.block[t].entry = [Table(d, n0) EXCEPT ![i0] = NoEntry]
    OBVIOUS
  <2> QED
    BY <1>2, <2>1, <2>2, <2>3
<1>16. Tree1(e) /\ EntryRemoved(d, e, n0, ino, i0)
  <2>1. \A n \in LiveIn(e) : e.inode[n].type = d.inode[n].type
    BY <1>5
  <2>2. \A n : IsDir(d, n) /\ n \notin {n0, ino} => Table(e, n) = Table(d, n) /\ e.inode[n].size = d.inode[n].size
    BY <1>14
  <2>3. e.inode[n0].size = d.inode[n0].size - 1
    BY <1>3
  <2>4. EntryRemoved(d, e, n0, ino, i0)
    BY <1>4, <1>15, <2>1, <2>2, <2>3, Zenon DEF EntryRemoved
  <2> QED
    BY <1>0, <2>4, TreeRemove
<1>17. Shape(e)
  <2>1. ASSUME NEW b, b \in Pointer, b \notin B, BytesAt(d, b) PROVE BytesAt(e, b)
    <3>1. b # Nil => b \in Blocks /\ b # t
      BY <1>9, <2>1 DEF BytesAt, Pointer
    <3> QED
      BY <2>1, <3>1 DEF BytesAt
  <2> SUFFICES ASSUME NEW n \in LiveIn(e)
               PROVE  \/ e.inode[n].type = "dir"  /\ DirShape(e, n)
                      \/ e.inode[n].type = "file" /\ FileShape(e, n)
    BY DEF Shape
  <2>2. CASE d.inode[n].type = "dir"
    <3>1. DirShape(d, n) /\ IsDir(d, n)
      BY <1>0, <1>5, <2>2 DEF Shape, IsDir
    <3>2. d.inode[n].direct[0] \in Blocks /\ d.inode[n].direct[0] \notin B
      <4>1. d.inode[n].direct[0] # Nil
        BY <3>1 DEF DirShape
      <4>2. d.inode[n].direct[0] \in Pointer
        BY <1>5, <1>6, PointsFacts
      <4>3. d.inode[n].direct[0] \notin B
        BY <1>6, <1>7
      <4> QED
        BY <4>1, <4>2, <4>3 DEF Pointer
    <3>3. e.block[d.inode[n].direct[0]].as = "table"
      BY <1>9, <3>1, <3>2 DEF DirShape
    <3>4. DirShape(e, n)
      <4>1. e.inode[n].direct = d.inode[n].direct /\ e.inode[n].indirect = d.inode[n].indirect
        BY <1>5
      <4> QED
        BY <3>1, <3>3, <4>1, DirShapeKept
    <3> QED
      BY <1>5, <2>2, <3>4
  <2>3. CASE d.inode[n].type # "dir"
    <3>1. FileShape(d, n) /\ d.inode[n].type = "file"
      BY <1>0, <1>5, <2>3 DEF Shape
    <3>2. ASSUME NEW i \in DirectSlots PROVE BytesAt(e, e.inode[n].direct[i])
      BY <1>5, <1>7, <2>1, <3>1, PointsFacts DEF FileShape
    <3>3. ASSUME NEW k \in IndirectSlots PROVE IndexAt(e, e.inode[n].indirect[k])
      <4> DEFINE x == d.inode[n].indirect[k]
      <4>1. e.inode[n].indirect[k] = x
        BY <1>5
      <4>2. x \in Pointer /\ IndexAt(d, x)
        BY <1>5, <3>1, PointsFacts DEF FileShape
      <4>3. x # Nil => x \in IndexesIn(e)
        BY <1>5, <4>1, <4>2 DEF IndexesIn, Pointer
      <4> HIDE DEF x
      <4> SUFFICES ASSUME x # Nil PROVE IndexAt(e, x)
        BY <4>1 DEF IndexAt
      <4>4. x \in Blocks /\ e.block[x] = d.block[x] /\ \A j \in IndexSlots : d.block[x].ptr[j] \notin B
        BY <1>10, <4>3
      <4>5. d.block[x].as = "index" /\ \A j \in IndexSlots : BytesAt(d, d.block[x].ptr[j])
        BY <4>2 DEF IndexAt
      <4>6. d.block[x].ptr \in [IndexSlots -> Pointer]
        BY <1>0, <4>4, <4>5, IndexTyped, Zenon
      <4> QED
        BY <2>1, <4>4, <4>5, <4>6 DEF IndexAt
    <3> QED
      BY <1>5, <2>3, <3>1, <3>2, <3>3 DEF FileShape
  <2> QED
    BY <2>2, <2>3
<1> QED
  BY <1>11, <1>12, <1>13, <1>16, <1>17 DEF Good

=============================================================================

------------------------------ MODULE RufsProof ------------------------------
(***************************************************************************)
(* Every operation of Rufs keeps the invariant of the disk, and what the   *)
(* invariant implies: no block is used twice, the directories are a tree,  *)
(* and a free block is clear.                                              *)
(***************************************************************************)
EXTENDS RufsDiskProof

Results == {"ok", "ENOENT", "EEXIST", "ENOSPC", "short"}

-----------------------------------------------------------------------------
\* The bitmaps.

LEMMA MarkInode ==
  ASSUME NEW d, Good(d), NEW ino \in Inos, NEW e, e = [d EXCEPT !.i_bitmap = @ \cup {ino}]
  PROVE  /\ Good(e) /\ e \in Disk /\ e.i_bitmap = d.i_bitmap \cup {ino} /\ e.d_bitmap = d.d_bitmap
         /\ e.inode = d.inode /\ e.block = d.block
<1>1. d \in Disk
  BY DEF Good
<1>2. /\ e \in Disk /\ e.i_bitmap = d.i_bitmap \cup {ino} /\ e.d_bitmap = d.d_bitmap
      /\ e.inode = d.inode /\ e.block = d.block
  BY <1>1 DEF Disk
<1> QED
  BY <1>2, BitsGood

LEMMA MarkBlock ==
  ASSUME NEW d, Good(d), NEW b \in Blocks, NEW e, e = [d EXCEPT !.d_bitmap = @ \cup {b}]
  PROVE  /\ Good(e) /\ e \in Disk /\ e.i_bitmap = d.i_bitmap /\ e.d_bitmap = d.d_bitmap \cup {b}
         /\ e.inode = d.inode /\ e.block = d.block
<1>1. d \in Disk
  BY DEF Good
<1>2. /\ e \in Disk /\ e.i_bitmap = d.i_bitmap /\ e.d_bitmap = d.d_bitmap \cup {b}
      /\ e.inode = d.inode /\ e.block = d.block
  BY <1>1 DEF Disk
<1> QED
  BY <1>2, BitsGood

-----------------------------------------------------------------------------
\* Entries.

\* A directory with an unused entry has room for one more in its size.
LEMMA SizeRoom ==
  ASSUME NEW d, NEW n, NEW i \in EntrySlots, i \notin UsedSlots(d, n)
  PROVE  Cardinality(UsedSlots(d, n)) + 1 <= MaxEntries
<1> DEFINE S == UsedSlots(d, n)
<1>1. MaxEntries \in Nat
  BY Constants, Zenon
<1>2. IsFiniteSet(1..MaxEntries) /\ Cardinality(1..MaxEntries) = MaxEntries
  <2>1. 1 \in Int /\ MaxEntries \in Int
    BY <1>1
  <2>2. Cardinality(1..MaxEntries) = IF 1 > MaxEntries THEN 0 ELSE MaxEntries - 1 + 1
    BY <2>1, FS_Interval
  <2> QED
    BY <1>1, <2>1, <2>2, FS_Interval
<1>3. S \cup {i} \in SUBSET (1..MaxEntries)
  BY <1>1 DEF UsedSlots, EntrySlots
<1>4. IsFiniteSet(S)
  BY UsedFinite, Zenon
<1>5. Cardinality(S \cup {i}) = Cardinality(S) + 1
  BY <1>4, FS_AddElement
<1>6. Cardinality(S \cup {i}) <= Cardinality(1..MaxEntries)
  BY <1>2, <1>3, FS_Subset
<1> QED
  BY <1>2, <1>5, <1>6

LEMMA SizeLeft ==
  ASSUME NEW d, NEW n, NEW i \in UsedSlots(d, n)
  PROVE  Cardinality(UsedSlots(d, n)) - 1 \in Nat
<1> DEFINE S == UsedSlots(d, n)
<1>1. IsFiniteSet(S) /\ Cardinality(S) \in Nat
  BY UsedFinite, Zenon
<1>2. S # {}
  OBVIOUS
<1>3. Cardinality(S) # 0
  BY <1>1, <1>2, FS_EmptySet
<1> QED
  BY <1>1, <1>3

\* A disk of which one inode and one block are replaced.
Replaced(d, n, f, t, y) == [i_bitmap |-> d.i_bitmap, d_bitmap |-> d.d_bitmap,
                            inode |-> [d.inode EXCEPT ![n] = f], block |-> [d.block EXCEPT ![t] = y]]

LEMMA ReplacedFacts ==
  ASSUME NEW d \in Disk, NEW n \in Inos, NEW f \in Inode, NEW t \in Blocks, NEW y \in Block,
         NEW e, e = Replaced(d, n, f, t, y)
  PROVE  /\ e \in Disk /\ e.i_bitmap = d.i_bitmap /\ e.d_bitmap = d.d_bitmap
         /\ \A m \in Inos \ {n} : e.inode[m] = d.inode[m]
         /\ e.inode[n] = f
         /\ e.block[t] = y
         /\ \A b \in Blocks \ {t} : e.block[b] = d.block[b]
<1>1. /\ d.i_bitmap \in SUBSET Inos /\ d.d_bitmap \in SUBSET Blocks
      /\ d.inode \in [Inos -> Inode] /\ d.block \in [Blocks -> Block]
  BY DiskParts
<1> DEFINE I == [d.inode EXCEPT ![n] = f]
           K == [d.block EXCEPT ![t] = y]
<1>2. I \in [Inos -> Inode] /\ K \in [Blocks -> Block]
  BY <1>1
<1>3. I[n] = f /\ K[t] = y /\ (\A m \in Inos \ {n} : I[m] = d.inode[m])
      /\ \A b \in Blocks \ {t} : K[b] = d.block[b]
  BY <1>1
<1>4. e = [i_bitmap |-> d.i_bitmap, d_bitmap |-> d.d_bitmap, inode |-> I, block |-> K]
  BY DEF Replaced
<1> HIDE DEF I, K
<1>5. e.i_bitmap = d.i_bitmap /\ e.d_bitmap = d.d_bitmap /\ e.inode = I /\ e.block = K
  BY <1>4
<1>6. e \in Disk
  BY <1>1, <1>2, <1>4, DiskMake
<1> QED
  BY <1>3, <1>5, <1>6

\* A directory of which entry i becomes x.
WithEntry(d, n, i, x, size) ==
  [d EXCEPT !.block[d.inode[n].direct[0]].entry[i] = x, !.inode[n].size = size]

LEMMA EntrySet ==
  ASSUME NEW d \in Disk, NEW n \in Inos, NEW i \in 1..MaxEntries, NEW x \in Dirent,
         NEW size \in 0..MaxEntries, NEW t \in Blocks, t = d.inode[n].direct[0],
         Table(d, n) \in [1..MaxEntries -> Dirent], d.block[t] = [as |-> "table", entry |-> Table(d, n)],
         NEW e, e = WithEntry(d, n, i, x, size)
  PROVE  /\ e \in Disk /\ e.i_bitmap = d.i_bitmap /\ e.d_bitmap = d.d_bitmap
         /\ \A m \in Inos \ {n} : e.inode[m] = d.inode[m]
         /\ e.inode[n] = [d.inode[n] EXCEPT !.size = size]
         /\ e.block[t] = [as |-> "table", entry |-> [Table(d, n) EXCEPT ![i] = x]]
         /\ \A b \in Blocks \ {t} : e.block[b] = d.block[b]
<1> DEFINE f == [d.inode[n] EXCEPT !.size = size]
           y == [as |-> "table", entry |-> [Table(d, n) EXCEPT ![i] = x]]
<1>2. f \in Inode
  <2>1. d.inode[n] \in Inode
    BY DiskParts
  <2>2. size \in 0..(MaxSize + MaxEntries)
    <3>1. MaxSize \in Nat /\ MaxEntries \in Nat
      BY Constants, Zenon
    <3> QED
      BY <3>1
  <2> QED
    BY <2>1, <2>2 DEF Inode
<1>3. y \in Block
  <2>1. [Table(d, n) EXCEPT ![i] = x] \in [1..MaxEntries -> Dirent]
    OBVIOUS
  <2> QED
    BY <2>1, BlockMake
<1>4. WithEntry(d, n, i, x, size) = Replaced(d, n, f, t, y)
  <2>1. [d.block[t] EXCEPT !.entry[i] = x] = y
    OBVIOUS
  <2> HIDE DEF f, y
  <2>3. WithEntry(d, n, i, x, size) = [d EXCEPT !.block[t] = y, !.inode[n] = f]
    BY <2>1 DEF WithEntry, f
  <2>4. [d EXCEPT !.block[t] = y, !.inode[n] = f]
          = [i_bitmap |-> d.i_bitmap, d_bitmap |-> d.d_bitmap,
             inode |-> [d.inode EXCEPT ![n] = f], block |-> [d.block EXCEPT ![t] = y]]
    <3> DEFINE K == [d.block EXCEPT ![t] = y]
               I == [d.inode EXCEPT ![n] = f]
               g == [d EXCEPT !.block = K]
    <3>1. [d EXCEPT !.block[t] = y, !.inode[n] = f] = [g EXCEPT !.inode[n] = f]
      OBVIOUS
    <3>2. g = [i_bitmap |-> d.i_bitmap, d_bitmap |-> d.d_bitmap, inode |-> d.inode, block |-> K]
      <4> HIDE DEF K
      <4> QED
        BY DEF Disk
    <3> HIDE DEF g, K
    <3>3. [g EXCEPT !.inode[n] = f]
            = [i_bitmap |-> d.i_bitmap, d_bitmap |-> d.d_bitmap, inode |-> I, block |-> K]
      BY <3>2
    <3> QED
      BY <3>1, <3>3 DEF K
  <2> QED
    BY <2>3, <2>4 DEF Replaced
<1>5. e = Replaced(d, n, f, t, y)
  BY <1>4
<1> HIDE DEF f, y
<1>6. /\ e \in Disk /\ e.i_bitmap = d.i_bitmap /\ e.d_bitmap = d.d_bitmap
      /\ \A m \in Inos \ {n} : e.inode[m] = d.inode[m]
      /\ e.inode[n] = f /\ e.block[t] = y
      /\ \A b \in Blocks \ {t} : e.block[b] = d.block[b]
  BY <1>2, <1>3, <1>5, ReplacedFacts, SMTT(60)
<1> QED
  BY <1>6 DEF f, y

LEMMA EntryTyped ==
  ASSUME NEW d, Good(d), NEW n, IsDir(d, n), NEW i \in 1..MaxEntries, NEW x \in Dirent,
         NEW size \in 0..MaxEntries, NEW t, t = d.inode[n].direct[0],
         NEW e, e = WithEntry(d, n, i, x, size)
  PROVE  /\ e \in Disk /\ e.i_bitmap = d.i_bitmap /\ e.d_bitmap = d.d_bitmap
         /\ n \in Inos /\ t \in Blocks
         /\ \A m \in Inos \ {n} : e.inode[m] = d.inode[m]
         /\ e.inode[n] = [d.inode[n] EXCEPT !.size = size]
         /\ e.block[t] = [as |-> "table", entry |-> [Table(d, n) EXCEPT ![i] = x]]
         /\ \A b \in Blocks \ {t} : e.block[b] = d.block[b]
<1>0. d \in Disk /\ n \in Inos /\ d.inode[n].type = "dir" /\ Dead(d) /\ Shape(d)
  BY DEF Good, IsDir, LiveIn
<1>1. /\ t \in Blocks /\ Table(d, n) \in [1..MaxEntries -> Dirent]
      /\ d.block[t] = [as |-> "table", entry |-> Table(d, n)]
  BY <1>0, TableFacts
<1> QED
  BY <1>0, <1>1, EntrySet

\* What dir_add does.
LEMMA DirAddFacts ==
  ASSUME NEW d, Good(d), NEW n, IsDir(d, n), NEW ino \in Inos, NEW name \in Names,
         NEW r, r = dir_add(d, n, ino, name)
  PROVE  /\ r.ret \in Results
         /\ r.ret # "ok" => r.disk = d
         /\ r.ret = "ok" =>
              /\ d.inode[n].size + 1 \in 0..MaxEntries
              /\ \A j \in 1..MaxEntries : Table(d, n)[j].name # name
              /\ \E i \in 1..MaxEntries : /\ Table(d, n)[i].valid = 0
                                          /\ r.disk = WithEntry(d, n, i, Entry(name, ino), d.inode[n].size + 1)
<1>0. d \in Disk /\ n \in Inos /\ d.inode[n].type = "dir" /\ Dead(d) /\ Shape(d)
  BY DEF Good, IsDir, LiveIn
<1> DEFINE S == {s \in 1..MaxEntries : Table(d, n)[s].valid = 0}
           i == First[S]
<1>1. S \in SUBSET Nat
  OBVIOUS
<1>2. (i = Nil <=> S = {}) /\ (S # {} => i \in S)
  BY <1>1, FirstFacts
<1> DEFINE w == [d EXCEPT !.block[d.inode[n].direct[0]].entry[i] = Entry(name, ino), !.inode[n].size = @ + 1]
<1>3. w = WithEntry(d, n, i, Entry(name, ino), d.inode[n].size + 1)
  <2>1. d \in Disk
    BY <1>0
  <2> HIDE DEF i
  <2> QED
    BY <2>1 DEF WithEntry, Disk
<1>4. dir_add(d, n, ino, name) =
        CASE dir_find(d, n, name) # Nil -> Fail(d, "EEXIST")
          [] dir_find(d, n, name) = Nil /\ i = Nil -> Fail(d, "ENOSPC")
          [] OTHER -> Done(w)
  BY Zenon DEF dir_add
<1> HIDE DEF w
<1>5. CASE dir_find(d, n, name) # Nil
  <2>1. r = Fail(d, "EEXIST")
    BY <1>4, <1>5
  <2> QED
    BY <2>1 DEF Fail, Results
<1>6. CASE dir_find(d, n, name) = Nil /\ i = Nil
  <2>1. r = Fail(d, "ENOSPC")
    BY <1>4, <1>6
  <2> QED
    BY <2>1 DEF Fail, Results
<1>7. CASE dir_find(d, n, name) = Nil /\ i # Nil
  <2>1. r = Done(w)
    BY <1>4, <1>7
  <2>2. r.ret = "ok" /\ r.disk = w
    BY <2>1 DEF Done
  <2>3. i \in 1..MaxEntries /\ Table(d, n)[i].valid = 0
    BY <1>2, <1>7
  <2> HIDE DEF i
  <2>4. \A j \in 1..MaxEntries : Table(d, n)[j].name # name
    <3>1. Slot(d, n, name) = Nil
      BY <1>0, <1>7, FindTyped
    <3> QED
      BY <3>1, SlotFacts
  <2>5. TableKept(d, n)
    BY DEF Good, Tree1, IsDir
  <2>6. i \in EntrySlots /\ i \notin UsedSlots(d, n)
    <3>1. MaxEntries \in Nat
      BY Constants, Zenon
    <3>2. Table(d, n)[1].valid = 1 /\ Table(d, n)[2] = Entry(".", n)
      BY <2>5, Zenon DEF TableKept
    <3>3. Entry(".", n).valid = 1
      BY DEF Entry
    <3>4. i # 1 /\ i # 2
      BY <2>3, <3>2, <3>3
    <3> QED
      BY <2>3, <3>1, <3>4 DEF EntrySlots, UsedSlots
  <2>7. d.inode[n].size + 1 \in 0..MaxEntries
    <3>1. d.inode[n].size = Cardinality(UsedSlots(d, n))
      BY <2>5, Zenon DEF TableKept
    <3>2. Cardinality(UsedSlots(d, n)) \in Nat /\ Cardinality(UsedSlots(d, n)) + 1 <= MaxEntries /\ MaxEntries \in Nat
      BY <2>6, UsedFinite, SizeRoom, Constants
    <3> QED
      BY <3>1, <3>2
  <2> QED
    BY <1>3, <2>2, <2>3, <2>4, <2>7 DEF Results
<1> QED
  BY <1>5, <1>6, <1>7

\* What dir_remove does to an entry that is there.
LEMMA DirRemoveFacts ==
  ASSUME NEW d, NEW n, NEW name, NEW i, i = Slot(d, n, name), i # Nil,
         d \in Disk, NEW r, r = dir_remove(d, n, name)
  PROVE  r.ret = "ok" /\ r.disk = WithEntry(d, n, i, NoEntry, d.inode[n].size - 1)
<1> DEFINE w == [d EXCEPT !.block[d.inode[n].direct[0]].entry[i] = NoEntry, !.inode[n].size = @ - 1]
<1>1. w = WithEntry(d, n, i, NoEntry, d.inode[n].size - 1)
  BY DEF WithEntry, Disk
<1>2. dir_remove(d, n, name) = IF i = Nil THEN Fail(d, "ENOENT") ELSE Done(w)
  BY DEF dir_remove
<1> HIDE DEF w
<1>3. r = Done(w)
  BY <1>2
<1> QED
  BY <1>1, <1>3 DEF Done

-----------------------------------------------------------------------------
\* Calls.

LEMMA PathFacts ==
  ASSUME TypeOK, NEW p \in client.paths
  PROVE  p \in Paths /\ p \in Seq(Names) /\ p # <<>>
<1>1. p \in Paths
  BY RufsAssumption DEF TypeOK
<1>2. PICK n \in 1..MaxDepth : p \in [1..n -> Names]
  BY <1>1 DEF Paths
<1>3. MaxDepth \in Nat
  BY RufsAssumption
<1>4. p \in Seq(Names) /\ p # <<>>
  BY <1>2, <1>3
<1> QED
  BY <1>1, <1>4

\* Between two calls the disk itself is good.
LEMMA ReadyFacts ==
  ASSUME IInv, Ready
  PROVE  Good(disk) /\ fs = "up" /\ call = NoCall /\ disk \in Disk
<1>1. fs = "up" /\ call = NoCall
  BY DEF Ready
<1>2. Virtual = disk
  BY <1>1 DEF Virtual
<1>3. Good(Virtual)
  BY <1>1 DEF IInv
<1> QED
  BY <1>1, <1>2, <1>3 DEF Good

\* A call that ends leaves a good disk.
LEMMA FinishKeeps ==
  ASSUME TypeOK, fs = "up", NEW r, Finish(r), Good(r.disk), r.ret \in Results
  PROVE  IInv'
<1>1. disk' = r.disk /\ ret' = r.ret /\ call' = NoCall /\ fs' = fs /\ client' = client
  BY DEF Finish
<1>2. TypeOK'
  BY <1>1 DEF TypeOK, Results, Good
<1>3. Virtual' = r.disk
  BY <1>1 DEF Virtual
<1>4. Good(Virtual)'
  BY <1>3
<1>5. CallKept'
  BY <1>1 DEF CallKept
<1> QED
  BY <1>1, <1>2, <1>4, <1>5 DEF IInv

\* A node that is found is a directory or a file.
LEMMA TypeFacts ==
  ASSUME Good(disk), NEW p \in Seq(Names)
  PROVE  /\ get_node_by_path(disk, p) = Nil <=> Type(p) = "none"
         /\ Type(p) = "dir" <=> get_node_by_path(disk, p) # Nil /\ IsDir(disk, get_node_by_path(disk, p))
         /\ Type(p) = "file" <=> get_node_by_path(disk, p) # Nil /\ IsFile(disk, get_node_by_path(disk, p))
         /\ Type(p) \in {"none", "dir", "file"}
<1> DEFINE n == get_node_by_path(disk, p)
<1>1. n \in LiveIn(disk) \cup {Nil}
  BY LookupLive
<1>2. Type(p) = IF n = Nil THEN "none" ELSE disk.inode[n].type
  BY DEF Type
<1>3. n # Nil => disk.inode[n].type \in {"dir", "file"}
  BY <1>1 DEF Good, Shape
<1> HIDE DEF n
<1>4. Nil \notin LiveIn(disk)
  BY Constants DEF LiveIn
<1>5. CASE n = Nil
  BY <1>2, <1>5 DEF n
<1>6. CASE n # Nil
  BY <1>1, <1>2, <1>3, <1>6 DEF n, IsDir, IsFile
<1> QED
  BY <1>5, <1>6

\* The parent of a new node is a directory, or the call ends.
LEMMA ParentFacts ==
  ASSUME IInv, Ready, NEW p \in client.paths, Type(Parent(p)) # "file"
  PROVE  /\ Name(p) \in Names
         /\ get_node_by_path(disk, Parent(p)) # Nil => IsDir(disk, get_node_by_path(disk, Parent(p)))
<1>1. Good(disk) /\ TypeOK
  BY ReadyFacts DEF IInv
<1>2. p \in Seq(Names) /\ p # <<>> /\ LevelTyped(disk)
  BY <1>1, PathFacts, LevelIsTyped DEF Good
<1>3. Parent(p) \in Seq(Names) /\ Name(p) \in Names
  BY <1>2, LookupStep
<1> QED
  BY <1>1, <1>3, TypeFacts

\* The two writes of mkdir.
BothWritten(d, n, f, t, y) == [d EXCEPT !.block[t] = y, !.inode[n] = f]

LEMMA BlockInodeSet ==
  ASSUME NEW d \in Disk, NEW n, NEW f, NEW t, NEW y
  PROVE  BothWritten(d, n, f, t, y) = Replaced(d, n, f, t, y)
<1> DEFINE K == [d.block EXCEPT ![t] = y]
           I == [d.inode EXCEPT ![n] = f]
           g == [d EXCEPT !.block = K]
<1>1. BothWritten(d, n, f, t, y) = [g EXCEPT !.inode[n] = f]
  BY DEF BothWritten
<1>2. g = [i_bitmap |-> d.i_bitmap, d_bitmap |-> d.d_bitmap, inode |-> d.inode, block |-> K]
  <2> HIDE DEF K
  <2> QED
    BY DEF Disk
<1> HIDE DEF g, K
<1>3. [g EXCEPT !.inode[n] = f]
        = [i_bitmap |-> d.i_bitmap, d_bitmap |-> d.d_bitmap, inode |-> I, block |-> K]
  BY <1>2
<1> QED
  BY <1>1, <1>3 DEF K, Replaced

\* A disk of which one inode is replaced.
WithInode(d, n, f) == [i_bitmap |-> d.i_bitmap, d_bitmap |-> d.d_bitmap,
                       inode |-> [d.inode EXCEPT ![n] = f], block |-> d.block]

Placed(inode, n, f) == [inode EXCEPT ![n] = f]
InodeWritten(d, n, f) == [d EXCEPT !.inode[n] = f]

LEMMA InodeSet ==
  ASSUME NEW d \in Disk, NEW n \in Inos, NEW f \in Inode, NEW e, e = InodeWritten(d, n, f)
  PROVE  /\ e \in Disk /\ e.i_bitmap = d.i_bitmap /\ e.d_bitmap = d.d_bitmap /\ e.block = d.block
         /\ \A m \in Inos \ {n} : e.inode[m] = d.inode[m]
         /\ e.inode[n] = f /\ e.inode = Placed(d.inode, n, f)
<1>1. /\ d.i_bitmap \in SUBSET Inos /\ d.d_bitmap \in SUBSET Blocks
      /\ d.inode \in [Inos -> Inode] /\ d.block \in [Blocks -> Block]
  BY DiskParts
<1>2. e = WithInode(d, n, f)
  BY DEF Disk, WithInode, InodeWritten
<1> DEFINE I == [d.inode EXCEPT ![n] = f]
           w == WithInode(d, n, f)
<1>3. I \in [Inos -> Inode] /\ I[n] = f /\ \A m \in Inos \ {n} : I[m] = d.inode[m]
  BY <1>1
<1>4. w = [i_bitmap |-> d.i_bitmap, d_bitmap |-> d.d_bitmap, inode |-> I, block |-> d.block]
  BY DEF WithInode
<1> HIDE DEF I, w
<1>5. w \in Disk
  BY <1>1, <1>3, <1>4, DiskMake
<1>6. w.i_bitmap = d.i_bitmap /\ w.d_bitmap = d.d_bitmap /\ w.inode = I /\ w.block = d.block
  BY <1>4
<1>7. e = w
  BY <1>2 DEF w
<1> QED
  BY <1>3, <1>5, <1>6, <1>7, Zenon DEF I, Placed

LEMMA InitTyped ==
  /\ \A type \in {"none", "file", "dir"} : init_inode(type) \in Inode
  /\ \A b \in Blocks : [init_inode("dir") EXCEPT !.direct[0] = b] \in Inode
  /\ \A m, n \in Inos : init_dirent_table(m, n) \in Block
  /\ Zero \in Block /\ EmptyIndex \in Block /\ NoEntry \in Dirent
  /\ \A name \in Names \cup {".", ".."}, m \in Inos : Entry(name, m) \in Dirent
<1>1. 0 \in 0..(MaxSize + MaxEntries)
  <2>1. MaxSize \in Nat /\ MaxEntries \in Nat
    BY Constants, Zenon
  <2> QED
    BY <2>1
<1>2. \A type \in {"none", "file", "dir"} : init_inode(type) \in Inode
  BY <1>1 DEF init_inode, Inode, Pointer
<1>3. \A b \in Blocks : [init_inode("dir") EXCEPT !.direct[0] = b] \in Inode
  <2> SUFFICES ASSUME NEW b \in Blocks PROVE [init_inode("dir") EXCEPT !.direct[0] = b] \in Inode
    OBVIOUS
  <2>1. init_inode("dir") \in Inode
    BY <1>2
  <2> QED
    BY <2>1 DEF Inode, Pointer
<1>4. \A name \in Names \cup {".", ".."}, m \in Inos : Entry(name, m) \in Dirent
  BY DEF Entry, Dirent
<1>5. NoEntry \in Dirent
  <2>1. 0 \in Inos
    BY Constants, Zenon DEF Root
  <2> QED
    BY <2>1 DEF NoEntry, Dirent
<1>6. ASSUME NEW m \in Inos, NEW n \in Inos PROVE init_dirent_table(m, n) \in Block
  <2> DEFINE entry == [i \in 1..MaxEntries |-> IF i = 1 THEN Entry("..", n)
                                               ELSE IF i = 2 THEN Entry(".", m) ELSE NoEntry]
  <2>1. entry \in [1..MaxEntries -> Dirent]
    BY <1>4, <1>5
  <2>2. init_dirent_table(m, n) = [as |-> "table", entry |-> entry]
    BY DEF init_dirent_table
  <2> HIDE DEF entry
  <2> QED
    BY <2>1, <2>2, BlockMake
<1>7. Zero \in Block
  BY DEF Zero, Block, Word
<1>8. EmptyIndex \in Block
  BY DEF EmptyIndex, Block, Pointer
<1> QED
  BY <1>2, <1>3, <1>4, <1>5, <1>6, <1>7, <1>8

\* What a call that adds a node at path p does to the disk: nothing that counts, or the node.
OnlyBits(d, e)    == e.inode = d.inode /\ e.block = d.block
NodeMade(d, e, p, type) ==
  \E ino, i, t, blk : /\ NodeAdded(d, e, get_node_by_path(d, Parent(p)), ino, Name(p), i, t, blk)
                      /\ e.inode[ino].type = type
MadeOrNot(p, type) == (OnlyBits(disk, disk') /\ ret' # "ok") \/ NodeMade(disk, disk', p, type)

LEMMA MakesNothing ==
  ASSUME NEW p, NEW type, NEW r, Finish(r), OnlyBits(disk, r.disk), r.ret # "ok"
  PROVE  MadeOrNot(p, type)
BY DEF Finish, MadeOrNot

LEMMA MakesNode ==
  ASSUME NEW p, NEW type, NEW r, Finish(r), NEW ino, NEW i, NEW t, NEW blk,
         NodeAdded(disk, r.disk, get_node_by_path(disk, Parent(p)), ino, Name(p), i, t, blk),
         r.disk.inode[ino].type = type
  PROVE  MadeOrNot(p, type)
BY Zenon DEF Finish, MadeOrNot, NodeMade

LEMMA MkdirKeeps ==
  ASSUME IInv, NEW p \in client.paths, rufs_mkdir(p)
  PROVE  IInv' /\ MadeOrNot(p, "dir")
<1> DEFINE parent == get_node_by_path(disk, Parent(p))
           ino    == get_avail_ino(disk)
           d1     == [disk EXCEPT !.i_bitmap = @ \cup {ino}]
           blk    == get_avail_blkno(d1)
           d2     == [d1 EXCEPT !.d_bitmap = @ \cup {blk}]
           added  == dir_add(d2, parent, ino, Name(p))
           table  == init_dirent_table(ino, parent)
           f      == [init_inode("dir") EXCEPT !.direct[0] = blk]
           made   == [added.disk EXCEPT !.block[blk] = table, !.inode[ino] = f]
           r      == CASE parent = Nil -> Fail(disk, "ENOENT")
                       [] parent # Nil /\ ino = Nil -> Fail(disk, "ENOSPC")
                       [] parent # Nil /\ ino # Nil /\ blk = Nil -> Fail(d1, "ENOSPC")
                       [] OTHER -> IF added.ret # "ok" THEN added ELSE Done(made)
<1>1. Ready /\ Type(Parent(p)) # "file" /\ Finish(r)
  BY DEF rufs_mkdir
<1>2. TypeOK /\ Good(disk) /\ fs = "up"
  BY <1>1, ReadyFacts DEF IInv
<1>3. Name(p) \in Names /\ (parent # Nil => IsDir(disk, parent))
  BY <1>1, ParentFacts
<1>4. ino = Nil \/ ino \in Inos \ disk.i_bitmap
  BY AvailFacts
<1>5. blk = Nil \/ blk \in Blocks \ d1.d_bitmap
  BY AvailFacts
<1> HIDE DEF parent, ino
<1>6. ino # Nil => /\ Good(d1) /\ d1 \in Disk /\ d1.i_bitmap = disk.i_bitmap \cup {ino}
                   /\ d1.d_bitmap = disk.d_bitmap /\ d1.inode = disk.inode /\ d1.block = disk.block
  BY <1>2, <1>4, MarkInode
<1> HIDE DEF d1, blk
<1>7. ino # Nil /\ blk # Nil => /\ Good(d2) /\ d2 \in Disk /\ d2.i_bitmap = d1.i_bitmap
                                /\ d2.d_bitmap = d1.d_bitmap \cup {blk}
                                /\ d2.inode = d1.inode /\ d2.block = d1.block
  BY <1>5, <1>6, MarkBlock
<1> HIDE DEF d2, added, table, f
<1>8. CASE parent = Nil
  <2>1. r = Fail(disk, "ENOENT")
    BY <1>8
  <2> HIDE DEF r
  <2> QED
    BY <1>1, <1>2, <2>1, FinishKeeps, MakesNothing DEF Fail, Results, OnlyBits
<1>9. CASE parent # Nil /\ ino = Nil
  <2>1. r = Fail(disk, "ENOSPC")
    BY <1>9
  <2> HIDE DEF r
  <2> QED
    BY <1>1, <1>2, <2>1, FinishKeeps, MakesNothing DEF Fail, Results, OnlyBits
<1>10. CASE parent # Nil /\ ino # Nil /\ blk = Nil
  <2>1. r = Fail(d1, "ENOSPC")
    BY <1>10
  <2> HIDE DEF r
  <2> QED
    BY <1>1, <1>2, <1>6, <1>10, <2>1, FinishKeeps, MakesNothing DEF Fail, Results, OnlyBits
<1>11. CASE parent # Nil /\ ino # Nil /\ blk # Nil
  <2>1. r = IF added.ret # "ok" THEN added ELSE Done(made)
    BY <1>11
  <2> HIDE DEF r, made
  <2>2. IsDir(disk, parent) /\ IsDir(d2, parent) /\ Good(d2)
    BY <1>3, <1>6, <1>7, <1>11 DEF IsDir, LiveIn
  <2>3. ino \in Inos \ disk.i_bitmap /\ blk \in Blocks \ disk.d_bitmap
    BY <1>4, <1>5, <1>6, <1>11
  <2>4. CASE added.ret # "ok"
    <3>1. added.disk = d2 /\ added.ret \in Results
      BY <1>3, <2>2, <2>3, <2>4, DirAddFacts DEF added
    <3>2. OnlyBits(disk, added.disk) /\ r = added
      BY <1>6, <1>7, <1>11, <2>1, <2>4, <3>1 DEF OnlyBits
    <3> QED
      BY <1>1, <1>2, <2>1, <2>2, <2>4, <3>1, <3>2, FinishKeeps, MakesNothing
  <2>5. CASE added.ret = "ok"
    <3>1. PICK i \in 1..MaxEntries :
            /\ Table(d2, parent)[i].valid = 0
            /\ added.disk = WithEntry(d2, parent, i, Entry(Name(p), ino), d2.inode[parent].size + 1)
      BY <1>3, <2>2, <2>3, <2>5, DirAddFacts DEF added
    <3>2. /\ d2.inode[parent].size + 1 \in 0..MaxEntries
          /\ \A j \in 1..MaxEntries : Table(d2, parent)[j].name # Name(p)
      BY <1>3, <2>2, <2>3, <2>5, DirAddFacts DEF added
    <3> DEFINE t == d2.inode[parent].direct[0]
               g == added.disk
               size == d2.inode[parent].size + 1
               x    == Entry(Name(p), ino)
    <3>3. x \in Dirent /\ size \in 0..MaxEntries /\ g = WithEntry(d2, parent, i, x, size)
      BY <1>3, <2>3, <3>1, <3>2, InitTyped
    <3> HIDE DEF t, g, size, x
    <3>4. /\ g \in Disk /\ g.i_bitmap = d2.i_bitmap /\ g.d_bitmap = d2.d_bitmap
          /\ parent \in Inos /\ t \in Blocks
          /\ \A m \in Inos \ {parent} : g.inode[m] = d2.inode[m]
          /\ g.inode[parent] = [d2.inode[parent] EXCEPT !.size = size]
          /\ g.block[t] = [as |-> "table", entry |-> [Table(d2, parent) EXCEPT ![i] = x]]
          /\ \A b \in Blocks \ {t} : g.block[b] = d2.block[b]
      BY <2>2, <3>3, EntryTyped DEF t
    <3>5. f \in Inode /\ table \in Block
      BY <2>3, <3>4, InitTyped DEF f, table
    <3>6. made = Replaced(g, ino, f, blk, table)
      <4>1. g \in Disk
        BY <3>4
      <4>2. BothWritten(g, ino, f, blk, table) = Replaced(g, ino, f, blk, table)
        BY <4>1, BlockInodeSet
      <4> QED
        BY <4>2 DEF made, g, BothWritten
    <3>7. /\ made \in Disk /\ made.i_bitmap = g.i_bitmap /\ made.d_bitmap = g.d_bitmap
          /\ \A m \in Inos \ {ino} : made.inode[m] = g.inode[m]
          /\ made.inode[ino] = f /\ made.block[blk] = table
          /\ \A b \in Blocks \ {blk} : made.block[b] = g.block[b]
      BY <2>3, <3>4, <3>5, <3>6, ReplacedFacts
    <3>8. /\ parent # ino /\ t # blk
      <4>1. parent \in disk.i_bitmap /\ parent \in LiveIn(disk)
        BY <1>2, <2>2 DEF Good, Owned, IsDir
      <4>2. t # Nil /\ t \in disk.d_bitmap
        <5>1. 0 \in DirectSlots
          BY Constants, Zenon
        <5>2. DirShape(disk, parent) /\ t = disk.inode[parent].direct[0]
          BY <1>2, <1>6, <1>7, <1>11, <2>2, <4>1 DEF Good, Shape, IsDir, t
        <5> QED
          BY <1>2, <4>1, <5>1, <5>2, PointsFacts DEF DirShape
      <4> QED
        BY <2>3, <4>1, <4>2
    <3>9. Good(made) /\ NodeAdded(disk, made, parent, ino, Name(p), i, t, blk)
      <4>1. /\ made.i_bitmap = disk.i_bitmap \cup {ino} /\ made.d_bitmap = disk.d_bitmap \cup {blk}
            /\ \A n \in Inos \ {parent, ino} : made.inode[n] = disk.inode[n]
            /\ made.inode[parent] = [disk.inode[parent] EXCEPT !.size = size]
            /\ made.block[t] = g.block[t]
            /\ \A b \in Blocks \ {t, blk} : made.block[b] = disk.block[b]
        BY <1>6, <1>7, <1>11, <3>4, <3>7, <3>8
      <4>2. Table(d2, parent) = Table(disk, parent) /\ t = disk.inode[parent].direct[0]
            /\ size = disk.inode[parent].size + 1
        BY <1>6, <1>7, <1>11 DEF Table, t, size
      <4>3. NewDir(disk, made, ino, parent, blk)
        BY <2>3, <3>7, <4>1 DEF NewDir, f, table
      <4>4. made.block[t] = [as |-> "table", entry |-> [Table(disk, parent) EXCEPT ![i] = Entry(Name(p), ino)]]
        BY <3>4, <4>1, <4>2 DEF x
      <4>5. \A b \in Blocks \ {t} : b \in disk.d_bitmap \/ b \notin made.d_bitmap => made.block[b] = disk.block[b]
        BY <2>3, <4>1
      <4>6. Table(disk, parent)[i].valid = 0 /\ \A j \in 1..MaxEntries : Table(disk, parent)[j].name # Name(p)
        BY <3>1, <3>2, <4>2
      <4>7. made.inode[parent] = [disk.inode[parent] EXCEPT !.size = @ + 1]
        BY <4>1, <4>2
      <4> QED
        <5>1. NodeAdded(disk, made, parent, ino, Name(p), i, t, blk)
          BY <1>3, <2>2, <2>3, <4>1, <4>2, <4>3, <4>4, <4>5, <4>6, <4>7 DEF NodeAdded
        <5> QED
          BY <1>2, <3>7, <5>1, AddGood
    <3>10. r = Done(made)
      BY <2>1, <2>5
    <3>11. r.disk = made /\ r.ret = "ok"
      BY <3>10 DEF Done
    <3>12. made.inode[ino].type = "dir"
      BY <3>7, InitFacts DEF f
    <3> QED
      BY <1>1, <1>2, <3>9, <3>11, <3>12, FinishKeeps, MakesNode DEF Results, parent
  <2> QED
    BY <2>4, <2>5
<1> QED
  BY <1>8, <1>9, <1>10, <1>11

LEMMA CreateKeeps ==
  ASSUME IInv, NEW p \in client.paths, rufs_create(p)
  PROVE  IInv' /\ MadeOrNot(p, "file")
<1> DEFINE parent == get_node_by_path(disk, Parent(p))
           ino    == get_avail_ino(disk)
           d2     == [disk EXCEPT !.i_bitmap = @ \cup {ino}]
           added  == dir_add(d2, parent, ino, Name(p))
           f      == init_inode("file")
           g      == added.disk
           made   == [g EXCEPT !.inode[ino] = f]
           r      == CASE parent = Nil -> Fail(disk, "ENOENT")
                       [] parent # Nil /\ ino = Nil -> Fail(disk, "ENOSPC")
                       [] OTHER -> IF added.ret # "ok" THEN added ELSE Done(made)
<1>1. Ready /\ Type(Parent(p)) # "file" /\ Finish(r)
  BY DEF rufs_create
<1>2. TypeOK /\ Good(disk) /\ fs = "up"
  BY <1>1, ReadyFacts DEF IInv
<1>3. Name(p) \in Names /\ (parent # Nil => IsDir(disk, parent))
  BY <1>1, ParentFacts
<1>4. ino = Nil \/ ino \in Inos \ disk.i_bitmap
  BY AvailFacts
<1> HIDE DEF parent, ino
<1>6. ino # Nil => /\ Good(d2) /\ d2 \in Disk /\ d2.i_bitmap = disk.i_bitmap \cup {ino}
                   /\ d2.d_bitmap = disk.d_bitmap /\ d2.inode = disk.inode /\ d2.block = disk.block
  BY <1>2, <1>4, MarkInode
<1> HIDE DEF d2, added, f
<1>8. CASE parent = Nil
  <2>1. r = Fail(disk, "ENOENT")
    BY <1>8
  <2> HIDE DEF r
  <2> QED
    BY <1>1, <1>2, <2>1, FinishKeeps, MakesNothing DEF Fail, Results, OnlyBits
<1>9. CASE parent # Nil /\ ino = Nil
  <2>1. r = Fail(disk, "ENOSPC")
    BY <1>9
  <2> HIDE DEF r
  <2> QED
    BY <1>1, <1>2, <2>1, FinishKeeps, MakesNothing DEF Fail, Results, OnlyBits
<1>11. CASE parent # Nil /\ ino # Nil
  <2>1. r = IF added.ret # "ok" THEN added ELSE Done(made)
    BY <1>11
  <2> HIDE DEF r, made, g
  <2>2. IsDir(disk, parent) /\ IsDir(d2, parent) /\ Good(d2)
    BY <1>3, <1>6, <1>11 DEF IsDir, LiveIn
  <2>3. ino \in Inos \ disk.i_bitmap
    BY <1>4, <1>11
  <2>4. CASE added.ret # "ok"
    <3>1. added.disk = d2 /\ added.ret \in Results
      BY <1>3, <2>2, <2>3, <2>4, DirAddFacts DEF added
    <3>2. OnlyBits(disk, added.disk) /\ r = added
      BY <1>6, <1>11, <2>1, <2>4, <3>1 DEF OnlyBits
    <3> QED
      BY <1>1, <1>2, <2>1, <2>2, <2>4, <3>1, <3>2, FinishKeeps, MakesNothing
  <2>5. CASE added.ret = "ok"
    <3>1. PICK i \in 1..MaxEntries :
            /\ Table(d2, parent)[i].valid = 0
            /\ added.disk = WithEntry(d2, parent, i, Entry(Name(p), ino), d2.inode[parent].size + 1)
      BY <1>3, <2>2, <2>3, <2>5, DirAddFacts DEF added
    <3>2. /\ d2.inode[parent].size + 1 \in 0..MaxEntries
          /\ \A j \in 1..MaxEntries : Table(d2, parent)[j].name # Name(p)
      BY <1>3, <2>2, <2>3, <2>5, DirAddFacts DEF added
    <3> DEFINE blk == Nil
               t == d2.inode[parent].direct[0]
               size == d2.inode[parent].size + 1
               x    == Entry(Name(p), ino)
    <3>3. x \in Dirent /\ size \in 0..MaxEntries /\ g = WithEntry(d2, parent, i, x, size)
      BY <1>3, <2>3, <3>1, <3>2, InitTyped DEF g
    <3> HIDE DEF blk, t, size, x
    <3>4. /\ g \in Disk /\ g.i_bitmap = d2.i_bitmap /\ g.d_bitmap = d2.d_bitmap
          /\ parent \in Inos /\ t \in Blocks
          /\ \A m \in Inos \ {parent} : g.inode[m] = d2.inode[m]
          /\ g.inode[parent] = [d2.inode[parent] EXCEPT !.size = size]
          /\ g.block[t] = [as |-> "table", entry |-> [Table(d2, parent) EXCEPT ![i] = x]]
          /\ \A b \in Blocks \ {t} : g.block[b] = d2.block[b]
      BY <2>2, <3>3, EntryTyped DEF t
    <3>5. f \in Inode
      BY InitTyped DEF f
    <3>7. /\ made \in Disk /\ made.i_bitmap = g.i_bitmap /\ made.d_bitmap = g.d_bitmap /\ made.block = g.block
          /\ \A m \in Inos \ {ino} : made.inode[m] = g.inode[m]
          /\ made.inode[ino] = f
      <4>1. made = InodeWritten(g, ino, f)
        BY DEF made, InodeWritten
      <4> QED
        BY <2>3, <3>4, <3>5, <4>1, InodeSet
    <3>8. parent # ino
      BY <1>2, <2>2, <2>3 DEF Good, Owned, IsDir
    <3>9. Good(made) /\ NodeAdded(disk, made, parent, ino, Name(p), i, t, blk)
      <4>1. /\ made.i_bitmap = disk.i_bitmap \cup {ino} /\ made.d_bitmap = disk.d_bitmap
            /\ \A n \in Inos \ {parent, ino} : made.inode[n] = disk.inode[n]
            /\ made.inode[parent] = [disk.inode[parent] EXCEPT !.size = size]
            /\ made.block[t] = g.block[t]
            /\ \A b \in Blocks \ {t} : made.block[b] = disk.block[b]
        BY <1>6, <1>11, <3>4, <3>7, <3>8
      <4>2. Table(d2, parent) = Table(disk, parent) /\ t = disk.inode[parent].direct[0]
            /\ size = disk.inode[parent].size + 1
        BY <1>6, <1>11 DEF Table, t, size
      <4>3. NewFile(disk, made, ino) \/ NewDir(disk, made, ino, parent, blk)
        BY <3>7, <4>1 DEF NewFile, f
      <4>4. made.block[t] = [as |-> "table", entry |-> [Table(disk, parent) EXCEPT ![i] = Entry(Name(p), ino)]]
        BY <3>4, <4>1, <4>2 DEF x
      <4>5. \A b \in Blocks \ {t} : b \in disk.d_bitmap \/ b \notin made.d_bitmap => made.block[b] = disk.block[b]
        BY <4>1
      <4>6. Table(disk, parent)[i].valid = 0 /\ \A j \in 1..MaxEntries : Table(disk, parent)[j].name # Name(p)
        BY <3>1, <3>2, <4>2
      <4>7. made.inode[parent] = [disk.inode[parent] EXCEPT !.size = @ + 1]
        BY <4>1, <4>2
      <4>8. made \in Disk /\ Good(disk) /\ IsDir(disk, parent) /\ t = disk.inode[parent].direct[0]
        BY <1>2, <2>2, <3>7, <4>2
      <4>9. /\ made.i_bitmap = disk.i_bitmap \cup {ino}
            /\ \A n \in Inos \ {parent, ino} : made.inode[n] = disk.inode[n]
        BY <4>1
      <4> QED
        <5>1. NodeAdded(disk, made, parent, ino, Name(p), i, t, blk)
          BY <1>3, <2>3, <4>3, <4>4, <4>5, <4>6, <4>7, <4>8, <4>9 DEF NodeAdded
        <5> QED
          BY <4>8, <5>1, AddGood
    <3>10. r = Done(made)
      BY <2>1, <2>5
    <3>11. r.disk = made /\ r.ret = "ok"
      BY <3>10 DEF Done
    <3>12. made.inode[ino].type = "file"
      BY <3>7, InitFacts DEF f
    <3> QED
      BY <1>1, <1>2, <3>9, <3>11, <3>12, FinishKeeps, MakesNode DEF Results, parent
  <2> QED
    BY <2>4, <2>5
<1> QED
  BY <1>8, <1>9, <1>11

-----------------------------------------------------------------------------
\* rmdir and unlink.

\* In e, node ino and its blocks B are cleared.
Cleared(d, e, ino, B) ==
  /\ e.i_bitmap = d.i_bitmap \ {ino} /\ e.d_bitmap = d.d_bitmap \ B
  /\ e.inode[ino].valid = 0 /\ e.inode[ino].type = "none"
  /\ \A n \in Inos \ {ino} : e.inode[n] = d.inode[n]
  /\ \A b \in B : e.block[b] = Zero
  /\ \A b \in Blocks \ B : e.block[b] = d.block[b]

LEMMA ClearFacts ==
  ASSUME NEW d \in Disk, NEW ino \in Inos, NEW B \in SUBSET Blocks, NEW e,
         e = clear_inode(clear_data_blocks(d, B), ino)
  PROVE  e \in Disk /\ Cleared(d, e, ino, B)
<1>1. /\ d.i_bitmap \in SUBSET Inos /\ d.d_bitmap \in SUBSET Blocks
      /\ d.inode \in [Inos -> Inode] /\ d.block \in [Blocks -> Block]
  BY DiskParts
<1> DEFINE K == [b \in Blocks |-> IF b \in B THEN Zero ELSE d.block[b]]
           g == clear_data_blocks(d, B)
           f == [init_inode("none") EXCEPT !.valid = 0]
           I == [d.inode EXCEPT ![ino] = f]
<1>2. Zero \in Block /\ f \in Inode
  <2>1. Zero \in Block /\ init_inode("none") \in Inode
    BY InitTyped
  <2> QED
    BY <2>1 DEF Inode
<1>3. K \in [Blocks -> Block] /\ (\A b \in B : K[b] = Zero) /\ \A b \in Blocks \ B : K[b] = d.block[b]
  BY <1>1, <1>2
<1>4. f.valid = 0 /\ f.type = "none"
  BY DEF init_inode
<1> HIDE DEF f
<1>5. I \in [Inos -> Inode] /\ I[ino] = f /\ \A n \in Inos \ {ino} : I[n] = d.inode[n]
  BY <1>1, <1>2
<1>6. g = [i_bitmap |-> d.i_bitmap, d_bitmap |-> d.d_bitmap \ B, inode |-> d.inode, block |-> K]
  <2>1. g = [d EXCEPT !.block = K, !.d_bitmap = @ \ B]
    BY DEF clear_data_blocks
  <2> HIDE DEF g, K
  <2> QED
    BY <2>1 DEF Disk
<1>7. e = [g EXCEPT !.inode[ino] = f, !.i_bitmap = @ \ {ino}]
  BY DEF clear_inode, f
<1> HIDE DEF g, K
<1>8. e = [i_bitmap |-> d.i_bitmap \ {ino}, d_bitmap |-> d.d_bitmap \ B, inode |-> I, block |-> K]
  BY <1>6, <1>7
<1> HIDE DEF I
<1>9. e \in Disk
  <2>1. d.i_bitmap \ {ino} \in SUBSET Inos /\ d.d_bitmap \ B \in SUBSET Blocks
    BY <1>1
  <2> QED
    BY <1>3, <1>5, <1>8, <2>1, DiskMake
<1>10. e.i_bitmap = d.i_bitmap \ {ino} /\ e.d_bitmap = d.d_bitmap \ B /\ e.inode = I /\ e.block = K
  BY <1>8
<1> QED
  BY <1>3, <1>4, <1>5, <1>9, <1>10 DEF Cleared

\* The node of a path is an entry of its parent, which is another node.
LEMMA NodeFacts ==
  ASSUME NEW d, Good(d), NEW p \in Seq(Names), p # <<>>, NEW ino, ino = get_node_by_path(d, p), ino # Nil,
         IsDir(d, ino) => UsedSlots(d, ino) = {},
         NEW n0, n0 = get_node_by_path(d, Parent(p))
  PROVE  /\ Parent(p) \in Seq(Names) /\ Name(p) \in Names
         /\ IsDir(d, n0) /\ ino \in LiveIn(d) \ {Root, n0}
         /\ Slot(d, n0, Name(p)) \in UsedSlots(d, n0)
         /\ Table(d, n0)[Slot(d, n0, Name(p))].ino = ino
<1>1. LevelTyped(d)
  BY LevelIsTyped DEF Good
<1>2. /\ Parent(p) \in Seq(Names) /\ Name(p) \in Names
      /\ ino = Level(d)[n0][Name(p)]
  BY <1>1, LookupStep
<1>3. n0 \in InoOrNil
  BY <1>1, <1>2, LookupStep
<1>4. /\ IsDir(d, n0) /\ ino \in LiveIn(d) \ {Root}
      /\ Slot(d, n0, Name(p)) \in UsedSlots(d, n0)
      /\ Table(d, n0)[Slot(d, n0, Name(p))].ino = ino
  BY <1>2, <1>3, LevelFacts
<1> QED
  BY <1>2, <1>4

\* The table of another directory is not among the blocks that are cleared.
LEMMA TableStays ==
  ASSUME NEW d, Good(d), NEW e, NEW ino \in LiveIn(d), NEW B, Cleared(d, e, ino, B),
         \A b \in B : BelongsTo(d, ino, b), NEW n, IsDir(d, n), n # ino
  PROVE  /\ d.inode[n].direct[0] \in Blocks \ B
         /\ Table(e, n) = Table(d, n)
<1>1. n \in LiveIn(d) /\ n \in Inos /\ d.inode[n].type = "dir" /\ d \in Disk /\ Dead(d) /\ Shape(d)
  BY DEF Good, IsDir, LiveIn
<1> DEFINE t == d.inode[n].direct[0]
<1>2. t \in Blocks
  BY <1>1, TableFacts
<1>3. t # Nil /\ 0 \in DirectSlots
  BY <1>2, Constants, Zenon
<1>4. BelongsTo(d, n, t)
  BY <1>3 DEF BelongsTo
<1>5. t \notin B
  BY <1>1, <1>3, <1>4, Apart
<1>6. e.inode[n] = d.inode[n] /\ e.block[t] = d.block[t]
  BY <1>1, <1>2, <1>5 DEF Cleared
<1> QED
  BY <1>2, <1>5, <1>6 DEF Table

\* No lookup in the other directories notices.
LEMMA LookupStays ==
  ASSUME NEW d, Good(d), NEW e, NEW ino \in LiveIn(d), NEW B, Cleared(d, e, ino, B),
         \A b \in B : BelongsTo(d, ino, b), IsDir(d, ino) => UsedSlots(d, ino) = {},
         NEW q \in Seq(Names)
  PROVE  get_node_by_path(e, q) = get_node_by_path(d, q)
<1>1. LevelTyped(d)
  BY LevelIsTyped DEF Good
<1>2. ASSUME NEW m \in InoOrNil, NEW x \in Names PROVE Level(e)[m][x] = Level(d)[m][x]
  <2>1. /\ Level(d)[m][x] = IF m = Nil \/ d.inode[m].type # "dir" THEN Nil ELSE dir_find(d, m, x)
        /\ Level(e)[m][x] = IF m = Nil \/ e.inode[m].type # "dir" THEN Nil ELSE dir_find(e, m, x)
    BY DEF Level, InoOrNil
  <2>2. CASE m = Nil
    BY <2>1, <2>2
  <2>3. CASE m = ino
    <3>1. e.inode[m].type # "dir"
      BY <2>3 DEF Cleared
    <3>2. Level(d)[m][x] = Nil
      BY <2>3, LevelFacts
    <3> QED
      BY <2>1, <3>1, <3>2
  <2>4. CASE m # Nil /\ m # ino
    <3>1. m \in Inos /\ e.inode[m] = d.inode[m]
      BY <2>4 DEF Cleared, InoOrNil
    <3>2. CASE d.inode[m].type # "dir"
      BY <2>1, <3>1, <3>2
    <3>3. CASE d.inode[m].type = "dir"
      <4>1. IsDir(d, m)
        BY <3>1, <3>3, TableFacts DEF Good
      <4>2. Table(e, m) = Table(d, m)
        BY <2>4, <4>1, TableStays
      <4>3. Slot(e, m, x) = Slot(d, m, x)
        BY <4>2 DEF Slot
      <4>4. dir_find(e, m, x) = dir_find(d, m, x)
        BY <4>2, <4>3 DEF dir_find
      <4> QED
        BY <2>1, <3>1, <4>4
    <3> QED
      BY <3>2, <3>3
  <2> QED
    BY <2>2, <2>3, <2>4
<1>3. LevelTyped(e)
  BY <1>1, <1>2 DEF LevelTyped
<1>4. PICK c : IsWalk(d, q, Len(q), c)
  BY <1>1, WalkExists
<1>5. IsWalk(e, q, Len(q), c)
  <2>1. c \in [0..Len(q) -> InoOrNil] /\ c[0] = Root /\ \A k \in 1..Len(q) : c[k] = Level(d)[c[k - 1]][q[k]]
    BY <1>4 DEF IsWalk
  <2>2. ASSUME NEW k \in 1..Len(q) PROVE c[k] = Level(e)[c[k - 1]][q[k]]
    <3>1. q[k] \in Names
      BY ElementOfSeq
    <3>2. k - 1 \in 0..Len(q)
      BY LenProperties
    <3>3. c[k - 1] \in InoOrNil
      BY <2>1, <3>2
    <3>4. Level(e)[c[k - 1]][q[k]] = Level(d)[c[k - 1]][q[k]]
      BY <1>2, <3>1, <3>3
    <3> QED
      BY <2>1, <3>4
  <2> QED
    BY <2>1, <2>2 DEF IsWalk
<1>6. get_node_by_path(d, q) = c[Len(q)]
  BY <1>1, <1>4, WalkIsLookup
<1>7. get_node_by_path(e, q) = c[Len(q)]
  BY <1>3, <1>5, WalkIsLookup
<1> QED
  BY <1>6, <1>7

\* The blocks that rmdir and unlink clear are the node's own.
LEMMA DirectFacts ==
  ASSUME NEW d, Good(d), NEW ino \in LiveIn(d)
  PROVE  /\ DirectBlocks(d.inode[ino]) \in SUBSET Blocks
         /\ \A b \in DirectBlocks(d.inode[ino]) : BelongsTo(d, ino, b)
<1> DEFINE f == d.inode[ino]
<1>1. f \in Inode
  BY DiskParts DEF Good, LiveIn
<1> SUFFICES ASSUME NEW b \in DirectBlocks(f) PROVE b \in Blocks /\ BelongsTo(d, ino, b)
  OBVIOUS
<1>2. f.direct \in [DirectSlots -> Pointer]
  BY <1>1, InodeParts
<1>3. PICK i \in DOMAIN f.direct : b = f.direct[i] /\ b # Nil
  BY DEF DirectBlocks
<1>4. i \in DirectSlots /\ b \in Blocks
  BY <1>2, <1>3 DEF Pointer
<1> QED
  BY <1>3, <1>4 DEF BelongsTo

LEMMA IndirectFacts ==
  ASSUME NEW d, Good(d), NEW ino, IsFile(d, ino)
  PROVE  /\ IndirectBlocks(d, d.inode[ino]) \in SUBSET Blocks
         /\ \A b \in IndirectBlocks(d, d.inode[ino]) : BelongsTo(d, ino, b)
<1> DEFINE f == d.inode[ino]
<1>1. f \in Inode /\ d \in Disk /\ Shape(d) /\ ino \in LiveIn(d) /\ f.type = "file"
  BY DiskParts DEF Good, LiveIn, IsFile
<1>2. f.indirect \in [IndirectSlots -> Pointer]
  BY <1>1, InodeParts
<1>3. ASSUME NEW x \in Leading(f.indirect)
      PROVE  x \in Blocks /\ \E k \in IndirectSlots : x = f.indirect[k]
  <2>1. PICK k \in DOMAIN f.indirect : x = f.indirect[k] /\ \A j \in DOMAIN f.indirect : j <= k => f.indirect[j] # Nil
    BY DEF Leading
  <2>2. k \in IndirectSlots
    BY <1>2, <2>1
  <2>3. k <= k
    BY <2>2 DEF IndirectSlots
  <2>4. x # Nil
    BY <2>1, <2>3
  <2> QED
    BY <1>2, <2>1, <2>2, <2>4 DEF Pointer
<1>4. ASSUME NEW x \in Leading(f.indirect), NEW b \in Leading(d.block[x].ptr)
      PROVE  b \in Blocks /\ BelongsTo(d, ino, b)
  <2>1. PICK k \in IndirectSlots : x = f.indirect[k]
    BY <1>3
  <2>2. x \in Blocks /\ x # Nil
    BY <1>3, Constants, Zenon
  <2>3. d.block[x].as = "index"
    <3>1. FileShape(d, ino)
      BY <1>1 DEF Shape
    <3>2. IndexAt(d, f.indirect[k])
      BY <3>1 DEF FileShape
    <3> QED
      BY <2>1, <2>2, <3>2 DEF IndexAt
  <2> DEFINE q == d.block[x].ptr
  <2>4. q \in [IndexSlots -> Pointer]
    BY <1>1, <2>2, <2>3, IndexTyped
  <2>5. b \in Leading(q)
    OBVIOUS
  <2> HIDE DEF q
  <2>6. PICK j \in DOMAIN q : b = q[j] /\ \A l \in DOMAIN q : l <= j => q[l] # Nil
    BY <2>5 DEF Leading
  <2>7. j \in IndexSlots
    BY <2>4, <2>6
  <2>8. j <= j
    BY <2>7 DEF IndexSlots
  <2>9. b \in Blocks
    BY <2>4, <2>6, <2>7, <2>8 DEF Pointer
  <2>10. b = d.block[f.indirect[k]].ptr[j] /\ f.indirect[k] # Nil
    BY <2>1, <2>2, <2>6 DEF q
  <2> QED
    BY <2>7, <2>9, <2>10 DEF BelongsTo
<1>5. ASSUME NEW b \in IndirectBlocks(d, f) PROVE b \in Blocks /\ BelongsTo(d, ino, b)
  <2>1. CASE b \in Leading(f.indirect)
    BY <1>3, <2>1 DEF BelongsTo
  <2>2. CASE \E x \in Leading(f.indirect) : b \in Leading(d.block[x].ptr)
    BY <1>4, <2>2
  <2> QED
    BY <2>1, <2>2 DEF IndirectBlocks
<1> QED
  BY <1>5

\* What a call that removes the node at path p does to the disk: nothing, or the node is gone,
\* with its blocks B.
NodeGone(d, e, p, B) ==
  \E i, t : /\ NodeRemoved(d, e, get_node_by_path(d, Parent(p)), get_node_by_path(d, p), i, B, t)
            /\ Table(d, get_node_by_path(d, Parent(p)))[i].name = Name(p)
GoneOrNot(p, B) == (disk' = disk /\ ret' # "ok") \/ NodeGone(disk, disk', p, B)

LEMMA RemoveStep ==
  ASSUME NEW d, Good(d), NEW p \in Seq(Names), p # <<>>, NEW ino, ino = get_node_by_path(d, p), ino # Nil,
         NEW B \in SUBSET Blocks, \A b \in B : BelongsTo(d, ino, b),
         IsDir(d, ino) => UsedSlots(d, ino) = {},
         NEW d1, d1 = clear_inode(clear_data_blocks(d, B), ino),
         NEW r, r = dir_remove(d1, get_node_by_path(d1, Parent(p)), Name(p))
  PROVE  Good(r.disk) /\ r.ret = "ok" /\ NodeGone(d, r.disk, p, B)
<1> DEFINE n0 == get_node_by_path(d, Parent(p))
           i  == Slot(d, n0, Name(p))
           t  == d.inode[n0].direct[0]
           size == d.inode[n0].size - 1
           e  == r.disk
<1>1. /\ Parent(p) \in Seq(Names) /\ Name(p) \in Names
      /\ IsDir(d, n0) /\ ino \in LiveIn(d) \ {Root, n0}
      /\ i \in UsedSlots(d, n0) /\ Table(d, n0)[i].ino = ino
  BY NodeFacts
<1> HIDE DEF n0, e
<1>2. ino \in Inos /\ n0 \in Inos /\ d \in Disk /\ Dead(d) /\ Shape(d) /\ d.inode[n0].type = "dir"
  BY <1>1 DEF Good, IsDir, LiveIn
<1>3. d1 \in Disk /\ Cleared(d, d1, ino, B)
  BY <1>2, ClearFacts
<1>4. get_node_by_path(d1, Parent(p)) = n0
  BY <1>1, <1>3, LookupStays DEF n0
<1>5. t \in Blocks \ B /\ Table(d1, n0) = Table(d, n0)
  BY <1>1, <1>3, TableStays
<1>6. i \in 1..MaxEntries /\ i # Nil
  <2>1. MaxEntries \in Nat
    BY Constants, Zenon
  <2> QED
    BY <1>1, <2>1 DEF UsedSlots, EntrySlots, Nil
<1>7. Slot(d1, n0, Name(p)) = i
  BY <1>5 DEF Slot
<1>8. d1.inode[n0] = d.inode[n0] /\ d1.block[t] = d.block[t]
  BY <1>1, <1>2, <1>3, <1>5 DEF Cleared
<1>9. size \in 0..MaxEntries
  <2>1. TableKept(d, n0)
    BY <1>1 DEF Good, Tree1, IsDir
  <2>2. d.inode[n0].size = Cardinality(UsedSlots(d, n0))
    BY <2>1, Zenon DEF TableKept
  <2>3. Cardinality(UsedSlots(d, n0)) \in Nat /\ Cardinality(UsedSlots(d, n0)) <= MaxEntries
        /\ MaxEntries \in Nat
    BY UsedFinite, Constants
  <2>4. Cardinality(UsedSlots(d, n0)) - 1 \in Nat
    BY <1>1, SizeLeft
  <2> QED
    BY <2>2, <2>3, <2>4
<1>10. Table(d, n0) \in [1..MaxEntries -> Dirent] /\ d.block[t] = [as |-> "table", entry |-> Table(d, n0)]
  BY <1>2, TableFacts
<1>11. r.ret = "ok" /\ e = WithEntry(d1, n0, i, NoEntry, size)
  BY <1>3, <1>4, <1>6, <1>7, <1>8, DirRemoveFacts DEF e
<1>12. NoEntry \in Dirent
  BY InitTyped
<1> HIDE DEF i, t, size
<1>13. t = d1.inode[n0].direct[0]
  BY <1>8 DEF t
<1>14. /\ e \in Disk /\ e.i_bitmap = d1.i_bitmap /\ e.d_bitmap = d1.d_bitmap
       /\ \A m \in Inos \ {n0} : e.inode[m] = d1.inode[m]
       /\ e.inode[n0] = [d1.inode[n0] EXCEPT !.size = size]
       /\ e.block[t] = [as |-> "table", entry |-> [Table(d1, n0) EXCEPT ![i] = NoEntry]]
       /\ \A b \in Blocks \ {t} : e.block[b] = d1.block[b]
  BY <1>2, <1>3, <1>5, <1>6, <1>8, <1>9, <1>10, <1>11, <1>12, <1>13, EntrySet, SMTT(40)
<1>15. /\ e.i_bitmap = d.i_bitmap \ {ino} /\ e.d_bitmap = d.d_bitmap \ B
       /\ e.inode[ino].valid = 0 /\ e.inode[ino].type = "none"
       /\ \A n \in Inos \ {n0, ino} : e.inode[n] = d.inode[n]
  BY <1>1, <1>2, <1>3, <1>14 DEF Cleared
<1>16. e.inode[n0] = [d.inode[n0] EXCEPT !.size = @ - 1]
  BY <1>8, <1>14 DEF size
<1>17. e.block[t] = [as |-> "table", entry |-> [Table(d, n0) EXCEPT ![i] = NoEntry]]
  BY <1>5, <1>14
<1>18. /\ \A b \in B \ {t} : e.block[b] = Zero
       /\ \A b \in Blocks \ (B \cup {t}) : e.block[b] = d.block[b]
  BY <1>3, <1>14 DEF Cleared
<1>19. e \in Disk /\ t = d.inode[n0].direct[0] /\ \A b \in B : b \in Blocks /\ BelongsTo(d, ino, b)
  BY <1>14 DEF t
<1>20. Good(e) /\ NodeRemoved(d, e, n0, ino, i, B, t)
  <2>1. NodeRemoved(d, e, n0, ino, i, B, t)
    BY <1>1, <1>15, <1>16, <1>17, <1>18, <1>19 DEF NodeRemoved
  <2> QED
    BY <1>14, <2>1, RemoveGood
<1>21. Table(d, n0)[i].name = Name(p)
  BY <1>2, <1>6, SlotFacts DEF i
<1>22. NodeGone(d, e, p, B)
  BY <1>20, <1>21, Zenon DEF NodeGone, n0
<1> QED
  BY <1>11, <1>20, <1>22 DEF e

LEMMA RmdirKeeps ==
  ASSUME IInv, NEW p \in client.paths, rufs_rmdir(p), ~RemovesFullDirs
  PROVE  IInv' /\ GoneOrNot(p, DirectBlocks(disk.inode[get_node_by_path(disk, p)]))
<1> DEFINE ino == get_node_by_path(disk, p)
           B   == DirectBlocks(disk.inode[ino])
           d1  == clear_inode(clear_data_blocks(disk, B), ino)
           s   == dir_remove(d1, get_node_by_path(d1, Parent(p)), Name(p))
           r   == IF ino = Nil THEN Fail(disk, "ENOENT") ELSE s
<1>1. /\ Ready /\ Type(p) # "file" /\ Finish(r)
      /\ Type(p) = "dir" => \A i \in 3..MaxEntries : Table(disk, ino)[i].valid = 0
  BY DEF rufs_rmdir
<1>2. TypeOK /\ Good(disk) /\ fs = "up"
  BY <1>1, ReadyFacts DEF IInv
<1>3. p \in Seq(Names) /\ p # <<>>
  BY <1>2, PathFacts
<1>4. CASE ino = Nil
  <2>1. r = Fail(disk, "ENOENT")
    BY <1>4
  <2> HIDE DEF r
  <2>2. IInv' /\ disk' = disk /\ ret' # "ok"
    BY <1>1, <1>2, <2>1, FinishKeeps DEF Fail, Results, Finish
  <2> QED
    BY <2>2 DEF GoneOrNot
<1>5. CASE ino # Nil
  <2>1. r = s
    BY <1>5
  <2>2. ino \in LiveIn(disk) /\ ino \in Inos
    BY <1>2, <1>3, <1>5, LookupLive DEF LiveIn
  <2>3. IsDir(disk, ino) => UsedSlots(disk, ino) = {}
    <3>1. IsDir(disk, ino) => Type(p) = "dir"
      BY <1>2, <1>3, <1>5, TypeFacts
    <3> QED
      BY <1>1, <3>1 DEF UsedSlots, EntrySlots
  <2>4. B \in SUBSET Blocks /\ \A b \in B : BelongsTo(disk, ino, b)
    BY <1>2, <2>2, DirectFacts
  <2> HIDE DEF r, s, d1, B, ino
  <2>5. Good(s.disk) /\ s.ret = "ok" /\ NodeGone(disk, s.disk, p, B)
    BY <1>2, <1>3, <1>5, <2>3, <2>4, RemoveStep DEF s, d1, ino
  <2>6. IInv' /\ disk' = s.disk
    BY <1>1, <1>2, <2>1, <2>5, FinishKeeps DEF Results, Finish
  <2> QED
    BY <2>5, <2>6 DEF GoneOrNot, B, ino
<1> QED
  BY <1>4, <1>5

LEMMA UnlinkKeeps ==
  ASSUME IInv, NEW p \in client.paths, rufs_unlink(p)
  PROVE  LET f == disk.inode[get_node_by_path(disk, p)]
         IN  IInv' /\ GoneOrNot(p, DirectBlocks(f) \cup IndirectBlocks(disk, f))
<1> DEFINE ino == get_node_by_path(disk, p)
           f   == disk.inode[ino]
           B   == DirectBlocks(f) \cup IndirectBlocks(disk, f)
           d1  == clear_inode(clear_data_blocks(disk, B), ino)
           s   == dir_remove(d1, get_node_by_path(d1, Parent(p)), Name(p))
           r   == IF ino = Nil THEN Fail(disk, "ENOENT") ELSE s
<1>1. Ready /\ Type(p) # "dir" /\ Finish(r)
  BY DEF rufs_unlink
<1>2. TypeOK /\ Good(disk) /\ fs = "up"
  BY <1>1, ReadyFacts DEF IInv
<1>3. p \in Seq(Names) /\ p # <<>>
  BY <1>2, PathFacts
<1>4. CASE ino = Nil
  <2>1. r = Fail(disk, "ENOENT")
    BY <1>4
  <2> HIDE DEF r
  <2>2. IInv' /\ disk' = disk /\ ret' # "ok"
    BY <1>1, <1>2, <2>1, FinishKeeps DEF Fail, Results, Finish
  <2> QED
    BY <2>2 DEF GoneOrNot
<1>5. CASE ino # Nil
  <2>1. r = s
    BY <1>5
  <2>2. ino \in LiveIn(disk) /\ IsFile(disk, ino)
    <3>1. Type(p) = "file"
      BY <1>1, <1>2, <1>3, <1>5, TypeFacts
    <3> QED
      BY <1>2, <1>3, <3>1, TypeFacts DEF IsFile
  <2>3. ~IsDir(disk, ino)
    BY <2>2 DEF IsFile, IsDir
  <2>4. B \in SUBSET Blocks /\ \A b \in B : BelongsTo(disk, ino, b)
    <3>1. DirectBlocks(f) \in SUBSET Blocks /\ \A b \in DirectBlocks(f) : BelongsTo(disk, ino, b)
      BY <1>2, <2>2, DirectFacts
    <3>2. IndirectBlocks(disk, f) \in SUBSET Blocks /\ \A b \in IndirectBlocks(disk, f) : BelongsTo(disk, ino, b)
      BY <1>2, <2>2, IndirectFacts
    <3> QED
      BY <3>1, <3>2
  <2> HIDE DEF r, s, d1, B, ino, f
  <2>5. Good(s.disk) /\ s.ret = "ok" /\ NodeGone(disk, s.disk, p, B)
    BY <1>2, <1>3, <1>5, <2>3, <2>4, RemoveStep DEF s, d1, ino
  <2>6. IInv' /\ disk' = s.disk
    BY <1>1, <1>2, <2>1, <2>5, FinishKeeps DEF Results, Finish
  <2> QED
    BY <2>5, <2>6 DEF GoneOrNot, B, ino, f
<1> QED
  BY <1>4, <1>5

-----------------------------------------------------------------------------
\* Offsets and blocks.

LEMMA DivFacts ==
  ASSUME NEW a \in Int, NEW B \in Nat \ {0}
  PROVE  /\ a \div B \in Int /\ a % B \in 0..(B - 1) /\ a = B * (a \div B) + (a % B)
         /\ a >= 0 => a \div B >= 0
<1>0. B \in Nat /\ B > 0
  OBVIOUS
<1> DEFINE q == a \div B
           r == a % B
<1>1. q \in Int /\ r \in 0..(B - 1) /\ a = B * q + r
  BY <1>0
<1> HIDE DEF q, r
<1>2. ASSUME a >= 0, q <= -1 PROVE FALSE
  <2>1. B * q <= B * (-1)
    BY <1>1, <1>2
  <2> QED
    BY <1>1, <1>2, <2>1
<1>3. a >= 0 => q >= 0
  BY <1>1, <1>2
<1> QED
  BY <1>1, <1>3, Zenon DEF q, r

LEMMA Below ==
  ASSUME NEW q \in Int, NEW K \in Int, NEW B \in Nat \ {0}, B * q < K * B
  PROVE  q < K
<1> SUFFICES ASSUME q >= K PROVE FALSE
  OBVIOUS
<1>1. PICK n \in Nat : q = K + n
  <2>1. q - K \in Nat /\ q = K + (q - K)
    OBVIOUS
  <2> QED
    BY <2>1
<1>2. B * (K + n) = K * B + B * n
  OBVIOUS
<1>3. B * n \in Nat
  OBVIOUS
<1> QED
  BY <1>1, <1>2, <1>3

LEMMA DivBelow ==
  ASSUME NEW a \in Nat, NEW K \in Int, NEW B \in Nat \ {0}, a < K * B
  PROVE  a \div B < K
<1> DEFINE q == a \div B
           m == a % B
<1>1. q \in Int /\ m \in 0..(B - 1) /\ a = B * q + m
  BY DivFacts
<1> HIDE DEF q, m
<1>2. B * q < K * B
  BY <1>1
<1>3. q < K
  BY <1>1, <1>2, Below
<1> QED
  BY <1>3 DEF q

LEMMA DivNext ==
  ASSUME NEW a \in Nat, NEW n \in Nat, NEW B \in Nat \ {0}
  PROVE  (a + n) \div B <= a \div B + n
<1> DEFINE q == a \div B
           m == a % B
<1>1. q \in Int /\ m \in 0..(B - 1) /\ a = B * q + m
  BY DivFacts
<1> HIDE DEF q, m
<1>2. (q + n + 1) * B = B * q + n * B + B
  BY <1>1
<1>3. n * B >= n
  OBVIOUS
<1>4. a + n < (q + n + 1) * B
  <2>1. B * q \in Int /\ n * B \in Int /\ (q + n + 1) * B \in Int
    BY <1>1
  <2> QED
    BY <1>1, <1>2, <1>3, <2>1
<1>5. (a + n) \div B < q + n + 1
  BY <1>1, <1>4, DivBelow
<1>6. (a + n) \div B \in Int
  BY DivFacts
<1> QED
  BY <1>1, <1>5, <1>6 DEF q

\* A block after the first begins behind the offset.
LEMMA BlockStart ==
  ASSUME NEW off \in Nat, NEW B \in Nat \ {0}, NEW k \in Nat \ {0}
  PROVE  (off \div B + k) * B \in Nat /\ (off \div B + k) * B > off
<1> DEFINE q == off \div B
           m == off % B
<1>1. q \in Nat /\ m \in 0..(B - 1) /\ off = B * q + m
  <2>1. off \in Int /\ off >= 0
    OBVIOUS
  <2>2. q \in Int /\ q >= 0 /\ m \in 0..(B - 1) /\ off = B * q + m
    BY <2>1, DivFacts
  <2> HIDE DEF q, m
  <2> QED
    BY <2>2
<1> HIDE DEF q, m
<1>2. (q + k) * B = B * q + k * B
  BY <1>1
<1>3. k * B >= B
  OBVIOUS
<1>4. B * q \in Nat /\ k * B \in Nat
  BY <1>1
<1>5. (q + k) * B \in Nat /\ (q + k) * B > off
  BY <1>1, <1>2, <1>3, <1>4
<1> QED
  BY <1>5 DEF q

\* The words of a request go to places of its blocks, and come from places of the request.
LEMMA MergedTyped ==
  ASSUME NEW val \in [0..(BlockSize - 1) -> Word], NEW c, NEW i, i = c.off \div BlockSize + c.done,
         c.words \in Requests, c.off \in Nat, c.done \in Nat
  PROVE  Merged(val, c, i) \in [0..(BlockSize - 1) -> Word]
<1>0. BlockSize \in Nat \ {0}
  BY Constants, Zenon
<1> DEFINE L == Len(c.words)
           off == c.off
           q == off \div BlockSize
           done == c.done
<1>1. L \in Nat /\ c.words \in [1..L -> Data]
  <2>1. PICK n \in 1..MaxRequest : c.words \in [1..n -> Data]
    BY DEF Requests
  <2>2. MaxRequest \in Nat
    BY Constants, Zenon
  <2>3. n \in Nat
    BY <2>1, <2>2
  <2> QED
    BY <2>1, <2>3
<1>2. i \in Nat /\ q \in Nat
  <2>1. off \in Int /\ off >= 0
    OBVIOUS
  <2>2. q \in Int /\ q >= 0
    BY <1>0, <2>1, DivFacts
  <2>3. i = q + done
    OBVIOUS
  <2> HIDE DEF q
  <2> QED
    BY <2>2, <2>3
<1> SUFFICES ASSUME NEW o \in 0..(BlockSize - 1), i * BlockSize + o \in Piece(off, L, done)
             PROVE  c.words[(i * BlockSize + o) - PieceStart(off, done) + 1] \in Word
  <2>1. Merged(val, c, i) =
          [o \in 0..(BlockSize - 1) |->
             IF i * BlockSize + o \in Piece(off, L, done)
             THEN c.words[(i * BlockSize + o) - PieceStart(off, done) + 1] ELSE val[o]]
    BY Zenon DEF Merged
  <2> QED
    BY <2>1, Zenon
<1> DEFINE j == i * BlockSize + o
<1>3. j \in off..(off + L - 1)
  BY DEF Piece
<1>4. j - PieceStart(off, done) + 1 \in 1..L
  <2>1. CASE done = 0
    <3>1. PieceStart(off, done) = off
      BY <2>1 DEF PieceStart
    <3> HIDE DEF j
    <3> QED
      BY <1>1, <1>3, <3>1
  <2>2. CASE done # 0
    <3>1. PieceStart(off, done) = i * BlockSize
      BY <2>2 DEF PieceStart
    <3> DEFINE s == i * BlockSize
    <3>2. done \in Nat \ {0}
      BY <2>2
    <3>3. s \in Nat /\ s > off
      BY <1>0, <3>2, BlockStart
    <3>4. j = s + o
      OBVIOUS
    <3> HIDE DEF s, j
    <3>5. PieceStart(off, done) = s
      BY <3>1 DEF s
    <3> QED
      BY <1>0, <1>1, <1>3, <3>2, <3>3, <3>4, <3>5, SMTT(30)
  <2> QED
    BY <2>1, <2>2
<1> HIDE DEF j
<1>5. c.words[j - PieceStart(off, done) + 1] \in Data
  BY <1>1, <1>4
<1>6. c.words[j - PieceStart(off, done) + 1] \in Word
  BY <1>5 DEF Word
<1> QED
  BY <1>6, Zenon DEF j

-----------------------------------------------------------------------------
\* The blocks that a write takes.

FileInode(f) == f.valid = 1 /\ f.type = "file"

\* The disk d is good when f is written as inode ino.
Sound(d, ino, f) ==
  /\ d \in Disk /\ ino \in Inos /\ f \in Inode /\ FileInode(f)
  /\ Good(InodeWritten(d, ino, f))

LEMMA SoundFacts ==
  ASSUME NEW d \in Disk, NEW ino \in Inos, NEW f \in Inode, FileInode(f),
         NEW v, v = InodeWritten(d, ino, f)
  PROVE  /\ v \in Disk /\ v.i_bitmap = d.i_bitmap /\ v.d_bitmap = d.d_bitmap /\ v.block = d.block
         /\ v.inode[ino] = f /\ v.inode = Placed(d.inode, ino, f)
         /\ \A m \in Inos \ {ino} : v.inode[m] = d.inode[m]
         /\ IsFile(v, ino)
<1>1. /\ v \in Disk /\ v.i_bitmap = d.i_bitmap /\ v.d_bitmap = d.d_bitmap /\ v.block = d.block
      /\ v.inode[ino] = f /\ v.inode = Placed(d.inode, ino, f)
      /\ \A m \in Inos \ {ino} : v.inode[m] = d.inode[m]
  BY InodeSet
<1> QED
  BY <1>1 DEF IsFile, LiveIn, FileInode

\* Nothing changes, or the inode loses pointers or changes its size.
LEMMA SameSound ==
  ASSUME NEW d, NEW ino, NEW f, Sound(d, ino, f), NEW e \in Disk,
         e.inode = d.inode, e.block = d.block, e.i_bitmap = d.i_bitmap, e.d_bitmap = d.d_bitmap,
         NEW g \in Inode, FileInode(g), Fewer(g, f)
  PROVE  Sound(e, ino, g)
<1> DEFINE v == InodeWritten(d, ino, f)
           w == InodeWritten(e, ino, g)
<1>0. ino \in Inos
  BY DEF Sound
<1>1. d \in Disk /\ ino \in Inos /\ f \in Inode /\ FileInode(f) /\ Good(v)
  BY DEF Sound
<1> HIDE DEF v, w
<1>2. /\ v \in Disk /\ v.i_bitmap = d.i_bitmap /\ v.d_bitmap = d.d_bitmap /\ v.block = d.block
      /\ v.inode[ino] = f /\ \A m \in Inos \ {ino} : v.inode[m] = d.inode[m]
      /\ IsFile(v, ino)
  <2>1. v = InodeWritten(d, ino, f)
    BY DEF v
  <2> QED
    BY <1>1, <2>1, SoundFacts, SMTT(30)
<1>3. /\ w \in Disk /\ w.i_bitmap = e.i_bitmap /\ w.d_bitmap = e.d_bitmap /\ w.block = e.block
      /\ w.inode[ino] = g /\ \A m \in Inos \ {ino} : w.inode[m] = e.inode[m]
      /\ IsFile(w, ino)
  <2>1. w = InodeWritten(e, ino, g)
    BY DEF w
  <2> QED
    BY <1>0, <2>1, SoundFacts, SMTT(30)
<1>4. /\ w.block = v.block /\ w.i_bitmap = v.i_bitmap /\ w.d_bitmap = v.d_bitmap
      /\ \A m \in Inos \ {ino} : w.inode[m] = v.inode[m]
  BY <1>2, <1>3
<1>5. Fewer(w.inode[ino], v.inode[ino])
  BY <1>2, <1>3
<1>6. Good(w)
  BY <1>1, <1>2, <1>3, <1>4, <1>5, FewerGood
<1> QED
  BY <1>1, <1>6 DEF Sound, w

LEMMA FewerSelf ==
  ASSUME NEW f \in Inode
  PROVE  Fewer(f, f)
BY DEF Fewer

\* What FileBlock finds or takes for a file f.
BlockFound(d, ino, f, r) ==
  /\ Sound(r.disk, ino, r.inode) /\ r.disk.inode = d.inode
  /\ Fewer(f, r.inode) /\ r.inode.size = f.size
  /\ r.ret \in Results
  /\ r.ret = "ok" => r.blk \in r.disk.d_bitmap /\ r.blk \in Blocks /\ r.disk.block[r.blk].as = "bytes"

\* The inode of a file with another pointer.
WithDirect(f, i, b) == [f EXCEPT !.direct[i] = b]
WithIndirect(f, k, b) == [f EXCEPT !.indirect[k] = b]

LEMMA PointerSet ==
  ASSUME NEW f \in Inode, NEW b \in Pointer
  PROVE  /\ \A i \in DirectSlots :
              LET g == WithDirect(f, i, b)
              IN  /\ g \in Inode /\ g.valid = f.valid /\ g.type = f.type /\ g.size = f.size
                  /\ g.indirect = f.indirect /\ g.direct = [f.direct EXCEPT ![i] = b]
                  /\ f.direct[i] \in {Nil, b} => Fewer(f, g)
                  /\ f.direct[i] = b => Fewer(g, f)
         /\ \A k \in IndirectSlots :
              LET g == WithIndirect(f, k, b)
              IN  /\ g \in Inode /\ g.valid = f.valid /\ g.type = f.type /\ g.size = f.size
                  /\ g.direct = f.direct /\ g.indirect = [f.indirect EXCEPT ![k] = b]
                  /\ g.indirect[k] = b
                  /\ f.indirect[k] \in {Nil, b} => Fewer(f, g)
                  /\ f.indirect[k] = b => Fewer(g, f)
<1>1. /\ f.direct \in [DirectSlots -> Pointer] /\ f.indirect \in [IndirectSlots -> Pointer]
  BY InodeParts
<1>2. ASSUME NEW i \in DirectSlots, NEW g, g = WithDirect(f, i, b)
      PROVE  /\ g \in Inode /\ g.valid = f.valid /\ g.type = f.type /\ g.size = f.size
             /\ g.indirect = f.indirect /\ g.direct = [f.direct EXCEPT ![i] = b]
             /\ f.direct[i] \in {Nil, b} => Fewer(f, g)
             /\ f.direct[i] = b => Fewer(g, f)
  <2>1. /\ g \in Inode /\ g.valid = f.valid /\ g.type = f.type /\ g.size = f.size
        /\ g.indirect = f.indirect /\ g.direct = [f.direct EXCEPT ![i] = b]
    BY <1>2 DEF WithDirect, Inode, DirectSlots
  <2>2. \A l \in DirectSlots : g.direct[l] = IF l = i THEN b ELSE f.direct[l]
    BY <1>1, <2>1
  <2> QED
    BY <2>1, <2>2 DEF Fewer
<1>3. ASSUME NEW k \in IndirectSlots, NEW g, g = WithIndirect(f, k, b)
      PROVE  /\ g \in Inode /\ g.valid = f.valid /\ g.type = f.type /\ g.size = f.size
             /\ g.direct = f.direct /\ g.indirect = [f.indirect EXCEPT ![k] = b]
             /\ g.indirect[k] = b
             /\ f.indirect[k] \in {Nil, b} => Fewer(f, g)
             /\ f.indirect[k] = b => Fewer(g, f)
  <2>1. /\ g \in Inode /\ g.valid = f.valid /\ g.type = f.type /\ g.size = f.size
        /\ g.direct = f.direct /\ g.indirect = [f.indirect EXCEPT ![k] = b]
    BY <1>3 DEF WithIndirect, Inode, IndirectSlots
  <2>2. \A l \in IndirectSlots : g.indirect[l] = IF l = k THEN b ELSE f.indirect[l]
    BY <1>1, <2>1
  <2> QED
    BY <2>1, <2>2 DEF Fewer
<1> QED
  BY <1>2, <1>3

Marked(d, b) == [d EXCEPT !.d_bitmap = @ \cup {b}]

LEMMA MarkedFacts ==
  ASSUME NEW d \in Disk, NEW b \in Blocks, NEW e, e = Marked(d, b)
  PROVE  /\ e \in Disk /\ e.i_bitmap = d.i_bitmap /\ e.inode = d.inode /\ e.block = d.block
         /\ e.d_bitmap = d.d_bitmap \cup {b}
         /\ b \in d.d_bitmap => e.d_bitmap = d.d_bitmap
BY DEF Marked, Disk

\* The inode that a write holds and the disk, one as part of the other.
LEMMA SoundParts ==
  ASSUME NEW d, NEW ino, NEW f, Sound(d, ino, f)
  PROVE  \E v : /\ v = InodeWritten(d, ino, f)
                /\ Good(v) /\ v \in Disk /\ ino \in Inos /\ IsFile(v, ino) /\ ino \in LiveIn(v)
                /\ FileInode(f) /\ f \in Inode /\ d \in Disk
                /\ v.i_bitmap = d.i_bitmap /\ v.d_bitmap = d.d_bitmap /\ v.block = d.block
                /\ v.inode[ino] = f /\ v.inode = Placed(d.inode, ino, f)
                /\ \A m \in Inos \ {ino} : v.inode[m] = d.inode[m]
<1> DEFINE v == InodeWritten(d, ino, f)
<1>1. d \in Disk /\ ino \in Inos /\ f \in Inode /\ FileInode(f) /\ Good(v)
  BY DEF Sound
<1>2. v = InodeWritten(d, ino, f)
  OBVIOUS
<1> HIDE DEF v
<1>3. /\ v \in Disk /\ v.i_bitmap = d.i_bitmap /\ v.d_bitmap = d.d_bitmap /\ v.block = d.block
      /\ v.inode[ino] = f /\ v.inode = Placed(d.inode, ino, f)
      /\ \A m \in Inos \ {ino} : v.inode[m] = d.inode[m]
      /\ IsFile(v, ino)
  BY <1>1, <1>2, SoundFacts
<1> QED
  BY <1>1, <1>2, <1>3 DEF IsFile

\* Block x is an index block of d, with pointers to blocks of bytes.
IndexBytes(d, x) ==
  /\ x \in d.d_bitmap /\ x \in Blocks /\ d.block[x].as = "index"
  /\ \A j \in IndexSlots : d.block[x].ptr[j] # Nil =>
       d.block[x].ptr[j] \in d.d_bitmap /\ d.block[d.block[x].ptr[j]].as = "bytes"

\* A block of a file is one of bytes.
LEMMA FileBytes ==
  ASSUME NEW d, NEW ino, NEW f, Sound(d, ino, f)
  PROVE  /\ \A i \in DirectSlots : f.direct[i] # Nil =>
              f.direct[i] \in d.d_bitmap /\ f.direct[i] \in Blocks /\ d.block[f.direct[i]].as = "bytes"
         /\ \A k \in IndirectSlots : f.indirect[k] # Nil => IndexBytes(d, f.indirect[k])
<1>1. PICK v : /\ Good(v) /\ IsFile(v, ino) /\ ino \in LiveIn(v)
               /\ v.d_bitmap = d.d_bitmap /\ v.block = d.block /\ v.inode[ino] = f
  BY SoundParts
<1>2. FileShape(v, ino)
  BY <1>1 DEF Good, Shape, IsFile
<1>3. \A i \in DirectSlots : f.direct[i] # Nil =>
        f.direct[i] \in d.d_bitmap /\ f.direct[i] \in Blocks /\ d.block[f.direct[i]].as = "bytes"
  <2> SUFFICES ASSUME NEW i \in DirectSlots, f.direct[i] # Nil
               PROVE  f.direct[i] \in d.d_bitmap /\ f.direct[i] \in Blocks /\ d.block[f.direct[i]].as = "bytes"
    OBVIOUS
  <2>1. f.direct[i] \in d.d_bitmap /\ f.direct[i] \in Pointer
    BY <1>1, PointsFacts
  <2>2. BytesAt(v, f.direct[i])
    BY <1>1, <1>2 DEF FileShape
  <2> QED
    BY <1>1, <2>1, <2>2 DEF Pointer, BytesAt
<1>4. ASSUME NEW k \in IndirectSlots, f.indirect[k] # Nil
      PROVE  IndexBytes(d, f.indirect[k])
  <2> DEFINE x == f.indirect[k]
  <2>1. /\ x \in d.d_bitmap /\ x \in Pointer
        /\ \A j \in IndexSlots : d.block[x].ptr[j] # Nil => d.block[x].ptr[j] \in d.d_bitmap
    BY <1>1, <1>4, PointsFacts
  <2>2. IndexAt(v, x)
    BY <1>1, <1>2 DEF FileShape
  <2>3. x # Nil
    BY <1>4
  <2> HIDE DEF x
  <2>4. /\ x \in Blocks /\ d.block[x].as = "index"
        /\ \A j \in IndexSlots : d.block[x].ptr[j] # Nil => d.block[d.block[x].ptr[j]].as = "bytes"
    BY <1>1, <2>1, <2>2, <2>3 DEF Pointer, IndexAt, BytesAt
  <2> QED
    BY <2>1, <2>4 DEF x, IndexBytes
<1> QED
  BY <1>3, <1>4

LEMMA DirectSound ==
  ASSUME NEW d, NEW ino, NEW f, Sound(d, ino, f), NEW i \in DirectSlots, NEW r, r = DirectBlock(d, f, i)
  PROVE  BlockFound(d, ino, f, r)
<1> DEFINE b == IF f.direct[i] = Nil THEN get_avail_blkno(d) ELSE f.direct[i]
           e == IF b = Nil THEN d ELSE Marked(d, b)
           g == WithDirect(f, i, b)
<1>1. /\ r.ret = IF b = Nil THEN "short" ELSE "ok"
      /\ r.disk = e /\ r.inode = g /\ r.blk = b
  BY DEF DirectBlock, Marked, WithDirect
<1>2. PICK v : /\ v = InodeWritten(d, ino, f)
               /\ Good(v) /\ v \in Disk /\ ino \in Inos /\ IsFile(v, ino) /\ ino \in LiveIn(v)
               /\ FileInode(f) /\ f \in Inode /\ d \in Disk
               /\ v.i_bitmap = d.i_bitmap /\ v.d_bitmap = d.d_bitmap /\ v.block = d.block
               /\ v.inode[ino] = f /\ v.inode = Placed(d.inode, ino, f)
               /\ \A m \in Inos \ {ino} : v.inode[m] = d.inode[m]
  BY SoundParts
<1>3. f.direct[i] \in Pointer /\ b \in Pointer
  <2>1. f.direct[i] \in Pointer
    BY <1>2, InodeParts
  <2>2. get_avail_blkno(d) \in Pointer
    BY AvailFacts DEF Pointer
  <2> QED
    BY <2>1, <2>2
<1>4. f.direct[i] \in {Nil, b}
  OBVIOUS
<1>5. r.ret \in Results /\ (r.ret = "ok" <=> b # Nil)
  BY <1>1 DEF Results
<1>6. f.direct[i] # Nil => b = f.direct[i]
  OBVIOUS
<1>7. f.direct[i] = Nil => b = Nil \/ b \in Blocks \ d.d_bitmap
  BY AvailFacts
<1>8. e = IF b = Nil THEN d ELSE Marked(d, b)
  OBVIOUS
<1> HIDE DEF b
<1>9. /\ g \in Inode /\ FileInode(g) /\ g.size = f.size
      /\ g.indirect = f.indirect /\ g.direct = [f.direct EXCEPT ![i] = b]
      /\ Fewer(f, g)
      /\ f.direct[i] = b => Fewer(g, f)
  BY <1>2, <1>3, <1>4, PointerSet, SMTT(30) DEF FileInode
<1> HIDE DEF e, g
<1>10. e \in Disk /\ e.i_bitmap = d.i_bitmap /\ e.inode = d.inode /\ e.block = d.block
  BY <1>2, <1>3, <1>8, MarkedFacts DEF Pointer
<1>11. CASE f.direct[i] = b
  <2>1. e.d_bitmap = d.d_bitmap
    <3>1. b # Nil => b \in d.d_bitmap /\ b \in Blocks
      BY <1>11, FileBytes
    <3> QED
      BY <1>2, <1>8, <3>1, MarkedFacts
  <2>2. Sound(e, ino, g)
    BY <1>9, <1>10, <1>11, <2>1, SameSound
  <2>3. b # Nil => b \in e.d_bitmap /\ b \in Blocks /\ e.block[b].as = "bytes"
    BY <1>10, <1>11, <2>1, FileBytes
  <2> QED
    BY <1>1, <1>5, <1>9, <1>10, <2>2, <2>3 DEF BlockFound
<1>12. CASE f.direct[i] # b
  <2>1. f.direct[i] = Nil /\ b \in Blocks \ d.d_bitmap /\ b # Nil
    BY <1>6, <1>7, <1>12
  <2>2. e.d_bitmap = d.d_bitmap \cup {b}
    BY <1>2, <1>8, <2>1, MarkedFacts
  <2> DEFINE w == InodeWritten(e, ino, g)
  <2>3. w = InodeWritten(e, ino, g)
    OBVIOUS
  <2> HIDE DEF w
  <2>4. /\ w \in Disk /\ w.i_bitmap = e.i_bitmap /\ w.d_bitmap = e.d_bitmap /\ w.block = e.block
        /\ w.inode[ino] = g /\ \A m \in Inos \ {ino} : w.inode[m] = e.inode[m]
        /\ IsFile(w, ino)
    <3>1. ino \in Inos
      BY <1>2
    <3>2. g \in Inode /\ FileInode(g)
      BY <1>9
    <3>3. e \in Disk
      BY <1>10
    <3> QED
      BY <2>3, <3>1, <3>2, <3>3, SoundFacts
  <2>5. Good(w) /\ v.block[b].as = "bytes"
    <3>1. /\ w.block = v.block /\ w.i_bitmap = v.i_bitmap /\ w.d_bitmap = v.d_bitmap \cup {b}
          /\ \A m \in Inos \ {ino} : w.inode[m] = v.inode[m]
          /\ w.inode[ino].indirect = v.inode[ino].indirect
          /\ w.inode[ino].direct = [v.inode[ino].direct EXCEPT ![i] = b]
          /\ v.inode[ino].direct[i] = Nil /\ b \in Blocks \ v.d_bitmap
      BY <1>2, <1>9, <1>10, <2>1, <2>2, <2>4
    <3> QED
      BY <1>2, <2>4, <3>1, LinkDirect
  <2>6. Sound(e, ino, g)
    BY <1>2, <1>9, <1>10, <2>3, <2>5 DEF Sound
  <2>7. b \in e.d_bitmap /\ b \in Blocks /\ e.block[b].as = "bytes"
    BY <1>2, <1>10, <2>1, <2>2, <2>5
  <2> QED
    BY <1>1, <1>5, <1>9, <1>10, <2>6, <2>7 DEF BlockFound
<1> QED
  BY <1>11, <1>12

\* The disk after an index block is entered or was there, and after a pointer in it is set.
WithIndex(d, f, k, x) ==
  IF f.indirect[k] # Nil \/ x = Nil THEN d ELSE [d EXCEPT !.d_bitmap = @ \cup {x}, !.block[x] = EmptyIndex]
WithPtr(d, x, j, b) == [d EXCEPT !.d_bitmap = @ \cup {b}, !.block[x].ptr[j] = b]

LEMMA WithIndexFacts ==
  ASSUME NEW d \in Disk, NEW x \in Blocks, NEW f, NEW k, f.indirect[k] = Nil, x # Nil,
         NEW e, e = WithIndex(d, f, k, x)
  PROVE  /\ e \in Disk /\ e.i_bitmap = d.i_bitmap /\ e.inode = d.inode
         /\ e.d_bitmap = d.d_bitmap \cup {x}
         /\ e.block = [d.block EXCEPT ![x] = EmptyIndex]
<1>1. /\ d.i_bitmap \in SUBSET Inos /\ d.d_bitmap \in SUBSET Blocks
      /\ d.inode \in [Inos -> Inode] /\ d.block \in [Blocks -> Block]
  BY DiskParts
<1> DEFINE K == [d.block EXCEPT ![x] = EmptyIndex]
           B == d.d_bitmap \cup {x}
<1>2. EmptyIndex \in Block
  BY InitTyped
<1>3. K \in [Blocks -> Block] /\ B \in SUBSET Blocks
  BY <1>1, <1>2
<1>4. e = [d EXCEPT !.d_bitmap = B, !.block = K]
  BY DEF WithIndex
<1> HIDE DEF K, B
<1>5. e = [i_bitmap |-> d.i_bitmap, d_bitmap |-> B, inode |-> d.inode, block |-> K]
  BY <1>4 DEF Disk
<1>6. [i_bitmap |-> d.i_bitmap, d_bitmap |-> B, inode |-> d.inode, block |-> K] \in Disk
  BY <1>1, <1>3, DiskMake
<1>7. e.i_bitmap = d.i_bitmap /\ e.inode = d.inode /\ e.d_bitmap = B /\ e.block = K
  BY <1>5
<1> QED
  BY <1>5, <1>6, <1>7 DEF K, B

LEMMA WithPtrFacts ==
  ASSUME NEW d \in Disk, NEW x \in Blocks, d.block[x].as = "index", NEW j \in IndexSlots, NEW b \in Blocks,
         NEW e, e = WithPtr(d, x, j, b)
  PROVE  /\ e \in Disk /\ e.i_bitmap = d.i_bitmap /\ e.inode = d.inode
         /\ e.d_bitmap = d.d_bitmap \cup {b}
         /\ e.block[x] = PtrSet(d.block[x].ptr, j, b)
         /\ \A y \in Blocks \ {x} : e.block[y] = d.block[y]
         /\ d.block[x].ptr[j] = b => e.block = d.block
<1>1. /\ d.i_bitmap \in SUBSET Inos /\ d.d_bitmap \in SUBSET Blocks
      /\ d.inode \in [Inos -> Inode] /\ d.block \in [Blocks -> Block]
  BY DiskParts
<1> DEFINE z == d.block[x]
           q == [z.ptr EXCEPT ![j] = b]
           y == [as |-> "index", ptr |-> q]
           K == [d.block EXCEPT ![x] = y]
           B == d.d_bitmap \cup {b}
<1>2. z \in Block /\ z.as = "index"
  BY <1>1
<1> HIDE DEF z
<1>3. z.ptr \in [IndexSlots -> Pointer] /\ z = [as |-> "index", ptr |-> z.ptr]
  BY <1>2, BlockParts, Zenon
<1>4. q \in [IndexSlots -> Pointer] /\ (z.ptr[j] = b => q = z.ptr)
  BY <1>3 DEF Pointer
<1>5. [z EXCEPT !.ptr[j] = b] = y
  BY <1>3
<1>6. z.ptr[j] = b => y = z
  BY <1>3, <1>4
<1> HIDE DEF q
<1>7. y \in Block
  BY <1>4, BlockMake
<1> HIDE DEF y
<1>8. K \in [Blocks -> Block] /\ B \in SUBSET Blocks /\ K[x] = y /\ \A s \in Blocks \ {x} : K[s] = d.block[s]
  BY <1>1, <1>7
<1>9. y = z => K = d.block
  BY <1>1 DEF z
<1>10. e = [d EXCEPT !.d_bitmap = B, !.block = K]
  BY <1>5 DEF WithPtr, z
<1> HIDE DEF K, B
<1>11. e = [i_bitmap |-> d.i_bitmap, d_bitmap |-> B, inode |-> d.inode, block |-> K]
  BY <1>10 DEF Disk
<1>12. [i_bitmap |-> d.i_bitmap, d_bitmap |-> B, inode |-> d.inode, block |-> K] \in Disk
  BY <1>1, <1>8, DiskMake
<1>13. e.i_bitmap = d.i_bitmap /\ e.inode = d.inode /\ e.d_bitmap = B /\ e.block = K
  BY <1>11
<1>14. e \in Disk /\ e.i_bitmap = d.i_bitmap /\ e.inode = d.inode /\ e.d_bitmap = d.d_bitmap \cup {b}
  BY <1>11, <1>12, <1>13 DEF B
<1>15. /\ e.block[x] = PtrSet(d.block[x].ptr, j, b)
       /\ \A s \in Blocks \ {x} : e.block[s] = d.block[s]
  BY <1>8, <1>13 DEF y, q, z, PtrSet
<1>16. d.block[x].ptr[j] = b => e.block = d.block
  BY <1>6, <1>9, <1>13 DEF z
<1> QED
  BY <1>14, <1>15, <1>16

LEMMA IndexSound ==
  ASSUME NEW d, NEW ino, NEW f, Sound(d, ino, f), NEW k \in IndirectSlots,
         NEW x, x = IF f.indirect[k] = Nil THEN get_avail_blkno(d) ELSE f.indirect[k],
         NEW e, e = WithIndex(d, f, k, x), NEW g, g = WithIndirect(f, k, x)
  PROVE  /\ Sound(e, ino, g) /\ e.inode = d.inode /\ Fewer(f, g) /\ g.size = f.size
         /\ x \in Pointer /\ g.indirect[k] = x
<1>2. PICK v : /\ v = InodeWritten(d, ino, f)
               /\ Good(v) /\ v \in Disk /\ ino \in Inos /\ IsFile(v, ino) /\ ino \in LiveIn(v)
               /\ FileInode(f) /\ f \in Inode /\ d \in Disk
               /\ v.i_bitmap = d.i_bitmap /\ v.d_bitmap = d.d_bitmap /\ v.block = d.block
               /\ v.inode[ino] = f /\ v.inode = Placed(d.inode, ino, f)
               /\ \A m \in Inos \ {ino} : v.inode[m] = d.inode[m]
  BY SoundParts
<1>3. x \in Pointer
  <2>1. f.indirect[k] \in Pointer
    BY <1>2, InodeParts
  <2>2. get_avail_blkno(d) \in Pointer
    BY AvailFacts DEF Pointer
  <2> QED
    BY <2>1, <2>2
<1>4. f.indirect[k] \in {Nil, x} /\ (f.indirect[k] # Nil => x = f.indirect[k])
  OBVIOUS
<1>5. f.indirect[k] = Nil => x = Nil \/ x \in Blocks \ d.d_bitmap
  BY AvailFacts
<1>9. /\ g \in Inode /\ FileInode(g) /\ g.size = f.size
      /\ g.direct = f.direct /\ g.indirect = [f.indirect EXCEPT ![k] = x] /\ g.indirect[k] = x
      /\ Fewer(f, g)
      /\ f.indirect[k] = x => Fewer(g, f)
  BY <1>2, <1>3, <1>4, PointerSet DEF FileInode
<1>11. CASE f.indirect[k] = x
  <2>1. e = d
    BY <1>11 DEF WithIndex
  <2>2. Sound(e, ino, g)
    BY <1>2, <1>9, <1>11, <2>1, SameSound
  <2> QED
    BY <1>3, <1>9, <2>1, <2>2
<1>12. CASE f.indirect[k] # x
  <2>1. f.indirect[k] = Nil /\ x \in Blocks \ d.d_bitmap /\ x # Nil
    BY <1>4, <1>5, <1>12
  <2>2. /\ e \in Disk /\ e.i_bitmap = d.i_bitmap /\ e.inode = d.inode
        /\ e.d_bitmap = d.d_bitmap \cup {x}
        /\ e.block = [d.block EXCEPT ![x] = EmptyIndex]
    BY <1>2, <2>1, WithIndexFacts
  <2> DEFINE w == InodeWritten(e, ino, g)
  <2>3. w = InodeWritten(e, ino, g)
    OBVIOUS
  <2> HIDE DEF w
  <2>4. /\ w \in Disk /\ w.i_bitmap = e.i_bitmap /\ w.d_bitmap = e.d_bitmap /\ w.block = e.block
        /\ w.inode[ino] = g /\ \A m \in Inos \ {ino} : w.inode[m] = e.inode[m]
        /\ IsFile(w, ino)
    <3>1. ino \in Inos
      BY <1>2
    <3>2. g \in Inode /\ FileInode(g)
      BY <1>9
    <3>3. e \in Disk
      BY <2>2
    <3> QED
      BY <2>3, <3>1, <3>2, <3>3, SoundFacts
  <2>5. Good(w)
    <3>1. /\ w.block = [v.block EXCEPT ![x] = EmptyIndex]
          /\ w.i_bitmap = v.i_bitmap /\ w.d_bitmap = v.d_bitmap \cup {x}
          /\ \A m \in Inos \ {ino} : w.inode[m] = v.inode[m]
          /\ w.inode[ino].direct = v.inode[ino].direct
          /\ w.inode[ino].indirect = [v.inode[ino].indirect EXCEPT ![k] = x]
          /\ v.inode[ino].indirect[k] = Nil /\ x \in Blocks \ v.d_bitmap
      BY <1>2, <1>9, <2>1, <2>2, <2>4
    <3> QED
      <4>1. Good(v) /\ IsFile(v, ino) /\ ino \in Inos
        BY <1>2
      <4>2. w \in Disk /\ IsFile(w, ino)
        BY <2>4
      <4> QED
        BY <3>1, <4>1, <4>2, LinkIndex, SMTT(30)
  <2>6. Sound(e, ino, g)
    BY <1>2, <1>9, <2>2, <2>3, <2>5 DEF Sound
  <2> QED
    BY <1>3, <1>9, <2>2, <2>6
<1> QED
  BY <1>11, <1>12

\* Pointer j of index block x, the file's k-th, leads to block b, in e also where it led nowhere.
PtrTaken(d, f, k, j, x, b, e) ==
  /\ x = f.indirect[k] /\ x # Nil
  /\ b = IF d.block[x].ptr[j] = Nil THEN get_avail_blkno(d) ELSE d.block[x].ptr[j]
  /\ b # Nil /\ e = WithPtr(d, x, j, b)

LEMMA PtrSound ==
  ASSUME NEW d, NEW ino, NEW f, Sound(d, ino, f), NEW k \in IndirectSlots, NEW j \in IndexSlots,
         NEW x, NEW b, NEW e, PtrTaken(d, f, k, j, x, b, e)
  PROVE  /\ Sound(e, ino, f) /\ e.inode = d.inode
         /\ b \in e.d_bitmap /\ b \in Blocks /\ e.block[b].as = "bytes"
<1>1. /\ x = f.indirect[k] /\ x # Nil
      /\ b = IF d.block[x].ptr[j] = Nil THEN get_avail_blkno(d) ELSE d.block[x].ptr[j]
      /\ b # Nil /\ e = WithPtr(d, x, j, b)
  BY Zenon DEF PtrTaken
<1>2. PICK v : /\ v = InodeWritten(d, ino, f)
               /\ Good(v) /\ v \in Disk /\ ino \in Inos /\ IsFile(v, ino) /\ ino \in LiveIn(v)
               /\ FileInode(f) /\ f \in Inode /\ d \in Disk
               /\ v.i_bitmap = d.i_bitmap /\ v.d_bitmap = d.d_bitmap /\ v.block = d.block
               /\ v.inode[ino] = f /\ v.inode = Placed(d.inode, ino, f)
               /\ \A m \in Inos \ {ino} : v.inode[m] = d.inode[m]
  BY SoundParts
<1>3. /\ x \in d.d_bitmap /\ x \in Blocks /\ d.block[x].as = "index"
      /\ d.block[x].ptr[j] # Nil => d.block[x].ptr[j] \in d.d_bitmap /\ d.block[d.block[x].ptr[j]].as = "bytes"
  <2>1. IndexBytes(d, x)
    BY <1>1, FileBytes
  <2> QED
    BY <2>1 DEF IndexBytes
<1>4. d.block[x].ptr[j] \in Pointer
  BY <1>2, <1>3, IndexTyped
<1>5. b \in Blocks /\ (d.block[x].ptr[j] = Nil => b \notin d.d_bitmap) /\ (d.block[x].ptr[j] # Nil => b = d.block[x].ptr[j])
  BY <1>1, <1>4, AvailFacts DEF Pointer
<1>6. /\ e \in Disk /\ e.i_bitmap = d.i_bitmap /\ e.inode = d.inode
      /\ e.d_bitmap = d.d_bitmap \cup {b}
      /\ e.block[x] = PtrSet(d.block[x].ptr, j, b)
      /\ \A y \in Blocks \ {x} : e.block[y] = d.block[y]
      /\ d.block[x].ptr[j] = b => e.block = d.block
  <2>1. d \in Disk /\ x \in Blocks /\ d.block[x].as = "index" /\ b \in Blocks
    BY <1>2, <1>3, <1>5
  <2> QED
    <3>1. e = WithPtr(d, x, j, b)
      BY <1>1
    <3> QED
      BY <2>1, <3>1, WithPtrFacts
<1>7. CASE d.block[x].ptr[j] # Nil
  <2>1. b = d.block[x].ptr[j] /\ b \in d.d_bitmap /\ d.block[b].as = "bytes"
    BY <1>3, <1>5, <1>7
  <2>2. e.block = d.block /\ e.d_bitmap = d.d_bitmap
    BY <1>6, <2>1
  <2>3. Sound(e, ino, f)
    BY <1>2, <1>6, <2>2, SameSound, FewerSelf
  <2> QED
    BY <1>5, <1>6, <2>1, <2>2, <2>3
<1>8. CASE d.block[x].ptr[j] = Nil
  <2>1. b \in Blocks \ d.d_bitmap
    BY <1>5, <1>8
  <2> DEFINE w == InodeWritten(e, ino, f)
  <2>3. w = InodeWritten(e, ino, f)
    OBVIOUS
  <2> HIDE DEF w
  <2>4. /\ w \in Disk /\ w.i_bitmap = e.i_bitmap /\ w.d_bitmap = e.d_bitmap /\ w.block = e.block
        /\ w.inode = Placed(e.inode, ino, f)
        /\ IsFile(w, ino)
    <3>1. ino \in Inos /\ f \in Inode /\ FileInode(f)
      BY <1>2
    <3>3. e \in Disk
      BY <1>6
    <3> QED
      BY <2>3, <3>1, <3>3, SoundFacts, SMTT(30)
  <2>5. Good(w) /\ v.block[b].as = "bytes" /\ b # x
    <3>1. /\ w.i_bitmap = v.i_bitmap /\ w.d_bitmap = v.d_bitmap \cup {b}
          /\ w.inode = v.inode
          /\ \A y \in Blocks \ {x} : w.block[y] = v.block[y]
          /\ w.block[x] = PtrSet(v.block[x].ptr, j, b)
          /\ x = v.inode[ino].indirect[k] /\ x # Nil
          /\ v.block[x].ptr[j] = Nil /\ b \in Blocks \ v.d_bitmap
      BY <1>1, <1>2, <1>6, <1>8, <2>1, <2>4
    <3> QED
      <4>1. Good(v) /\ IsFile(v, ino) /\ ino \in Inos
        BY <1>2
      <4>2. w \in Disk /\ IsFile(w, ino)
        BY <2>4
      <4> QED
        BY <3>1, <4>1, <4>2, LinkPtr, SMTT(30)
  <2>6. Sound(e, ino, f)
    BY <1>2, <1>6, <2>3, <2>5 DEF Sound
  <2>7. b \in e.d_bitmap /\ e.block[b].as = "bytes"
    <3>1. e.block[b] = d.block[b]
      BY <1>5, <1>6, <2>5
    <3>2. d.block[b].as = "bytes"
      BY <1>2, <2>5, Zenon
    <3>3. b \in e.d_bitmap
      BY <1>6
    <3> QED
      BY <3>1, <3>2, <3>3, Zenon
  <2> QED
    BY <1>5, <1>6, <2>6, <2>7
<1> QED
  BY <1>7, <1>8

LEMMA IndirectSound ==
  ASSUME NEW d, NEW ino, NEW f, Sound(d, ino, f), NEW i,
         (i - NumDirect) \div IndirectCap \in IndirectSlots, (i - NumDirect) % IndirectCap \in IndexSlots,
         NEW r, r = IndirectBlock(d, f, i)
  PROVE  BlockFound(d, ino, f, r)
<1> DEFINE k  == (i - NumDirect) \div IndirectCap
           j  == (i - NumDirect) % IndirectCap
           x  == IF f.indirect[k] = Nil THEN get_avail_blkno(d) ELSE f.indirect[k]
           d1 == WithIndex(d, f, k, x)
           b  == IF x = Nil THEN Nil
                 ELSE IF d1.block[x].ptr[j] = Nil THEN get_avail_blkno(d1) ELSE d1.block[x].ptr[j]
           g  == WithIndirect(f, k, x)
           e  == IF b = Nil THEN d1 ELSE WithPtr(d1, x, j, b)
<1>1. /\ r.ret = IF b = Nil THEN "ENOSPC" ELSE "ok"
      /\ r.disk = e /\ r.inode = g /\ r.blk = b
  BY DEF IndirectBlock, WithIndex, WithPtr, WithIndirect
<1>2. k \in IndirectSlots /\ j \in IndexSlots
  OBVIOUS
<1> HIDE DEF k, j
<1>3. /\ Sound(d1, ino, g) /\ d1.inode = d.inode /\ Fewer(f, g) /\ g.size = f.size
      /\ x \in Pointer /\ g.indirect[k] = x
  BY <1>2, IndexSound
<1>4. b = Nil => e = d1
  OBVIOUS
<1>5. b # Nil => /\ x # Nil /\ e = WithPtr(d1, x, j, b)
                 /\ b = IF d1.block[x].ptr[j] = Nil THEN get_avail_blkno(d1) ELSE d1.block[x].ptr[j]
  OBVIOUS
<1>6. r.ret \in Results /\ (r.ret = "ok" <=> b # Nil)
  BY <1>1 DEF Results
<1> HIDE DEF x, d1, b, g, e
<1>7. CASE b = Nil
  BY <1>1, <1>3, <1>4, <1>6, <1>7 DEF BlockFound
<1>8. CASE b # Nil
  <2>1. /\ Sound(e, ino, g) /\ e.inode = d1.inode
        /\ b \in e.d_bitmap /\ b \in Blocks /\ e.block[b].as = "bytes"
    <3>1. PtrTaken(d1, g, k, j, x, b, e)
      BY <1>3, <1>5, <1>8, Zenon DEF PtrTaken
    <3> QED
      BY <1>2, <1>3, <3>1, PtrSound
  <2> QED
    BY <1>1, <1>3, <1>6, <2>1 DEF BlockFound
<1> QED
  BY <1>7, <1>8

WithWords(d, b, val) == [d EXCEPT !.block[b].val = val]

LEMMA WordsSound ==
  ASSUME NEW d, NEW ino, NEW f, Sound(d, ino, f), NEW b \in Blocks, b \in d.d_bitmap, d.block[b].as = "bytes",
         NEW val \in [0..(BlockSize - 1) -> Word], NEW e, e = WithWords(d, b, val)
  PROVE  Sound(e, ino, f) /\ e.inode = d.inode
<1>1. PICK v : /\ v = InodeWritten(d, ino, f)
               /\ Good(v) /\ v \in Disk /\ ino \in Inos /\ IsFile(v, ino) /\ ino \in LiveIn(v)
               /\ FileInode(f) /\ f \in Inode /\ d \in Disk
               /\ v.i_bitmap = d.i_bitmap /\ v.d_bitmap = d.d_bitmap /\ v.block = d.block
               /\ v.inode[ino] = f /\ v.inode = Placed(d.inode, ino, f)
               /\ \A m \in Inos \ {ino} : v.inode[m] = d.inode[m]
  BY SoundParts
<1>2. /\ d.i_bitmap \in SUBSET Inos /\ d.d_bitmap \in SUBSET Blocks
      /\ d.inode \in [Inos -> Inode] /\ d.block \in [Blocks -> Block]
  BY <1>1, DiskParts
<1> DEFINE z == d.block[b]
           y == [as |-> "bytes", val |-> val]
           K == [d.block EXCEPT ![b] = y]
<1>3. z \in Block /\ z.as = "bytes"
  BY <1>2
<1> HIDE DEF z
<1>4. z = [as |-> "bytes", val |-> z.val]
  BY <1>3, BlockParts, Zenon
<1>5. [z EXCEPT !.val = val] = y
  BY <1>4
<1>6. y \in Block /\ y.as = "bytes"
  BY BlockMake
<1> HIDE DEF y
<1>7. K \in [Blocks -> Block] /\ K[b] = y /\ \A s \in Blocks \ {b} : K[s] = d.block[s]
  BY <1>2, <1>6
<1>8. e = [d EXCEPT !.block = K]
  BY <1>5 DEF WithWords, z
<1> HIDE DEF K
<1>9. e = [i_bitmap |-> d.i_bitmap, d_bitmap |-> d.d_bitmap, inode |-> d.inode, block |-> K]
  BY <1>1, <1>8 DEF Disk
<1>10. [i_bitmap |-> d.i_bitmap, d_bitmap |-> d.d_bitmap, inode |-> d.inode, block |-> K] \in Disk
  BY <1>2, <1>7, DiskMake
<1>11. /\ e \in Disk /\ e.i_bitmap = d.i_bitmap /\ e.d_bitmap = d.d_bitmap /\ e.inode = d.inode
       /\ e.block[b].as = "bytes" /\ \A s \in Blocks \ {b} : e.block[s] = d.block[s]
  <2>1. e \in Disk
    BY <1>9, <1>10
  <2>2. e.i_bitmap = d.i_bitmap /\ e.d_bitmap = d.d_bitmap /\ e.inode = d.inode /\ e.block = K
    BY <1>9
  <2> QED
    BY <1>6, <1>7, <2>1, <2>2
<1> DEFINE w == InodeWritten(e, ino, f)
<1>12. w = InodeWritten(e, ino, f)
  OBVIOUS
<1> HIDE DEF w
<1>13. /\ w \in Disk /\ w.i_bitmap = e.i_bitmap /\ w.d_bitmap = e.d_bitmap /\ w.block = e.block
       /\ w.inode = Placed(e.inode, ino, f)
  <2>1. ino \in Inos /\ f \in Inode /\ FileInode(f)
    BY <1>1
  <2>2. e \in Disk
    BY <1>11
  <2> QED
    BY <1>12, <2>1, <2>2, SoundFacts
<1>14. Good(w)
  <2>1. /\ w.inode = v.inode /\ w.i_bitmap = v.i_bitmap /\ w.d_bitmap = v.d_bitmap
        /\ v.block[b].as = "bytes" /\ w.block[b].as = "bytes"
        /\ \A s \in Blocks \ {b} : w.block[s] = v.block[s]
        /\ b \in v.d_bitmap
    BY <1>1, <1>11, <1>13
  <2>2. Good(v) /\ IsFile(v, ino) /\ ino \in Inos /\ w \in Disk
    BY <1>1, <1>13
  <2> QED
    BY <2>1, <2>2, DataGood
<1> QED
  BY <1>1, <1>11, <1>12, <1>14 DEF Sound

\* What the two writers of the inode leave: the round that fails, and the last one.
LEMMA SoundFinish ==
  ASSUME NEW d, NEW ino, NEW f, Sound(d, ino, f), IsFile(d, ino), Fewer(d.inode[ino], f)
  PROVE  Good(d)
<1>1. PICK v : /\ Good(v) /\ v \in Disk /\ ino \in Inos /\ IsFile(v, ino)
               /\ d \in Disk
               /\ v.i_bitmap = d.i_bitmap /\ v.d_bitmap = d.d_bitmap /\ v.block = d.block
               /\ v.inode[ino] = f
               /\ \A m \in Inos \ {ino} : v.inode[m] = d.inode[m]
  BY SoundParts
<1> QED
  BY <1>1, FewerGood

\* The file's block for a round of a write.
LEMMA FileBlockSound ==
  ASSUME NEW d, NEW ino, NEW f, Sound(d, ino, f), NEW i \in Nat, i < NumDirect + NumIndirect * IndirectCap,
         NEW r, r = FileBlock(d, f, i)
  PROVE  BlockFound(d, ino, f, r)
<1>1. NumDirect \in Nat /\ NumIndirect \in Nat /\ IndirectCap \in Nat \ {0}
  BY Constants, Zenon
<1>2. CASE i < NumDirect
  <2>1. i \in DirectSlots
    BY <1>1, <1>2 DEF DirectSlots
  <2>2. r = DirectBlock(d, f, i)
    BY <1>2 DEF FileBlock
  <2> QED
    BY <2>1, <2>2, DirectSound
<1>3. CASE ~(i < NumDirect)
  <2> DEFINE a == i - NumDirect
  <2>1. a \in Nat /\ a < NumIndirect * IndirectCap
    <3>1. NumIndirect * IndirectCap \in Nat
      BY <1>1
    <3> QED
      BY <1>1, <1>3, <3>1
  <2> HIDE DEF a
  <2>2. a \div IndirectCap < NumIndirect
    BY <1>1, <2>1, DivBelow
  <2>3. a \div IndirectCap \in Int /\ a \div IndirectCap >= 0 /\ a % IndirectCap \in 0..(IndirectCap - 1)
    <3>1. a \in Int /\ a >= 0
      BY <2>1
    <3> QED
      BY <1>1, <3>1, DivFacts
  <2>4. a \div IndirectCap \in IndirectSlots /\ a % IndirectCap \in IndexSlots
    <3> DEFINE q == a \div IndirectCap
    <3>1. q < NumIndirect /\ q \in Int /\ q >= 0
      BY <2>2, <2>3
    <3> HIDE DEF q
    <3>2. q \in 0..(NumIndirect - 1)
      BY <1>1, <3>1
    <3> QED
      BY <2>3, <3>2 DEF q, IndirectSlots, IndexSlots
  <2>5. r = IndirectBlock(d, f, i)
    BY <1>3 DEF FileBlock
  <2> QED
    BY <2>4, <2>5, IndirectSound DEF a
<1> QED
  BY <1>2, <1>3

-----------------------------------------------------------------------------
\* Writes.

\* What holds of a write before each of its rounds.
Rounds == [path : Paths, ino : Inos, inode : Inode, off : 0..(FileWords - 1),
           words : Requests, done : 0..MaxRequest]

WriteSound(c) ==
  /\ c \in Rounds /\ Sound(disk, c.ino, c.inode) /\ IsFile(disk, c.ino)
  /\ Fewer(disk.inode[c.ino], c.inode)
  /\ c.inode.size + Len(c.words) <= MaxSize
  /\ c.off + Len(c.words) <= FileWords
  /\ c.off \div BlockSize + c.done <= (c.off + Len(c.words) - 1) \div BlockSize

NextRound(c, f) == [c EXCEPT !.done = @ + 1, !.inode = f]

LEMMA NextRoundFacts ==
  ASSUME NEW c \in Rounds, NEW f \in Inode, c.done + 1 \in 1..MaxRequest, NEW n, n = NextRound(c, f)
  PROVE  /\ n \in Write
         /\ n.path = c.path /\ n.ino = c.ino /\ n.inode = f /\ n.off = c.off /\ n.words = c.words
         /\ n.done = c.done + 1
BY DEF Rounds, Write, NextRound

LEMMA FewerTrans ==
  ASSUME NEW f, NEW g, NEW h, Fewer(f, g), Fewer(g, h)
  PROVE  Fewer(f, h)
BY DEF Fewer

LEMMA RequestLen ==
  ASSUME NEW w \in Requests
  PROVE  Len(w) \in 1..MaxRequest
<1>1. PICK n \in 1..MaxRequest : w \in [1..n -> Data]
  BY DEF Requests
<1>2. n \in Nat
  <2>1. MaxRequest \in Nat
    BY Constants, Zenon
  <2> QED
    BY <2>1
<1> QED
  BY <1>1, <1>2

\* The block of a round is one of the file's, and a round that is not the last has a next one.
LEMMA RoundFacts ==
  ASSUME NEW c, WriteSound(c), NEW i, i = c.off \div BlockSize + c.done
  PROVE  /\ i \in Nat /\ i < NumDirect + NumIndirect * IndirectCap
         /\ c.off + Len(c.words) - 1 \notin Piece(c.off, Len(c.words), c.done) =>
              /\ c.off \div BlockSize + (c.done + 1) <= (c.off + Len(c.words) - 1) \div BlockSize
              /\ c.done + 1 \in 1..MaxRequest
<1> DEFINE L == Len(c.words)
           off == c.off
           done == c.done
           last == off + L - 1
           q == off \div BlockSize
           z == last \div BlockSize
           N == NumDirect + NumIndirect * IndirectCap
<1>1. BlockSize \in Nat \ {0} /\ MaxRequest \in Nat /\ NumDirect \in Nat /\ NumIndirect \in Nat /\ IndirectCap \in Nat \ {0}
  BY Constants, Zenon
<1>2. N \in Nat
  BY <1>1
<1>3. FileWords = N * BlockSize
  BY DEF FileWords
<1>4. c.words \in Requests /\ off \in 0..(FileWords - 1) /\ done \in 0..MaxRequest
      /\ off + L <= FileWords /\ q + done <= z
  BY DEF WriteSound, Rounds
<1>5. L \in 1..MaxRequest
  BY <1>4, RequestLen
<1> HIDE DEF N, L
<1>6. FileWords \in Nat
  BY <1>1, <1>2, <1>3
<1>7. off \in Nat /\ done \in Nat /\ L \in Nat /\ L >= 1 /\ L <= MaxRequest /\ last \in Nat /\ last < N * BlockSize
  BY <1>1, <1>3, <1>4, <1>5, <1>6
<1> HIDE DEF off, done, last
<1>8. q \in Int /\ q >= 0 /\ z \in Int
  <2>1. off \in Int /\ off >= 0 /\ last \in Int
    BY <1>7
  <2> QED
    BY <1>1, <2>1, DivFacts
<1>9. z < N
  BY <1>1, <1>2, <1>7, DivBelow
<1>10. z <= q + (L - 1)
  <2>1. L - 1 \in Nat /\ last = off + (L - 1)
    BY <1>7 DEF last
  <2> QED
    BY <1>1, <1>7, <2>1, DivNext
<1>11. i = q + done
  BY DEF off, done
<1>12. last \notin Piece(off, L, done) => z # q + done
  <2>1. last \in off..(off + L - 1)
    BY <1>7 DEF last
  <2> QED
    BY <2>1 DEF Piece
<1> HIDE DEF q, z
<1>13. i \in Nat /\ i < N
  BY <1>2, <1>4, <1>7, <1>8, <1>9, <1>11
<1>14. last \notin Piece(off, L, done) => q + (done + 1) <= z /\ done + 1 \in 1..MaxRequest
  BY <1>1, <1>4, <1>7, <1>8, <1>10, <1>12
<1> QED
  BY <1>13, <1>14 DEF q, z, N, L, off, done, last

LEMMA WriteRoundKeeps ==
  ASSUME TypeOK, fs = "up", NEW c, WriteSound(c), WriteRound(c)
  PROVE  IInv'
<1> DEFINE i    == c.off \div BlockSize + c.done
           r    == FileBlock(disk, c.inode, i)
           val  == Merged(r.disk.block[r.blk].val, c, i)
           d    == WithWords(r.disk, r.blk, val)
           L    == Len(c.words)
           last == c.off + L - 1 \in Piece(c.off, L, c.done)
           g    == [r.inode EXCEPT !.size = @ + L]
           e    == InodeWritten(d, c.ino, g)
<1>1. \/ r.ret # "ok" /\ Finish([ret |-> r.ret, disk |-> r.disk])
      \/ r.ret = "ok" /\ last /\ Finish(Done(e))
      \/ /\ r.ret = "ok" /\ ~last
         /\ disk' = d /\ call' = NextRound(c, r.inode)
         /\ ret' = "ok" /\ UNCHANGED <<fs, client>>
  BY DEF WriteRound, WithWords, InodeWritten, NextRound
<1>2. /\ c \in Rounds /\ Sound(disk, c.ino, c.inode) /\ IsFile(disk, c.ino)
      /\ Fewer(disk.inode[c.ino], c.inode)
      /\ c.inode.size + L <= MaxSize /\ c.off + L <= FileWords
  BY DEF WriteSound
<1>3. i \in Nat /\ i < NumDirect + NumIndirect * IndirectCap
  BY RoundFacts
<1>4. ~last => /\ c.off \div BlockSize + (c.done + 1) <= (c.off + L - 1) \div BlockSize
               /\ c.done + 1 \in 1..MaxRequest
  BY RoundFacts
<1>5. i = c.off \div BlockSize + c.done
  OBVIOUS
<1>6. L \in Nat /\ c.words \in Requests /\ c.off \in Nat /\ c.done \in Nat
  <2>1. c.words \in Requests /\ c.off \in 0..(FileWords - 1) /\ c.done \in 0..MaxRequest
    BY <1>2 DEF Rounds
  <2>2. L \in 1..MaxRequest
    BY <2>1, RequestLen
  <2> QED
    BY <2>1, <2>2
<1> HIDE DEF last, i, L
<1>7. BlockFound(disk, c.ino, c.inode, r)
  BY <1>2, <1>3, FileBlockSound
<1> HIDE DEF r
<1>8. /\ Sound(r.disk, c.ino, r.inode) /\ r.disk.inode = disk.inode
      /\ Fewer(c.inode, r.inode) /\ r.inode.size = c.inode.size
      /\ r.ret \in Results
      /\ r.ret = "ok" => r.blk \in r.disk.d_bitmap /\ r.blk \in Blocks /\ r.disk.block[r.blk].as = "bytes"
  BY <1>7 DEF BlockFound
<1>9. Fewer(disk.inode[c.ino], r.inode) /\ Fewer(r.disk.inode[c.ino], r.inode) /\ IsFile(r.disk, c.ino)
  BY <1>2, <1>8, FewerTrans DEF IsFile, LiveIn
<1>10. r.disk \in Disk /\ r.inode \in Inode /\ FileInode(r.inode)
  BY <1>8 DEF Sound
<1>11. CASE r.ret # "ok"
  <2>1. Good(r.disk)
    BY <1>8, <1>9, SoundFinish
  <2> DEFINE s == [ret |-> r.ret, disk |-> r.disk]
  <2>2. Finish(s)
    BY <1>1, <1>11
  <2>3. s.ret = r.ret /\ s.disk = r.disk
    OBVIOUS
  <2> HIDE DEF s
  <2> QED
    BY <1>8, <2>1, <2>2, <2>3, FinishKeeps
<1>12. CASE r.ret = "ok"
  <2>1. Sound(d, c.ino, r.inode) /\ d.inode = disk.inode
    <3>1. r.disk.block[r.blk].val \in [0..(BlockSize - 1) -> Word]
      <4>1. r.disk.block[r.blk] \in Block
        BY <1>8, <1>10, <1>12, DiskParts
      <4> QED
        BY <1>8, <1>12, <4>1, BlockParts, Zenon
    <3>2. val \in [0..(BlockSize - 1) -> Word]
      BY <1>5, <1>6, <3>1, MergedTyped
    <3>3. d = WithWords(r.disk, r.blk, val)
      OBVIOUS
    <3> HIDE DEF d, val
    <3> QED
      BY <1>8, <1>12, <3>2, <3>3, WordsSound
  <2> HIDE DEF d
  <2>2. d \in Disk
    BY <2>1 DEF Sound
  <2>3. CASE last
    <3>1. g \in Inode /\ FileInode(g) /\ Fewer(g, r.inode)
      <4>1. r.inode.size + L \in 0..(MaxSize + MaxEntries)
        <5>1. MaxSize \in Nat /\ MaxEntries \in Nat
          BY Constants, Zenon
        <5>2. r.inode.size \in 0..(MaxSize + MaxEntries)
          BY <1>10, InodeParts
        <5> QED
          BY <1>2, <1>6, <1>8, <5>1, <5>2
      <4>2. g \in Inode /\ g.valid = r.inode.valid /\ g.type = r.inode.type
            /\ g.direct = r.inode.direct /\ g.indirect = r.inode.indirect
        BY <1>10, <4>1 DEF Inode
      <4> QED
        BY <1>10, <4>2 DEF Fewer, FileInode
    <3> HIDE DEF g
    <3>2. Sound(d, c.ino, g)
      BY <2>1, <2>2, <3>1, SameSound
    <3>3. Good(e)
      BY <3>2 DEF Sound
    <3>4. Finish(Done(e))
      BY <1>1, <1>12, <2>3
    <3> HIDE DEF e
    <3>5. Done(e).ret = "ok" /\ Done(e).disk = e
      BY DEF Done
    <3> QED
      BY <3>3, <3>4, <3>5, FinishKeeps DEF Results
  <2>4. CASE ~last
    <3> DEFINE n == NextRound(c, r.inode)
    <3>1. disk' = d /\ call' = n /\ ret' = "ok" /\ fs' = fs /\ client' = client
      BY <1>1, <1>12, <2>4
    <3>2. /\ n \in Write
          /\ n.ino = c.ino /\ n.inode = r.inode /\ n.off = c.off /\ n.words = c.words /\ n.done = c.done + 1
      BY <1>2, <1>4, <1>10, <2>4, NextRoundFacts
    <3> HIDE DEF n
    <3>3. TypeOK'
      BY <2>2, <3>1, <3>2 DEF TypeOK
    <3>4. IsFile(d, c.ino) /\ Fewer(d.inode[c.ino], r.inode)
      BY <1>2, <1>9, <2>1 DEF IsFile, LiveIn
    <3>5. CASE n = NoCall
      <4>1. Good(d)
        BY <2>1, <3>4, SoundFinish
      <4> QED
        BY <3>1, <3>3, <3>5, <4>1 DEF IInv, Virtual, CallKept
    <3>6. CASE n # NoCall
      <4> DEFINE v == InodeWritten(d, c.ino, r.inode)
      <4>1. Virtual' = v
        BY <3>1, <3>2, <3>6 DEF Virtual, InodeWritten
      <4>2. Good(v) /\ IsFile(v, c.ino)
        <5>1. v = InodeWritten(d, c.ino, r.inode)
          OBVIOUS
        <5> HIDE DEF v
        <5> QED
          BY <2>1, <5>1, SoundParts
      <4> HIDE DEF v
      <4>3. CallKept'
        <5>1. n.inode.size + Len(n.words) <= MaxSize /\ n.off + Len(n.words) <= FileWords
          BY <1>2, <1>8, <3>2 DEF L
        <5>2. n.off \div BlockSize + n.done <= (n.off + Len(n.words) - 1) \div BlockSize
          BY <1>4, <2>4, <3>2 DEF L
        <5>3. IsFile(d, n.ino) /\ IsFile(v, n.ino) /\ Fewer(d.inode[n.ino], n.inode)
          BY <3>2, <3>4, <4>2
        <5> QED
          BY <3>1, <4>1, <5>1, <5>2, <5>3 DEF CallKept
      <4> QED
        BY <3>1, <3>3, <4>1, <4>2, <4>3 DEF IInv
    <3> QED
      BY <3>5, <3>6
  <2> QED
    BY <2>3, <2>4
<1> QED
  BY <1>11, <1>12

LEMMA DivOrder ==
  ASSUME NEW a \in Nat, NEW b \in Nat, NEW B \in Nat \ {0}, a <= b
  PROVE  a \div B <= b \div B
<1> DEFINE q == b \div B
           m == b % B
           z == a \div B
<1>1. q \in Int /\ m \in 0..(B - 1) /\ b = B * q + m
  BY DivFacts
<1>2. z \in Int
  BY DivFacts
<1> HIDE DEF q, m
<1>3. (q + 1) * B = B * q + B
  BY <1>1
<1>4. a < (q + 1) * B
  BY <1>1, <1>3
<1>5. q + 1 \in Int
  BY <1>1
<1>6. z < q + 1
  BY <1>4, <1>5, DivBelow
<1> HIDE DEF z
<1>7. z <= q
  BY <1>1, <1>2, <1>6
<1> QED
  BY <1>7 DEF z, q

\* A file of a good disk may be written.
LEMMA FileSound ==
  ASSUME NEW d, Good(d), NEW ino \in Inos, IsFile(d, ino), NEW f, f = d.inode[ino]
  PROVE  Sound(d, ino, f) /\ Fewer(f, f)
<1>1. d \in Disk
  BY DEF Good
<1>2. f \in Inode
  BY <1>1, DiskParts
<1>3. FileInode(f)
  BY DEF IsFile, LiveIn, FileInode
<1> DEFINE v == InodeWritten(d, ino, f)
<1>4. v = InodeWritten(d, ino, f)
  OBVIOUS
<1> HIDE DEF v
<1>5. /\ v \in Disk /\ v.i_bitmap = d.i_bitmap /\ v.d_bitmap = d.d_bitmap /\ v.block = d.block
      /\ v.inode[ino] = f /\ \A m \in Inos \ {ino} : v.inode[m] = d.inode[m]
      /\ IsFile(v, ino)
  BY <1>1, <1>2, <1>3, <1>4, SoundFacts
<1>6. Fewer(f, f)
  BY <1>2, FewerSelf
<1>7. Fewer(v.inode[ino], d.inode[ino])
  BY <1>5, <1>6
<1>8. Good(v)
  BY <1>5, <1>7, FewerGood
<1> QED
  BY <1>1, <1>2, <1>3, <1>4, <1>6, <1>8 DEF Sound

\* The write of w to p, before its first round.
FirstRound(p, ino, f, off, words) ==
  [path |-> p, ino |-> ino, inode |-> f, off |-> off, words |-> words, done |-> 0]

LEMMA FirstRoundSound ==
  ASSUME TypeOK, Good(disk), NEW p \in Paths, NEW ino \in Inos, IsFile(disk, ino),
         NEW f, f = disk.inode[ino], NEW off \in Nat, NEW words \in Requests,
         f.size + Len(words) <= MaxSize, off + Len(words) <= FileWords,
         NEW c, c = FirstRound(p, ino, f, off, words)
  PROVE  WriteSound(c)
<1>1. Sound(disk, ino, f) /\ Fewer(f, f)
  BY FileSound
<1> DEFINE L == Len(words)
<1>2. BlockSize \in Nat \ {0} /\ MaxRequest \in Nat
  BY Constants, Zenon
<1>3. L \in 1..MaxRequest
  BY RequestLen
<1>4. FileWords \in Int
  <2>1. NumDirect \in Nat /\ NumIndirect \in Nat /\ IndirectCap \in Nat /\ BlockSize \in Nat
    BY Constants, Zenon
  <2>2. NumDirect + NumIndirect * IndirectCap \in Nat
    BY <2>1
  <2> QED
    BY <2>1, <2>2 DEF FileWords
<1>5. off \in 0..(FileWords - 1) /\ 0 \in 0..MaxRequest
  BY <1>2, <1>3, <1>4
<1>6. f \in Inode
  BY <1>1 DEF Sound
<1>7. /\ c.path = p /\ c.ino = ino /\ c.inode = f /\ c.off = off /\ c.words = words /\ c.done = 0
      /\ c \in Rounds
  BY <1>5, <1>6 DEF FirstRound, Rounds
<1>8. off \div BlockSize + 0 <= (off + L - 1) \div BlockSize
  <2> DEFINE last == off + L - 1
  <2>1. last \in Nat /\ off <= last
    BY <1>2, <1>3
  <2> HIDE DEF last
  <2>2. off \div BlockSize <= last \div BlockSize
    BY <1>2, <2>1, DivOrder
  <2>3. off \div BlockSize \in Int
    BY <1>2, DivFacts
  <2> QED
    BY <2>2, <2>3 DEF last
<1> QED
  BY <1>1, <1>7, <1>8 DEF WriteSound

LEMMA WriteKeeps ==
  ASSUME IInv, NEW p \in client.paths, NEW w \in client.writes, rufs_write(p, w.off, w.words)
  PROVE  IInv'
<1> DEFINE ino   == get_node_by_path(disk, p)
           f     == disk.inode[ino]
           off   == w.off
           words == w.words
           c     == FirstRound(p, ino, f, off, words)
<1>1. /\ Ready /\ Type(p) # "dir"
      /\ ino # Nil => f.size + Len(words) <= MaxSize
      /\ \/ ino = Nil /\ Finish(Fail(disk, "ENOENT"))
         \/ ino # Nil /\ Finish(Fail(disk, "short"))
         \/ ino # Nil /\ WriteRound(c)
  BY DEF rufs_write, FirstRound
<1>2. TypeOK /\ Good(disk) /\ fs = "up"
  BY <1>1, ReadyFacts DEF IInv
<1>3. p \in Paths /\ p \in Seq(Names)
  BY <1>2, PathFacts
<1>4. ASSUME NEW e \in Results, Finish(Fail(disk, e)) PROVE IInv'
  <2> DEFINE r == Fail(disk, e)
  <2>1. Finish(r) /\ r.ret = e /\ r.disk = disk
    BY <1>4 DEF Fail
  <2> HIDE DEF r
  <2> QED
    BY <1>2, <2>1, FinishKeeps
<1>5. CASE ino # Nil /\ WriteRound(c)
  <2>1. off \in Nat /\ words \in Requests /\ off + Len(words) <= FileWords
    BY <1>2, RufsAssumption DEF TypeOK
  <2>2. ino \in Inos /\ IsFile(disk, ino)
    <3>1. ino \in LiveIn(disk)
      BY <1>2, <1>3, <1>5, LookupLive
    <3>2. Type(p) = "file"
      BY <1>1, <1>2, <1>3, <1>5, TypeFacts
    <3> QED
      BY <1>2, <1>3, <3>1, <3>2, TypeFacts DEF LiveIn
  <2>3. f = disk.inode[ino] /\ c = FirstRound(p, ino, f, off, words) /\ f.size + Len(words) <= MaxSize
    BY <1>1, <1>5
  <2> HIDE DEF c, f, ino, off, words
  <2>4. WriteSound(c)
    BY <1>2, <1>3, <2>1, <2>2, <2>3, FirstRoundSound
  <2> QED
    BY <1>2, <1>5, <2>4, WriteRoundKeeps
<1>6. "ENOENT" \in Results /\ "short" \in Results
  BY DEF Results
<1> QED
  BY <1>1, <1>4, <1>5, <1>6, Zenon

\* Before a round of the write under way, its inode may be written.
LEMMA CallSound ==
  ASSUME IInv, fs = "up", call # NoCall
  PROVE  WriteSound(call) /\ call \in Write
<1>1. /\ TypeOK /\ Good(Virtual) /\ IsFile(disk, call.ino) /\ IsFile(Virtual, call.ino)
      /\ Fewer(disk.inode[call.ino], call.inode)
      /\ call.inode.size + Len(call.words) <= MaxSize
      /\ call.off + Len(call.words) <= FileWords
      /\ call.off \div BlockSize + call.done <= (call.off + Len(call.words) - 1) \div BlockSize
  BY DEF IInv, CallKept
<1>2. disk \in Disk /\ call \in Write
  BY <1>1 DEF TypeOK
<1>3. call \in Rounds /\ call.ino \in Inos /\ call.inode \in Inode
  <2>1. MaxRequest \in Nat
    BY Constants, Zenon
  <2>2. 1..MaxRequest \subseteq 0..MaxRequest
    BY <2>1
  <2> QED
    BY <1>2, <2>2 DEF Write, Rounds
<1> DEFINE v == InodeWritten(disk, call.ino, call.inode)
<1>4. Virtual = v
  BY DEF Virtual, InodeWritten
<1>5. v.inode[call.ino] = call.inode
  <2>1. v = InodeWritten(disk, call.ino, call.inode)
    OBVIOUS
  <2> HIDE DEF v
  <2> QED
    BY <1>2, <1>3, <2>1, InodeSet
<1>6. FileInode(call.inode)
  <2> HIDE DEF v
  <2>1. IsFile(v, call.ino)
    BY <1>1, <1>4
  <2> QED
    BY <1>5, <2>1 DEF IsFile, LiveIn, FileInode
<1>7. Sound(disk, call.ino, call.inode)
  BY <1>1, <1>2, <1>3, <1>4, <1>6 DEF Sound
<1> QED
  BY <1>1, <1>2, <1>3, <1>7 DEF WriteSound

\* The disk itself is good also during a write: the inode on it has fewer pointers.
LEMMA DiskGood ==
  ASSUME IInv, fs # "new"
  PROVE  Good(disk)
<1>1. CASE call = NoCall
  BY <1>1 DEF IInv, Virtual
<1>2. CASE call # NoCall
  <2>1. fs = "up"
    BY <1>2 DEF IInv, CallKept
  <2>2. WriteSound(call)
    BY <1>2, <2>1, CallSound
  <2>3. Sound(disk, call.ino, call.inode) /\ IsFile(disk, call.ino) /\ Fewer(disk.inode[call.ino], call.inode)
    BY <2>2 DEF WriteSound
  <2> QED
    BY <2>3, SoundFinish
<1> QED
  BY <1>1, <1>2

LEMMA WriteNextKeeps ==
  ASSUME IInv, WriteNext
  PROVE  IInv'
<1>1. fs = "up" /\ call # NoCall /\ WriteRound(call)
  BY DEF WriteNext
<1>2. WriteSound(call) /\ TypeOK
  BY <1>1, CallSound DEF IInv
<1> QED
  BY <1>1, <1>2, WriteRoundKeeps

-----------------------------------------------------------------------------
\* Mounting.

\* The disk that mkfs writes: one directory without entries.
MadeRoot == [init_inode("dir") EXCEPT !.direct[0] = 0]
Made(d) == /\ d.i_bitmap = {0} /\ d.d_bitmap = {0}
           /\ d.inode[0] = MadeRoot /\ d.block[0] = init_dirent_table(0, 0)
           /\ \A n \in Inos \ {0} : d.inode[n].valid = 0 /\ d.inode[n].type = "none"
           /\ \A b \in Blocks \ {0} : d.block[b] = Zero

LEMMA MkfsFacts == rufs_mkfs \in Disk /\ Made(rufs_mkfs)
<1> DEFINE z == [valid |-> 0, type |-> "none", size |-> 0,
                 direct |-> [i \in 0..(NumDirect - 1) |-> 0],
                 indirect |-> [k \in 0..(NumIndirect - 1) |-> 0]]
           I == [n \in Inos |-> z]
           K == [b \in Blocks |-> Zero]
           J == [I EXCEPT ![0] = MadeRoot]
           M == [K EXCEPT ![0] = init_dirent_table(0, 0)]
<1>1. 0 \in Inos /\ 0 \in Blocks
  BY Constants, Zenon DEF Root
<1>2. z \in Inode
  <2>1. MaxSize \in Nat /\ MaxEntries \in Nat
    BY Constants, Zenon
  <2> QED
    BY <1>1, <2>1 DEF Inode, Pointer
<1>3. z.valid = 0 /\ z.type = "none"
  OBVIOUS
<1>4. MadeRoot \in Inode /\ init_dirent_table(0, 0) \in Block /\ Zero \in Block
  BY <1>1, InitTyped DEF MadeRoot
<1>5. rufs_mkfs = [i_bitmap |-> {0}, d_bitmap |-> {0}, inode |-> J, block |-> M]
  <2>1. ZeroDisk = [i_bitmap |-> {}, d_bitmap |-> {}, inode |-> I, block |-> K]
    BY DEF ZeroDisk
  <2> DEFINE g == MadeRoot
             t == init_dirent_table(0, 0)
             w == ZeroDisk
  <2>2. rufs_mkfs = [w EXCEPT !.i_bitmap = {0}, !.d_bitmap = {0}, !.inode[0] = g, !.block[0] = t]
    BY DEF rufs_mkfs, MadeRoot
  <2>3. J = [I EXCEPT ![0] = g] /\ M = [K EXCEPT ![0] = t]
    OBVIOUS
  <2> HIDE DEF I, K, J, M, g, t, w, z
  <2> QED
    BY <2>1, <2>2, <2>3 DEF w
<1> HIDE DEF z
<1>6. J \in [Inos -> Inode] /\ J[0] = MadeRoot /\ \A n \in Inos \ {0} : J[n] = z
  BY <1>1, <1>2, <1>4
<1>7. M \in [Blocks -> Block] /\ M[0] = init_dirent_table(0, 0) /\ \A b \in Blocks \ {0} : M[b] = Zero
  BY <1>1, <1>4
<1> HIDE DEF J, M
<1>8. rufs_mkfs \in Disk
  BY <1>1, <1>5, <1>6, <1>7, DiskMake
<1>9. Made(rufs_mkfs)
  BY <1>3, <1>5, <1>6, <1>7 DEF Made
<1> QED
  BY <1>8, <1>9

LEMMA MadeGood ==
  ASSUME NEW d \in Disk, Made(d)
  PROVE  Good(d) /\ UsedSlots(d, 0) = {}
<1>0. 0 \in Inos /\ 0 \in Blocks /\ Nil \notin Blocks /\ 0 \in DirectSlots /\ MaxEntries \in Nat /\ MaxEntries >= 2
      /\ 0 # Nil
  BY Constants, Zenon DEF Root
<1>1. /\ d.inode[0].valid = 1 /\ d.inode[0].type = "dir" /\ d.inode[0].size = 0
      /\ d.inode[0].direct[0] = 0 /\ \A i \in DirectSlots \ {0} : d.inode[0].direct[i] = Nil
      /\ \A k \in IndirectSlots : d.inode[0].indirect[k] = Nil
  <2> DEFINE f == init_inode("dir")
  <2>1. f = [valid |-> 1, type |-> "dir", size |-> 0,
             direct |-> [i \in DirectSlots |-> Nil], indirect |-> [k \in IndirectSlots |-> Nil]]
    BY DEF init_inode, DirectSlots, IndirectSlots
  <2>2. d.inode[0] = [f EXCEPT !.direct[0] = 0]
    BY DEF Made, MadeRoot
  <2> HIDE DEF f
  <2> QED
    BY <1>0, <2>1, <2>2
<1>2. LiveIn(d) = {0} /\ Root = 0
  BY <1>0, <1>1 DEF LiveIn, Made, Root
<1>3. /\ d.block[0].as = "table"
      /\ Table(d, 0) = [i \in 1..MaxEntries |-> IF i = 1 THEN Entry("..", 0)
                                                ELSE IF i = 2 THEN Entry(".", 0) ELSE NoEntry]
  <2> DEFINE T == [i \in 1..MaxEntries |-> IF i = 1 THEN Entry("..", 0)
                                           ELSE IF i = 2 THEN Entry(".", 0) ELSE NoEntry]
  <2>1. d.block[0] = [as |-> "table", entry |-> T]
    BY Zenon DEF Made, init_dirent_table
  <2>2. Table(d, 0) = d.block[0].entry
    BY <1>1 DEF Table
  <2> HIDE DEF T
  <2>3. d.block[0].as = "table" /\ d.block[0].entry = T
    BY <2>1
  <2> QED
    BY <2>2, <2>3 DEF T
<1>4. IsDir(d, 0)
  BY <1>1, <1>2 DEF IsDir
<1>5. IndexesIn(d) = {}
  BY <1>0, <1>1, <1>2 DEF IndexesIn
<1>6. ASSUME NEW b, NEW o, NEW kind, NEW i, b # Nil, Points(d, o, kind, i, b)
      PROVE  b = 0 /\ o = 0 /\ kind = "direct" /\ i = 0
  <2>1. o \in {0}
    BY <1>2, <1>5, <1>6 DEF Points
  <2> QED
    BY <1>1, <1>5, <1>6, <2>1 DEF Points
<1>7. Owned(d)
  <2>1. d.i_bitmap = {0} /\ d.d_bitmap = {0}
    BY DEF Made
  <2> QED
    BY <1>2, <1>6, <2>1 DEF Owned
<1>8. Shape(d)
  BY <1>0, <1>1, <1>2, <1>3 DEF Shape, DirShape
<1>9. Dead(d)
  BY <1>2 DEF Dead, Made
<1>10. FreeZero(d)
  BY DEF FreeZero, Made
<1>11. 1 \in 1..MaxEntries /\ 2 \in 1..MaxEntries /\ EntrySlots \subseteq 1..MaxEntries
       /\ 1 \notin EntrySlots /\ 2 \notin EntrySlots
  BY <1>0 DEF EntrySlots
<1>12. \A i \in EntrySlots : Table(d, 0)[i] = NoEntry
  BY <1>3, <1>11
<1>13. UsedSlots(d, 0) = {}
  BY <1>12, EntryFacts, Zenon DEF UsedSlots
<1>14. TableKept(d, 0)
  <2>1. Table(d, 0)[1] = Entry("..", 0) /\ Table(d, 0)[2] = Entry(".", 0)
    <3> DEFINE u == Entry("..", 0)
               v == Entry(".", 0)
    <3>1. Table(d, 0) = [i \in 1..MaxEntries |-> IF i = 1 THEN u ELSE IF i = 2 THEN v ELSE NoEntry]
      BY <1>3
    <3> HIDE DEF u, v
    <3>2. Table(d, 0)[1] = u /\ Table(d, 0)[2] = v
      <4>1. \A i \in 1..MaxEntries : Table(d, 0)[i] = IF i = 1 THEN u ELSE IF i = 2 THEN v ELSE NoEntry
        BY <3>1, Zenon
      <4>2. 1 \in 1..MaxEntries /\ 2 \in 1..MaxEntries /\ 2 # 1
        BY <1>0
      <4> QED
        BY <4>1, <4>2
    <3> QED
      BY <3>2 DEF u, v
  <2>2. Table(d, 0)[1].name = ".." /\ Table(d, 0)[1].valid = 1
    <3>1. Entry("..", 0).name = ".." /\ Entry("..", 0).valid = 1
      BY DEF Entry
    <3> QED
      BY <2>1, <3>1, Zenon
  <2>3. \A i \in EntrySlots : Table(d, 0)[i].name \in (IF Table(d, 0)[i].valid = 1 THEN Names ELSE {""})
    <3> SUFFICES ASSUME NEW i \in EntrySlots
                 PROVE  Table(d, 0)[i].name \in (IF Table(d, 0)[i].valid = 1 THEN Names ELSE {""})
      OBVIOUS
    <3>1. Table(d, 0)[i].valid # 1 /\ Table(d, 0)[i].name = ""
      BY <1>12, EntryFacts, Zenon
    <3> QED
      BY <3>1
  <2>4. d.inode[0].size = Cardinality(UsedSlots(d, 0))
    BY <1>1, <1>13, FS_EmptySet
  <2> QED
    BY <1>13, <2>1, <2>2, <2>3, <2>4, Zenon DEF TableKept
<1>15. Tree1(d)
  BY <1>2, <1>4, <1>13, <1>14 DEF Tree1
<1> QED
  BY <1>7, <1>8, <1>9, <1>10, <1>13, <1>15 DEF Good

\* Making and mounting the file system leaves the good disk; a mount of one that exists reads nothing.
LEMMA MountKeeps ==
  ASSUME IInv, Mount
  PROVE  IInv'
<1>1. CASE fs = "new"
  <2>1. fs' = "up" /\ disk' = rufs_mkfs /\ ret' = "ok" /\ call' = call /\ client' = client
    BY <1>1 DEF Mount
  <2>2. call = NoCall /\ TypeOK
    BY <1>1 DEF IInv
  <2>3. rufs_mkfs \in Disk /\ Good(rufs_mkfs)
    BY MkfsFacts, MadeGood
  <2>4. TypeOK'
    BY <2>1, <2>2, <2>3 DEF TypeOK
  <2>5. Virtual' = rufs_mkfs
    BY <2>1, <2>2 DEF Virtual
  <2>6. CallKept'
    BY <2>1, <2>2 DEF CallKept
  <2> QED
    BY <2>1, <2>3, <2>4, <2>5, <2>6 DEF IInv
<1>2. CASE fs # "new"
  <2>1. fs = "down" /\ fs' = "misread" /\ ret' = "ok" /\ disk' = disk /\ call' = call /\ client' = client
    BY <1>2 DEF Mount
  <2>2. Good(Virtual) /\ call = NoCall /\ TypeOK
    BY <1>2, <2>1 DEF IInv, CallKept
  <2>3. TypeOK'
    BY <2>1, <2>2 DEF TypeOK
  <2>4. Virtual' = Virtual /\ CallKept'
    BY <2>1, <2>2 DEF Virtual, CallKept
  <2> QED
    BY <2>1, <2>2, <2>3, <2>4 DEF IInv
<1> QED
  BY <1>1, <1>2

\* The end of the process: what a write has allocated and not written into the inode is lost.
LEMMA UnmountKeeps ==
  ASSUME IInv, Unmount
  PROVE  IInv'
<1>1. fs \in {"up", "misread"} /\ fs' = "down" /\ ret' = "ok" /\ call' = NoCall /\ disk' = disk /\ client' = client
  BY DEF Unmount
<1>2. Good(disk) /\ TypeOK
  BY <1>1, DiskGood DEF IInv
<1>3. TypeOK'
  BY <1>1, <1>2 DEF TypeOK
<1>4. Virtual' = disk /\ CallKept'
  BY <1>1 DEF Virtual, CallKept
<1> QED
  BY <1>1, <1>2, <1>3, <1>4 DEF IInv

\* A step that leaves the disk and the write under way alone.
LEMMA QuietKeeps ==
  ASSUME IInv, disk' = disk, call' = call, client' = client, ret' \in Results,
         fs' = fs \/ (fs = "misread" /\ fs' = "undefined")
  PROVE  IInv'
<1>1. TypeOK'
  BY DEF IInv, TypeOK, Results
<1>2. Virtual' = Virtual
  BY DEF Virtual
<1>3. CASE fs' = fs
  <2>1. CallKept' <=> CallKept
    BY <1>2, <1>3 DEF CallKept
  <2> QED
    BY <1>1, <1>2, <1>3, <2>1 DEF IInv
<1>4. CASE fs = "misread" /\ fs' = "undefined"
  <2>1. Good(Virtual) /\ call = NoCall
    BY <1>4 DEF IInv, CallKept
  <2>2. CallKept'
    BY <2>1 DEF CallKept
  <2> QED
    BY <1>1, <1>2, <1>4, <2>1, <2>2 DEF IInv
<1> QED
  BY <1>3, <1>4

-----------------------------------------------------------------------------
\* The specification.

LEMMA InitGood == Init => IInv
<1> SUFFICES ASSUME Init PROVE IInv
  OBVIOUS
<1>1. ZeroDisk \in Disk
  <2> DEFINE z == [valid |-> 0, type |-> "none", size |-> 0,
                   direct |-> [i \in 0..(NumDirect - 1) |-> 0],
                   indirect |-> [k \in 0..(NumIndirect - 1) |-> 0]]
             I == [n \in Inos |-> z]
             K == [b \in Blocks |-> Zero]
  <2>1. 0 \in Blocks /\ MaxSize \in Nat /\ MaxEntries \in Nat
    BY Constants, Zenon
  <2>2. z \in Inode
    BY <2>1 DEF Inode, Pointer
  <2>3. ZeroDisk = [i_bitmap |-> {}, d_bitmap |-> {}, inode |-> I, block |-> K]
    BY DEF ZeroDisk
  <2> HIDE DEF z
  <2>4. I \in [Inos -> Inode] /\ K \in [Blocks -> Block]
    BY <2>2, InitTyped
  <2> HIDE DEF I, K
  <2> QED
    BY <2>3, <2>4, DiskMake
<1>2. TypeOK
  BY <1>1 DEF Init, TypeOK
<1> QED
  BY <1>2 DEF Init, IInv

\* Every step keeps the invariant, when clients remove only empty directories.
LEMMA NextKeeps ==
  ASSUME ~RemovesFullDirs, IInv, [Next]_vars
  PROVE  IInv'
<1>1. ret \in Results
  BY DEF IInv, TypeOK, Results
<1>2. CASE Mount
  BY <1>2, MountKeeps
<1>3. CASE Unmount
  BY <1>3, UnmountKeeps
<1>4. CASE WriteNext
  BY <1>4, WriteNextKeeps
<1>5. CASE Misuse
  BY <1>1, <1>5, QuietKeeps DEF Misuse
<1>6. CASE Stopped
  BY <1>1, <1>6, QuietKeeps DEF Stopped, vars
<1>7. ASSUME NEW p \in client.paths, Lookup(p) PROVE IInv'
  <2>1. ret' \in Results
    BY <1>7 DEF Lookup, Results
  <2> QED
    <3>1. disk' = disk /\ call' = call /\ client' = client /\ fs' = fs
      BY <1>7 DEF Lookup
    <3> QED
      BY <2>1, <3>1, QuietKeeps, Zenon
<1>8. ASSUME NEW p \in client.paths, rufs_mkdir(p) PROVE IInv'
  BY <1>8, MkdirKeeps
<1>9. ASSUME NEW p \in client.paths, rufs_create(p) PROVE IInv'
  BY <1>9, CreateKeeps
<1>10. ASSUME NEW p \in client.paths, rufs_rmdir(p) PROVE IInv'
  BY <1>10, RmdirKeeps
<1>11. ASSUME NEW p \in client.paths, rufs_unlink(p) PROVE IInv'
  BY <1>11, UnlinkKeeps
<1>12. ASSUME NEW p \in client.paths, NEW r \in client.reads, rufs_read(p, r.off, r.len) PROVE IInv'
  <2>1. ret' \in Results
    BY <1>12 DEF rufs_read, Results
  <2> QED
    <3>1. disk' = disk /\ call' = call /\ client' = client /\ fs' = fs
      BY <1>12 DEF rufs_read
    <3> QED
      BY <2>1, <3>1, QuietKeeps, Zenon
<1>13. ASSUME NEW p \in client.paths, NEW w \in client.writes, rufs_write(p, w.off, w.words) PROVE IInv'
  BY <1>13, WriteKeeps
<1>14. CASE UNCHANGED vars
  <2>1. disk' = disk /\ call' = call /\ client' = client /\ fs' = fs /\ ret' \in Results
    BY <1>1, <1>14 DEF vars
  <2> QED
    BY <2>1, QuietKeeps, Zenon
<1> QED
  BY <1>2, <1>3, <1>4, <1>5, <1>6, <1>7, <1>8, <1>9, <1>10, <1>11, <1>12, <1>13, <1>14 DEF Next

\* The disk is good between any two steps, and the inode of a write under way would keep it good.
THEOREM Invariant == ~RemovesFullDirs => (Spec => []IInv)
<1> SUFFICES ASSUME ~RemovesFullDirs PROVE Spec => []IInv
  OBVIOUS
<1>1. Init => IInv
  BY InitGood
<1>2. IInv /\ [Next]_vars => IInv'
  BY NextKeeps
<1> QED
  BY <1>1, <1>2, PTL DEF Spec

\* The disk, the write under way and the client are of their types.
THEOREM TypeCorrect == ~RemovesFullDirs => (Spec => []TypeOK)
<1> SUFFICES ASSUME ~RemovesFullDirs PROVE Spec => []TypeOK
  OBVIOUS
<1>1. IInv => TypeOK
  BY DEF IInv
<1> QED
  BY <1>1, Invariant, PTL

-----------------------------------------------------------------------------
\* What the properties say of a good disk.

LEMMA MountedGood ==
  ASSUME IInv, Mounted
  PROVE  /\ Good(disk) /\ disk \in Disk /\ Owned(disk) /\ Shape(disk) /\ Dead(disk) /\ Tree1(disk)
         /\ FreeZero(disk) /\ Live = LiveIn(disk) /\ \A n : n \in Dirs <=> IsDir(disk, n)
<1>1. Good(disk)
  BY DiskGood DEF Mounted
<1>2. Live = LiveIn(disk)
  BY DEF Live, LiveIn
<1>3. \A n : n \in Dirs <=> IsDir(disk, n)
  BY <1>2 DEF Dirs, IsDir
<1> QED
  BY <1>1, <1>2, <1>3, Zenon DEF Good

\* A use of a block is a pointer to it.
LEMMA UsePoints ==
  ASSUME Good(disk), NEW u \in Uses
  PROVE  \E o, kind, i : /\ u = <<<<o, kind, i>>, u[2]>> /\ u[2] # Nil
                         /\ Points(disk, o, kind, i, u[2])
<1>1. disk \in Disk /\ Shape(disk)
  BY DEF Good
<1>2. Live = LiveIn(disk)
  BY DEF Live, LiveIn
<1>3. u \in Pointers /\ u[2] # Nil
  BY DEF Uses
<1>4. CASE u \in {<<s, Pointed(s)>> : s \in Slots}
  <2>1. PICK s \in Slots : u = <<s, Pointed(s)>>
    BY <1>4
  <2>2. CASE \E n \in Live, i \in DirectSlots : s = <<n, "direct", i>>
    <3>1. PICK n \in Live, i \in DirectSlots : s = <<n, "direct", i>>
      BY <2>2
    <3>2. Pointed(s) = disk.inode[n].direct[i]
      BY <3>1 DEF Pointed
    <3>3. Points(disk, n, "direct", i, u[2])
      BY <1>2, <2>1, <3>1, <3>2 DEF Points
    <3> QED
      BY <1>3, <2>1, <3>1, <3>3
  <2>3. CASE \E n \in Live, k \in IndirectSlots : s = <<n, "indirect", k>>
    <3>1. PICK n \in Live, k \in IndirectSlots : s = <<n, "indirect", k>>
      BY <2>3
    <3>2. Pointed(s) = disk.inode[n].indirect[k]
      BY <3>1 DEF Pointed
    <3>3. Points(disk, n, "indirect", k, u[2])
      BY <1>2, <2>1, <3>1, <3>2 DEF Points
    <3> QED
      BY <1>3, <2>1, <3>1, <3>3
  <2> QED
    BY <2>1, <2>2, <2>3 DEF Slots, DirectSlots, IndirectSlots
<1>5. CASE u \in UNION {{<<<<x, "index", j>>, Index(x)[j]>> : j \in DOMAIN Index(x)} : x \in Indexes}
  <2>1. PICK x \in Indexes : \E j \in DOMAIN Index(x) : u = <<<<x, "index", j>>, Index(x)[j]>>
    BY <1>5
  <2>2. PICK j \in DOMAIN Index(x) : u = <<<<x, "index", j>>, Index(x)[j]>>
    BY <2>1
  <2>3. PICK n \in Live, k \in IndirectSlots : x = disk.inode[n].indirect[k] /\ x # Nil
    <3>1. PICK s \in Slots : s[2] = "indirect" /\ x = Pointed(s) /\ x # Nil
      BY DEF Indexes
    <3>2. \E n \in Live, k \in IndirectSlots : s = <<n, "indirect", k>>
      BY <3>1 DEF Slots, DirectSlots, IndirectSlots
    <3> QED
      BY <3>1, <3>2 DEF Pointed
  <2>4. n \in Inos /\ n \in LiveIn(disk)
    BY <1>2 DEF LiveIn
  <2>5. x \in Blocks
    <3>1. disk.inode[n] \in Inode
      BY <1>1, <2>4, DiskParts, Zenon
    <3>2. disk.inode[n].indirect[k] \in Pointer
      BY <3>1, InodeParts
    <3> QED
      BY <2>3, <3>2 DEF Pointer
  <2>6. x \in IndexesIn(disk)
    BY <2>3, <2>4, <2>5 DEF IndexesIn
  <2>7. disk.block[x].as = "index"
    BY <1>1, <2>3, <2>4 DEF Shape, DirShape, FileShape, IndexAt
  <2>8. disk.block[x].ptr \in [IndexSlots -> Pointer]
    BY <1>1, <2>5, <2>7, IndexTyped
  <2>9. j \in IndexSlots
    BY <2>8 DEF Index
  <2>10. Points(disk, x, "index", j, u[2])
    BY <2>2, <2>6, <2>9 DEF Points, Index
  <2> QED
    BY <1>3, <2>2, <2>10
<1> QED
  BY <1>3, <1>4, <1>5 DEF Pointers

LEMMA OwnedThen ==
  ASSUME IInv
  PROVE  BlocksOwned
<1> SUFFICES ASSUME Mounted
             PROVE  /\ Live \subseteq disk.i_bitmap
                    /\ Used \subseteq disk.d_bitmap
                    /\ \A u, v \in Uses : u[2] = v[2] => u = v
  BY DEF BlocksOwned
<1>1. Good(disk) /\ Owned(disk) /\ Live = LiveIn(disk)
  BY MountedGood
<1>2. Live \subseteq disk.i_bitmap
  BY <1>1 DEF Owned
<1>3. ASSUME NEW u \in Uses PROVE u[2] \in disk.d_bitmap
  BY <1>1, UsePoints DEF Owned
<1>4. ASSUME NEW u \in Uses, NEW v \in Uses, u[2] = v[2] PROVE u = v
  <2>1. PICK o, kind, i : u = <<<<o, kind, i>>, u[2]>> /\ u[2] # Nil /\ Points(disk, o, kind, i, u[2])
    BY <1>1, UsePoints
  <2>2. PICK p, sort, j : v = <<<<p, sort, j>>, v[2]>> /\ v[2] # Nil /\ Points(disk, p, sort, j, v[2])
    BY <1>1, UsePoints
  <2>3. o = p /\ kind = sort /\ i = j
    BY <1>1, <1>4, <2>1, <2>2 DEF Owned
  <2> QED
    BY <1>4, <2>1, <2>2, <2>3
<1> QED
  BY <1>2, <1>3, <1>4 DEF Used

\* In a table, "." and ".." are found at their places, and names differ.
LEMMA TableNames ==
  ASSUME NEW d, Good(d), NEW n, IsDir(d, n)
  PROVE  /\ dir_find(d, n, ".") = n
         /\ dir_find(d, n, "..") = Table(d, n)[1].ino
         /\ \A i, j \in 1..MaxEntries :
              Table(d, n)[i].valid = 1 /\ Table(d, n)[i].name = Table(d, n)[j].name => i = j
<1> DEFINE T == Table(d, n)
<1>1. TableKept(d, n)
  BY DEF Good, Tree1, IsDir
<1>2. MaxEntries \in Nat /\ MaxEntries >= 2
  BY Constants, Zenon
<1>3. 1 \in 1..MaxEntries /\ 2 \in 1..MaxEntries /\ \A i \in 1..MaxEntries : i = 1 \/ i = 2 \/ i \in EntrySlots
  BY <1>2 DEF EntrySlots
<1>4. "" \notin Names /\ "." \notin Names /\ ".." \notin Names
  BY Constants, Zenon
<1>5. T[1].name = ".." /\ T[2].name = "." /\ T[2].ino = n
  <2>1. T[1].name = ".." /\ T[2] = Entry(".", n)
    BY <1>1, Zenon DEF TableKept
  <2> QED
    BY <2>1 DEF Entry
<1>6. \A i \in EntrySlots : (T[i].valid = 1 /\ T[i].name \in Names) \/ (T[i].valid # 1 /\ T[i].name = "")
  BY <1>1 DEF TableKept
<1>7. \A i \in EntrySlots : T[i].name # "." /\ T[i].name # ".."
  BY <1>4, <1>6
<1> HIDE DEF T
<1>8. ASSUME NEW name, NEW k \in 1..MaxEntries, T[k].name = name,
             \A i \in 1..MaxEntries : T[i].name = name => i = k
      PROVE  dir_find(d, n, name) = T[k].ino
  <2> DEFINE s == Slot(d, n, name)
  <2>1. s # Nil
    <3>1. Table(d, n)[k].name = name
      BY <1>8 DEF T
    <3> QED
      BY <3>1, SlotFacts
  <2>2. s \in 1..MaxEntries /\ T[s].name = name
    BY <2>1, SlotFacts DEF T
  <2>3. s = k
    BY <1>8, <2>2
  <2> QED
    BY <2>1, <2>3 DEF dir_find, T
<1>9. \A i \in 1..MaxEntries : T[i].name = "." => i = 2
  BY <1>3, <1>5, <1>7
<1>10. \A i \in 1..MaxEntries : T[i].name = ".." => i = 1
  BY <1>3, <1>5, <1>7
<1>11. dir_find(d, n, ".") = T[2].ino /\ dir_find(d, n, "..") = T[1].ino
  BY <1>3, <1>5, <1>8, <1>9, <1>10
<1>12. ASSUME NEW i \in 1..MaxEntries, NEW j \in 1..MaxEntries, T[i].valid = 1, T[i].name = T[j].name
       PROVE  i = j
  <2>1. CASE i = 1 \/ i = 2
    BY <1>5, <1>9, <1>10, <1>12, <2>1
  <2>2. CASE j = 1 \/ j = 2
    BY <1>5, <1>9, <1>10, <1>12, <2>2
  <2>3. CASE i \in EntrySlots /\ j \in EntrySlots
    <3>1. T[i].name \in Names /\ T[j].name \in Names
      BY <1>6, <1>12, <2>3
    <3>2. T[j].valid = 1
      BY <1>4, <1>6, <2>3, <3>1
    <3>3. i \in UsedSlots(d, n) /\ j \in UsedSlots(d, n)
      BY <1>12, <2>3, <3>2 DEF UsedSlots, T
    <3> QED
      BY <1>1, <1>12, <3>3, Zenon DEF TableKept, T
  <2> QED
    BY <1>3, <2>1, <2>2, <2>3
<1> QED
  BY <1>5, <1>11, <1>12 DEF T

\* The entries of a directory are its used slots.
LEMMA EntryPairs ==
  ASSUME IInv, Mounted
  PROVE  /\ \A e \in Entries : /\ e = <<e[1], e[2]>> /\ e[1] \in LiveIn(disk) /\ IsDir(disk, e[1])
                               /\ e[2] \in UsedSlots(disk, e[1])
         /\ \A n, i : IsDir(disk, n) /\ i \in UsedSlots(disk, n) =>
              <<n, i>> \in Entries /\ Named(<<n, i>>) = Table(disk, n)[i].ino
<1>1. \A n : n \in Dirs <=> IsDir(disk, n)
  BY MountedGood
<1>2. ASSUME NEW e \in Entries
      PROVE  /\ e = <<e[1], e[2]>> /\ e[1] \in LiveIn(disk) /\ IsDir(disk, e[1])
             /\ e[2] \in UsedSlots(disk, e[1])
  <2>1. e \in Dirs \X EntrySlots /\ Table(disk, e[1])[e[2]].valid = 1
    BY DEF Entries, EntrySlots
  <2>2. e = <<e[1], e[2]>> /\ e[1] \in Dirs /\ e[2] \in EntrySlots
    BY <2>1
  <2> QED
    BY <1>1, <2>1, <2>2 DEF UsedSlots, IsDir
<1>3. ASSUME NEW n, NEW i, IsDir(disk, n), i \in UsedSlots(disk, n)
      PROVE  <<n, i>> \in Entries /\ Named(<<n, i>>) = Table(disk, n)[i].ino
  <2>1. n \in Dirs /\ i \in EntrySlots /\ Table(disk, n)[i].valid = 1
    BY <1>1, <1>3 DEF UsedSlots
  <2> DEFINE e == <<n, i>>
  <2>2. e \in Dirs \X EntrySlots /\ e[1] = n /\ e[2] = i
    BY <2>1
  <2> HIDE DEF e
  <2>3. e \in Entries /\ Named(e) = Table(disk, n)[i].ino
    BY <2>1, <2>2 DEF Entries, EntrySlots, Named
  <2> QED
    BY <2>3 DEF e
<1> QED
  BY <1>2, <1>3

LEMMA TreeThen ==
  ASSUME IInv
  PROVE  OneTree
<1> SUFFICES ASSUME Mounted
             PROVE  /\ \A e \in Entries : Named(e) \in Live \ {Root}
                    /\ \A n \in Live \ {Root} : \E e \in Entries : Named(e) = n
                    /\ \A e, f \in Entries : Named(e) = Named(f) => e = f
                    /\ \A n \in Dirs : /\ dir_find(disk, n, ".") = n
                                       /\ disk.inode[n].size = Cardinality({e \in Entries : e[1] = n})
                                       /\ \A i, j \in 1..MaxEntries :
                                            Table(disk, n)[i].valid = 1
                                              /\ Table(disk, n)[i].name = Table(disk, n)[j].name => i = j
                    /\ \A e \in Entries : Named(e) \in Dirs => dir_find(disk, Named(e), "..") = e[1]
  BY DEF OneTree
<1>1. Good(disk) /\ disk \in Disk /\ Tree1(disk) /\ Live = LiveIn(disk) /\ \A n : n \in Dirs <=> IsDir(disk, n)
  BY MountedGood
<1>2. \A e \in Entries : /\ e = <<e[1], e[2]>> /\ e[1] \in LiveIn(disk) /\ IsDir(disk, e[1])
                         /\ e[2] \in UsedSlots(disk, e[1])
                         /\ Named(e) = Table(disk, e[1])[e[2]].ino
  BY EntryPairs DEF Named
<1>3. \A n, i : IsDir(disk, n) /\ i \in UsedSlots(disk, n) =>
              <<n, i>> \in Entries /\ Named(<<n, i>>) = Table(disk, n)[i].ino
  BY EntryPairs
<1>4. \A e \in Entries : /\ Named(e) \in LiveIn(disk) \ {Root}
                         /\ IsDir(disk, Named(e)) => Table(disk, Named(e))[1].ino = e[1]
  BY <1>1, <1>2 DEF Tree1
<1>5. ASSUME NEW n \in Live \ {Root} PROVE \E e \in Entries : Named(e) = n
  <2>1. PICK m \in LiveIn(disk) : IsDir(disk, m) /\ \E i \in UsedSlots(disk, m) : Table(disk, m)[i].ino = n
    BY <1>1 DEF Tree1
  <2>2. PICK i \in UsedSlots(disk, m) : Table(disk, m)[i].ino = n
    BY <2>1
  <2> QED
    BY <1>3, <2>1, <2>2
<1>6. ASSUME NEW e \in Entries, NEW f \in Entries, Named(e) = Named(f) PROVE e = f
  <2>1. e[1] = f[1] /\ e[2] = f[2]
    BY <1>1, <1>2, <1>6 DEF Tree1
  <2> QED
    BY <1>2, <2>1
<1>7. ASSUME NEW n \in Dirs
      PROVE  disk.inode[n].size = Cardinality({e \in Entries : e[1] = n})
  <2> DEFINE U == UsedSlots(disk, n)
             E == {e \in Entries : e[1] = n}
             g == [i \in U |-> <<n, i>>]
  <2>1. IsDir(disk, n) /\ disk.inode[n].size = Cardinality(U)
    <3>1. IsDir(disk, n) /\ Tree1(disk)
      BY <1>1, <1>7
    <3>2. TableKept(disk, n)
      BY <3>1 DEF Tree1, IsDir
    <3> QED
      BY <3>1, <3>2 DEF TableKept
  <2>2. IsFiniteSet(U)
    BY UsedFinite, Zenon
  <2>3. \A i \in U : <<n, i>> \in E
    BY <1>3, <2>1
  <2>4. \A e \in E : e[2] \in U /\ e = <<n, e[2]>>
    BY <1>2
  <2> HIDE DEF U, E
  <2>5. g \in [U -> E] /\ (\A i, j \in U : g[i] = g[j] => i = j) /\ \A e \in E : \E i \in U : g[i] = e
    BY <2>3, <2>4
  <2>6. g \in Bijection(U, E)
    BY <2>5 DEF Bijection, Injection, Surjection, IsInjective
  <2>7. Cardinality(E) = Cardinality(U)
    BY <2>2, <2>6, FS_Bijection DEF ExistsBijection
  <2> QED
    BY <2>1, <2>7 DEF E
<1>8. \A n \in Dirs : /\ dir_find(disk, n, ".") = n
                      /\ dir_find(disk, n, "..") = Table(disk, n)[1].ino
                      /\ \A i, j \in 1..MaxEntries :
                           Table(disk, n)[i].valid = 1 /\ Table(disk, n)[i].name = Table(disk, n)[j].name => i = j
  BY <1>1, TableNames
<1>9. \A e \in Entries : Named(e) \in Dirs => dir_find(disk, Named(e), "..") = e[1]
  BY <1>1, <1>4, <1>8
<1> QED
  BY <1>1, <1>4, <1>5, <1>6, <1>7, <1>8, <1>9

-----------------------------------------------------------------------------
\* The properties.

\* The bitmaps cover everything in use, and no block is used in two places (rufs.c:180-231, 49-94).
THEOREM BlocksAreOwned == ~RemovesFullDirs => (Spec => []BlocksOwned)
<1> SUFFICES ASSUME ~RemovesFullDirs PROVE Spec => []BlocksOwned
  OBVIOUS
<1>1. IInv => BlocksOwned
  BY OwnedThen
<1> QED
  BY <1>1, Invariant, PTL

\* Directories form a tree, of which a directory's size counts the names (rufs.c:138-159, 325-412).
THEOREM DirectoriesAreATree == ~RemovesFullDirs => (Spec => []OneTree)
<1> SUFFICES ASSUME ~RemovesFullDirs PROVE Spec => []OneTree
  OBVIOUS
<1>1. IInv => OneTree
  BY TreeThen
<1> QED
  BY <1>1, Invariant, PTL

\* A block that no file owns holds nothing (rufs.c:79-94, 1164-1166).
THEOREM FreeBlocksAreZero == ~RemovesFullDirs => (Spec => []FreeIsZero)
<1> SUFFICES ASSUME ~RemovesFullDirs PROVE Spec => []FreeIsZero
  OBVIOUS
<1>1. IInv => FreeIsZero
  BY MountedGood DEF FreeIsZero, FreeZero
<1> QED
  BY <1>1, Invariant, PTL

-----------------------------------------------------------------------------
\* Reads within a block.

\* Every word of such a request is in the block of the first one.
LEMMA OneBlock ==
  ASSUME NEW off \in Nat, NEW n \in Nat \ {0}, ~Spans(off, n), NEW j \in off..(off + n - 1)
  PROVE  j \in Nat /\ j \div BlockSize = off \div BlockSize
<1>1. BlockSize \in Nat \ {0}
  BY Constants, Zenon
<1>2. j \in Nat /\ off <= j /\ off + n - 1 \in Nat /\ j <= off + n - 1
  OBVIOUS
<1>3. off \div BlockSize <= j \div BlockSize
  BY <1>1, <1>2, DivOrder
<1>4. j \div BlockSize <= (off + n - 1) \div BlockSize
  BY <1>1, <1>2, DivOrder
<1>5. off \div BlockSize = (off + n - 1) \div BlockSize
  BY DEF Spans
<1>6. off \div BlockSize \in Int /\ j \div BlockSize \in Int
  BY <1>1, <1>2, DivFacts
<1> QED
  BY <1>2, <1>3, <1>4, <1>5, <1>6

\* It is answered in full or not at all.
LEMMA AllOrNothing ==
  ASSUME NEW d, NEW f, NEW off \in Nat, NEW n \in Nat \ {0}, ~Spans(off, n)
  PROVE  \/ ReadCount(d, f, off, n) = 0
         \/ /\ ReadCount(d, f, off, n) = n
            /\ \A j \in off..(off + n - 1) : BlockOf(d, f, j \div BlockSize) # Nil
<1> DEFINE missing == {j \in off..(off + n - 1) : BlockOf(d, f, j \div BlockSize) = Nil}
<1>1. ReadCount(d, f, off, n) = IF off + n > f.size THEN 0
                                ELSE IF missing = {} THEN n ELSE First[missing] - off
  BY Zenon DEF ReadCount
<1>2. CASE missing = {}
  BY <1>1, <1>2
<1>3. CASE missing # {}
  <2>1. off \in missing
    <3>1. PICK j \in missing : TRUE
      BY <1>3
    <3>2. j \div BlockSize = off \div BlockSize
      BY <3>1, OneBlock
    <3> QED
      BY <3>1, <3>2
  <2>2. missing \in SUBSET Nat
    OBVIOUS
  <2>3. First[missing] \in missing /\ First[missing] <= off
    BY <2>1, <2>2, FirstFacts, Zenon
  <2>4. First[missing] = off
    BY <2>3
  <2> HIDE DEF missing
  <2> QED
    BY <1>1, <1>3, <2>4
<1> QED
  BY <1>2, <1>3

\* Its only round copies the word at its place.
LEMMA CopiedOnce ==
  ASSUME NEW off \in Nat, NEW n \in Nat \ {0}, ~Spans(off, n), NEW m \in 1..n
  PROVE  CopiedLast(off, n, m) = off + m - 1
<1> DEFINE copied == {k \in 0..n : PieceStart(off, k) + m - 1 \in Piece(off, n, k)}
           b == off \div BlockSize
<1>1. b \in Int
  <2>1. BlockSize \in Nat \ {0}
    BY Constants, Zenon
  <2> QED
    BY <2>1, DivFacts
<1>2. \A k \in 0..n : Piece(off, n, k) # {} => k = 0
  <2> SUFFICES ASSUME NEW k \in 0..n, NEW j \in Piece(off, n, k)
               PROVE  k = 0
    OBVIOUS
  <2>1. j \in off..(off + n - 1) /\ j \div BlockSize = b + k
    BY DEF Piece
  <2>2. j \div BlockSize = b
    BY <2>1, OneBlock
  <2> HIDE DEF b
  <2> QED
    BY <1>1, <2>1, <2>2
<1>3. 0 \in copied
  <2>1. off + m - 1 \in off..(off + n - 1)
    OBVIOUS
  <2>2. (off + m - 1) \div BlockSize = b
    BY <2>1, OneBlock
  <2> HIDE DEF b
  <2>3. (off + m - 1) \div BlockSize = b + 0
    BY <1>1, <2>2
  <2>4. off + m - 1 \in Piece(off, n, 0)
    BY <2>1, <2>3 DEF Piece, b
  <2> QED
    BY <2>4 DEF PieceStart
<1>4. copied = {0}
  BY <1>2, <1>3
<1>5. (CHOOSE k \in copied : \A l \in copied : l <= k) = 0
  BY <1>4
<1>6. CopiedLast(off, n, m) = IF copied = {} THEN Nil
        ELSE PieceStart(off, CHOOSE k \in copied : \A l \in copied : l <= k) + m - 1
  BY Zenon DEF CopiedLast
<1> HIDE DEF copied
<1>7. CopiedLast(off, n, m) = PieceStart(off, 0) + m - 1
  BY <1>3, <1>5, <1>6
<1> QED
  BY <1>7 DEF PieceStart

\* So the buffer holds the words of the file.
LEMMA BufferWord ==
  ASSUME NEW d, NEW f, NEW off \in Nat, NEW n \in Nat \ {0}, ~Spans(off, n),
         ReadCount(d, f, off, n) = n, NEW m \in 1..n
  PROVE  Buffer(d, f, off, n)[m] = WordOf(d, f, off + m - 1)
<1> DEFINE last == [k \in 1..n |-> CopiedLast(off, n, k)]
<1>1. Buffer(d, f, off, n) = [k \in 1..n |-> IF last[k] = Nil THEN "unset" ELSE WordOf(d, f, last[k])]
  BY Zenon DEF Buffer
<1>2. last[m] = off + m - 1
  BY CopiedOnce
<1>3. off + m - 1 # Nil
  BY DEF Nil
<1> HIDE DEF last
<1>4. Buffer(d, f, off, n)[m] = IF last[m] = Nil THEN "unset" ELSE WordOf(d, f, last[m])
  BY <1>1, Zenon
<1> QED
  BY <1>2, <1>3, <1>4, Zenon

\* The client is chosen once.
LEMMA ClientStays ==
  ASSUME [Next]_vars
  PROVE  client' = client
<1>1. Mount \/ Unmount \/ Misuse \/ Stopped \/ UNCHANGED vars => client' = client
  BY DEF Mount, Unmount, Misuse, Stopped, vars
<1>2. \A r : Finish(r) => client' = client
  BY DEF Finish
<1>3. \A c : WriteRound(c) => client' = client
  BY <1>2, Zenon DEF WriteRound
<1>4. \A p : Lookup(p) => client' = client
  BY DEF Lookup
<1>5. \A p : rufs_mkdir(p) => client' = client
  BY <1>2, Zenon DEF rufs_mkdir
<1>6. \A p : rufs_create(p) => client' = client
  BY <1>2, Zenon DEF rufs_create
<1>7. \A p : rufs_rmdir(p) => client' = client
  BY <1>2, Zenon DEF rufs_rmdir
<1>8. \A p : rufs_unlink(p) => client' = client
  BY <1>2, Zenon DEF rufs_unlink
<1>9. \A p, off, n : rufs_read(p, off, n) => client' = client
  BY Zenon DEF rufs_read
<1>10. \A p, off, words : rufs_write(p, off, words) => client' = client
  BY <1>2, <1>3, Zenon DEF rufs_write
<1> QED
  BY <1>1, <1>3, <1>4, <1>5, <1>6, <1>7, <1>8, <1>9, <1>10 DEF Next, WriteNext

\* What a client may ask for.
LEMMA RequestFacts ==
  ASSUME client \in Clients, NEW r \in client.reads
  PROVE  /\ FileWords \in Nat
         /\ r.off \in Nat /\ r.len \in Nat \ {0} /\ r.off + r.len <= FileWords
<1>1. r.off \in Nat /\ r.len \in 1..MaxRequest /\ r.off + r.len <= FileWords
  BY RufsAssumption
<1>2. MaxRequest \in Nat
  BY Constants, Zenon
<1>3. FileWords \in Nat
  <2>1. {NumDirect, NumIndirect, IndirectCap, BlockSize} \subseteq Nat
    BY RufsAssumption
  <2>2. NumIndirect * IndirectCap \in Nat
    BY <2>1
  <2> QED
    BY <2>1, <2>2 DEF FileWords
<1> QED
  BY <1>1, <1>2, <1>3

\* rufs_read: a read within a block returns the words of the file at its offset.
THEOREM PartsAreReadBack == Spec => []PartsReadBack
<1> DEFINE Chosen == client \in Clients
<1>1. Init => Chosen
  BY DEF Init
<1>2. Chosen /\ [Next]_vars => Chosen'
  BY ClientStays
<1>3. Chosen => PartsReadBack
  <2> SUFFICES ASSUME Chosen, NEW f \in Tree, f.type = "file",
                      NEW r \in client.reads, ~Spans(r.off, r.len)
               PROVE  ReadsBack(f, r.off, r.len)
    BY DEF PartsReadBack, ReadsAre
  <2> DEFINE inode == disk.inode[Ino(f.path)]
             off == r.off
             n == r.len
  <2>1. off \in Nat /\ n \in Nat \ {0} /\ off + n <= FileWords /\ FileWords \in Nat
    BY RequestFacts
  <2>2. f.content = Content(inode)
    <3>1. PICK l \in Lookups : l.ino # Nil /\ f = Node(l)
      BY DEF Tree
    <3>2. l.ino = Ino(l.path)
      BY <3>1 DEF Lookups
    <3>3. disk.inode[l.ino].type # "dir"
      BY <3>1 DEF Node
    <3>4. f = [path |-> l.path, type |-> "file", content |-> Content(disk.inode[l.ino])]
      BY <3>1, <3>3 DEF Node
    <3> QED
      BY <3>2, <3>4
  <2> HIDE DEF inode, off, n
  <2>3. ~Spans(off, n)
    BY DEF off, n
  <2>4. ASSUME NEW k \in 1..ReadCount(disk, inode, off, n)
        PROVE  LET word == Buffer(disk, inode, off, n)[k]
               IN  IF word = "zero" THEN \A c \in f.content : c[1] # off + k - 1
                   ELSE <<off + k - 1, word>> \in f.content
    <3> DEFINE j == off + k - 1
               word == WordOf(disk, inode, j)
    <3>1. ReadCount(disk, inode, off, n) = n
          /\ \A i \in off..(off + n - 1) : BlockOf(disk, inode, i \div BlockSize) # Nil
      <4>1. 1..ReadCount(disk, inode, off, n) # {}
        BY <2>4
      <4>2. ReadCount(disk, inode, off, n) # 0
        BY <4>1
      <4> QED
        BY <2>1, <2>3, <4>2, AllOrNothing, Zenon
    <3>2. k \in 1..n
      BY <2>4, <3>1
    <3>3. j \in off..(off + n - 1) /\ j \in 0..(FileWords - 1)
      BY <2>1, <3>2
    <3>4. BlockOf(disk, inode, j \div BlockSize) # Nil
      BY <3>1, <3>3
    <3>5. Buffer(disk, inode, off, n)[k] = word
      BY <2>1, <2>3, <3>1, <3>2, BufferWord
    <3> HIDE DEF j
    <3>6. word = "zero" => \A c \in f.content : c[1] # j
      BY <2>2 DEF Content
    <3>7. word # "zero" => <<j, word>> \in f.content
      BY <2>2, <3>3, <3>4 DEF Content
    <3> QED
      BY <3>5, <3>6, <3>7 DEF j
  <2> QED
    BY <2>4 DEF ReadsBack, inode, off, n
<1> QED
  BY <1>1, <1>2, <1>3, PTL DEF Spec

=============================================================================

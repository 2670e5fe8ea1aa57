---------------------------- MODULE RufsTreeProof ----------------------------
(***************************************************************************)
(* The disk of Rufs implements the tree of files of FileTree: which paths  *)
(* an operation adds or removes, and which words of which file it changes. *)
(* And no call that succeeds loses a block or an inode, as files have no   *)
(* holes.                                                                  *)
(***************************************************************************)
EXTENDS RufsProof

-----------------------------------------------------------------------------
\* Paths.

\* A set of paths with the root that has every path whose parent it has.
LEMMA PathInduction ==
  ASSUME NEW S \in SUBSET Seq(Names), <<>> \in S,
         \A p \in Seq(Names) : p # <<>> /\ Parent(p) \in S => p \in S
  PROVE  Seq(Names) \subseteq S
<1> DEFINE L == {n \in Nat : \A p \in Seq(Names) : Len(p) = n => p \in S}
<1>1. 0 \in L
  BY EmptySeq
<1>2. ASSUME NEW n \in L PROVE n + 1 \in L
  <2> SUFFICES ASSUME NEW p \in Seq(Names), Len(p) = n + 1 PROVE p \in S
    OBVIOUS
  <2>1. p # <<>>
    BY EmptySeq
  <2>2. Parent(p) \in Seq(Names) /\ Len(Parent(p)) = n
    BY <2>1, ParentSeq
  <2> QED
    BY <1>2, <2>1, <2>2
<1>3. Nat \subseteq L
  <2> HIDE DEF L
  <2>1. L \in SUBSET Nat
    BY DEF L
  <2> QED
    BY <1>1, <1>2, <2>1, SetInduction
<1> QED
  BY <1>3, LenProperties

LEMMA PathOf ==
  ASSUME NEW p \in Seq(Names), NEW q \in Seq(Names), p # <<>>, q # <<>>,
         Parent(p) = Parent(q), Name(p) = Name(q)
  PROVE  p = q
<1>1. /\ Len(p) \in Nat \ {0} /\ Len(q) \in Nat \ {0} /\ Len(p) - 1 = Len(q) - 1
      /\ \A k \in 1..(Len(p) - 1) : Parent(p)[k] = p[k]
      /\ \A k \in 1..(Len(q) - 1) : Parent(q)[k] = q[k]
  BY ParentSeq
<1>2. Len(p) = Len(q)
  BY <1>1
<1>3. ASSUME NEW k \in 1..Len(p) PROVE p[k] = q[k]
  <2>1. CASE k = Len(p)
    BY <1>2, <2>1 DEF Name
  <2>2. CASE k \in 1..(Len(p) - 1)
    BY <1>1, <1>2, <2>2
  <2> QED
    BY <1>1, <2>1, <2>2
<1> QED
  BY <1>2, <1>3, SeqEqual

\* The lookup of a path takes its last step from its parent.
LEMMA LookupUp ==
  ASSUME NEW d, Good(d), NEW p \in Seq(Names), p # <<>>
  PROVE  /\ Parent(p) \in Seq(Names) /\ Name(p) \in Names
         /\ get_node_by_path(d, Parent(p)) \in LiveIn(d) \cup {Nil}
         /\ get_node_by_path(d, Parent(p)) \in InoOrNil
         /\ get_node_by_path(d, p) = Level(d)[get_node_by_path(d, Parent(p))][Name(p)]
<1>1. LevelTyped(d)
  BY LevelIsTyped DEF Good
<1>2. /\ Parent(p) \in Seq(Names) /\ Name(p) \in Names
      /\ get_node_by_path(d, p) = Level(d)[get_node_by_path(d, Parent(p))][Name(p)]
  BY <1>1, LookupStep
<1> QED
  BY <1>1, <1>2, LookupLive, LookupStep

LEMMA LookupRoot ==
  ASSUME NEW d, Good(d)
  PROVE  get_node_by_path(d, <<>>) = Root /\ Root \in LiveIn(d)
<1>1. LevelTyped(d) /\ <<>> \in Seq(Names)
  BY LevelIsTyped, EmptySeq DEF Good
<1> QED
  BY <1>1, LookupStep DEF Good, Tree1, IsDir

\* One path leads to a node.
LEMMA OnePath ==
  ASSUME NEW d, Good(d), NEW p \in Seq(Names), NEW q \in Seq(Names),
         get_node_by_path(d, p) = get_node_by_path(d, q), get_node_by_path(d, p) # Nil
  PROVE  p = q
<1> DEFINE S == {a \in Seq(Names) : \A b \in Seq(Names) :
                   get_node_by_path(d, a) = get_node_by_path(d, b) /\ get_node_by_path(d, a) # Nil => a = b}
<1>1. ASSUME NEW a \in Seq(Names), a # <<>>, get_node_by_path(d, a) # Nil
      PROVE  /\ get_node_by_path(d, a) # Root
             /\ IsDir(d, get_node_by_path(d, Parent(a))) /\ get_node_by_path(d, Parent(a)) # Nil
             /\ \E i \in UsedSlots(d, get_node_by_path(d, Parent(a))) :
                  /\ Table(d, get_node_by_path(d, Parent(a)))[i].name = Name(a)
                  /\ Table(d, get_node_by_path(d, Parent(a)))[i].ino = get_node_by_path(d, a)
  <2> DEFINE m == get_node_by_path(d, Parent(a))
             n == get_node_by_path(d, a)
  <2>1. Name(a) \in Names /\ m \in InoOrNil /\ n = Level(d)[m][Name(a)]
    BY <1>1, LookupUp
  <2>2. n # Nil
    BY <1>1
  <2> HIDE DEF m, n
  <2>3. /\ IsDir(d, m) /\ Slot(d, m, Name(a)) \in UsedSlots(d, m)
        /\ Table(d, m)[Slot(d, m, Name(a))].name = Name(a)
        /\ n = Table(d, m)[Slot(d, m, Name(a))].ino
        /\ n \in LiveIn(d) \ {Root}
    BY <2>1, <2>2, LevelFacts
  <2>4. m # Nil
    BY <2>3, Constants DEF IsDir, LiveIn
  <2> QED
    BY <2>3, <2>4 DEF m, n
<1>2. <<>> \in S
  <2> SUFFICES ASSUME NEW b \in Seq(Names), get_node_by_path(d, <<>>) = get_node_by_path(d, b) PROVE b = <<>>
    BY EmptySeq
  <2>1. get_node_by_path(d, b) = Root /\ Root # Nil
    BY LookupRoot, Constants
  <2> QED
    BY <1>1, <2>1
<1>3. ASSUME NEW a \in Seq(Names), a # <<>>, Parent(a) \in S PROVE a \in S
  <2> SUFFICES ASSUME NEW b \in Seq(Names), get_node_by_path(d, a) = get_node_by_path(d, b),
                      get_node_by_path(d, a) # Nil
               PROVE  a = b
    OBVIOUS
  <2> DEFINE m == get_node_by_path(d, Parent(a))
             k == get_node_by_path(d, Parent(b))
  <2>1. b # <<>>
    BY <1>1, <1>3, LookupRoot
  <2>2. PICK i \in UsedSlots(d, m) : /\ Table(d, m)[i].name = Name(a)
                                     /\ Table(d, m)[i].ino = get_node_by_path(d, a)
    BY <1>1, <1>3
  <2>3. PICK j \in UsedSlots(d, k) : /\ Table(d, k)[j].name = Name(b)
                                     /\ Table(d, k)[j].ino = get_node_by_path(d, b)
    BY <1>1, <2>1
  <2>4. IsDir(d, m) /\ IsDir(d, k) /\ m # Nil
    BY <1>1, <1>3, <2>1
  <2>5. m \in LiveIn(d) /\ k \in LiveIn(d)
    BY <2>4 DEF IsDir
  <2> HIDE DEF m, k
  <2>6. m = k /\ i = j
    <3>1. Tree1(d)
      BY DEF Good
    <3>2. Table(d, m)[i].ino = Table(d, k)[j].ino
      BY <2>2, <2>3
    <3> QED
      BY <2>4, <2>5, <3>1, <3>2 DEF Tree1
  <2>7. Name(a) = Name(b)
    BY <2>2, <2>3, <2>6
  <2>8. Parent(b) \in Seq(Names)
    BY <2>1, LookupUp
  <2>9. Parent(a) = Parent(b)
    BY <1>3, <2>4, <2>6, <2>8 DEF m, k
  <2> QED
    BY <1>3, <2>1, <2>7, <2>9, PathOf
<1>4. Seq(Names) \subseteq S
  <2> HIDE DEF S
  <2>1. S \in SUBSET Seq(Names)
    BY DEF S
  <2> QED
    BY <1>2, <1>3, <2>1, PathInduction
<1> QED
  BY <1>4

-----------------------------------------------------------------------------
\* What an operation changes for the lookups.

\* A name of a directory is found where its entry is.
LEMMA LevelIs ==
  ASSUME NEW d, Good(d), NEW m, IsDir(d, m), NEW i \in UsedSlots(d, m), NEW x, x = Table(d, m)[i].name
  PROVE  x \in Names /\ m \in InoOrNil /\ m # Nil /\ Level(d)[m][x] = Table(d, m)[i].ino
<1>1. d \in Disk /\ Dead(d) /\ Shape(d) /\ Tree1(d)
  BY DEF Good
<1>2. m \in LiveIn(d) /\ m \in Inos /\ d.inode[m].type = "dir"
  BY DEF IsDir, LiveIn
<1>3. m # Nil
  BY <1>2, Constants, Zenon
<1>4. TableKept(d, m)
  BY <1>1, <1>2 DEF Tree1
<1>5. i \in EntrySlots /\ Table(d, m)[i].valid = 1
  BY DEF UsedSlots
<1>6. x \in Names
  BY <1>4, <1>5 DEF TableKept
<1>7. Level(d)[m][x] = dir_find(d, m, x)
  BY <1>2, <1>3, <1>6 DEF Level
<1>8. i \in 1..MaxEntries
  <2>1. MaxEntries \in Nat
    BY Constants, Zenon
  <2> QED
    BY <1>5, <2>1 DEF EntrySlots
<1>9. Slot(d, m, x) # Nil
  BY <1>8, SlotFacts
<1>10. Level(d)[m][x] # Nil /\ Level(d)[m][x] = Table(d, m)[Slot(d, m, x)].ino
  <2>1. /\ dir_find(d, m, x) = Nil <=> Slot(d, m, x) = Nil
        /\ dir_find(d, m, x) = Table(d, m)[Slot(d, m, x)].ino
    BY <1>1, <1>2, <1>9, FindTyped
  <2> QED
    BY <1>7, <1>9, <2>1
<1>11. m \in InoOrNil
  BY <1>2 DEF InoOrNil
<1>12. Slot(d, m, x) \in UsedSlots(d, m) /\ Table(d, m)[Slot(d, m, x)].name = x
  BY <1>6, <1>10, <1>11, LevelFacts
<1>13. Slot(d, m, x) = i
  <2> DEFINE s == Slot(d, m, x)
  <2>1. s \in UsedSlots(d, m) /\ Table(d, m)[s].name = Table(d, m)[i].name
    BY <1>12
  <2> HIDE DEF s
  <2>2. s = i
    BY <1>4, <2>1 DEF TableKept
  <2> QED
    BY <2>2 DEF s
<1> QED
  BY <1>3, <1>6, <1>10, <1>11, <1>13

\* A name that no entry has is not found.
LEMMA LevelNil ==
  ASSUME NEW d, Good(d), NEW m \in InoOrNil, NEW x \in Names,
         IsDir(d, m) => \A i \in UsedSlots(d, m) : Table(d, m)[i].name # x
  PROVE  Level(d)[m][x] = Nil
BY LevelFacts

\* Two disks with the same steps have the same lookups.
LEMMA LookupsKept ==
  ASSUME NEW d, LevelTyped(d), NEW e,
         \A m \in InoOrNil, x \in Names : Level(e)[m][x] = Level(d)[m][x],
         NEW p \in Seq(Names)
  PROVE  get_node_by_path(e, p) = get_node_by_path(d, p)
<1> DEFINE S == {q \in Seq(Names) : get_node_by_path(e, q) = get_node_by_path(d, q)}
<1>1. LevelTyped(e)
  BY DEF LevelTyped
<1>2. <<>> \in S
  BY <1>1, EmptySeq, LookupStep
<1>3. ASSUME NEW q \in Seq(Names), q # <<>>, Parent(q) \in S PROVE q \in S
  <2>1. /\ Name(q) \in Names
        /\ get_node_by_path(d, q) = Level(d)[get_node_by_path(d, Parent(q))][Name(q)]
        /\ get_node_by_path(e, q) = Level(e)[get_node_by_path(e, Parent(q))][Name(q)]
    BY <1>1, <1>3, LookupStep
  <2>2. get_node_by_path(d, Parent(q)) \in InoOrNil
    BY <1>3, LookupStep
  <2> QED
    BY <1>3, <2>1, <2>2
<1>4. Seq(Names) \subseteq S
  <2> HIDE DEF S
  <2>1. S \in SUBSET Seq(Names)
    BY DEF S
  <2> QED
    BY <1>2, <1>3, <2>1, PathInduction
<1> QED
  BY <1>4

\* A new node is found at its path, and every other lookup is as it was.
LEMMA LevelAdded ==
  ASSUME NEW d, Good(d), NEW e, Good(e), NEW n0, NEW ino, NEW name, NEW i0,
         EntryAdded(d, e, n0, ino, name, i0), NEW m \in InoOrNil, NEW x \in Names
  PROVE  Level(e)[m][x] = IF m = n0 /\ x = name THEN ino ELSE IF m = ino THEN Nil ELSE Level(d)[m][x]
<1>0. MaxEntries \in Nat /\ MaxEntries >= 2
  BY Constants, Zenon
<1>1. /\ IsDir(d, n0) /\ ino \in Inos \ LiveIn(d) /\ name \in Names
      /\ i0 \in EntrySlots /\ Table(d, n0)[i0].valid = 0
      /\ LiveIn(e) = LiveIn(d) \cup {ino}
      /\ \A n \in LiveIn(d) : e.inode[n].type = d.inode[n].type
      /\ \A n : IsDir(d, n) /\ n # n0 => Table(e, n) = Table(d, n)
      /\ Table(e, n0)[i0] = Entry(name, ino)
      /\ \A i \in 1..MaxEntries \ {i0} : Table(e, n0)[i] = Table(d, n0)[i]
      /\ IsDir(e, ino) => Table(e, ino) = init_dirent_table(ino, n0).entry
  BY DEF EntryAdded
<1>2. EntrySlots \subseteq 1..MaxEntries
  BY <1>0 DEF EntrySlots
<1>3. IsDir(e, n0) /\ n0 # ino
  BY <1>1 DEF IsDir
<1>4. Table(e, n0)[i0].valid = 1 /\ Table(e, n0)[i0].name = name /\ Table(e, n0)[i0].ino = ino
  <2>1. Table(e, n0)[i0] = Entry(name, ino)
    BY <1>1
  <2> QED
    BY <2>1 DEF Entry
<1>5. CASE m = n0 /\ x = name
  <2>1. i0 \in UsedSlots(e, n0)
    BY <1>1, <1>4 DEF UsedSlots
  <2> QED
    BY <1>3, <1>5, <1>4, <2>1, LevelIs
<1>6. CASE m = ino
  <2>1. IsDir(e, ino) => UsedSlots(e, ino) = {}
    <3> SUFFICES ASSUME IsDir(e, ino), NEW i \in UsedSlots(e, ino) PROVE FALSE
      OBVIOUS
    <3>1. i \in EntrySlots /\ i \in 1..MaxEntries /\ i # 1 /\ i # 2 /\ Table(e, ino)[i].valid = 1
      BY <1>2 DEF UsedSlots, EntrySlots
    <3>2. init_dirent_table(ino, n0).entry[i] = NoEntry
      BY <3>1 DEF init_dirent_table
    <3> QED
      BY <1>1, <3>1, <3>2, EntryFacts
  <2> QED
    BY <1>3, <1>6, <2>1, LevelNil
<1>7. CASE m # ino /\ ~(m = n0 /\ x = name)
  <2>1. IsDir(e, m) <=> IsDir(d, m)
    BY <1>1, <1>7 DEF IsDir
  <2>2. ASSUME NEW i, IsDir(e, m), i \in UsedSlots(e, m), Table(e, m)[i].name = x
        PROVE  i \in UsedSlots(d, m) /\ Table(d, m)[i] = Table(e, m)[i]
    <3>1. i \in EntrySlots /\ i \in 1..MaxEntries /\ Table(e, m)[i].valid = 1
      BY <1>2, <2>2 DEF UsedSlots
    <3>2. CASE m # n0
      <4>1. Table(e, m) = Table(d, m)
        BY <1>1, <2>1, <2>2, <3>2
      <4> QED
        BY <2>2, <4>1 DEF UsedSlots
    <3>3. CASE m = n0
      <4>1. i # i0
        BY <1>7, <1>4, <2>2, <3>3
      <4>2. Table(e, m)[i] = Table(d, m)[i]
        BY <1>1, <3>1, <3>3, <4>1
      <4> QED
        BY <3>1, <4>2 DEF UsedSlots
    <3> QED
      BY <3>2, <3>3
  <2>3. ASSUME NEW i, IsDir(d, m), i \in UsedSlots(d, m), Table(d, m)[i].name = x
        PROVE  i \in UsedSlots(e, m) /\ Table(d, m)[i] = Table(e, m)[i]
    <3>1. i \in EntrySlots /\ i \in 1..MaxEntries /\ Table(d, m)[i].valid = 1
      BY <1>2, <2>3 DEF UsedSlots
    <3>2. CASE m # n0
      <4>1. Table(e, m) = Table(d, m)
        BY <1>1, <2>3, <3>2
      <4> QED
        BY <2>3, <4>1 DEF UsedSlots
    <3>3. CASE m = n0
      <4>1. i # i0
        BY <1>1, <3>1, <3>3
      <4>2. Table(e, m)[i] = Table(d, m)[i]
        BY <1>1, <3>1, <3>3, <4>1
      <4> QED
        BY <3>1, <4>2 DEF UsedSlots
    <3> QED
      BY <3>2, <3>3
  <2>4. CASE \E i : IsDir(e, m) /\ i \in UsedSlots(e, m) /\ Table(e, m)[i].name = x
    <3>1. PICK i : IsDir(e, m) /\ i \in UsedSlots(e, m) /\ Table(e, m)[i].name = x
      BY <2>4
    <3>2. IsDir(d, m) /\ i \in UsedSlots(d, m) /\ Table(d, m)[i] = Table(e, m)[i]
      BY <2>1, <2>2, <3>1
    <3>3. Level(e)[m][x] = Table(e, m)[i].ino
      BY <3>1, LevelIs
    <3>4. Level(d)[m][x] = Table(d, m)[i].ino
      BY <3>1, <3>2, LevelIs
    <3> QED
      BY <1>7, <3>2, <3>3, <3>4
  <2>5. CASE ~\E i : IsDir(e, m) /\ i \in UsedSlots(e, m) /\ Table(e, m)[i].name = x
    <3>1. Level(e)[m][x] = Nil
      BY <2>5, LevelNil
    <3>2. Level(d)[m][x] = Nil
      BY <2>1, <2>3, <2>5, LevelNil
    <3> QED
      BY <1>7, <3>1, <3>2
  <2> QED
    BY <2>4, <2>5
<1> QED
  BY <1>5, <1>6, <1>7

LEMMA LookupAdded ==
  ASSUME NEW d, Good(d), NEW e, Good(e), NEW p \in Seq(Names), p # <<>>, NEW ino, NEW i0,
         EntryAdded(d, e, get_node_by_path(d, Parent(p)), ino, Name(p), i0)
  PROVE  /\ get_node_by_path(d, p) = Nil
         /\ \A q \in Seq(Names) : get_node_by_path(e, q) = IF q = p THEN ino ELSE get_node_by_path(d, q)
<1> DEFINE n0 == get_node_by_path(d, Parent(p))
           name == Name(p)
           S == {q \in Seq(Names) : get_node_by_path(e, q) = IF q = p THEN ino ELSE get_node_by_path(d, q)}
<1>1. /\ IsDir(d, n0) /\ ino \in Inos \ LiveIn(d) /\ name \in Names
      /\ \A i \in 1..MaxEntries : Table(d, n0)[i].name # name
  BY DEF EntryAdded
<1>2. Parent(p) \in Seq(Names) /\ n0 \in InoOrNil /\ get_node_by_path(d, p) = Level(d)[n0][name]
  BY LookupUp
<1>3. n0 # Nil /\ ino # Nil /\ n0 # ino
  BY <1>1, Constants DEF IsDir, LiveIn
<1>4. get_node_by_path(d, p) = Nil
  <2>1. UsedSlots(d, n0) \subseteq 1..MaxEntries
    <3>1. MaxEntries \in Nat
      BY Constants, Zenon
    <3> QED
      BY <3>1 DEF UsedSlots, EntrySlots
  <2> HIDE DEF n0, name
  <2>2. Level(d)[n0][name] = Nil
    BY <1>1, <1>2, <2>1, LevelNil
  <2> QED
    BY <1>2, <2>2
<1>5. \A m \in InoOrNil, x \in Names :
        Level(e)[m][x] = IF m = n0 /\ x = name THEN ino ELSE IF m = ino THEN Nil ELSE Level(d)[m][x]
  BY LevelAdded
<1>6. Parent(p) # p
  BY <1>3, <1>4
<1> HIDE DEF n0, name
<1>7. <<>> \in S
  BY EmptySeq, LookupRoot
<1>8. ASSUME NEW q \in Seq(Names), q # <<>>, Parent(q) \in S PROVE q \in S
  <2> DEFINE m == get_node_by_path(d, Parent(q))
             k == get_node_by_path(e, Parent(q))
             x == Name(q)
  <2>1. /\ Parent(q) \in Seq(Names) /\ x \in Names /\ m \in InoOrNil /\ m \in LiveIn(d) \cup {Nil}
        /\ get_node_by_path(d, q) = Level(d)[m][x]
    BY <1>8, LookupUp
  <2>2. k \in InoOrNil /\ get_node_by_path(e, q) = Level(e)[k][x]
    BY <1>8, LookupUp
  <2>3. CASE Parent(q) = p
    <3>1. k = ino /\ m = Nil /\ q # p
      BY <1>4, <1>6, <1>8, <2>3
    <3> HIDE DEF m, k, x
    <3>2. Level(e)[k][x] = Nil
      BY <1>3, <1>5, <2>1, <2>2, <3>1
    <3>3. Level(d)[m][x] = Nil
      BY <2>1, <3>1 DEF Level, InoOrNil
    <3> QED
      BY <1>8, <2>1, <2>2, <3>1, <3>2, <3>3
  <2>4. CASE Parent(q) # p
    <3>1. k = m
      BY <1>8, <2>4
    <3>2. m # ino
      BY <1>1, <1>3, <2>1
    <3>3. m = n0 /\ x = name <=> q = p
      <4>1. ASSUME m = n0, x = name PROVE q = p
        <5>1. Parent(q) = Parent(p)
          BY <1>2, <1>3, <2>1, <4>1, OnePath DEF n0
        <5> QED
          BY <1>8, <4>1, <5>1, PathOf DEF name
      <4> QED
        BY <4>1 DEF n0, name
    <3> HIDE DEF m, k, x
    <3> QED
      BY <1>5, <1>8, <2>1, <2>2, <3>1, <3>2, <3>3
  <2> QED
    BY <2>3, <2>4
<1>9. Seq(Names) \subseteq S
  <2> HIDE DEF S
  <2>1. S \in SUBSET Seq(Names)
    BY DEF S
  <2> QED
    BY <1>7, <1>8, <2>1, PathInduction
<1> QED
  BY <1>4, <1>9

\* The node that is removed is not found, and every other lookup is as it was.
LEMMA LevelRemoved ==
  ASSUME NEW d, Good(d), NEW e, Good(e), NEW n0, NEW ino, NEW i0,
         EntryRemoved(d, e, n0, ino, i0), NEW m \in InoOrNil, NEW x \in Names
  PROVE  Level(e)[m][x] = IF m = n0 /\ x = Table(d, n0)[i0].name THEN Nil ELSE Level(d)[m][x]
<1>0. MaxEntries \in Nat /\ MaxEntries >= 2
  BY Constants, Zenon
<1>1. /\ IsDir(d, n0) /\ ino \in LiveIn(d) \ {Root, n0}
      /\ i0 \in UsedSlots(d, n0) /\ Table(d, n0)[i0].ino = ino
      /\ IsDir(d, ino) => UsedSlots(d, ino) = {}
      /\ LiveIn(e) = LiveIn(d) \ {ino}
      /\ \A n \in LiveIn(e) : e.inode[n].type = d.inode[n].type
      /\ \A n : IsDir(d, n) /\ n \notin {n0, ino} => Table(e, n) = Table(d, n)
      /\ Table(e, n0)[i0] = NoEntry
      /\ \A i \in 1..MaxEntries \ {i0} : Table(e, n0)[i] = Table(d, n0)[i]
  BY DEF EntryRemoved
<1>2. EntrySlots \subseteq 1..MaxEntries
  BY <1>0 DEF EntrySlots
<1>3. NoEntry.valid # 1
  BY EntryFacts
<1>4. CASE m = ino
  <2>1. Level(d)[m][x] = Nil
    BY <1>1, <1>4, LevelNil
  <2>2. ~IsDir(e, m)
    BY <1>1, <1>4 DEF IsDir
  <2>3. Level(e)[m][x] = Nil
    BY <2>2, LevelNil
  <2> QED
    BY <2>1, <2>3
<1>5. CASE m # ino
  <2>1. IsDir(e, m) <=> IsDir(d, m)
    BY <1>1, <1>5 DEF IsDir
  <2>2. ASSUME NEW i, IsDir(e, m), i \in UsedSlots(e, m)
        PROVE  i \in UsedSlots(d, m) /\ Table(d, m)[i] = Table(e, m)[i] /\ ~(m = n0 /\ i = i0)
    <3>1. i \in EntrySlots /\ i \in 1..MaxEntries /\ Table(e, m)[i].valid = 1
      BY <1>2, <2>2 DEF UsedSlots
    <3>2. CASE m # n0
      <4>1. Table(e, m) = Table(d, m)
        BY <1>1, <1>5, <2>1, <2>2, <3>2
      <4> QED
        BY <2>2, <3>2, <4>1 DEF UsedSlots
    <3>3. CASE m = n0
      <4>1. i # i0
        BY <1>1, <1>3, <3>1, <3>3
      <4>2. Table(e, m)[i] = Table(d, m)[i]
        BY <1>1, <3>1, <3>3, <4>1
      <4> QED
        BY <3>1, <4>1, <4>2 DEF UsedSlots
    <3> QED
      BY <3>2, <3>3
  <2>3. ASSUME NEW i, IsDir(d, m), i \in UsedSlots(d, m), ~(m = n0 /\ i = i0)
        PROVE  i \in UsedSlots(e, m) /\ Table(d, m)[i] = Table(e, m)[i]
    <3>1. i \in EntrySlots /\ i \in 1..MaxEntries /\ Table(d, m)[i].valid = 1
      BY <1>2, <2>3 DEF UsedSlots
    <3>2. CASE m # n0
      <4>1. Table(e, m) = Table(d, m)
        BY <1>1, <1>5, <2>3, <3>2
      <4> QED
        BY <2>3, <4>1 DEF UsedSlots
    <3>3. CASE m = n0
      <4>1. Table(e, m)[i] = Table(d, m)[i]
        BY <1>1, <2>3, <3>1, <3>3
      <4> QED
        BY <3>1, <4>1 DEF UsedSlots
    <3> QED
      BY <3>2, <3>3
  <2>4. \A i, j \in UsedSlots(d, n0) : Table(d, n0)[i].name = Table(d, n0)[j].name => i = j
    BY <1>1 DEF Good, Tree1, TableKept, IsDir
  <2>5. CASE \E i : IsDir(e, m) /\ i \in UsedSlots(e, m) /\ Table(e, m)[i].name = x
    <3>1. PICK i : IsDir(e, m) /\ i \in UsedSlots(e, m) /\ Table(e, m)[i].name = x
      BY <2>5
    <3>2. IsDir(d, m) /\ i \in UsedSlots(d, m) /\ Table(d, m)[i] = Table(e, m)[i] /\ ~(m = n0 /\ i = i0)
      BY <2>1, <2>2, <3>1
    <3>3. Level(e)[m][x] = Table(e, m)[i].ino
      BY <3>1, LevelIs
    <3>4. Level(d)[m][x] = Table(d, m)[i].ino
      BY <3>1, <3>2, LevelIs
    <3>5. ~(m = n0 /\ x = Table(d, n0)[i0].name)
      BY <1>1, <2>4, <3>1, <3>2
    <3> QED
      BY <3>2, <3>3, <3>4, <3>5
  <2>6. CASE ~\E i : IsDir(e, m) /\ i \in UsedSlots(e, m) /\ Table(e, m)[i].name = x
    <3>1. Level(e)[m][x] = Nil
      BY <2>6, LevelNil
    <3>2. CASE m = n0 /\ x = Table(d, n0)[i0].name
      BY <3>1, <3>2
    <3>3. CASE ~(m = n0 /\ x = Table(d, n0)[i0].name)
      <4>1. IsDir(d, m) => \A i \in UsedSlots(d, m) : Table(d, m)[i].name # x
        BY <2>1, <2>3, <2>6, <3>3
      <4>2. Level(d)[m][x] = Nil
        BY <4>1, LevelNil
      <4> QED
        BY <3>1, <3>3, <4>2
    <3> QED
      BY <3>2, <3>3
  <2> QED
    BY <2>5, <2>6
<1> QED
  BY <1>4, <1>5

LEMMA LookupRemoved ==
  ASSUME NEW d, Good(d), NEW e, Good(e), NEW p \in Seq(Names), p # <<>>, NEW i0,
         EntryRemoved(d, e, get_node_by_path(d, Parent(p)), get_node_by_path(d, p), i0),
         Table(d, get_node_by_path(d, Parent(p)))[i0].name = Name(p)
  PROVE  /\ \A q \in Seq(Names) : get_node_by_path(e, q) = IF q = p THEN Nil ELSE get_node_by_path(d, q)
         /\ \A q \in Seq(Names) : q # <<>> /\ Parent(q) = p => get_node_by_path(d, q) = Nil
<1> DEFINE n0 == get_node_by_path(d, Parent(p))
           ino == get_node_by_path(d, p)
           name == Name(p)
           S == {q \in Seq(Names) : get_node_by_path(e, q) = IF q = p THEN Nil ELSE get_node_by_path(d, q)}
<1>1. /\ IsDir(d, n0) /\ ino \in LiveIn(d) \ {Root, n0} /\ name \in Names
      /\ IsDir(d, ino) => UsedSlots(d, ino) = {}
  BY LookupUp DEF EntryRemoved
<1>2. Parent(p) \in Seq(Names) /\ n0 \in InoOrNil /\ ino \in InoOrNil
  <2>1. ino \in Inos
    BY <1>1 DEF LiveIn
  <2> QED
    BY <2>1, LookupUp DEF InoOrNil
<1>3. n0 # Nil
  BY <1>1, Constants DEF IsDir, LiveIn
<1>4. \A q \in Seq(Names) : q # <<>> /\ Parent(q) = p => get_node_by_path(d, q) = Nil
  <2> SUFFICES ASSUME NEW q \in Seq(Names), q # <<>>, Parent(q) = p PROVE get_node_by_path(d, q) = Nil
    OBVIOUS
  <2>1. Name(q) \in Names /\ get_node_by_path(d, q) = Level(d)[ino][Name(q)]
    BY LookupUp
  <2> HIDE DEF ino
  <2> QED
    BY <1>1, <1>2, <2>1, LevelNil
<1>5. \A m \in InoOrNil, x \in Names :
        Level(e)[m][x] = IF m = n0 /\ x = name THEN Nil ELSE Level(d)[m][x]
  BY LevelRemoved
<1>6. Parent(p) # p
  BY <1>1
<1> HIDE DEF n0, name
<1>7. <<>> \in S
  BY EmptySeq, LookupRoot
<1>8. ASSUME NEW q \in Seq(Names), q # <<>>, Parent(q) \in S PROVE q \in S
  <2> DEFINE m == get_node_by_path(d, Parent(q))
             k == get_node_by_path(e, Parent(q))
             x == Name(q)
  <2>1. /\ Parent(q) \in Seq(Names) /\ x \in Names /\ m \in InoOrNil
        /\ get_node_by_path(d, q) = Level(d)[m][x]
    BY <1>8, LookupUp
  <2>2. k \in InoOrNil /\ get_node_by_path(e, q) = Level(e)[k][x]
    BY <1>8, LookupUp
  <2>3. CASE Parent(q) = p
    <3>1. k = Nil /\ get_node_by_path(d, q) = Nil /\ q # p
      BY <1>4, <1>6, <1>8, <2>3
    <3> HIDE DEF m, k, x
    <3>2. Level(e)[k][x] = Nil
      BY <2>1, <3>1 DEF Level, InoOrNil
    <3> QED
      BY <1>8, <2>2, <3>1, <3>2
  <2>4. CASE Parent(q) # p
    <3>1. k = m
      BY <1>8, <2>4
    <3>2. m = n0 /\ x = name <=> q = p
      <4>1. ASSUME m = n0, x = name PROVE q = p
        <5>1. Parent(q) = Parent(p)
          BY <1>2, <1>3, <2>1, <4>1, OnePath DEF n0
        <5> QED
          BY <1>8, <4>1, <5>1, PathOf DEF name
      <4> QED
        BY <4>1 DEF n0, name
    <3> HIDE DEF m, k, x
    <3> QED
      BY <1>5, <1>8, <2>1, <2>2, <3>1, <3>2
  <2> QED
    BY <2>3, <2>4
<1>9. Seq(Names) \subseteq S
  <2> HIDE DEF S
  <2>1. S \in SUBSET Seq(Names)
    BY DEF S
  <2> QED
    BY <1>7, <1>8, <2>1, PathInduction
<1> QED
  BY <1>4, <1>9

-----------------------------------------------------------------------------
\* The words of a file.

FileBlocks == 0..((NumDirect + NumIndirect * IndirectCap) - 1)

\* Block b is one of a file with inode f.
Has(d, f, b) ==
  \/ \E i \in DirectSlots : b = f.direct[i]
  \/ \E k \in IndirectSlots : \/ b = f.indirect[k]
                              \/ f.indirect[k] # Nil /\ \E j \in IndexSlots : b = d.block[f.indirect[k]].ptr[j]

\* The index block, and the place in it, for block i of a file.
At(i)  == (i - NumDirect) \div IndirectCap
Sub(i) == (i - NumDirect) % IndirectCap

LEMMA BlockPlaces ==
  /\ FileBlocks \subseteq Nat
  /\ \A i \in FileBlocks : i < NumDirect => i \in DirectSlots
  /\ \A i \in FileBlocks : ~(i < NumDirect) => At(i) \in IndirectSlots /\ Sub(i) \in IndexSlots
  /\ \A i, l \in FileBlocks : ~(i < NumDirect) /\ ~(l < NumDirect) /\ At(i) = At(l) /\ Sub(i) = Sub(l) => i = l
<1>1. NumDirect \in Nat /\ NumIndirect \in Nat /\ IndirectCap \in Nat \ {0}
  BY Constants, Zenon
<1>2. NumIndirect * IndirectCap \in Nat
  BY <1>1
<1>3. \A i \in FileBlocks : i \in Nat /\ i < NumDirect + NumIndirect * IndirectCap
  BY <1>1, <1>2 DEF FileBlocks
<1>4. \A i \in FileBlocks : i < NumDirect => i \in DirectSlots
  BY <1>1, <1>3 DEF DirectSlots
<1>5. ASSUME NEW i \in FileBlocks, ~(i < NumDirect)
      PROVE  /\ At(i) \in IndirectSlots /\ Sub(i) \in IndexSlots
             /\ i - NumDirect = IndirectCap * At(i) + Sub(i)
  <2> DEFINE a == i - NumDirect
             q == a \div IndirectCap
             s == a % IndirectCap
  <2>1. a \in Nat /\ a < NumIndirect * IndirectCap
    BY <1>1, <1>2, <1>3, <1>5
  <2>2. a \in Int /\ a >= 0
    BY <2>1
  <2> HIDE DEF a
  <2>3. q < NumIndirect
    BY <1>1, <2>1, DivBelow
  <2>4. q \in Int /\ q >= 0 /\ s \in 0..(IndirectCap - 1) /\ a = IndirectCap * q + s
    BY <1>1, <2>2, DivFacts
  <2>5. At(i) = q /\ Sub(i) = s
    BY DEF At, Sub, a
  <2> HIDE DEF q, s
  <2>6. q \in IndirectSlots /\ s \in IndexSlots
    BY <1>1, <2>3, <2>4 DEF IndirectSlots, IndexSlots
  <2> QED
    BY <2>4, <2>5, <2>6 DEF a
<1>6. \A i, l \in FileBlocks : ~(i < NumDirect) /\ ~(l < NumDirect) /\ At(i) = At(l) /\ Sub(i) = Sub(l) => i = l
  <2> SUFFICES ASSUME NEW i \in FileBlocks, NEW l \in FileBlocks, ~(i < NumDirect), ~(l < NumDirect),
                      At(i) = At(l), Sub(i) = Sub(l)
               PROVE  i = l
    OBVIOUS
  <2>1. i - NumDirect = IndirectCap * At(i) + Sub(i) /\ l - NumDirect = IndirectCap * At(l) + Sub(l)
    BY <1>5
  <2>2. i - NumDirect = l - NumDirect
    BY <2>1
  <2> QED
    BY <1>1, <1>3, <2>2
<1> QED
  BY <1>3, <1>4, <1>5, <1>6

\* BlockOf in these terms.
LEMMA BlockIs ==
  ASSUME NEW d, NEW f, NEW i \in FileBlocks
  PROVE  /\ i < NumDirect => BlockOf(d, f, i) = f.direct[i]
         /\ ~(i < NumDirect) => BlockOf(d, f, i) = IF f.indirect[At(i)] = Nil THEN Nil
                                                   ELSE d.block[f.indirect[At(i)]].ptr[Sub(i)]
BY DEF BlockOf, At, Sub

\* A block of a file is a block of bytes, and leads nowhere else.
LEMMA BlockFacts ==
  ASSUME NEW d, NEW ino, NEW f, Sound(d, ino, f), NEW i \in FileBlocks
  PROVE  /\ BlockOf(d, f, i) # Nil =>
              /\ BlockOf(d, f, i) \in Blocks /\ BlockOf(d, f, i) \in d.d_bitmap
              /\ d.block[BlockOf(d, f, i)].as = "bytes"
              /\ Has(d, f, BlockOf(d, f, i))
         /\ ~(i < NumDirect) /\ f.indirect[At(i)] # Nil =>
              /\ f.indirect[At(i)] \in Blocks /\ f.indirect[At(i)] \in d.d_bitmap
              /\ d.block[f.indirect[At(i)]].as = "index"
              /\ Has(d, f, f.indirect[At(i)])
<1> DEFINE b == BlockOf(d, f, i)
           x == f.indirect[At(i)]
<1>1. d \in Disk /\ \A k \in IndirectSlots : f.indirect[k] # Nil => IndexBytes(d, f.indirect[k])
  BY FileBytes DEF Sound
<1>2. CASE i < NumDirect
  <2>1. i \in DirectSlots /\ b = f.direct[i]
    BY <1>2, BlockPlaces, BlockIs
  <2>2. Has(d, f, b)
    BY <2>1 DEF Has
  <2>3. b # Nil => b \in Blocks /\ b \in d.d_bitmap /\ d.block[b].as = "bytes"
    BY <2>1, FileBytes
  <2> QED
    BY <1>2, <2>2, <2>3
<1>3. CASE ~(i < NumDirect)
  <2>1. At(i) \in IndirectSlots /\ Sub(i) \in IndexSlots
    BY <1>3, BlockPlaces
  <2>2. b = IF x = Nil THEN Nil ELSE d.block[x].ptr[Sub(i)]
    BY <1>3, BlockIs
  <2>3. x # Nil => IndexBytes(d, x) /\ Has(d, f, x)
    BY <1>1, <2>1 DEF Has
  <2>4. b # Nil => Has(d, f, b)
    BY <2>1, <2>2 DEF Has
  <2> HIDE DEF x, b
  <2>5. x # Nil => x \in Blocks /\ x \in d.d_bitmap /\ d.block[x].as = "index"
    BY <2>3 DEF IndexBytes
  <2>6. b # Nil => b \in d.d_bitmap /\ d.block[b].as = "bytes"
    BY <2>1, <2>2, <2>3 DEF IndexBytes
  <2>7. b # Nil => b \in Blocks
    BY <1>1, <2>6, DiskParts
  <2> QED
    BY <1>3, <2>3, <2>4, <2>5, <2>6, <2>7 DEF x, b
<1> QED
  BY <1>2, <1>3

\* Two blocks of a file are two blocks of the disk.
LEMMA BlocksDiffer ==
  ASSUME NEW d, NEW ino, NEW f, Sound(d, ino, f), NEW i \in FileBlocks, NEW l \in FileBlocks,
         BlockOf(d, f, i) = BlockOf(d, f, l), BlockOf(d, f, i) # Nil
  PROVE  i = l
<1>1. PICK v : /\ Good(v) /\ ino \in LiveIn(v) /\ v.block = d.block /\ v.inode[ino] = f
  BY SoundParts
<1>2. Owned(v)
  BY <1>1 DEF Good
<1> DEFINE b == BlockOf(d, f, i)
           o(m) == IF m < NumDirect THEN ino ELSE f.indirect[At(m)]
           kind(m) == IF m < NumDirect THEN "direct" ELSE "index"
           j(m) == IF m < NumDirect THEN m ELSE Sub(m)
<1>3. ASSUME NEW m \in FileBlocks, BlockOf(d, f, m) = b
      PROVE  Points(v, o(m), kind(m), j(m), b)
  <2>1. CASE m < NumDirect
    <3>1. BlockOf(d, f, m) = f.direct[m] /\ m \in DirectSlots
      BY <2>1, BlockPlaces, BlockIs
    <3>2. v.inode[ino].direct[m] = b /\ b # Nil
      BY <1>1, <1>3, <3>1
    <3> QED
      BY <1>1, <2>1, <3>1, <3>2, PointsFacts
  <2>2. CASE ~(m < NumDirect)
    <3>1. At(m) \in IndirectSlots /\ Sub(m) \in IndexSlots
      BY <2>2, BlockPlaces
    <3>2. f.indirect[At(m)] # Nil /\ b = d.block[f.indirect[At(m)]].ptr[Sub(m)]
      BY <1>3, <2>2, BlockIs
    <3>3. Points(v, f.indirect[At(m)], "index", Sub(m), b)
      BY <1>1, <3>1, <3>2, PointsFacts
    <3> QED
      BY <2>2, <3>3
  <2> QED
    BY <2>1, <2>2
<1>4. Points(v, o(i), kind(i), j(i), b) /\ Points(v, o(l), kind(l), j(l), b)
  BY <1>3
<1>5. b # Nil
  OBVIOUS
<1> HIDE DEF b, o, kind, j
<1>6. o(i) = o(l) /\ kind(i) = kind(l) /\ j(i) = j(l)
  BY <1>2, <1>4, <1>5, Zenon DEF Owned
<1>7. CASE i < NumDirect
  BY <1>6, <1>7 DEF kind, j
<1>8. CASE ~(i < NumDirect)
  <2>1. ~(l < NumDirect)
    BY <1>6, <1>8 DEF kind
  <2>2. f.indirect[At(i)] = f.indirect[At(l)] /\ Sub(i) = Sub(l)
    BY <1>6, <1>8, <2>1 DEF o, j
  <2>3. f.indirect[At(i)] # Nil
    BY <1>8, BlockIs
  <2>4. At(i) \in IndirectSlots /\ At(l) \in IndirectSlots
    BY <1>8, <2>1, BlockPlaces
  <2>5. Points(v, ino, "indirect", At(i), f.indirect[At(i)]) /\ Points(v, ino, "indirect", At(l), f.indirect[At(i)])
    BY <1>1, <2>2, <2>4, PointsFacts
  <2>6. At(i) = At(l)
    BY <1>2, <2>3, <2>5, Zenon DEF Owned
  <2> QED
    BY <1>8, <2>1, <2>2, <2>6, BlockPlaces
<1> QED
  BY <1>7, <1>8

\* Word j of a file, "zero" where nothing was written.
Places == 0..(FileWords - 1)
WordAt(d, f, j) == IF BlockOf(d, f, j \div BlockSize) = Nil THEN "zero" ELSE WordOf(d, f, j)
ContentIn(d, f) == {<<j, WordAt(d, f, j)>> : j \in {k \in Places : WordAt(d, f, k) # "zero"}}

LEMMA PlaceFacts ==
  /\ FileWords \in Nat
  /\ \A j \in Places : /\ j \in Nat /\ j \div BlockSize \in FileBlocks /\ j % BlockSize \in 0..(BlockSize - 1)
                       /\ j = (j \div BlockSize) * BlockSize + (j % BlockSize)
<1> DEFINE N == NumDirect + NumIndirect * IndirectCap
<1>1. NumDirect \in Nat /\ NumIndirect \in Nat /\ IndirectCap \in Nat \ {0} /\ BlockSize \in Nat \ {0}
  BY Constants, Zenon
<1>2. N \in Nat
  BY <1>1
<1>3. FileWords = N * BlockSize /\ FileBlocks = 0..(N - 1)
  <2>1. FileWords = N * BlockSize
    BY Zenon DEF FileWords
  <2>2. FileBlocks = 0..(N - 1)
    BY Zenon DEF FileBlocks
  <2> QED
    BY <2>1, <2>2
<1> HIDE DEF N
<1>4. FileWords \in Nat
  BY <1>1, <1>2, <1>3
<1>5. ASSUME NEW j \in Places
      PROVE  /\ j \in Nat /\ j \div BlockSize \in FileBlocks /\ j % BlockSize \in 0..(BlockSize - 1)
             /\ j = (j \div BlockSize) * BlockSize + (j % BlockSize)
  <2> DEFINE q == j \div BlockSize
             m == j % BlockSize
  <2>1. j \in Nat /\ j < N * BlockSize /\ j \in Int /\ j >= 0
    BY <1>3, <1>4 DEF Places
  <2>2. q < N
    BY <1>1, <1>2, <2>1, DivBelow
  <2>3. q \in Int /\ q >= 0 /\ m \in 0..(BlockSize - 1) /\ j = BlockSize * q + m
    BY <1>1, <2>1, DivFacts
  <2> HIDE DEF q, m
  <2>4. q \in FileBlocks /\ j = q * BlockSize + m
    BY <1>1, <1>2, <1>3, <2>2, <2>3
  <2> QED
    BY <2>1, <2>3, <2>4 DEF q, m
<1> QED
  BY <1>4, <1>5

\* The content of a file is given by its words.
LEMMA ContentSame ==
  ASSUME NEW d, NEW f, NEW e, NEW g, \A j \in Places : WordAt(e, g, j) = WordAt(d, f, j)
  PROVE  ContentIn(e, g) = ContentIn(d, f)
BY DEF ContentIn

\* The words of a file whose pointers and blocks stay are as they were.
LEMMA WordsKept ==
  ASSUME NEW d, Good(d), NEW m, IsFile(d, m), NEW f, f = d.inode[m], NEW e, NEW g,
         g.direct = f.direct, g.indirect = f.indirect,
         \A b \in Blocks : BelongsTo(d, m, b) => e.block[b] = d.block[b],
         NEW j \in Places
  PROVE  WordAt(e, g, j) = WordAt(d, f, j)
<1> DEFINE i == j \div BlockSize
           b == BlockOf(d, f, i)
           x == f.indirect[At(i)]
<1>1. m \in Inos
  BY DEF IsFile, LiveIn
<1>2. Sound(d, m, f)
  BY <1>1, FileSound
<1>3. \A y : Has(d, f, y) <=> BelongsTo(d, m, y)
  BY DEF Has, BelongsTo
<1>4. i \in FileBlocks
  BY PlaceFacts
<1> HIDE DEF i
<1>5. /\ b # Nil => b \in Blocks /\ e.block[b] = d.block[b]
      /\ ~(i < NumDirect) /\ x # Nil => e.block[x] = d.block[x]
  BY <1>2, <1>3, <1>4, BlockFacts
<1>6. BlockOf(e, g, i) = b
  <2>1. CASE i < NumDirect
    BY <1>4, <2>1, BlockIs
  <2>2. CASE ~(i < NumDirect)
    <3>1. BlockOf(e, g, i) = IF x = Nil THEN Nil ELSE e.block[x].ptr[Sub(i)]
      BY <1>4, <2>2, BlockIs
    <3>2. b = IF x = Nil THEN Nil ELSE d.block[x].ptr[Sub(i)]
      BY <1>4, <2>2, BlockIs
    <3> QED
      BY <1>5, <2>2, <3>1, <3>2
  <2> QED
    BY <2>1, <2>2
<1> QED
  BY <1>5, <1>6 DEF WordAt, WordOf, i

-----------------------------------------------------------------------------
\* The tree of a disk.

NodeAt(d, p) ==
  LET f == d.inode[get_node_by_path(d, p)]
  IN  IF f.type = "dir" THEN [path |-> p, type |-> "dir"]
      ELSE [path |-> p, type |-> "file", content |-> ContentIn(d, f)]
Reached(d) == {p \in Paths : get_node_by_path(d, p) # Nil}
TreeIn(d)  == {NodeAt(d, p) : p \in Reached(d)}

LEMMA TreeIs == Tree = TreeIn(disk)
<1>1. ASSUME NEW f PROVE Content(f) = ContentIn(disk, f)
  <2>1. ASSUME NEW c \in Content(f) PROVE c \in ContentIn(disk, f)
    <3>1. PICK j \in {k \in 0..(FileWords - 1) : BlockOf(disk, f, k \div BlockSize) # Nil} :
            c = <<j, WordOf(disk, f, j)>> /\ c[2] # "zero"
      BY DEF Content
    <3>2. j \in Places /\ WordAt(disk, f, j) = WordOf(disk, f, j)
      BY <3>1 DEF Places, WordAt
    <3> QED
      BY <3>1, <3>2 DEF ContentIn
  <2>2. ASSUME NEW c \in ContentIn(disk, f) PROVE c \in Content(f)
    <3>1. PICK j \in Places : c = <<j, WordAt(disk, f, j)>> /\ WordAt(disk, f, j) # "zero"
      BY DEF ContentIn
    <3>2. BlockOf(disk, f, j \div BlockSize) # Nil /\ WordAt(disk, f, j) = WordOf(disk, f, j)
      BY <3>1 DEF WordAt
    <3> QED
      BY <3>1, <3>2 DEF Content, Places
  <2> QED
    BY <2>1, <2>2
<1>2. ASSUME NEW l \in Lookups PROVE l.path \in Paths /\ l.ino = get_node_by_path(disk, l.path) /\ Node(l) = NodeAt(disk, l.path)
  <2>1. l.path \in Paths /\ l.ino = get_node_by_path(disk, l.path)
    BY DEF Lookups, Ino
  <2> QED
    BY <1>1, <2>1, Zenon DEF Node, NodeAt
<1>3. ASSUME NEW p \in Paths PROVE \E l \in Lookups : l.path = p
  <2>1. [path |-> p, ino |-> Ino(p)] \in Lookups
    BY DEF Lookups
  <2> QED
    BY <2>1
<1>4. Tree \subseteq TreeIn(disk)
  BY <1>2 DEF Tree, TreeIn, Reached
<1>5. TreeIn(disk) \subseteq Tree
  <2> SUFFICES ASSUME NEW p \in Reached(disk) PROVE NodeAt(disk, p) \in Tree
    BY DEF TreeIn
  <2>1. PICK l \in Lookups : l.path = p
    BY <1>3 DEF Reached
  <2>2. l.ino # Nil /\ NodeAt(disk, p) = Node(l)
    BY <1>2, <2>1 DEF Reached
  <2> QED
    BY <2>1, <2>2 DEF Tree
<1> QED
  BY <1>4, <1>5

LEMMA NodePath ==
  ASSUME NEW d, NEW p
  PROVE  NodeAt(d, p).path = p
BY DEF NodeAt

LEMMA TreeMember ==
  ASSUME NEW d, NEW n
  PROVE  n \in TreeIn(d) <=> n.path \in Reached(d) /\ n = NodeAt(d, n.path)
BY NodePath DEF TreeIn

LEMMA TreeKept ==
  ASSUME NEW d, NEW e, Reached(e) = Reached(d), \A p \in Reached(d) : NodeAt(e, p) = NodeAt(d, p)
  PROVE  TreeIn(e) = TreeIn(d)
BY DEF TreeIn

LEMMA TreeGains ==
  ASSUME NEW d, NEW e, NEW p \in Paths, p \notin Reached(d), Reached(e) = Reached(d) \cup {p},
         \A q \in Reached(d) : NodeAt(e, q) = NodeAt(d, q),
         NodeAt(e, p) \in {Abstract!Dir(p), Abstract!File(p)},
         Parent(p) = <<>> \/ (Parent(p) \in Reached(d) /\ NodeAt(d, Parent(p)) = Abstract!Dir(Parent(p)))
  PROVE  Abstract!Adds(TreeIn(d), TreeIn(e))
<1> DEFINE n == NodeAt(e, p)
<1>1. n.path = p
  BY NodePath
<1>2. \A m \in TreeIn(d) : m.path # p
  BY TreeMember
<1>3. TreeIn(e) = TreeIn(d) \cup {n}
  BY DEF TreeIn
<1>4. n \in TreeIn(e) \ TreeIn(d)
  BY <1>1, <1>2, <1>3
<1>5. Parent(p) = <<>> \/ Abstract!Dir(Parent(p)) \in TreeIn(d)
  BY DEF TreeIn
<1>6. n \in {Abstract!Dir(n.path), Abstract!File(n.path)}
  BY <1>1
<1>7. Abstract!Parent(p) = Parent(p)
  BY DEF Abstract!Parent, Parent
<1> HIDE DEF n
<1> QED
  BY <1>1, <1>2, <1>3, <1>4, <1>5, <1>6, <1>7 DEF Abstract!Adds

LEMMA TreeLoses ==
  ASSUME NEW d, NEW e, NEW p \in Reached(d), Reached(e) = Reached(d) \ {p},
         \A q \in Reached(e) : NodeAt(e, q) = NodeAt(d, q),
         \A q \in Reached(d) : Parent(q) # p
  PROVE  Abstract!Removes(TreeIn(d), TreeIn(e))
<1> DEFINE n == NodeAt(d, p)
<1>1. n.path = p
  BY NodePath
<1>2. n \in TreeIn(d) /\ n \notin TreeIn(e)
  BY <1>1, TreeMember
<1>3. TreeIn(e) = TreeIn(d) \ {n}
  <2>1. ASSUME NEW m \in TreeIn(e) PROVE m \in TreeIn(d) /\ m # n
    BY <1>1, <2>1, TreeMember
  <2>2. ASSUME NEW m \in TreeIn(d), m # n PROVE m \in TreeIn(e)
    BY <2>2, TreeMember
  <2> QED
    BY <2>1, <2>2
<1>4. \A m \in TreeIn(d) : Abstract!Parent(m.path) # n.path
  BY <1>1, TreeMember DEF Abstract!Parent, Parent
<1> HIDE DEF n
<1> QED
  BY <1>2, <1>3, <1>4 DEF Abstract!Removes

\* The nodes with other paths than p.
NodesBut(d, p) == {n \in TreeIn(d) : n.path # p}

LEMMA ButMember ==
  ASSUME NEW d, NEW p, NEW n
  PROVE  n \in NodesBut(d, p) <=> n.path \in Reached(d) /\ n.path # p /\ n = NodeAt(d, n.path)
BY TreeMember DEF NodesBut

LEMMA ButKept ==
  ASSUME NEW d, NEW e, NEW p, Reached(e) \ {p} = Reached(d) \ {p},
         \A q \in Reached(d) : q # p => NodeAt(e, q) = NodeAt(d, q)
  PROVE  NodesBut(e, p) = NodesBut(d, p)
<1>1. ASSUME NEW n PROVE n \in NodesBut(e, p) <=> n \in NodesBut(d, p)
  BY ButMember
<1> QED
  BY <1>1

\* The tree has the node at p, or none, and the nodes at other paths.
LEMMA TreeSplit ==
  ASSUME NEW d, NEW p
  PROVE  TreeIn(d) = IF p \in Reached(d) THEN NodesBut(d, p) \cup {NodeAt(d, p)} ELSE NodesBut(d, p)
<1>1. ASSUME NEW n PROVE n \in TreeIn(d) <=> n \in NodesBut(d, p) \/ (p \in Reached(d) /\ n = NodeAt(d, p))
  BY ButMember, TreeMember, NodePath
<1> QED
  BY <1>1

LEMMA TreeWritten ==
  ASSUME NEW d, NEW e, Reached(e) = Reached(d), NEW p \in Reached(d),
         \A q \in Reached(d) : q # p => NodeAt(e, q) = NodeAt(d, q),
         NodeAt(d, p).type = "file",
         NEW off \in Places, NEW words \in Requests,
         NodeAt(e, p) = Abstract!Written(NodeAt(d, p), off, words)
  PROVE  TreeIn(e) = TreeIn(d) \/ Abstract!Writes(TreeIn(d), TreeIn(e))
<1> DEFINE n == NodeAt(d, p)
           m == NodeAt(e, p)
<1>1. n.path = p /\ m.path = p
  BY NodePath
<1>2. CASE m = n
  BY <1>2, TreeKept
<1>3. CASE m # n
  <2>1. n \in TreeIn(d) /\ n \notin TreeIn(e)
    BY <1>1, <1>3, TreeMember
  <2>2. TreeIn(e) = (TreeIn(d) \ {n}) \cup {m}
    <3>1. ASSUME NEW k \in TreeIn(e), k # m PROVE k \in TreeIn(d) /\ k # n
      BY <1>1, <3>1, TreeMember
    <3>2. ASSUME NEW k \in TreeIn(d), k # n PROVE k \in TreeIn(e)
      BY <1>1, <3>2, TreeMember
    <3>3. m \in TreeIn(e)
      BY <1>1, TreeMember
    <3> QED
      BY <3>1, <3>2, <3>3
  <2>3. n.type = "file" /\ m = Abstract!Written(n, off, words)
    OBVIOUS
  <2> HIDE DEF n, m
  <2> QED
    BY <2>1, <2>2, <2>3 DEF Abstract!Writes, Places
<1> QED
  BY <1>2, <1>3

-----------------------------------------------------------------------------
\* The calls that add and remove nodes.

LEMMA PathsFacts ==
  ASSUME NEW p \in Paths
  PROVE  /\ p \in Seq(Names) /\ p # <<>>
         /\ Parent(p) = <<>> \/ Parent(p) \in Paths
<1>1. PICK n \in 1..MaxDepth : p \in [1..n -> Names]
  BY DEF Paths
<1>2. MaxDepth \in Nat
  BY RufsAssumption
<1>3. p \in Seq(Names) /\ p # <<>> /\ Len(p) = n /\ n \in Nat
  BY <1>1, <1>2
<1>4. Parent(p) \in Seq(Names) /\ Len(Parent(p)) = n - 1
  BY <1>3, ParentSeq
<1>5. CASE n = 1
  <2>1. Len(Parent(p)) = 0
    BY <1>4, <1>5
  <2> QED
    BY <1>3, <1>4, <2>1, EmptySeq
<1>6. CASE n # 1
  <2>1. n - 1 \in 1..MaxDepth
    BY <1>2, <1>6
  <2>2. Parent(p) \in [1..(n - 1) -> Names]
    BY <1>4, LenProperties
  <2> QED
    BY <1>3, <2>1, <2>2 DEF Paths
<1> QED
  BY <1>3, <1>5, <1>6

\* The blocks of a node are marked.
LEMMA OwnMarked ==
  ASSUME NEW d, Good(d), NEW m \in LiveIn(d), NEW b, b # Nil, BelongsTo(d, m, b)
  PROVE  b \in d.d_bitmap
<1>1. CASE \E i \in DirectSlots : b = d.inode[m].direct[i]
  BY <1>1, PointsFacts
<1>2. CASE \E k \in IndirectSlots : b = d.inode[m].indirect[k]
  BY <1>2, PointsFacts
<1>3. ASSUME NEW k \in IndirectSlots, NEW x, x = d.inode[m].indirect[k], x # Nil,
             NEW j \in IndexSlots, b = d.block[x].ptr[j]
      PROVE  b \in d.d_bitmap
  BY <1>3, PointsFacts
<1> QED
  BY <1>1, <1>2, <1>3 DEF BelongsTo

\* A node is as it was, if it is the same directory, or a file with the same words.
LEMMA NodeKept ==
  ASSUME NEW d, Good(d), NEW e, NEW q, NEW m, m = get_node_by_path(d, q), m = get_node_by_path(e, q),
         m \in LiveIn(d), e.inode[m].type = d.inode[m].type,
         IsFile(d, m) => \A j \in Places : WordAt(e, e.inode[m], j) = WordAt(d, d.inode[m], j)
  PROVE  NodeAt(e, q) = NodeAt(d, q)
<1>1. CASE d.inode[m].type = "dir"
  BY <1>1 DEF NodeAt
<1>2. CASE d.inode[m].type # "dir"
  <2>1. IsFile(d, m)
    BY <1>2 DEF Good, Shape, IsFile
  <2>2. ContentIn(e, e.inode[m]) = ContentIn(d, d.inode[m])
    BY <2>1, ContentSame
  <2> QED
    BY <1>2, <2>2 DEF NodeAt
<1> QED
  BY <1>1, <1>2

LEMMA ReachedFacts ==
  ASSUME NEW d, Good(d), NEW p \in Reached(d)
  PROVE  /\ p \in Paths /\ p \in Seq(Names) /\ p # <<>>
         /\ get_node_by_path(d, p) \in LiveIn(d) /\ get_node_by_path(d, p) # Nil
<1>1. p \in Paths /\ get_node_by_path(d, p) # Nil
  BY DEF Reached
<1>2. p \in Seq(Names) /\ p # <<>>
  BY <1>1, PathsFacts
<1> QED
  BY <1>1, <1>2, LookupLive

\* A file without blocks is empty.
LEMMA NewFileEmpty ==
  ASSUME NEW d
  PROVE  ContentIn(d, init_inode("file")) = {}
<1> DEFINE f == init_inode("file")
<1>1. f.direct = [i \in DirectSlots |-> Nil] /\ f.indirect = [k \in IndirectSlots |-> Nil]
  BY InitFacts
<1> HIDE DEF f
<1>2. ASSUME NEW i \in FileBlocks PROVE BlockOf(d, f, i) = Nil
  <2>1. CASE i < NumDirect
    BY <1>1, <2>1, BlockPlaces, BlockIs
  <2>2. CASE ~(i < NumDirect)
    <3>1. At(i) \in IndirectSlots
      BY <2>2, BlockPlaces
    <3> QED
      BY <1>1, <2>2, <3>1, BlockIs
  <2> QED
    BY <2>1, <2>2
<1>3. \A j \in Places : WordAt(d, f, j) = "zero"
  BY <1>2, PlaceFacts DEF WordAt
<1>4. ContentIn(d, f) = {}
  BY <1>3 DEF ContentIn
<1> QED
  BY <1>4 DEF f

\* mkdir and create add their node to the tree, or nothing.
NewNode(p, type) == IF type = "dir" THEN Abstract!Dir(p) ELSE Abstract!File(p)

LEMMA MadeTree ==
  ASSUME NEW d, Good(d), NEW e \in Disk, NEW p \in Paths, NEW type, NodeMade(d, e, p, type)
  PROVE  Abstract!Adds(TreeIn(d), TreeIn(e)) /\ TreeIn(e) = TreeIn(d) \cup {NewNode(p, type)}
<1> DEFINE n0 == get_node_by_path(d, Parent(p))
<1>1. PICK ino, i, t, blk : /\ NodeAdded(d, e, n0, ino, Name(p), i, t, blk)
                            /\ e.inode[ino].type = type
  BY Zenon DEF NodeMade
<1>2. p \in Seq(Names) /\ p # <<>> /\ (Parent(p) = <<>> \/ Parent(p) \in Paths)
  BY PathsFacts
<1>3. Good(e) /\ EntryAdded(d, e, n0, ino, Name(p), i)
  BY <1>1, AddGood
<1>4. /\ get_node_by_path(d, p) = Nil
      /\ \A q \in Seq(Names) : get_node_by_path(e, q) = IF q = p THEN ino ELSE get_node_by_path(d, q)
  BY <1>2, <1>3, LookupAdded
<1>5. ino \in Inos \ LiveIn(d) /\ IsDir(d, n0) /\ \A n \in LiveIn(d) : e.inode[n].type = d.inode[n].type
  BY <1>3 DEF EntryAdded
<1>6. ino # Nil /\ n0 # Nil /\ n0 \in LiveIn(d)
  BY <1>5, Constants DEF IsDir, LiveIn
<1>7. p \notin Reached(d) /\ Reached(e) = Reached(d) \cup {p}
  <2>1. \A q \in Paths : q \in Seq(Names)
    BY PathsFacts
  <2> QED
    BY <1>4, <1>6, <2>1 DEF Reached
<1>8. ASSUME NEW q \in Reached(d) PROVE NodeAt(e, q) = NodeAt(d, q)
  <2> DEFINE m == get_node_by_path(d, q)
  <2>1. q \in Seq(Names) /\ q # p /\ m \in LiveIn(d)
    BY <1>7, ReachedFacts
  <2>2. get_node_by_path(e, q) = m
    BY <1>4, <2>1
  <2> HIDE DEF m
  <2>3. ASSUME IsFile(d, m), NEW j \in Places
        PROVE  WordAt(e, e.inode[m], j) = WordAt(d, d.inode[m], j)
    <3>1. m \in Inos \ {n0, ino}
      BY <1>5, <2>1, <2>3 DEF IsFile, IsDir, LiveIn
    <3>2. e.inode[m] = d.inode[m]
      BY <1>1, <3>1 DEF NodeAdded
    <3>3. ASSUME NEW b \in Blocks, BelongsTo(d, m, b) PROVE e.block[b] = d.block[b]
      <4>1. b # Nil
        BY <3>3, Constants
      <4>2. t = d.inode[n0].direct[0]
        BY <1>1 DEF NodeAdded
      <4>3. BelongsTo(d, n0, t)
        BY <4>2, Constants DEF BelongsTo
      <4>4. b # t
        BY <1>6, <2>1, <3>1, <3>3, <4>1, <4>3, Apart
      <4>5. b \in d.d_bitmap
        BY <2>1, <3>3, <4>1, OwnMarked
      <4> QED
        BY <1>1, <3>3, <4>4, <4>5 DEF NodeAdded
    <3> QED
      BY <2>3, <3>2, <3>3, WordsKept
  <2> QED
    BY <1>5, <2>1, <2>2, <2>3, NodeKept DEF m
<1>9. NodeAt(e, p) = NewNode(p, type)
  <2>1. get_node_by_path(e, p) = ino
    BY <1>2, <1>4
  <2>2. CASE NewFile(d, e, ino)
    <3>1. e.inode[ino] = init_inode("file") /\ e.inode[ino].type = "file"
      BY <2>2, InitFacts DEF NewFile
    <3> QED
      BY <1>1, <2>1, <3>1, NewFileEmpty DEF NodeAt, NewNode, Abstract!File
  <2>3. CASE NewDir(d, e, ino, n0, blk)
    <3>1. e.inode[ino].type = "dir"
      BY <2>3, NewDirFacts
    <3> QED
      BY <1>1, <2>1, <3>1 DEF NodeAt, NewNode, Abstract!Dir
  <2> QED
    BY <1>1, <2>2, <2>3 DEF NodeAdded
<1>10. Parent(p) = <<>> \/ (Parent(p) \in Reached(d) /\ NodeAt(d, Parent(p)) = Abstract!Dir(Parent(p)))
  BY <1>2, <1>5, <1>6 DEF Reached, NodeAt, Abstract!Dir, IsDir
<1>11. NodeAt(e, p) \in {Abstract!Dir(p), Abstract!File(p)}
  BY <1>9 DEF NewNode
<1> HIDE DEF n0
<1>12. Abstract!Adds(TreeIn(d), TreeIn(e))
  BY <1>7, <1>8, <1>10, <1>11, TreeGains
<1>13. NodesBut(e, p) = NodesBut(d, p)
  <2>1. Reached(e) \ {p} = Reached(d) \ {p}
    BY <1>7
  <2> QED
    BY <1>8, <2>1, ButKept
<1>14. TreeIn(d) = NodesBut(d, p) /\ TreeIn(e) = NodesBut(e, p) \cup {NodeAt(e, p)}
  BY <1>7, TreeSplit
<1> QED
  BY <1>9, <1>12, <1>13, <1>14

\* rmdir and unlink remove their node from the tree.
LEMMA GoneTree ==
  ASSUME NEW d, Good(d), NEW e \in Disk, NEW p \in Paths, NEW B, NodeGone(d, e, p, B)
  PROVE  Abstract!Removes(TreeIn(d), TreeIn(e)) /\ TreeIn(e) = NodesBut(d, p)
<1> DEFINE n0 == get_node_by_path(d, Parent(p))
           ino == get_node_by_path(d, p)
<1>1. PICK i, t : NodeRemoved(d, e, n0, ino, i, B, t) /\ Table(d, n0)[i].name = Name(p)
  BY Zenon DEF NodeGone
<1>2. p \in Seq(Names) /\ p # <<>>
  BY PathsFacts
<1>3. Good(e) /\ EntryRemoved(d, e, n0, ino, i)
  BY <1>1, RemoveGood
<1>4. /\ \A q \in Seq(Names) : get_node_by_path(e, q) = IF q = p THEN Nil ELSE get_node_by_path(d, q)
      /\ \A q \in Seq(Names) : q # <<>> /\ Parent(q) = p => get_node_by_path(d, q) = Nil
  BY <1>1, <1>2, <1>3, LookupRemoved
<1>5. ino \in LiveIn(d) \ {n0} /\ IsDir(d, n0) /\ \A n \in LiveIn(d) \ {ino} : e.inode[n].type = d.inode[n].type
  BY <1>3 DEF EntryRemoved
<1>6. ino # Nil /\ n0 \in LiveIn(d)
  BY <1>5, Constants DEF IsDir, LiveIn
<1>7. p \in Reached(d) /\ Reached(e) = Reached(d) \ {p}
  <2>1. \A q \in Paths : q \in Seq(Names)
    BY PathsFacts
  <2> QED
    BY <1>4, <1>6, <2>1 DEF Reached
<1>8. ASSUME NEW q \in Reached(e) PROVE NodeAt(e, q) = NodeAt(d, q)
  <2> DEFINE m == get_node_by_path(d, q)
  <2>1. q \in Seq(Names) /\ q # p /\ m \in LiveIn(d) /\ m # Nil
    BY <1>7, ReachedFacts
  <2>2. get_node_by_path(e, q) = m
    BY <1>4, <2>1
  <2>3. m # ino
    BY <1>2, <2>1, OnePath
  <2> HIDE DEF m, ino, n0
  <2>4. ASSUME IsFile(d, m), NEW j \in Places
        PROVE  WordAt(e, e.inode[m], j) = WordAt(d, d.inode[m], j)
    <3>1. m \in Inos \ {n0, ino}
      BY <1>5, <2>1, <2>3, <2>4 DEF IsFile, IsDir, LiveIn
    <3>2. e.inode[m] = d.inode[m]
      BY <1>1, <3>1 DEF NodeRemoved
    <3>3. ASSUME NEW b \in Blocks, BelongsTo(d, m, b) PROVE e.block[b] = d.block[b]
      <4>1. b # Nil
        BY <3>3, Constants
      <4>2. t = d.inode[n0].direct[0] /\ \A a \in B : BelongsTo(d, ino, a)
        BY <1>1 DEF NodeRemoved
      <4>3. BelongsTo(d, n0, t)
        BY <4>2, Constants DEF BelongsTo
      <4>4. b # t
        BY <1>6, <2>1, <3>1, <3>3, <4>1, <4>3, Apart
      <4>5. b \notin B
        BY <1>5, <2>1, <3>1, <3>3, <4>1, <4>2, Apart
      <4> QED
        BY <1>1, <3>3, <4>4, <4>5 DEF NodeRemoved
    <3> QED
      BY <2>4, <3>2, <3>3, WordsKept
  <2>5. e.inode[m].type = d.inode[m].type
    BY <1>5, <2>1, <2>3
  <2> QED
    BY <2>1, <2>2, <2>4, <2>5, NodeKept DEF m
<1>9. \A q \in Reached(d) : Parent(q) # p
  <2>1. \A q \in Reached(d) : q \in Seq(Names) /\ q # <<>> /\ get_node_by_path(d, q) # Nil
    BY ReachedFacts
  <2> QED
    BY <1>4, <2>1
<1> HIDE DEF n0, ino
<1>10. p \in Reached(d) /\ Reached(e) = Reached(d) \ {p}
  BY <1>7
<1>11. \A q \in Reached(e) : NodeAt(e, q) = NodeAt(d, q)
  BY <1>8
<1>12. Abstract!Removes(TreeIn(d), TreeIn(e))
  BY <1>9, <1>10, <1>11, TreeLoses
<1>13. NodesBut(e, p) = NodesBut(d, p)
  <2>1. Reached(e) \ {p} = Reached(d) \ {p} /\ \A q \in Reached(d) : q # p => q \in Reached(e)
    BY <1>10
  <2> QED
    BY <1>11, <2>1, ButKept
<1>14. TreeIn(e) = NodesBut(e, p)
  BY <1>10, TreeSplit
<1> QED
  BY <1>12, <1>13, <1>14

\* A call that changes only the bitmaps leaves the tree.
LEMMA BitsTree ==
  ASSUME NEW d, Good(d), NEW e, OnlyBits(d, e)
  PROVE  TreeIn(e) = TreeIn(d)
<1>1. e.inode = d.inode /\ e.block = d.block
  BY DEF OnlyBits
<1>2. ASSUME NEW m \in InoOrNil, NEW x \in Names PROVE Level(e)[m][x] = Level(d)[m][x]
  BY <1>1 DEF Level, InoOrNil, dir_find, Slot, Table
<1>3. LevelTyped(d)
  BY LevelIsTyped DEF Good
<1>4. \A q \in Seq(Names) : get_node_by_path(e, q) = get_node_by_path(d, q)
  BY <1>2, <1>3, LookupsKept
<1>5. Reached(e) = Reached(d)
  BY <1>4, PathsFacts DEF Reached
<1>6. ASSUME NEW f, NEW j \in Places PROVE WordAt(e, f, j) = WordAt(d, f, j)
  BY <1>1 DEF WordAt, WordOf, BlockOf
<1>7. ASSUME NEW q \in Reached(d) PROVE NodeAt(e, q) = NodeAt(d, q)
  <2>1. q \in Seq(Names) /\ get_node_by_path(d, q) \in LiveIn(d)
    BY ReachedFacts
  <2> QED
    BY <1>1, <1>4, <1>6, <2>1, NodeKept
<1> QED
  BY <1>5, <1>7, TreeKept

-----------------------------------------------------------------------------
\* The block that a round of a write takes.

\* Two index blocks of a file are two blocks of the disk.
LEMMA IndexesDiffer ==
  ASSUME NEW d, NEW ino, NEW f, Sound(d, ino, f), NEW k \in IndirectSlots, NEW l \in IndirectSlots,
         f.indirect[k] = f.indirect[l], f.indirect[k] # Nil
  PROVE  k = l
<1>1. PICK v : Good(v) /\ ino \in LiveIn(v) /\ v.inode[ino] = f
  BY SoundParts
<1>2. Owned(v)
  BY <1>1 DEF Good
<1>3. Points(v, ino, "indirect", k, f.indirect[k]) /\ Points(v, ino, "indirect", l, f.indirect[k])
  BY <1>1, PointsFacts
<1> QED
  BY <1>2, <1>3, Zenon DEF Owned

\* A new index block leads to no block yet.
LEMMA IndexTaken ==
  ASSUME NEW d, NEW ino, NEW g, Sound(d, ino, g), NEW k \in IndirectSlots,
         NEW x, x = IF g.indirect[k] = Nil THEN get_avail_blkno(d) ELSE g.indirect[k],
         NEW e, e = WithIndex(d, g, k, x), NEW h, h = WithIndirect(g, k, x)
  PROVE  /\ \A y \in Blocks : y \in d.d_bitmap => e.block[y] = d.block[y] /\ y \in e.d_bitmap
         /\ \A f : \A l \in FileBlocks : Fewer(f, g) => BlockOf(e, f, l) = BlockOf(d, f, l)
         /\ \A l \in FileBlocks : BlockOf(e, h, l) = BlockOf(d, g, l)
<1>1. d \in Disk /\ g \in Inode
  BY DEF Sound
<1>2. x \in Pointer
  BY IndexSound
<1>3. h.direct = g.direct /\ \A m \in IndirectSlots : h.indirect[m] = IF m = k THEN x ELSE g.indirect[m]
  <2>1. h.direct = g.direct /\ h.indirect = [g.indirect EXCEPT ![k] = x]
    BY <1>1, <1>2, PointerSet
  <2>2. g.indirect \in [IndirectSlots -> Pointer]
    BY <1>1, InodeParts
  <2> QED
    BY <2>1, <2>2
<1>4. CASE g.indirect[k] = x
  <2>1. e = d
    BY <1>4 DEF WithIndex
  <2>2. ASSUME NEW l \in FileBlocks PROVE BlockOf(e, h, l) = BlockOf(d, g, l)
    <3>1. CASE l < NumDirect
      BY <1>3, <3>1, BlockIs
    <3>2. CASE ~(l < NumDirect)
      <4>1. h.indirect[At(l)] = g.indirect[At(l)]
        BY <1>3, <1>4, <3>2, BlockPlaces
      <4> QED
        BY <2>1, <3>2, <4>1, BlockIs
    <3> QED
      BY <3>1, <3>2
  <2> QED
    BY <2>1, <2>2
<1>5. CASE g.indirect[k] # x
  <2>1. g.indirect[k] = Nil /\ x \in Blocks \ d.d_bitmap /\ x # Nil
    BY <1>5, AvailFacts
  <2>2. e.d_bitmap = d.d_bitmap \cup {x} /\ e.block = [d.block EXCEPT ![x] = EmptyIndex]
    BY <1>1, <2>1, WithIndexFacts
  <2>3. e.block[x] = EmptyIndex /\ \A y \in Blocks : y # x => e.block[y] = d.block[y]
    <3>1. d.block \in [Blocks -> Block]
      BY <1>1, DiskParts
    <3> QED
      BY <2>1, <2>2, <3>1
  <2>4. \A y \in Blocks : y \in d.d_bitmap => e.block[y] = d.block[y] /\ y \in e.d_bitmap
    BY <2>1, <2>2, <2>3
  <2>5. \A m \in IndirectSlots : g.indirect[m] # Nil => g.indirect[m] \in Blocks /\ g.indirect[m] \in d.d_bitmap
    BY FileBytes DEF IndexBytes
  <2>6. ASSUME NEW f, NEW l \in FileBlocks, Fewer(f, g) PROVE BlockOf(e, f, l) = BlockOf(d, f, l)
    <3>1. CASE l < NumDirect
      BY <3>1, BlockIs
    <3>2. CASE ~(l < NumDirect)
      <4>1. At(l) \in IndirectSlots
        BY <3>2, BlockPlaces
      <4>2. f.indirect[At(l)] # Nil => f.indirect[At(l)] \in Blocks /\ f.indirect[At(l)] \in d.d_bitmap
        BY <2>5, <2>6, <4>1 DEF Fewer
      <4> QED
        BY <2>4, <3>2, <4>2, BlockIs
    <3> QED
      BY <3>1, <3>2
  <2>7. ASSUME NEW l \in FileBlocks PROVE BlockOf(e, h, l) = BlockOf(d, g, l)
    <3>1. CASE l < NumDirect
      BY <1>3, <3>1, BlockIs
    <3>2. CASE ~(l < NumDirect)
      <4>1. At(l) \in IndirectSlots /\ Sub(l) \in IndexSlots
        BY <3>2, BlockPlaces
      <4>2. CASE At(l) = k
        <5>1. h.indirect[At(l)] = x /\ g.indirect[At(l)] = Nil
          BY <1>3, <2>1, <4>1, <4>2
        <5>2. EmptyIndex.ptr[Sub(l)] = Nil
          BY <4>1 DEF EmptyIndex, IndexSlots
        <5> QED
          BY <2>1, <2>3, <3>2, <5>1, <5>2, BlockIs
      <4>3. CASE At(l) # k
        <5>1. h.indirect[At(l)] = g.indirect[At(l)]
          BY <1>3, <4>1, <4>3
        <5>2. g.indirect[At(l)] # Nil => e.block[g.indirect[At(l)]] = d.block[g.indirect[At(l)]]
          BY <2>4, <2>5, <4>1
        <5> QED
          BY <3>2, <5>1, <5>2, BlockIs
      <4> QED
        BY <4>2, <4>3
    <3> QED
      BY <3>1, <3>2
  <2> QED
    BY <2>4, <2>6, <2>7
<1> QED
  BY <1>4, <1>5

\* A free block is zero, and a block in use is not an index block.
LEMMA FreeIsClear ==
  ASSUME NEW d, NEW ino, NEW g, Sound(d, ino, g), NEW b \in Blocks \ d.d_bitmap
  PROVE  d.block[b] = Zero
<1>1. PICK v : Good(v) /\ v.block = d.block /\ v.d_bitmap = d.d_bitmap
  BY SoundParts
<1> QED
  BY <1>1 DEF Good, FreeZero

\* Block i of the file is b afterwards, and was before if it was there.
LEMMA PtrPlaced ==
  ASSUME NEW d, NEW ino, NEW h, Sound(d, ino, h), NEW i \in FileBlocks, ~(i < NumDirect),
         NEW x, NEW b, NEW e, PtrTaken(d, h, At(i), Sub(i), x, b, e)
  PROVE  /\ \A y \in Blocks \ {x} : e.block[y] = d.block[y]
         /\ \A f : \A l \in FileBlocks : Fewer(f, h) =>
              BlockOf(e, f, l) = BlockOf(d, f, l) \/ (l = i /\ BlockOf(e, f, l) = b /\ BlockOf(d, f, l) = BlockOf(d, h, l))
         /\ BlockOf(e, h, i) = b
         /\ BlockOf(d, h, i) = b \/ (BlockOf(d, h, i) = Nil /\ b \in Blocks \ d.d_bitmap /\ e.block[b] = Zero)
<1> DEFINE k == At(i)
           j == Sub(i)
<1>0. k \in IndirectSlots /\ j \in IndexSlots
  BY BlockPlaces
<1>1. /\ x = h.indirect[k] /\ x # Nil
      /\ b = IF d.block[x].ptr[j] = Nil THEN get_avail_blkno(d) ELSE d.block[x].ptr[j]
      /\ b # Nil /\ e = WithPtr(d, x, j, b)
  BY Zenon DEF PtrTaken
<1>2. BlockOf(d, h, i) = d.block[x].ptr[j]
  <2>1. BlockOf(d, h, i) = IF h.indirect[k] = Nil THEN Nil ELSE d.block[h.indirect[k]].ptr[j]
    BY BlockIs
  <2> HIDE DEF k, j
  <2> QED
    BY <1>1, <2>1
<1> HIDE DEF k, j
<1>3. d \in Disk /\ IndexBytes(d, x)
  BY <1>0, <1>1, FileBytes DEF Sound
<1>4. x \in d.d_bitmap /\ x \in Blocks /\ d.block[x].as = "index"
  BY <1>3 DEF IndexBytes
<1>5. d.block[x].ptr \in [IndexSlots -> Pointer]
  BY <1>3, <1>4, IndexTyped
<1>6. b \in Blocks /\ (d.block[x].ptr[j] = Nil => b \notin d.d_bitmap) /\ (d.block[x].ptr[j] # Nil => b = d.block[x].ptr[j])
  BY <1>0, <1>1, <1>5, AvailFacts DEF Pointer
<1>7. e.block[x] = PtrSet(d.block[x].ptr, j, b) /\ \A y \in Blocks \ {x} : e.block[y] = d.block[y]
  <2>1. e = WithPtr(d, x, j, b)
    BY <1>1
  <2> QED
    BY <1>0, <1>3, <1>4, <1>6, <2>1, WithPtrFacts
<1>8. \A s \in IndexSlots : e.block[x].ptr[s] = IF s = j THEN b ELSE d.block[x].ptr[s]
  BY <1>5, <1>7 DEF PtrSet
<1>9. \A m \in IndirectSlots : h.indirect[m] # Nil => h.indirect[m] \in Blocks
  BY FileBytes DEF IndexBytes
<1>10. ASSUME NEW f, NEW l \in FileBlocks, Fewer(f, h)
       PROVE  BlockOf(e, f, l) = BlockOf(d, f, l) \/ (l = i /\ BlockOf(e, f, l) = b /\ BlockOf(d, f, l) = BlockOf(d, h, l))
  <2>1. CASE l < NumDirect
    BY <2>1, BlockIs
  <2>2. CASE ~(l < NumDirect)
    <3> DEFINE z == f.indirect[At(l)]
    <3>1. At(l) \in IndirectSlots /\ Sub(l) \in IndexSlots
      BY <2>2, BlockPlaces
    <3>2. z \in {Nil, h.indirect[At(l)]}
      BY <1>10, <3>1 DEF Fewer
    <3>3. /\ BlockOf(e, f, l) = IF z = Nil THEN Nil ELSE e.block[z].ptr[Sub(l)]
          /\ BlockOf(d, f, l) = IF z = Nil THEN Nil ELSE d.block[z].ptr[Sub(l)]
      BY <2>2, BlockIs
    <3>4. ASSUME z = x PROVE At(l) = k
      <4>1. h.indirect[At(l)] = h.indirect[k] /\ h.indirect[k] # Nil
        BY <1>1, <3>2, <3>4
      <4> QED
        BY <1>0, <3>1, <4>1, IndexesDiffer
    <3> HIDE DEF z
    <3>5. CASE z = x /\ Sub(l) = j
      <4>1. l = i
        BY <2>2, <3>4, <3>5, BlockPlaces DEF k, j
      <4>2. BlockOf(d, f, l) = BlockOf(d, h, l)
        BY <1>1, <1>2, <3>3, <3>5, <4>1
      <4> QED
        BY <1>1, <1>8, <3>1, <3>3, <3>5, <4>1, <4>2
    <3>6. CASE z = x /\ Sub(l) # j
      BY <1>8, <3>1, <3>3, <3>6
    <3>7. CASE z # x
      BY <1>7, <1>9, <3>1, <3>2, <3>3, <3>7
    <3> QED
      BY <3>5, <3>6, <3>7
  <2> QED
    BY <2>1, <2>2
<1>11. BlockOf(e, h, i) = b
  <2>1. BlockOf(e, h, i) = e.block[x].ptr[j]
    <3>1. BlockOf(e, h, i) = IF h.indirect[k] = Nil THEN Nil ELSE e.block[h.indirect[k]].ptr[j]
      BY BlockIs DEF k, j
    <3> QED
      BY <1>1, <3>1
  <2> QED
    BY <1>0, <1>8, <2>1
<1>12. BlockOf(d, h, i) = b \/ (BlockOf(d, h, i) = Nil /\ b \in Blocks \ d.d_bitmap /\ e.block[b] = Zero)
  <2>1. CASE d.block[x].ptr[j] # Nil
    BY <1>2, <1>6, <2>1
  <2>2. CASE d.block[x].ptr[j] = Nil
    <3>1. b \in Blocks \ d.d_bitmap /\ b # x
      BY <1>4, <1>6, <2>2
    <3>2. d.block[b] = Zero
      BY <3>1, FreeIsClear
    <3> QED
      BY <1>2, <1>7, <2>2, <3>1, <3>2
  <2> QED
    BY <2>1, <2>2
<1> QED
  BY <1>7, <1>10, <1>11, <1>12

\* What the block for block i of the inode g in memory changes for g and for the inode on the disk.
BlockTaken(d, g, i, r) ==
  /\ \A y \in Blocks : y \in d.d_bitmap /\ (\A k \in IndirectSlots : y # g.indirect[k]) =>
       r.disk.block[y] = d.block[y]
  /\ \A f : \A l \in FileBlocks : Fewer(f, g) =>
       \/ BlockOf(r.disk, f, l) = BlockOf(d, f, l)
       \/ /\ l = i /\ r.ret = "ok"
          /\ BlockOf(r.disk, f, l) = r.blk /\ BlockOf(d, f, l) = BlockOf(d, g, l)
  /\ r.ret = "ok" =>
       /\ \A l \in FileBlocks : BlockOf(r.disk, r.inode, l) = IF l = i THEN r.blk ELSE BlockOf(d, g, l)
       /\ \/ BlockOf(d, g, i) = r.blk
          \/ BlockOf(d, g, i) = Nil /\ r.blk \in Blocks \ d.d_bitmap /\ r.disk.block[r.blk] = Zero

LEMMA DirectTaken ==
  ASSUME NEW d, NEW ino, NEW g, Sound(d, ino, g), NEW i \in FileBlocks, i < NumDirect,
         NEW r, r = DirectBlock(d, g, i)
  PROVE  BlockTaken(d, g, i, r)
<1> DEFINE b == IF g.direct[i] = Nil THEN get_avail_blkno(d) ELSE g.direct[i]
           h == WithDirect(g, i, b)
<1>1. /\ r.ret = IF b = Nil THEN "short" ELSE "ok"
      /\ r.disk = IF b = Nil THEN d ELSE Marked(d, b)
      /\ r.inode = h /\ r.blk = b
  BY DEF DirectBlock, Marked, WithDirect
<1>2. d \in Disk /\ g \in Inode /\ i \in DirectSlots
  BY BlockPlaces DEF Sound
<1>3. g.direct[i] \in Pointer /\ b \in Pointer
  <2>1. g.direct[i] \in Pointer
    BY <1>2, InodeParts
  <2>2. get_avail_blkno(d) \in Pointer
    BY AvailFacts DEF Pointer
  <2> QED
    BY <2>1, <2>2
<1>4. g.direct[i] # b => g.direct[i] = Nil /\ (b # Nil => b \in Blocks \ d.d_bitmap)
  BY AvailFacts
<1>5. h = WithDirect(g, i, b)
  OBVIOUS
<1> HIDE DEF b, h
<1>6. h.indirect = g.indirect /\ \A l \in DirectSlots : h.direct[l] = IF l = i THEN b ELSE g.direct[l]
  <2>1. h.indirect = g.indirect /\ h.direct = [g.direct EXCEPT ![i] = b]
    BY <1>2, <1>3, <1>5, PointerSet
  <2>2. g.direct \in [DirectSlots -> Pointer]
    BY <1>2, InodeParts
  <2> QED
    BY <2>1, <2>2
<1>7. r.disk.block = d.block
  BY <1>1, <1>2, <1>3, MarkedFacts DEF Pointer
<1>8. \A f : \A l \in FileBlocks : BlockOf(r.disk, f, l) = BlockOf(d, f, l)
  BY <1>7 DEF BlockOf
<1>9. ASSUME NEW l \in FileBlocks PROVE BlockOf(r.disk, h, l) = IF l = i THEN b ELSE BlockOf(d, g, l)
  <2>1. CASE l < NumDirect
    BY <1>6, <2>1, BlockPlaces, BlockIs
  <2>2. CASE ~(l < NumDirect)
    BY <1>6, <1>7, <2>2, BlockIs
  <2> QED
    BY <2>1, <2>2
<1>10. BlockOf(d, g, i) = g.direct[i]
  BY BlockIs
<1>11. b \in Blocks \ d.d_bitmap => d.block[b] = Zero
  BY FreeIsClear
<1> QED
  BY <1>1, <1>4, <1>7, <1>8, <1>9, <1>10, <1>11 DEF BlockTaken

LEMMA IndirectTaken ==
  ASSUME NEW d, NEW ino, NEW g, Sound(d, ino, g), NEW i \in FileBlocks, ~(i < NumDirect),
         NEW r, r = IndirectBlock(d, g, i)
  PROVE  BlockTaken(d, g, i, r)
<1> DEFINE k  == At(i)
           j  == Sub(i)
           x  == IF g.indirect[k] = Nil THEN get_avail_blkno(d) ELSE g.indirect[k]
           d1 == WithIndex(d, g, k, x)
           b  == IF x = Nil THEN Nil
                 ELSE IF d1.block[x].ptr[j] = Nil THEN get_avail_blkno(d1) ELSE d1.block[x].ptr[j]
           h  == WithIndirect(g, k, x)
           e  == IF b = Nil THEN d1 ELSE WithPtr(d1, x, j, b)
<1>1. /\ r.ret = IF b = Nil THEN "ENOSPC" ELSE "ok"
      /\ r.disk = e /\ r.inode = h /\ r.blk = b
  BY DEF IndirectBlock, WithIndex, WithPtr, WithIndirect, At, Sub
<1>2. k \in IndirectSlots /\ j \in IndexSlots
  BY BlockPlaces
<1>3. /\ x = IF g.indirect[k] = Nil THEN get_avail_blkno(d) ELSE g.indirect[k]
      /\ d1 = WithIndex(d, g, k, x) /\ h = WithIndirect(g, k, x)
  OBVIOUS
<1>4. b = Nil => e = d1
  OBVIOUS
<1>5. b # Nil => /\ x # Nil /\ e = WithPtr(d1, x, j, b)
                 /\ b = IF d1.block[x].ptr[j] = Nil THEN get_avail_blkno(d1) ELSE d1.block[x].ptr[j]
  OBVIOUS
<1>6. g.indirect[k] # x => g.indirect[k] = Nil /\ (x # Nil => x \in Blocks \ d.d_bitmap)
  BY AvailFacts
<1>7. k = At(i) /\ j = Sub(i)
  OBVIOUS
<1> HIDE DEF k, j, x, d1, b, h, e
<1>8. Sound(d1, ino, h) /\ Fewer(g, h) /\ x \in Pointer /\ h.indirect[k] = x
  BY <1>2, <1>3, IndexSound
<1>9. /\ \A y \in Blocks : y \in d.d_bitmap => d1.block[y] = d.block[y] /\ y \in d1.d_bitmap
      /\ \A f : \A l \in FileBlocks : Fewer(f, g) => BlockOf(d1, f, l) = BlockOf(d, f, l)
      /\ \A l \in FileBlocks : BlockOf(d1, h, l) = BlockOf(d, g, l)
  BY <1>2, <1>3, IndexTaken
<1>10. CASE b = Nil
  BY <1>1, <1>4, <1>9, <1>10 DEF BlockTaken
<1>11. CASE b # Nil
  <2>1. PtrTaken(d1, h, At(i), Sub(i), x, b, e)
    BY <1>5, <1>7, <1>8, <1>11, Zenon DEF PtrTaken
  <2>2. /\ \A y \in Blocks \ {x} : e.block[y] = d1.block[y]
        /\ \A f : \A l \in FileBlocks : Fewer(f, h) =>
             BlockOf(e, f, l) = BlockOf(d1, f, l) \/ (l = i /\ BlockOf(e, f, l) = b /\ BlockOf(d1, f, l) = BlockOf(d1, h, l))
        /\ BlockOf(e, h, i) = b
        /\ BlockOf(d1, h, i) = b \/ (BlockOf(d1, h, i) = Nil /\ b \in Blocks \ d1.d_bitmap /\ e.block[b] = Zero)
    BY <1>8, <2>1, PtrPlaced
  <2>3. ASSUME NEW y \in Blocks, y \in d.d_bitmap, \A m \in IndirectSlots : y # g.indirect[m]
        PROVE  e.block[y] = d.block[y]
    <3>1. y # x
      BY <1>2, <1>5, <1>6, <1>11, <2>3
    <3> QED
      BY <1>9, <2>2, <2>3, <3>1
  <2>4. ASSUME NEW f, NEW l \in FileBlocks, Fewer(f, g)
        PROVE  BlockOf(e, f, l) = BlockOf(d, f, l) \/ (l = i /\ BlockOf(e, f, l) = b /\ BlockOf(d, f, l) = BlockOf(d, g, l))
    <3>1. Fewer(f, h)
      BY <1>8, <2>4, FewerTrans
    <3> QED
      BY <1>9, <2>2, <2>4, <3>1
  <2>5. ASSUME NEW l \in FileBlocks PROVE BlockOf(e, h, l) = IF l = i THEN b ELSE BlockOf(d, g, l)
    <3>1. Fewer(h, h)
      BY <1>8, FewerSelf DEF Sound
    <3> QED
      BY <1>9, <2>2, <3>1
  <2>6. BlockOf(d, g, i) = b \/ (BlockOf(d, g, i) = Nil /\ b \in Blocks \ d.d_bitmap /\ e.block[b] = Zero)
    BY <1>9, <2>2
  <2>7. r.ret = "ok" /\ r.disk = e /\ r.inode = h /\ r.blk = b
    BY <1>1, <1>11
  <2> QED
    BY <2>3, <2>4, <2>5, <2>6, <2>7 DEF BlockTaken
<1> QED
  BY <1>10, <1>11

LEMMA FileBlockTaken ==
  ASSUME NEW d, NEW ino, NEW g, Sound(d, ino, g), NEW i \in FileBlocks, NEW r, r = FileBlock(d, g, i)
  PROVE  BlockTaken(d, g, i, r)
BY DirectTaken, IndirectTaken DEF FileBlock

\* An inode with fewer pointers leads to fewer blocks.
LEMMA FewerBlock ==
  ASSUME NEW d, NEW f, NEW g, Fewer(f, g), NEW l \in FileBlocks
  PROVE  BlockOf(d, f, l) \in {Nil, BlockOf(d, g, l)}
<1>1. CASE l < NumDirect
  BY <1>1, BlockPlaces, BlockIs DEF Fewer
<1>2. CASE ~(l < NumDirect)
  <2>1. f.indirect[At(l)] \in {Nil, g.indirect[At(l)]}
    BY <1>2, BlockPlaces DEF Fewer
  <2> QED
    BY <1>2, <2>1, BlockIs
<1> QED
  BY <1>1, <1>2

\* Taking a block changes no word: a new block is zero.
LEMMA TakenWords ==
  ASSUME NEW d, NEW ino, NEW g, Sound(d, ino, g), NEW i \in FileBlocks, NEW r, BlockTaken(d, g, i, r),
         NEW j \in Places
  PROVE  /\ \A f : Fewer(f, g) => WordAt(r.disk, f, j) = WordAt(d, f, j)
         /\ r.ret = "ok" => WordAt(r.disk, r.inode, j) = WordAt(d, g, j)
<1> DEFINE l == j \div BlockSize
           o == j % BlockSize
<1>1. l \in FileBlocks /\ o \in 0..(BlockSize - 1)
  BY PlaceFacts
<1>2. \A D, F : WordAt(D, F, j) = IF BlockOf(D, F, l) = Nil THEN "zero" ELSE D.block[BlockOf(D, F, l)].val[o]
  BY DEF WordAt, WordOf
<1>3. \A m \in FileBlocks : BlockOf(d, g, m) # Nil =>
        /\ BlockOf(d, g, m) \in Blocks /\ BlockOf(d, g, m) \in d.d_bitmap
        /\ r.disk.block[BlockOf(d, g, m)] = d.block[BlockOf(d, g, m)]
  <2> SUFFICES ASSUME NEW m \in FileBlocks, BlockOf(d, g, m) # Nil
               PROVE  /\ BlockOf(d, g, m) \in Blocks /\ BlockOf(d, g, m) \in d.d_bitmap
                      /\ r.disk.block[BlockOf(d, g, m)] = d.block[BlockOf(d, g, m)]
    OBVIOUS
  <2> DEFINE b == BlockOf(d, g, m)
  <2>1. b \in Blocks /\ b \in d.d_bitmap /\ d.block[b].as = "bytes"
    BY BlockFacts
  <2> HIDE DEF b
  <2>2. \A k \in IndirectSlots : g.indirect[k] # b
    <3>1. b # Nil
      BY <2>1, Constants
    <3>2. \A k \in IndirectSlots : g.indirect[k] # Nil => IndexBytes(d, g.indirect[k])
      BY FileBytes
    <3> QED
      BY <2>1, <3>1, <3>2 DEF IndexBytes
  <2> QED
    BY <2>1, <2>2 DEF BlockTaken, b
<1> HIDE DEF l, o
<1>4. ASSUME NEW f, Fewer(f, g) PROVE WordAt(r.disk, f, j) = WordAt(d, f, j)
  <2>1. BlockOf(d, f, l) \in {Nil, BlockOf(d, g, l)}
    BY <1>1, <1>4, FewerBlock
  <2>2. \/ BlockOf(r.disk, f, l) = BlockOf(d, f, l)
        \/ l = i /\ r.ret = "ok" /\ BlockOf(r.disk, f, l) = r.blk /\ BlockOf(d, f, l) = BlockOf(d, g, l)
    BY <1>1, <1>4 DEF BlockTaken
  <2>3. CASE BlockOf(r.disk, f, l) = BlockOf(d, f, l)
    BY <1>1, <1>2, <1>3, <2>1, <2>3
  <2>4. CASE BlockOf(r.disk, f, l) # BlockOf(d, f, l)
    <3>1. l = i /\ r.ret = "ok" /\ BlockOf(r.disk, f, l) = r.blk /\ BlockOf(d, f, l) = BlockOf(d, g, l)
      BY <2>2, <2>4
    <3>2. BlockOf(d, g, i) = Nil /\ r.disk.block[r.blk] = Zero
      BY <2>4, <3>1 DEF BlockTaken
    <3>3. Zero.val[o] = "zero"
      BY <1>1 DEF Zero
    <3> QED
      BY <1>2, <3>1, <3>2, <3>3
  <2> QED
    BY <2>3, <2>4
<1>5. ASSUME r.ret = "ok" PROVE WordAt(r.disk, r.inode, j) = WordAt(d, g, j)
  <2>1. /\ BlockOf(r.disk, r.inode, l) = IF l = i THEN r.blk ELSE BlockOf(d, g, l)
        /\ \/ BlockOf(d, g, i) = r.blk
           \/ BlockOf(d, g, i) = Nil /\ r.blk \in Blocks \ d.d_bitmap /\ r.disk.block[r.blk] = Zero
    BY <1>1, <1>5 DEF BlockTaken
  <2>2. CASE BlockOf(r.disk, r.inode, l) = BlockOf(d, g, l)
    BY <1>1, <1>2, <1>3, <2>2
  <2>3. CASE BlockOf(r.disk, r.inode, l) # BlockOf(d, g, l)
    <3>1. l = i /\ BlockOf(r.disk, r.inode, l) = r.blk /\ BlockOf(d, g, i) = Nil /\ r.blk \in Blocks
          /\ r.disk.block[r.blk] = Zero
      BY <2>1, <2>3
    <3>2. r.blk # Nil
      BY <3>1, Constants
    <3>3. Zero.val[o] = "zero"
      BY <1>1 DEF Zero
    <3> QED
      BY <1>2, <3>1, <3>2, <3>3
  <2> QED
    BY <2>2, <2>3
<1> QED
  BY <1>4, <1>5

\* The words of a block are replaced.
LEMMA WithWordsFacts ==
  ASSUME NEW d \in Disk, NEW b \in Blocks, d.block[b].as = "bytes", NEW val, NEW e, e = WithWords(d, b, val)
  PROVE  /\ e.inode = d.inode /\ e.block[b].val = val
         /\ \A y \in Blocks \ {b} : e.block[y] = d.block[y]
<1>1. d.block \in [Blocks -> Block]
  BY DiskParts
<1> DEFINE z == d.block[b]
           K == [d.block EXCEPT ![b] = [z EXCEPT !.val = val]]
<1>2. z \in Block /\ z.as = "bytes"
  BY <1>1
<1>3. e = [d EXCEPT !.block = K]
  BY DEF WithWords
<1> HIDE DEF z
<1>4. z = [as |-> "bytes", val |-> z.val]
  BY <1>2, BlockParts, Zenon
<1>5. [z EXCEPT !.val = val].val = val
  BY <1>4
<1>6. K[b].val = val /\ \A y \in Blocks \ {b} : K[y] = d.block[y]
  BY <1>1, <1>5
<1> HIDE DEF K
<1>7. e.inode = d.inode /\ e.block = K
  BY <1>3 DEF Disk
<1> QED
  BY <1>6, <1>7

\* A block's new words are the words of the file, in every inode that leads to it.
LEMMA WordsWritten ==
  ASSUME NEW d, NEW ino, NEW h, Sound(d, ino, h), NEW i \in FileBlocks, NEW b, b = BlockOf(d, h, i), b # Nil,
         NEW val, NEW e, e = WithWords(d, b, val), NEW f, Fewer(f, h), NEW j \in Places
  PROVE  WordAt(e, f, j) = IF j \div BlockSize = i /\ BlockOf(d, f, i) = b THEN val[j % BlockSize]
                           ELSE WordAt(d, f, j)
<1> DEFINE l == j \div BlockSize
           o == j % BlockSize
<1>1. l \in FileBlocks /\ o \in 0..(BlockSize - 1)
  BY PlaceFacts
<1>2. \A D, F : WordAt(D, F, j) = IF BlockOf(D, F, l) = Nil THEN "zero" ELSE D.block[BlockOf(D, F, l)].val[o]
  BY DEF WordAt, WordOf
<1>3. d \in Disk /\ b \in Blocks /\ d.block[b].as = "bytes"
  BY BlockFacts DEF Sound
<1>4. e.block[b].val = val /\ \A y \in Blocks \ {b} : e.block[y] = d.block[y]
  BY <1>3, WithWordsFacts
<1>5. BlockOf(e, f, l) = BlockOf(d, f, l)
  <2>1. CASE l < NumDirect
    BY <1>1, <2>1, BlockIs
  <2>2. CASE ~(l < NumDirect)
    <3> DEFINE x == f.indirect[At(l)]
    <3>1. x \in {Nil, h.indirect[At(l)]}
      BY <1>1, <2>2, BlockPlaces DEF Fewer
    <3>2. x # Nil => x \in Blocks /\ d.block[x].as = "index"
      BY <1>1, <2>2, <3>1, BlockFacts
    <3>3. x # Nil => e.block[x] = d.block[x]
      BY <1>3, <1>4, <3>2
    <3>4. /\ BlockOf(e, f, l) = IF x = Nil THEN Nil ELSE e.block[x].ptr[Sub(l)]
          /\ BlockOf(d, f, l) = IF x = Nil THEN Nil ELSE d.block[x].ptr[Sub(l)]
      BY <1>1, <2>2, BlockIs
    <3> HIDE DEF x
    <3> QED
      BY <3>3, <3>4
  <2> QED
    BY <2>1, <2>2
<1>6. BlockOf(d, f, l) \in {Nil, BlockOf(d, h, l)}
  BY <1>1, FewerBlock
<1>7. BlockOf(d, f, l) # Nil => BlockOf(d, f, l) \in Blocks
  BY <1>1, <1>6, BlockFacts
<1>8. BlockOf(d, f, l) = b => l = i
  <2> SUFFICES ASSUME BlockOf(d, f, l) = b PROVE l = i
    OBVIOUS
  <2>1. BlockOf(d, h, l) = BlockOf(d, h, i) /\ BlockOf(d, h, l) # Nil
    BY <1>6
  <2> QED
    BY <1>1, <2>1, BlocksDiffer
<1> HIDE DEF l, o
<1>9. WordAt(e, f, j) = IF l = i /\ BlockOf(d, f, i) = b THEN val[o] ELSE WordAt(d, f, j)
  BY <1>2, <1>4, <1>5, <1>7, <1>8
<1> QED
  BY <1>9 DEF l, o

-----------------------------------------------------------------------------
\* The words of a round.

Asked(c)   == c.off..(c.off + Len(c.words) - 1)
InRound(c) == Piece(c.off, Len(c.words), c.done)

\* The block of a round, the word it writes at j, and the disk it leaves.
RoundBlock(c)       == c.off \div BlockSize + c.done
RoundWord(c, j)     == c.words[j - PieceStart(c.off, c.done) + 1]
AfterRound(r, c, i) == WithWords(r.disk, r.blk, Merged(r.disk.block[r.blk].val, c, i))

\* A round changes the words it is asked to, in every inode that leads to its block.
LEMMA RoundWords ==
  ASSUME NEW d, NEW ino, NEW g, Sound(d, ino, g), NEW c, NEW i \in FileBlocks, i = RoundBlock(c),
         NEW r, BlockTaken(d, g, i, r), BlockFound(d, ino, g, r), r.ret = "ok",
         NEW e, e = AfterRound(r, c, i), NEW j \in Places
  PROVE  /\ WordAt(e, r.inode, j) = IF j \in InRound(c) THEN RoundWord(c, j) ELSE WordAt(d, g, j)
         /\ \A f : Fewer(f, g) =>
              WordAt(e, f, j) = IF j \in InRound(c) /\ BlockOf(r.disk, f, i) = r.blk
                                THEN RoundWord(c, j) ELSE WordAt(d, f, j)
<1> DEFINE l == j \div BlockSize
           o == j % BlockSize
           h == r.inode
           b == r.blk
           old == r.disk.block[b].val
           word == RoundWord(c, j)
<1>1. l \in FileBlocks /\ o \in 0..(BlockSize - 1) /\ j = l * BlockSize + o
  BY PlaceFacts
<1>2. Sound(r.disk, ino, h) /\ Fewer(g, h) /\ b \in Blocks
  BY DEF BlockFound
<1>3. Fewer(h, h)
  BY <1>2, FewerSelf DEF Sound
<1>4. b # Nil /\ b = BlockOf(r.disk, h, i)
  BY <1>2, Constants DEF BlockTaken
<1>5. j \in InRound(c) => l = i
  BY DEF InRound, Piece, RoundBlock
<1>6. l = i => Merged(old, c, i)[o] = IF j \in InRound(c) THEN word ELSE old[o]
  <2> SUFFICES ASSUME l = i PROVE Merged(old, c, i)[o] = IF j \in InRound(c) THEN word ELSE old[o]
    OBVIOUS
  <2>1. i * BlockSize + o = j
    BY <1>1
  <2>2. Merged(old, c, i)[o] =
          IF i * BlockSize + o \in InRound(c)
          THEN c.words[(i * BlockSize + o) - PieceStart(c.off, c.done) + 1] ELSE old[o]
    BY <1>1, Zenon DEF Merged, InRound
  <2> QED
    BY <2>1, <2>2 DEF RoundWord
<1>7. ASSUME NEW F, Fewer(F, h)
      PROVE  WordAt(e, F, j) = IF j \in InRound(c) /\ BlockOf(r.disk, F, i) = b THEN word ELSE WordAt(r.disk, F, j)
  <2>1. WordAt(e, F, j) = IF l = i /\ BlockOf(r.disk, F, i) = b THEN Merged(old, c, i)[o] ELSE WordAt(r.disk, F, j)
    <3> DEFINE val == Merged(old, c, i)
               D == r.disk
    <3>1. Sound(D, ino, h) /\ Fewer(F, h) /\ b = BlockOf(D, h, i) /\ b # Nil /\ e = WithWords(D, b, val)
      BY <1>2, <1>4, <1>7 DEF AfterRound
    <3> HIDE DEF val, D, old, b, h
    <3>2. WordAt(e, F, j) = IF j \div BlockSize = i /\ BlockOf(D, F, i) = b THEN val[j % BlockSize] ELSE WordAt(D, F, j)
      BY <3>1, WordsWritten
    <3> QED
      BY <3>2 DEF val, D
  <2>2. l = i /\ BlockOf(r.disk, F, i) = b => WordAt(r.disk, F, j) = old[o]
    BY <1>4 DEF WordAt, WordOf
  <2> HIDE DEF old, word, b, h
  <2> QED
    BY <1>5, <1>6, <2>1, <2>2
<1>8. /\ \A f : Fewer(f, g) => WordAt(r.disk, f, j) = WordAt(d, f, j)
      /\ WordAt(r.disk, h, j) = WordAt(d, g, j)
  <2>1. r.ret = "ok"
    OBVIOUS
  <2> QED
    BY <2>1, TakenWords
<1>9. WordAt(e, h, j) = IF j \in InRound(c) THEN word ELSE WordAt(d, g, j)
  BY <1>3, <1>4, <1>7, <1>8
<1>10. ASSUME NEW f, Fewer(f, g)
       PROVE  WordAt(e, f, j) = IF j \in InRound(c) /\ BlockOf(r.disk, f, i) = b THEN word ELSE WordAt(d, f, j)
  <2>1. Fewer(f, h)
    BY <1>2, <1>10, FewerTrans
  <2> QED
    BY <1>7, <1>8, <1>10, <2>1
<1> QED
  BY <1>9, <1>10

\* The numbers of block i.
LEMMA DivIs ==
  ASSUME NEW j \in Nat, NEW i \in Int, NEW B \in Nat \ {0}
  PROVE  j \div B = i <=> i * B <= j /\ j <= i * B + (B - 1)
<1> DEFINE q == j \div B
           m == j % B
<1>1. q \in Int /\ m \in 0..(B - 1) /\ j = B * q + m
  BY DivFacts
<1> HIDE DEF q, m
<1>2. ASSUME q = i PROVE i * B <= j /\ j <= i * B + (B - 1)
  <2>1. i * B = B * q /\ B * q \in Int
    BY <1>1, <1>2
  <2> QED
    BY <1>1, <2>1
<1>3. ASSUME i * B <= j, j <= i * B + (B - 1) PROVE q = i
  <2>1. (i + 1) * B = i * B + B /\ (q + 1) * B = B * q + B /\ B * i = i * B
    BY <1>1
  <2>2. i * B \in Int /\ B * q \in Int
    BY <1>1
  <2>3. B * q < (i + 1) * B /\ B * i < (q + 1) * B
    BY <1>1, <1>3, <2>1, <2>2
  <2>4. i + 1 \in Int /\ q + 1 \in Int
    BY <1>1
  <2>5. q < i + 1
    BY <1>1, <2>3, <2>4, Below
  <2>6. i < q + 1
    BY <2>3, <2>4, Below
  <2> QED
    BY <1>1, <2>5, <2>6
<1>4. q = i <=> i * B <= j /\ j <= i * B + (B - 1)
  BY <1>2, <1>3
<1> QED
  BY <1>4 DEF q

\* A round takes the words from its start to the end of the block or of the request.
LEMMA PieceIs ==
  ASSUME NEW off \in Nat, NEW n \in Nat \ {0}, NEW k \in Nat,
         off \div BlockSize + k <= (off + n - 1) \div BlockSize, NEW a, a = PieceStart(off, k)
  PROVE  \E b \in Nat : /\ Piece(off, n, k) = a..b
                        /\ off <= a /\ a <= b /\ b <= off + n - 1 /\ a \in Nat
<1> DEFINE q == off \div BlockSize
           last == off + n - 1
           i == q + k
           s == i * BlockSize
           t == s + (BlockSize - 1)
           b == IF t <= last THEN t ELSE last
<1>0. BlockSize \in Nat \ {0}
  BY Constants, Zenon
<1>1. last \in Nat /\ off <= last
  OBVIOUS
<1>2. q \in Nat /\ last \div BlockSize \in Int
  <2>1. off \in Int /\ off >= 0 /\ last \in Int
    BY <1>1
  <2>2. q \in Int /\ q >= 0 /\ last \div BlockSize \in Int
    BY <1>0, <2>1, DivFacts
  <2> HIDE DEF q
  <2> QED
    BY <2>2
<1>3. q * BlockSize <= off /\ off <= q * BlockSize + (BlockSize - 1)
  BY <1>0, <1>2, DivIs
<1>4. \A j \in Nat : j \div BlockSize = i <=> s <= j /\ j <= t
  <2>1. i \in Int
    BY <1>2
  <2> HIDE DEF i
  <2> QED
    BY <1>0, <2>1, DivIs
<1>5. s <= last /\ s \in Nat
  <2> DEFINE z == last \div BlockSize
  <2>1. z * BlockSize <= last /\ z \in Int
    BY <1>0, <1>1, <1>2, DivIs
  <2>2. i <= z /\ i \in Nat
    BY <1>2
  <2> HIDE DEF z, i, last
  <2>3. i * BlockSize <= z * BlockSize /\ i * BlockSize \in Nat
    BY <1>0, <2>1, <2>2
  <2>4. z * BlockSize \in Int
    BY <1>0, <2>1
  <2> QED
    BY <1>1, <2>1, <2>3, <2>4
<1>6. off <= a /\ s <= a /\ a <= t /\ a <= last /\ a \in Nat /\ (a = off \/ a = s)
  <2>1. CASE k = 0
    <3>1. a = off /\ i = q
      BY <1>2, <2>1 DEF PieceStart
    <3> HIDE DEF q, last
    <3> QED
      BY <1>1, <1>3, <3>1
  <2>2. CASE k # 0
    <3>1. a = s
      BY <2>2 DEF PieceStart
    <3>2. s > off
      <4>1. k \in Nat \ {0}
        BY <2>2
      <4> QED
        BY <1>0, <4>1, BlockStart
    <3> HIDE DEF s, last
    <3> QED
      BY <1>0, <1>1, <1>5, <3>1, <3>2
  <2> QED
    BY <2>1, <2>2
<1>7. Piece(off, n, k) = {j \in off..last : j \div BlockSize = i}
  BY DEF Piece
<1> HIDE DEF s, last, i, q
<1>8. b \in Nat /\ a <= b /\ b <= last
  BY <1>0, <1>1, <1>5, <1>6
<1>9. {j \in off..last : j \div BlockSize = i} = a..b
  <2>1. \A j \in off..last : j \in Nat
    OBVIOUS
  <2>2. \A j \in a..b : j \in Nat
    BY <1>6
  <2>3. ASSUME NEW j \in off..last, j \div BlockSize = i PROVE j \in a..b
    <3>1. j \in Nat /\ s <= j /\ j <= t
      BY <1>4, <2>1, <2>3
    <3> QED
      BY <1>1, <1>5, <1>6, <1>8, <3>1
  <2>4. ASSUME NEW j \in a..b PROVE j \in off..last /\ j \div BlockSize = i
    <3>1. j \in Nat /\ s <= j /\ j <= t /\ off <= j /\ j <= last
      BY <1>0, <1>1, <1>5, <1>6, <1>8, <2>2
    <3> QED
      BY <1>1, <1>4, <3>1
  <2> QED
    BY <2>3, <2>4
<1> QED
  BY <1>6, <1>7, <1>8, <1>9 DEF last

WordsFrom(e, g, a, b) == [k \in 1..(b - a + 1) |-> WordAt(e, g, a + k - 1)]

\* The content C with words from offset a on.
Overwritten(C, a, words) == {x \in C : x[1] \notin a..(a + Len(words) - 1)}
                              \cup {<<a + k - 1, words[k]>> : k \in DOMAIN words}

\* A file of which the words from a to b are written anew.
LEMMA ContentWritten ==
  ASSUME NEW d, NEW f, NEW e, NEW g, NEW a \in Places, NEW b \in Places, a <= b, b - a + 1 <= MaxRequest,
         \A j \in Places \ (a..b) : WordAt(e, g, j) = WordAt(d, f, j),
         \A j \in a..b : WordAt(e, g, j) \in Data,
         NEW words, words = WordsFrom(e, g, a, b)
  PROVE  words \in Requests /\ ContentIn(e, g) = Overwritten(ContentIn(d, f), a, words)
<1> DEFINE n == b - a + 1
<1>0. words = [k \in 1..n |-> WordAt(e, g, a + k - 1)]
  BY DEF WordsFrom
<1>1. a \in Nat /\ b \in Nat /\ FileWords \in Nat /\ b <= FileWords - 1
  BY PlaceFacts DEF Places
<1>2. n \in Nat /\ n >= 1 /\ n \in 1..MaxRequest
  <2>1. MaxRequest \in Nat
    BY Constants, Zenon
  <2> QED
    BY <1>1, <2>1
<1>3. \A k \in 1..n : a + k - 1 \in a..b
  BY <1>1
<1>4. words \in [1..n -> Data]
  BY <1>0, <1>3
<1>5. words \in Requests
  BY <1>2, <1>4 DEF Requests
<1>6. Len(words) = n /\ DOMAIN words = 1..n
  BY <1>2, <1>4
<1>7. a..(a + Len(words) - 1) = a..b
  BY <1>1, <1>2, <1>6
<1>8. a..b \subseteq Places
  BY <1>1 DEF Places
<1>9. \A w \in Data : w # "zero"
  BY RufsAssumption
<1>10. \A k \in 1..n : words[k] = WordAt(e, g, a + k - 1)
  BY <1>0
<1> HIDE DEF n
<1> DEFINE Old == {x \in ContentIn(d, f) : x[1] \notin a..b}
           New == {<<a + k - 1, words[k]>> : k \in 1..n}
<1>11. ASSUME NEW x \in ContentIn(e, g) PROVE x \in Old \cup New
  <2>1. PICK j \in Places : x = <<j, WordAt(e, g, j)>> /\ WordAt(e, g, j) # "zero"
    BY DEF ContentIn
  <2>2. CASE j \in a..b
    <3>1. j - a + 1 \in 1..n /\ a + (j - a + 1) - 1 = j
      BY <1>1, <2>2 DEF n
    <3> DEFINE k == j - a + 1
    <3>2. k \in 1..n /\ a + k - 1 = j
      BY <3>1
    <3> HIDE DEF k
    <3>3. words[k] = WordAt(e, g, j)
      BY <1>10, <3>2
    <3> QED
      BY <2>1, <3>2, <3>3
  <2>3. CASE j \notin a..b
    <3>1. WordAt(d, f, j) = WordAt(e, g, j)
      BY <2>3
    <3>2. x \in ContentIn(d, f)
      BY <2>1, <3>1 DEF ContentIn
    <3> QED
      BY <2>1, <2>3, <3>2
  <2> QED
    BY <2>2, <2>3
<1>12. ASSUME NEW x \in Old PROVE x \in ContentIn(e, g)
  <2>1. PICK j \in Places : x = <<j, WordAt(d, f, j)>> /\ WordAt(d, f, j) # "zero"
    BY DEF ContentIn
  <2>2. j \notin a..b
    BY <2>1
  <2>3. WordAt(e, g, j) = WordAt(d, f, j)
    BY <2>2
  <2> QED
    BY <2>1, <2>3 DEF ContentIn
<1>13. ASSUME NEW x \in New PROVE x \in ContentIn(e, g)
  <2>1. PICK k \in 1..n : x = <<a + k - 1, words[k]>>
    OBVIOUS
  <2> DEFINE j == a + k - 1
  <2>2. j \in a..b /\ x = <<j, words[k]>> /\ words[k] = WordAt(e, g, j)
    BY <1>3, <1>10, <2>1
  <2> HIDE DEF j
  <2>3. j \in Places /\ WordAt(e, g, j) # "zero"
    BY <1>8, <1>9, <2>2
  <2> QED
    BY <2>2, <2>3 DEF ContentIn
<1>14. ContentIn(e, g) = Old \cup New
  <2> HIDE DEF Old, New
  <2>1. ContentIn(e, g) \subseteq Old \cup New
    BY <1>11
  <2>2. Old \cup New \subseteq ContentIn(e, g)
    BY <1>12, <1>13
  <2> QED
    BY <2>1, <2>2
<1> QED
  BY <1>5, <1>6, <1>7, <1>14 DEF Overwritten

\* Every lookup and every node but the file ino is the same on d and on e.
OthersSame(d, e, ino) ==
  /\ \A m \in InoOrNil, x \in Names : Level(e)[m][x] = Level(d)[m][x]
  /\ \A m \in LiveIn(d) : e.inode[m].type = d.inode[m].type
  /\ \A m \in LiveIn(d) \ {ino} : IsFile(d, m) => \A j \in Places : WordAt(e, e.inode[m], j) = WordAt(d, d.inode[m], j)

LEMMA OthersFacts ==
  ASSUME NEW d, Good(d), NEW e, NEW ino, OthersSame(d, e, ino)
  PROVE  /\ Reached(e) = Reached(d)
         /\ \A q \in Reached(d) : /\ q \in Seq(Names) /\ get_node_by_path(d, q) \in LiveIn(d)
                                  /\ get_node_by_path(d, q) # Nil
                                  /\ get_node_by_path(e, q) = get_node_by_path(d, q)
         /\ \A q \in Reached(d) : get_node_by_path(d, q) # ino => NodeAt(e, q) = NodeAt(d, q)
<1>1. LevelTyped(d)
  BY LevelIsTyped DEF Good
<1>2. \A q \in Seq(Names) : get_node_by_path(e, q) = get_node_by_path(d, q)
  BY <1>1, LookupsKept DEF OthersSame
<1>3. Reached(e) = Reached(d)
  BY <1>2, PathsFacts DEF Reached
<1>4. ASSUME NEW q \in Reached(d) PROVE /\ q \in Seq(Names) /\ get_node_by_path(d, q) \in LiveIn(d)
                                        /\ get_node_by_path(d, q) # Nil
                                        /\ get_node_by_path(e, q) = get_node_by_path(d, q)
  BY <1>2, ReachedFacts
<1>5. ASSUME NEW q \in Reached(d), get_node_by_path(d, q) # ino PROVE NodeAt(e, q) = NodeAt(d, q)
  <2> DEFINE m == get_node_by_path(d, q)
  <2>1. m \in LiveIn(d) /\ m = get_node_by_path(e, q) /\ m # ino
    BY <1>4, <1>5
  <2> HIDE DEF m
  <2>2. e.inode[m].type = d.inode[m].type
    BY <2>1 DEF OthersSame
  <2>3. IsFile(d, m) => \A j \in Places : WordAt(e, e.inode[m], j) = WordAt(d, d.inode[m], j)
    BY <2>1 DEF OthersSame
  <2> QED
    BY <2>1, <2>2, <2>3, NodeKept DEF m
<1> QED
  BY <1>3, <1>4, <1>5

\* The file keeps its words, and with it the tree its nodes.
LEMMA TreeUnchanged ==
  ASSUME NEW d, Good(d), NEW e, NEW ino, OthersSame(d, e, ino),
         \A j \in Places : WordAt(e, e.inode[ino], j) = WordAt(d, d.inode[ino], j)
  PROVE  TreeIn(e) = TreeIn(d)
<1>1. ASSUME NEW q \in Reached(d) PROVE NodeAt(e, q) = NodeAt(d, q)
  <2>1. CASE get_node_by_path(d, q) # ino
    BY <2>1, OthersFacts
  <2>2. CASE get_node_by_path(d, q) = ino
    <3>1. ino \in LiveIn(d) /\ ino = get_node_by_path(d, q) /\ ino = get_node_by_path(e, q)
      BY <2>2, OthersFacts
    <3>2. e.inode[ino].type = d.inode[ino].type
      BY <3>1 DEF OthersSame
    <3> QED
      BY <3>1, <3>2, NodeKept
  <2> QED
    BY <2>1, <2>2
<1> QED
  BY <1>1, OthersFacts, TreeKept

\* The words from a to b of the file are written.
LEMMA TreeChanged ==
  ASSUME NEW d, Good(d), NEW e, NEW ino, OthersSame(d, e, ino), IsFile(d, ino),
         NEW a \in Places, NEW b \in Places, a <= b, b - a + 1 <= MaxRequest,
         \A j \in Places \ (a..b) : WordAt(e, e.inode[ino], j) = WordAt(d, d.inode[ino], j),
         \A j \in a..b : WordAt(e, e.inode[ino], j) \in Data
  PROVE  TreeIn(e) = TreeIn(d) \/ Abstract!Writes(TreeIn(d), TreeIn(e))
<1>1. CASE \A q \in Reached(d) : get_node_by_path(d, q) # ino
  BY <1>1, OthersFacts, TreeKept
<1>2. CASE \E q \in Reached(d) : get_node_by_path(d, q) = ino
  <2>1. PICK p \in Reached(d) : get_node_by_path(d, p) = ino
    BY <1>2
  <2>2. ASSUME NEW q \in Reached(d), q # p PROVE NodeAt(e, q) = NodeAt(d, q)
    <3>1. /\ p \in Seq(Names) /\ q \in Seq(Names)
          /\ get_node_by_path(d, q) # Nil /\ get_node_by_path(d, p) # Nil
      BY OthersFacts
    <3>2. get_node_by_path(d, q) # ino
      BY <2>1, <2>2, <3>1, OnePath
    <3> QED
      BY <3>2, OthersFacts
  <2> DEFINE f == d.inode[ino]
             g == e.inode[ino]
             words == WordsFrom(e, g, a, b)
             n == NodeAt(d, p)
             m == NodeAt(e, p)
  <2>3. f.type = "file" /\ g.type = "file"
    BY DEF OthersSame, IsFile
  <2>4. words \in Requests /\ ContentIn(e, g) = Overwritten(ContentIn(d, f), a, words)
    <3>1. \A j \in Places \ (a..b) : WordAt(e, g, j) = WordAt(d, f, j)
      OBVIOUS
    <3>2. \A j \in a..b : WordAt(e, g, j) \in Data
      OBVIOUS
    <3> HIDE DEF f, g
    <3> QED
      BY <3>1, <3>2, ContentWritten
  <2>5. get_node_by_path(d, p) = ino /\ get_node_by_path(e, p) = ino
    BY <2>1, OthersFacts
  <2> HIDE DEF words, f, g
  <2>6. /\ n = [path |-> p, type |-> "file", content |-> ContentIn(d, f)]
        /\ m = [path |-> p, type |-> "file", content |-> ContentIn(e, g)]
    BY <2>3, <2>5 DEF NodeAt, f, g
  <2> HIDE DEF n, m
  <2>7. m = Abstract!Written(n, a, words)
    <3>1. Abstract!Written(n, a, words) = [n EXCEPT !.content = ContentIn(e, g)]
      <4>1. n.content = ContentIn(d, f)
        BY <2>6
      <4> QED
        BY <2>4, <4>1 DEF Abstract!Written, Overwritten
    <3> QED
      BY <2>6, <3>1
  <2>8. n.type = "file"
    BY <2>6
  <2> QED
    BY <2>1, <2>2, <2>4, <2>7, <2>8, OthersFacts, TreeWritten DEF n, m
<1> QED
  BY <1>1, <1>2

-----------------------------------------------------------------------------
\* What a round leaves to the other files and directories.

LEMMA OthersBlocks ==
  ASSUME NEW d, NEW ino, NEW g, Sound(d, ino, g), NEW i \in FileBlocks,
         NEW r, BlockTaken(d, g, i, r), NEW m \in LiveIn(d) \ {ino}, NEW b \in Blocks, BelongsTo(d, m, b)
  PROVE  r.disk.block[b] = d.block[b] /\ (r.ret = "ok" => b # r.blk)
<1>1. PICK v : /\ Good(v) /\ ino \in LiveIn(v) /\ v.inode[ino] = g /\ v.block = d.block /\ v.d_bitmap = d.d_bitmap
               /\ \A n \in Inos \ {ino} : v.inode[n] = d.inode[n]
  BY SoundParts
<1>2. m \in LiveIn(v) /\ m # ino /\ BelongsTo(v, m, b)
  <2>1. v.inode[m] = d.inode[m]
    BY <1>1 DEF LiveIn
  <2> QED
    BY <1>1, <2>1 DEF LiveIn, BelongsTo
<1>3. b # Nil
  BY Constants
<1>4. b \in d.d_bitmap
  BY <1>1, <1>2, <1>3, OwnMarked
<1>5. ~BelongsTo(v, ino, b)
  BY <1>1, <1>2, <1>3, Apart
<1>6. \A y : Has(d, g, y) <=> BelongsTo(v, ino, y)
  <2>1. v.inode[ino] = g /\ v.block = d.block
    BY <1>1
  <2> QED
    BY <2>1, Zenon DEF Has, BelongsTo
<1>7. \A k \in IndirectSlots : b # g.indirect[k]
  BY <1>5, <1>6 DEF Has
<1>8. r.disk.block[b] = d.block[b]
  BY <1>4, <1>7 DEF BlockTaken
<1>9. ASSUME r.ret = "ok" PROVE b # r.blk
  <2>1. BlockOf(d, g, i) = r.blk \/ r.blk \in Blocks \ d.d_bitmap
    BY <1>9 DEF BlockTaken
  <2>2. BlockOf(d, g, i) # Nil => Has(d, g, BlockOf(d, g, i))
    BY BlockFacts
  <2> QED
    BY <1>3, <1>4, <1>5, <1>6, <2>1, <2>2
<1> QED
  BY <1>8, <1>9

LEMMA OthersStay ==
  ASSUME NEW d, Good(d), NEW ino, IsFile(d, ino), NEW e,
         \A m \in Inos \ {ino} : e.inode[m] = d.inode[m], e.inode[ino].type = "file",
         \A m \in LiveIn(d) \ {ino}, b \in Blocks : BelongsTo(d, m, b) => e.block[b] = d.block[b]
  PROVE  OthersSame(d, e, ino)
<1>1. d \in Disk /\ Dead(d) /\ Shape(d)
  BY DEF Good
<1>2. ASSUME NEW m \in InoOrNil, NEW x \in Names PROVE Level(e)[m][x] = Level(d)[m][x]
  <2>1. CASE m = Nil \/ m = ino \/ d.inode[m].type # "dir"
    <3>1. m # Nil => d.inode[m].type # "dir" /\ e.inode[m].type # "dir"
      BY <2>1 DEF InoOrNil, IsFile
    <3> QED
      BY <3>1 DEF Level, InoOrNil
  <2>2. CASE m # Nil /\ m # ino /\ d.inode[m].type = "dir"
    <3>1. m \in Inos /\ m \in LiveIn(d) \ {ino} /\ e.inode[m] = d.inode[m]
      BY <1>1, <2>2 DEF InoOrNil, Dead
    <3> DEFINE t == d.inode[m].direct[0]
    <3>2. t # Nil /\ BelongsTo(d, m, t)
      BY <1>1, <2>2, <3>1, Constants DEF Shape, DirShape, BelongsTo
    <3>3. t \in Blocks
      <4>1. t \in d.d_bitmap
        BY <3>1, <3>2, OwnMarked
      <4> QED
        BY <1>1, <4>1, DiskParts
    <3>4. e.block[t] = d.block[t]
      BY <3>1, <3>2, <3>3
    <3>5. Table(e, m) = Table(d, m)
      BY <3>1, <3>4 DEF Table
    <3>6. dir_find(e, m, x) = dir_find(d, m, x)
      BY <3>5 DEF dir_find, Slot
    <3> QED
      BY <3>1, <3>6 DEF Level, InoOrNil
  <2> QED
    BY <2>1, <2>2
<1>3. ASSUME NEW m \in LiveIn(d) PROVE e.inode[m].type = d.inode[m].type
  <2>1. m \in Inos
    BY DEF LiveIn
  <2> QED
    BY <2>1 DEF IsFile
<1>4. ASSUME NEW m \in LiveIn(d) \ {ino}, IsFile(d, m), NEW j \in Places
      PROVE  WordAt(e, e.inode[m], j) = WordAt(d, d.inode[m], j)
  <2>1. e.inode[m] = d.inode[m]
    BY DEF LiveIn
  <2>2. \A b \in Blocks : BelongsTo(d, m, b) => e.block[b] = d.block[b]
    OBVIOUS
  <2> DEFINE f == d.inode[m]
             g == e.inode[m]
  <2>3. f = d.inode[m] /\ g.direct = f.direct /\ g.indirect = f.indirect
    BY <2>1
  <2> HIDE DEF f, g
  <2>4. WordAt(e, g, j) = WordAt(d, f, j)
    BY <1>4, <2>2, <2>3, WordsKept
  <2> QED
    BY <2>4 DEF f, g
<1> QED
  BY <1>2, <1>3, <1>4 DEF OthersSame

-----------------------------------------------------------------------------
\* What a write has done before a round.

\* The inode in memory leads to the words of the file, except where the request goes, and to the
\* client's data where the rounds so far went.
CallWords(c, d) ==
  /\ \A j \in Places \ Asked(c) : WordAt(d, c.inode, j) = WordAt(d, d.inode[c.ino], j)
  /\ \A j \in Asked(c) : j \div BlockSize < c.off \div BlockSize + c.done => WordAt(d, c.inode, j) \in Data

\* The round r of c on d, in the numbers of its words.
LEMMA AskedFacts ==
  ASSUME NEW c, WriteSound(c)
  PROVE  /\ c.off \in Nat /\ Len(c.words) \in Nat \ {0} /\ Len(c.words) <= MaxRequest /\ c.done \in Nat
         /\ c.words \in [1..Len(c.words) -> Data]
         /\ c.off \div BlockSize + c.done \in FileBlocks
         /\ Asked(c) \subseteq Places
         /\ c.off + Len(c.words) - 1 \in Places /\ c.off \in Places
         /\ \E a \in Nat, b \in Nat : /\ InRound(c) = a..b /\ a = PieceStart(c.off, c.done)
                                      /\ c.off <= a /\ a <= b /\ b <= c.off + Len(c.words) - 1
<1> DEFINE off == c.off
           n == Len(c.words)
           k == c.done
<1>1. /\ c \in Rounds /\ off + n <= FileWords
      /\ off \div BlockSize + k <= (off + n - 1) \div BlockSize
  BY DEF WriteSound
<1>2. c.words \in Requests /\ off \in 0..(FileWords - 1) /\ k \in 0..MaxRequest
  BY <1>1 DEF Rounds
<1>3. MaxRequest \in Nat /\ FileWords \in Nat
  <2>1. MaxRequest \in Nat
    BY Constants, Zenon
  <2> QED
    BY <2>1, PlaceFacts
<1>4. n \in 1..MaxRequest /\ c.words \in [1..n -> Data]
  <2>1. PICK s \in 1..MaxRequest : c.words \in [1..s -> Data]
    BY <1>2 DEF Requests
  <2>2. s \in Nat
    BY <1>3
  <2> QED
    BY <2>1, <2>2
<1>5. off \in Nat /\ k \in Nat /\ n \in Nat \ {0} /\ n <= MaxRequest
  BY <1>2, <1>3, <1>4
<1>6. off \div BlockSize + k \in FileBlocks
  <2> DEFINE i == off \div BlockSize + k
  <2>1. i \in Nat /\ i < NumDirect + NumIndirect * IndirectCap
    BY RoundFacts
  <2>2. NumDirect \in Nat /\ NumIndirect \in Nat /\ IndirectCap \in Nat
    BY Constants, Zenon
  <2> DEFINE N == NumDirect + NumIndirect * IndirectCap
  <2>3. N \in Nat /\ FileBlocks = 0..(N - 1) /\ i < N
    BY <2>1, <2>2 DEF FileBlocks
  <2> HIDE DEF i, N
  <2>4. i \in FileBlocks
    BY <2>1, <2>3
  <2> QED
    BY <2>4 DEF i
<1>7. Asked(c) \subseteq Places /\ off + n - 1 \in Places /\ off \in Places
  BY <1>1, <1>3, <1>5 DEF Asked, Places
<1>8. PICK b \in Nat : /\ Piece(off, n, k) = PieceStart(off, k)..b
                       /\ off <= PieceStart(off, k) /\ PieceStart(off, k) <= b /\ b <= off + n - 1
                       /\ PieceStart(off, k) \in Nat
  BY <1>1, <1>5, PieceIs
<1> QED
  BY <1>4, <1>5, <1>6, <1>7, <1>8 DEF InRound

\* The step of the tree that a step of the disk is.
TreeStep(d, e) == \/ TreeIn(e) = TreeIn(d)
                  \/ Abstract!Adds(TreeIn(d), TreeIn(e))
                  \/ Abstract!Removes(TreeIn(d), TreeIn(e))
                  \/ Abstract!Writes(TreeIn(d), TreeIn(e))

\* The words after a round on the disk D, with h for the inode in memory and f on the disk.
LEMMA RoundSoFar ==
  ASSUME NEW d, NEW c, WriteSound(c), CallWords(c, d), NEW g, g = c.inode, NEW f, f = d.inode[c.ino],
         Sound(d, c.ino, g), Fewer(f, g), NEW i, i = RoundBlock(c),
         NEW r, r = FileBlock(d, g, i), BlockFound(d, c.ino, g, r), r.ret = "ok",
         NEW D, D = AfterRound(r, c, i)
  PROVE  /\ \A j \in Places \ InRound(c) : /\ WordAt(D, f, j) = WordAt(d, f, j)
                                           /\ WordAt(D, r.inode, j) = WordAt(d, g, j)
         /\ \A j \in InRound(c) : /\ WordAt(D, r.inode, j) \in Data
                                  /\ WordAt(D, f, j) = IF BlockOf(r.disk, f, i) = r.blk
                                                       THEN WordAt(D, r.inode, j) ELSE WordAt(d, f, j)
         /\ \A j \in Places \ Asked(c) : WordAt(D, r.inode, j) = WordAt(d, f, j)
         /\ \A j \in Asked(c) : j \div BlockSize <= i => WordAt(D, r.inode, j) \in Data
<1>1. /\ c.off \in Nat /\ Len(c.words) \in Nat \ {0} /\ c.done \in Nat
      /\ c.words \in [1..Len(c.words) -> Data]
      /\ i \in FileBlocks /\ Asked(c) \subseteq Places
  BY AskedFacts DEF RoundBlock
<1>2. PICK a \in Nat, b \in Nat : /\ InRound(c) = a..b /\ a = PieceStart(c.off, c.done)
                                  /\ c.off <= a /\ a <= b /\ b <= c.off + Len(c.words) - 1
  BY AskedFacts
<1>3. InRound(c) \subseteq Asked(c) /\ \A j \in Asked(c) \ InRound(c) : j \div BlockSize # i
  BY DEF InRound, Asked, Piece, RoundBlock
<1>4. \A j \in InRound(c) : RoundWord(c, j) \in Data
  <2> SUFFICES ASSUME NEW j \in InRound(c) PROVE RoundWord(c, j) \in Data
    OBVIOUS
  <2>1. j - a + 1 \in 1..Len(c.words)
    BY <1>1, <1>2
  <2>2. c.words[j - a + 1] \in Data
    BY <1>1, <2>1
  <2> QED
    BY <1>2, <2>2 DEF RoundWord
<1>5. BlockTaken(d, g, i, r)
  BY <1>1, FileBlockTaken
<1>6. ASSUME NEW j \in Places
      PROVE  /\ WordAt(D, r.inode, j) = IF j \in InRound(c) THEN RoundWord(c, j) ELSE WordAt(d, g, j)
             /\ WordAt(D, f, j) = IF j \in InRound(c) /\ BlockOf(r.disk, f, i) = r.blk THEN RoundWord(c, j)
                                  ELSE WordAt(d, f, j)
  BY <1>1, <1>5, RoundWords
<1>7. \A j \in Places \ Asked(c) : WordAt(d, g, j) = WordAt(d, f, j)
  BY DEF CallWords
<1>8. ASSUME NEW j \in Asked(c), j \div BlockSize <= i PROVE WordAt(D, r.inode, j) \in Data
  <2>1. CASE j \in InRound(c)
    BY <1>1, <1>4, <1>6, <2>1
  <2>2. CASE j \notin InRound(c)
    <3>1. j \in Places /\ j \div BlockSize # i
      BY <1>1, <1>3, <2>2
    <3>2. j \div BlockSize \in Int /\ i \in Int
      <4>1. j \div BlockSize \in FileBlocks
        BY <3>1, PlaceFacts
      <4>2. FileBlocks \subseteq Int
        BY DEF FileBlocks
      <4> QED
        BY <1>1, <4>1, <4>2
    <3>3. j \div BlockSize < c.off \div BlockSize + c.done
      BY <1>8, <3>1, <3>2 DEF RoundBlock
    <3>4. WordAt(d, g, j) \in Data
      BY <3>3 DEF CallWords
    <3> QED
      BY <1>6, <2>2, <3>1, <3>4
  <2> QED
    BY <2>1, <2>2
<1>9. \A j \in Places \ InRound(c) : WordAt(D, f, j) = WordAt(d, f, j) /\ WordAt(D, r.inode, j) = WordAt(d, g, j)
  BY <1>6
<1>10. ASSUME NEW j \in InRound(c)
       PROVE  /\ WordAt(D, r.inode, j) \in Data
              /\ WordAt(D, f, j) = IF BlockOf(r.disk, f, i) = r.blk
                                  THEN WordAt(D, r.inode, j) ELSE WordAt(d, f, j)
  <2>1. j \in Places
    BY <1>1, <1>3
  <2> QED
    BY <1>4, <1>6, <2>1
<1>11. \A j \in Places \ Asked(c) : WordAt(D, r.inode, j) = WordAt(d, f, j)
  BY <1>3, <1>7, <1>9
<1> QED
  BY <1>8, <1>9, <1>10, <1>11

\* Files and directories other than the one that is written keep their words through a round.
LEMMA OthersThrough ==
  ASSUME NEW d, Good(d), NEW ino, IsFile(d, ino), NEW g, Sound(d, ino, g), NEW i \in FileBlocks,
         NEW r, BlockTaken(d, g, i, r), NEW e,
         \A m \in Inos \ {ino} : e.inode[m] = d.inode[m], e.inode[ino].type = "file",
         \/ e.block = r.disk.block
         \/ r.ret = "ok" /\ \A y \in Blocks \ {r.blk} : e.block[y] = r.disk.block[y]
  PROVE  OthersSame(d, e, ino)
<1>1. ASSUME NEW m \in LiveIn(d) \ {ino}, NEW b \in Blocks, BelongsTo(d, m, b)
      PROVE  e.block[b] = d.block[b]
  <2>1. r.disk.block[b] = d.block[b] /\ (r.ret = "ok" => b # r.blk)
    BY <1>1, OthersBlocks
  <2> QED
    BY <2>1
<1> QED
  BY <1>1, OthersStay

LEMMA RoundFails ==
  ASSUME NEW d, Good(d), NEW ino, IsFile(d, ino), NEW g, Sound(d, ino, g), Fewer(d.inode[ino], g),
         NEW i \in FileBlocks, NEW r, BlockTaken(d, g, i, r), BlockFound(d, ino, g, r)
  PROVE  TreeIn(r.disk) = TreeIn(d)
<1> DEFINE D == r.disk
           f == d.inode[ino]
<1>1. D.inode = d.inode /\ D.block = r.disk.block /\ f = d.inode[ino] /\ f = D.inode[ino] /\ f.type = "file" /\ Fewer(f, g)
  BY DEF BlockFound, IsFile
<1>2. \A j \in Places : WordAt(D, f, j) = WordAt(d, f, j)
  <2> HIDE DEF f
  <2> QED
    BY <1>1, TakenWords
<1> HIDE DEF D, f
<1>3. OthersSame(d, D, ino)
  BY <1>1, OthersThrough
<1>4. TreeIn(D) = TreeIn(d)
  BY <1>1, <1>2, <1>3, TreeUnchanged
<1> QED
  BY <1>4 DEF D

\* A round that is followed by another: its words are in the file at once if the inode on the disk
\* leads to its block.
LEMMA RoundGoes ==
  ASSUME NEW d, Good(d), NEW c, WriteSound(c), CallWords(c, d), NEW ino, ino = c.ino, IsFile(d, ino),
         NEW g, g = c.inode, Sound(d, ino, g), NEW f, f = d.inode[ino], Fewer(f, g),
         NEW i, i = RoundBlock(c), NEW r, r = FileBlock(d, g, i), BlockFound(d, ino, g, r), r.ret = "ok",
         NEW D, D = AfterRound(r, c, i)
  PROVE  TreeStep(d, D)
<1>1. /\ Len(c.words) \in Nat \ {0} /\ Len(c.words) <= MaxRequest /\ c.off \in Nat
      /\ i \in FileBlocks /\ Asked(c) \subseteq Places
  BY AskedFacts DEF RoundBlock
<1>2. PICK a \in Nat, b \in Nat : InRound(c) = a..b /\ c.off <= a /\ a <= b /\ b <= c.off + Len(c.words) - 1
  BY AskedFacts
<1>3. a \in Places /\ b \in Places /\ b - a + 1 <= MaxRequest
  <2>1. MaxRequest \in Nat
    BY Constants, Zenon
  <2>2. a \in Asked(c) /\ b \in Asked(c)
    BY <1>1, <1>2 DEF Asked
  <2> QED
    BY <1>1, <1>2, <2>1, <2>2
<1>4. BlockTaken(d, g, i, r)
  BY <1>1, FileBlockTaken
<1>5. D.inode = d.inode /\ \A y \in Blocks \ {r.blk} : D.block[y] = r.disk.block[y]
  <2>1. r.disk \in Disk /\ r.blk \in Blocks /\ r.disk.block[r.blk].as = "bytes" /\ r.disk.inode = d.inode
    BY DEF BlockFound, Sound
  <2> DEFINE e == r.disk
             val == Merged(r.disk.block[r.blk].val, c, i)
  <2>2. e \in Disk /\ e.block[r.blk].as = "bytes" /\ e.inode = d.inode /\ D = WithWords(e, r.blk, val)
    BY <2>1 DEF AfterRound
  <2> HIDE DEF val, e
  <2>3. D.inode = e.inode /\ \A y \in Blocks \ {r.blk} : D.block[y] = e.block[y]
    BY <2>1, <2>2, WithWordsFacts
  <2> QED
    BY <2>2, <2>3 DEF e
<1>6. D.inode[ino] = f /\ f.type = "file" /\ \A m \in Inos \ {ino} : D.inode[m] = d.inode[m]
  BY <1>5 DEF IsFile
<1>7. OthersSame(d, D, ino)
  BY <1>1, <1>4, <1>5, <1>6, OthersThrough
<1>8. /\ \A j \in Places \ InRound(c) : WordAt(D, f, j) = WordAt(d, f, j)
      /\ \A j \in InRound(c) : /\ WordAt(D, r.inode, j) \in Data
                               /\ WordAt(D, f, j) = IF BlockOf(r.disk, f, i) = r.blk
                                                    THEN WordAt(D, r.inode, j) ELSE WordAt(d, f, j)
  BY RoundSoFar
<1>9. CASE BlockOf(r.disk, f, i) = r.blk
  <2>1. /\ \A j \in Places \ (a..b) : WordAt(D, D.inode[ino], j) = WordAt(d, d.inode[ino], j)
        /\ \A j \in a..b : WordAt(D, D.inode[ino], j) \in Data
    BY <1>2, <1>6, <1>8, <1>9
  <2>2. TreeIn(D) = TreeIn(d) \/ Abstract!Writes(TreeIn(d), TreeIn(D))
    BY <1>2, <1>3, <1>7, <2>1, TreeChanged
  <2> QED
    BY <2>2 DEF TreeStep
<1>10. CASE BlockOf(r.disk, f, i) # r.blk
  <2>1. \A j \in Places : WordAt(D, D.inode[ino], j) = WordAt(d, d.inode[ino], j)
    BY <1>6, <1>8, <1>10
  <2>2. TreeIn(D) = TreeIn(d)
    BY <1>7, <2>1, TreeUnchanged
  <2> QED
    BY <2>2 DEF TreeStep
<1> QED
  BY <1>9, <1>10

\* The words that an inode leads to depend on its pointers and on the blocks.
LEMMA WordsByPointers ==
  ASSUME NEW d, NEW e, NEW f, NEW g, e.block = d.block, f.direct = g.direct, f.indirect = g.indirect, NEW j
  PROVE  WordAt(e, f, j) = WordAt(d, g, j)
BY DEF WordAt, WordOf, BlockOf

\* The last round: the inode in memory is written, and with it every word of the request.
LEMMA RoundEnds ==
  ASSUME NEW d, Good(d), NEW c, WriteSound(c), CallWords(c, d), NEW ino, ino = c.ino, IsFile(d, ino),
         NEW g, g = c.inode, Sound(d, ino, g), NEW f, f = d.inode[ino], Fewer(f, g),
         NEW i, i = RoundBlock(c), NEW r, r = FileBlock(d, g, i), BlockFound(d, ino, g, r), r.ret = "ok",
         c.off + Len(c.words) - 1 \in InRound(c),
         NEW D, D = AfterRound(r, c, i),
         NEW e, e.block = D.block, \A m \in Inos \ {ino} : e.inode[m] = d.inode[m],
         NEW h, e.inode[ino] = h, h.type = "file", h.direct = r.inode.direct, h.indirect = r.inode.indirect
  PROVE  TreeStep(d, e)
<1> DEFINE L == Len(c.words)
           last == c.off + L - 1
<1>1. /\ L \in Nat \ {0} /\ L <= MaxRequest /\ c.off \in Nat
      /\ i \in FileBlocks /\ Asked(c) \subseteq Places
      /\ c.off \in Places /\ last \in Places
  BY AskedFacts DEF RoundBlock
<1>2. Asked(c) = c.off..last
  BY DEF Asked
<1>3. c.off <= last /\ last - c.off + 1 <= MaxRequest
  <2>1. MaxRequest \in Nat
    BY Constants, Zenon
  <2> QED
    BY <1>1, <2>1
<1>4. BlockTaken(d, g, i, r)
  BY <1>1, FileBlockTaken
<1>5. \A y \in Blocks \ {r.blk} : e.block[y] = r.disk.block[y]
  <2>1. r.disk \in Disk /\ r.blk \in Blocks /\ r.disk.block[r.blk].as = "bytes"
    BY DEF BlockFound, Sound
  <2> DEFINE x == r.disk
             val == Merged(r.disk.block[r.blk].val, c, i)
  <2>2. x \in Disk /\ x.block[r.blk].as = "bytes" /\ D = WithWords(x, r.blk, val)
    BY <2>1 DEF AfterRound
  <2> HIDE DEF val, x
  <2>3. \A y \in Blocks \ {r.blk} : D.block[y] = x.block[y]
    BY <2>1, <2>2, WithWordsFacts
  <2> QED
    BY <2>3 DEF x
<1>6. OthersSame(d, e, ino)
  BY <1>1, <1>4, <1>5, OthersThrough
<1>7. \A j \in Places : WordAt(e, e.inode[ino], j) = WordAt(D, r.inode, j)
  BY WordsByPointers
<1>8. /\ \A j \in Places \ Asked(c) : WordAt(D, r.inode, j) = WordAt(d, f, j)
      /\ \A j \in Asked(c) : j \div BlockSize <= i => WordAt(D, r.inode, j) \in Data
  BY RoundSoFar
<1>9. ASSUME NEW j \in Asked(c) PROVE j \div BlockSize <= i
  <2>1. i = last \div BlockSize
    BY DEF InRound, Piece, RoundBlock
  <2>2. j \in Nat /\ last \in Nat /\ j <= last /\ BlockSize \in Nat \ {0}
    <3>1. BlockSize \in Nat \ {0}
      BY Constants, Zenon
    <3> QED
      BY <1>1, <1>2, <3>1
  <2> HIDE DEF last
  <2> QED
    BY <2>1, <2>2, DivOrder
<1> HIDE DEF last, L
<1>10. /\ \A j \in Places \ (c.off..last) : WordAt(e, e.inode[ino], j) = WordAt(d, d.inode[ino], j)
       /\ \A j \in c.off..last : WordAt(e, e.inode[ino], j) \in Data
  BY <1>1, <1>2, <1>7, <1>8, <1>9
<1>11. TreeIn(e) = TreeIn(d) \/ Abstract!Writes(TreeIn(d), TreeIn(e))
  BY <1>1, <1>3, <1>6, <1>10, TreeChanged
<1> QED
  BY <1>11 DEF TreeStep

LEMMA WordsNext ==
  ASSUME NEW d, NEW c, WriteSound(c), CallWords(c, d), NEW ino, ino = c.ino,
         NEW g, g = c.inode, Sound(d, ino, g), NEW f, f = d.inode[ino], Fewer(f, g),
         NEW i, i = RoundBlock(c), NEW r, r = FileBlock(d, g, i), BlockFound(d, ino, g, r), r.ret = "ok",
         NEW D, D = AfterRound(r, c, i), D.inode[ino] = f,
         NEW n, n.ino = c.ino, n.inode = r.inode, n.off = c.off, n.words = c.words, n.done = c.done + 1
  PROVE  CallWords(n, D)
<1>1. Asked(n) = Asked(c) /\ InRound(c) \subseteq Asked(c)
  BY DEF Asked, InRound, Piece
<1>2. /\ \A j \in Places \ InRound(c) : WordAt(D, f, j) = WordAt(d, f, j)
      /\ \A j \in Places \ Asked(c) : WordAt(D, r.inode, j) = WordAt(d, f, j)
      /\ \A j \in Asked(c) : j \div BlockSize <= i => WordAt(D, r.inode, j) \in Data
  BY RoundSoFar
<1>3. \A j \in Places \ Asked(n) : WordAt(D, n.inode, j) = WordAt(D, D.inode[n.ino], j)
  BY <1>1, <1>2
<1>4. ASSUME NEW j \in Asked(n), j \div BlockSize < n.off \div BlockSize + n.done
      PROVE  WordAt(D, n.inode, j) \in Data
  <2>1. c.off \in Nat /\ c.done \in Nat /\ Asked(c) \subseteq Places /\ i \in FileBlocks
    BY AskedFacts DEF RoundBlock
  <2>2. j \div BlockSize \in FileBlocks /\ c.off \div BlockSize \in FileBlocks
    <3>1. c.off \in Places /\ j \in Places
      BY <1>1, <2>1, AskedFacts
    <3> QED
      BY <3>1, PlaceFacts
  <2>3. FileBlocks \subseteq Int
    BY DEF FileBlocks
  <2> DEFINE q == c.off \div BlockSize
             z == j \div BlockSize
  <2>4. z < q + (c.done + 1) /\ i = q + c.done /\ z \in Int /\ q \in Int
    BY <1>4, <2>2, <2>3 DEF RoundBlock
  <2> HIDE DEF q, z
  <2>5. z <= i
    BY <2>1, <2>4
  <2> QED
    BY <1>1, <1>2, <2>5 DEF z
<1> QED
  BY <1>3, <1>4 DEF CallWords

\* A round of a write: the block i that it finds or takes, and the disk D with its words.
RoundTaken(c, i, r, D) ==
  /\ i = RoundBlock(c) /\ i \in FileBlocks
  /\ r = FileBlock(disk, c.inode, i) /\ BlockTaken(disk, c.inode, i, r) /\ BlockFound(disk, c.ino, c.inode, r)
  /\ D = AfterRound(r, c, i)
  /\ r.ret = "ok" => /\ D.inode = disk.inode
                     /\ \A y \in Blocks \ {r.blk} : D.block[y] = r.disk.block[y]

IsLast(c) == c.off + Len(c.words) - 1 \in InRound(c)

\* The disk e with the inode of the last round.
RoundWritten(c, r, D, e) ==
  LET h == e.inode[c.ino]
  IN  /\ e.block = D.block /\ \A m \in Inos \ {c.ino} : e.inode[m] = disk.inode[m]
      /\ h.type = "file" /\ h.direct = r.inode.direct /\ h.indirect = r.inode.indirect
      /\ h.size = c.inode.size + Len(c.words)

RoundFailed(r)       == r.ret # "ok" /\ disk' = r.disk /\ call' = NoCall /\ ret' = r.ret
RoundLast(c, r, D)   == r.ret = "ok" /\ IsLast(c) /\ call' = NoCall /\ RoundWritten(c, r, D, disk')
RoundBefore(c, r, D) == /\ r.ret = "ok" /\ ~IsLast(c) /\ disk' = D
                        /\ call'.path = c.path /\ call'.ino = c.ino /\ call'.inode = r.inode
                        /\ call'.off = c.off /\ call'.words = c.words /\ call'.done = c.done + 1

\* How a round ends: without a block, with the request, or before another round.
LEMMA RoundCases ==
  ASSUME TypeOK, fs = "up", NEW c, WriteSound(c), WriteRound(c)
  PROVE  \E i, r, D : RoundTaken(c, i, r, D) /\ (RoundFailed(r) \/ RoundLast(c, r, D) \/ RoundBefore(c, r, D))
<1> DEFINE i    == RoundBlock(c)
           r    == FileBlock(disk, c.inode, i)
           D    == AfterRound(r, c, i)
           L    == Len(c.words)
           last == c.off + L - 1 \in Piece(c.off, L, c.done)
           h    == [r.inode EXCEPT !.size = @ + L]
           e    == InodeWritten(D, c.ino, h)
           ino  == c.ino
           g    == c.inode
           f    == disk.inode[ino]
<1>1. \/ r.ret # "ok" /\ Finish([ret |-> r.ret, disk |-> r.disk])
      \/ r.ret = "ok" /\ last /\ Finish(Done(e))
      \/ /\ r.ret = "ok" /\ ~last
         /\ disk' = D /\ call' = NextRound(c, r.inode)
  BY DEF WriteRound, WithWords, InodeWritten, NextRound, AfterRound, RoundBlock
<1>2. /\ c \in Rounds /\ Sound(disk, ino, g) /\ IsFile(disk, ino) /\ Fewer(f, g)
      /\ ino = c.ino /\ g = c.inode /\ f = disk.inode[ino]
      /\ i = RoundBlock(c) /\ r = FileBlock(disk, g, i) /\ D = AfterRound(r, c, i)
  BY DEF WriteSound
<1>3. BlockFound(disk, ino, g, r) /\ i \in FileBlocks
  <2>1. i \in Nat /\ i < NumDirect + NumIndirect * IndirectCap
    BY RoundFacts DEF RoundBlock
  <2>2. i \in FileBlocks
    BY AskedFacts DEF RoundBlock
  <2> HIDE DEF i, r
  <2> QED
    BY <1>2, <2>1, <2>2, FileBlockSound
<1>4. ~last => c.done + 1 \in 1..MaxRequest
  BY RoundFacts DEF RoundBlock
<1>5. last <=> IsLast(c)
  BY DEF InRound, IsLast
<1> HIDE DEF i, r, D, last, ino, g, f
<1>7. BlockTaken(disk, g, i, r)
  BY <1>2, <1>3, FileBlockTaken
<1>8. r.disk \in Disk /\ r.inode \in Inode /\ FileInode(r.inode) /\ r.disk.inode = disk.inode /\ ino \in Inos
  BY <1>3 DEF BlockFound, Sound
<1>9. ASSUME r.ret = "ok"
      PROVE  D.inode = disk.inode /\ D \in Disk /\ \A y \in Blocks \ {r.blk} : D.block[y] = r.disk.block[y]
  <2>1. r.blk \in Blocks /\ r.disk.block[r.blk].as = "bytes" /\ Sound(r.disk, ino, r.inode)
    BY <1>3, <1>9 DEF BlockFound
  <2> DEFINE x == r.disk
             val == Merged(r.disk.block[r.blk].val, c, i)
  <2>2. x \in Disk /\ x.block[r.blk].as = "bytes" /\ x.inode = disk.inode /\ D = WithWords(x, r.blk, val)
        /\ Sound(x, ino, r.inode) /\ x.block[r.blk] \in Block /\ val = Merged(x.block[r.blk].val, c, i)
    BY <1>2, <1>8, <2>1, DiskParts DEF AfterRound
  <2> HIDE DEF val, x
  <2>3. D.inode = x.inode /\ \A y \in Blocks \ {r.blk} : D.block[y] = x.block[y]
    BY <2>1, <2>2, WithWordsFacts
  <2>4. x.block[r.blk].val \in [0..(BlockSize - 1) -> Word]
    BY <2>2, BlockParts, Zenon
  <2>5. val \in [0..(BlockSize - 1) -> Word]
    <3>1. c.words \in Requests /\ c.off \in Nat /\ c.done \in Nat
      BY <1>2, AskedFacts DEF Rounds
    <3> QED
      BY <1>2, <2>2, <2>4, <3>1, MergedTyped DEF RoundBlock
  <2>6. Sound(D, ino, r.inode)
    <3>1. x.block[r.blk].as = "bytes" /\ r.blk \in x.d_bitmap
      BY <1>3, <1>9, <2>2 DEF BlockFound, x
    <3> QED
      BY <2>1, <2>2, <2>5, <3>1, WordsSound
  <2> QED
    BY <2>2, <2>3, <2>6 DEF Sound, x
<1>10. RoundTaken(c, i, r, D)
  BY <1>2, <1>3, <1>7, <1>9 DEF RoundTaken
<1>11. CASE r.ret # "ok"
  <2> DEFINE s == [ret |-> r.ret, disk |-> r.disk]
  <2>1. s.disk = r.disk /\ s.ret = r.ret /\ Finish(s)
    BY <1>1, <1>11
  <2> HIDE DEF s
  <2>2. RoundFailed(r)
    BY <1>11, <2>1 DEF Finish, RoundFailed
  <2> QED
    BY <1>10, <2>2
<1>12. CASE r.ret = "ok" /\ last
  <2> DEFINE s == Done(e)
  <2>1. s.disk = e /\ Finish(s) /\ e = InodeWritten(D, ino, h)
    BY <1>1, <1>2, <1>12 DEF Done
  <2>2. /\ h \in Inode /\ h.type = "file" /\ h.direct = r.inode.direct /\ h.indirect = r.inode.indirect
        /\ h.size = g.size + L
    <3>1. r.inode.size + L \in 0..(MaxSize + MaxEntries)
      <4>1. MaxSize \in Nat /\ MaxEntries \in Nat
        BY Constants, Zenon
      <4>2. r.inode.size \in 0..(MaxSize + MaxEntries)
        BY <1>8, InodeParts
      <4>3. L \in Nat /\ r.inode.size + L <= MaxSize
        <5>1. L \in Nat
          BY AskedFacts
        <5>2. g.size + L <= MaxSize /\ r.inode.size = g.size
          BY <1>2, <1>3 DEF WriteSound, BlockFound
        <5> QED
          BY <5>1, <5>2
      <4> QED
        BY <4>1, <4>2, <4>3
    <3>2. r.inode.size = g.size
      BY <1>3 DEF BlockFound
    <3> QED
      BY <1>8, <3>1, <3>2 DEF Inode, FileInode
  <2> HIDE DEF s, e, h
  <2>3. disk' = e /\ call' = NoCall
    BY <2>1 DEF Finish
  <2>4. /\ e.block = D.block /\ e.inode[ino] = h /\ \A m \in Inos \ {ino} : e.inode[m] = disk.inode[m]
    <3>1. D \in Disk /\ ino \in Inos /\ h \in Inode /\ e = InodeWritten(D, ino, h)
      BY <1>8, <1>9, <1>12, <2>1, <2>2
    <3>2. /\ e.block = D.block /\ e.inode[ino] = h /\ \A m \in Inos \ {ino} : e.inode[m] = D.inode[m]
      BY <3>1, InodeSet
    <3> QED
      BY <1>9, <1>12, <3>2
  <2>5. RoundWritten(c, r, D, e)
    BY <2>2, <2>4 DEF RoundWritten, ino, g
  <2>6. RoundLast(c, r, D)
    BY <1>5, <1>12, <2>3, <2>5 DEF RoundLast
  <2> QED
    BY <1>10, <2>6
<1>13. CASE r.ret = "ok" /\ ~last
  <2> DEFINE n == NextRound(c, r.inode)
  <2>1. disk' = D /\ call' = n
    BY <1>1, <1>13
  <2>2. /\ n.path = c.path /\ n.ino = c.ino /\ n.inode = r.inode /\ n.off = c.off /\ n.words = c.words
        /\ n.done = c.done + 1
    BY <1>2, <1>4, <1>8, <1>13, NextRoundFacts
  <2> HIDE DEF n
  <2>3. RoundBefore(c, r, D)
    BY <1>5, <1>13, <2>1, <2>2 DEF RoundBefore
  <2> QED
    BY <1>10, <2>3
<1> QED
  BY <1>11, <1>12, <1>13

\* A round of a write is a step of the tree.
LEMMA RoundStep ==
  ASSUME TypeOK, fs = "up", NEW c, WriteSound(c), CallWords(c, disk), WriteRound(c)
  PROVE  TreeStep(disk, disk') /\ (call' # NoCall => CallWords(call', disk'))
<1> DEFINE ino == c.ino
           g   == c.inode
           f   == disk.inode[ino]
<1>1. PICK i, r, D : RoundTaken(c, i, r, D) /\ (RoundFailed(r) \/ RoundLast(c, r, D) \/ RoundBefore(c, r, D))
  BY RoundCases
<1>2. /\ Sound(disk, ino, g) /\ IsFile(disk, ino) /\ Fewer(f, g)
      /\ ino = c.ino /\ g = c.inode /\ f = disk.inode[ino]
  BY DEF WriteSound
<1>3. /\ i = RoundBlock(c) /\ i \in FileBlocks /\ r = FileBlock(disk, g, i) /\ D = AfterRound(r, c, i)
      /\ BlockFound(disk, ino, g, r) /\ BlockTaken(disk, g, i, r)
  BY <1>1 DEF RoundTaken
<1> HIDE DEF ino, g, f
<1>4. Good(disk)
  BY <1>2, SoundFinish
<1>5. CASE RoundFailed(r)
  <2>1. TreeIn(r.disk) = TreeIn(disk)
    BY <1>2, <1>3, <1>4, RoundFails
  <2> QED
    BY <1>5, <2>1 DEF RoundFailed, TreeStep
<1>6. CASE RoundLast(c, r, D)
  <2> DEFINE e == disk'
             h == e.inode[ino]
  <2>1. /\ e.block = D.block /\ \A m \in Inos \ {ino} : e.inode[m] = disk.inode[m]
        /\ h.type = "file" /\ h.direct = r.inode.direct /\ h.indirect = r.inode.indirect /\ e.inode[ino] = h
    BY <1>2, <1>6 DEF RoundLast, RoundWritten
  <2>2. r.ret = "ok" /\ c.off + Len(c.words) - 1 \in InRound(c) /\ call' = NoCall
    BY <1>6 DEF RoundLast, IsLast
  <2> HIDE DEF e, h
  <2>3. TreeStep(disk, e)
    BY <1>2, <1>3, <1>4, <2>1, <2>2, RoundEnds
  <2> QED
    BY <2>2, <2>3 DEF e
<1>7. CASE RoundBefore(c, r, D)
  <2> DEFINE n == call'
  <2>1. /\ r.ret = "ok" /\ disk' = D
        /\ n.ino = c.ino /\ n.inode = r.inode /\ n.off = c.off /\ n.words = c.words /\ n.done = c.done + 1
    BY <1>7 DEF RoundBefore
  <2>2. D.inode[ino] = f
    BY <1>1, <1>2, <2>1 DEF RoundTaken
  <2> HIDE DEF n
  <2>3. CallWords(n, D)
    BY <1>2, <1>3, <2>1, <2>2, WordsNext
  <2>4. TreeStep(disk, D)
    BY <1>2, <1>3, <1>4, <2>1, RoundGoes
  <2> QED
    BY <2>1, <2>3, <2>4 DEF n
<1> QED
  BY <1>1, <1>5, <1>6, <1>7

-----------------------------------------------------------------------------
\* The disk implements the tree.

LEMMA EmptyTree ==
  ASSUME NEW d, \A m \in InoOrNil, x \in Names : Level(d)[m][x] = Nil
  PROVE  TreeIn(d) = {}
<1>1. LevelTyped(d)
  BY DEF LevelTyped, InoOrNil
<1>2. ASSUME NEW p \in Paths PROVE get_node_by_path(d, p) = Nil
  <2>1. p \in Seq(Names) /\ p # <<>>
    BY PathsFacts
  <2>2. /\ Parent(p) \in Seq(Names) /\ Name(p) \in Names
        /\ get_node_by_path(d, p) = Level(d)[get_node_by_path(d, Parent(p))][Name(p)]
    BY <1>1, <2>1, LookupStep
  <2>3. get_node_by_path(d, Parent(p)) \in InoOrNil
    BY <1>1, <2>2, LookupStep
  <2> QED
    BY <2>2, <2>3
<1>3. Reached(d) = {}
  BY <1>2 DEF Reached
<1> QED
  BY <1>3 DEF TreeIn

\* Neither the zeros of a new disk nor a new file system hold a name.
LEMMA NewTrees == TreeIn(ZeroDisk) = {} /\ TreeIn(rufs_mkfs) = {}
<1>1. ASSUME NEW m \in InoOrNil, NEW x \in Names PROVE Level(ZeroDisk)[m][x] = Nil
  <2>1. m # Nil => ZeroDisk.inode[m].type = "none"
    BY DEF InoOrNil, ZeroDisk
  <2> QED
    BY <2>1 DEF Level, InoOrNil
<1>2. ASSUME NEW m \in InoOrNil, NEW x \in Names PROVE Level(rufs_mkfs)[m][x] = Nil
  <2> DEFINE d == rufs_mkfs
  <2>1. d \in Disk /\ Made(d)
    BY MkfsFacts
  <2> HIDE DEF d
  <2>2. Good(d) /\ UsedSlots(d, 0) = {}
    BY <2>1, MadeGood
  <2>3. IsDir(d, m) => m = 0
    BY <2>1 DEF Made, IsDir, LiveIn
  <2>4. Level(d)[m][x] = Nil
    BY <2>2, <2>3, LevelNil
  <2> QED
    BY <2>4 DEF d
<1> QED
  BY <1>1, <1>2, EmptyTree

\* With the invariant of the disk: the zeros of a new disk, and what the write under way has done.
WriteKept == /\ fs = "new" => disk = ZeroDisk
             /\ call # NoCall => CallWords(call, disk)

TInv == IInv /\ WriteKept

\* A step that leaves the disk alone.
LEMMA QuietTree ==
  ASSUME WriteKept, disk' = disk, call' = call \/ call' = NoCall, fs' = fs \/ fs' # "new"
  PROVE  TreeStep(disk, disk') /\ WriteKept'
<1>1. TreeStep(disk, disk')
  BY DEF TreeStep
<1>2. WriteKept'
  BY DEF WriteKept
<1> QED
  BY <1>1, <1>2

LEMMA MountTree ==
  ASSUME TInv, Mount
  PROVE  TreeStep(disk, disk') /\ WriteKept'
<1>1. CASE fs = "new"
  <2>1. fs' = "up" /\ disk' = rufs_mkfs /\ call' = call
    BY <1>1 DEF Mount
  <2>2. call = NoCall /\ disk = ZeroDisk
    BY <1>1 DEF TInv, IInv, WriteKept
  <2>3. TreeIn(disk) = {} /\ TreeIn(disk') = {}
    BY <2>1, <2>2, NewTrees
  <2> QED
    BY <2>1, <2>2, <2>3 DEF TreeStep, WriteKept
<1>2. CASE fs # "new"
  <2>1. disk' = disk /\ call' = call /\ fs' = "misread"
    BY <1>2 DEF Mount
  <2> QED
    BY <2>1, QuietTree DEF TInv
<1> QED
  BY <1>1, <1>2

\* The calls that add and remove nodes end at once.
LEMMA ReadyTree ==
  ASSUME TInv, Ready, fs' = fs, call' = NoCall
  PROVE  Good(disk) /\ WriteKept' /\ TypeOK
<1>1. Good(disk) /\ fs = "up"
  BY ReadyFacts DEF TInv
<1>2. WriteKept'
  BY <1>1 DEF WriteKept
<1> QED
  BY <1>1, <1>2 DEF TInv, IInv

LEMMA MadeSteps ==
  ASSUME TInv, NEW p \in client.paths, NEW type,
         \/ rufs_mkdir(p) /\ type = "dir"
         \/ rufs_create(p) /\ type = "file"
  PROVE  /\ TreeStep(disk, disk') /\ WriteKept'
         /\ ret' = "ok" => TreeIn(disk') = TreeIn(disk) \cup {NewNode(p, type)}
<1>1. IInv' /\ MadeOrNot(p, type)
  BY MkdirKeeps, CreateKeeps DEF TInv
<1>2. Ready /\ fs' = fs /\ call' = NoCall
  BY DEF rufs_mkdir, rufs_create, Finish
<1>3. Good(disk) /\ WriteKept' /\ TypeOK
  BY <1>2, ReadyTree
<1>4. p \in Paths
  BY <1>3, PathFacts
<1>5. CASE OnlyBits(disk, disk') /\ ret' # "ok"
  BY <1>3, <1>5, BitsTree DEF TreeStep
<1>6. CASE NodeMade(disk, disk', p, type)
  <2>1. disk' \in Disk
    BY <1>1 DEF IInv, TypeOK
  <2>2. Abstract!Adds(TreeIn(disk), TreeIn(disk')) /\ TreeIn(disk') = TreeIn(disk) \cup {NewNode(p, type)}
    BY <1>3, <1>4, <1>6, <2>1, MadeTree
  <2> QED
    BY <1>3, <2>2 DEF TreeStep
<1> QED
  BY <1>1, <1>5, <1>6 DEF MadeOrNot

LEMMA GoneSteps ==
  ASSUME TInv, NEW p \in client.paths, ~RemovesFullDirs, rufs_rmdir(p) \/ rufs_unlink(p)
  PROVE  /\ TreeStep(disk, disk') /\ WriteKept'
         /\ ret' = "ok" => TreeIn(disk') = NodesBut(disk, p)
<1>1. PICK B : IInv' /\ GoneOrNot(p, B)
  BY RmdirKeeps, UnlinkKeeps DEF TInv
<1>2. Ready /\ fs' = fs /\ call' = NoCall
  BY DEF rufs_rmdir, rufs_unlink, Finish
<1>3. Good(disk) /\ WriteKept' /\ TypeOK
  BY <1>2, ReadyTree
<1>4. p \in Paths
  BY <1>3, PathFacts
<1>5. CASE disk' = disk /\ ret' # "ok"
  BY <1>3, <1>5 DEF TreeStep
<1>6. CASE NodeGone(disk, disk', p, B)
  <2>1. disk' \in Disk
    BY <1>1 DEF IInv, TypeOK
  <2>2. Abstract!Removes(TreeIn(disk), TreeIn(disk')) /\ TreeIn(disk') = NodesBut(disk, p)
    BY <1>3, <1>4, <1>6, <2>1, GoneTree
  <2> QED
    BY <1>3, <2>2 DEF TreeStep
<1> QED
  BY <1>1, <1>5, <1>6 DEF GoneOrNot

\* Before its first round a write has done nothing.
LEMMA FirstWords ==
  ASSUME NEW d, NEW c, WriteSound(c), c.inode = d.inode[c.ino], c.done = 0
  PROVE  CallWords(c, d)
<1>1. c.off \in Nat /\ c.off \in Places /\ Asked(c) \subseteq Places /\ BlockSize \in Nat \ {0}
  <2>1. BlockSize \in Nat \ {0}
    BY Constants, Zenon
  <2> QED
    BY <2>1, AskedFacts
<1>2. ASSUME NEW j \in Asked(c) PROVE ~(j \div BlockSize < c.off \div BlockSize + c.done)
  <2>1. j \in Nat /\ c.off <= j
    <3>1. Len(c.words) \in Nat
      BY AskedFacts
    <3> QED
      BY <1>1, <3>1 DEF Asked
  <2>2. c.off \div BlockSize <= j \div BlockSize
    BY <1>1, <2>1, DivOrder
  <2>3. c.off \div BlockSize \in FileBlocks /\ j \div BlockSize \in FileBlocks
    <3>1. j \in Places
      BY <1>1
    <3> QED
      BY <1>1, <3>1, PlaceFacts
  <2>4. FileBlocks \subseteq Int
    BY DEF FileBlocks
  <2> DEFINE q == c.off \div BlockSize
             z == j \div BlockSize
  <2>5. q \in Int /\ z \in Int /\ q <= z
    BY <2>2, <2>3, <2>4
  <2> HIDE DEF q, z
  <2>6. ~(z < q + 0)
    BY <2>5
  <2> QED
    BY <2>6 DEF q, z
<1> QED
  BY <1>2 DEF CallWords

\* A write that has been asked for fails at once, or makes its first round.
FirstOf(c, p, w) ==
  /\ WriteRound(c) /\ WriteSound(c) /\ CallWords(c, disk)
  /\ c.path = p /\ c.ino = get_node_by_path(disk, p) /\ c.inode = disk.inode[c.ino]
  /\ c.off = w.off /\ c.words = w.words /\ c.done = 0 /\ c.off <= c.inode.size

LEMMA WriteBegins ==
  ASSUME TInv, NEW p \in client.paths, NEW w \in client.writes, rufs_write(p, w.off, w.words)
  PROVE  /\ TypeOK /\ fs = "up" /\ fs' = fs /\ call = NoCall
         /\ \/ disk' = disk /\ call' = NoCall /\ ret' # "ok"
            \/ \E c : FirstOf(c, p, w)
<1> DEFINE ino   == get_node_by_path(disk, p)
           f     == disk.inode[ino]
           off   == w.off
           words == w.words
           c     == FirstRound(p, ino, f, off, words)
<1>1. /\ Ready /\ Type(p) # "dir"
      /\ ino # Nil => f.size + Len(words) <= MaxSize
      /\ \/ ino = Nil /\ Finish(Fail(disk, "ENOENT"))
         \/ ino # Nil /\ Finish(Fail(disk, "short"))
         \/ ino # Nil /\ off <= f.size /\ WriteRound(c)
  BY DEF rufs_write, FirstRound
<1>2. TypeOK /\ Good(disk) /\ fs = "up" /\ IInv /\ call = NoCall
  BY <1>1, ReadyFacts DEF TInv, IInv
<1>3. p \in Paths /\ p \in Seq(Names)
  BY <1>2, PathFacts
<1>4. ASSUME NEW x \in {"ENOENT", "short"}, Finish(Fail(disk, x))
      PROVE  disk' = disk /\ call' = NoCall /\ ret' # "ok" /\ fs' = fs
  <2> DEFINE r == Fail(disk, x)
  <2>1. Finish(r) /\ r.disk = disk /\ r.ret # "ok"
    BY <1>4 DEF Fail
  <2> HIDE DEF r
  <2> QED
    BY <2>1 DEF Finish
<1>5. CASE ino # Nil /\ off <= f.size /\ WriteRound(c)
  <2>1. off \in Nat /\ words \in Requests /\ off + Len(words) <= FileWords
    BY <1>2, RufsAssumption DEF TypeOK
  <2>2. ino \in Inos /\ IsFile(disk, ino)
    <3>1. ino \in LiveIn(disk)
      BY <1>2, <1>3, <1>5, LookupLive
    <3>2. Type(p) = "file"
      BY <1>1, <1>2, <1>3, <1>5, TypeFacts
    <3> QED
      BY <1>2, <1>3, <3>1, <3>2, TypeFacts DEF LiveIn
  <2>3. /\ f = disk.inode[ino] /\ c = FirstRound(p, ino, f, off, words) /\ f.size + Len(words) <= MaxSize
        /\ c.path = p /\ c.ino = ino /\ c.inode = f /\ c.off = off /\ c.words = words /\ c.done = 0
    BY <1>1, <1>5 DEF FirstRound
  <2>4. fs' = fs
    BY <1>2, <1>5 DEF WriteRound, Finish
  <2> HIDE DEF c, f
  <2>5. WriteSound(c)
    <3> HIDE DEF ino, off, words
    <3> QED
      BY <1>2, <1>3, <2>1, <2>2, <2>3, FirstRoundSound
  <2>6. CallWords(c, disk)
    <3>1. c.inode = disk.inode[c.ino]
      BY <2>3
    <3> QED
      BY <2>3, <2>5, <3>1, FirstWords
  <2>7. FirstOf(c, p, w)
    BY <1>5, <2>3, <2>5, <2>6 DEF FirstOf
  <2> QED
    BY <1>2, <2>4, <2>7
<1> QED
  BY <1>1, <1>2, <1>4, <1>5, Zenon

LEMMA WriteSteps ==
  ASSUME TInv, NEW p \in client.paths, NEW w \in client.writes, rufs_write(p, w.off, w.words)
  PROVE  TreeStep(disk, disk') /\ WriteKept'
<1>1. TypeOK /\ fs = "up" /\ fs' = fs /\ call = NoCall
  BY WriteBegins
<1>2. CASE disk' = disk /\ call' = NoCall
  BY <1>1, <1>2, QuietTree DEF TInv
<1>3. CASE \E c : FirstOf(c, p, w)
  <2>1. PICK c : WriteRound(c) /\ WriteSound(c) /\ CallWords(c, disk)
    BY <1>3 DEF FirstOf
  <2>2. TreeStep(disk, disk') /\ (call' # NoCall => CallWords(call', disk'))
    BY <1>1, <2>1, RoundStep
  <2> QED
    BY <1>1, <2>2 DEF WriteKept
<1> QED
  BY <1>2, <1>3, WriteBegins

LEMMA WriteNextTree ==
  ASSUME TInv, WriteNext
  PROVE  TreeStep(disk, disk') /\ WriteKept'
<1>1. fs = "up" /\ call # NoCall /\ WriteRound(call)
  BY DEF WriteNext
<1>2. WriteSound(call) /\ TypeOK /\ CallWords(call, disk)
  BY <1>1, CallSound DEF TInv, IInv, WriteKept
<1>3. fs' = "up"
  BY <1>1 DEF WriteRound, Finish
<1>4. TreeStep(disk, disk') /\ (call' # NoCall => CallWords(call', disk'))
  BY <1>1, <1>2, RoundStep
<1> QED
  BY <1>3, <1>4 DEF WriteKept

\* Every step of the disk is a step of the tree, or changes nothing in it.
LEMMA NextTree ==
  ASSUME ~RemovesFullDirs, TInv, [Next]_vars
  PROVE  TreeStep(disk, disk') /\ TInv'
<1>1. IInv'
  BY NextKeeps DEF TInv
<1>2. WriteKept
  BY DEF TInv
<1>3. ASSUME Mount PROVE TreeStep(disk, disk') /\ WriteKept'
  BY <1>3, MountTree
<1>4. ASSUME Unmount PROVE TreeStep(disk, disk') /\ WriteKept'
  <2>1. disk' = disk /\ call' = NoCall /\ fs' # "new"
    BY <1>4 DEF Unmount
  <2> QED
    BY <1>2, <2>1, QuietTree
<1>5. ASSUME WriteNext PROVE TreeStep(disk, disk') /\ WriteKept'
  BY <1>5, WriteNextTree
<1>6. ASSUME Misuse \/ Stopped \/ UNCHANGED vars PROVE TreeStep(disk, disk') /\ WriteKept'
  <2>1. disk' = disk /\ call' = call /\ (fs' = fs \/ fs' # "new")
    BY <1>6 DEF Misuse, Stopped, vars
  <2> QED
    BY <1>2, <2>1, QuietTree
<1>7. ASSUME NEW p \in client.paths, Lookup(p) PROVE TreeStep(disk, disk') /\ WriteKept'
  <2>1. disk' = disk /\ call' = call /\ fs' = fs
    BY <1>7 DEF Lookup
  <2> QED
    BY <1>2, <2>1, QuietTree
<1>8. ASSUME NEW p \in client.paths, rufs_mkdir(p) \/ rufs_create(p) PROVE TreeStep(disk, disk') /\ WriteKept'
  <2>1. CASE rufs_mkdir(p)
    BY <1>2, <2>1, MadeSteps DEF TInv
  <2>2. CASE rufs_create(p)
    BY <1>2, <2>2, MadeSteps DEF TInv
  <2> QED
    BY <1>8, <2>1, <2>2
<1>9. ASSUME NEW p \in client.paths, rufs_rmdir(p) \/ rufs_unlink(p) PROVE TreeStep(disk, disk') /\ WriteKept'
  BY <1>9, GoneSteps
<1>10. ASSUME NEW p \in client.paths, NEW r \in client.reads, rufs_read(p, r.off, r.len)
       PROVE  TreeStep(disk, disk') /\ WriteKept'
  <2>1. disk' = disk /\ call' = call /\ fs' = fs
    BY <1>10 DEF rufs_read
  <2> QED
    BY <1>2, <2>1, QuietTree
<1>11. ASSUME NEW p \in client.paths, NEW w \in client.writes, rufs_write(p, w.off, w.words)
       PROVE  TreeStep(disk, disk') /\ WriteKept'
  BY <1>11, WriteSteps
<1>12. TreeStep(disk, disk') /\ WriteKept'
  BY <1>3, <1>4, <1>5, <1>6, <1>7, <1>8, <1>9, <1>10, <1>11, Zenon DEF Next
<1> QED
  BY <1>1, <1>12 DEF TInv

\* The disk is a tree of files to its clients: each call adds one node below a directory, removes
\* one that nothing is below, or replaces a run of words of one file, and touches no other path;
\* so does every round of a write, and a call that fails or that the end of the process cuts short
\* (rufs.c:325-414, 685-955, 1072-1272).
THEOREM ImplementsFileTree == ~RemovesFullDirs => (Spec => TreeRefinement)
<1> SUFFICES ASSUME ~RemovesFullDirs PROVE Spec => TreeRefinement
  OBVIOUS
<1>1. Init => TInv
  <2> SUFFICES ASSUME Init PROVE TInv
    OBVIOUS
  <2> QED
    BY InitGood DEF TInv, WriteKept, Init
<1>2. TInv /\ [Next]_vars => TInv'
  BY NextTree
<1>3. Init => Abstract!Init
  <2> SUFFICES ASSUME Init PROVE Tree = {}
    BY DEF Abstract!Init
  <2>1. disk = ZeroDisk
    BY DEF Init
  <2> QED
    BY <2>1, TreeIs, NewTrees
<1>4. (Tree = TreeIn(disk))'
  BY TreeIs, PTL
<1>5. TInv /\ [Next]_vars => [Abstract!Next]_Tree
  <2> SUFFICES ASSUME TInv, [Next]_vars PROVE [Abstract!Next]_Tree
    OBVIOUS
  <2>1. TreeStep(disk, disk')
    BY NextTree
  <2>2. Tree = TreeIn(disk) /\ Tree' = TreeIn(disk')
    BY <1>4, TreeIs
  <2> QED
    BY <2>1, <2>2 DEF TreeStep, Abstract!Next
<1> QED
  BY <1>1, <1>2, <1>3, <1>5, PTL DEF Spec, TreeRefinement, Abstract!Spec


-----------------------------------------------------------------------------
\* Calls do what they are asked to.

\* A round leaves every node but the one that is written.
LEMMA RoundOthers ==
  ASSUME TypeOK, fs = "up", NEW c, WriteSound(c), WriteRound(c)
  PROVE  /\ OthersSame(disk, disk', c.ino) /\ Good(disk)
         /\ call' = NoCall \/ (call'.path = c.path /\ call'.ino = c.ino)
<1>1. PICK i, r, D : RoundTaken(c, i, r, D) /\ (RoundFailed(r) \/ RoundLast(c, r, D) \/ RoundBefore(c, r, D))
  BY RoundCases
<1> DEFINE ino == c.ino
           g   == c.inode
           e   == disk'
<1>2. Sound(disk, ino, g) /\ IsFile(disk, ino) /\ Fewer(disk.inode[ino], g) /\ ino \in Inos
  BY DEF WriteSound, Sound
<1>3. Good(disk)
  BY <1>2, SoundFinish
<1>4. i \in FileBlocks /\ BlockTaken(disk, g, i, r) /\ r.disk.inode = disk.inode
  BY <1>1 DEF RoundTaken, BlockFound
<1>5. /\ \A m \in Inos \ {ino} : e.inode[m] = disk.inode[m]
      /\ e.inode[ino].type = "file"
      /\ \/ e.block = r.disk.block
         \/ r.ret = "ok" /\ \A y \in Blocks \ {r.blk} : e.block[y] = r.disk.block[y]
  <2>1. CASE RoundFailed(r)
    BY <1>2, <1>4, <2>1 DEF RoundFailed, IsFile
  <2>2. CASE RoundLast(c, r, D)
    BY <1>1, <2>2 DEF RoundLast, RoundWritten, RoundTaken
  <2>3. CASE RoundBefore(c, r, D)
    BY <1>1, <1>2, <2>3 DEF RoundBefore, RoundTaken, IsFile
  <2> QED
    BY <1>1, <2>1, <2>2, <2>3
<1>6. call' = NoCall \/ (call'.path = c.path /\ call'.ino = c.ino)
  BY <1>1 DEF RoundFailed, RoundLast, RoundBefore
<1> HIDE DEF ino, g, e
<1>7. OthersSame(disk, e, ino)
  BY <1>2, <1>3, <1>4, <1>5, OthersThrough
<1> QED
  BY <1>3, <1>6, <1>7 DEF ino, e

LEMMA OthersNodes ==
  ASSUME NEW d, Good(d), NEW e, NEW ino \in Inos, OthersSame(d, e, ino), NEW p \in Paths, get_node_by_path(d, p) = ino
  PROVE  /\ NodesBut(e, p) = NodesBut(d, p)
         /\ p \in Reached(d) /\ p \in Reached(e) /\ get_node_by_path(e, p) = ino
<1>1. p \in Reached(d) /\ Reached(e) = Reached(d) /\ get_node_by_path(e, p) = ino
  <2>1. ino # Nil
    BY Constants
  <2> QED
    BY <2>1, OthersFacts DEF Reached
<1>2. ASSUME NEW q \in Reached(d), q # p PROVE NodeAt(e, q) = NodeAt(d, q)
  <2>1. /\ p \in Seq(Names) /\ q \in Seq(Names)
        /\ get_node_by_path(d, q) # Nil /\ get_node_by_path(d, p) # Nil
    BY <1>1, OthersFacts
  <2>2. get_node_by_path(d, q) # ino
    BY <1>2, <2>1, OnePath
  <2> QED
    BY <2>2, OthersFacts
<1>3. NodesBut(e, p) = NodesBut(d, p)
  BY <1>1, <1>2, ButKept
<1> QED
  BY <1>1, <1>3

\* The path of the write under way leads to its inode.
PathKept == call # NoCall => get_node_by_path(disk, call.path) = call.ino

LEMMA RoundPath ==
  ASSUME TypeOK, fs = "up", NEW c, WriteSound(c), WriteRound(c), get_node_by_path(disk, c.path) = c.ino
  PROVE  /\ PathKept' /\ NodesBut(disk', c.path) = NodesBut(disk, c.path)
         /\ get_node_by_path(disk', c.path) = c.ino
<1>1. /\ OthersSame(disk, disk', c.ino) /\ Good(disk)
      /\ call' = NoCall \/ (call'.path = c.path /\ call'.ino = c.ino)
  BY RoundOthers
<1>2. c.ino \in Inos /\ c.path \in Paths
  BY DEF WriteSound, Rounds
<1>3. NodesBut(disk', c.path) = NodesBut(disk, c.path) /\ get_node_by_path(disk', c.path) = c.ino
  BY <1>1, <1>2, OthersNodes
<1> QED
  BY <1>1, <1>3 DEF PathKept

LEMMA PathNext ==
  ASSUME TInv, PathKept, [Next]_vars
  PROVE  PathKept'
<1>1. ASSUME call' = NoCall PROVE PathKept'
  BY <1>1 DEF PathKept
<1>2. ASSUME disk' = disk, call' = call PROVE PathKept'
  BY <1>2 DEF PathKept
<1>3. CASE Mount
  <2>1. CASE fs = "new"
    <3>1. call' = call /\ call = NoCall
      BY <1>3, <2>1 DEF Mount, TInv, IInv
    <3> QED
      BY <1>1, <3>1
  <2>2. CASE fs # "new"
    BY <1>2, <1>3, <2>2 DEF Mount
  <2> QED
    BY <2>1, <2>2
<1>4. CASE Unmount
  BY <1>1, <1>4 DEF Unmount
<1>5. CASE WriteNext
  <2>1. fs = "up" /\ call # NoCall /\ WriteRound(call) /\ WriteSound(call) /\ TypeOK
    BY <1>5, CallSound DEF WriteNext, TInv, IInv
  <2> QED
    BY <2>1, RoundPath DEF PathKept
<1>6. CASE Misuse \/ Stopped \/ UNCHANGED vars
  BY <1>2, <1>6 DEF Misuse, Stopped, vars
<1>7. ASSUME NEW p \in client.paths, Lookup(p) PROVE PathKept'
  BY <1>2, <1>7 DEF Lookup
<1>8. ASSUME NEW p \in client.paths, rufs_mkdir(p) \/ rufs_create(p) \/ rufs_rmdir(p) \/ rufs_unlink(p)
      PROVE  PathKept'
  BY <1>1, <1>8 DEF rufs_mkdir, rufs_create, rufs_rmdir, rufs_unlink, Finish
<1>9. ASSUME NEW p \in client.paths, NEW r \in client.reads, rufs_read(p, r.off, r.len) PROVE PathKept'
  BY <1>2, <1>9 DEF rufs_read
<1>10. ASSUME NEW p \in client.paths, NEW w \in client.writes, rufs_write(p, w.off, w.words) PROVE PathKept'
  <2>1. TypeOK /\ fs = "up"
    BY <1>10, WriteBegins
  <2>2. CASE call' = NoCall
    BY <1>1, <2>2
  <2>3. CASE \E c : FirstOf(c, p, w)
    <3>1. PICK c : WriteRound(c) /\ WriteSound(c) /\ get_node_by_path(disk, c.path) = c.ino
      BY <2>3 DEF FirstOf
    <3> QED
      BY <2>1, <3>1, RoundPath
  <2> QED
    BY <1>10, <2>2, <2>3, WriteBegins
<1> QED
  BY <1>3, <1>4, <1>5, <1>6, <1>7, <1>8, <1>9, <1>10, Zenon DEF Next

\* The disk after a write within a block: the words of the file are those of the request.
LEMMA OneRoundWords ==
  ASSUME TypeOK, fs = "up", NEW c, WriteSound(c), WriteRound(c), c.done = 0, c.inode = disk.inode[c.ino],
         ~Spans(c.off, Len(c.words)), ret' = "ok", NEW h, h = disk'.inode[c.ino]
  PROVE  /\ \A j \in Places \ Asked(c) : WordAt(disk', h, j) = WordAt(disk, c.inode, j)
         /\ \A j \in Asked(c) : WordAt(disk', h, j) = c.words[j - c.off + 1]
         /\ h.type = "file" /\ h.size = c.inode.size + Len(c.words) /\ call' = NoCall
<1> DEFINE L    == Len(c.words)
           last == c.off + L - 1
           e    == disk'
           g    == c.inode
<1>1. PICK i, r, D : RoundTaken(c, i, r, D) /\ (RoundFailed(r) \/ RoundLast(c, r, D) \/ RoundBefore(c, r, D))
  BY RoundCases
<1>2. /\ c.off \in Nat /\ L \in Nat \ {0} /\ c.off \in Places /\ last \in Places /\ Asked(c) \subseteq Places
  BY AskedFacts
<1>3. IsLast(c)
  <2>1. last \div BlockSize = c.off \div BlockSize
    BY DEF Spans
  <2>2. c.off \div BlockSize \in Int
    <3>1. c.off \div BlockSize \in FileBlocks
      BY <1>2, PlaceFacts
    <3> QED
      BY <3>1 DEF FileBlocks
  <2>3. last \in c.off..last
    BY <1>2
  <2> DEFINE q == c.off \div BlockSize
  <2>4. q + c.done = q
    BY <2>2
  <2> HIDE DEF q, last
  <2>5. last \in {j \in c.off..last : j \div BlockSize = q + c.done}
    BY <2>1, <2>3, <2>4 DEF q
  <2> QED
    BY <2>5 DEF IsLast, InRound, Piece, last, q
<1>4. InRound(c) = Asked(c) /\ PieceStart(c.off, c.done) = c.off
  <2>1. PieceStart(c.off, c.done) = c.off
    BY DEF PieceStart
  <2>2. PICK a \in Nat, b \in Nat : InRound(c) = a..b /\ a = c.off /\ b <= last
    BY <2>1, AskedFacts
  <2>3. last \in a..b
    BY <1>3, <2>2 DEF IsLast
  <2>4. b = last
    BY <1>2, <2>2, <2>3
  <2> QED
    BY <2>1, <2>2, <2>4 DEF Asked
<1>5. RoundLast(c, r, D)
  BY <1>1, <1>3 DEF RoundFailed, RoundBefore
<1>6. /\ e.block = D.block /\ h.type = "file" /\ h.size = g.size + L /\ call' = NoCall
      /\ h.direct = r.inode.direct /\ h.indirect = r.inode.indirect /\ r.ret = "ok"
  BY <1>5 DEF RoundLast, RoundWritten
<1>7. /\ i = RoundBlock(c) /\ i \in FileBlocks /\ D = AfterRound(r, c, i)
      /\ BlockFound(disk, c.ino, g, r) /\ BlockTaken(disk, g, i, r) /\ Sound(disk, c.ino, g)
  BY <1>1 DEF RoundTaken, WriteSound
<1> HIDE DEF e, g
<1>8. ASSUME NEW j \in Places
      PROVE  WordAt(D, r.inode, j) = IF j \in InRound(c) THEN RoundWord(c, j) ELSE WordAt(disk, g, j)
  BY <1>6, <1>7, RoundWords
<1>9. \A j : WordAt(e, h, j) = WordAt(D, r.inode, j)
  BY <1>6 DEF WordAt, WordOf, BlockOf
<1>10. \A j : RoundWord(c, j) = c.words[j - c.off + 1]
  BY <1>4 DEF RoundWord
<1>11. \A j \in Places \ Asked(c) : WordAt(e, h, j) = WordAt(disk, g, j)
  BY <1>4, <1>8, <1>9
<1>12. \A j \in Asked(c) : WordAt(e, h, j) = c.words[j - c.off + 1]
  BY <1>2, <1>4, <1>8, <1>9, <1>10
<1> QED
  BY <1>6, <1>11, <1>12 DEF e, g

\* A write within a block replaces the words of the one file that it names, and they can be read.
LEMMA OneRound ==
  ASSUME TypeOK, fs = "up", NEW c, WriteSound(c), WriteRound(c), c.done = 0, c.inode = disk.inode[c.ino],
         ~Spans(c.off, Len(c.words)), ret' = "ok", c.off <= c.inode.size,
         NEW p \in Paths, c.path = p, get_node_by_path(disk, p) = c.ino
  PROVE  /\ p \in Reached(disk)
         /\ TreeIn(disk') = NodesBut(disk, p) \cup {Abstract!Written(NodeAt(disk, p), c.off, c.words)}
         /\ get_node_by_path(disk', p) = c.ino
         /\ ReadCount(disk', disk'.inode[c.ino], c.off, Len(c.words)) = Len(c.words)
<1> DEFINE L    == Len(c.words)
           last == c.off + L - 1
           e    == disk'
           ino  == c.ino
           f    == disk.inode[ino]
           h    == e.inode[ino]
           n    == NodeAt(disk, p)
           m    == NodeAt(e, p)
<1>1. /\ \A j \in Places \ Asked(c) : WordAt(e, h, j) = WordAt(disk, f, j)
      /\ \A j \in Asked(c) : WordAt(e, h, j) = c.words[j - c.off + 1]
      /\ h.type = "file" /\ h.size = f.size + L
  BY OneRoundWords
<1>2. /\ c.off \in Nat /\ L \in Nat \ {0} /\ L <= MaxRequest /\ c.off \in Places /\ last \in Places
      /\ Asked(c) \subseteq Places /\ c.words \in [1..L -> Data]
  BY AskedFacts
<1>3. Asked(c) = c.off..last /\ c.off <= last /\ last - c.off + 1 = L
  BY <1>2 DEF Asked
<1>4. f.type = "file" /\ ino \in Inos /\ c.off <= f.size /\ f \in Inode
  BY DEF WriteSound, IsFile, Rounds
<1>5. /\ NodesBut(e, p) = NodesBut(disk, p)
      /\ p \in Reached(disk) /\ p \in Reached(e) /\ get_node_by_path(e, p) = ino
  <2>1. OthersSame(disk, e, ino) /\ Good(disk)
    BY RoundOthers
  <2> QED
    BY <1>4, <2>1, OthersNodes
<1>6. \A j \in Asked(c) : WordAt(e, h, j) \in Data
  <2> SUFFICES ASSUME NEW j \in c.off..last PROVE c.words[j - c.off + 1] \in Data
    BY <1>1, <1>3
  <2>1. j - c.off + 1 \in 1..L
    BY <1>2
  <2> QED
    BY <1>2, <2>1
<1>7. c.words = WordsFrom(e, h, c.off, last)
  <2>1. \A k \in 1..L : c.off + k - 1 \in Asked(c) /\ (c.off + k - 1) - c.off + 1 = k
    BY <1>2, <1>3
  <2>2. \A k \in 1..L : WordAt(e, h, c.off + k - 1) = c.words[k]
    BY <1>1, <2>1
  <2>3. WordsFrom(e, h, c.off, last) = [k \in 1..L |-> WordAt(e, h, c.off + k - 1)]
    BY <1>3 DEF WordsFrom
  <2> HIDE DEF e, h, L
  <2> QED
    BY <1>2, <2>2, <2>3
<1>8. ContentIn(e, h) = Overwritten(ContentIn(disk, f), c.off, c.words)
  <2>1. last - c.off + 1 <= MaxRequest
    BY <1>2, <1>3
  <2>2. \A j \in Places \ (c.off..last) : WordAt(e, h, j) = WordAt(disk, f, j)
    BY <1>1, <1>3
  <2>3. \A j \in c.off..last : WordAt(e, h, j) \in Data
    BY <1>3, <1>6
  <2>4. c.off \in Places /\ last \in Places /\ c.off <= last
    BY <1>2, <1>3
  <2> DEFINE a == c.off
             words == c.words
  <2>5. words = WordsFrom(e, h, a, last)
    BY <1>7
  <2> HIDE DEF e, h, f, last, L, a, words
  <2>6. ContentIn(e, h) = Overwritten(ContentIn(disk, f), a, words)
    BY <2>1, <2>2, <2>3, <2>4, <2>5, ContentWritten DEF a
  <2> QED
    BY <2>6 DEF a, words
<1>9. m = Abstract!Written(n, c.off, c.words)
  <2>1. /\ n = [path |-> p, type |-> "file", content |-> ContentIn(disk, f)]
        /\ m = [path |-> p, type |-> "file", content |-> ContentIn(e, h)]
    BY <1>1, <1>4, <1>5 DEF NodeAt
  <2> HIDE DEF n, m, e, h, f
  <2>2. n.content = ContentIn(disk, f)
    BY <2>1
  <2>3. Abstract!Written(n, c.off, c.words) = [n EXCEPT !.content = ContentIn(e, h)]
    BY <1>8, <2>2 DEF Abstract!Written, Overwritten
  <2> QED
    BY <2>1, <2>3
<1>10. TreeIn(e) = NodesBut(disk, p) \cup {m}
  BY <1>5, TreeSplit
<1>11. ReadCount(e, h, c.off, L) = L
  <2>1. \A j \in Asked(c) : BlockOf(e, h, j \div BlockSize) # Nil
    <3>1. \A w \in Data : w # "zero"
      BY RufsAssumption
    <3> QED
      BY <1>6, <3>1 DEF WordAt
  <2>2. {j \in c.off..(c.off + L - 1) : BlockOf(e, h, j \div BlockSize) = Nil} = {}
    BY <1>3, <2>1
  <2>3. ~(c.off + L > h.size)
    <3>1. f.size \in 0..(MaxSize + MaxEntries)
      BY <1>4, InodeParts
    <3>2. MaxSize \in Nat /\ MaxEntries \in Nat
      BY Constants, Zenon
    <3>3. f.size \in Int
      BY <3>1, <3>2
    <3> HIDE DEF f, h, L
    <3> QED
      BY <1>1, <1>2, <1>4, <3>3
  <2> HIDE DEF e, h, L
  <2> QED
    BY <2>2, <2>3 DEF ReadCount
<1> QED
  BY <1>5, <1>9, <1>10, <1>11

LEMMA TreeIsNext == (Tree = TreeIn(disk))'
BY TreeIs, PTL

LEMMA OthersAre ==
  ASSUME NEW p
  PROVE  Others(p) = NodesBut(disk, p) /\ Others(p)' = NodesBut(disk', p)
BY TreeIs, TreeIsNext DEF Others, NodesBut

LEMMA WriteStored ==
  ASSUME TInv, NEW p \in client.paths, NEW w \in client.writes, ret' = "ok",
         ~Spans(w.off, Len(w.words)), rufs_write(p, w.off, w.words)
  PROVE  Stored(p, w.off, w.words)
<1>1. TypeOK /\ fs = "up" /\ p \in Paths
  <2>1. TypeOK /\ fs = "up"
    BY WriteBegins
  <2> QED
    BY <2>1, PathFacts
<1>2. PICK c : FirstOf(c, p, w)
  BY WriteBegins
<1>3. /\ WriteRound(c) /\ WriteSound(c) /\ c.done = 0 /\ c.inode = disk.inode[c.ino]
      /\ ~Spans(c.off, Len(c.words)) /\ c.off <= c.inode.size
      /\ c.path = p /\ get_node_by_path(disk, p) = c.ino
      /\ c.off = w.off /\ c.words = w.words
  BY <1>2 DEF FirstOf
<1>4. /\ p \in Reached(disk)
      /\ TreeIn(disk') = NodesBut(disk, p) \cup {Abstract!Written(NodeAt(disk, p), w.off, w.words)}
      /\ get_node_by_path(disk', p) = c.ino
      /\ ReadCount(disk', disk'.inode[c.ino], w.off, Len(w.words)) = Len(w.words)
  BY <1>1, <1>3, OneRound
<1>5. Tree \ Others(p) = {NodeAt(disk, p)}
  <2>1. Tree = NodesBut(disk, p) \cup {NodeAt(disk, p)}
    BY <1>4, TreeIs, TreeSplit
  <2>2. NodeAt(disk, p) \notin NodesBut(disk, p)
    BY NodePath DEF NodesBut
  <2> QED
    BY <2>1, <2>2, OthersAre
<1>6. Tree' = Others(p) \cup {Abstract!Written(n, w.off, w.words) : n \in Tree \ Others(p)}
  BY <1>4, <1>5, OthersAre, TreeIsNext
<1>7. ReadCount(disk, disk.inode[Ino(p)], w.off, Len(w.words))' = Len(w.words)
  BY <1>4 DEF Ino
<1> QED
  BY <1>6, <1>7 DEF Stored

\* A call that succeeds does what it is asked to: mkdir and create add their node, rmdir and unlink
\* remove theirs, a write within a block puts the client's words where they can be read back, and
\* no round of any write touches another path (rufs.c:325-414, 685-955, 1072-1272).
THEOREM CallsDoAsSaidHolds == ~RemovesFullDirs => (Spec => CallsDoAsSaid)
<1> SUFFICES ASSUME ~RemovesFullDirs PROVE Spec => CallsDoAsSaid
  OBVIOUS
<1> DEFINE PInv == TInv /\ PathKept
           Said(p) ==
             /\ call # NoCall /\ call.path = p => Others(p)' = Others(p)
             /\ rufs_mkdir(p)  => Tree' = Tree \cup {Abstract!Dir(p)}
             /\ rufs_create(p) => Tree' = Tree \cup {Abstract!File(p)}
             /\ rufs_rmdir(p) \/ rufs_unlink(p) => Tree' = Others(p)
             /\ \A w \in client.writes :
                  ~Spans(w.off, Len(w.words)) /\ rufs_write(p, w.off, w.words)
                    => Stored(p, w.off, w.words)
<1>1. Init => PInv
  <2> SUFFICES ASSUME Init PROVE TInv /\ PathKept
    OBVIOUS
  <2> QED
    BY InitGood DEF TInv, WriteKept, Init, PathKept
<1>2. PInv /\ [Next]_vars => PInv'
  BY NextTree, PathNext
<1>3. ASSUME TInv, PathKept, [Next]_vars, fs = "up", ret' = "ok", disk' # disk, NEW p \in client.paths
      PROVE  Said(p)
  <2>1. ASSUME call # NoCall, call.path = p PROVE Others(p)' = Others(p)
    <3>1. WriteNext
      <4>1. ~Ready
        BY <2>1 DEF Ready
      <4>2. ~Mount /\ ~Unmount /\ ~Misuse /\ ~Stopped /\ ~UNCHANGED vars
        BY <1>3 DEF Mount, Unmount, Misuse, Stopped, vars
      <4>3. ASSUME NEW q \in client.paths
            PROVE  /\ ~Lookup(q) /\ ~rufs_mkdir(q) /\ ~rufs_create(q) /\ ~rufs_rmdir(q) /\ ~rufs_unlink(q)
                   /\ \A r \in client.reads : ~rufs_read(q, r.off, r.len)
                   /\ \A w \in client.writes : ~rufs_write(q, w.off, w.words)
        BY <1>3, <4>1 DEF Lookup, rufs_mkdir, rufs_create, rufs_rmdir, rufs_unlink, rufs_read, rufs_write
      <4> QED
        BY <1>3, <4>2, <4>3 DEF Next
    <3>2. WriteRound(call) /\ WriteSound(call) /\ TypeOK /\ get_node_by_path(disk, call.path) = call.ino
      BY <1>3, <2>1, <3>1, CallSound DEF WriteNext, TInv, IInv, PathKept
    <3>3. NodesBut(disk', p) = NodesBut(disk, p)
      BY <1>3, <2>1, <3>2, RoundPath
    <3> QED
      BY <3>3, OthersAre
  <2>2. ASSUME rufs_mkdir(p) PROVE Tree' = Tree \cup {Abstract!Dir(p)}
    <3>1. TreeIn(disk') = TreeIn(disk) \cup {NewNode(p, "dir")}
      BY <1>3, <2>2, MadeSteps
    <3>2. NewNode(p, "dir") = Abstract!Dir(p)
      BY DEF NewNode
    <3> QED
      BY <3>1, <3>2, TreeIs, TreeIsNext
  <2>3. ASSUME rufs_create(p) PROVE Tree' = Tree \cup {Abstract!File(p)}
    <3>1. TreeIn(disk') = TreeIn(disk) \cup {NewNode(p, "file")}
      BY <1>3, <2>3, MadeSteps
    <3>2. NewNode(p, "file") = Abstract!File(p)
      BY DEF NewNode
    <3> QED
      BY <3>1, <3>2, TreeIs, TreeIsNext
  <2>4. ASSUME rufs_rmdir(p) \/ rufs_unlink(p) PROVE Tree' = Others(p)
    <3>1. TreeIn(disk') = NodesBut(disk, p)
      BY <1>3, <2>4, GoneSteps
    <3> QED
      BY <3>1, OthersAre, TreeIsNext
  <2>5. ASSUME NEW w \in client.writes, ~Spans(w.off, Len(w.words)), rufs_write(p, w.off, w.words)
        PROVE  Stored(p, w.off, w.words)
    BY <1>3, <2>5, WriteStored
  <2> QED
    BY <2>1, <2>2, <2>3, <2>4, <2>5
<1>4. PInv /\ [Next]_vars => [fs = "up" /\ ret' = "ok" /\ disk' # disk => \A p \in client.paths : Said(p)]_vars
  <2> HIDE DEF Said
  <2> QED
    BY <1>3
<1> QED
  BY <1>1, <1>2, <1>4, PTL DEF Spec, CallsDoAsSaid

-----------------------------------------------------------------------------
\* The pointers of an inode.

\* Block b is one that the inode f leads to.
Owns(d, f, b) == \/ \E k \in IndirectSlots : b = f.indirect[k]
                 \/ \E l \in FileBlocks : b = BlockOf(d, f, l)

\* Every pointer is the place of a file block.
LEMMA EveryPlace ==
  /\ \A k \in IndirectSlots, j \in IndexSlots : \E l \in FileBlocks : ~(l < NumDirect) /\ At(l) = k /\ Sub(l) = j
  /\ \A i \in DirectSlots : i \in FileBlocks /\ i < NumDirect
<1>1. NumDirect \in Nat \ {0} /\ NumIndirect \in Nat /\ IndirectCap \in Nat \ {0}
  BY Constants, Zenon
<1>2. NumIndirect * IndirectCap \in Nat
  BY <1>1
<1>4. ASSUME NEW k \in IndirectSlots, NEW j \in IndexSlots
      PROVE  \E l \in FileBlocks : ~(l < NumDirect) /\ At(l) = k /\ Sub(l) = j
  <2> DEFINE a == k * IndirectCap + j
             l == NumDirect + a
  <2>1. k \in Nat /\ k + 1 <= NumIndirect /\ j \in Nat /\ j <= IndirectCap - 1
    BY <1>1 DEF IndirectSlots, IndexSlots
  <2>2. k * IndirectCap \in Nat /\ (k + 1) * IndirectCap = k * IndirectCap + IndirectCap
    BY <1>1, <2>1
  <2>3. (k + 1) * IndirectCap <= NumIndirect * IndirectCap
    BY <1>1, <2>1
  <2>4. a \in Nat /\ a < NumIndirect * IndirectCap
    BY <1>1, <1>2, <2>1, <2>2, <2>3
  <2>5. a \div IndirectCap = k
    <3>1. k * IndirectCap <= a /\ a <= k * IndirectCap + (IndirectCap - 1)
      BY <1>1, <2>1, <2>2
    <3>2. k \in Int
      BY <2>1
    <3> HIDE DEF a
    <3> QED
      BY <1>1, <2>4, <3>1, <3>2, DivIs
  <2>6. a % IndirectCap = j
    <3>1. a = IndirectCap * (a \div IndirectCap) + (a % IndirectCap) /\ a % IndirectCap \in Int
      <4>1. a \in Int /\ a >= 0
        BY <2>4
      <4> HIDE DEF a
      <4> QED
        BY <1>1, <4>1, DivFacts
    <3>2. IndirectCap * k = k * IndirectCap
      BY <1>1, <2>1
    <3>3. a = k * IndirectCap + (a % IndirectCap)
      BY <2>5, <3>1, <3>2
    <3> DEFINE s == a % IndirectCap
               z == k * IndirectCap
    <3>4. s \in Int /\ z \in Nat /\ z + j = z + s
      BY <2>2, <3>1, <3>3
    <3> HIDE DEF s, z
    <3>5. s = j
      BY <2>1, <3>4
    <3> QED
      BY <3>5 DEF s
  <2> HIDE DEF a
  <2>7. l \in FileBlocks /\ ~(l < NumDirect) /\ l - NumDirect = a
    BY <1>1, <1>2, <2>4 DEF FileBlocks
  <2> QED
    BY <2>5, <2>6, <2>7 DEF At, Sub
<1>5. ASSUME NEW i \in DirectSlots PROVE i \in FileBlocks /\ i < NumDirect
  BY <1>1, <1>2 DEF DirectSlots, FileBlocks
<1> QED
  BY <1>4, <1>5

\* The blocks of an inode depend on its pointers and on its index blocks.
IndexesStay(d, e, f) == \A k \in IndirectSlots : f.indirect[k] # Nil => e.block[f.indirect[k]] = d.block[f.indirect[k]]

LEMMA BlocksStay ==
  ASSUME NEW d, NEW e, NEW f, NEW g, g.direct = f.direct, g.indirect = f.indirect, IndexesStay(d, e, f)
  PROVE  /\ \A l \in FileBlocks : BlockOf(e, g, l) = BlockOf(d, f, l)
         /\ \A b : Owns(e, g, b) <=> Owns(d, f, b)
<1>1. ASSUME NEW l \in FileBlocks PROVE BlockOf(e, g, l) = BlockOf(d, f, l)
  <2>1. CASE l < NumDirect
    BY <2>1, BlockIs
  <2>2. CASE ~(l < NumDirect)
    <3> DEFINE x == f.indirect[At(l)]
    <3>1. x # Nil => e.block[x] = d.block[x]
      BY <2>2, BlockPlaces DEF IndexesStay
    <3>2. /\ BlockOf(e, g, l) = IF x = Nil THEN Nil ELSE e.block[x].ptr[Sub(l)]
          /\ BlockOf(d, f, l) = IF x = Nil THEN Nil ELSE d.block[x].ptr[Sub(l)]
      BY <2>2, BlockIs
    <3> HIDE DEF x
    <3> QED
      BY <3>1, <3>2
  <2> QED
    BY <2>1, <2>2
<1>2. \A b : Owns(e, g, b) <=> Owns(d, f, b)
  BY <1>1, Zenon DEF Owns
<1> QED
  BY <1>1, <1>2

\* The index block of a live inode, and the block of a directory's table.
LEMMA IndexOf ==
  ASSUME NEW d, Good(d), NEW n \in LiveIn(d), NEW k \in IndirectSlots, NEW x, x = d.inode[n].indirect[k], x # Nil
  PROVE  /\ x \in Blocks /\ x \in d.d_bitmap /\ d.block[x].as = "index" /\ BelongsTo(d, n, x)
         /\ \A m : IsDir(d, m) => x # d.inode[m].direct[0]
<1>1. d \in Disk /\ Shape(d)
  BY DEF Good
<1>2. BelongsTo(d, n, x)
  BY DEF BelongsTo
<1>3. x \in d.d_bitmap /\ x \in Blocks
  <2>1. x \in d.d_bitmap
    BY <1>2, OwnMarked
  <2> QED
    BY <1>1, <2>1, DiskParts
<1>4. d.block[x].as = "index"
  BY <1>1 DEF Shape, DirShape, FileShape, IndexAt
<1>5. ASSUME NEW m, IsDir(d, m) PROVE d.block[d.inode[m].direct[0]].as = "table"
  BY <1>1, <1>5 DEF Shape, DirShape, IsDir
<1> QED
  BY <1>2, <1>3, <1>4, <1>5

\* What a node has, rmdir and unlink clear.
LEMMA DirOwns ==
  ASSUME NEW d, Good(d), NEW n, IsDir(d, n), NEW b, b # Nil, Owns(d, d.inode[n], b)
  PROVE  b \in DirectBlocks(d.inode[n])
<1> DEFINE f == d.inode[n]
<1>1. Shape(d) /\ d \in Disk /\ n \in LiveIn(d) /\ n \in Inos
  BY DEF Good, IsDir, LiveIn
<1>2. f.direct \in [DirectSlots -> Pointer]
  <2>1. f \in Inode
    BY <1>1, DiskParts
  <2> QED
    BY <2>1, InodeParts
<1>3. \A k \in IndirectSlots : f.indirect[k] = Nil
  BY <1>1 DEF Shape, DirShape, IsDir
<1>4. PICK l \in FileBlocks : b = BlockOf(d, f, l)
  BY <1>3 DEF Owns
<1>5. l < NumDirect
  BY <1>3, <1>4, BlockPlaces, BlockIs
<1>6. b = f.direct[l] /\ l \in DirectSlots
  BY <1>4, <1>5, BlockPlaces, BlockIs
<1> QED
  BY <1>2, <1>6 DEF DirectBlocks

\* The blocks of f behind a missing pointer, those of an index block that is behind one among them.
GapBlocks(d, f) == Behind(f.indirect) \cup UNION ({Behind(d.block[x].ptr) : x \in Leads(f.indirect)}
                                                     \cup {Leads(d.block[x].ptr) : x \in Behind(f.indirect)})

\* A pointer is before the first missing one or behind it.
LEMMA BeforeOrBehind ==
  ASSUME NEW K \in SUBSET Int, NEW ptr \in [K -> Pointer], NEW k \in K, ptr[k] # Nil
  PROVE  ptr[k] \in Leads(ptr) /\ (ptr[k] \in Leading(ptr) \/ ptr[k] \in Behind(ptr))
<1>1. CASE \A j \in K : j <= k => ptr[j] # Nil
  BY <1>1 DEF Leading, Leads
<1>2. CASE \E j \in K : j <= k /\ ptr[j] = Nil
  <2>1. PICK j \in K : j <= k /\ ptr[j] = Nil
    BY <1>2
  <2>2. j < k
    BY <2>1
  <2> QED
    BY <2>1, <2>2 DEF Behind, Leads
<1> QED
  BY <1>1, <1>2

LEMMA FileOwns ==
  ASSUME NEW d, Good(d), NEW n, IsFile(d, n), NEW f, f = d.inode[n], NEW b, b # Nil, Has(d, f, b)
  PROVE  b \in DirectBlocks(f) \cup IndirectBlocks(d, f) \cup GapBlocks(d, f)
<1>1. d \in Disk /\ n \in LiveIn(d) /\ n \in Inos
  BY DEF Good, IsFile, LiveIn
<1>2. f.direct \in [DirectSlots -> Pointer] /\ f.indirect \in [IndirectSlots -> Pointer]
  <2>1. f \in Inode
    BY <1>1, DiskParts
  <2> QED
    BY <2>1, InodeParts
<1>3. ASSUME NEW k \in IndirectSlots, f.indirect[k] # Nil
      PROVE  /\ f.indirect[k] \in Leads(f.indirect)
             /\ f.indirect[k] \in Leading(f.indirect) \/ f.indirect[k] \in Behind(f.indirect)
  <2>1. IndirectSlots \in SUBSET Int
    BY DEF IndirectSlots
  <2> QED
    BY <1>2, <1>3, <2>1, BeforeOrBehind
<1>4. CASE \E i \in DirectSlots : b = f.direct[i]
  BY <1>2, <1>4 DEF DirectBlocks
<1>5. CASE \E k \in IndirectSlots : b = f.indirect[k]
  BY <1>3, <1>5 DEF IndirectBlocks, GapBlocks
<1>6. ASSUME NEW k \in IndirectSlots, f.indirect[k] # Nil, NEW j \in IndexSlots, b = d.block[f.indirect[k]].ptr[j]
      PROVE  b \in IndirectBlocks(d, f) \cup GapBlocks(d, f)
  <2> DEFINE x   == f.indirect[k]
             ptr == d.block[x].ptr
  <2>1. x \in Leads(f.indirect) /\ (x \in Leading(f.indirect) \/ x \in Behind(f.indirect))
    BY <1>3, <1>6
  <2>2. b \in Leads(ptr) /\ (b \in Leading(ptr) \/ b \in Behind(ptr))
    <3>1. x \in Blocks /\ d.block[x].as = "index" /\ b = ptr[j]
      BY <1>1, <1>6, IndexOf
    <3>2. ptr \in [IndexSlots -> Pointer]
      BY <1>1, <3>1, IndexTyped
    <3>3. IndexSlots \in SUBSET Int
      BY DEF IndexSlots
    <3>4. b = ptr[j] /\ ptr[j] # Nil
      BY <3>1
    <3> HIDE DEF ptr
    <3>5. ptr[j] \in Leads(ptr) /\ (ptr[j] \in Leading(ptr) \/ ptr[j] \in Behind(ptr))
      BY <1>6, <3>2, <3>3, <3>4, BeforeOrBehind
    <3> QED
      BY <3>4, <3>5
  <2> HIDE DEF x
  <2> QED
    BY <2>1, <2>2 DEF IndirectBlocks, GapBlocks
<1> QED
  BY <1>4, <1>5, <1>6 DEF Has

LEMMA HasOwns ==
  ASSUME NEW d, NEW f, NEW b, b # Nil
  PROVE  Has(d, f, b) <=> Owns(d, f, b)
<1>1. ASSUME NEW i \in DirectSlots, b = f.direct[i] PROVE Owns(d, f, b)
  <2>1. i \in FileBlocks /\ BlockOf(d, f, i) = f.direct[i]
    BY EveryPlace, BlockIs
  <2> QED
    BY <1>1, <2>1 DEF Owns
<1>2. ASSUME NEW k \in IndirectSlots, f.indirect[k] # Nil, NEW j \in IndexSlots, b = d.block[f.indirect[k]].ptr[j]
      PROVE  Owns(d, f, b)
  <2>1. PICK l \in FileBlocks : ~(l < NumDirect) /\ At(l) = k /\ Sub(l) = j
    BY EveryPlace
  <2>2. BlockOf(d, f, l) = b
    BY <1>2, <2>1, BlockIs
  <2> QED
    BY <2>2 DEF Owns
<1>3. ASSUME NEW l \in FileBlocks, b = BlockOf(d, f, l) PROVE Has(d, f, b)
  <2>1. CASE l < NumDirect
    BY <1>3, <2>1, BlockPlaces, BlockIs DEF Has
  <2>2. CASE ~(l < NumDirect)
    <3>1. At(l) \in IndirectSlots /\ Sub(l) \in IndexSlots
      BY <2>2, BlockPlaces
    <3>2. f.indirect[At(l)] # Nil /\ b = d.block[f.indirect[At(l)]].ptr[Sub(l)]
      BY <1>3, <2>2, BlockIs
    <3> QED
      BY <3>1, <3>2 DEF Has
  <2> QED
    BY <2>1, <2>2
<1> QED
  BY <1>1, <1>2, <1>3 DEF Has, Owns

-----------------------------------------------------------------------------
\* What is marked and led to by nothing.

\* Block b is held by a node, or by an inode in memory, one of G.
Held(d, G, b) == \/ \E n \in LiveIn(d) : Has(d, d.inode[n], b)
                 \/ \E g \in G : Has(d, g, b)

LostBlocksIn(d, G) == {b \in d.d_bitmap : ~Held(d, G, b)}
LostInodesIn(d)    == d.i_bitmap \ LiveIn(d)

\* The inode in memory during the write c.
InMemory(c) == IF c = NoCall THEN {} ELSE {c.inode}

\* An inode that is also on the disk holds nothing more.
LEMMA HeldOnce ==
  ASSUME NEW d, NEW n \in LiveIn(d), NEW f, f = d.inode[n]
  PROVE  LostBlocksIn(d, {f}) = LostBlocksIn(d, {})
BY DEF LostBlocksIn, Held

\* The blocks that the properties count are these.
LEMMA HeldIs ==
  ASSUME IInv, Mounted, NEW b \in Blocks
  PROVE  b \in Used \cup Pending <=> Held(disk, InMemory(call), b)
<1>1. Good(disk) /\ disk \in Disk /\ Live = LiveIn(disk)
  BY MountedGood
<1>2. b # Nil
  BY Constants
<1>3. ASSUME b \in Used PROVE \E n \in LiveIn(disk) : Has(disk, disk.inode[n], b)
  <2>1. PICK u \in Uses : b = u[2]
    BY <1>3 DEF Used
  <2>2. PICK o, kind, i : Points(disk, o, kind, i, b)
    BY <1>1, <2>1, UsePoints
  <2>3. CASE kind = "direct" \/ kind = "indirect"
    BY <2>2, <2>3 DEF Points, Has
  <2>4. CASE kind = "index"
    <3>1. o \in IndexesIn(disk) /\ i \in IndexSlots /\ b = disk.block[o].ptr[i]
      BY <2>2, <2>4 DEF Points
    <3>2. PICK n \in LiveIn(disk), k \in IndirectSlots : disk.inode[n].indirect[k] = o /\ o \in Blocks
      BY <3>1 DEF IndexesIn
    <3>3. o # Nil
      BY <3>2, Constants
    <3> QED
      BY <3>1, <3>2, <3>3 DEF Has
  <2> QED
    BY <2>2, <2>3, <2>4 DEF Points
<1>4. ASSUME NEW n \in LiveIn(disk), Has(disk, disk.inode[n], b) PROVE b \in Used
  <2>1. n \in Live
    BY <1>1
  <2>2. CASE \E i \in DirectSlots : b = disk.inode[n].direct[i]
    <3>1. PICK i \in DirectSlots : b = disk.inode[n].direct[i]
      BY <2>2
    <3> DEFINE s == <<n, "direct", i>>
    <3>2. s \in Slots
      BY <2>1, <3>1 DEF Slots, DirectSlots
    <3>3. Pointed(s) = b
      BY <3>1 DEF Pointed
    <3> HIDE DEF s
    <3>4. <<s, b>> \in Uses
      BY <1>2, <3>2, <3>3 DEF Uses, Pointers
    <3> QED
      BY <3>4 DEF Used
  <2>3. ASSUME NEW k \in IndirectSlots
        PROVE  LET s == <<n, "indirect", k>>
               IN  s \in Slots /\ s[2] = "indirect" /\ Pointed(s) = disk.inode[n].indirect[k]
    BY <2>1, <2>3 DEF Slots, IndirectSlots, Pointed
  <2>4. CASE \E k \in IndirectSlots : b = disk.inode[n].indirect[k]
    <3>1. PICK k \in IndirectSlots : b = disk.inode[n].indirect[k]
      BY <2>4
    <3> DEFINE s == <<n, "indirect", k>>
    <3>2. s \in Slots /\ Pointed(s) = b
      BY <2>3, <3>1
    <3> HIDE DEF s
    <3>4. <<s, b>> \in Uses
      BY <1>2, <3>2 DEF Uses, Pointers
    <3> QED
      BY <3>4 DEF Used
  <2>5. ASSUME NEW k \in IndirectSlots, NEW x, x = disk.inode[n].indirect[k], x # Nil,
               NEW j \in IndexSlots, b = disk.block[x].ptr[j]
        PROVE  b \in Used
    <3> DEFINE s == <<n, "indirect", k>>
    <3>1. s \in Slots /\ s[2] = "indirect" /\ Pointed(s) = x
      BY <2>3, <2>5
    <3> HIDE DEF s
    <3>2. x \in Indexes
      BY <2>5, <3>1 DEF Indexes
    <3>3. Index(x) \in [IndexSlots -> Pointer]
      <4>1. x \in Blocks /\ disk.block[x].as = "index"
        BY <1>1, <2>5, IndexOf
      <4> QED
        BY <1>1, <4>1, IndexTyped DEF Index
    <3> DEFINE y == <<x, "index", j>>
    <3>4. j \in DOMAIN Index(x) /\ Index(x)[j] = b
      BY <2>5, <3>3 DEF Index
    <3>5. <<y, b>> \in {<<<<x, "index", i>>, Index(x)[i]>> : i \in DOMAIN Index(x)}
      BY <3>4
    <3> HIDE DEF y
    <3>6. <<y, b>> \in Uses
      BY <1>2, <3>2, <3>5 DEF Uses, Pointers
    <3> QED
      BY <3>6 DEF Used
  <2> QED
    BY <1>4, <2>2, <2>4, <2>5 DEF Has
<1>5. ASSUME call # NoCall PROVE b \in Pending <=> Has(disk, call.inode, b)
  <2>1. WriteSound(call)
    BY <1>5, CallSound DEF IInv, CallKept, Mounted
  <2>2. Sound(disk, call.ino, call.inode)
    BY <2>1 DEF WriteSound
  <2> DEFINE g == call.inode
             P == {g.indirect[k] : k \in IndirectSlots} \ {Nil}
  <2>3. \A k \in IndirectSlots : g.indirect[k] # Nil => DOMAIN Index(g.indirect[k]) = IndexSlots
    <3> SUFFICES ASSUME NEW k \in IndirectSlots, NEW x, x = g.indirect[k], x # Nil
                 PROVE  DOMAIN Index(x) = IndexSlots
      OBVIOUS
    <3>1. x \in Blocks /\ disk.block[x].as = "index"
      BY <2>2, FileBytes DEF IndexBytes
    <3>2. Index(x) \in [IndexSlots -> Pointer]
      BY <1>1, <3>1, IndexTyped DEF Index
    <3> QED
      BY <3>2
  <2>4. b \in Pending <=> \/ b \in {g.direct[i] : i \in DirectSlots}
                          \/ b \in {g.indirect[k] : k \in IndirectSlots}
                          \/ b \in UNION {{Index(x)[j] : j \in DOMAIN Index(x)} : x \in P}
    BY <1>5 DEF Pending, DirectSlots, IndirectSlots
  <2>5. b \in UNION {{Index(x)[j] : j \in DOMAIN Index(x)} : x \in P}
          <=> \E k \in IndirectSlots : g.indirect[k] # Nil /\ \E j \in IndexSlots : b = disk.block[g.indirect[k]].ptr[j]
    <3>1. b \in UNION {{Index(x)[j] : j \in DOMAIN Index(x)} : x \in P}
            <=> \E x \in P : \E j \in DOMAIN Index(x) : b = Index(x)[j]
      OBVIOUS
    <3>2. (\E x \in P : \E j \in DOMAIN Index(x) : b = Index(x)[j])
            <=> \E k \in IndirectSlots : g.indirect[k] # Nil /\ \E j \in DOMAIN Index(g.indirect[k]) : b = Index(g.indirect[k])[j]
      OBVIOUS
    <3>3. (\E k \in IndirectSlots : g.indirect[k] # Nil /\ \E j \in DOMAIN Index(g.indirect[k]) : b = Index(g.indirect[k])[j])
            <=> \E k \in IndirectSlots : g.indirect[k] # Nil /\ \E j \in IndexSlots : b = disk.block[g.indirect[k]].ptr[j]
      <4> HIDE DEF g
      <4> QED
        BY <2>3 DEF Index
    <3> QED
      BY <3>1, <3>2, <3>3
  <2> HIDE DEF P
  <2> QED
    BY <2>4, <2>5 DEF Has
<1>6. call = NoCall => Pending = {}
  BY DEF Pending
<1> QED
  BY <1>3, <1>4, <1>5, <1>6 DEF Held, InMemory

LEMMA LostIs == IInv /\ Mounted => /\ LostBlocks = LostBlocksIn(disk, InMemory(call))
                                   /\ LostInodes = LostInodesIn(disk)
<1> SUFFICES ASSUME IInv, Mounted
             PROVE  LostBlocks = LostBlocksIn(disk, InMemory(call)) /\ LostInodes = LostInodesIn(disk)
  OBVIOUS
<1>1. disk \in Disk /\ Live = LiveIn(disk)
  BY MountedGood
<1>2. disk.d_bitmap \subseteq Blocks
  BY <1>1, DiskParts
<1> QED
  BY <1>1, <1>2, HeldIs DEF LostBlocks, LostBlocksIn, LostInodes, LostInodesIn

-----------------------------------------------------------------------------
\* The calls that add and remove nodes.

\* Blocks that are marked on e and on d are led to on e, if they were on d.
LEMMA NothingLost ==
  ASSUME NEW d, NEW e \in Disk, NEW G, NEW H,
         \A b \in Blocks : b \in e.d_bitmap /\ (b \notin d.d_bitmap \/ Held(d, G, b)) => Held(e, H, b)
  PROVE  LostBlocksIn(e, H) \subseteq LostBlocksIn(d, G)
<1>1. e.d_bitmap \subseteq Blocks
  BY DiskParts
<1> QED
  BY <1>1 DEF LostBlocksIn

\* Node m keeps its pointers and its index blocks.
PointersStay(d, e, m) == /\ e.inode[m].direct = d.inode[m].direct /\ e.inode[m].indirect = d.inode[m].indirect
                         /\ IndexesStay(d, e, d.inode[m])

LEMMA PointersFacts ==
  ASSUME NEW d, NEW e, NEW m, PointersStay(d, e, m)
  PROVE  \A b \in Blocks : Has(d, d.inode[m], b) <=> Has(e, e.inode[m], b)
<1> DEFINE f == d.inode[m]
           g == e.inode[m]
<1>1. g.direct = f.direct /\ g.indirect = f.indirect /\ IndexesStay(d, e, f)
  BY DEF PointersStay
<1> HIDE DEF f, g
<1>2. \A b : Owns(e, g, b) <=> Owns(d, f, b)
  BY <1>1, BlocksStay
<1>3. \A b \in Blocks : Has(d, f, b) <=> Has(e, g, b)
  <2>1. \A b \in Blocks : b # Nil
    BY Constants
  <2> QED
    BY <1>2, <2>1, HasOwns
<1> QED
  BY <1>3 DEF f, g

\* mkdir and create: the inode is that of the new node, and the block its table.
LEMMA MadeLoses ==
  ASSUME NEW d, Good(d), NEW e \in Disk, NEW p, NEW type, NodeMade(d, e, p, type)
  PROVE  LostInodesIn(e) \subseteq LostInodesIn(d) /\ LostBlocksIn(e, {}) \subseteq LostBlocksIn(d, {})
<1> DEFINE n0 == get_node_by_path(d, Parent(p))
           name == Name(p)
<1>1. PICK ino, i, t, blk : NodeAdded(d, e, n0, ino, name, i, t, blk)
  BY DEF NodeMade
<1> HIDE DEF n0, name
<1>2. Good(e) /\ EntryAdded(d, e, n0, ino, name, i)
  BY <1>1, AddGood
<1>3. /\ IsDir(d, n0) /\ ino \in Inos \ LiveIn(d) /\ LiveIn(e) = LiveIn(d) \cup {ino}
      /\ \A n \in LiveIn(d) : e.inode[n].type = d.inode[n].type
  BY <1>2 DEF EntryAdded
<1>4. /\ t = d.inode[n0].direct[0] /\ e.i_bitmap = d.i_bitmap \cup {ino}
      /\ \A n \in Inos \ {n0, ino} : e.inode[n] = d.inode[n]
      /\ e.inode[n0] = [d.inode[n0] EXCEPT !.size = @ + 1]
      /\ \A b \in Blocks \ {t} : b \in d.d_bitmap \/ b \notin e.d_bitmap => e.block[b] = d.block[b]
      /\ NewFile(d, e, ino) \/ NewDir(d, e, ino, n0, blk)
  BY <1>1 DEF NodeAdded
<1>5. ASSUME NEW m \in LiveIn(d) PROVE PointersStay(d, e, m)
  <2>1. e.inode[m].direct = d.inode[m].direct /\ e.inode[m].indirect = d.inode[m].indirect
    <3>1. CASE m = n0
      <4>1. d.inode[n0] \in Inode
        BY <1>3, DiskParts DEF Good, IsDir, LiveIn
      <4>2. /\ [d.inode[n0] EXCEPT !.size = @ + 1].direct = d.inode[n0].direct
            /\ [d.inode[n0] EXCEPT !.size = @ + 1].indirect = d.inode[n0].indirect
        BY <4>1, InodeParts
      <4> QED
        BY <1>4, <3>1, <4>2
    <3>2. CASE m # n0
      BY <1>3, <1>4, <3>2 DEF LiveIn
    <3> QED
      BY <3>1, <3>2
  <2>2. ASSUME NEW k \in IndirectSlots, NEW x, x = d.inode[m].indirect[k], x # Nil PROVE e.block[x] = d.block[x]
    <3>1. x \in Blocks /\ x \in d.d_bitmap /\ x # t
      BY <1>3, <1>4, <2>2, IndexOf
    <3> QED
      BY <1>4, <3>1
  <2> QED
    BY <2>1, <2>2 DEF PointersStay, IndexesStay
<1>6. ASSUME NEW b \in Blocks, Held(d, {}, b) PROVE Held(e, {}, b)
  <2>1. PICK n \in LiveIn(d) : Has(d, d.inode[n], b)
    BY <1>6 DEF Held
  <2>2. Has(e, e.inode[n], b) /\ n \in LiveIn(e)
    BY <1>3, <1>5, <2>1, PointersFacts
  <2> QED
    BY <2>2 DEF Held
<1>7. ASSUME NEW b \in Blocks, b \in e.d_bitmap, b \notin d.d_bitmap PROVE Held(e, {}, b)
  <2>1. NewDir(d, e, ino, n0, blk) /\ b = blk
    BY <1>4, <1>7 DEF NewFile, NewDir
  <2>2. e.inode[ino].direct[0] = b
    BY <2>1, NewDirFacts
  <2>3. ino \in LiveIn(e) /\ Has(e, e.inode[ino], b)
    BY <1>3, <2>2, Constants DEF Has
  <2> QED
    BY <2>3 DEF Held
<1>8. LostBlocksIn(e, {}) \subseteq LostBlocksIn(d, {})
  BY <1>6, <1>7, NothingLost
<1>9. LostInodesIn(e) \subseteq LostInodesIn(d)
  BY <1>3, <1>4 DEF LostInodesIn
<1> QED
  BY <1>8, <1>9

\* rmdir and unlink: the blocks B that they clear are all that the node has, but for those of G.
LEMMA GoneLoses ==
  ASSUME NEW d, Good(d), NEW e \in Disk, NEW p, NEW B, NodeGone(d, e, p, B), NEW G,
         \A b \in Blocks : Has(d, d.inode[get_node_by_path(d, p)], b) => b \in B \/ b \in G
  PROVE  /\ LostInodesIn(e) \subseteq LostInodesIn(d) /\ LostBlocksIn(e, {}) \subseteq LostBlocksIn(d, {}) \cup G
         /\ get_node_by_path(d, p) \notin LiveIn(e)
<1> DEFINE n0  == get_node_by_path(d, Parent(p))
           ino == get_node_by_path(d, p)
<1>1. PICK i, t : NodeRemoved(d, e, n0, ino, i, B, t)
  BY DEF NodeGone
<1>0. \A b \in Blocks : Has(d, d.inode[ino], b) => b \in B \/ b \in G
  OBVIOUS
<1> HIDE DEF n0, ino
<1>2. EntryRemoved(d, e, n0, ino, i)
  BY <1>1, RemoveGood
<1>3. /\ IsDir(d, n0) /\ ino \in LiveIn(d) \ {Root, n0} /\ LiveIn(e) = LiveIn(d) \ {ino}
      /\ \A n \in LiveIn(e) : e.inode[n].type = d.inode[n].type
  BY <1>2 DEF EntryRemoved
<1>4. /\ t = d.inode[n0].direct[0] /\ e.i_bitmap = d.i_bitmap \ {ino} /\ e.d_bitmap = d.d_bitmap \ B
      /\ \A b \in B : b \in Blocks /\ BelongsTo(d, ino, b)
      /\ \A n \in Inos \ {n0, ino} : e.inode[n] = d.inode[n]
      /\ e.inode[n0] = [d.inode[n0] EXCEPT !.size = @ - 1]
      /\ \A b \in Blocks \ (B \cup {t}) : e.block[b] = d.block[b]
  BY <1>1 DEF NodeRemoved
<1>5. ASSUME NEW m \in LiveIn(e) PROVE PointersStay(d, e, m)
  <2>0. m \in LiveIn(d) /\ m # ino /\ m \in Inos
    BY <1>3 DEF LiveIn
  <2>1. e.inode[m].direct = d.inode[m].direct /\ e.inode[m].indirect = d.inode[m].indirect
    <3>1. CASE m = n0
      <4>1. d.inode[n0] \in Inode
        BY <1>3, DiskParts DEF Good, IsDir, LiveIn
      <4>2. /\ [d.inode[n0] EXCEPT !.size = @ - 1].direct = d.inode[n0].direct
            /\ [d.inode[n0] EXCEPT !.size = @ - 1].indirect = d.inode[n0].indirect
        BY <4>1, InodeParts
      <4> QED
        BY <1>4, <3>1, <4>2
    <3>2. CASE m # n0
      BY <1>4, <2>0, <3>2
    <3> QED
      BY <3>1, <3>2
  <2>2. ASSUME NEW k \in IndirectSlots, NEW x, x = d.inode[m].indirect[k], x # Nil PROVE e.block[x] = d.block[x]
    <3>1. x \in Blocks /\ x # t /\ BelongsTo(d, m, x)
      BY <1>3, <1>4, <2>0, <2>2, IndexOf
    <3>2. x \notin B
      <4>1. x \in B => ~BelongsTo(d, m, x)
        BY <1>3, <1>4, <2>0, <2>2, Apart
      <4> QED
        BY <3>1, <4>1
    <3> QED
      BY <1>4, <3>1, <3>2
  <2> QED
    BY <2>1, <2>2 DEF PointersStay, IndexesStay
<1>6. ASSUME NEW b \in Blocks, b \in e.d_bitmap, b \notin G, Held(d, {}, b) PROVE Held(e, {}, b)
  <2>1. PICK n \in LiveIn(d) : Has(d, d.inode[n], b)
    BY <1>6 DEF Held
  <2>2. n \in LiveIn(e)
    BY <1>0, <1>3, <1>4, <1>6, <2>1
  <2>3. Has(e, e.inode[n], b)
    BY <1>5, <2>1, <2>2, PointersFacts
  <2> QED
    BY <2>2, <2>3 DEF Held
<1>7. \A b : b \in e.d_bitmap => b \in d.d_bitmap
  BY <1>4
<1>8. LostBlocksIn(e, {}) \subseteq LostBlocksIn(d, {}) \cup G
  <2>1. e.d_bitmap \subseteq Blocks
    BY DiskParts
  <2> QED
    BY <1>6, <1>7, <2>1 DEF LostBlocksIn
<1>9. LostInodesIn(e) \subseteq LostInodesIn(d)
  BY <1>3, <1>4 DEF LostInodesIn
<1>10. ino \notin LiveIn(e)
  BY <1>3
<1> QED
  BY <1>8, <1>9, <1>10 DEF ino

-----------------------------------------------------------------------------
\* The rounds of a write.

\* What an inode with fewer pointers leads to.
LEMMA FewerHas ==
  ASSUME NEW d, NEW f, NEW g, Fewer(f, g), NEW b \in Blocks, Has(d, f, b)
  PROVE  Has(d, g, b)
<1>1. b # Nil
  BY Constants
<1>2. \A i \in DirectSlots : f.direct[i] # Nil => g.direct[i] = f.direct[i]
  BY DEF Fewer
<1>3. \A k \in IndirectSlots : f.indirect[k] # Nil => g.indirect[k] = f.indirect[k]
  BY DEF Fewer
<1> QED
  BY <1>1, <1>2, <1>3, Zenon DEF Has

\* A round marks only blocks that it enters in the inode, and changes one index block at most.
BitsTaken(d, g, i, r) ==
  /\ r.disk.i_bitmap = d.i_bitmap
  /\ r.ret = "ok" => \A b \in r.disk.d_bitmap : b \in d.d_bitmap \/ Owns(r.disk, r.inode, b)
  /\ \A k \in IndirectSlots : r.inode.indirect[k] = g.indirect[k] \/ (~(i < NumDirect) /\ k = At(i))

LEMMA DirectBits ==
  ASSUME NEW d, NEW ino, NEW g, Sound(d, ino, g), NEW i \in FileBlocks, i < NumDirect,
         NEW r, r = DirectBlock(d, g, i)
  PROVE  BitsTaken(d, g, i, r)
<1> DEFINE b == IF g.direct[i] = Nil THEN get_avail_blkno(d) ELSE g.direct[i]
           h == WithDirect(g, i, b)
<1>1. /\ r.ret = IF b = Nil THEN "short" ELSE "ok"
      /\ r.disk = IF b = Nil THEN d ELSE Marked(d, b)
      /\ r.inode = h /\ r.blk = b
  BY DEF DirectBlock, Marked, WithDirect
<1>2. d \in Disk /\ g \in Inode /\ i \in DirectSlots
  BY BlockPlaces DEF Sound
<1>3. b \in Pointer
  <2>1. g.direct[i] \in Pointer
    BY <1>2, InodeParts
  <2>2. get_avail_blkno(d) \in Pointer
    BY AvailFacts DEF Pointer
  <2> QED
    BY <2>1, <2>2
<1>4. h = WithDirect(g, i, b)
  OBVIOUS
<1> HIDE DEF b, h
<1>5. h.indirect = g.indirect /\ h.direct = [g.direct EXCEPT ![i] = b]
  BY <1>2, <1>3, <1>4, PointerSet
<1>6. BlockTaken(d, g, i, r)
  BY DirectTaken
<1>7. CASE b = Nil
  BY <1>1, <1>5, <1>7 DEF BitsTaken
<1>8. CASE b # Nil
  <2>1. b \in Blocks
    BY <1>3, <1>8 DEF Pointer
  <2>2. r.disk.i_bitmap = d.i_bitmap /\ r.disk.d_bitmap = d.d_bitmap \cup {b}
    BY <1>1, <1>2, <1>8, <2>1, MarkedFacts
  <2>3. Owns(r.disk, r.inode, b)
    <3>1. BlockOf(r.disk, r.inode, i) = b
      BY <1>1, <1>6, <1>8 DEF BlockTaken
    <3> QED
      BY <3>1 DEF Owns
  <2> QED
    BY <1>1, <1>5, <2>2, <2>3 DEF BitsTaken
<1> QED
  BY <1>7, <1>8

LEMMA IndirectBits ==
  ASSUME NEW d, NEW ino, NEW g, Sound(d, ino, g), NEW i \in FileBlocks, ~(i < NumDirect),
         NEW r, r = IndirectBlock(d, g, i)
  PROVE  BitsTaken(d, g, i, r)
<1> DEFINE k  == At(i)
           j  == Sub(i)
           x  == IF g.indirect[k] = Nil THEN get_avail_blkno(d) ELSE g.indirect[k]
           d1 == WithIndex(d, g, k, x)
           b  == IF x = Nil THEN Nil
                 ELSE IF d1.block[x].ptr[j] = Nil THEN get_avail_blkno(d1) ELSE d1.block[x].ptr[j]
           h  == WithIndirect(g, k, x)
           e  == IF b = Nil THEN d1 ELSE WithPtr(d1, x, j, b)
<1>1. /\ r.ret = IF b = Nil THEN "ENOSPC" ELSE "ok"
      /\ r.disk = e /\ r.inode = h /\ r.blk = b
  BY DEF IndirectBlock, WithIndex, WithPtr, WithIndirect, At, Sub
<1>2. k \in IndirectSlots /\ j \in IndexSlots
  BY BlockPlaces
<1>3. /\ x = IF g.indirect[k] = Nil THEN get_avail_blkno(d) ELSE g.indirect[k]
      /\ d1 = WithIndex(d, g, k, x) /\ h = WithIndirect(g, k, x)
  OBVIOUS
<1>4. b = Nil => e = d1
  OBVIOUS
<1>5. b # Nil => /\ x # Nil /\ e = WithPtr(d1, x, j, b)
                 /\ b = IF d1.block[x].ptr[j] = Nil THEN get_avail_blkno(d1) ELSE d1.block[x].ptr[j]
  OBVIOUS
<1>6. g.indirect[k] # Nil => g.indirect[k] = x
  OBVIOUS
<1>7. k = At(i)
  OBVIOUS
<1> HIDE DEF k, j, x, d1, b, h, e
<1>8. Sound(d1, ino, h) /\ x \in Pointer /\ h.indirect[k] = x /\ d \in Disk /\ g \in Inode
  BY <1>2, <1>3, IndexSound DEF Sound
<1>9. \A m \in IndirectSlots : h.indirect[m] = g.indirect[m] \/ m = k
  <2>1. h.direct = g.direct /\ h.indirect = [g.indirect EXCEPT ![k] = x]
    BY <1>2, <1>3, <1>8, PointerSet
  <2>2. g.indirect \in [IndirectSlots -> Pointer]
    BY <1>8, InodeParts
  <2> QED
    BY <2>1, <2>2
<1>10. d1.i_bitmap = d.i_bitmap /\ \A y \in d1.d_bitmap : y \in d.d_bitmap \/ y = x
  <2>1. CASE g.indirect[k] # Nil \/ x = Nil
    BY <1>3, <2>1 DEF WithIndex
  <2>2. CASE g.indirect[k] = Nil /\ x # Nil
    <3>1. x \in Blocks
      BY <1>8, <2>2 DEF Pointer
    <3>2. d1 = WithIndex(d, g, k, x) /\ d \in Disk
      BY <1>3, <1>8
    <3>3. /\ d1.d_bitmap = d.d_bitmap \cup {x} /\ d1.block = [d.block EXCEPT ![x] = EmptyIndex]
          /\ d1.i_bitmap = d.i_bitmap
      BY <2>2, <3>1, <3>2, WithIndexFacts
    <3> QED
      BY <3>3
  <2> QED
    BY <2>1, <2>2
<1>11. CASE b = Nil
  BY <1>1, <1>4, <1>7, <1>9, <1>10, <1>11 DEF BitsTaken
<1>12. CASE b # Nil
  <2>1. x \in Blocks /\ d1.block[x].as = "index" /\ d1 \in Disk
    BY <1>2, <1>5, <1>8, <1>12, FileBytes DEF IndexBytes, Sound
  <2>2. b \in Blocks
    <3>1. d1.block[x].ptr \in [IndexSlots -> Pointer]
      BY <2>1, IndexTyped
    <3> QED
      BY <1>2, <1>5, <1>12, <3>1, AvailFacts DEF Pointer
  <2>3. e.i_bitmap = d1.i_bitmap /\ e.d_bitmap = d1.d_bitmap \cup {b}
    BY <1>2, <1>5, <1>12, <2>1, <2>2, WithPtrFacts
  <2>4. Owns(e, h, b)
    <3>1. BlockTaken(d, g, i, r)
      BY IndirectTaken
    <3>2. BlockOf(e, h, i) = b
      BY <1>1, <1>12, <3>1 DEF BlockTaken
    <3> QED
      BY <3>2 DEF Owns
  <2>5. Owns(e, h, x)
    BY <1>2, <1>8 DEF Owns
  <2> QED
    BY <1>1, <1>7, <1>9, <1>10, <2>3, <2>4, <2>5 DEF BitsTaken
<1> QED
  BY <1>11, <1>12

LEMMA FileBlockBits ==
  ASSUME NEW d, NEW ino, NEW g, Sound(d, ino, g), NEW i \in FileBlocks, NEW r, r = FileBlock(d, g, i)
  PROVE  BitsTaken(d, g, i, r)
BY DirectBits, IndirectBits DEF FileBlock

\* The words of a round are in no bitmap.
LEMMA WordsBits ==
  ASSUME NEW d \in Disk, NEW b, NEW val, NEW n, NEW h, NEW D, D = WithWords(d, b, val),
         NEW e, e = InodeWritten(D, n, h)
  PROVE  /\ D.i_bitmap = d.i_bitmap /\ D.d_bitmap = d.d_bitmap
         /\ e.i_bitmap = d.i_bitmap /\ e.d_bitmap = d.d_bitmap
<1>1. d = [i_bitmap |-> d.i_bitmap, d_bitmap |-> d.d_bitmap, inode |-> d.inode, block |-> d.block]
  BY DiskParts
<1>2. \E K : D = [i_bitmap |-> d.i_bitmap, d_bitmap |-> d.d_bitmap, inode |-> d.inode, block |-> K]
  <2> DEFINE K == [d.block EXCEPT ![b].val = val]
  <2>1. D = [d EXCEPT !.block = K]
    BY DEF WithWords
  <2> HIDE DEF K
  <2>2. D = [i_bitmap |-> d.i_bitmap, d_bitmap |-> d.d_bitmap, inode |-> d.inode, block |-> K]
    BY <1>1, <2>1
  <2> QED
    BY <2>2
<1>3. PICK K : D = [i_bitmap |-> d.i_bitmap, d_bitmap |-> d.d_bitmap, inode |-> d.inode, block |-> K]
  BY <1>2
<1>4. e.i_bitmap = d.i_bitmap /\ e.d_bitmap = d.d_bitmap
  <2> DEFINE I == [D.inode EXCEPT ![n] = h]
  <2>1. e = [D EXCEPT !.inode = I]
    BY DEF InodeWritten
  <2> HIDE DEF I
  <2> QED
    BY <1>3, <2>1
<1> QED
  BY <1>3, <1>4

LEMMA RoundBits ==
  ASSUME NEW c, WriteSound(c), WriteRound(c), NEW r, r = FileBlock(disk, c.inode, RoundBlock(c)), r.disk \in Disk
  PROVE  disk'.i_bitmap = r.disk.i_bitmap /\ disk'.d_bitmap = r.disk.d_bitmap
<1> DEFINE i == RoundBlock(c)
           val == Merged(r.disk.block[r.blk].val, c, i)
           D == WithWords(r.disk, r.blk, val)
           h == [r.inode EXCEPT !.size = @ + Len(c.words)]
           e == InodeWritten(D, c.ino, h)
<1>1. disk' = r.disk \/ disk' = D \/ disk' = e
  BY DEF WriteRound, WithWords, InodeWritten, RoundBlock, Finish, Done
<1>2. /\ D.i_bitmap = r.disk.i_bitmap /\ D.d_bitmap = r.disk.d_bitmap
      /\ e.i_bitmap = r.disk.i_bitmap /\ e.d_bitmap = r.disk.d_bitmap
  <2> HIDE DEF val, h
  <2> QED
    BY WordsBits
<1> HIDE DEF D, e
<1> QED
  BY <1>1, <1>2

\* The disk d with a file ino that is written through g, block i being next: what a round that
\* gets its block r.blk leaves on the disk D.
Round(d, ino, g, i, r, D) ==
  /\ Good(d) /\ IsFile(d, ino) /\ Sound(d, ino, g) /\ Fewer(d.inode[ino], g)
  /\ i \in FileBlocks /\ BlockFound(d, ino, g, r) /\ BlockTaken(d, g, i, r) /\ BitsTaken(d, g, i, r) /\ r.ret = "ok"
  /\ \A y \in Blocks \ {r.blk} : D.block[y] = r.disk.block[y]

\* Index blocks are not written to.
LEMMA RoundIndexes ==
  ASSUME NEW d, NEW ino, NEW g, NEW i, NEW r, NEW D, Round(d, ino, g, i, r, D), NEW f, Fewer(f, r.inode)
  PROVE  IndexesStay(r.disk, D, f)
<1>1. Sound(r.disk, ino, r.inode) /\ r.disk.block[r.blk].as = "bytes"
  BY DEF Round, BlockFound
<1>2. ASSUME NEW k \in IndirectSlots, f.indirect[k] # Nil PROVE D.block[f.indirect[k]] = r.disk.block[f.indirect[k]]
  <2> DEFINE x == f.indirect[k]
  <2>1. x = r.inode.indirect[k] /\ x # Nil
    BY <1>2 DEF Fewer
  <2>2. x \in Blocks /\ r.disk.block[x].as = "index"
    BY <1>1, <2>1, FileBytes DEF IndexBytes
  <2> HIDE DEF x
  <2>3. D.block[x] = r.disk.block[x]
    BY <1>1, <2>2 DEF Round
  <2> QED
    BY <2>3 DEF x
<1> QED
  BY <1>2 DEF IndexesStay

\* What the inodes in memory and on the disk lead to afterwards.
LEMMA RoundLeads ==
  ASSUME NEW d, NEW ino, NEW g, NEW i, NEW r, NEW D, Round(d, ino, g, i, r, D)
  PROVE  /\ \A l \in FileBlocks : BlockOf(D, r.inode, l) = IF l = i THEN r.blk ELSE BlockOf(d, g, l)
         /\ \A f : Fewer(f, g) => \A l \in FileBlocks :
              \/ BlockOf(D, f, l) = BlockOf(d, f, l)
              \/ l = i /\ BlockOf(D, f, l) = r.blk
         /\ r.blk \in Blocks /\ r.blk # Nil
         /\ Fewer(g, r.inode)
<1>1. /\ Sound(r.disk, ino, r.inode) /\ Fewer(g, r.inode) /\ r.blk \in Blocks
      /\ \A l \in FileBlocks : BlockOf(r.disk, r.inode, l) = IF l = i THEN r.blk ELSE BlockOf(d, g, l)
  BY DEF Round, BlockFound, BlockTaken
<1>2. Fewer(r.inode, r.inode)
  BY <1>1, FewerSelf DEF Sound
<1>3. \A l \in FileBlocks : BlockOf(D, r.inode, l) = BlockOf(r.disk, r.inode, l)
  <2>1. IndexesStay(r.disk, D, r.inode)
    BY <1>2, RoundIndexes
  <2> QED
    BY <2>1, BlocksStay
<1>4. ASSUME NEW f, Fewer(f, g), NEW l \in FileBlocks
      PROVE  BlockOf(D, f, l) = BlockOf(d, f, l) \/ (l = i /\ BlockOf(D, f, l) = r.blk)
  <2>1. Fewer(f, r.inode)
    BY <1>1, <1>4, FewerTrans
  <2>2. IndexesStay(r.disk, D, f)
    BY <2>1, RoundIndexes
  <2>3. BlockOf(D, f, l) = BlockOf(r.disk, f, l)
    BY <2>2, BlocksStay
  <2>4. BlockOf(r.disk, f, l) = BlockOf(d, f, l) \/ (l = i /\ BlockOf(r.disk, f, l) = r.blk)
    BY <1>4 DEF Round, BlockTaken
  <2> QED
    BY <2>3, <2>4
<1> QED
  BY <1>1, <1>3, <1>4, Constants

\* The other nodes keep their pointers, also in a round that fails.
LEMMA RoundPointers ==
  ASSUME NEW d, Good(d), NEW ino, NEW g, Sound(d, ino, g), NEW i \in FileBlocks,
         NEW r, BlockTaken(d, g, i, r), NEW D, NEW m \in LiveIn(d) \ {ino}, D.inode[m] = d.inode[m],
         \/ D.block = r.disk.block
         \/ r.ret = "ok" /\ \A y \in Blocks \ {r.blk} : D.block[y] = r.disk.block[y]
  PROVE  PointersStay(d, D, m)
<1>1. ASSUME NEW k \in IndirectSlots, NEW x, x = d.inode[m].indirect[k], x # Nil PROVE D.block[x] = d.block[x]
  <2>1. x \in Blocks /\ BelongsTo(d, m, x)
    BY <1>1, IndexOf
  <2>2. r.disk.block[x] = d.block[x] /\ (r.ret = "ok" => x # r.blk)
    BY <2>1, OthersBlocks
  <2> QED
    BY <2>1, <2>2
<1> QED
  BY <1>1 DEF PointersStay, IndexesStay

\* The inode in memory leads to all that it led to, and to all that the round marks.
LEMMA RoundHolds ==
  ASSUME NEW d, NEW ino, NEW g, NEW i, NEW r, NEW D, Round(d, ino, g, i, r, D), NEW b \in Blocks,
         Has(d, g, b) \/ (b \in r.disk.d_bitmap /\ b \notin d.d_bitmap)
  PROVE  Has(D, r.inode, b)
<1>1. b # Nil /\ i \in FileBlocks
  BY Constants DEF Round
<1>2. /\ Fewer(g, r.inode)
      /\ \A l \in FileBlocks : BlockOf(D, r.inode, l) = IF l = i THEN r.blk ELSE BlockOf(d, g, l)
  BY RoundLeads
<1>3. ASSUME Has(d, g, b) PROVE Owns(D, r.inode, b)
  <2>1. Owns(d, g, b)
    BY <1>1, <1>3, HasOwns
  <2>2. CASE \E k \in IndirectSlots : b = g.indirect[k]
    <3>1. PICK k \in IndirectSlots : b = g.indirect[k]
      BY <2>2
    <3>2. b = r.inode.indirect[k]
      BY <1>1, <1>2, <3>1 DEF Fewer
    <3> QED
      BY <3>2 DEF Owns
  <2>3. CASE \E l \in FileBlocks : b = BlockOf(d, g, l)
    <3>1. PICK l \in FileBlocks : b = BlockOf(d, g, l)
      BY <2>3
    <3>2. BlockOf(d, g, i) = r.blk \/ BlockOf(d, g, i) = Nil
      BY DEF Round, BlockTaken
    <3>3. BlockOf(D, r.inode, l) = b
      BY <1>1, <1>2, <3>1, <3>2
    <3> QED
      BY <3>3 DEF Owns
  <2> QED
    BY <2>1, <2>2, <2>3 DEF Owns
<1>4. ASSUME b \in r.disk.d_bitmap, b \notin d.d_bitmap PROVE Owns(D, r.inode, b)
  <2>1. Owns(r.disk, r.inode, b)
    BY <1>4 DEF Round, BitsTaken
  <2>2. Fewer(r.inode, r.inode)
    BY FewerSelf DEF Round, BlockFound, Sound
  <2>3. IndexesStay(r.disk, D, r.inode)
    BY <2>2, RoundIndexes
  <2> QED
    BY <2>1, <2>3, BlocksStay
<1> QED
  BY <1>1, <1>3, <1>4, HasOwns

\* Blocks that were led to still are, by another node or by the inode in memory, and so are the new ones.
LEMMA RoundFinds ==
  ASSUME NEW d, NEW ino, NEW g, NEW i, NEW r, NEW e, Round(d, ino, g, i, r, e),
         \A m \in Inos \ {ino} : e.inode[m] = d.inode[m], NEW b \in Blocks,
         Held(d, {g}, b) \/ (b \in r.disk.d_bitmap /\ b \notin d.d_bitmap)
  PROVE  Has(e, r.inode, b) \/ \E n \in LiveIn(d) \ {ino} : Has(e, e.inode[n], b)
<1>1. /\ Good(d) /\ Sound(d, ino, g) /\ Fewer(d.inode[ino], g) /\ i \in FileBlocks /\ BlockTaken(d, g, i, r)
      /\ r.ret = "ok" /\ \A y \in Blocks \ {r.blk} : e.block[y] = r.disk.block[y]
  BY DEF Round
<1>2. CASE Has(d, g, b) \/ (b \in r.disk.d_bitmap /\ b \notin d.d_bitmap)
  BY <1>2, RoundHolds
<1>3. ASSUME NEW n \in LiveIn(d), Has(d, d.inode[n], b)
      PROVE  Has(e, r.inode, b) \/ \E m \in LiveIn(d) \ {ino} : Has(e, e.inode[m], b)
  <2>1. CASE n = ino
    <3>1. Has(d, g, b)
      BY <1>1, <1>3, <2>1, FewerHas
    <3> QED
      BY <3>1, RoundHolds
  <2>2. CASE n # ino
    <3>1. n \in LiveIn(d) \ {ino} /\ e.inode[n] = d.inode[n]
      BY <1>3, <2>2 DEF LiveIn
    <3>2. PointersStay(d, e, n)
      BY <1>1, <3>1, RoundPointers
    <3>3. Has(e, e.inode[n], b)
      BY <1>3, <3>2, PointersFacts
    <3> QED
      BY <3>1, <3>3
  <2> QED
    BY <2>1, <2>2
<1> QED
  BY <1>2, <1>3 DEF Held

\* A write that goes on is one.
LEMMA RoundGoesOn ==
  ASSUME NEW c, WriteSound(c), WriteRound(c), NEW i, NEW r, NEW D, RoundTaken(c, i, r, D), r.ret = "ok", ~IsLast(c)
  PROVE  call' \in Write
<1>1. /\ r = FileBlock(disk, c.inode, c.off \div BlockSize + c.done) /\ r.inode \in Inode
      /\ c.off + Len(c.words) - 1 \notin Piece(c.off, Len(c.words), c.done)
  BY DEF RoundTaken, RoundBlock, BlockFound, Sound, IsLast, InRound
<1>2. call' = NextRound(c, r.inode)
  BY <1>1 DEF WriteRound, NextRound
<1>3. c \in Rounds /\ c.done + 1 \in 1..MaxRequest
  BY <1>1, RoundFacts DEF WriteSound
<1> QED
  BY <1>1, <1>2, <1>3, NextRoundFacts

LEMMA GoodIs == IInv /\ Mounted => Good(disk) /\ disk \in Disk
BY MountedGood

LEMMA GoodNext == IInv' /\ Mounted' => Good(disk') /\ disk' \in Disk
<1>1. (IInv /\ Mounted => Good(disk) /\ disk \in Disk)'
  BY GoodIs, PTL
<1> QED
  BY <1>1

\* A round of a write loses nothing that the inode in memory leads to, unless it fails.
LEMMA RoundLoses ==
  ASSUME TypeOK, fs = "up", NEW c, WriteSound(c), WriteRound(c), ret' = "ok"
  PROVE  /\ LostInodesIn(disk') \subseteq LostInodesIn(disk)
         /\ LostBlocksIn(disk', InMemory(call')) \subseteq LostBlocksIn(disk, {c.inode})
<1> DEFINE ino == c.ino
           g   == c.inode
           d   == disk
           e   == disk'
<1>1. PICK i, r, D : RoundTaken(c, i, r, D) /\ (RoundFailed(r) \/ RoundLast(c, r, D) \/ RoundBefore(c, r, D))
  BY RoundCases
<1>2. Sound(d, ino, g) /\ IsFile(d, ino) /\ Fewer(d.inode[ino], g) /\ ino \in Inos
  BY DEF WriteSound, Sound
<1>3. /\ i = RoundBlock(c) /\ i \in FileBlocks /\ r = FileBlock(d, g, i)
      /\ BlockFound(d, ino, g, r) /\ BlockTaken(d, g, i, r)
      /\ r.ret = "ok" => D.inode = d.inode /\ \A y \in Blocks \ {r.blk} : D.block[y] = r.disk.block[y]
  BY <1>1 DEF RoundTaken
<1>4. Good(d)
  BY <1>2, SoundFinish
<1>5. BitsTaken(d, g, i, r)
  BY <1>2, <1>3, FileBlockBits
<1>6. e.i_bitmap = r.disk.i_bitmap /\ e.d_bitmap = r.disk.d_bitmap
  <2>1. r.disk \in Disk
    BY <1>3 DEF BlockFound, Sound
  <2> QED
    BY <1>3, <2>1, RoundBits
<1>7. Good(e) \/ call' # NoCall
  <2>1. IInv'
    BY WriteRoundKeeps
  <2>2. fs' = fs
    BY DEF WriteRound, Finish
  <2> QED
    BY <2>1, <2>2, GoodNext DEF Mounted
<1>8. e \in Disk
  BY WriteRoundKeeps DEF IInv, TypeOK
<1>9. ASSUME r.ret = "ok", NEW x, \A y \in Blocks \ {r.blk} : x.block[y] = r.disk.block[y]
      PROVE  Round(d, ino, g, i, r, x)
  BY <1>2, <1>3, <1>4, <1>5, <1>9 DEF Round
<1>10. ASSUME r.ret = "ok", \A y \in Blocks \ {r.blk} : e.block[y] = r.disk.block[y],
              \A m \in Inos \ {ino} : e.inode[m] = d.inode[m], NEW G,
              \A b \in Blocks : Has(e, r.inode, b) => Held(e, G, b), ino \in LiveIn(e)
       PROVE  /\ LostInodesIn(e) \subseteq LostInodesIn(d)
              /\ LostBlocksIn(e, G) \subseteq LostBlocksIn(d, {g})
  <2> HIDE DEF d, e, g, ino
  <2>1. Round(d, ino, g, i, r, e)
    BY <1>9, <1>10
  <2>2. LiveIn(d) \subseteq LiveIn(e)
    BY <1>10 DEF LiveIn
  <2>3. ASSUME NEW b \in Blocks, b \in e.d_bitmap, b \notin d.d_bitmap \/ Held(d, {g}, b) PROVE Held(e, G, b)
    <3>1. Has(e, r.inode, b) \/ \E n \in LiveIn(d) \ {ino} : Has(e, e.inode[n], b)
      <4>1. Held(d, {g}, b) \/ (b \in r.disk.d_bitmap /\ b \notin d.d_bitmap)
        BY <1>6, <2>3
      <4> QED
        BY <1>10, <2>1, <4>1, RoundFinds
    <3> QED
      BY <1>10, <2>2, <3>1 DEF Held
  <2>4. LostBlocksIn(e, G) \subseteq LostBlocksIn(d, {g})
    BY <1>8, <2>3, NothingLost
  <2>5. LostInodesIn(e) \subseteq LostInodesIn(d)
    BY <1>5, <1>6, <2>2 DEF LostInodesIn, BitsTaken
  <2> QED
    BY <2>4, <2>5
<1>11. CASE RoundFailed(r)
  BY <1>11 DEF RoundFailed
<1>12. CASE RoundLast(c, r, D)
  <2> DEFINE h == e.inode[ino]
  <2>1. /\ r.ret = "ok" /\ call' = NoCall /\ e.block = D.block /\ \A m \in Inos \ {ino} : e.inode[m] = d.inode[m]
        /\ h.type = "file" /\ h.direct = r.inode.direct /\ h.indirect = r.inode.indirect /\ e.inode[ino] = h
    BY <1>12 DEF RoundLast, RoundWritten
  <2> HIDE DEF d, e, g, ino, h
  <2>2. \A y \in Blocks \ {r.blk} : e.block[y] = r.disk.block[y]
    BY <1>3, <2>1
  <2>3. IndexesStay(e, e, r.inode)
    BY DEF IndexesStay
  <2>4. \A b : Owns(e, h, b) <=> Owns(e, r.inode, b)
    BY <2>1, <2>3, BlocksStay
  <2>5. ino \in LiveIn(e)
    <3>1. Dead(e)
      BY <1>7, <2>1 DEF Good
    <3> QED
      BY <1>2, <2>1, <3>1 DEF Dead
  <2>6. ASSUME NEW b \in Blocks, Has(e, r.inode, b) PROVE Held(e, {}, b)
    <3>1. b # Nil
      BY Constants
    <3>2. Has(e, h, b)
      BY <2>4, <2>6, <3>1, HasOwns
    <3> QED
      BY <2>1, <2>5, <3>2 DEF Held
  <2>7. /\ LostInodesIn(e) \subseteq LostInodesIn(d)
        /\ LostBlocksIn(e, {}) \subseteq LostBlocksIn(d, {g})
    BY <1>10, <2>1, <2>2, <2>5, <2>6
  <2>8. InMemory(call') = {}
    BY <2>1 DEF InMemory
  <2> QED
    BY <2>7, <2>8 DEF e, d, g
<1>13. CASE RoundBefore(c, r, D)
  <2>1. /\ r.ret = "ok" /\ ~IsLast(c) /\ e = D /\ call'.inode = r.inode
    BY <1>13 DEF RoundBefore
  <2>2. call' # NoCall
    BY <1>1, <2>1, RoundGoesOn, NoCallAssumption
  <2>3. InMemory(call') = {r.inode}
    BY <2>1, <2>2 DEF InMemory
  <2> HIDE DEF d, e, g, ino
  <2>4. \A y \in Blocks \ {r.blk} : e.block[y] = r.disk.block[y]
    BY <1>3, <2>1
  <2>5. e.inode = d.inode /\ ino \in LiveIn(e)
    BY <1>2, <1>3, <2>1 DEF IsFile, LiveIn
  <2>6. /\ LostInodesIn(e) \subseteq LostInodesIn(d)
        /\ LostBlocksIn(e, {r.inode}) \subseteq LostBlocksIn(d, {g})
    <3>1. \A b \in Blocks : Has(e, r.inode, b) => Held(e, {r.inode}, b)
      BY DEF Held
    <3> QED
      BY <1>10, <2>1, <2>4, <2>5, <3>1
  <2> QED
    BY <2>3, <2>6 DEF e, d, g
<1> QED
  BY <1>1, <1>11, <1>12, <1>13

-----------------------------------------------------------------------------
\* Every step.

\* What the files of d that are not on e have behind a gap.
Gaps(d, e) == UNION {GapBlocks(d, d.inode[n]) : n \in {m \in Inos : IsFile(d, m)} \ LiveIn(e)}

\* What a step says of what is lost.
KeepsAll == fs' = "up" /\ ret' = "ok" =>
              /\ LostInodesIn(disk') \subseteq LostInodesIn(disk)
              /\ LostBlocksIn(disk', InMemory(call')) \subseteq LostBlocksIn(disk, InMemory(call)) \cup Gaps(disk, disk')

LEMMA QuietLoses ==
  ASSUME disk' = disk, call' = call \/ (call' = NoCall /\ fs' # "up")
  PROVE  KeepsAll
BY DEF KeepsAll

\* A new file system is the root directory and its table.
LEMMA MountLoses ==
  ASSUME TInv, Mount
  PROVE  KeepsAll
<1>1. CASE fs = "new"
  <2>1. disk' = rufs_mkfs /\ call' = call /\ call = NoCall /\ disk = ZeroDisk
    BY <1>1 DEF Mount, TInv, IInv, WriteKept
  <2> DEFINE d == rufs_mkfs
  <2>2. d \in Disk /\ Made(d)
    BY MkfsFacts
  <2> HIDE DEF d
  <2>3. 0 \in Inos /\ 0 \in DirectSlots
    BY Constants, Zenon DEF Root
  <2>4. d.inode[0].valid = 1 /\ d.inode[0].type = "dir" /\ d.inode[0].direct[0] = 0
    <3> DEFINE f == init_inode("dir")
    <3>1. f = [valid |-> 1, type |-> "dir", size |-> 0,
               direct |-> [i \in DirectSlots |-> Nil], indirect |-> [k \in IndirectSlots |-> Nil]]
      BY DEF init_inode, DirectSlots, IndirectSlots
    <3>2. d.inode[0] = [f EXCEPT !.direct[0] = 0]
      BY <2>2 DEF Made, MadeRoot
    <3> HIDE DEF f
    <3> QED
      BY <2>3, <3>1, <3>2
  <2>5. LiveIn(d) = {0} /\ d.i_bitmap = {0} /\ d.d_bitmap = {0}
    BY <2>2, <2>3, <2>4 DEF LiveIn, Made
  <2>6. LostInodesIn(d) = {}
    BY <2>5 DEF LostInodesIn
  <2>7. Has(d, d.inode[0], 0)
    BY <2>3, <2>4 DEF Has
  <2>8. LostBlocksIn(d, {}) = {}
    BY <2>5, <2>7 DEF LostBlocksIn, Held
  <2>9. disk' = d /\ InMemory(call') = {}
    BY <2>1 DEF d, InMemory
  <2> QED
    BY <2>6, <2>8, <2>9 DEF KeepsAll
<1>2. CASE fs # "new"
  <2>1. disk' = disk /\ call' = call
    BY <1>2 DEF Mount
  <2> QED
    BY <2>1, QuietLoses
<1> QED
  BY <1>1, <1>2

\* Calls that end at once.
LEMMA EndsAtOnce ==
  ASSUME call = NoCall, call' = NoCall,
         ret' = "ok" => /\ LostInodesIn(disk') \subseteq LostInodesIn(disk)
                        /\ LostBlocksIn(disk', {}) \subseteq LostBlocksIn(disk, {}) \cup Gaps(disk, disk')
  PROVE  KeepsAll
<1>1. InMemory(call) = {} /\ InMemory(call') = {}
  BY DEF InMemory
<1> QED
  BY <1>1 DEF KeepsAll

LEMMA MakesLose ==
  ASSUME TInv, NEW p \in client.paths, rufs_mkdir(p) \/ rufs_create(p)
  PROVE  KeepsAll
<1>1. PICK type : MadeOrNot(p, type) /\ IInv'
  BY MkdirKeeps, CreateKeeps DEF TInv
<1>2. Ready /\ call' = NoCall
  BY DEF rufs_mkdir, rufs_create, Finish
<1>3. Good(disk) /\ call = NoCall
  BY <1>2, ReadyFacts DEF TInv
<1>4. disk' \in Disk
  BY <1>1 DEF IInv, TypeOK
<1>5. CASE OnlyBits(disk, disk') /\ ret' # "ok"
  BY <1>2, <1>3, <1>5, EndsAtOnce
<1>6. CASE NodeMade(disk, disk', p, type)
  BY <1>2, <1>3, <1>4, <1>6, MadeLoses, EndsAtOnce
<1> QED
  BY <1>1, <1>5, <1>6 DEF MadeOrNot

LEMMA RmdirLoses ==
  ASSUME ~RemovesFullDirs, TInv, NEW p \in client.paths, rufs_rmdir(p)
  PROVE  KeepsAll
<1> DEFINE ino == get_node_by_path(disk, p)
           B   == DirectBlocks(disk.inode[ino])
<1>1. GoneOrNot(p, B) /\ IInv'
  BY RmdirKeeps DEF TInv
<1>2. Ready /\ call' = NoCall /\ Type(p) # "file"
  BY DEF rufs_rmdir, Finish
<1>3. Good(disk) /\ call = NoCall /\ TypeOK
  BY <1>2, ReadyFacts DEF TInv, IInv
<1>4. disk' \in Disk
  BY <1>1 DEF IInv, TypeOK
<1>5. CASE disk' = disk /\ ret' # "ok"
  BY <1>2, <1>3, <1>5, EndsAtOnce
<1>6. CASE NodeGone(disk, disk', p, B)
  <2>1. ino \in LiveIn(disk)
    BY <1>6 DEF NodeGone, NodeRemoved
  <2>2. IsDir(disk, ino)
    <3>1. p \in Seq(Names) /\ ino # Nil
      BY <1>3, <2>1, PathFacts, Constants DEF LiveIn
    <3> QED
      BY <1>2, <1>3, <3>1, TypeFacts
  <2>3. ASSUME NEW b \in Blocks, Has(disk, disk.inode[ino], b) PROVE b \in B
    <3>1. b # Nil
      BY Constants
    <3> QED
      BY <1>3, <2>2, <2>3, <3>1, HasOwns, DirOwns
  <2> DEFINE d == disk
             e == disk'
  <2>4. LostInodesIn(e) \subseteq LostInodesIn(d) /\ LostBlocksIn(e, {}) \subseteq LostBlocksIn(d, {}) \cup {}
    BY <1>3, <1>4, <1>6, <2>3, GoneLoses
  <2> QED
    BY <1>2, <1>3, <2>4, EndsAtOnce
<1> QED
  BY <1>1, <1>5, <1>6 DEF GoneOrNot

LEMMA UnlinkLoses ==
  ASSUME TInv, NEW p \in client.paths, rufs_unlink(p)
  PROVE  KeepsAll
<1> DEFINE ino == get_node_by_path(disk, p)
           f   == disk.inode[ino]
           B   == DirectBlocks(f) \cup IndirectBlocks(disk, f)
           G   == GapBlocks(disk, f)
<1>1. GoneOrNot(p, B) /\ IInv'
  BY UnlinkKeeps DEF TInv
<1>2. Ready /\ call' = NoCall /\ Type(p) # "dir"
  BY DEF rufs_unlink, Finish
<1>3. Good(disk) /\ call = NoCall /\ TypeOK
  BY <1>2, ReadyFacts DEF TInv, IInv
<1>4. disk' \in Disk
  BY <1>1 DEF IInv, TypeOK
<1>5. CASE disk' = disk /\ ret' # "ok"
  BY <1>2, <1>3, <1>5, EndsAtOnce
<1>6. CASE NodeGone(disk, disk', p, B)
  <2>1. ino \in LiveIn(disk) /\ ino \in Inos
    BY <1>6 DEF NodeGone, NodeRemoved, LiveIn
  <2>2. IsFile(disk, ino)
    <3>1. p \in Seq(Names) /\ ino # Nil
      BY <1>3, <2>1, PathFacts, Constants DEF LiveIn
    <3> QED
      BY <1>2, <1>3, <3>1, TypeFacts
  <2>3. ASSUME NEW b \in Blocks, Has(disk, f, b) PROVE b \in B \/ b \in G
    <3>1. b # Nil
      BY Constants
    <3> QED
      BY <1>3, <2>2, <2>3, <3>1, FileOwns
  <2> DEFINE d == disk
             e == disk'
  <2>4. /\ LostInodesIn(e) \subseteq LostInodesIn(d) /\ LostBlocksIn(e, {}) \subseteq LostBlocksIn(d, {}) \cup G
        /\ ino \notin LiveIn(e)
    <3> HIDE DEF B, G
    <3> QED
      BY <1>3, <1>4, <1>6, <2>3, GoneLoses DEF f, ino
  <2>5. G \subseteq Gaps(d, e)
    BY <2>1, <2>2, <2>4 DEF Gaps
  <2> HIDE DEF G
  <2> QED
    BY <1>2, <1>3, <2>4, <2>5, EndsAtOnce
<1> QED
  BY <1>1, <1>5, <1>6 DEF GoneOrNot

\* Before its first round a write has the inode of the disk.
LEMMA WriteLoses ==
  ASSUME TInv, NEW p \in client.paths, NEW w \in client.writes, rufs_write(p, w.off, w.words)
  PROVE  KeepsAll
<1>1. TypeOK /\ fs = "up" /\ call = NoCall
  BY WriteBegins
<1>2. CASE disk' = disk /\ call' = NoCall
  BY <1>1, <1>2, QuietLoses
<1>3. CASE \E c : FirstOf(c, p, w)
  <2>1. PICK c : FirstOf(c, p, w)
    BY <1>3
  <2>2. WriteRound(c) /\ WriteSound(c) /\ c.inode = disk.inode[c.ino] /\ IsFile(disk, c.ino)
    BY <2>1 DEF FirstOf, WriteSound, Sound
  <2>3. ret' = "ok" => /\ LostInodesIn(disk') \subseteq LostInodesIn(disk)
                       /\ LostBlocksIn(disk', InMemory(call')) \subseteq LostBlocksIn(disk, {c.inode})
    BY <1>1, <2>2, RoundLoses
  <2>4. LostBlocksIn(disk, {c.inode}) = LostBlocksIn(disk, InMemory(call))
    <3>1. InMemory(call) = {}
      BY <1>1 DEF InMemory
    <3>2. c.ino \in LiveIn(disk)
      BY <2>2 DEF IsFile
    <3> QED
      BY <2>2, <3>1, <3>2, HeldOnce
  <2> QED
    BY <2>3, <2>4 DEF KeepsAll
<1> QED
  BY <1>2, <1>3, WriteBegins

LEMMA WriteNextLoses ==
  ASSUME TInv, WriteNext
  PROVE  KeepsAll
<1>1. fs = "up" /\ call # NoCall /\ WriteRound(call)
  BY DEF WriteNext
<1>2. WriteSound(call) /\ TypeOK
  BY <1>1, CallSound DEF TInv, IInv
<1>3. InMemory(call) = {call.inode}
  BY <1>1 DEF InMemory
<1>4. ret' = "ok" => /\ LostInodesIn(disk') \subseteq LostInodesIn(disk)
                     /\ LostBlocksIn(disk', InMemory(call')) \subseteq LostBlocksIn(disk, {call.inode})
  BY <1>1, <1>2, RoundLoses
<1> QED
  BY <1>3, <1>4 DEF KeepsAll

LEMMA NextLoses ==
  ASSUME ~RemovesFullDirs, TInv, [Next]_vars
  PROVE  KeepsAll
<1>1. ASSUME Mount PROVE KeepsAll
  BY <1>1, MountLoses
<1>2. ASSUME Unmount PROVE KeepsAll
  <2>1. disk' = disk /\ call' = NoCall /\ fs' # "up"
    BY <1>2 DEF Unmount
  <2> QED
    BY <2>1, QuietLoses
<1>3. ASSUME WriteNext PROVE KeepsAll
  BY <1>3, WriteNextLoses
<1>4. ASSUME Misuse \/ Stopped \/ UNCHANGED vars PROVE KeepsAll
  <2>1. disk' = disk /\ call' = call
    BY <1>4 DEF Misuse, Stopped, vars
  <2> QED
    BY <2>1, QuietLoses
<1>5. ASSUME NEW p \in client.paths, Lookup(p) PROVE KeepsAll
  <2>1. disk' = disk /\ call' = call
    BY <1>5 DEF Lookup
  <2> QED
    BY <2>1, QuietLoses
<1>6. ASSUME NEW p \in client.paths, rufs_mkdir(p) \/ rufs_create(p) PROVE KeepsAll
  BY <1>6, MakesLose
<1>7. ASSUME NEW p \in client.paths, rufs_rmdir(p) \/ rufs_unlink(p) PROVE KeepsAll
  BY <1>7, RmdirLoses, UnlinkLoses
<1>8. ASSUME NEW p \in client.paths, NEW r \in client.reads, rufs_read(p, r.off, r.len) PROVE KeepsAll
  <2>1. disk' = disk /\ call' = call
    BY <1>8 DEF rufs_read
  <2> QED
    BY <2>1, QuietLoses
<1>9. ASSUME NEW p \in client.paths, NEW w \in client.writes, rufs_write(p, w.off, w.words) PROVE KeepsAll
  BY <1>9, WriteLoses
<1> QED
  BY <1>1, <1>2, <1>3, <1>4, <1>5, <1>6, <1>7, <1>8, <1>9, Zenon DEF Next

LEMMA LostIsNext == IInv' /\ Mounted' => /\ LostBlocks' = LostBlocksIn(disk', InMemory(call'))
                                         /\ LostInodes' = LostInodesIn(disk')
<1>1. (IInv /\ Mounted => LostBlocks = LostBlocksIn(disk, InMemory(call)) /\ LostInodes = LostInodesIn(disk))'
  BY LostIs, PTL
<1> QED
  BY <1>1

\* A call that succeeds loses nothing but what a file that it unlinks has behind a gap: each block and
\* inode that it takes is reached afterwards, by the disk or by the write under way, and unlink and rmdir
\* give back all that the node had up to its first missing pointer (rufs.c:685-955, 1072-1272).
THEOREM LosesOnlyOnFailureHolds == ~RemovesFullDirs => (Spec => LosesOnlyOnFailure)
<1> SUFFICES ASSUME ~RemovesFullDirs PROVE Spec => LosesOnlyOnFailure
  OBVIOUS
<1> DEFINE Loses == /\ LostInodes' \subseteq LostInodes
                    /\ LostBlocks' \subseteq LostBlocks \cup UNION {BehindGap(disk.inode[n]) : n \in Unlinked}
<1>1. Init => TInv
  BY InitGood DEF TInv, WriteKept, Init
<1>2. TInv /\ [Next]_vars => TInv'
  BY NextTree
<1>3. ASSUME TInv, [Next]_vars, fs' = "up", ret' = "ok" PROVE Loses
  <2>1. TInv' /\ KeepsAll
    BY <1>3, NextTree, NextLoses
  <2>2. LostBlocks' = LostBlocksIn(disk', InMemory(call')) /\ LostInodes' = LostInodesIn(disk')
    <3>1. IInv' /\ Mounted'
      BY <1>3, <2>1 DEF TInv, Mounted
    <3> QED
      BY <3>1, LostIsNext
  <2>3. Gaps(disk, disk') \subseteq UNION {BehindGap(disk.inode[n]) : n \in Unlinked}
    <3>1. \A f : GapBlocks(disk, f) = BehindGap(f)
      BY DEF GapBlocks, BehindGap, Index
    <3>2. {m \in Inos : IsFile(disk, m)} \ LiveIn(disk') \subseteq Unlinked
      BY DEF Unlinked, Files, Dirs, Live, LiveIn, IsFile
    <3> QED
      BY <3>1, <3>2 DEF Gaps
  <2>4. CASE fs # "new"
    <3>1. LostBlocks = LostBlocksIn(disk, InMemory(call)) /\ LostInodes = LostInodesIn(disk)
      BY <1>3, <2>4, LostIs DEF TInv, Mounted
    <3> QED
      BY <1>3, <2>1, <2>2, <2>3, <3>1 DEF KeepsAll
  <2>5. CASE fs = "new"
    <3>1. LostBlocksIn(disk, InMemory(call)) = {} /\ LostInodesIn(disk) = {}
      BY <1>3, <2>5 DEF TInv, WriteKept, ZeroDisk, LostBlocksIn, LostInodesIn
    <3> QED
      BY <1>3, <2>1, <2>2, <2>3, <3>1 DEF KeepsAll
  <2> QED
    BY <2>4, <2>5
<1>4. TInv /\ [Next]_vars => [fs' = "up" /\ ret' = "ok" => Loses]_vars
  <2> HIDE DEF Loses
  <2> QED
    BY <1>3
<1> QED
  BY <1>1, <1>2, <1>4, PTL DEF Spec, LosesOnlyOnFailure

=============================================================================

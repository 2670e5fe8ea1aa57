--------------------------- MODULE PageStoreProof ---------------------------
(***************************************************************************)
(* The virtual memory manager implements PageStore, changes only the words *)
(* its calls name, copies all of them, and loses frames only where the     *)
(* bitmaps cannot say which: for every size of memory and tables, and      *)
(* Regular frees.                                                          *)
(***************************************************************************)
EXTENDS VirtualMemoryProof

-----------------------------------------------------------------------------
\* What each step does to the words of the mapped pages.

\* Where the words of the mapped pages stay, so does the store.
LEMMA SameStore ==
  ASSUME mem' = mem PROVE Store' = Store /\ Mapped' = Mapped
<1>1. Mapped' = Mapped /\ \A v : Entry(v)' = Entry(v)
  BY DEF Mapped, Entry
<1> QED
  BY <1>1 DEF Store

\* One round of t_malloc maps a page of zeros, or finds it mapped.
LEMMA MapPageStore ==
  ASSUME IInv, MapPage
  PROVE  \/ call.va \in Mapped /\ Store' = Store
         \/ /\ call.va \in Virt \ Mapped
            /\ Store' = Store \cup {<<call.va, w, Null>> : w \in Words}
<1> DEFINE v == call.va
           x == call.frame
<1>1. /\ TypeOK /\ FreeFramesZero /\ Mapping /\ up /\ PageTree
  <2>1. up
    BY DEF IInv, Mapping, MapPage
  <2> QED
    BY <2>1, TreeFromOwned DEF IInv
<1>2. /\ v \in Virt /\ x \in Frames \ phy_bitmap
      /\ NoTable(v) => Table \notin phy_bitmap
      /\ ~NoTable(v) => Table = mem[0][DirIndex(v)]
      /\ Table \in Frames \ {0, x}
  BY <1>1, MapPageFrames DEF MapCall
<1>3. \A g \in Frames \ {0, Table} : mem'[g] = mem[g]
  BY <1>1, MapPageMemory
<1>4. \A u \in Virt : Entry(u)' = IF u = v /\ Entry(u) = Null THEN x ELSE Entry(u)
  BY <1>1, MapPageEntries
<1>5. DirIndex(v) \in Directory /\ Null \notin Frames /\ 0 \in phy_bitmap
  BY <1>1, <1>2, PageParts, Constants DEF PageTree
<1> HIDE DEF v, x
<1>6. \A u \in Mapped : Entry(u)' = Entry(u) /\ mem'[Entry(u)] = mem[Entry(u)]
  <2> TAKE u \in Mapped
  <2>1. u \in Virt /\ Entry(u) # Null /\ Entry(u) \in phy_bitmap \ {0} /\ Entry(u) \in Frames
    BY <1>1 DEF Mapped, PageTree, TypeOK
  <2>2. Entry(u) # Table
    BY <1>1, <1>2, <1>5, <2>1 DEF PageTree
  <2> QED
    BY <1>3, <1>4, <2>1, <2>2
<1>7. CASE v \in Mapped
  <2>1. Mapped' = Mapped
    BY <1>2, <1>4, <1>7 DEF Mapped
  <2>2. \A u \in Mapped, w \in Words : mem'[Entry(u)'][w] = mem[Entry(u)][w]
    BY <1>6
  <2>3. Store' = Store
    BY <2>1, <2>2 DEF Store
  <2> QED
    BY <1>7, <2>3 DEF v
<1>8. CASE v \notin Mapped
  <2>1. Mapped' = Mapped \cup {v} /\ Entry(v) = Null
    BY <1>2, <1>4, <1>5, <1>8 DEF Mapped
  <2>2. \A u \in Virt : u = v => Entry(u)' = x
    BY <1>4, <2>1
  <2>3. \A w \in Words : mem'[x][w] = Null
    <3>1. mem[x] = Zeroed
      BY <1>1, <1>2 DEF FreeFramesZero, Free
    <3>2. mem'[x] = mem[x]
      BY <1>2, <1>3, <1>5
    <3> QED
      BY <3>1, <3>2 DEF Zeroed
  <2>4. \A u \in Mapped, w \in Words : mem'[Entry(u)'][w] = mem[Entry(u)][w]
    BY <1>6
  <2>5. \A u \in Virt, w \in Words : u = v => mem'[Entry(u)'][w] = Null
    BY <2>2, <2>3
  <2>6. Store' = {<<u, w, mem'[Entry(u)'][w]>> : u \in Mapped', w \in Words}
    BY DEF Store
  <2>7. Store' = Store \cup {<<v, w, Null>> : w \in Words}
    <3>1. ASSUME NEW c \in Store' PROVE c \in Store \cup {<<v, w, Null>> : w \in Words}
      <4>1. PICK u \in Mapped', w \in Words : c = <<u, w, mem'[Entry(u)'][w]>>
        BY <2>6, <3>1
      <4>2. CASE u = v
        BY <1>2, <2>5, <4>1, <4>2
      <4>3. CASE u # v
        BY <2>1, <2>4, <4>1, <4>3 DEF Store
      <4> QED
        BY <4>2, <4>3
    <3>2. ASSUME NEW c \in Store PROVE c \in Store'
      <4>1. PICK u \in Mapped, w \in Words : c = <<u, w, mem[Entry(u)][w]>>
        BY <3>2 DEF Store
      <4> QED
        BY <2>1, <2>4, <2>6, <4>1
    <3>3. ASSUME NEW w \in Words PROVE <<v, w, Null>> \in Store'
      <4>1. PICK u : u = v /\ u \in Virt
        BY <1>2
      <4>2. <<u, w, mem'[Entry(u)'][w]>> \in Store'
        BY <2>1, <2>6, <4>1
      <4> QED
        BY <2>5, <4>1, <4>2
    <3> QED
      BY <3>1, <3>2, <3>3
  <2> QED
    BY <1>2, <1>8, <2>7 DEF v
<1> QED
  BY <1>7, <1>8

\* One round of t_free takes one page away.
LEMMA UnmapPageStore ==
  ASSUME IInv, UnmapPage
  PROVE  /\ call.va + call.i \in Virt
         /\ Store' = {c \in Store : c[1] # call.va + call.i}
<1> DEFINE z == call.va + call.i
<1>1. /\ TypeOK /\ Unmapping /\ PageTree
  <2>1. up
    BY DEF IInv, Unmapping, UnmapPage
  <2> QED
    BY <2>1, TreeFromOwned DEF IInv
<1>2. /\ z \in Mapped
      /\ \A u \in Virt : Entry(u)' = IF u = z THEN Null ELSE Entry(u)
      /\ \A u \in Mapped \ {z} : mem'[Entry(u)] = mem[Entry(u)]
  BY <1>1, UnmapPageMemory
<1> HIDE DEF z
<1>3. Mapped' = Mapped \ {z} /\ z \in Virt
  BY <1>2 DEF Mapped
<1>4. \A u \in Mapped \ {z}, w \in Words : mem'[Entry(u)'][w] = mem[Entry(u)][w]
  BY <1>2 DEF Mapped
<1>5. Store' = {<<u, w, mem'[Entry(u)'][w]>> : u \in Mapped', w \in Words}
  BY DEF Store
<1>6. Store' = {c \in Store : c[1] # z}
  <2>1. ASSUME NEW c \in Store' PROVE c \in Store /\ c[1] # z
    <3>1. PICK u \in Mapped', w \in Words : c = <<u, w, mem'[Entry(u)'][w]>>
      BY <1>5, <2>1
    <3>2. c = <<u, w, mem[Entry(u)][w]>> /\ u \in Mapped /\ u # z
      BY <1>3, <1>4, <3>1
    <3>3. c[1] = u
      BY <3>2
    <3> QED
      BY <3>2, <3>3 DEF Store
  <2>2. ASSUME NEW c \in Store, c[1] # z PROVE c \in Store'
    <3>1. PICK u \in Mapped, w \in Words : c = <<u, w, mem[Entry(u)][w]>>
      BY <2>2 DEF Store
    <3>2. c[1] = u
      BY <3>1
    <3> QED
      BY <1>3, <1>4, <1>5, <2>2, <3>1, <3>2
  <2> QED
    BY <2>1, <2>2
<1> QED
  BY <1>3, <1>6 DEF z

\* The store where the words W of page v have been given the value x.
Written(v, W, x) ==
  {c \in Store : ~(c[1] = v /\ c[2] \in W)} \cup {<<v, w, x>> : w \in W}

\* One round of put_value writes its value in the words that are covered.
LEMMA CopyPageStore ==
  ASSUME IInv, CopyPage
  PROVE  \/ Store' = Store
         \/ /\ call.pc \in {"one", "copy"} /\ call.op = "put_value" /\ call.val \in Values
            /\ call.va \in Mapped /\ Covered \subseteq Words
            /\ Store' = Written(call.va, Covered, call.val)
<1> DEFINE v == call.va
           C == Covered
           x == call.val
<1>1. call.pc \in {"one", "check", "copy"} /\ call.pc \in {"one", "copy"}
  BY DEF CopyPage
<1>2. /\ TypeOK /\ MemType /\ PageTree
  <2>1. up
    BY <1>1 DEF IInv, Accessing
  <2> QED
    BY <2>1, TreeFromOwned DEF IInv, TypeOK, MemType
<1>3. CASE mem' = mem
  BY <1>3, SameStore
<1>4. CASE /\ call.op = "put_value" /\ x \in Values /\ v \in Mapped
           /\ mem' = [mem EXCEPT ![Entry(v)] = Copied(@)]
  <2>1. \A u \in Virt : Entry(u)' = Entry(u)
    BY <1>1, CopyPageMemory
  <2>2. Mapped' = Mapped /\ C \subseteq Words
    BY <2>1 DEF Mapped, Covered
  <2>3. \A u \in Mapped : u \in Virt /\ Entry(u) \in Frames /\ (Entry(u) = Entry(v) => u = v)
    BY <1>2, <1>4 DEF Mapped, PageTree, TypeOK
  <2>4. \A w \in Words : Copied(mem[Entry(v)])[w] = IF w \in C THEN x ELSE mem[Entry(v)][w]
    BY DEF Copied
  <2> HIDE DEF v, C, x
  <2>5. \A u \in Mapped, w \in Words :
          mem'[Entry(u)'][w] = IF u = v /\ w \in C THEN x ELSE mem[Entry(u)][w]
    <3> TAKE u \in Mapped, w \in Words
    <3>1. Entry(u)' = Entry(u)
      BY <2>1, <2>3
    <3>2. mem'[Entry(u)] = IF u = v THEN Copied(mem[Entry(v)]) ELSE mem[Entry(u)]
      BY <1>2, <1>4, <2>3 DEF MemType
    <3> QED
      BY <2>4, <3>1, <3>2
  <2>6. Store' = {<<u, w, mem'[Entry(u)'][w]>> : u \in Mapped, w \in Words}
    BY <2>2 DEF Store
  <2>7. Store' = Written(v, C, x)
    <3>1. ASSUME NEW c \in Store' PROVE c \in Written(v, C, x)
      <4>1. PICK u \in Mapped, w \in Words : c = <<u, w, mem'[Entry(u)'][w]>>
        BY <2>6, <3>1
      <4>2. CASE u = v /\ w \in C
        <5>1. c = <<v, w, x>>
          BY <2>5, <4>1, <4>2
        <5> QED
          BY <4>2, <5>1 DEF Written
      <4>3. CASE ~(u = v /\ w \in C)
        <5>1. c = <<u, w, mem[Entry(u)][w]>>
          BY <2>5, <4>1, <4>3
        <5>2. c \in Store /\ c[1] = u /\ c[2] = w
          BY <5>1 DEF Store
        <5> QED
          BY <4>3, <5>2 DEF Written
      <4> QED
        BY <4>2, <4>3
    <3>2. ASSUME NEW c \in Store, ~(c[1] = v /\ c[2] \in C) PROVE c \in Store'
      <4>1. PICK u \in Mapped, w \in Words : c = <<u, w, mem[Entry(u)][w]>>
        BY <3>2 DEF Store
      <4>2. c[1] = u /\ c[2] = w
        BY <4>1
      <4> QED
        BY <2>5, <2>6, <3>2, <4>1, <4>2
    <3>3. ASSUME NEW w \in C PROVE <<v, w, x>> \in Store'
      <4>1. PICK u \in Mapped : u = v
        BY <1>4
      <4>2. w \in Words /\ mem'[Entry(u)'][w] = x
        BY <2>2, <2>5, <4>1
      <4>3. <<u, w, mem'[Entry(u)'][w]>> \in Store'
        BY <2>6, <4>2
      <4> QED
        BY <4>1, <4>2, <4>3
    <3> QED
      BY <3>1, <3>2, <3>3 DEF Written
  <2> QED
    BY <1>1, <1>4, <2>2, <2>7 DEF v, C, x
<1> QED
  BY <1>1, <1>3, <1>4, CopyPageMemory

-----------------------------------------------------------------------------
\* The abstract specification.

\* The pages of the store are the mapped pages.
LEMMA StorePages ==
  PageStoreRefinement!MappedPages = Mapped
<1>1. \A c \in Store : c[1] \in Mapped
  BY DEF Store
<1>2. ASSUME NEW v \in Mapped PROVE v \in {c[1] : c \in Store}
  <2>1. 0 \in Words
    BY Constants
  <2>2. <<v, 0, mem[Entry(v)][0]>> \in Store
    BY <2>1 DEF Store
  <2> QED
    BY <2>2
<1> QED
  BY <1>1, <1>2 DEF PageStoreRefinement!MappedPages

\* The steps that leave memory alone.
LEMMA QuietSteps ==
  ASSUME \/ \E n \in 1..MaxPages : TMalloc(n) \/ \E v \in Virt : TFree(v, n)
         \/ Accesses \/ MapPageCrash \/ CheckPage \/ Return \/ Stopped \/ UNCHANGED vars
  PROVE  mem' = mem
<1>1. ASSUME NEW v \in Virt, NEW n, TFree(v, n) PROVE mem' = mem
  BY <1>1 DEF TFree
<1>2. CASE Accesses
  BY <1>2 DEF Accesses, GetValue, PutValue, Access
<1>3. CASE MapPageCrash \/ CheckPage \/ Return \/ Stopped \/ UNCHANGED vars
  BY <1>3 DEF MapPageCrash, CheckPage, Return, Stopped, vars
<1>4. ASSUME NEW n, TMalloc(n) PROVE mem' = mem
  BY <1>4 DEF TMalloc
<1> QED
  BY <1>1, <1>2, <1>3, <1>4

\* Every step is one of a memory of pages, or none.
LEMMA StepRefines ==
  ASSUME IInv, [Next]_vars
  PROVE  [PageStoreRefinement!Next]_Store
<1>1. CASE MapPage
  <2>1. CASE Store' = Store
    BY <2>1
  <2>2. CASE /\ call.va \in Virt \ Mapped
             /\ Store' = Store \cup {<<call.va, w, Null>> : w \in Words}
    <3>1. PageStoreRefinement!Map(call.va)
      BY <2>2, StorePages DEF PageStoreRefinement!Map
    <3> QED
      BY <2>2, <3>1 DEF PageStoreRefinement!Next
  <2> QED
    BY <1>1, <2>1, <2>2, MapPageStore
<1>2. CASE UnmapPage
  <2> DEFINE z == call.va + call.i
  <2>1. z \in Virt /\ Store' = {c \in Store : c[1] # z}
    BY <1>2, UnmapPageStore
  <2> HIDE DEF z
  <2>2. PageStoreRefinement!Unmap(z)
    BY <2>1 DEF PageStoreRefinement!Unmap, PageStoreRefinement!ContentOf
  <2> QED
    BY <2>1, <2>2 DEF PageStoreRefinement!Next
<1>3. CASE CopyPage
  <2>1. CASE Store' = Store
    BY <2>1
  <2>2. CASE /\ call.val \in Values /\ call.va \in Mapped /\ Covered \subseteq Words
             /\ Store' = Written(call.va, Covered, call.val)
    <3>1. Covered \in SUBSET Words
      BY <2>2
    <3>2. PageStoreRefinement!Write(call.va, call.val)
      BY <2>2, <3>1, StorePages DEF PageStoreRefinement!Write, Written
    <3>3. call.va \in Virt
      BY <2>2 DEF Mapped
    <3> QED
      BY <2>2, <3>2, <3>3 DEF PageStoreRefinement!Next
  <2> QED
    BY <1>3, <2>1, <2>2, CopyPageStore
<1>4. CASE mem' = mem
  BY <1>4, SameStore
<1> QED
  BY <1>1, <1>2, <1>3, <1>4, QuietSteps DEF Next, Proceed

\* The calls implement a memory of pages: pages appear filled with zeros, keep what was last
\* written to them whatever happens to other pages, and disappear.
THEOREM ImplementsPageStore == ~FreesScattered => (Spec => Refinement)
<1> SUFFICES ASSUME ~FreesScattered PROVE Spec => Refinement
  OBVIOUS
<1>1. Init => PageStoreRefinement!Init
  <2> SUFFICES ASSUME Init PROVE Store = {}
    BY DEF PageStoreRefinement!Init
  <2>1. \A v \in Virt : Entry(v) = Null
    <3> TAKE v \in Virt
    <3>1. mem[0][DirIndex(v)] = Null
      BY Constants, PageParts DEF Init, Zeroed
    <3> QED
      BY <3>1, Constants DEF Entry
  <2> QED
    BY <2>1 DEF Store, Mapped
<1>2. IInv /\ [Next]_vars => [PageStoreRefinement!Next]_Store
  BY StepRefines
<1> QED
  BY <1>1, <1>2, Invariance, PTL DEF Spec, Refinement, PageStoreRefinement!Spec

-----------------------------------------------------------------------------
\* Action properties.

Changed == (Store \ Store') \cup (Store' \ Store)

\* A step changes words of its own page and range.
LEMMA StepInReach ==
  ASSUME IInv, [Next]_vars
  PROVE  \A c \in Changed : <<c[1], c[2]>> \in InReach
<1>1. CASE MapPage
  <2>1. InReach = {call.va} \X Words
    BY <1>1 DEF InReach, MapPage
  <2>2. Changed \subseteq {<<call.va, w, Null>> : w \in Words}
    BY <1>1, MapPageStore DEF Changed
  <2> QED
    BY <2>1, <2>2
<1>2. CASE UnmapPage
  <2> DEFINE z == call.va + call.i
  <2>1. InReach = {z} \X Words
    BY <1>2 DEF InReach, UnmapPage
  <2>2. Changed \subseteq {c \in Store : c[1] = z}
    BY <1>2, UnmapPageStore DEF Changed
  <2>3. \A c \in Store : c[2] \in Words
    BY DEF Store
  <2> HIDE DEF z
  <2> QED
    BY <2>1, <2>2, <2>3
<1>3. CASE CopyPage
  <2>1. CASE Store' = Store
    BY <2>1 DEF Changed
  <2>2. CASE /\ call.pc \in {"one", "copy"} /\ call.op = "put_value"
             /\ Store' = Written(call.va, Covered, call.val)
    <3>1. InReach = {call.va} \X Covered
      BY <2>2 DEF InReach
    <3>2. \A c \in Changed : c[1] = call.va /\ c[2] \in Covered
      BY <2>2 DEF Changed, Written
    <3> QED
      BY <3>1, <3>2
  <2> QED
    BY <1>3, <2>1, <2>2, CopyPageStore
<1>4. CASE mem' = mem
  BY <1>4, SameStore DEF Changed
<1> QED
  BY <1>1, <1>2, <1>3, <1>4, QuietSteps DEF Next, Proceed

\* A call changes the words of its own pages and of its own range, and no others.
THEOREM OthersWordsKept == ~FreesScattered => (Spec => ChangesOnlyItsOwn)
<1> SUFFICES ASSUME ~FreesScattered PROVE Spec => ChangesOnlyItsOwn
  OBVIOUS
<1>1. IInv /\ [Next]_vars =>
        [\A c \in (Store \ Store') \cup (Store' \ Store) : <<c[1], c[2]>> \in InReach]_vars
  BY StepInReach DEF Changed
<1> QED
  BY <1>1, Invariance, PTL DEF Spec, ChangesOnlyItsOwn

\* A step that leaves memory and the bitmap alone loses no frame.
LEMMA SameLost ==
  ASSUME mem' = mem, phy_bitmap' = phy_bitmap PROVE Lost' = Lost
<1>1. Mapped' = Mapped /\ \A v : Entry(v)' = Entry(v)
  BY DEF Mapped, Entry
<1> QED
  BY <1>1 DEF Lost, OwnFrames, Tables, Present

\* A step marks a frame that nobody owns only for an entry that is set, and leaves one marked
\* only beyond the first byte of the bitmap.
LEMMA StepLoses ==
  ASSUME IInv, [Next]_vars
  PROVE  \A f \in Lost' \ Lost : f >= ByteBits \/ (call.pc = "map" /\ ~call.found)
<1>1. CASE MapPage
  <2> SUFFICES ASSUME call.found PROVE Lost' \subseteq Lost
    BY <1>1, Zenon DEF MapPage
  <2>1. TypeOK /\ Mapping /\ PageTree
    <3>1. up
      BY <1>1 DEF IInv, Mapping, MapPage
    <3> QED
      BY <3>1, TreeFromOwned DEF IInv
  <2> DEFINE v == call.va
             x == call.frame
  <2>2. /\ v \in Virt /\ x \in Frames /\ DirIndex(v) \in Directory
        /\ Table \in Frames
        /\ ~NoTable(v) => Table = mem[0][DirIndex(v)]
        /\ phy_bitmap' = phy_bitmap \cup {x, Table}
    BY <1>1, <2>1, MapPageFrames, PageParts DEF MapCall
  <2>3. v \notin Mapped
    BY <1>1 DEF IInv, MallocMapsArea, MapPage
  <2>4. /\ \A u \in Virt : Entry(u)' = IF u = v /\ Entry(u) = Null THEN x ELSE Entry(u)
        /\ \A d \in Directory : mem'[0][d] = IF d = DirIndex(v) THEN Table ELSE mem[0][d]
    BY <1>1, <2>1, MapPageEntries, MapPageMemory
  <2>5. Null \notin Frames /\ (NoTable(v) <=> mem[0][DirIndex(v)] = Null)
    BY Constants DEF NoTable
  <2> HIDE DEF v, x
  <2>6. ASSUME NEW e \in OwnFrames PROVE e \in OwnFrames'
    <3>1. PICK u \in Virt : Entry(u) # Null /\ e = Entry(u)
      BY <2>6 DEF OwnFrames, Mapped
    <3>2. Entry(u)' = e
      BY <2>4, <3>1
    <3> QED
      BY <3>1, <3>2 DEF OwnFrames, Mapped
  <2>7. ASSUME NEW e \in Tables PROVE e \in Tables'
    <3>1. PICK d \in Directory : mem[0][d] # Null /\ e = mem[0][d]
      BY <2>7 DEF Tables, Present
    <3>2. mem'[0][d] = e
      BY <2>2, <2>4, <2>5, <3>1
    <3> QED
      BY <3>1, <3>2 DEF Tables, Present
  <2>8. x \in OwnFrames'
    <3>1. PICK u \in Virt : u = v
      BY <2>2
    <3>2. Entry(u)' = x
      BY <2>2, <2>3, <2>4, <3>1 DEF Mapped
    <3> QED
      BY <2>2, <2>5, <3>1, <3>2 DEF OwnFrames, Mapped
  <2>9. Table \in Tables'
    <3>1. PICK d \in Directory, e \in Frames : d = DirIndex(v) /\ e = Table
      BY <2>2
    <3>2. mem'[0][d] = e
      BY <2>4, <3>1
    <3>3. e \in Tables'
      BY <2>5, <3>1, <3>2 DEF Tables, Present
    <3> QED
      BY <3>1, <3>3
  <2> QED
    BY <2>2, <2>6, <2>7, <2>8, <2>9 DEF Lost
<1>2. CASE UnmapPage
  <2>1. /\ TypeOK /\ Unmapping /\ PageTree
    <3>1. up
      BY <1>2 DEF IInv, Unmapping, UnmapPage
    <3> QED
      BY <3>1, TreeFromOwned DEF IInv
  <2> DEFINE z == call.va + call.i
             g == Entry(z)
  <2>2. /\ mem'[0] = mem[0]
        /\ \A u \in Virt : Entry(u)' = IF u = z THEN Null ELSE Entry(u)
        /\ phy_bitmap' = unset_bit_at_index(phy_bitmap, g)
        /\ g \in phy_bitmap /\ g \in Nat /\ ByteBits \in Nat
    BY <1>2, <2>1, UnmapPageMemory, Constants DEF TypeOK
  <2> HIDE DEF z, g
  <2>3. Tables' = Tables
    BY <2>2 DEF Tables, Present
  <2>4. ASSUME NEW e \in OwnFrames, e # g PROVE e \in OwnFrames'
    <3>1. PICK u \in Virt : Entry(u) # Null /\ e = Entry(u)
      BY <2>4 DEF OwnFrames, Mapped
    <3>2. Entry(u)' = e
      BY <2>2, <2>4, <3>1 DEF g
    <3> QED
      BY <3>1, <3>2 DEF OwnFrames, Mapped
  <2>5. phy_bitmap' = IF g < ByteBits THEN phy_bitmap \ {g} ELSE phy_bitmap
    BY <2>2 DEF unset_bit_at_index
  <2>6. \A f \in Lost' \ Lost : f = g /\ g \in phy_bitmap'
    BY <2>3, <2>4, <2>5 DEF Lost
  <2> QED
    BY <2>2, <2>5, <2>6
<1>3. CASE CopyPage
  <2>1. call.pc \in {"one", "check", "copy"} /\ phy_bitmap' = phy_bitmap
    BY <1>3 DEF CopyPage
  <2>2. mem'[0] = mem[0] /\ \A u \in Virt : Entry(u)' = Entry(u)
    BY <1>3, <2>1, CopyPageMemory
  <2>3. Lost' = Lost
    BY <2>1, <2>2 DEF Lost, OwnFrames, Tables, Present, Mapped
  <2> QED
    BY <2>3
<1>4. ASSUME NEW n, TMalloc(n) PROVE Lost' \subseteq Lost
  <2>1. CASE up
    BY <1>4, <2>1, SameLost DEF TMalloc
  <2>2. CASE ~up
    BY <1>4, <2>2 DEF TMalloc, Lost
  <2> QED
    BY <2>1, <2>2
<1>5. ASSUME NEW v, NEW n, TFree(v, n) PROVE Lost' = Lost
  BY <1>5, SameLost DEF TFree
<1>6. CASE Accesses
  BY <1>6, SameLost DEF Accesses, GetValue, PutValue, Access
<1>7. CASE MapPageCrash \/ CheckPage \/ Return \/ Stopped \/ UNCHANGED vars
  BY <1>7, SameLost DEF MapPageCrash, CheckPage, Return, Stopped, vars
<1> QED
  BY <1>1, <1>2, <1>3, <1>4, <1>5, <1>6, <1>7 DEF Next, Proceed

\* A frame is marked and owned by nobody only where unset_bit_at_index cannot clear its bit, or
\* where t_malloc went on without a free page.
THEOREM FramesLostOnlyThere == ~FreesScattered => (Spec => LosesFramesOnlyThere)
<1> SUFFICES ASSUME ~FreesScattered PROVE Spec => LosesFramesOnlyThere
  OBVIOUS
<1>1. IInv /\ [Next]_vars =>
        [\A f \in Lost' \ Lost : f >= ByteBits \/ (call.pc = "map" /\ ~call.found)]_vars
  BY StepLoses
<1> QED
  BY <1>1, Invariance, PTL DEF Spec, LosesFramesOnlyThere

-----------------------------------------------------------------------------
\* The words of a request.

\* A number is split into quotient and remainder in one way only.
LEMMA DivUnique ==
  ASSUME NEW q \in Nat, NEW w \in Words, NEW n, n = TableEntries * q + w
  PROVE  n \div TableEntries = q /\ n % TableEntries = w
<1> DEFINE a == n \div TableEntries
           b == n % TableEntries
<1>1. TableEntries \in Nat /\ TableEntries > 0 /\ w \in Nat /\ w < TableEntries
  BY Constants DEF Words
<1>2. TableEntries * q \in Nat /\ n \in Nat
  BY <1>1
<1>3. a \in Int /\ b \in 0..(TableEntries - 1) /\ n = TableEntries * a + b
  BY <1>1, <1>2
<1> HIDE DEF a, b
<1>4. a = q
  <2>1. CASE a >= q + 1
    <3>1. TableEntries * a >= TableEntries * (q + 1)
      BY <1>1, <1>3, <2>1
    <3>2. TableEntries * (q + 1) = TableEntries * q + TableEntries
      BY <1>1
    <3> QED
      BY <1>1, <1>2, <1>3, <3>1, <3>2
  <2>2. CASE a <= q - 1
    <3>1. TableEntries * a <= TableEntries * (q - 1)
      BY <1>1, <1>3, <2>2
    <3>2. TableEntries * (q - 1) = TableEntries * q - TableEntries
      BY <1>1
    <3> QED
      BY <1>1, <1>2, <1>3, <3>1, <3>2
  <2> QED
    BY <1>3, <2>1, <2>2
<1>5. b = w
  BY <1>1, <1>2, <1>3, <1>4
<1> QED
  BY <1>4, <1>5 DEF a, b

Total == DirEntries * TableEntries

\* The word at offset w of the page that is q pages behind v, counted round the last page.
LEMMA NthFacts ==
  ASSUME NEW v \in Virt, NEW q \in Nat, NEW w \in Words, NEW k, k = q * TableEntries + w
  PROVE  Nth(v, k) = (v + q) % Total /\ Nth(v, k) \in Virt /\ k % TableEntries = w
<1>1. /\ TableEntries \in Nat /\ v \in Nat /\ w \in Nat
      /\ Total \in Nat /\ Total > 0 /\ Virt = 0..(Total - 1)
  BY Constants DEF Words, Virt, Total
<1> DEFINE n == v * TableEntries + k
<1>2. n = TableEntries * (v + q) + w /\ k = TableEntries * q + w
  <2>1. v * TableEntries = TableEntries * v /\ q * TableEntries = TableEntries * q
    BY <1>1
  <2>2. TableEntries * (v + q) = TableEntries * v + TableEntries * q
    BY <1>1
  <2>3. TableEntries * v \in Nat /\ TableEntries * q \in Nat
    BY <1>1
  <2> QED
    BY <1>1, <2>1, <2>2, <2>3
<1>3. v + q \in Nat
  BY <1>1
<1> HIDE DEF n
<1>4. n \div TableEntries = v + q /\ k % TableEntries = w
  BY <1>2, <1>3, DivUnique
<1>5. Nth(v, k) = (v + q) % Total
  BY <1>4 DEF Nth, n, Total
<1>6. (v + q) % Total \in 0..(Total - 1)
  BY <1>1, <1>3
<1> QED
  BY <1>1, <1>4, <1>5, <1>6

\* From the page q behind v the loop goes on to the page q + 1 behind it.
LEMMA NextNth ==
  ASSUME NEW v \in Virt, NEW q \in Nat
  PROVE  get_next_page((v + q) % Total) = (v + (q + 1)) % Total
<1>1. Total \in Nat /\ Total > 0 /\ v + q \in Nat /\ v \in Nat
  BY Constants DEF Total
<1> DEFINE n == v + q
           a == n \div Total
           b == n % Total
<1>2. n \in Nat
  BY <1>1
<1> HIDE DEF n
<1>3. a \in Int /\ b \in 0..(Total - 1) /\ n = Total * a + b
  BY <1>1, <1>2
<1> HIDE DEF a, b
<1>4. (b + 1) % Total = (n + 1) % Total
  BY <1>1, <1>2, <1>3
<1>5. n + 1 = v + (q + 1)
  BY <1>1 DEF n
<1> QED
  BY <1>4, <1>5 DEF get_next_page, Total, b, n

\* The first n words of the request have been copied.
Served(c, n) ==
  \A k \in 0..(n - 1) :
    /\ Entry(Nth(c.start, c.first + k)) \in Frames
    /\ WordOf(c, k) = IF c.op = "put_value" THEN c.val ELSE c.buf[k + 1]

Done == call.size - call.left

\* The page in hand is q pages behind the first, and the words before its offset are done.
AtPage(q) == call.first + Done = q * TableEntries + call.off /\ call.va = (call.start + q) % Total

Copying ==
  call.pc \in {"one", "copy"} =>
    /\ Done \in Nat /\ (call.op = "get_value" => Len(call.buf) = Done)
    /\ Served(call, Done)
    /\ \E q \in Nat : AtPage(q)

Checking == call.pc = "check" => call.buf = <<>>

RequestInv == Copying /\ Checking /\ AccessesWholeRequest

\* The words of a request lie in pages, and in frames where the pages are mapped.
LEMMA RequestWord ==
  ASSUME NEW v \in Virt, NEW p \in Nat
  PROVE  Nth(v, p) \in Virt /\ p % TableEntries \in Words
<1> DEFINE q == p \div TableEntries
           w == p % TableEntries
<1>1. TableEntries \in Nat /\ TableEntries > 0
  BY Constants
<1>2. q \in Int /\ w \in 0..(TableEntries - 1) /\ p = TableEntries * q + w
  BY <1>1
<1> HIDE DEF q, w
<1>3. q >= 0
  <2> SUFFICES ASSUME q <= -1 PROVE FALSE
    BY <1>2
  <2>1. TableEntries * q <= TableEntries * (-1)
    BY <1>1, <1>2
  <2> QED
    BY <1>1, <1>2, <2>1
<1>4. q \in Nat /\ w \in Words /\ p = q * TableEntries + w
  <2>1. TableEntries * q = q * TableEntries
    BY <1>1, <1>2
  <2> QED
    BY <1>2, <1>3, <2>1 DEF Words
<1>5. Nth(v, p) \in Virt
  BY <1>4, NthFacts
<1> QED
  BY <1>4, <1>5 DEF w

\* How many words the page in hand has for the request: to the end of the page or of the request.
LEMMA CoveredCount ==
  ASSUME TypeOK, call.pc \in {"one", "check", "copy"}
  PROVE  Cardinality(Covered) =
           IF call.left < TableEntries - call.off THEN call.left ELSE TableEntries - call.off
<1>1. call.off \in Words /\ call.left \in Nat /\ TableEntries \in Nat \ {0}
  BY AccessFacts, Constants
<1> DEFINE a == call.off
           b == IF call.off + call.left < TableEntries THEN call.off + call.left ELSE TableEntries
<1>2. a \in Nat /\ b \in Nat /\ a <= b /\ b <= TableEntries
  BY <1>1 DEF Words
<1>3. Covered = a..(b - 1)
  BY <1>1, <1>2 DEF Covered, Words
<1> HIDE DEF b
<1> DEFINE m == b - 1
<1>4. a \in Int /\ m \in Int
  BY <1>2
<1>5. Cardinality(a..m) = IF a > m THEN 0 ELSE m - a + 1
  <2> HIDE DEF a, m
  <2> QED
    BY <1>4, FS_Interval
<1>6. Cardinality(Covered) = b - a
  <2>1. Cardinality(Covered) = Cardinality(a..m)
    BY <1>3
  <2> QED
    BY <1>2, <1>5, <2>1
<1>7. b - a = IF call.left < TableEntries - call.off THEN call.left ELSE TableEntries - call.off
  BY <1>1 DEF b, Words
<1> QED
  BY <1>6, <1>7

\* What one round of get_value appends.
Part(f) == [j \in 1..Cardinality(Covered) |-> mem[f][call.off + j - 1]]
Buffer(f) == IF call.op = "get_value" THEN call.buf \o Part(f) ELSE <<>>

\* One round of get_value appends the words of its page, in their order.
LEMMA BufferFacts ==
  ASSUME TypeOK, call.pc \in {"one", "check", "copy"}, call.op = "get_value", NEW f \in Frames
  PROVE  /\ Len(Buffer(f)) = Len(call.buf) + Cardinality(Covered)
         /\ \A k \in 1..Len(call.buf) : Buffer(f)[k] = call.buf[k]
         /\ \A j \in 1..Cardinality(Covered) :
              Buffer(f)[Len(call.buf) + j] = mem[f][call.off + j - 1]
<1> DEFINE c == Cardinality(Covered)
           part == Part(f)
           a == call.buf
<1>1. c \in Nat /\ \A j \in 1..c : call.off + j - 1 \in Words
  BY CoveredFacts
<1>2. \A j \in 1..c : mem[f][call.off + j - 1] \in Word /\ part[j] = mem[f][call.off + j - 1]
  BY <1>1 DEF TypeOK, Part
<1>3. part \in Seq(Word) /\ Len(part) = c
  <2>1. part = [j \in 1..c |-> mem[f][call.off + j - 1]]
    BY DEF Part
  <2> HIDE DEF part, c
  <2> QED
    BY <1>1, <1>2, <2>1
<1>4. a \in Seq(Word) /\ Buffer(f) = a \o part
  BY AccessFacts DEF Buffer
<1> HIDE DEF part, c, a
<1>5. /\ Len(a \o part) = Len(a) + c
      /\ \A k \in 1..Len(a) : (a \o part)[k] = a[k]
      /\ \A j \in 1..c : (a \o part)[Len(a) + j] = part[j]
  <2> DEFINE b == a \o part
             n == Len(a)
  <2>1. /\ Len(b) = n + Len(part)
        /\ \A i \in 1..(n + Len(part)) : b[i] = IF i <= n THEN a[i] ELSE part[i - n]
    BY <1>3, <1>4, ConcatProperties
  <2>2. n \in Nat
    BY <1>4
  <2> HIDE DEF b, n
  <2>3. \A j \in 1..c : b[n + j] = part[j]
    <3> TAKE j \in 1..c
    <3>1. n + j \in 1..(n + c) /\ ~(n + j <= n) /\ (n + j) - n = j
      BY <1>1, <2>2
    <3> QED
      BY <1>3, <2>1, <3>1
  <2>4. \A k \in 1..n : b[k] = a[k]
    BY <1>1, <1>3, <2>1, <2>2
  <2> QED
    BY <1>3, <2>1, <2>3, <2>4 DEF b, n
<1>6. \A j \in 1..c : Buffer(f)[Len(a) + j] = mem[f][call.off + j - 1]
  BY <1>2, <1>4, <1>5
<1> QED
  BY <1>4, <1>5, <1>6 DEF a, c

\* What the memory holds after one round of put_value or get_value.
LEMMA CopyPageWords ==
  ASSUME IInv, CopyPage, Entry(call.va) \in Frames,
         mem' = IF call.op = "put_value" THEN [mem EXCEPT ![Entry(call.va)] = Copied(@)] ELSE mem
  PROVE  /\ call.op # "put_value" => mem' = mem
         /\ call.op = "put_value" =>
              /\ \A g \in Frames, w \in Words : mem[g][w] = call.val => mem'[g][w] = call.val
              /\ \A w \in Covered : mem'[Entry(call.va)][w] = call.val
<1> DEFINE e == Entry(call.va)
<1>1. MemType
  BY DEF IInv, TypeOK, MemType
<1>2. CASE call.op = "put_value"
  <2>1. \A w \in Words : Copied(mem[e])[w] = IF w \in Covered THEN call.val ELSE mem[e][w]
    BY DEF Copied
  <2>2. \A g \in Frames : mem'[g] = IF g = e THEN Copied(mem[e]) ELSE mem[g]
    <3> HIDE DEF e
    <3> QED
      BY <1>1, <1>2 DEF MemType, e
  <2>3. Covered \subseteq Words
    BY DEF Covered
  <2> HIDE DEF e
  <2>4. e \in Frames
    BY DEF e
  <2>5. \A w \in Covered : mem'[e][w] = call.val
    BY <2>1, <2>2, <2>3, <2>4
  <2>6. \A g \in Frames, w \in Words : mem[g][w] = call.val => mem'[g][w] = call.val
    BY <2>1, <2>2
  <2> QED
    BY <1>2, <2>5, <2>6 DEF e
<1> QED
  BY <1>2

Answer(b) == [pc |-> "ret", op |-> call.op, start |-> call.start, first |-> call.first,
              size |-> call.size, val |-> call.val, buf |-> b]

Onward(b) == [pc |-> call.pc, op |-> call.op, start |-> call.start, first |-> call.first,
              size |-> call.size, val |-> call.val, va |-> get_next_page(call.va), off |-> 0,
              left |-> call.left - (TableEntries - call.off), buf |-> b]

\* After one round the request ends, or goes on behind the words of this page.
LEMMA CopyPageCall ==
  ASSUME IInv, CopyPage
  PROVE  \/ call'.pc \in {"wild", "lost"}
         \/ call'.pc = "ret" /\ call'.op = "refused"
         \/ /\ Entry(call.va) \in Frames
            /\ mem' = IF call.op = "put_value" THEN [mem EXCEPT ![Entry(call.va)] = Copied(@)] ELSE mem
            /\ call' = IF call.left - (TableEntries - call.off) > 0 THEN Onward(Buffer(Entry(call.va)))
                       ELSE Answer(Buffer(Entry(call.va)))
<1> DEFINE v == call.va
<1>1. call.pc \in {"one", "check", "copy"}
  BY DEF CopyPage
<1>2. up /\ TypeOK
  BY <1>1 DEF IInv, Accessing
<1>3. PICK r \in translate(v) :
        \/ /\ r.pa \in Frames
           /\ mem' = IF call.op = "put_value" THEN [mem EXCEPT ![r.pa] = Copied(@)] ELSE mem
           /\ call' = IF Advanced.left > 0 THEN [Advanced EXCEPT !.buf = Buffer(r.pa)]
                      ELSE Answer(Buffer(r.pa))
        \/ call' = IF r.pa # Null THEN Wild
                   ELSE IF call.pc = "one" THEN [call EXCEPT !.pc = "lost"] ELSE Refuse
  BY Zenon DEF CopyPage, Buffer, Part, Answer
<1>4. PageTree /\ TlbGood
  BY <1>2, TreeFromOwned, TlbFromAgrees DEF IInv
<1>5. v \in Virt
  BY <1>1, <1>2, AccessFacts
<1>6. r.pa = Entry(v)
  BY <1>2, <1>3, <1>4, <1>5, TranslateFacts
<1>7. /\ Advanced = Onward(call.buf)
      /\ Advanced.left = call.left - (TableEntries - call.off)
  <2>1. Advanced = Onward(call.buf)
    BY <1>1, <1>2, AdvancedFacts DEF Onward
  <2> QED
    BY <2>1 DEF Onward
<1>8. \A b : [Onward(call.buf) EXCEPT !.buf = b] = Onward(b)
  BY DEF Onward
<1>9. CASE call' = IF r.pa # Null THEN Wild
                   ELSE IF call.pc = "one" THEN [call EXCEPT !.pc = "lost"] ELSE Refuse
  <2>1. call'.pc \in {"wild", "lost"} \/ call' = Refuse
    <3>1. [call EXCEPT !.pc = "lost"].pc = "lost"
      BY <1>1, <1>2, AccessFacts
    <3> QED
      BY <1>9, <3>1 DEF Wild
  <2> QED
    BY <2>1 DEF Refuse
<1> HIDE DEF v
<1>10. CASE /\ r.pa \in Frames
            /\ mem' = IF call.op = "put_value" THEN [mem EXCEPT ![r.pa] = Copied(@)] ELSE mem
            /\ call' = IF Advanced.left > 0 THEN [Advanced EXCEPT !.buf = Buffer(r.pa)]
                       ELSE Answer(Buffer(r.pa))
  <2>1. call' = IF Advanced.left > 0 THEN Onward(Buffer(Entry(v))) ELSE Answer(Buffer(Entry(v)))
    BY <1>6, <1>7, <1>8, <1>10, Zenon
  <2>2. Entry(v) \in Frames
    BY <1>6, <1>10
  <2>3. mem' = IF call.op = "put_value" THEN [mem EXCEPT ![Entry(v)] = Copied(@)] ELSE mem
    BY <1>6, <1>10
  <2>4. call' = IF call.left - (TableEntries - call.off) > 0 THEN Onward(Buffer(Entry(v)))
                ELSE Answer(Buffer(Entry(v)))
    BY <1>7, <2>1, Zenon
  <2> QED
    BY <2>2, <2>3, <2>4, Zenon DEF v
<1> QED
  BY <1>3, <1>9, <1>10

\* After one round the words of this page have been copied, and those of the pages before are
\* as they were.
LEMMA CopyPageServed ==
  ASSUME IInv, RequestInv, CopyPage, Entry(call.va) \in Frames,
         mem' = IF call.op = "put_value" THEN [mem EXCEPT ![Entry(call.va)] = Copied(@)] ELSE mem,
         NEW k \in 0..(Done + Cardinality(Covered) - 1)
  PROVE  LET u == Nth(call.start, call.first + k)
             w == (call.first + k) % TableEntries
         IN  /\ u \in Virt /\ w \in Words /\ Entry(u) \in Frames
             /\ mem'[Entry(u)][w] = IF call.op = "put_value" THEN call.val
                                    ELSE Buffer(Entry(call.va))[k + 1]
<1> DEFINE e == Entry(call.va)
           c == Cardinality(Covered)
           d == Done
           u == Nth(call.start, call.first + k)
           w == (call.first + k) % TableEntries
           B == Buffer(e)
<1>1. /\ call.pc \in {"one", "copy"} /\ call.pc \in {"one", "check", "copy"} /\ TypeOK
  BY DEF CopyPage, IInv
<1>2. /\ call.start \in Virt /\ call.first \in Words /\ call.first \in Nat
      /\ call.off \in Words /\ call.off \in Nat /\ TableEntries \in Nat
      /\ call.op \in {"put_value", "get_value"} /\ call.buf \in Seq(Word) /\ call.left \in Nat
  BY <1>1, AccessFacts, Constants DEF Words
<1>3. /\ d \in Nat /\ (call.op = "get_value" => Len(call.buf) = d)
      /\ Served(call, d)
  BY <1>1 DEF RequestInv, Copying
<1>4. PICK q \in Nat : AtPage(q)
  BY <1>1 DEF RequestInv, Copying
<1>5. c = IF call.left < TableEntries - call.off THEN call.left ELSE TableEntries - call.off
  BY <1>1, CoveredCount
<1>6. c \in Nat /\ c <= TableEntries - call.off /\ c <= call.left
  <2> HIDE DEF c
  <2> QED
    BY <1>2, <1>5 DEF Words
<1>7. k \in Nat /\ call.first + k \in Nat
  <2> HIDE DEF c, d
  <2>1. k \in 0..(d + c - 1)
    BY DEF c, d
  <2> QED
    BY <1>2, <2>1
<1>8. u \in Virt /\ w \in Words
  BY <1>2, <1>7, RequestWord
<1>9. /\ call.op # "put_value" => mem' = mem
      /\ call.op = "put_value" =>
           /\ \A g \in Frames, x \in Words : mem[g][x] = call.val => mem'[g][x] = call.val
           /\ \A x \in Covered : mem'[e][x] = call.val
  BY CopyPageWords
<1>10. call.op = "get_value" =>
         /\ \A i \in 1..d : B[i] = call.buf[i]
         /\ \A j \in 1..c : B[d + j] = mem[e][call.off + j - 1]
  BY <1>1, <1>3, BufferFacts
<1>11. CASE k < d
  <2>1. Entry(u) \in Frames /\ mem[Entry(u)][w] = IF call.op = "put_value" THEN call.val
                                                  ELSE call.buf[k + 1]
    <3>1. k \in 0..(d - 1)
      BY <1>3, <1>7, <1>11
    <3> QED
      BY <1>3, <3>1, Zenon DEF Served, WordOf
  <2>2. k + 1 \in 1..d
    BY <1>3, <1>7, <1>11
  <2> HIDE DEF u, w, B, d
  <2>3. mem'[Entry(u)][w] = IF call.op = "put_value" THEN call.val ELSE B[k + 1]
    BY <1>2, <1>8, <1>9, <1>10, <2>1, <2>2
  <2> QED
    BY <1>8, <2>1, <2>3 DEF u, w, B
<1>12. CASE k >= d
  <2> DEFINE j == k - d
             x == call.off + j
  <2>1. /\ j \in Nat /\ j \in 0..(c - 1) /\ d + j = k /\ d + (j + 1) = k + 1 /\ j + 1 \in 1..c
        /\ x = call.off + (j + 1) - 1
    <3> HIDE DEF c, d
    <3>1. k \in 0..(d + c - 1)
      BY DEF c, d
    <3> QED
      BY <1>2, <1>3, <1>6, <1>7, <1>12, <3>1
  <2> HIDE DEF j
  <2>2. x \in Words /\ x \in Covered
    <3>1. x \in Words
      BY <1>2, <1>6, <2>1, SMTT(30) DEF Words
    <3> QED
      BY <1>2, <1>6, <2>1, <3>1, SMTT(30) DEF Covered
  <2>3. call.first + k = q * TableEntries + x
    <3> DEFINE y == q * TableEntries
    <3>1. call.first + d = y + call.off /\ y \in Nat
      BY <1>2, <1>4 DEF AtPage
    <3> HIDE DEF d, y
    <3>2. /\ call.first \in Nat /\ call.off \in Nat /\ d \in Nat /\ j \in Nat
          /\ d + j = k
      BY <1>2, <1>3, <2>1
    <3> DEFINE f == call.first
               o == call.off
    <3> HIDE DEF f, o
    <3>3. f + k = y + (o + j)
      BY <3>1, <3>2 DEF f, o
    <3> QED
      BY <3>3 DEF y, f, o
  <2>4. u = (call.start + q) % Total /\ w = x
    <3> DEFINE p == call.first + k
    <3>1. p = q * TableEntries + x
      BY <2>3
    <3> HIDE DEF p, x
    <3>2. call.start \in Virt /\ x \in Words
      BY <1>2, <2>2
    <3>3. Nth(call.start, p) = (call.start + q) % Total /\ p % TableEntries = x
      BY <3>1, <3>2, NthFacts
    <3> QED
      BY <3>3 DEF p
  <2>5. u = call.va
    BY <1>4, <2>4 DEF AtPage
  <2> HIDE DEF x, u, w
  <2>6. call.op = "put_value" => mem'[Entry(u)][w] = call.val
    BY <1>9, <2>2, <2>4, <2>5
  <2>7. call.op = "get_value" => mem'[Entry(u)][w] = B[k + 1]
    <3> HIDE DEF B
    <3> SUFFICES ASSUME call.op = "get_value" PROVE mem'[Entry(u)][w] = B[k + 1]
      OBVIOUS
    <3>1. mem' = mem
      BY <1>9
    <3>2. B[d + (j + 1)] = mem[e][call.off + (j + 1) - 1]
      BY <1>10, <2>1
    <3>3. B[k + 1] = mem[e][x]
      BY <2>1, <3>2
    <3> QED
      BY <2>4, <2>5, <3>1, <3>3
  <2>8. mem'[Entry(u)][w] = IF call.op = "put_value" THEN call.val ELSE B[k + 1]
    BY <1>2, <2>6, <2>7
  <2> QED
    BY <1>8, <2>5, <2>8 DEF u, w, B
<1> QED
  BY <1>3, <1>7, <1>11, <1>12

\* One round of put_value or get_value keeps the invariant of requests.
LEMMA CopyPageRequest ==
  ASSUME IInv, RequestInv, CopyPage PROVE RequestInv'
<1> DEFINE e == Entry(call.va)
           c == Cardinality(Covered)
           d == Done
           B == Buffer(e)
           l == call.left - (TableEntries - call.off)
<1>1. /\ call.pc \in {"one", "copy"} /\ call.pc \in {"one", "check", "copy"} /\ TypeOK
  BY DEF CopyPage, IInv
<1>2. CASE call'.pc \in {"wild", "lost"} \/ (call'.pc = "ret" /\ call'.op = "refused")
  BY <1>2 DEF RequestInv, Copying, Checking, AccessesWholeRequest
<1>3. CASE /\ e \in Frames
           /\ mem' = IF call.op = "put_value" THEN [mem EXCEPT ![e] = Copied(@)] ELSE mem
           /\ call' = IF l > 0 THEN Onward(B) ELSE Answer(B)
  <2>1. /\ call.start \in Virt /\ call.first \in Nat /\ call.off \in Nat /\ TableEntries \in Nat
        /\ call.off < TableEntries
        /\ call.op \in {"put_value", "get_value"} /\ call.left \in Nat /\ call.size \in Nat
    BY <1>1, AccessFacts, Constants DEF Words
  <2>2. d \in Nat /\ (call.op = "get_value" => Len(call.buf) = d)
    BY <1>1 DEF RequestInv, Copying
  <2>3. PICK q \in Nat : AtPage(q)
    BY <1>1 DEF RequestInv, Copying
  <2>4. c = IF call.left < TableEntries - call.off THEN call.left ELSE TableEntries - call.off
    BY <1>1, CoveredCount
  <2>5. \A u \in Virt : Entry(u)' = Entry(u)
    BY <1>1, CopyPageMemory
  <2>6. /\ call'.start = call.start /\ call'.first = call.first /\ call'.size = call.size
        /\ call'.op = call.op /\ call'.val = call.val /\ call'.buf = B
    <3> HIDE DEF B, l
    <3> QED
      BY <1>3 DEF Onward, Answer
  <2>7. ASSUME NEW k \in 0..(d + c - 1)
        PROVE  /\ (Entry(Nth(call.start, call.first + k)) \in Frames)'
               /\ WordOf(call, k)' = IF call'.op = "put_value" THEN call'.val ELSE call'.buf[k + 1]
    <3>1. PICK u \in Virt, w \in Words :
            /\ u = Nth(call.start, call.first + k) /\ w = (call.first + k) % TableEntries
            /\ Entry(u) \in Frames
            /\ mem'[Entry(u)][w] = IF call.op = "put_value" THEN call.val ELSE B[k + 1]
      BY <1>3, CopyPageServed
    <3> HIDE DEF B
    <3>2. Nth(call.start, call.first + k)' = u /\ ((call.first + k) % TableEntries)' = w
      BY <2>6, <3>1
    <3>3. Entry(u)' = Entry(u)
      BY <2>5
    <3>4. Entry(Nth(call.start, call.first + k))' = Entry(u)
      BY <3>2, <3>3, Zenon
    <3>5. WordOf(call, k)' = mem'[Entry(u)][w]
      BY <3>2, <3>4, Zenon DEF WordOf
    <3> QED
      BY <2>6, <3>1, <3>4, <3>5
  <2>8. CASE l > 0
    <3>1. /\ call'.pc = call.pc /\ call'.va = get_next_page(call.va) /\ call'.off = 0
          /\ call'.left = l
      <4> HIDE DEF B, l
      <4>1. call' = Onward(B)
        BY <1>3, <2>8
      <4> QED
        BY <4>1 DEF Onward, l
    <3>2. c = TableEntries - call.off /\ call.size - l = d + c
      <4> HIDE DEF c
      <4> QED
        BY <2>1, <2>4, <2>8 DEF Done
    <3>3. Done' = d + c
      BY <2>6, <3>1, <3>2 DEF Done
    <3>4. Done' \in Nat
      <4> HIDE DEF c, d
      <4> QED
        BY <2>1, <2>2, <3>2, <3>3, SMTT(30)
    <3>5. call'.op = "get_value" => Len(call'.buf) = Done'
      BY <1>1, <1>3, <2>2, <2>6, <3>3, BufferFacts
    <3>6. Served(call, Done)'
      <4>1. \A k \in 0..(Done' - 1) :
               /\ (Entry(Nth(call.start, call.first + k)) \in Frames)'
               /\ WordOf(call, k)' = IF call'.op = "put_value" THEN call'.val ELSE call'.buf[k + 1]
        <5>1. Done' - 1 = d + c - 1
          <6>1. d \in Nat /\ c \in Int /\ Done' = d + c
            BY <2>1, <2>2, <3>2, <3>3
          <6> HIDE DEF c, d
          <6> QED
            BY <6>1
        <5> QED
          BY <2>7, <5>1
      <4> QED
        BY <4>1, Zenon DEF Served
    <3>7. AtPage(q + 1)'
      <4>1. call'.first + Done' = (q + 1) * TableEntries + call'.off
        <5> DEFINE y == q * TableEntries
        <5>1. call.first + d = y + call.off /\ y \in Nat /\ (q + 1) * TableEntries = y + TableEntries
          BY <2>1, <2>3 DEF AtPage
        <5>2. call.first + (d + c) = y + TableEntries
          <6> DEFINE f == call.first
                     o == call.off
          <6>1. /\ f \in Nat /\ o \in Nat /\ d \in Nat /\ TableEntries \in Nat
                /\ c = TableEntries - o
            BY <2>1, <2>2, <3>2
          <6> HIDE DEF c, d, y, f, o
          <6>2. f + d = y + o /\ y \in Nat
            BY <5>1 DEF f, o
          <6>3. f + (d + c) = y + TableEntries
            BY <6>1, <6>2
          <6> QED
            BY <6>3 DEF f
        <5> HIDE DEF c, d, y
        <5> QED
          BY <2>1, <2>6, <3>1, <3>3, <5>1, <5>2
      <4>2. call'.va = (call'.start + (q + 1)) % Total
        <5>1. call.va = (call.start + q) % Total
          BY <2>3 DEF AtPage
        <5> QED
          BY <2>1, <2>6, <3>1, <5>1, NextNth
      <4> QED
        BY <4>1, <4>2 DEF AtPage
    <3>8. q + 1 \in Nat
      OBVIOUS
    <3>9. (\E p \in Nat : AtPage(p))'
      BY <3>7, <3>8
    <3>10. Copying'
      BY <3>4, <3>5, <3>6, <3>9, Zenon DEF Copying
    <3> QED
      BY <1>1, <3>1, <3>10 DEF RequestInv, Checking, AccessesWholeRequest
  <2>9. CASE ~(l > 0)
    <3>1. call'.pc = "ret"
      <4> HIDE DEF B, l
      <4>1. call' = Answer(B)
        BY <1>3, <2>9
      <4> QED
        BY <4>1 DEF Answer
    <3>2. call'.size = d + c
      <4> HIDE DEF c
      <4> QED
        BY <2>1, <2>4, <2>6, <2>9 DEF Done
    <3>3. AccessesWholeRequest'
      <4>1. \A k \in 0..(call'.size - 1) :
              WordOf(call, k)' = IF call'.op = "put_value" THEN call'.val ELSE call'.buf[k + 1]
        <5>1. call'.size - 1 = d + c - 1
          <6>1. d \in Nat /\ c \in Int /\ call'.size = d + c
            BY <2>1, <2>2, <2>4, <3>2
          <6> HIDE DEF c, d
          <6> QED
            BY <6>1
        <5> QED
          BY <2>7, <5>1
      <4> QED
        BY <4>1, Zenon DEF AccessesWholeRequest
    <3> QED
      BY <3>1, <3>3 DEF RequestInv, Copying, Checking
  <2> QED
    BY <2>8, <2>9
<1> QED
  BY <1>2, <1>3, CopyPageCall

\* put_value and get_value begin with the first page, and nothing is done.
LEMMA AccessRequest ==
  ASSUME NEW op, NEW v \in Virt, NEW off \in Words, NEW size \in Nat, NEW val,
         Access(op, v, off, size, val)
  PROVE  RequestInv'
<1> SUFFICES ASSUME up PROVE RequestInv'
  <2>1. ~up => call' = Refuse
    BY DEF Access
  <2> QED
    BY <2>1 DEF Refuse, RequestInv, Copying, Checking, AccessesWholeRequest
<1>1. /\ call'.pc \in {"one", "check"} /\ call'.start = v /\ call'.first = off
      /\ call'.size = size /\ call'.va = v /\ call'.off = off /\ call'.left = size
      /\ call'.buf = <<>>
  BY DEF Access
<1>2. /\ off \in Nat /\ TableEntries \in Nat /\ v \in Nat /\ Total \in Nat
      /\ v \in 0..(Total - 1)
  BY Constants DEF Words, Virt, Total
<1>3. Done' = 0
  BY <1>1 DEF Done
<1>4. AtPage(0)'
  <2>1. off + 0 = 0 * TableEntries + off /\ v = (v + 0) % Total
    BY <1>2
  <2> QED
    BY <1>1, <1>3, <2>1 DEF AtPage
<1>5. (\E q \in Nat : AtPage(q))'
  BY <1>4
<1>6. Served(call, Done)'
  BY <1>3 DEF Served
<1>7. Copying'
  BY <1>1, <1>3, <1>5, <1>6, Zenon, EmptySeq DEF Copying
<1> QED
  BY <1>1, <1>7 DEF RequestInv, Checking, AccessesWholeRequest

\* When all pages are known to be mapped, copying begins with the first one.
LEMMA CheckPageRequest ==
  ASSUME IInv, RequestInv, CheckPage PROVE RequestInv'
<1> DEFINE R(y, o, k) == [pc |-> "copy", op |-> call.op, start |-> call.start,
                          first |-> call.first, size |-> call.size, val |-> call.val,
                          va |-> y, off |-> o, left |-> k, buf |-> call.buf]
<1>1. call.pc = "check" /\ TypeOK /\ mem' = mem /\ call.buf = <<>>
  BY DEF CheckPage, IInv, RequestInv, Checking
<1>2. /\ call.start \in Virt /\ call.first \in Words /\ call.size \in Nat
      /\ call.op \in {"put_value", "get_value"}
  BY <1>1, AccessFacts
<1>3. \/ call' = Refuse
      \/ call' = Advanced
      \/ call' = [call EXCEPT !.pc = "copy", !.va = call.start, !.off = call.first,
                              !.left = call.size]
  BY Zenon DEF CheckPage
<1>4. CASE call' = Refuse
  BY <1>4 DEF Refuse, RequestInv, Copying, Checking, AccessesWholeRequest
<1>5. CASE call' = Advanced
  <2>1. call'.pc = "check" /\ call'.buf = <<>>
    BY <1>1, <1>5, AdvancedFacts
  <2> QED
    BY <2>1 DEF RequestInv, Copying, Checking, AccessesWholeRequest
<1>6. CASE call' = [call EXCEPT !.pc = "copy", !.va = call.start, !.off = call.first,
                                !.left = call.size]
  <2>1. call' = R(call.start, call.first, call.size)
    <3>1. call = [pc |-> call.pc, op |-> call.op, start |-> call.start, first |-> call.first,
                  size |-> call.size, val |-> call.val, va |-> call.va, off |-> call.off,
                  left |-> call.left, buf |-> call.buf]
      BY <1>1, AccessFacts
    <3>2. DOMAIN call = {"pc", "op", "start", "first", "size", "val", "va", "off", "left", "buf"}
      BY <3>1
    <3> QED
      BY <1>6, <3>1, <3>2
  <2>2. /\ call'.pc = "copy" /\ call'.start = call.start /\ call'.first = call.first
        /\ call'.size = call.size /\ call'.va = call.start /\ call'.off = call.first
        /\ call'.left = call.size /\ call'.buf = <<>>
    BY <1>1, <2>1
  <2>3. /\ call.first \in Nat /\ TableEntries \in Nat /\ call.start \in Nat
        /\ Total \in Nat /\ call.start \in 0..(Total - 1)
    BY <1>2, Constants DEF Words, Virt, Total
  <2>4. Done' = 0
    BY <1>2, <2>2 DEF Done
  <2>5. AtPage(0)'
    <3>1. /\ call.first + 0 = 0 * TableEntries + call.first
          /\ call.start = (call.start + 0) % Total
      BY <2>3
    <3> QED
      BY <2>2, <2>4, <3>1 DEF AtPage
  <2>6. (\E q \in Nat : AtPage(q))'
    BY <2>5
  <2>7. Served(call, Done)'
    BY <2>4 DEF Served
  <2>8. Copying'
    BY <2>2, <2>4, <2>6, <2>7, Zenon, EmptySeq DEF Copying
  <2> QED
    BY <2>2, <2>8 DEF RequestInv, Checking, AccessesWholeRequest
<1> QED
  BY <1>3, <1>4, <1>5, <1>6

\* Other calls have no words of a request.
LEMMA OtherRequest ==
  ASSUME call'.pc \notin {"one", "copy", "check"},
         call'.pc = "ret" => call'.op \notin {"put_value", "get_value"}
  PROVE  RequestInv'
BY DEF RequestInv, Copying, Checking, AccessesWholeRequest

\* Where neither memory nor the call changes, the invariant of requests stays.
LEMMA SameRequest ==
  ASSUME RequestInv, mem' = mem, call' = call PROVE RequestInv'
<1>1. \A u : Entry(u)' = Entry(u)
  BY DEF Entry
<1>2. AccessesWholeRequest'
  BY DEF RequestInv, AccessesWholeRequest, WordOf, Entry
<1>3. Copying'
  BY DEF RequestInv, Copying, Served, WordOf, Done, AtPage, Entry
<1> QED
  BY <1>2, <1>3 DEF RequestInv, Checking

\* Every step keeps the invariant of requests.
LEMMA NextRequest ==
  ASSUME IInv, RequestInv, [Next]_vars PROVE RequestInv'
<1>1. CASE UNCHANGED vars
  BY <1>1, SameRequest DEF vars
<1>2. ASSUME NEW n, TMalloc(n) PROVE RequestInv'
  <2>1. call' = Refuse \/ (call'.pc = "map")
    BY <1>2, Zenon DEF TMalloc
  <2> QED
    BY <2>1, OtherRequest DEF Refuse
<1>3. ASSUME NEW v, NEW n, TFree(v, n) PROVE RequestInv'
  <2>1. call' = Refuse \/ call' = Wild \/ call'.pc = "unmap"
    BY <1>3 DEF TFree
  <2> QED
    BY <2>1, OtherRequest DEF Refuse, Wild
<1>4. CASE Accesses
  <2>1. PICK v \in Virt, off \in Words, size \in 0..(MaxPages * TableEntries) :
          GetValue(v, off, size) \/ \E val \in Values : PutValue(v, off, size, val)
    BY <1>4, Zenon DEF Accesses
  <2>2. size \in Nat
    BY <2>1, Constants
  <2> QED
    BY <2>1, <2>2, AccessRequest DEF GetValue, PutValue
<1>5. CASE MapPage
  <2>1. /\ call \in MapCall /\ call.op = "t_malloc" /\ call.pc = "map"
    <3>1. TypeOK /\ Mapping /\ PageTree
      <4>1. up
        BY <1>5 DEF IInv, Mapping, MapPage
      <4> QED
        BY <4>1, TreeFromOwned DEF IInv
    <3> QED
      BY <1>5, <3>1, MapPageFrames DEF MapCall
  <2>2. call'.op = "t_malloc" /\ call'.pc \in {"map", "ret"}
    <3>1. \/ call'.pc = "ret" /\ call'.op = "t_malloc"
          \/ \E y, i, x : call' = [call EXCEPT !.va = y, !.i = i, !.frame = x]
      BY <1>5 DEF MapPage
    <3>2. ASSUME NEW y, NEW i, NEW x
          PROVE  /\ [call EXCEPT !.va = y, !.i = i, !.frame = x].pc = "map"
                 /\ [call EXCEPT !.va = y, !.i = i, !.frame = x].op = "t_malloc"
      BY <2>1 DEF MapCall
    <3>3. ASSUME NEW y, NEW i, NEW x, call' = [call EXCEPT !.va = y, !.i = i, !.frame = x]
          PROVE  call'.op = "t_malloc" /\ call'.pc = "map"
      <4> DEFINE e == [call EXCEPT !.va = y, !.i = i, !.frame = x]
      <4>1. e.pc = "map" /\ e.op = "t_malloc"
        BY <3>2
      <4>2. call' = e
        BY <3>3
      <4> HIDE DEF e
      <4> QED
        BY <4>1, <4>2
    <3> QED
      BY <3>1, <3>3
  <2> QED
    BY <2>2, OtherRequest
<1>6. CASE UnmapPage
  <2>1. call \in UnmapCall
    BY <1>6 DEF IInv, TypeOK, UnmapPage, Idle, Crash, Wild, Refuse, MapCall, UnmapCall, AccessCall, Ended
  <2>2. \/ call'.pc = "ret" /\ call'.op = "t_free"
        \/ call' = [call EXCEPT !.i = @ + 1]
        \/ call' = Wild
    BY <1>6 DEF UnmapPage
  <2>3. [call EXCEPT !.i = @ + 1].pc = "unmap"
    BY <2>1 DEF UnmapCall
  <2>4. CASE call' = [call EXCEPT !.i = @ + 1]
    <3>1. call'.pc = "unmap"
      BY <2>3, <2>4, Zenon
    <3> QED
      BY <3>1, OtherRequest
  <2>5. CASE (call'.pc = "ret" /\ call'.op = "t_free") \/ call' = Wild
    BY <2>5, OtherRequest DEF Wild
  <2> QED
    BY <2>2, <2>4, <2>5
<1>7. CASE MapPageCrash \/ Return
  <2>1. call' \in {Crash, Idle}
    BY <1>7 DEF MapPageCrash, Return
  <2> QED
    BY <2>1, OtherRequest DEF Crash, Idle
<1>8. CASE CheckPage
  BY <1>8, CheckPageRequest
<1>9. CASE CopyPage
  BY <1>9, CopyPageRequest
<1>10. CASE Stopped
  BY <1>1, <1>10 DEF Stopped
<1> QED
  BY <1>1, <1>2, <1>3, <1>4, <1>5, <1>6, <1>7, <1>8, <1>9, <1>10 DEF Next, Proceed

\* put_value leaves its value in every word of its request, and get_value returns the words of
\* its request in their order, over any number of pages.
THEOREM RequestsAreWhole == ~FreesScattered => (Spec => []AccessesWholeRequest)
<1> SUFFICES ASSUME ~FreesScattered PROVE Spec => []AccessesWholeRequest
  OBVIOUS
<1>1. Init => RequestInv
  BY DEF Init, Idle, RequestInv, Copying, Checking, AccessesWholeRequest
<1>2. IInv /\ RequestInv /\ [Next]_vars => RequestInv'
  BY NextRequest
<1>3. RequestInv => AccessesWholeRequest
  BY DEF RequestInv
<1> QED
  BY <1>1, <1>2, <1>3, Invariance, PTL DEF Spec

=============================================================================

--------------------------- MODULE VirtualMemory ---------------------------
(***************************************************************************)
(* The virtual memory manager of src/Level -3/my_vm.c: frames of simulated *)
(* physical memory, the page directory and page tables kept in them, the   *)
(* two bitmaps, the TLB, and the calls t_malloc, t_free, put_value and     *)
(* get_value.  A call takes the mutex first, so calls of different threads *)
(* never overlap; the loops inside a call take one step per page.          *)
(*                                                                         *)
(* The unit of offsets and sizes is the word, of the width of a page table *)
(* entry: a frame holds a page table, or TableEntries words of data.       *)
(***************************************************************************)
EXTENDS Integers, FiniteSets, Tlb

CONSTANTS
  NumPages,          \* frames of physical memory (num_pages)
  DirEntries,        \* page_dir_entries
  TableEntries,      \* page_table_entries, PGSIZE / sizeof(pte_t)
  ByteBits,          \* bits of a byte of a bitmap: 8
  Values,            \* what clients write
  Null,              \* a word that is zero
  MaxPages,          \* bound on the pages of a request
  FreesScattered     \* clients free areas whose frames do not follow one another

Frames == 0..(NumPages - 1)
Words  == 0..(TableEntries - 1)
Virt   == 0..(DirEntries * TableEntries - 1)
Word   == Frames \cup Values \cup {Null}     \* a frame number stands for its address

ASSUME VirtualMemoryAssumption ==
  /\ {NumPages, DirEntries, TableEntries, ByteBits, MaxPages} \subseteq Nat \ {0}
  /\ DirEntries <= TableEntries
  /\ Null \notin Frames \cup Values
  /\ Frames \cap Values = {}
  /\ FreesScattered \in BOOLEAN

VARIABLES
  up,            \* memory_start is set
  phy_bitmap, virt_bitmap,   \* the numbers whose bit is set
  mem,           \* physical memory, word by word; frame 0 holds the page directory
  tlb,
  lock,          \* the mutex is held
  call           \* the call that is under way

vars == <<up, phy_bitmap, virt_bitmap, mem, tlb, lock, call>>

\* In state "crash" the process has read through a null pointer.  In "wild" it follows a
\* word that is no frame.  In "lost" the call has returned and not unlocked the mutex.
Idle   == [pc |-> "idle"]
Crash  == [pc |-> "crash"]
Wild   == [pc |-> "wild"]
Refuse == [pc |-> "ret", op |-> "refused"]

Zeroed == [w \in Words |-> Null]

-----------------------------------------------------------------------------
\* Page tables.

DirIndex(v)   == v \div TableEntries
TableIndex(v) == v % TableEntries

\* Mutant: the table index is left out.
FormVirtualAddressDir(d, t) == d * TableEntries

\* A table index beyond the table loses its upper bits.
form_virtual_address(d, t) == d * TableEntries + (t % TableEntries)

\* The word at a table index that may lie beyond the table's frame, and whether there is one.
InMemory(f, k) == f \in Frames /\ f + (k \div TableEntries) \in Frames
WordAt(f, k)   == mem[f + (k \div TableEntries)][k % TableEntries]

\* What the walk of directory and table yields for page v: Null if it is not mapped.
Entry(v) == LET f == mem[0][DirIndex(v)]
            IN  IF f \in Frames THEN mem[f][TableIndex(v)] ELSE f

Mapped == {v \in Virt : Entry(v) # Null}

\* The last page is followed by NULL, which is the address of page 0.
get_next_page(v) == (v + 1) % (DirEntries * TableEntries)

-----------------------------------------------------------------------------
\* Bitmaps.

First(S) == CHOOSE n \in S : \A m \in S : n <= m

Free(bitmap) == Frames \ bitmap

set_bit_at_index(bitmap, i) == bitmap \cup {i}

\* Mutant: the last bit of the byte is not cleared either.
UnsetBitShort(bitmap, i) == IF i < ByteBits - 1 THEN bitmap \ {i} ELSE bitmap

\* The mask is built by comparing positions in a byte with the index in the whole bitmap.
unset_bit_at_index(bitmap, i) == IF i < ByteBits THEN bitmap \ {i} ELSE bitmap

\* Mutant: a run of free pages may be one page short.
StartsShort(n) ==
  {v \in Virt : \A k \in 0..(n - 2) : v + k \in Virt \ virt_bitmap}

\* The pages at which enough free pages follow one another; a request for one page needs two.
Starts(n) ==
  {v \in Virt : \A k \in 0..(n - 1) \cup {1} : v + k \in Virt \ virt_bitmap}

-----------------------------------------------------------------------------
\* t_malloc.

\* get_next_avail may find nothing; its NULL is taken for the address of page 0.
TMalloc(n) ==
  /\ ~lock
  /\ lock' = TRUE
  /\ up' = TRUE
  /\ phy_bitmap' = IF up THEN phy_bitmap ELSE {0}
  /\ call' = IF Cardinality(Free(phy_bitmap')) < n THEN Refuse
             ELSE LET found == Starts(n) # {}
                      start == IF found THEN First(Starts(n)) ELSE 0
                  IN  [pc |-> "map", op |-> "t_malloc", start |-> start, n |-> n, found |-> found,
                       va |-> start, i |-> 0, frame |-> First(Free(phy_bitmap'))]
  /\ UNCHANGED <<virt_bitmap, mem, tlb>>

\* The frame the directory names for v, or the one that becomes its page table.
NoTable(v)      == mem[0][DirIndex(v)] = Null
TableOf(v, bm)  == IF NoTable(v) THEN First(Free(bm)) ELSE mem[0][DirIndex(v)]

\* Mutant: the frame of a new page table is not marked.
WithTableUnmarked(v, bm) == bm

WithTable(v, bm) == IF NoTable(v) THEN set_bit_at_index(bm, TableOf(v, bm)) ELSE bm

\* Mutant: an entry that is set is overwritten.
PageMapOver(v, frame, bm) ==
  LET f == TableOf(v, bm)
      m == IF NoTable(v) THEN [mem EXCEPT ![0][DirIndex(v)] = f, ![f] = Zeroed] ELSE mem
  IN  [m EXCEPT ![f][TableIndex(v)] = frame]

\* The memory after page_map: an entry that is set stays, and -1 is returned to nobody.
page_map(v, frame, bm) ==
  LET f == TableOf(v, bm)
      m == IF NoTable(v) THEN [mem EXCEPT ![0][DirIndex(v)] = f, ![f] = Zeroed] ELSE mem
  IN  [m EXCEPT ![f][TableIndex(v)] = IF @ = Null THEN frame ELSE @]

\* One round takes a frame for a page table, if there is none, and looks for the frame of the
\* next round, also when it is the last.  Where find_free_physical_page returns NULL, its
\* first element is read.
FramesTaken(v)  == IF NoTable(v) THEN 2 ELSE 1
RunsOut(v, bm) == Cardinality(Free(bm)) < FramesTaken(v)

MapPage ==
  LET v   == call.va
      bm  == set_bit_at_index(phy_bitmap, call.frame)
      bm2 == WithTable(v, bm)
  IN  /\ call.pc = "map"
      /\ ~RunsOut(v, bm)
      /\ phy_bitmap' = bm2
      /\ virt_bitmap' = set_bit_at_index(virt_bitmap, v)
      /\ mem' = page_map(v, call.frame, bm)
      /\ call' = IF call.i = call.n - 1
                 THEN [pc |-> "ret", op |-> "t_malloc", start |-> call.start, n |-> call.n,
                       found |-> call.found]
                 ELSE [call EXCEPT !.va = get_next_page(v), !.i = @ + 1, !.frame = First(Free(bm2))]
      /\ UNCHANGED <<up, tlb, lock>>

MapPageCrash ==
  /\ call.pc = "map"
  /\ RunsOut(call.va, set_bit_at_index(phy_bitmap, call.frame))
  /\ call' = Crash
  /\ UNCHANGED <<up, phy_bitmap, virt_bitmap, mem, tlb, lock>>

-----------------------------------------------------------------------------
\* t_free.

\* Frames that follow one another, in one page table: what t_free takes for granted.
Regular(v, n) ==
  /\ TableIndex(v) + n <= TableEntries
  /\ \A i \in 0..(n - 1) : {v, v + i} \subseteq Mapped => Entry(v + i) = Entry(v) + i

\* Mutant: the loop ends one page early.
HolesBeforeLast(f, first, last) == {k \in first..(last - 1) : WordAt(f, k) = Null}

Holes(f, first, last) == {k \in first..last : WordAt(f, k) = Null}

\* All pages are tested before the first one is freed.
TFree(v, n) ==
  LET f    == mem[0][DirIndex(v)]
      last == TableIndex(v) + n - 1
  IN  /\ ~lock
      /\ FreesScattered \/ Regular(v, n)
      /\ lock' = TRUE
      /\ call' = IF ~up \/ f = Null THEN Refuse
                 ELSE IF ~InMemory(f, last) THEN Wild
                 ELSE IF Holes(f, TableIndex(v), last) # {} THEN Refuse
                 ELSE [pc |-> "unmap", op |-> "t_free", va |-> v, n |-> n, i |-> 0,
                       frame |-> WordAt(f, TableIndex(v))]
      /\ UNCHANGED <<up, phy_bitmap, virt_bitmap, mem, tlb>>

\* Mutant: the frame is left as it is.
ReleasedDirty(f, k) == [mem EXCEPT ![f + (k \div TableEntries)][k % TableEntries] = Null]

\* The memory after the frame at table index k is zeroed and its entry is cleared.
Released(f, k) ==
  [mem EXCEPT ![WordAt(f, k)] = Zeroed, ![f + (k \div TableEntries)][k % TableEntries] = Null]

\* The frame that is zeroed is read from the table; the bit that is cleared is counted from
\* the area's first frame.
UnmapPage ==
  LET f == mem[0][DirIndex(call.va)]
      k == TableIndex(call.va) + call.i
  IN  /\ call.pc = "unmap"
      /\ IF {WordAt(f, k), call.frame} \subseteq Frames
         THEN /\ tlb' = delete_from_tlb(tlb, form_virtual_address(DirIndex(call.va), k))
              /\ mem' = Released(f, k)
              /\ phy_bitmap' = unset_bit_at_index(phy_bitmap, call.frame + call.i)
              /\ virt_bitmap' = unset_bit_at_index(virt_bitmap, call.va + call.i)
              /\ call' = IF call.i = call.n - 1
                         THEN [pc |-> "ret", op |-> "t_free", va |-> call.va, n |-> call.n]
                         ELSE [call EXCEPT !.i = @ + 1]
         ELSE call' = Wild /\ UNCHANGED <<tlb, mem, phy_bitmap, virt_bitmap>>
      /\ UNCHANGED <<up, lock>>

-----------------------------------------------------------------------------
\* put_value and get_value.

\* translate(v): the states of the TLB it may leave and the frame it returns, Null if none.
translate(v) ==
  IF v \in Cached(tlb)
  THEN {[tlb |-> arrange(tlb, v), pa |-> tlb.nodes[Position(tlb, v)].pa]}
  ELSE IF Entry(v) = Null THEN {[tlb |-> tlb, pa |-> Null]}
  ELSE {[tlb |-> t, pa |-> Entry(v)] : t \in add_TLB(tlb, v, Entry(v))}

\* A request that ends inside its page goes straight to copying; any other translates all
\* its pages first.
Access(op, v, off, size, val) ==
  /\ ~lock
  /\ lock' = TRUE
  /\ call' = IF ~up THEN Refuse
             ELSE [pc |-> IF off + size < TableEntries THEN "one" ELSE "check",
                   op |-> op, start |-> v, first |-> off, size |-> size, val |-> val,
                   va |-> v, off |-> off, left |-> size, buf |-> <<>>]
  /\ UNCHANGED <<up, phy_bitmap, virt_bitmap, mem, tlb>>

PutValue(v, off, size, val) == Access("put_value", v, off, size, val)
GetValue(v, off, size)      == Access("get_value", v, off, size, Null)

\* Mutant: the offset of the first page is used in every page.
AdvancedKeepsOffset ==
  [call EXCEPT !.va = get_next_page(@), !.left = @ - (TableEntries - call.off)]

Advanced == [call EXCEPT !.va = get_next_page(@), !.off = 0, !.left = @ - (TableEntries - call.off)]

CheckPage ==
  /\ call.pc = "check"
  /\ \E r \in translate(call.va) :
       /\ tlb' = r.tlb
       /\ call' = IF r.pa = Null THEN Refuse
                  ELSE IF Advanced.left > 0 THEN Advanced
                  ELSE [call EXCEPT !.pc = "copy", !.va = call.start, !.off = call.first,
                                     !.left = call.size]
  /\ UNCHANGED <<up, phy_bitmap, virt_bitmap, mem, lock>>

\* The words of this page that the request covers.
Covered == {w \in Words : call.off <= w /\ w < call.off + call.left}

\* Mutant: the words before the offset are written as well.
CopiedFromStart(content) ==
  [w \in Words |-> IF w < call.off + call.left THEN call.val ELSE content[w]]

Copied(content) == [w \in Words |-> IF w \in Covered THEN call.val ELSE content[w]]

CopyPage ==
  /\ call.pc \in {"one", "copy"}
  /\ \E r \in translate(call.va) :
       /\ tlb' = r.tlb
       /\ IF r.pa \in Frames
          THEN LET part == [j \in 1..Cardinality(Covered) |-> mem[r.pa][call.off + j - 1]]
                   buf  == IF call.op = "get_value" THEN call.buf \o part ELSE <<>>
               IN  /\ mem' = IF call.op = "put_value" THEN [mem EXCEPT ![r.pa] = Copied(@)] ELSE mem
                   /\ call' = IF Advanced.left > 0 THEN [Advanced EXCEPT !.buf = buf]
                              ELSE [pc |-> "ret", op |-> call.op, start |-> call.start,
                                    first |-> call.first, size |-> call.size, val |-> call.val,
                                    buf |-> buf]
          ELSE /\ call' = IF r.pa # Null THEN Wild
                          ELSE IF call.pc = "one" THEN [call EXCEPT !.pc = "lost"] ELSE Refuse
               /\ UNCHANGED mem
  /\ UNCHANGED <<up, phy_bitmap, virt_bitmap, lock>>

-----------------------------------------------------------------------------

\* Mutant: a call that is refused does not unlock.
ReturnLocked ==
  /\ call.pc = "ret"
  /\ lock' = (call.op = "refused")
  /\ call' = IF call.op = "refused" THEN [call EXCEPT !.pc = "lost"] ELSE Idle
  /\ UNCHANGED <<up, phy_bitmap, virt_bitmap, mem, tlb>>

Return ==
  /\ call.pc = "ret"
  /\ lock' = FALSE
  /\ call' = Idle
  /\ UNCHANGED <<up, phy_bitmap, virt_bitmap, mem, tlb>>

\* Every later call waits for the mutex, or there is no process any more.
Stopped == call.pc \in {"crash", "wild", "lost"} /\ UNCHANGED vars

Init ==
  /\ up = FALSE
  /\ phy_bitmap = {} /\ virt_bitmap = {}
  /\ mem = [f \in Frames |-> Zeroed]
  /\ tlb = EmptyTlb
  /\ lock = FALSE
  /\ call = Idle

Accesses == \E v \in Virt, off \in Words, size \in 0..(MaxPages * TableEntries) :
              /\ off + size <= MaxPages * TableEntries
              /\ GetValue(v, off, size) \/ \E val \in Values : PutValue(v, off, size, val)

Proceed == MapPage \/ MapPageCrash \/ UnmapPage \/ CheckPage \/ CopyPage \/ Return

Next == \/ \E n \in 1..MaxPages : TMalloc(n) \/ \E v \in Virt : TFree(v, n)
        \/ Accesses
        \/ Proceed
        \/ Stopped

Spec == Init /\ [][Next]_vars

\* A thread that holds the mutex goes on.
FairSpec == Spec /\ WF_vars(Proceed)

=============================================================================

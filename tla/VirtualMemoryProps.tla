------------------------- MODULE VirtualMemoryProps -------------------------
(***************************************************************************)
(* What the virtual memory manager should keep true.                       *)
(***************************************************************************)
EXTENDS VirtualMemory

\* The values of all variables are of the kind the code declares; in particular the TLB's
\* counter stays within TLB_ENTRIES (add_TLB and delete_from_tlb).
MapCall == [pc : {"map"}, op : {"t_malloc"}, start : Virt, n : 1..MaxPages, found : BOOLEAN,
            va : Virt, i : 0..(MaxPages - 1), frame : Frames]
UnmapCall == [pc : {"unmap"}, op : {"t_free"}, va : Virt, n : 1..MaxPages,
              i : 0..(MaxPages - 1), frame : Frames]
AccessCall == [pc : {"one", "check", "copy", "lost"}, op : {"put_value", "get_value"},
               start : Virt, first : Words, size : Nat, val : Values \cup {Null},
               va : Virt, off : Words, left : Nat, buf : Seq(Word)]
Ended == [pc : {"ret"}, op : {"t_malloc"}, start : Virt, n : 1..MaxPages, found : BOOLEAN]
           \cup [pc : {"ret"}, op : {"t_free"}, va : Virt, n : 1..MaxPages]
           \cup [pc : {"ret"}, op : {"put_value", "get_value"}, start : Virt, first : Words,
                 size : Nat, val : Values \cup {Null}, buf : Seq(Word)]

TypeOK ==
  /\ {up, lock} \subseteq BOOLEAN
  /\ phy_bitmap \subseteq Frames
  /\ virt_bitmap \subseteq Virt
  /\ mem \in [Frames -> [Words -> Word]]
  /\ tlb \in [nodes : Seq([va : Virt, pa : Word]), tail : Virt \cup {NoNode, Freed},
              length : 0..TLB_ENTRIES]
  /\ call \in {Idle, Crash, Wild, Refuse} \cup MapCall \cup UnmapCall \cup AccessCall \cup Ended

-----------------------------------------------------------------------------
\* Frames.

Directory  == 0..(DirEntries - 1)
Present    == {d \in Directory : mem[0][d] # Null}
OwnFrames  == {Entry(v) : v \in Mapped}
Tables     == {mem[0][d] : d \in Present}

\* No frame has two uses: the directory, each page table and each mapped page has one to
\* itself, and its bit is set, so that find_free_physical_page never gives it out again.
FramesOwned ==
  up => /\ OwnFrames \cup Tables \subseteq phy_bitmap \ {0}
        /\ 0 \in phy_bitmap
        /\ OwnFrames \cap Tables = {}
        /\ \A d, e \in Present : mem[0][d] = mem[0][e] => d = e
        /\ \A v, u \in Mapped : Entry(v) = Entry(u) => v = u

\* A frame whose bit is clear holds zeros (memset in t_free): t_malloc does not clear it.
FreeFramesZero == up => \A f \in Free(phy_bitmap) : mem[f] = Zeroed

Lost == phy_bitmap \ (OwnFrames \cup Tables \cup {0})

\* A frame is marked and owned by nobody only when its bit is one that unset_bit_at_index
\* cannot clear, or when t_malloc went on without a free page (my_vm.c:362).
LosesFramesOnlyThere ==
  [][\A f \in Lost' \ Lost : f >= ByteBits \/ (call.pc = "map" /\ ~call.found)]_vars

-----------------------------------------------------------------------------
\* Pages.

Area(v, n) == {v + i : i \in 0..(n - 1)}

\* The pages get_next_avail finds are not in use: page_map never meets an entry that is set,
\* and t_malloc returns an area all of whose pages are mapped.
MallocMapsArea ==
  /\ call.pc = "map" /\ call.found => call.va \notin Mapped
  /\ call.pc = "ret" /\ call.op = "t_malloc" /\ call.found => Area(call.start, call.n) \subseteq Mapped

\* The pages of a request: the loops of put_value and get_value go on from page to page, and
\* from the last page to page 0.
Nth(v, k) == (v * TableEntries + k) \div TableEntries % (DirEntries * TableEntries)
WordOf(c, k) == mem[Entry(Nth(c.start, c.first + k))][(c.first + k) % TableEntries]

\* put_value leaves its value in every word of the request, and get_value returns the words
\* of the request in their order, in one page or over several.
AccessesWholeRequest ==
  call.pc = "ret" /\ call.op \in {"put_value", "get_value"} =>
    \A k \in 0..(call.size - 1) :
      WordOf(call, k) = IF call.op = "put_value" THEN call.val ELSE call.buf[k + 1]

\* What the calls let their callers see: a memory of pages.
Store     == {<<v, w, mem[Entry(v)][w]>> : v \in Mapped, w \in Words}
PageStoreRefinement == INSTANCE PageStore WITH store <- Store
Refinement == PageStoreRefinement!Spec

\* The words a call in its present step may change.
InReach ==
  CASE call.pc = "map"   -> {call.va} \X Words
    [] call.pc = "unmap" -> {call.va + call.i} \X Words
    [] call.pc \in {"one", "copy"} /\ call.op = "put_value" -> {call.va} \X Covered
    [] OTHER -> {}

\* A call changes the words of its own pages and of its own range, and no others.
ChangesOnlyItsOwn ==
  [][\A c \in (Store \ Store') \cup (Store' \ Store) : <<c[1], c[2]>> \in InReach]_vars

-----------------------------------------------------------------------------
\* The TLB.

\* Every translation in the TLB is the one in the page tables: t_free removes it in time.  No
\* page is in the list twice, and length counts the nodes or more, though the tail pointer may
\* be wrong: so the list never outgrows TLB_ENTRIES (add_TLB, arrange, delete_from_tlb).
TlbAgrees ==
  /\ \A i \in DOMAIN tlb.nodes : Entry(tlb.nodes[i].va) = tlb.nodes[i].pa
  /\ \A i, j \in DOMAIN tlb.nodes : tlb.nodes[i].va = tlb.nodes[j].va => i = j
  /\ Len(tlb.nodes) <= tlb.length
  /\ tlb.nodes = <<>> => tlb.length < TLB_ENTRIES

-----------------------------------------------------------------------------
\* Outcomes.

\* No call follows a word of memory that is not the address of a frame.
NoWildPointer == call.pc # "wild"

\* The mutex is given back, unless t_malloc has met the end of physical memory (my_vm.c:380)
\* or a request within one page had an address that is not mapped (my_vm.c:469, 535).
MutexGivenBack ==
  lock ~> \/ ~lock
          \/ call.pc = "crash" /\ Cardinality(Free(phy_bitmap)) <= 2
          \/ /\ call.pc = "lost" /\ call.op \in {"put_value", "get_value"}
             /\ call.first + call.size < TableEntries
             /\ call.start \notin Mapped

=============================================================================

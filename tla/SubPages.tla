------------------------------ MODULE SubPages ------------------------------
(***************************************************************************)
(* The allocator of src/Level -3/my_vm_internal_fragmentation.c, which     *)
(* packs requests that are smaller than a page into pages that are partly  *)
(* in use.  Modelled is what this file adds to my_vm.c: the list of partly *)
(* used pages, each page's list of allotments, and the tests that t_free,  *)
(* put_value and get_value make on them.  Frames, page tables and the TLB  *)
(* are those of VirtualMemory.                                             *)
(*                                                                         *)
(* The unit is the byte.  An address is page * PGSIZE + offset, and the    *)
(* pages of the model have one page table.                                 *)
(***************************************************************************)
EXTENDS Integers, FiniteSets, SequencesExt

CONSTANTS
  PGSIZE, NumPages, TableEntries, ByteBits,
  MaxSize         \* bound on the bytes of a request

ASSUME SubPagesAssumption ==
  {PGSIZE, NumPages, TableEntries, ByteBits, MaxSize} \subseteq Nat \ {0}

Virt == 0..(NumPages - 1)

VARIABLES
  virt_bitmap,
  mapped,         \* the pages whose page table entry is set
  partial_pages,  \* the list of partly used pages: their base address and space taken
  alloted,        \* for each page, the list of its allotments; empty if there is no list
  areas,          \* the areas that clients hold: what t_malloc returned, with its size
  freeing,        \* the progress of t_free, which holds the mutex
  spilt           \* the bytes of the last area that lie behind the page it was given in

vars == <<virt_bitmap, mapped, partial_pages, alloted, areas, freeing, spilt>>

None == [left |-> 0]

PageOf(a)   == a \div PGSIZE
OffsetOf(a) == a % PGSIZE
Base(a)     == PageOf(a) * PGSIZE

CeilPages(size) == (size + PGSIZE - 1) \div PGSIZE

-----------------------------------------------------------------------------
\* The list of partly used pages.

Fits(node, size) == PGSIZE - node.taken >= size

\* One byte is left out between two allotments, and not counted as taken.
PartialAddress(node) == node.base + node.taken + 1

\* The first page of the list with enough space: its place in the list, or 0.
check_partial_list(size) ==
  SelectInSeq(partial_pages, LAMBDA node : Fits(node, size))

\* Mutant: the arguments are swapped.
AddPartialSwapped(list, base, size) == Append(list, [base |-> size, taken |-> base])

add_partial_page(list, base, size) == Append(list, [base |-> base, taken |-> size])

\* The offset is extracted with the wrong position: some bits of the page number.
WrongOffset(a) == (a \div TableEntries) % PGSIZE

PlaceOf(list, base) == SelectInSeq(list, LAMBDA node : node.base = base)

update_partial_list(list, a, size) ==
  LET i == PlaceOf(list, Base(a))
  IN  IF i = 0 THEN list
      ELSE IF WrongOffset(a) + size >= PGSIZE THEN RemoveAt(list, i)
      ELSE [list EXCEPT ![i].taken = @ + size]

\* Mutant: only the head of the list is looked at.
DeletePartialHead(list, base) ==
  IF list # <<>> /\ list[1].base = base THEN Tail(list) ELSE list

\* The loop goes on behind the node it takes out, and no page is in the list twice.
delete_partial_node(list, base) ==
  LET i == PlaceOf(list, base)
  IN  IF i = 0 THEN list ELSE RemoveAt(list, i)

-----------------------------------------------------------------------------
\* The allotments of a page.

Allotment(first, last) == [first |-> first, last |-> last, free |-> FALSE]

\* Mutant: the status is not set.
FreeAllotmentUnset == [first |-> 0, last |-> 0, free |-> FALSE]

FreeAllotment == [first |-> 0, last |-> 0, free |-> TRUE]

Within(offset, size, e) == offset >= e.first /\ offset + size - 1 <= e.last

add_alloc_entry(lists, a, size) ==
  [lists EXCEPT ![PageOf(a)] = Append(@, Allotment(OffsetOf(a), OffsetOf(a) + size - 1))]

\* A page without a list is taken for one that belongs to one area.
is_part_page_valid(page, offset, size) ==
  \/ alloted[page] = <<>>
  \/ \E i \in DOMAIN alloted[page] : Within(offset, size, alloted[page][i])

\* Mutant: the allotments of the page are not counted.
AfterFreePageForgets(page, offset, size) == <<>>

\* The page's list after free_part_page, empty if the whole page becomes free.
AfterFree(page, offset, size) ==
  LET list == [i \in DOMAIN alloted[page] |->
                 IF Within(offset, size, alloted[page][i]) THEN FreeAllotment ELSE alloted[page][i]]
  IN  IF \A i \in DOMAIN list : list[i].free THEN <<>> ELSE list

-----------------------------------------------------------------------------
\* Requests.  A request is met page by page; in the k-th page it starts at offset 0, except
\* in the first, and has the rest of its size, not cut at the end of the page.

OffsetIn(a, k)       == IF k = 0 THEN OffsetOf(a) ELSE 0
RestIn(a, size, k)   == IF k = 0 THEN size ELSE size - (k * PGSIZE - OffsetOf(a))
PagesTouched(a, size) == {k \in 0..NumPages : RestIn(a, size, k) > 0}

\* All pages but the last of a request are tested with more than they hold; that succeeds
\* for pages without a list.
AllValid(a, size) ==
  \A k \in PagesTouched(a, size) :
    /\ PageOf(a) + k \in mapped
    /\ is_part_page_valid(PageOf(a) + k, OffsetIn(a, k), RestIn(a, size, k))

EndsInside(a, size) == PGSIZE - OffsetOf(a) > size

\* Mutant: a request is tested only against its first page.
PutFirstPageOnly(a, size) ==
  PageOf(a) \in mapped /\ is_part_page_valid(PageOf(a), OffsetOf(a), 1)

\* put_value writes.  Where the request ends inside a page that is not mapped, it reads
\* through a null pointer instead.
PutWrites(a, size) ==
  IF EndsInside(a, size)
  THEN PageOf(a) \in mapped /\ is_part_page_valid(PageOf(a), OffsetOf(a), size)
  ELSE AllValid(a, size)

\* get_value copies.  Each page is tested with the offset and the size of the whole request.
GetReads(a, size) ==
  \A k \in PagesTouched(a, size) :
    PageOf(a) + k \in mapped /\ is_part_page_valid(PageOf(a) + k, OffsetOf(a), size)

-----------------------------------------------------------------------------

Init ==
  /\ virt_bitmap = {} /\ mapped = {}
  /\ partial_pages = <<>>
  /\ alloted = [p \in Virt |-> <<>>]
  /\ areas = {}
  /\ freeing = None
  /\ spilt = {}

\* The bytes of a new area that are not in the page of its node.
Behind(a, size, node) == {byte \in a..(a + size - 1) : byte >= node.base + PGSIZE}

\* A call can be made: t_free has ended, and no area reaches behind its page.  What the code
\* does once one does is not modelled.
Ready == freeing = None /\ spilt = {}

\* A request that goes into a partly used page.  The bookkeeping drops what an address has
\* above the last page.
MallocPartial(size) ==
  LET i     == check_partial_list(size)
      node  == partial_pages[i]
      a     == PartialAddress(node)
      place == a % (NumPages * PGSIZE)
  IN  /\ Ready
      /\ size < PGSIZE /\ i # 0
      /\ alloted' = add_alloc_entry(alloted, place, size)
      /\ partial_pages' = update_partial_list(partial_pages, place, size)
      /\ areas' = areas \cup {[va |-> a, size |-> size]}
      /\ spilt' = Behind(a, size, node)
      /\ UNCHANGED <<virt_bitmap, mapped, freeing>>

\* get_next_avail, as in VirtualMemory.  Requests that find no pages are left out.
Starts(n) == {p \in Virt : \A k \in 0..(n - 1) \cup {1} : p + k \in Virt \ virt_bitmap}

\* A request for pages of its own; the rest of its last page becomes available to others.
MallocPages(size) ==
  LET n    == CeilPages(size)
      p    == CHOOSE q \in Starts(n) : \A r \in Starts(n) : q <= r
      last == (p + n - 1) * PGSIZE
      rest == size - (n - 1) * PGSIZE
  IN  /\ Ready
      /\ size < PGSIZE => check_partial_list(size) = 0
      /\ Starts(n) # {}
      /\ virt_bitmap' = virt_bitmap \cup p..(p + n - 1)
      /\ mapped' = mapped \cup p..(p + n - 1)
      /\ IF rest < PGSIZE
         THEN /\ alloted' = add_alloc_entry(alloted, last, rest)
              /\ partial_pages' = add_partial_page(partial_pages, last, rest)
         ELSE UNCHANGED <<alloted, partial_pages>>
      /\ areas' = areas \cup {[va |-> p * PGSIZE, size |-> size]}
      /\ UNCHANGED <<freeing, spilt>>

\* t_free of an area.  One that is refused stays with its client.
TFree(area) ==
  /\ Ready
  /\ AllValid(area.va, area.size)
  /\ freeing' = [page |-> PageOf(area.va), offset |-> OffsetOf(area.va), left |-> area.size]
  /\ areas' = areas \ {area}
  /\ UNCHANGED <<virt_bitmap, mapped, partial_pages, alloted, spilt>>

\* Bits of the bitmaps are cleared as in VirtualMemory.
unset_bit_at_index(bitmap, i) == IF i < ByteBits THEN bitmap \ {i} ELSE bitmap

\* One round of the loop of t_free.  After a page that keeps allotments the next round works
\* on that page again.
FreeRound ==
  LET p    == freeing.page
      list == AfterFree(p, freeing.offset, freeing.left)
      left == freeing.left - (PGSIZE - freeing.offset)
      page == IF list = <<>> THEN p + 1 ELSE p
  IN  /\ freeing # None
      /\ alloted' = [alloted EXCEPT ![p] = list]
      /\ IF list = <<>>
         THEN /\ partial_pages' = IF alloted[p] = <<>> THEN partial_pages
                                  ELSE delete_partial_node(partial_pages, p * PGSIZE)
              /\ mapped' = mapped \ {p}
              /\ virt_bitmap' = unset_bit_at_index(virt_bitmap, p)
         ELSE UNCHANGED <<partial_pages, mapped, virt_bitmap>>
      /\ freeing' = IF left > 0 THEN [page |-> page, offset |-> 0, left |-> left] ELSE None
      /\ UNCHANGED <<areas, spilt>>

\* The model ends with an area that reaches behind its page.
Stopped == spilt # {} /\ UNCHANGED vars

Next == \/ \E size \in 1..MaxSize : MallocPartial(size) \/ MallocPages(size)
        \/ \E area \in areas : TFree(area)
        \/ FreeRound \/ Stopped

Spec == Init /\ [][Next]_vars

=============================================================================

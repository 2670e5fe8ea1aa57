--------------------------- MODULE SubPagesProps ---------------------------
(***************************************************************************)
(* What the allocator of small areas should keep true.                     *)
(***************************************************************************)
EXTENDS SubPages

Bytes(area) == area.va..(area.va + area.size - 1)

\* The bookkeeping is of the kind the code declares; no page counts more bytes than it has
\* (space_taken in update_partial_list).
TypeOK ==
  /\ virt_bitmap \subseteq Virt
  /\ mapped \subseteq Virt
  /\ partial_pages \in Seq([base : {p * PGSIZE : p \in Virt}, taken : 1..PGSIZE])
  /\ alloted \in [Virt -> Seq([first : 0..(PGSIZE - 1), last : 0..PGSIZE, free : BOOLEAN])]
  /\ areas \subseteq [va : 0..(NumPages * PGSIZE), size : 1..MaxSize]
  /\ freeing \in {None} \cup [page : Virt, offset : 0..(PGSIZE - 1), left : 1..MaxSize]
  /\ spilt \subseteq 0..(NumPages * PGSIZE)

\* No two clients share a byte, and every byte a client holds lies in a mapped page, whatever
\* was freed in the same page or next to it (t_malloc, t_free); but for one byte: the last one
\* of a request for all that is left of a page is the first one of the next page
\* (my_vm_internal_fragmentation.c:891).
AreasApart ==
  /\ \A a, b \in areas : a # b => Bytes(a) \cap Bytes(b) \subseteq spilt
  /\ \A a \in areas : \A byte \in Bytes(a) \ spilt : PageOf(byte) \in mapped
  /\ \A byte \in spilt : OffsetOf(byte) = 0 /\ spilt = {byte}

\* What the report promises of a page that several areas share: no two of them overlap.
NoOverlap == \A a, b \in areas : a # b => Bytes(a) \cap Bytes(b) = {}

\* The list of partly used pages has a page once and only while the page is mapped and has
\* allotments, and the bytes it offers belong to nobody (check_partial_list).
PartialPagesLive ==
  \A i \in DOMAIN partial_pages :
    LET node == partial_pages[i]
    IN  /\ PageOf(node.base) \in mapped
        /\ alloted[PageOf(node.base)] # <<>>
        /\ \A j \in DOMAIN partial_pages : partial_pages[j].base = node.base => j = i
        /\ \A a \in areas : Bytes(a) \cap PartialAddress(node)..(node.base + PGSIZE - 1) = {}

\* On a page without allotments the code knows no borders; on the others a request is met
\* only inside one area, save for byte 0 once an allotment has been freed (my_vm_internal_
\* fragmentation.c:1048).
Requests == {r \in [va : 0..(NumPages * PGSIZE - 1), size : 1..MaxSize] :
               r.va + r.size <= NumPages * PGSIZE}

OnSharedPage(r) == PageOf(r.va) = PageOf(r.va + r.size - 1) /\ alloted[PageOf(r.va)] # <<>>

ForgottenByte(r) == OffsetOf(r.va) = 0 /\ r.size = 1

Inside(r) == \E a \in areas : Bytes(r) \subseteq Bytes(a)

Owned(byte) == \E a \in areas : byte \in Bytes(a)

\* As long as no area reaches behind its page: a request inside an area is met by put_value,
\* and by get_value too unless it runs into a page with allotments; a request that is met has
\* no byte that belongs to no area, save for byte 0 of a page with allotments; and one on such
\* a page that is not inside one area is met by neither, save for that byte 0
\* (is_part_page_valid, put_value, get_value).
RequestsWithinAreas ==
  Ready =>
    \A r \in Requests :
      LET met == PutWrites(r.va, r.size) \/ GetReads(r.va, r.size)
      IN  /\ Inside(r) => /\ PutWrites(r.va, r.size)
                          /\ \/ GetReads(r.va, r.size)
                             \/ ~OnSharedPage(r) /\ alloted[PageOf(r.va + r.size - 1)] # <<>>
          /\ met => \A byte \in Bytes(r) :
                      Owned(byte) \/ (OffsetOf(byte) = 0 /\ alloted[PageOf(byte)] # <<>>)
          /\ met /\ OnSharedPage(r) => Inside(r) \/ ForgottenByte(r)

\* What the report says of a request for bytes that are in none of a page's ranges.
StrangersRefused ==
  Ready => \A r \in Requests : PutWrites(r.va, r.size) => \A byte \in Bytes(r) : Owned(byte)

\* What the comment on get_value says: a client can read what it holds.
AreasReadable == Ready => \A r \in Requests : Inside(r) => GetReads(r.va, r.size)

\* When all areas have been freed, no page stays mapped and no bookkeeping is left behind
\* (free_part_page and t_free).
NothingKept ==
  areas = {} /\ freeing = None =>
    mapped = {} /\ partial_pages = <<>> /\ \A p \in Virt : alloted[p] = <<>>

=============================================================================

--------------------------- MODULE SubPagesProof ---------------------------
(***************************************************************************)
(* The inductive invariant of the allocator of small areas, for every page *)
(* size, every number of pages and every sequence of requests up to one    *)
(* that reaches behind its page, and what such a request leaves.           *)
(***************************************************************************)
EXTENDS SubPagesProps, TLAPS, SequenceTheorems, WellFoundedInduction

Offsets == 0..(PGSIZE - 1)

Byte(p, o) == p * PGSIZE + o

\* The areas that are in use: those of clients, and what t_free has still to free.
Rest == [va |-> Byte(freeing.page, freeing.offset), size |-> freeing.left]

Held == IF freeing = None THEN areas ELSE areas \cup {Rest}

Covers(a, p, o) == a.va <= Byte(p, o) /\ Byte(p, o) <= a.va + a.size - 1

Touches(a, p) == \E o \in Offsets : Covers(a, p, o)

Fills(a, p) == \A o \in Offsets : Covers(a, p, o)

\* The allotment e is what the area a has of page p.
Exact(a, p, e) ==
  /\ ~e.free
  /\ \A o \in Offsets : Covers(a, p, o) <=> e.first <= o /\ o <= e.last

Listed(a, p) == \E i \in DOMAIN alloted[p] : Exact(a, p, alloted[p][i])

-----------------------------------------------------------------------------
\* The inductive invariant, as long as no area reaches behind its page.

\* TypeOK, with allotments that end in their page and areas that start in one.
Typed ==
  /\ virt_bitmap \subseteq Virt
  /\ mapped \subseteq Virt
  /\ partial_pages \in Seq([base : {p * PGSIZE : p \in Virt}, taken : 1..PGSIZE])
  /\ alloted \in [Virt -> Seq([first : 0..(PGSIZE - 1), last : 0..(PGSIZE - 1), free : BOOLEAN])]
  /\ areas \subseteq [va : 0..(NumPages * PGSIZE - 1), size : 1..MaxSize]
  /\ freeing \in {None} \cup [page : Virt, offset : 0..(PGSIZE - 1), left : 1..MaxSize]

\* An area that goes on in a second page starts at the first byte of a page.
Placed ==
  \A a \in Held :
    /\ a.va \in Nat /\ a.size \in Nat \ {0} /\ a.va + a.size <= NumPages * PGSIZE
    /\ OffsetOf(a.va) = 0 \/ OffsetOf(a.va) + a.size <= PGSIZE

\* No byte of a page belongs to two areas.
Apart(p) ==
  \A a, b \in Held, o \in Offsets : Covers(a, p, o) /\ Covers(b, p, o) => a = b

\* An area has a page to itself, which has then no allotments, or it has an allotment.
Known(p) ==
  \A a \in Held : Touches(a, p) => \/ alloted[p] = <<>> /\ Fills(a, p)
                                   \/ Listed(a, p)

\* An allotment that is not free is that of an area, and never the whole page.
Entries(p) ==
  \A i \in DOMAIN alloted[p] :
    LET e == alloted[p][i]
    IN  IF e.free THEN e.first = 0 /\ e.last = 0
        ELSE /\ e.first <= e.last
             /\ e.first > 0 \/ e.last < PGSIZE - 1
             /\ \E a \in Held : Exact(a, p, e)

\* A page is mapped as long as it is in use.
InUse(p) ==
  /\ \A a \in Held : Touches(a, p) => p \in mapped
  /\ alloted[p] # <<>> => p \in mapped /\ \E i \in DOMAIN alloted[p] : ~alloted[p][i].free
  /\ p \in mapped /\ alloted[p] = <<>> => \E a \in Held : Fills(a, p)

PageInv(p) == Apart(p) /\ Known(p) /\ Entries(p) /\ InUse(p)

\* The bytes behind the ones taken belong to no area, and one byte is never offered.
Offers(node, p) ==
  /\ node.base = p * PGSIZE /\ p \in mapped /\ alloted[p] # <<>>
  /\ node.taken \in 1..(PGSIZE - 1)
  /\ \A a \in Held, o \in Offsets : Covers(a, p, o) => o <= node.taken

Nodes ==
  /\ \A i \in DOMAIN partial_pages : \E p \in Virt : Offers(partial_pages[i], p)
  /\ \A i, j \in DOMAIN partial_pages : partial_pages[i].base = partial_pages[j].base => i = j

IInv ==
  /\ Typed /\ Placed /\ Nodes
  /\ \A p \in Virt : PageInv(p)
  /\ mapped \subseteq virt_bitmap
  /\ freeing # None => Rest \notin areas

\* What the area that reaches behind its page leaves of it.
AfterSpill == TypeOK /\ freeing = None /\ areas # {} /\ AreasApart /\ PartialPagesLive

Full == (spilt = {} => IInv) /\ (spilt # {} => AfterSpill)

-----------------------------------------------------------------------------
\* Addresses.

\* What the assumptions on the constants give.
LEMMA Constants ==
  /\ PGSIZE \in Nat \ {0} /\ NumPages \in Nat \ {0} /\ MaxSize \in Nat \ {0}
  /\ ByteBits \in Nat \ {0}
  /\ Virt \subseteq Nat /\ 0 \in Virt /\ Offsets \subseteq Nat /\ 0 \in Offsets
  /\ PGSIZE - 1 \in Offsets
<1>1. /\ PGSIZE \in Nat \ {0} /\ NumPages \in Nat \ {0} /\ MaxSize \in Nat \ {0}
      /\ ByteBits \in Nat \ {0}
  BY SubPagesAssumption
<1> QED
  BY <1>1 DEF Virt, Offsets

\* The pages follow one another.
LEMMA PagesInOrder ==
  ASSUME NEW p \in Nat, NEW q \in Nat, p < q
  PROVE  p * PGSIZE + PGSIZE <= q * PGSIZE /\ p * PGSIZE \in Nat /\ q * PGSIZE \in Nat
<1>1. PGSIZE \in Nat
  BY Constants
<1>2. (p + 1) * PGSIZE <= q * PGSIZE
  BY <1>1
<1>3. (p + 1) * PGSIZE = p * PGSIZE + PGSIZE
  BY <1>1
<1> QED
  BY <1>1, <1>2, <1>3

\* Page and offset make one address, and another page another.
LEMMA ByteFacts ==
  ASSUME NEW p \in Nat, NEW o \in Offsets
  PROVE  /\ Byte(p, o) = p * PGSIZE + o /\ p * PGSIZE \in Nat /\ Byte(p, o) \in Nat
         /\ PageOf(Byte(p, o)) = p /\ OffsetOf(Byte(p, o)) = o
         /\ Base(Byte(p, o)) = p * PGSIZE
<1> DEFINE x == p * PGSIZE
           n == x + o
           a == n \div PGSIZE
           b == n % PGSIZE
<1>1. PGSIZE \in Nat /\ PGSIZE > 0 /\ o \in Nat /\ o < PGSIZE
  BY Constants DEF Offsets
<1>2. x \in Nat /\ n \in Nat
  BY <1>1
<1>3. a \in Int /\ b \in 0..(PGSIZE - 1) /\ n = PGSIZE * a + b
  <2> HIDE DEF n
  <2> QED
    BY <1>1, <1>2
<1>4. PGSIZE * a = a * PGSIZE
  <2> HIDE DEF a
  <2> QED
    BY <1>1, <1>3
<1>5. a >= 0
  <2> HIDE DEF a, b, n
  <2> SUFFICES ASSUME a <= -1 PROVE FALSE
    BY <1>3
  <2>1. PGSIZE * a <= PGSIZE * (-1)
    BY <1>1, <1>3
  <2> QED
    BY <1>1, <1>2, <1>3, <2>1
<1>6. n = a * PGSIZE + b /\ a \in Nat
  BY <1>3, <1>4, <1>5
<1> HIDE DEF a, b
<1>7. a = p
  <2>1. CASE a < p
    <3>1. a * PGSIZE + PGSIZE <= x /\ a * PGSIZE \in Nat
      BY <1>6, <2>1, PagesInOrder
    <3> HIDE DEF x
    <3> QED
      BY <1>1, <1>2, <1>3, <1>6, <3>1
  <2>2. CASE p < a
    <3>1. x + PGSIZE <= a * PGSIZE /\ a * PGSIZE \in Nat
      BY <1>6, <2>2, PagesInOrder
    <3> HIDE DEF x
    <3> QED
      BY <1>1, <1>2, <1>3, <1>6, <3>1
  <2> QED
    BY <1>6, <2>1, <2>2
<1>8. b = o
  <2> HIDE DEF x
  <2>1. a * PGSIZE = x
    BY <1>7 DEF x
  <2> QED
    BY <1>1, <1>2, <1>3, <1>6, <2>1
<1> QED
  BY <1>2, <1>7, <1>8 DEF a, b, Byte, PageOf, OffsetOf, Base

\* An address has a page and an offset.
LEMMA PartsOfByte ==
  ASSUME NEW n \in Nat
  PROVE  /\ PageOf(n) \in Nat /\ OffsetOf(n) \in Offsets
         /\ n = Byte(PageOf(n), OffsetOf(n))
         /\ n < NumPages * PGSIZE => PageOf(n) \in Virt
<1> DEFINE a == n \div PGSIZE
           b == n % PGSIZE
<1>1. PGSIZE \in Nat /\ PGSIZE > 0 /\ NumPages \in Nat
  BY Constants
<1>2. a \in Int /\ b \in 0..(PGSIZE - 1) /\ n = PGSIZE * a + b
  BY <1>1
<1> HIDE DEF a, b
<1>3. a >= 0
  <2> SUFFICES ASSUME a <= -1 PROVE FALSE
    BY <1>2
  <2>1. PGSIZE * a <= PGSIZE * (-1)
    BY <1>1, <1>2
  <2> QED
    BY <1>1, <1>2, <2>1
<1>4. n = a * PGSIZE + b /\ a * PGSIZE \in Nat /\ a \in Nat
  <2>1. PGSIZE * a = a * PGSIZE /\ PGSIZE * a \in Nat
    BY <1>1, <1>2, <1>3
  <2> QED
    BY <1>2, <1>3, <2>1
<1>5. n < NumPages * PGSIZE => a < NumPages
  <2> SUFFICES ASSUME NumPages <= a PROVE NumPages * PGSIZE <= n
    BY <1>1, <1>4
  <2>1. NumPages * PGSIZE <= a * PGSIZE /\ NumPages * PGSIZE \in Nat
    <3>1. CASE NumPages = a
      BY <1>4, <3>1
    <3>2. CASE NumPages < a
      BY <1>1, <1>4, <3>2, PagesInOrder
    <3> QED
      BY <1>1, <1>4, <3>1, <3>2
  <2> QED
    BY <1>1, <1>2, <1>4, <2>1
<1> QED
  BY <1>1, <1>2, <1>4, <1>5 DEF a, b, PageOf, OffsetOf, Byte, Offsets, Virt

\* The last byte of a page is within memory.
LEMMA PageInside ==
  ASSUME NEW p \in Virt
  PROVE  p \in Nat /\ p * PGSIZE \in Nat /\ p * PGSIZE + PGSIZE <= NumPages * PGSIZE
<1>1. p \in Nat /\ p < NumPages /\ NumPages \in Nat
  BY Constants DEF Virt
<1> QED
  BY <1>1, PagesInOrder

-----------------------------------------------------------------------------
\* Lists.

\* A set of numbers has a least one.
LEMMA LeastOf ==
  ASSUME NEW S, S \subseteq Nat, S # {}
  PROVE  \E i \in S : \A j \in S : i <= j
<1> DEFINE R == {ss \in Nat \X Nat : ss[1] < ss[2]}
<1>1. R = OpToRel(<, Nat)
  BY Zenon DEF OpToRel
<1>2. IsWellFoundedOn(R, Nat)
  BY <1>1, NatLessThanWellFounded, Zenon
<1> HIDE DEF R
<1>3. PICK i \in S : \A j \in S : ~(<<j, i>> \in R)
  BY <1>2, WFMin, Zenon
<1>4. \A j \in S : i <= j
  <2> SUFFICES ASSUME NEW j \in S, j < i
               PROVE  FALSE
    OBVIOUS
  <2> DEFINE ji == <<j, i>>
  <2>1. ji \in Nat \X Nat /\ ji[1] = j /\ ji[2] = i
    OBVIOUS
  <2> HIDE DEF ji
  <2>2. ji \in R
    BY <2>1 DEF R
  <2> QED
    BY <1>3, <2>2 DEF ji
<1> QED
  BY <1>4

LEMMA MinFacts ==
  ASSUME NEW S, S \subseteq Nat, S # {}
  PROVE  Min(S) \in S
BY LeastOf DEF Min

\* The search of update_partial_list and delete_partial_node.
LEMMA PlaceFacts ==
  ASSUME NEW S, NEW list \in Seq(S), NEW base
  PROVE  \/ /\ PlaceOf(list, base) = 0
            /\ \A i \in DOMAIN list : list[i].base # base
         \/ /\ PlaceOf(list, base) # 0 /\ PlaceOf(list, base) \in DOMAIN list
            /\ list[PlaceOf(list, base)].base = base
<1> DEFINE I == {i \in 1..Len(list) : list[i].base = base}
<1>1. PlaceOf(list, base) = IF I # {} THEN Min(I) ELSE 0
  BY DEF PlaceOf, SelectInSeq
<1>2. I \subseteq Nat /\ DOMAIN list = 1..Len(list)
  OBVIOUS
<1>3. CASE I = {}
  BY <1>1, <1>2, <1>3
<1>4. CASE I # {}
  <2>1. Min(I) \in I
    BY <1>2, <1>4, MinFacts
  <2> QED
    BY <1>1, <1>2, <1>4, <2>1
<1> QED
  BY <1>3, <1>4

\* check_partial_list finds a page with enough space.
LEMMA CheckFacts ==
  ASSUME NEW S, partial_pages \in Seq(S), NEW size, check_partial_list(size) # 0
  PROVE  /\ check_partial_list(size) \in DOMAIN partial_pages
         /\ Fits(partial_pages[check_partial_list(size)], size)
<1> DEFINE I == {i \in 1..Len(partial_pages) : Fits(partial_pages[i], size)}
<1>1. check_partial_list(size) = IF I # {} THEN Min(I) ELSE 0
  BY DEF check_partial_list, SelectInSeq
<1>2. I \subseteq Nat /\ DOMAIN partial_pages = 1..Len(partial_pages)
  OBVIOUS
<1>3. Min(I) \in I
  <2> HIDE DEF I
  <2> QED
    BY <1>1, <1>2, MinFacts
<1> QED
  BY <1>1, <1>2, <1>3

\* The first elements of a list.
LEMMA SubSeqFacts ==
  ASSUME NEW S, NEW s \in Seq(S), NEW n \in 0..Len(s)
  PROVE  /\ SubSeq(s, 1, n) \in Seq(S)
         /\ Len(SubSeq(s, 1, n)) = n
         /\ \A i \in 1..n : SubSeq(s, 1, n)[i] = s[i]
<1>1. \A i \in 1..n : s[i] \in S
  OBVIOUS
<1> QED
  BY <1>1, SubSeqProperties

\* A list without its k-th element.
LEMMA RemoveAtFacts ==
  ASSUME NEW S, NEW s \in Seq(S), NEW k \in 1..Len(s)
  PROVE  /\ RemoveAt(s, k) \in Seq(S)
         /\ Len(RemoveAt(s, k)) = Len(s) - 1
         /\ \A i \in 1..(Len(s) - 1) : RemoveAt(s, k)[i] = IF i < k THEN s[i] ELSE s[i + 1]
<1> DEFINE l == SubSeq(s, 1, k - 1)
           r == SubSeq(s, k + 1, Len(s))
<1>1. Len(s) \in Nat /\ k \in Int /\ k >= 1 /\ k <= Len(s)
  OBVIOUS
<1>2. l \in Seq(S) /\ Len(l) = k - 1 /\ \A i \in 1..(k - 1) : l[i] = s[i]
  BY <1>1, SubSeqFacts
<1>3. \A i \in (k + 1)..Len(s) : s[i] \in S
  BY <1>1
<1>4. /\ r \in Seq(S)
      /\ Len(r) = IF k + 1 <= Len(s) THEN Len(s) - (k + 1) + 1 ELSE 0
      /\ \A i \in 1..(Len(s) - (k + 1) + 1) : r[i] = s[(k + 1) + i - 1]
  BY <1>1, <1>3, SubSeqProperties
<1>5. Len(r) = Len(s) - k /\ \A i \in 1..(Len(s) - k) : r[i] = s[k + i]
  BY <1>1, <1>4
<1> HIDE DEF l, r
<1>6. /\ l \o r \in Seq(S)
      /\ Len(l \o r) = Len(l) + Len(r)
      /\ \A i \in 1..(Len(l) + Len(r)) : (l \o r)[i] = IF i <= Len(l) THEN l[i] ELSE r[i - Len(l)]
  BY <1>2, <1>4, ConcatProperties
<1>7. ASSUME NEW i \in 1..(Len(s) - 1)
      PROVE  (l \o r)[i] = IF i < k THEN s[i] ELSE s[i + 1]
  <2>1. CASE i < k
    BY <1>1, <1>2, <1>5, <1>6, <2>1
  <2>2. CASE ~(i < k)
    <3>1. (l \o r)[i] = r[i - (k - 1)]
      BY <1>1, <1>2, <1>5, <1>6, <2>2
    <3>2. i - (k - 1) \in 1..(Len(s) - k) /\ k + (i - (k - 1)) = i + 1
      BY <1>1, <2>2
    <3> QED
      BY <1>5, <2>2, <3>1, <3>2
  <2> QED
    BY <2>1, <2>2
<1>8. Len(l \o r) = Len(s) - 1
  BY <1>1, <1>2, <1>5, <1>6
<1> QED
  BY <1>6, <1>7, <1>8 DEF RemoveAt, l, r

-----------------------------------------------------------------------------
\* The bytes of areas.

\* The bytes of one page between two offsets.
LEMMA WithinPage ==
  ASSUME NEW p \in Nat, NEW q \in Nat, NEW o \in Offsets, NEW lo \in Offsets, NEW hi \in Offsets
  PROVE  Byte(p, lo) <= Byte(q, o) /\ Byte(q, o) <= Byte(p, hi) <=> q = p /\ lo <= o /\ o <= hi
<1> DEFINE x == p * PGSIZE
           y == q * PGSIZE
<1>1. PGSIZE \in Nat /\ {o, lo, hi} \subseteq 0..(PGSIZE - 1)
  BY Constants DEF Offsets
<1>2. x \in Nat /\ y \in Nat
  BY <1>1
<1>3. /\ p < q => x + PGSIZE <= y
      /\ q < p => y + PGSIZE <= x
      /\ p = q => x = y
  BY PagesInOrder
<1> HIDE DEF x, y
<1>4. x + lo <= y + o /\ y + o <= x + hi <=> q = p /\ lo <= o /\ o <= hi
  <2>1. CASE p = q
    BY <1>1, <1>2, <1>3, <2>1
  <2>2. CASE p < q
    BY <1>1, <1>2, <1>3, <2>2
  <2>3. CASE q < p
    BY <1>1, <1>2, <1>3, <2>3
  <2> QED
    BY <2>1, <2>2, <2>3
<1> QED
  BY <1>4 DEF x, y, Byte

\* An area inside a page covers its own offsets of that page.
LEMMA SmallArea ==
  ASSUME NEW p \in Virt, NEW lo \in Offsets, NEW size \in Nat \ {0}, lo + size <= PGSIZE,
         NEW a, a = [va |-> Byte(p, lo), size |-> size]
  PROVE  /\ a.va = Byte(p, lo) /\ a.size = size /\ a.va \in Nat
         /\ PageOf(a.va) = p /\ OffsetOf(a.va) = lo
         /\ a.va + a.size <= NumPages * PGSIZE
         /\ \A q \in Virt, o \in Offsets :
              Covers(a, q, o) <=> q = p /\ lo <= o /\ o <= lo + size - 1
<1> DEFINE x == p * PGSIZE
           hi == lo + size - 1
           n == NumPages * PGSIZE
<1>1. PGSIZE \in Nat /\ lo \in Nat /\ Virt \subseteq Nat /\ n \in Nat
  BY Constants DEF Offsets
<1>2. x \in Nat /\ x + PGSIZE <= n /\ p \in Nat
  BY PageInside
<1>3. a.va = Byte(p, lo) /\ a.size = size
  OBVIOUS
<1>4. /\ a.va = x + lo /\ a.va \in Nat /\ PageOf(a.va) = p /\ OffsetOf(a.va) = lo
  BY <1>1, <1>2, <1>3, ByteFacts
<1>5. hi \in Offsets
  BY <1>1 DEF Offsets
<1>6. a.va + a.size - 1 = Byte(p, hi)
  <2> HIDE DEF x
  <2>1. a.va + a.size - 1 = x + hi
    BY <1>1, <1>2, <1>3, <1>4
  <2> QED
    BY <2>1 DEF Byte, x
<1> HIDE DEF hi
<1>7. \A q \in Virt, o \in Offsets : Covers(a, q, o) <=> q = p /\ lo <= o /\ o <= hi
  <2> TAKE q \in Virt, o \in Offsets
  <2>1. Byte(p, lo) <= Byte(q, o) /\ Byte(q, o) <= Byte(p, hi) <=> q = p /\ lo <= o /\ o <= hi
    BY <1>1, <1>2, <1>5, WithinPage
  <2> QED
    BY <1>3, <1>6, <2>1 DEF Covers
<1> HIDE DEF n, x
<1>8. a.va + a.size <= n
  BY <1>1, <1>2, <1>3, <1>4
<1> QED
  BY <1>3, <1>4, <1>7, <1>8 DEF n, hi

\* Every byte of an area in use is a byte of a page.
LEMMA ByteOfArea ==
  ASSUME Placed, NEW a \in Held, NEW x \in Nat, a.va <= x, x <= a.va + a.size - 1
  PROVE  /\ PageOf(x) \in Virt /\ OffsetOf(x) \in Offsets /\ x = Byte(PageOf(x), OffsetOf(x))
         /\ Covers(a, PageOf(x), OffsetOf(x))
<1> DEFINE n == NumPages * PGSIZE
<1>1. a.va \in Nat /\ a.size \in Nat /\ a.va + a.size <= n
  BY DEF Placed
<1>2. n \in Nat
  BY Constants
<1> HIDE DEF n
<1>3. x < n
  BY <1>1, <1>2
<1>4. /\ PageOf(x) \in Virt /\ OffsetOf(x) \in Offsets /\ x = Byte(PageOf(x), OffsetOf(x))
  BY <1>3, PartsOfByte DEF n
<1> QED
  BY <1>4 DEF Covers

\* The first byte of an area in use.
LEMMA FirstByte ==
  ASSUME Placed, NEW a \in Held
  PROVE  /\ PageOf(a.va) \in Virt /\ OffsetOf(a.va) \in Offsets
         /\ a.va = Byte(PageOf(a.va), OffsetOf(a.va))
         /\ Covers(a, PageOf(a.va), OffsetOf(a.va)) /\ Touches(a, PageOf(a.va))
<1>1. a.va \in Nat /\ a.va <= a.va + a.size - 1
  BY DEF Placed
<1>2. /\ PageOf(a.va) \in Virt /\ OffsetOf(a.va) \in Offsets
      /\ a.va = Byte(PageOf(a.va), OffsetOf(a.va))
      /\ Covers(a, PageOf(a.va), OffsetOf(a.va))
  BY <1>1, ByteOfArea
<1> QED
  BY <1>2 DEF Touches

-----------------------------------------------------------------------------
\* Pages that a step leaves alone.

Allotments == [first : 0..(PGSIZE - 1), last : 0..(PGSIZE - 1), free : BOOLEAN]

\* The list of a page is a list of allotments.
LEMMA ListFacts ==
  ASSUME Typed, NEW p \in Virt
  PROVE  /\ alloted \in [Virt -> Seq(Allotments)] /\ alloted[p] \in Seq(Allotments)
         /\ \A i \in DOMAIN alloted[p] :
              /\ alloted[p][i].first \in Offsets /\ alloted[p][i].last \in Offsets
              /\ alloted[p][i].free \in BOOLEAN
<1>1. alloted \in [Virt -> Seq(Allotments)]
  BY DEF Typed, Allotments
<1>2. alloted[p] \in Seq(Allotments)
  BY <1>1
<1>3. ASSUME NEW i \in DOMAIN alloted[p] PROVE alloted[p][i] \in Allotments
  BY <1>2
<1> QED
  BY <1>1, <1>2, <1>3 DEF Allotments, Offsets

\* An area that has an allotment has a byte of the page.
LEMMA ExactTouches ==
  ASSUME NEW a, NEW p, NEW e, Exact(a, p, e), e.first \in Offsets, e.last \in Offsets, e.first <= e.last
  PROVE  Touches(a, p) /\ Covers(a, p, e.first) /\ Covers(a, p, e.last)
<1>1. e.first \in Nat /\ e.last \in Nat
  BY Constants
<1>2. Covers(a, p, e.first) /\ Covers(a, p, e.last)
  BY <1>1 DEF Exact
<1> QED
  BY <1>2 DEF Touches

Same(a, b, p) == \A o \in Offsets : Covers(a, p, o) <=> Covers(b, p, o)

\* Where the bytes of a page keep their owners, the page keeps its invariant.
LEMMA KeptPage ==
  ASSUME Typed, NEW p \in Virt, PageInv(p), alloted'[p] = alloted[p], p \in mapped' <=> p \in mapped,
         \A a \in Held' : Touches(a, p) => \E b \in Held : Same(a, b, p),
         \A b \in Held : Touches(b, p) => \E a \in Held' : Same(a, b, p),
         Apart(p)'
  PROVE  PageInv(p)'
<1>1. Known(p)'
  <2> SUFFICES ASSUME NEW a \in Held', Touches(a, p)
               PROVE  (alloted'[p] = <<>> /\ Fills(a, p)) \/ Listed(a, p)'
    BY DEF Known
  <2>1. PICK b \in Held : Same(a, b, p)
    OBVIOUS
  <2>2. Touches(b, p) /\ (Fills(b, p) => Fills(a, p))
    BY <2>1 DEF Touches, Same, Fills
  <2>3. \A e : Exact(b, p, e) => Exact(a, p, e)
    BY <2>1 DEF Exact, Same
  <2>4. (alloted[p] = <<>> /\ Fills(b, p)) \/ Listed(b, p)
    BY <2>2 DEF PageInv, Known
  <2> QED
    BY <2>2, <2>3, <2>4 DEF Listed
<1>2. Entries(p)'
  <2> SUFFICES ASSUME NEW i \in DOMAIN alloted[p], ~alloted[p][i].free
               PROVE  \E a \in Held' : Exact(a, p, alloted[p][i])
    BY DEF PageInv, Entries
  <2> DEFINE e == alloted[p][i]
  <2>1. PICK b \in Held : Exact(b, p, e) /\ e.first <= e.last
    BY DEF PageInv, Entries
  <2>2. Touches(b, p)
    BY <2>1, ListFacts, ExactTouches
  <2>3. PICK a \in Held' : Same(a, b, p)
    BY <2>2
  <2>4. Exact(a, p, e)
    BY <2>1, <2>3 DEF Exact, Same
  <2> QED
    BY <2>3, <2>4
<1>3. InUse(p)'
  <2>1. ASSUME NEW a \in Held', Touches(a, p) PROVE p \in mapped'
    <3>1. PICK b \in Held : Same(a, b, p)
      BY <2>1
    <3>2. Touches(b, p)
      BY <2>1, <3>1 DEF Touches, Same
    <3> QED
      BY <3>2 DEF PageInv, InUse
  <2>2. ASSUME p \in mapped', alloted'[p] = <<>> PROVE \E a \in Held' : Fills(a, p)
    <3>1. PICK b \in Held : Fills(b, p)
      BY <2>2 DEF PageInv, InUse
    <3>2. Touches(b, p)
      BY <3>1, Constants DEF Touches, Fills
    <3>3. PICK a \in Held' : Same(a, b, p)
      BY <3>2
    <3> QED
      BY <3>1, <3>3 DEF Fills, Same
  <2> QED
    BY <2>1, <2>2 DEF PageInv, InUse
<1> QED
  BY <1>1, <1>2, <1>3 DEF PageInv

\* A node of the list stays good while its page is in use and no byte behind is taken.
LEMMA KeptOffer ==
  ASSUME NEW node, NEW p, Offers(node, p), p \in mapped', alloted'[p] # <<>>,
         \A a \in Held', o \in Offsets : Covers(a, p, o) => \E b \in Held : Covers(b, p, o)
  PROVE  Offers(node, p)'
BY DEF Offers

-----------------------------------------------------------------------------
\* The list of partly used pages.

PartialNodes == [base : {p * PGSIZE : p \in Virt}, taken : 1..PGSIZE]

Distinct(list) == \A i, j \in DOMAIN list : list[i].base = list[j].base => i = j

\* A list without one of its nodes has the others, each once.
LEMMA RemovedNode ==
  ASSUME NEW S, NEW list \in Seq(S), Distinct(list), NEW k \in DOMAIN list,
         NEW l, l = RemoveAt(list, k)
  PROVE  /\ l \in Seq(S) /\ Distinct(l)
         /\ \A i \in DOMAIN l : \E j \in DOMAIN list : j # k /\ l[i] = list[j]
<1>1. /\ k \in 1..Len(list) /\ Len(list) \in Nat /\ DOMAIN list = 1..Len(list)
  OBVIOUS
<1>2. /\ l \in Seq(S) /\ Len(l) = Len(list) - 1
      /\ \A i \in 1..(Len(list) - 1) : l[i] = IF i < k THEN list[i] ELSE list[i + 1]
  BY <1>1, RemoveAtFacts
<1>3. DOMAIN l = 1..(Len(list) - 1)
  BY <1>2
<1> DEFINE f(i) == IF i < k THEN i ELSE i + 1
<1>4. \A i \in DOMAIN l : f(i) \in DOMAIN list /\ f(i) # k /\ l[i] = list[f(i)]
  BY <1>1, <1>2, <1>3
<1>5. \A i, j \in DOMAIN l : f(i) = f(j) => i = j
  BY <1>1, <1>3
<1> HIDE DEF f
<1>6. Distinct(l)
  BY <1>4, <1>5 DEF Distinct
<1> QED
  BY <1>2, <1>4, <1>6

\* A list with one node more at its end.
LEMMA AppendedNode ==
  ASSUME NEW S, NEW list \in Seq(S), NEW e \in S, NEW l, l = Append(list, e)
  PROVE  /\ l \in Seq(S) /\ DOMAIN l = DOMAIN list \cup {Len(list) + 1}
         /\ Len(list) + 1 \notin DOMAIN list /\ l[Len(list) + 1] = e
         /\ \A i \in DOMAIN list : l[i] = list[i]
<1> QED
  BY AppendProperties

\* A list with one node changed.
LEMMA ChangedNode ==
  ASSUME NEW S, NEW list \in Seq(S), NEW e \in S, NEW k \in DOMAIN list,
         NEW l, l = [list EXCEPT ![k] = e]
  PROVE  /\ l \in Seq(S) /\ DOMAIN l = DOMAIN list /\ l[k] = e
         /\ \A i \in DOMAIN list \ {k} : l[i] = list[i]
<1> QED
  BY ExceptSeq

\* What the type invariant says of the nodes and of t_free's progress.
LEMMA NodeType ==
  ASSUME Typed
  PROVE  /\ partial_pages \in Seq(PartialNodes)
         /\ freeing # None => /\ freeing.page \in Virt /\ freeing.offset \in Offsets
                              /\ freeing.left \in 1..MaxSize
                              /\ freeing = [page |-> freeing.page, offset |-> freeing.offset,
                                            left |-> freeing.left]
         /\ virt_bitmap \subseteq Virt /\ mapped \subseteq Virt
BY DEF Typed, PartialNodes, Offsets

\* The nodes of the next state, looked at one by one.
LEMMA NodesFrom ==
  ASSUME Distinct(partial_pages'),
         \A x : (\E k \in DOMAIN partial_pages' : x = partial_pages'[k])
                  => \E q \in Virt : Offers(x, q)'
  PROVE  Nodes'
<1>1. ASSUME NEW k \in DOMAIN partial_pages'
      PROVE  \E q \in Virt : Offers(partial_pages[k], q)'
  <2>1. PICK x : x = partial_pages'[k]
    OBVIOUS
  <2>2. PICK q \in Virt : Offers(x, q)'
    BY <2>1
  <2> QED
    BY <2>1, <2>2 DEF Offers
<1> QED
  BY <1>1 DEF Nodes, Distinct

\* A node is found by the page it names.
LEMMA FoundNode ==
  ASSUME Typed, Nodes, NEW i \in DOMAIN partial_pages, NEW p \in Virt,
         partial_pages[i].base = p * PGSIZE
  PROVE  PlaceOf(partial_pages, p * PGSIZE) = i /\ i # 0
<1>1. partial_pages \in Seq(PartialNodes)
  BY NodeType
<1>2. /\ PlaceOf(partial_pages, p * PGSIZE) \in DOMAIN partial_pages
      /\ partial_pages[PlaceOf(partial_pages, p * PGSIZE)].base = p * PGSIZE
  BY <1>1, PlaceFacts
<1> QED
  BY <1>1, <1>2 DEF Nodes

\* One page has one base address.
LEMMA BaseOfPage ==
  ASSUME NEW p \in Virt, NEW q \in Virt, p * PGSIZE = q * PGSIZE
  PROVE  p = q
<1>1. p \in Nat /\ q \in Nat /\ PGSIZE \in Nat /\ PGSIZE > 0
  BY Constants
<1> DEFINE x == p * PGSIZE
           y == q * PGSIZE
<1>2. x \in Nat /\ x = y
  BY <1>1
<1>3. p < q => x + PGSIZE <= y
  BY <1>1, PagesInOrder
<1>4. q < p => y + PGSIZE <= x
  BY <1>1, PagesInOrder
<1> HIDE DEF x, y
<1> QED
  BY <1>1, <1>2, <1>3, <1>4

-----------------------------------------------------------------------------
\* Requests that go into a page partly in use.

\* The area lies behind the bytes that are taken in the page of a node.
LEMMA MallocPartialPlace ==
  ASSUME IInv, NEW size \in 1..MaxSize, MallocPartial(size)
  PROVE  \E i \in DOMAIN partial_pages, p \in Virt, t \in 1..(PGSIZE - 1), a \in Nat :
           /\ Offers(partial_pages[i], p) /\ t = partial_pages[i].taken
           /\ PGSIZE - t >= size
           /\ a = Byte(p, t + 1) /\ a = PartialAddress(partial_pages[i])
           /\ areas' = areas \cup {[va |-> a, size |-> size]}
           /\ alloted' = add_alloc_entry(alloted, a % (NumPages * PGSIZE), size)
           /\ partial_pages' = update_partial_list(partial_pages, a % (NumPages * PGSIZE), size)
           /\ spilt' = Behind(a, size, partial_pages[i])
           /\ Ready /\ freeing' = None /\ UNCHANGED <<virt_bitmap, mapped>>
<1> DEFINE i == check_partial_list(size)
           node == partial_pages[i]
           a == PartialAddress(node)
           t == node.taken
<1>1. /\ i # 0 /\ Ready /\ freeing' = None /\ UNCHANGED <<virt_bitmap, mapped>>
      /\ alloted' = add_alloc_entry(alloted, a % (NumPages * PGSIZE), size)
      /\ partial_pages' = update_partial_list(partial_pages, a % (NumPages * PGSIZE), size)
      /\ areas' = areas \cup {[va |-> a, size |-> size]}
      /\ spilt' = Behind(a, size, node)
  BY DEF MallocPartial, Ready
<1>2. Typed /\ Nodes /\ partial_pages \in Seq(PartialNodes)
  BY NodeType DEF IInv
<1>3. i \in DOMAIN partial_pages /\ Fits(partial_pages[i], size)
  BY <1>1, <1>2, CheckFacts
<1> HIDE DEF i
<1>4. PICK p \in Virt : Offers(node, p)
  BY <1>2, <1>3 DEF Nodes
<1>5. t \in 1..(PGSIZE - 1) /\ node.base = p * PGSIZE /\ PGSIZE \in Nat /\ PGSIZE - t >= size
  BY <1>3, <1>4, Constants DEF Offers, Fits
<1>6. p \in Nat /\ p * PGSIZE \in Nat
  BY PageInside
<1> HIDE DEF node
<1>7. a = Byte(p, t + 1) /\ a \in Nat
  <2> DEFINE x == p * PGSIZE
  <2>1. node.base + t + 1 = x + (t + 1) /\ x + (t + 1) \in Nat
    <3> HIDE DEF t, x
    <3>1. node.base = x /\ x \in Nat
      BY <1>5, <1>6 DEF x
    <3> QED
      BY <1>5, <3>1
  <2> QED
    BY <2>1 DEF PartialAddress, Byte
<1> HIDE DEF a, t
<1> QED
  BY <1>1, <1>3, <1>4, <1>5, <1>7 DEF node, a, t

\* The area ends in its page; it gets an allotment, and the node goes or counts its bytes.
LEMMA MallocPartialFacts ==
  ASSUME IInv, NEW size \in 1..MaxSize, MallocPartial(size), spilt' = {}
  PROVE  \E i \in DOMAIN partial_pages, p \in Virt, lo \in Offsets, N \in areas' :
           /\ Offers(partial_pages[i], p) /\ lo = partial_pages[i].taken + 1
           /\ lo + size <= PGSIZE /\ lo > 0
           /\ N = [va |-> Byte(p, lo), size |-> size]
           /\ areas' = areas \cup {N}
           /\ alloted' = [alloted EXCEPT ![p] = Append(@, Allotment(lo, lo + size - 1))]
           /\ \/ partial_pages' = RemoveAt(partial_pages, i)
              \/ partial_pages' = [partial_pages EXCEPT ![i].taken = @ + size]
           /\ freeing = None /\ freeing' = None /\ UNCHANGED <<virt_bitmap, mapped>>
<1>1. PICK i \in DOMAIN partial_pages, p \in Virt, t \in 1..(PGSIZE - 1), a \in Nat :
           /\ Offers(partial_pages[i], p) /\ t = partial_pages[i].taken
           /\ PGSIZE - t >= size
           /\ a = Byte(p, t + 1) /\ a = PartialAddress(partial_pages[i])
           /\ areas' = areas \cup {[va |-> a, size |-> size]}
           /\ alloted' = add_alloc_entry(alloted, a % (NumPages * PGSIZE), size)
           /\ partial_pages' = update_partial_list(partial_pages, a % (NumPages * PGSIZE), size)
           /\ spilt' = Behind(a, size, partial_pages[i])
           /\ Ready /\ freeing' = None /\ UNCHANGED <<virt_bitmap, mapped>>
  BY MallocPartialPlace
<1> DEFINE lo == t + 1
           x == p * PGSIZE
           n == NumPages * PGSIZE
<1>2. Typed /\ Nodes /\ PGSIZE \in Nat /\ size \in Nat /\ size > 0 /\ n \in Nat
  BY Constants DEF IInv
<1>3. p \in Nat /\ x \in Nat /\ partial_pages[i].base = x /\ x + PGSIZE <= n
  BY <1>1, PageInside DEF Offers
<1>4. a = x + lo
  BY <1>1 DEF Byte
<1> HIDE DEF x, n
<1>5. lo \in Offsets /\ lo + size <= PGSIZE /\ lo > 0
  <2>1. a + size - 1 \in Nat /\ a + size - 1 \in a..(a + size - 1)
    BY <1>2
  <2>2. ~(a + size - 1 >= x + PGSIZE)
    BY <1>1, <1>3, <2>1 DEF Behind
  <2>3. size \in Nat /\ size > 0 /\ t \in Nat /\ t > 0 /\ PGSIZE \in Nat
    BY <1>1, <1>2
  <2> QED
    BY <1>3, <1>4, <2>2, <2>3 DEF Offsets
<1> HIDE DEF lo
<1>6. a % n = a
  <2>1. lo \in Nat /\ lo < PGSIZE
    BY <1>2, <1>5 DEF Offsets
  <2>2. a < n
    BY <1>2, <1>3, <1>4, <2>1
  <2> QED
    BY <1>2, <2>2
<1>7. a = Byte(p, lo)
  BY <1>1 DEF lo
<1>8. PageOf(a) = p /\ OffsetOf(a) = lo /\ Base(a) = p * PGSIZE
  BY <1>3, <1>5, <1>7, ByteFacts
<1>9. alloted' = [alloted EXCEPT ![p] = Append(@, Allotment(lo, lo + size - 1))]
  BY <1>1, <1>6, <1>8 DEF add_alloc_entry, n
<1>10. PlaceOf(partial_pages, Base(a)) = i /\ i # 0
  BY <1>2, <1>3, <1>8, FoundNode DEF x
<1>11. \/ partial_pages' = RemoveAt(partial_pages, i)
       \/ partial_pages' = [partial_pages EXCEPT ![i].taken = @ + size]
  <2>1. partial_pages' = update_partial_list(partial_pages, a, size)
    BY <1>1, <1>6 DEF n
  <2> QED
    BY <1>10, <2>1 DEF update_partial_list
<1>12. lo = partial_pages[i].taken + 1
  BY <1>1 DEF lo
<1> QED
  BY <1>1, <1>5, <1>7, <1>9, <1>11, <1>12 DEF Ready

\* A page whose list has got an allotment for a new area.
LEMMA ListedPage ==
  ASSUME Typed, NEW p \in Virt, PageInv(p), NEW N, NEW lo \in Offsets, NEW hi \in Offsets, lo <= hi,
         lo > 0 \/ hi < PGSIZE - 1,
         alloted[p] = <<>> => ~ \E b \in Held : Touches(b, p),
         alloted'[p] = Append(alloted[p], Allotment(lo, hi)), p \in mapped', Held' = Held \cup {N},
         \A o \in Offsets : Covers(N, p, o) <=> lo <= o /\ o <= hi,
         Apart(p)'
  PROVE  PageInv(p)' /\ alloted'[p] # <<>> /\ alloted'[p] \in Seq(Allotments)
<1> DEFINE A == Allotment(lo, hi)
           old == alloted[p]
           new == alloted'[p]
           n == Len(old) + 1
<1>1. old \in Seq(Allotments)
  BY ListFacts
<1>2. A \in Allotments /\ A.first = lo /\ A.last = hi /\ A.free = FALSE
  BY DEF Allotment, Allotments, Offsets
<1> HIDE DEF A
<1>3. /\ new \in Seq(Allotments) /\ DOMAIN new = DOMAIN old \cup {n} /\ n \notin DOMAIN old
      /\ new[n] = A /\ \A i \in DOMAIN old : new[i] = old[i]
  <2>1. new = Append(old, A)
    BY DEF A
  <2> HIDE DEF new, old
  <2> QED
    BY <1>1, <1>2, <2>1, AppendedNode
<1>4. new # <<>>
  BY <1>3
<1> HIDE DEF n
<1>5. Exact(N, p, A)
  BY <1>2 DEF Exact
<1>6. Known(p)'
  <2> SUFFICES ASSUME NEW a \in Held', Touches(a, p) PROVE Listed(a, p)'
    BY DEF Known
  <2>1. CASE a = N
    <3>1. n \in DOMAIN new /\ Exact(a, p, new[n])
      BY <1>3, <1>5, <2>1
    <3> QED
      BY <3>1 DEF Listed
  <2>2. CASE a \in Held
    <3>1. Listed(a, p)
      BY <2>2 DEF PageInv, Known
    <3> QED
      BY <1>3, <3>1 DEF Listed
  <2> QED
    BY <2>1, <2>2
<1>7. Entries(p)'
  <2> SUFFICES ASSUME NEW i \in DOMAIN new
               PROVE  LET e == new[i]
                      IN  IF e.free THEN e.first = 0 /\ e.last = 0
                          ELSE /\ e.first <= e.last
                               /\ e.first > 0 \/ e.last < PGSIZE - 1
                               /\ \E a \in Held' : Exact(a, p, e)
    BY DEF Entries
  <2>1. CASE i = n
    BY <1>2, <1>3, <1>5, <2>1
  <2>2. CASE i \in DOMAIN old
    BY <1>3, <2>2 DEF PageInv, Entries
  <2> QED
    BY <1>3, <2>1, <2>2
<1>8. InUse(p)'
  <2>1. n \in DOMAIN new /\ ~new[n].free
    BY <1>2, <1>3
  <2> QED
    BY <1>4, <2>1 DEF InUse
<1> QED
  BY <1>3, <1>4, <1>6, <1>7, <1>8 DEF PageInv

\* A request that goes into a page partly in use keeps the invariant.
LEMMA MallocPartialInv ==
  ASSUME IInv, NEW size \in 1..MaxSize, MallocPartial(size), spilt' = {} PROVE IInv'
<1>1. PICK i \in DOMAIN partial_pages, p \in Virt, lo \in Offsets, N \in areas' :
        /\ Offers(partial_pages[i], p) /\ lo = partial_pages[i].taken + 1
        /\ lo + size <= PGSIZE /\ lo > 0
        /\ N = [va |-> Byte(p, lo), size |-> size]
        /\ areas' = areas \cup {N}
        /\ alloted' = [alloted EXCEPT ![p] = Append(@, Allotment(lo, lo + size - 1))]
        /\ \/ partial_pages' = RemoveAt(partial_pages, i)
           \/ partial_pages' = [partial_pages EXCEPT ![i].taken = @ + size]
        /\ freeing = None /\ freeing' = None /\ UNCHANGED <<virt_bitmap, mapped>>
  BY MallocPartialFacts
<1> DEFINE t == partial_pages[i].taken
           hi == lo + size - 1
<1>2. /\ Typed /\ Placed /\ Nodes /\ mapped \subseteq virt_bitmap /\ \A q \in Virt : PageInv(q)
  BY DEF IInv
<1>3. /\ partial_pages \in Seq(PartialNodes) /\ alloted \in [Virt -> Seq(Allotments)]
      /\ PGSIZE \in Nat /\ size \in Nat \ {0} /\ lo \in Nat
  BY <1>2, NodeType, ListFacts, Constants
<1>4. /\ t \in 1..(PGSIZE - 1) /\ lo = t + 1 /\ p \in mapped /\ alloted[p] # <<>>
      /\ partial_pages[i].base = p * PGSIZE
      /\ \A a \in Held, o \in Offsets : Covers(a, p, o) => o <= t
  BY <1>1 DEF Offers
<1>5. Held = areas /\ Held' = Held \cup {N}
  BY <1>1 DEF Held
<1>6. /\ N.va = Byte(p, lo) /\ N.size = size /\ N.va \in Nat
      /\ OffsetOf(N.va) = lo
      /\ N.va + N.size <= NumPages * PGSIZE
      /\ \A q \in Virt, o \in Offsets : Covers(N, q, o) <=> q = p /\ lo <= o /\ o <= hi
  BY <1>1, <1>3, SmallArea
<1> HIDE DEF t
<1>7. hi \in Offsets /\ lo <= hi
  BY <1>1, <1>3 DEF Offsets
<1> HIDE DEF hi
<1>8. \A q \in Virt : Apart(q)'
  <2> SUFFICES ASSUME NEW q \in Virt, NEW a \in Held', NEW b \in Held', NEW o \in Offsets,
                      Covers(a, q, o), Covers(b, q, o)
               PROVE  a = b
    BY DEF Apart
  <2>1. ASSUME NEW c \in Held, Covers(c, q, o), Covers(N, q, o) PROVE FALSE
    <3>1. q = p /\ lo <= o
      BY <1>6, <2>1
    <3>2. o <= t /\ o \in Nat
      BY <1>4, <2>1, <3>1, Constants
    <3> QED
      BY <1>3, <1>4, <3>1, <3>2
  <2>2. CASE a \in Held /\ b \in Held
    BY <1>2, <2>2 DEF PageInv, Apart
  <2> QED
    BY <1>5, <2>1, <2>2
<1>9. PageInv(p)' /\ alloted'[p] # <<>> /\ alloted'[p] \in Seq(Allotments)
  <2>1. alloted'[p] = Append(alloted[p], Allotment(lo, hi)) /\ p \in mapped'
    BY <1>1, <1>3, <1>4 DEF hi
  <2>2. \A o \in Offsets : Covers(N, p, o) <=> lo <= o /\ o <= hi
    BY <1>6
  <2> QED
    BY <1>1, <1>2, <1>4, <1>5, <1>7, <1>8, <2>1, <2>2, ListedPage
<1>10. ASSUME NEW q \in Virt, q # p PROVE PageInv(q)' /\ alloted'[q] = alloted[q]
  <2>1. alloted'[q] = alloted[q] /\ (q \in mapped' <=> q \in mapped)
    BY <1>1, <1>3, <1>10
  <2>2. ~Touches(N, q)
    BY <1>6, <1>10 DEF Touches
  <2>3. /\ \A a \in Held' : Touches(a, q) => \E b \in Held : Same(a, b, q)
        /\ \A b \in Held : Touches(b, q) => \E a \in Held' : Same(a, b, q)
    BY <1>5, <2>2 DEF Same
  <2> QED
    BY <1>2, <1>8, <2>1, <2>3, KeptPage
<1>11. ASSUME NEW j \in DOMAIN partial_pages, j # i, NEW x, x = partial_pages[j]
       PROVE  \E q \in Virt : Offers(x, q)'
  <2>1. PICK q \in Virt : Offers(x, q)
    BY <1>2, <1>11 DEF Nodes
  <2>2. q # p
    BY <1>2, <1>4, <1>11, <2>1 DEF Nodes, Offers
  <2>3. q \in mapped' /\ alloted'[q] # <<>>
    BY <1>1, <1>10, <2>1, <2>2 DEF Offers
  <2>4. \A a \in Held', o \in Offsets : Covers(a, q, o) => \E b \in Held : Covers(b, q, o)
    BY <1>5, <1>6, <2>2
  <2> QED
    BY <2>1, <2>3, <2>4, KeptOffer
<1>12. /\ partial_pages' \in Seq(PartialNodes) /\ Distinct(partial_pages')
       /\ \A x : (\E k \in DOMAIN partial_pages' : x = partial_pages'[k])
                   => \E q \in Virt : Offers(x, q)'
  <2>1. Distinct(partial_pages)
    BY <1>2 DEF Nodes, Distinct
  <2>2. CASE partial_pages' = RemoveAt(partial_pages, i)
    <3>1. /\ partial_pages' \in Seq(PartialNodes) /\ Distinct(partial_pages')
          /\ \A k \in DOMAIN partial_pages' :
               \E j \in DOMAIN partial_pages : j # i /\ partial_pages'[k] = partial_pages[j]
      BY <1>3, <2>1, <2>2, RemovedNode
    <3> QED
      BY <1>11, <3>1
  <2>3. CASE partial_pages' = [partial_pages EXCEPT ![i].taken = @ + size]
    <3>1. partial_pages[i] \in PartialNodes
      BY <1>3
    <3>2. PICK e : e = [partial_pages[i] EXCEPT !.taken = @ + size]
      OBVIOUS
    <3>3. hi = t + size /\ hi \in 1..(PGSIZE - 1)
      <4>1. lo + size <= PGSIZE
        BY <1>1
      <4>2. t \in Nat /\ t > 0 /\ lo = t + 1
        BY <1>3, <1>4
      <4> QED
        BY <1>3, <4>1, <4>2 DEF hi
    <3>4. e.base = p * PGSIZE /\ e.taken = hi /\ e \in PartialNodes
      <4>1. /\ e.base = partial_pages[i].base /\ e.taken = t + size
            /\ e = [base |-> e.base, taken |-> e.taken]
        BY <3>1, <3>2 DEF PartialNodes, t
      <4>2. e.taken = hi /\ e.taken \in 1..PGSIZE /\ e.base = p * PGSIZE
        BY <1>3, <1>4, <3>3, <4>1
      <4> QED
        BY <4>1, <4>2 DEF PartialNodes
    <3>5. partial_pages' = [partial_pages EXCEPT ![i] = e]
      BY <2>3, <3>2
    <3>6. /\ partial_pages' \in Seq(PartialNodes) /\ DOMAIN partial_pages' = DOMAIN partial_pages
          /\ partial_pages'[i] = e
          /\ \A j \in DOMAIN partial_pages \ {i} : partial_pages'[j] = partial_pages[j]
      BY <1>3, <3>4, <3>5, ChangedNode
    <3>7. \A j \in DOMAIN partial_pages : partial_pages'[j].base = partial_pages[j].base
      BY <1>4, <3>4, <3>6
    <3>8. Offers(e, p)'
      <4>1. ASSUME NEW a \in Held', NEW o \in Offsets, Covers(a, p, o) PROVE o <= hi
        <5>1. CASE a = N
          BY <1>6, <4>1, <5>1
        <5>2. CASE a \in Held
          <6>1. o <= t /\ o \in Nat
            BY <1>4, <4>1, <5>2, Constants
          <6> QED
            BY <1>3, <1>4, <1>7, <6>1, Constants
        <5> QED
          BY <1>5, <5>1, <5>2
      <4>2. p \in mapped' /\ alloted'[p] # <<>>
        BY <1>1, <1>4, <1>9
      <4>3. e.base = p * PGSIZE /\ e.taken = hi /\ hi \in 1..(PGSIZE - 1)
        BY <3>3, <3>4
      <4> QED
        BY <4>1, <4>2, <4>3 DEF Offers
    <3>9. Distinct(partial_pages')
      BY <2>1, <3>6, <3>7 DEF Distinct
    <3>10. ASSUME NEW x, NEW k \in DOMAIN partial_pages', x = partial_pages'[k]
           PROVE  \E q \in Virt : Offers(x, q)'
      <4>1. CASE k = i
        BY <3>6, <3>8, <3>10, <4>1
      <4>2. CASE k # i
        BY <1>11, <3>6, <3>10, <4>2
      <4> QED
        BY <4>1, <4>2
    <3> QED
      BY <3>6, <3>9, <3>10
  <2> QED
    BY <1>1, <2>2, <2>3
<1>13. Nodes'
  BY <1>12, NodesFrom
<1>14. Placed'
  <2>1. OffsetOf(N.va) + N.size <= PGSIZE
    BY <1>1, <1>6
  <2> QED
    BY <1>2, <1>3, <1>5, <1>6, <2>1 DEF Placed
<1>15. Typed'
  <2>1. alloted' \in [Virt -> Seq(Allotments)]
    BY <1>1, <1>3, <1>9
  <2>2. N \in [va : 0..(NumPages * PGSIZE - 1), size : 1..MaxSize]
    <3> DEFINE n == NumPages * PGSIZE
    <3>1. n \in Nat
      BY Constants
    <3> HIDE DEF n
    <3>2. N.va \in 0..(n - 1)
      BY <1>3, <1>6, <3>1 DEF n
    <3> QED
      BY <1>1, <1>6, <3>2 DEF n
  <2>3. areas' \subseteq [va : 0..(NumPages * PGSIZE - 1), size : 1..MaxSize]
    BY <1>1, <1>2, <2>2 DEF Typed
  <2> QED
    BY <1>1, <1>2, <1>12, <2>1, <2>3 DEF Typed, Allotments, PartialNodes
<1>16. \A q \in Virt : PageInv(q)'
  BY <1>9, <1>10
<1>17. mapped' \subseteq virt_bitmap' /\ freeing' = None
  BY <1>1, <1>2
<1> QED
  BY <1>13, <1>14, <1>15, <1>16, <1>17 DEF IInv

-----------------------------------------------------------------------------
\* The start, and t_free up to its loop.

\* None is not a progress of t_free.
LEMMA NotNone ==
  ASSUME NEW page, NEW offset, NEW left, left # 0
  PROVE  [page |-> page, offset |-> offset, left |-> left] # None
BY DEF None

\* Before the first request nothing is held.
LEMMA InitInv ==
  ASSUME Init PROVE IInv
<1>1. /\ virt_bitmap = {} /\ mapped = {} /\ partial_pages = <<>> /\ areas = {} /\ freeing = None
      /\ alloted = [p \in Virt |-> <<>>]
  BY DEF Init
<1>2. Held = {}
  BY <1>1 DEF Held
<1>3. DOMAIN partial_pages = {} /\ \A p \in Virt : alloted[p] = <<>>
  BY <1>1
<1>4. Typed
  <2>1. alloted \in [Virt -> Seq(Allotments)] /\ partial_pages \in Seq(PartialNodes)
    BY <1>1
  <2> QED
    BY <1>1, <2>1 DEF Typed, Allotments, PartialNodes
<1>5. Placed /\ Nodes
  BY <1>2, <1>3 DEF Placed, Nodes
<1>6. ASSUME NEW p \in Virt PROVE PageInv(p)
  <2>1. DOMAIN alloted[p] = {}
    BY <1>3
  <2> QED
    BY <1>1, <1>2, <1>3, <2>1 DEF PageInv, Apart, Known, Entries, InUse
<1> QED
  BY <1>1, <1>4, <1>5, <1>6 DEF IInv

\* t_free takes over the area that its client gives up.
LEMMA TFreeInv ==
  ASSUME IInv, NEW area \in areas, TFree(area) PROVE IInv'
<1>1. /\ freeing = None /\ areas' = areas \ {area}
      /\ freeing' = [page |-> PageOf(area.va), offset |-> OffsetOf(area.va), left |-> area.size]
      /\ UNCHANGED <<virt_bitmap, mapped, partial_pages, alloted>>
  BY DEF TFree, Ready
<1>2. /\ Typed /\ Placed /\ Nodes /\ mapped \subseteq virt_bitmap /\ \A q \in Virt : PageInv(q)
  BY DEF IInv
<1>3. area = [va |-> area.va, size |-> area.size] /\ area.size \in 1..MaxSize
  BY <1>2 DEF Typed
<1>4. Held = areas
  BY <1>1 DEF Held
<1>5. /\ PageOf(area.va) \in Virt /\ OffsetOf(area.va) \in Offsets
      /\ area.va = Byte(PageOf(area.va), OffsetOf(area.va))
  BY <1>2, <1>4, FirstByte
<1>6. freeing' # None
  BY <1>1, <1>3, NotNone, Constants
<1>7. Rest' = area
  <2>1. /\ freeing'.page = PageOf(area.va) /\ freeing'.offset = OffsetOf(area.va)
        /\ freeing'.left = area.size
    BY <1>1
  <2>2. Rest' = [va |-> Byte(freeing'.page, freeing'.offset), size |-> freeing'.left]
    BY DEF Rest, Byte
  <2> QED
    BY <1>3, <1>5, <2>1, <2>2
<1>8. Held' = Held
  BY <1>1, <1>4, <1>6, <1>7 DEF Held
<1>9. Placed' /\ Nodes'
  BY <1>1, <1>2, <1>8 DEF Placed, Nodes, Offers
<1>10. ASSUME NEW p \in Virt PROVE PageInv(p)'
  <2>1. PageInv(p)
    BY <1>2
  <2> QED
    BY <1>1, <1>8, <2>1 DEF PageInv, Apart, Known, Listed, Entries, InUse
<1>11. Typed'
  <2>1. freeing' \in [page : Virt, offset : 0..(PGSIZE - 1), left : 1..MaxSize]
    BY <1>1, <1>3, <1>5 DEF Offsets
  <2> QED
    BY <1>1, <1>2, <2>1 DEF Typed
<1> QED
  BY <1>1, <1>2, <1>7, <1>9, <1>10, <1>11 DEF IInv

-----------------------------------------------------------------------------
\* The rounds of t_free.

\* What t_free has still to free starts on the page of the round.  If it goes on behind that
\* page it has all of it, and otherwise a part.
LEMMA RestFacts ==
  ASSUME IInv, NEW p \in Virt, NEW o \in Offsets, NEW left \in Nat \ {0},
         freeing = [page |-> p, offset |-> o, left |-> left],
         NEW R, R = [va |-> Byte(p, o), size |-> left]
  PROVE  /\ Rest = R /\ R \in Held /\ Held = areas \cup {R} /\ R \notin areas
         /\ R.va = Byte(p, o) /\ R.size = left /\ Byte(p, o) + left <= NumPages * PGSIZE
         /\ Covers(R, p, o)
         /\ \/ /\ o + left <= PGSIZE
               /\ \A q \in Virt, x \in Offsets :
                    Covers(R, q, x) <=> q = p /\ o <= x /\ x <= o + left - 1
            \/ o + left > PGSIZE /\ o = 0 /\ Fills(R, p)
<1>1. freeing # None
  BY NotNone
<1>2. Rest = R
  BY DEF Rest, Byte
<1>3. Held = areas \cup {R} /\ R \notin areas
  BY <1>1, <1>2 DEF Held, IInv
<1>4. R.va = Byte(p, o) /\ R.size = left
  OBVIOUS
<1>5. p \in Nat /\ o \in Nat /\ PGSIZE \in Nat /\ PGSIZE > 0 /\ left \in Nat /\ left > 0
  BY Constants
<1>6. OffsetOf(R.va) = o /\ Byte(p, o) \in Nat
  BY <1>4, <1>5, ByteFacts
<1>7. /\ Byte(p, o) + left <= NumPages * PGSIZE
      /\ o = 0 \/ o + left <= PGSIZE
  BY <1>3, <1>4, <1>6 DEF IInv, Placed
<1>8. Covers(R, p, o)
  BY <1>4, <1>5, <1>6 DEF Covers
<1>9. ASSUME o + left > PGSIZE PROVE o = 0 /\ Fills(R, p)
  <2>1. o = 0 /\ left > PGSIZE
    BY <1>5, <1>7, <1>9
  <2>2. ASSUME NEW x \in Offsets PROVE Covers(R, p, x)
    <3> DEFINE y == p * PGSIZE
    <3>1. y \in Nat /\ x \in 0..(PGSIZE - 1)
      BY <1>5 DEF Offsets
    <3>2. Byte(p, x) = y + x /\ R.va = y + o
      BY <1>4 DEF Byte
    <3> HIDE DEF y
    <3> QED
      BY <1>4, <1>5, <2>1, <3>1, <3>2 DEF Covers
  <2> QED
    BY <2>1, <2>2 DEF Fills
<1>10. ASSUME o + left <= PGSIZE, NEW q \in Virt, NEW x \in Offsets
       PROVE  Covers(R, q, x) <=> q = p /\ o <= x /\ x <= o + left - 1
  BY <1>10, SmallArea
<1> QED
  BY <1>2, <1>3, <1>4, <1>5, <1>7, <1>8, <1>9, <1>10

\* Only the allotment of what is freed, and free ones, contain what is freed.
LEMMA FreedEntry ==
  ASSUME IInv, NEW p \in Virt, NEW o \in Offsets, NEW left \in Nat \ {0},
         freeing = [page |-> p, offset |-> o, left |-> left],
         NEW R, R = [va |-> Byte(p, o), size |-> left],
         NEW i \in DOMAIN alloted[p], ~alloted[p][i].free
  PROVE  /\ o + left <= PGSIZE
         /\ Within(o, left, alloted[p][i]) => Exact(R, p, alloted[p][i])
         /\ \A a \in areas : Exact(a, p, alloted[p][i]) => ~Within(o, left, alloted[p][i])
         /\ Exact(R, p, alloted[p][i]) => Within(o, left, alloted[p][i])
<1> DEFINE e == alloted[p][i]
<1>1. /\ R \in Held /\ Held = areas \cup {R} /\ R \notin areas /\ Covers(R, p, o)
      /\ \/ /\ o + left <= PGSIZE
            /\ \A x \in Offsets : Covers(R, p, x) <=> o <= x /\ x <= o + left - 1
         \/ o + left > PGSIZE /\ o = 0 /\ Fills(R, p)
  BY RestFacts
<1>2. PageInv(p) /\ Typed
  BY DEF IInv
<1>3. PICK b \in Held : Exact(b, p, e) /\ e.first <= e.last /\ (e.first > 0 \/ e.last < PGSIZE - 1)
  BY <1>2 DEF PageInv, Entries
<1>4. /\ e.first \in Offsets /\ e.last \in Offsets
      /\ e.first \in Nat /\ e.last \in Nat /\ o \in Nat /\ left \in Nat /\ left > 0 /\ PGSIZE \in Nat
  BY <1>2, ListFacts, Constants
<1> HIDE DEF e
<1>5. ASSUME NEW c, Exact(c, p, e) PROVE \A x \in Offsets : Covers(c, p, x) <=> e.first <= x /\ x <= e.last
  BY <1>5 DEF Exact
<1>6. ASSUME NEW c, NEW d, c \in Held, d \in Held, NEW x \in Offsets, Covers(c, p, x), Covers(d, p, x)
      PROVE  c = d
  BY <1>2, <1>6 DEF PageInv, Apart
<1>7. o + left <= PGSIZE
  <2> SUFFICES ASSUME Fills(R, p) PROVE FALSE
    BY <1>1
  <2>1. Covers(b, p, e.first)
    BY <1>3, <1>4, <1>5
  <2>2. b = R
    BY <1>1, <1>4, <1>6, <2>1 DEF Fills
  <2>3. Covers(b, p, 0) /\ Covers(b, p, PGSIZE - 1)
    BY <2>2, Constants DEF Fills
  <2>4. e.first <= 0 /\ PGSIZE - 1 <= e.last
    BY <1>3, <1>5, <2>3, Constants
  <2> QED
    BY <1>3, <1>4, <2>4
<1>8. ASSUME NEW c \in Held, Exact(c, p, e), Within(o, left, e) PROVE c = R
  <2>1. e.first <= o /\ o <= e.last
    BY <1>4, <1>8 DEF Within
  <2>2. Covers(c, p, o)
    BY <1>5, <1>8, <2>1
  <2> QED
    BY <1>1, <1>6, <2>2
<1>9. ASSUME Exact(R, p, e) PROVE Within(o, left, e)
  <2>1. \A x \in Offsets : Covers(R, p, x) <=> o <= x /\ x <= o + left - 1
    BY <1>1, <1>4, <1>7
  <2>2. o + left - 1 \in Offsets /\ o <= o + left - 1
    BY <1>4, <1>7 DEF Offsets
  <2>3. e.first <= o /\ o + left - 1 <= e.last
    BY <1>4, <1>5, <1>9, <2>1, <2>2
  <2> QED
    BY <1>4, <2>3 DEF Within
<1> QED
  BY <1>1, <1>3, <1>7, <1>8, <1>9 DEF e

\* What free_part_page makes of the list: no area keeps a byte of a page that becomes free, and
\* on the others the areas keep their allotments.
LEMMA AfterFreeFacts ==
  ASSUME IInv, NEW p \in Virt, NEW o \in Offsets, NEW left \in Nat \ {0},
         freeing = [page |-> p, offset |-> o, left |-> left],
         NEW R, R = [va |-> Byte(p, o), size |-> left],
         NEW list, list = AfterFree(p, o, left)
  PROVE  /\ list \in Seq(Allotments)
         /\ alloted[p] = <<>> => list = <<>>
         /\ o + left > PGSIZE => alloted[p] = <<>>
         /\ list = <<>> => \A a \in areas : ~Touches(a, p)
         /\ list # <<>> =>
              /\ alloted[p] # <<>> /\ \E i \in DOMAIN list : ~list[i].free
              /\ \A a \in areas : Touches(a, p) => \E i \in DOMAIN list : Exact(a, p, list[i])
              /\ \A i \in DOMAIN list :
                   IF list[i].free THEN list[i].first = 0 /\ list[i].last = 0
                   ELSE /\ list[i].first <= list[i].last
                        /\ list[i].first > 0 \/ list[i].last < PGSIZE - 1
                        /\ \E a \in areas : Exact(a, p, list[i])
<1> DEFINE old == alloted[p]
           new == [i \in DOMAIN old |-> IF Within(o, left, old[i]) THEN FreeAllotment ELSE old[i]]
<1>1. list = IF \A i \in DOMAIN new : new[i].free THEN <<>> ELSE new
  BY DEF AfterFree
<1>2. Typed /\ PageInv(p) /\ old \in Seq(Allotments)
  BY ListFacts DEF IInv
<1>3. FreeAllotment \in Allotments /\ FreeAllotment.free /\ FreeAllotment.first = 0 /\ FreeAllotment.last = 0
  BY Constants DEF FreeAllotment, Allotments, Offsets
<1>4. /\ DOMAIN new = DOMAIN old
      /\ \A i \in DOMAIN old : new[i] = IF Within(o, left, old[i]) THEN FreeAllotment ELSE old[i]
  OBVIOUS
<1>5. new \in Seq(Allotments)
  <2>1. old \in [1..Len(old) -> Allotments] /\ Len(old) \in Nat /\ DOMAIN old = 1..Len(old)
    BY <1>2
  <2>2. new \in [1..Len(old) -> Allotments]
    BY <1>3, <2>1
  <2> QED
    BY <2>1, <2>2
<1>6. ASSUME NEW i \in DOMAIN old, ~old[i].free
      PROVE  /\ o + left <= PGSIZE
             /\ Within(o, left, old[i]) => Exact(R, p, old[i])
             /\ \A a \in areas : Exact(a, p, old[i]) => ~Within(o, left, old[i])
             /\ Exact(R, p, old[i]) => Within(o, left, old[i])
  BY <1>6, FreedEntry
<1>7. /\ R \in Held /\ Held = areas \cup {R} /\ R \notin areas /\ Covers(R, p, o)
      /\ o + left <= PGSIZE \/ (o + left > PGSIZE /\ Fills(R, p))
  BY RestFacts
<1>8. old = <<>> => list = <<>>
  BY <1>1, <1>4
<1>9. old # <<>> => \E i \in DOMAIN old : ~old[i].free
  BY <1>2 DEF PageInv, InUse
<1> HIDE DEF new
<1>10. o + left > PGSIZE => old = <<>>
  BY <1>6, <1>7, <1>9, Constants
<1>11. ASSUME NEW a \in areas, Touches(a, p)
       PROVE  \E i \in DOMAIN new : new[i] = old[i] /\ Exact(a, p, new[i]) /\ ~new[i].free
  <2>1. a \in Held /\ a # R
    BY <1>7
  <2>2. ~Fills(a, p)
    BY <1>2, <1>7, <2>1 DEF PageInv, Apart, Fills
  <2>3. PICK i \in DOMAIN old : Exact(a, p, old[i])
    BY <1>2, <1>11, <2>1, <2>2 DEF PageInv, Known, Listed
  <2>4. ~old[i].free /\ ~Within(o, left, old[i])
    BY <1>6, <2>3 DEF Exact
  <2> QED
    BY <1>4, <2>3, <2>4
<1>12. ASSUME NEW i \in DOMAIN new
       PROVE  IF new[i].free THEN new[i].first = 0 /\ new[i].last = 0
              ELSE /\ new[i].first <= new[i].last
                   /\ new[i].first > 0 \/ new[i].last < PGSIZE - 1
                   /\ \E a \in areas : Exact(a, p, new[i])
  <2>1. CASE Within(o, left, old[i])
    BY <1>3, <1>4, <2>1
  <2>2. CASE ~Within(o, left, old[i])
    <3>1. new[i] = old[i]
      BY <1>4, <2>2
    <3>2. CASE old[i].free
      BY <1>2, <1>4, <3>1, <3>2 DEF PageInv, Entries
    <3>3. CASE ~old[i].free
      <4>1. PICK a \in Held : Exact(a, p, old[i])
        BY <1>2, <1>4, <3>3 DEF PageInv, Entries
      <4>2. a \in areas
        BY <1>4, <1>6, <1>7, <2>2, <3>3, <4>1
      <4> QED
        BY <1>2, <1>4, <3>1, <3>3, <4>1, <4>2 DEF PageInv, Entries
    <3> QED
      BY <3>2, <3>3
  <2> QED
    BY <2>1, <2>2
<1>13. CASE \A i \in DOMAIN new : new[i].free
  BY <1>1, <1>8, <1>10, <1>11, <1>13
<1>14. CASE ~ \A i \in DOMAIN new : new[i].free
  <2>1. list = new
    BY <1>1, <1>14
  <2>2. list # <<>> /\ old # <<>> /\ \E i \in DOMAIN list : ~list[i].free
    BY <1>8, <1>14, <2>1
  <2> QED
    BY <1>5, <1>10, <1>11, <1>12, <2>1, <2>2
<1> QED
  BY <1>13, <1>14

\* The part of an area behind its first page.
LEMMA NextPage ==
  ASSUME NEW p \in Virt, NEW left \in Nat, left > PGSIZE,
         Byte(p, 0) + left <= NumPages * PGSIZE,
         NEW R, R = [va |-> Byte(p, 0), size |-> left],
         NEW T, T = [va |-> Byte(p + 1, 0), size |-> left - PGSIZE]
  PROVE  /\ p + 1 \in Virt /\ T.va \in Nat /\ T.size \in Nat \ {0} /\ T.va # R.va
         /\ T.va + T.size <= NumPages * PGSIZE /\ OffsetOf(T.va) = 0
         /\ Covers(T, p + 1, 0)
         /\ \A q \in Virt, x \in Offsets : Covers(T, q, x) <=> Covers(R, q, x) /\ q # p
<1> DEFINE x0 == p * PGSIZE
           x1 == (p + 1) * PGSIZE
           n == NumPages * PGSIZE
<1>1. p \in Nat /\ PGSIZE \in Nat /\ PGSIZE > 0 /\ NumPages \in Nat /\ Virt \subseteq Nat /\ 0 \in Offsets
  BY Constants
<1>2. x0 \in Nat /\ x1 = x0 + PGSIZE /\ n \in Nat
  BY <1>1
<1>3. Byte(p, 0) = x0 /\ Byte(p + 1, 0) = x1 /\ OffsetOf(x1) = 0
  <2>1. p + 1 \in Nat /\ x1 \in Nat
    BY <1>1
  <2>2. Byte(p + 1, 0) = x1
    BY <2>1 DEF Byte
  <2>3. OffsetOf(Byte(p + 1, 0)) = 0
    BY <1>1, <2>1, ByteFacts
  <2> QED
    BY <1>2, <2>2, <2>3 DEF Byte
<1>4. p + 1 \in Virt
  <2>1. CASE p + 1 < NumPages
    BY <1>1, <2>1 DEF Virt
  <2>2. CASE NumPages <= p + 1
    <3>1. n <= x1
      <4>1. CASE NumPages = p + 1
        BY <1>2, <4>1
      <4>2. CASE NumPages < p + 1
        BY <1>1, <1>2, <4>2, PagesInOrder
      <4> QED
        BY <1>1, <2>2, <4>1, <4>2
    <3> HIDE DEF x0, x1, n
    <3>2. x0 + left <= n
      BY <1>3 DEF n
    <3> QED
      BY <1>1, <1>2, <3>1, <3>2
  <2> QED
    BY <1>1, <2>1, <2>2
<1>5. /\ R.va = x0 /\ R.size = left /\ T.va = x1 /\ T.size = left - PGSIZE
  BY <1>3
<1>6. \A q \in Virt : /\ q < p => q * PGSIZE + PGSIZE <= x0
                      /\ p < q => x1 <= q * PGSIZE
                      /\ q * PGSIZE \in Nat
  <2> TAKE q \in Virt
  <2>1. q \in Nat /\ q * PGSIZE \in Nat
    BY <1>1
  <2>2. p < q => x0 + PGSIZE <= q * PGSIZE
    BY <1>1, <2>1, PagesInOrder
  <2>3. q < p => q * PGSIZE + PGSIZE <= x0
    BY <1>1, <2>1, PagesInOrder
  <2> QED
    BY <1>2, <2>1, <2>2, <2>3
<1> HIDE DEF x0, x1
<1>7. T.va \in Nat /\ T.size \in Nat \ {0} /\ T.va # R.va /\ T.va + T.size <= n
  <2> HIDE DEF n
  <2>1. x0 + left <= n
    BY <1>3 DEF n
  <2> QED
    BY <1>1, <1>2, <1>5, <2>1
<1>8. ASSUME NEW q \in Virt, NEW x \in Offsets
      PROVE  Covers(T, q, x) <=> Covers(R, q, x) /\ q # p
  <2> DEFINE y == q * PGSIZE
  <2>1. /\ y \in Nat /\ x \in 0..(PGSIZE - 1) /\ q \in Nat
        /\ q < p => y + PGSIZE <= x0
        /\ p < q => x1 <= y
        /\ q = p => y = x0
    BY <1>1, <1>6 DEF Offsets, x0
  <2> HIDE DEF y
  <2>2. x1 <= y + x /\ y + x <= x1 + (left - PGSIZE) - 1 <=>
          x0 <= y + x /\ y + x <= x0 + left - 1 /\ q # p
    <3>1. CASE q = p
      BY <1>1, <1>2, <2>1, <3>1
    <3>2. CASE q < p
      BY <1>1, <1>2, <2>1, <3>2
    <3>3. CASE p < q
      BY <1>1, <1>2, <2>1, <3>3
    <3> QED
      BY <1>1, <2>1, <3>1, <3>2, <3>3
  <2> QED
    BY <1>5, <2>2 DEF Covers, Byte, y
<1>9. Covers(T, p + 1, 0)
  <2>1. T.va = Byte(p + 1, 0)
    OBVIOUS
  <2> QED
    BY <1>7, <2>1 DEF Covers
<1> QED
  BY <1>3, <1>4, <1>5, <1>7, <1>8, <1>9

\* What a round does to its page p, and what it leaves of R: T, that has no byte of p and every
\* byte that R has of the other pages.
FreesPage(p, list) ==
  /\ alloted' = [alloted EXCEPT ![p] = list] /\ areas' = areas
  /\ IF list = <<>>
     THEN /\ \/ partial_pages' = partial_pages /\ alloted[p] = <<>>
             \/ partial_pages' = delete_partial_node(partial_pages, p * PGSIZE)
          /\ mapped' = mapped \ {p}
          /\ virt_bitmap \ {p} \subseteq virt_bitmap' /\ virt_bitmap' \subseteq virt_bitmap
     ELSE UNCHANGED <<partial_pages, mapped, virt_bitmap>>

LeavesNothing(R, p) ==
  /\ freeing' = None /\ Held' = areas
  /\ \A q \in Virt, x \in Offsets : Covers(R, q, x) => q = p

Leaves(R, p, T) ==
  /\ Held' = areas \cup {T} /\ Rest' = T
  /\ freeing' \in [page : Virt, offset : 0..(PGSIZE - 1), left : 1..MaxSize]
  /\ T.va \in Nat /\ T.size \in Nat \ {0} /\ T # R
  /\ T.va + T.size <= NumPages * PGSIZE /\ OffsetOf(T.va) = 0
  /\ \E q \in Virt : Touches(T, q)
  /\ \A q \in Virt, x \in Offsets : Covers(T, q, x) <=> Covers(R, q, x) /\ q # p

\* One round frees one page, or one area's part of it.
LEMMA RoundFacts ==
  ASSUME IInv, FreeRound
  PROVE  \E p \in Virt, o \in Offsets, left \in 1..MaxSize, R \in Held :
           /\ freeing = [page |-> p, offset |-> o, left |-> left]
           /\ R = [va |-> Byte(p, o), size |-> left]
           /\ FreesPage(p, AfterFree(p, o, left))
           /\ LeavesNothing(R, p) \/ \E T \in Held' : Leaves(R, p, T)
<1> DEFINE p == freeing.page
           o == freeing.offset
           left == freeing.left
           list == AfterFree(p, o, left)
           more == left - (PGSIZE - o)
<1>1. /\ freeing # None
      /\ alloted' = [alloted EXCEPT ![p] = list]
      /\ IF list = <<>>
         THEN /\ partial_pages' = IF alloted[p] = <<>> THEN partial_pages
                                  ELSE delete_partial_node(partial_pages, p * PGSIZE)
              /\ mapped' = mapped \ {p}
              /\ virt_bitmap' = unset_bit_at_index(virt_bitmap, p)
         ELSE UNCHANGED <<partial_pages, mapped, virt_bitmap>>
      /\ freeing' = IF more > 0
                    THEN [page |-> IF list = <<>> THEN p + 1 ELSE p, offset |-> 0, left |-> more]
                    ELSE None
      /\ areas' = areas
  BY DEF FreeRound
<1>2. /\ p \in Virt /\ o \in Offsets /\ left \in 1..MaxSize
      /\ freeing = [page |-> p, offset |-> o, left |-> left]
  BY <1>1, NodeType DEF IInv
<1>3. left \in Nat \ {0} /\ PGSIZE \in Nat /\ o \in Nat /\ MaxSize \in Nat /\ p \in Nat
  BY <1>2, Constants
<1>4. PICK R : R = [va |-> Byte(p, o), size |-> left]
  OBVIOUS
<1> HIDE DEF p, o, left
<1>5. /\ R \in Held /\ Byte(p, o) + left <= NumPages * PGSIZE
      /\ \/ /\ o + left <= PGSIZE
            /\ \A q \in Virt, x \in Offsets :
                 Covers(R, q, x) <=> q = p /\ o <= x /\ x <= o + left - 1
         \/ o + left > PGSIZE /\ o = 0
  BY <1>2, <1>3, <1>4, RestFacts
<1>6. /\ o + left > PGSIZE => alloted[p] = <<>>
      /\ alloted[p] = <<>> => list = <<>>
  BY <1>2, <1>3, <1>4, AfterFreeFacts
<1> HIDE DEF list
<1>7. list = <<>> => virt_bitmap \ {p} \subseteq virt_bitmap' /\ virt_bitmap' \subseteq virt_bitmap
  BY <1>1 DEF unset_bit_at_index
<1>8. FreesPage(p, AfterFree(p, o, left))
  BY <1>1, <1>7 DEF FreesPage, list
<1>9. CASE o + left <= PGSIZE
  <2>1. freeing' = None
    BY <1>1, <1>3, <1>9
  <2>2. Held' = areas
    BY <1>1, <2>1 DEF Held
  <2>3. \A q \in Virt, x \in Offsets : Covers(R, q, x) => q = p
    BY <1>3, <1>5, <1>9
  <2> QED
    BY <1>2, <1>4, <1>5, <1>8, <2>1, <2>2, <2>3 DEF LeavesNothing
<1>10. CASE o + left > PGSIZE
  <2>1. o = 0 /\ left > PGSIZE /\ more = left - PGSIZE /\ more \in 1..MaxSize
    BY <1>2, <1>3, <1>5, <1>10
  <2>2. list = <<>>
    BY <1>6, <1>10
  <2>3. freeing' = [page |-> p + 1, offset |-> 0, left |-> left - PGSIZE]
    BY <1>1, <2>1, <2>2
  <2>4. PICK T : T = [va |-> Byte(p + 1, 0), size |-> left - PGSIZE]
    OBVIOUS
  <2>5. /\ p + 1 \in Virt /\ T.va \in Nat /\ T.size \in Nat \ {0} /\ T.va # R.va
        /\ T.va + T.size <= NumPages * PGSIZE /\ OffsetOf(T.va) = 0
        /\ Covers(T, p + 1, 0)
        /\ \A q \in Virt, x \in Offsets : Covers(T, q, x) <=> Covers(R, q, x) /\ q # p
    BY <1>2, <1>3, <1>4, <1>5, <2>1, <2>4, NextPage
  <2>6. freeing' # None /\ freeing' \in [page : Virt, offset : 0..(PGSIZE - 1), left : 1..MaxSize]
    <3>1. left - PGSIZE # 0 /\ left - PGSIZE \in 1..MaxSize /\ 0 \in 0..(PGSIZE - 1)
      BY <2>1, Constants
    <3> QED
      BY <2>3, <2>5, <3>1, NotNone
  <2>7. Rest' = T
    <3>1. freeing'.page = p + 1 /\ freeing'.offset = 0 /\ freeing'.left = left - PGSIZE
      BY <2>3
    <3>2. Rest' = [va |-> Byte(freeing'.page, freeing'.offset), size |-> freeing'.left]
      BY DEF Rest, Byte
    <3> QED
      BY <2>4, <3>1, <3>2
  <2>8. Held' = areas \cup {T}
    BY <1>1, <2>6, <2>7 DEF Held
  <2>9. \E q \in Virt : Touches(T, q)
    BY <2>5, Constants DEF Touches
  <2>10. T # R
    BY <2>5
  <2>11. T \in Held' /\ Leaves(R, p, T)
    BY <2>5, <2>6, <2>7, <2>8, <2>9, <2>10 DEF Leaves
  <2> QED
    BY <1>2, <1>4, <1>5, <1>8, <2>11
<1> QED
  BY <1>3, <1>9, <1>10

\* The areas after a round: on the page of the round those of clients, on the others the same.
LEMMA RoundAreas ==
  ASSUME IInv, NEW p \in Virt, NEW R \in Held, Held = areas \cup {R}, R \notin areas,
         LeavesNothing(R, p) \/ \E T \in Held' : Leaves(R, p, T), areas' = areas
  PROVE  /\ \A a \in Held', x \in Offsets : Covers(a, p, x) => a \in areas
         /\ \A q \in Virt \ {p} :
              /\ \A a \in Held' : Touches(a, q) => \E b \in Held : Same(a, b, q)
              /\ \A b \in Held : Touches(b, q) => \E a \in Held' : Same(a, b, q)
         /\ \A q \in Virt : Apart(q)'
         /\ areas \subseteq Held'
         /\ Placed' /\ (freeing' # None => Rest' \notin areas')
<1>1. /\ \A a, b \in Held, q \in Virt, x \in Offsets : Covers(a, q, x) /\ Covers(b, q, x) => a = b
      /\ Placed
  BY DEF IInv, PageInv, Apart
<1>2. CASE LeavesNothing(R, p)
  <2>1. Held' = areas /\ freeing' = None /\ \A q \in Virt, x \in Offsets : Covers(R, q, x) => q = p
    BY <1>2 DEF LeavesNothing
  <2>2. ASSUME NEW q \in Virt \ {p} PROVE ~Touches(R, q)
    BY <2>1 DEF Touches
  <2>3. \A a, q : Same(a, a, q)
    BY DEF Same
  <2>4. \A q \in Virt : Apart(q)'
    BY <1>1, <2>1 DEF Apart
  <2>5. Placed'
    BY <1>1, <2>1 DEF Placed
  <2>6. ASSUME NEW q \in Virt \ {p}
        PROVE  /\ \A a \in Held' : Touches(a, q) => \E b \in Held : Same(a, b, q)
               /\ \A b \in Held : Touches(b, q) => \E a \in Held' : Same(a, b, q)
    BY <2>1, <2>2, <2>3
  <2> QED
    BY <2>1, <2>4, <2>5, <2>6
<1>3. CASE \E T \in Held' : Leaves(R, p, T)
  <2>1. PICK T \in Held' : Leaves(R, p, T)
    BY <1>3
  <2>2. /\ Held' = areas \cup {T} /\ Rest' = T /\ T # R
        /\ T.va \in Nat /\ T.size \in Nat \ {0}
        /\ T.va + T.size <= NumPages * PGSIZE /\ OffsetOf(T.va) = 0
        /\ \A q \in Virt, x \in Offsets : Covers(T, q, x) <=> Covers(R, q, x) /\ q # p
    BY <2>1 DEF Leaves
  <2>3. T \notin areas
    <3>1. PICK q \in Virt, x \in Offsets : Covers(T, q, x)
      BY <2>1 DEF Leaves, Touches
    <3> QED
      BY <1>1, <2>2, <3>1
  <2>4. \A a \in Held', x \in Offsets : Covers(a, p, x) => a \in areas
    BY <2>2
  <2>5. ASSUME NEW q \in Virt \ {p}
        PROVE  /\ \A a \in Held' : Touches(a, q) => \E b \in Held : Same(a, b, q)
               /\ \A b \in Held : Touches(b, q) => \E a \in Held' : Same(a, b, q)
    <3>1. Same(T, R, q) /\ \A a : Same(a, a, q)
      BY <2>2 DEF Same
    <3> QED
      BY <2>2, <3>1
  <2>6. ASSUME NEW q \in Virt PROVE Apart(q)'
    <3> SUFFICES ASSUME NEW a \in Held', NEW b \in Held', NEW x \in Offsets,
                        Covers(a, q, x), Covers(b, q, x)
                 PROVE  a = b
      BY DEF Apart
    <3>1. CASE a \in areas /\ b \in areas
      BY <1>1, <3>1
    <3>2. CASE a = T /\ b \in areas
      BY <1>1, <2>2, <3>2
    <3>3. CASE a \in areas /\ b = T
      BY <1>1, <2>2, <3>3
    <3> QED
      BY <2>2, <3>1, <3>2, <3>3
  <2>7. Placed'
    BY <1>1, <2>2 DEF Placed
  <2> QED
    BY <2>2, <2>3, <2>4, <2>5, <2>6, <2>7
<1> QED
  BY <1>2, <1>3

\* The nodes after a round: that of a page that has become free is gone.
LEMMA RoundNodes ==
  ASSUME IInv, NEW p \in Virt, NEW list, FreesPage(p, list),
         \A a \in Held', q \in Virt, x \in Offsets : Covers(a, q, x) => \E b \in Held : Covers(b, q, x)
  PROVE  Nodes' /\ partial_pages' \in Seq(PartialNodes)
<1>1. /\ Nodes /\ partial_pages \in Seq(PartialNodes) /\ alloted \in [Virt -> Seq(Allotments)]
      /\ Distinct(partial_pages)
  <2>1. Nodes /\ Typed
    BY DEF IInv
  <2> QED
    BY <2>1, NodeType, ListFacts DEF Nodes, Distinct
<1>2. alloted' = [alloted EXCEPT ![p] = list]
  BY DEF FreesPage
<1>3. ASSUME NEW x, NEW j \in DOMAIN partial_pages, x = partial_pages[j], NEW q \in Virt, Offers(x, q),
             q # p \/ list # <<>>
      PROVE  Offers(x, q)'
  <2>1. q \in mapped /\ alloted[q] # <<>>
    BY <1>3 DEF Offers
  <2>2. q \in mapped'
    BY <1>3, <2>1 DEF FreesPage
  <2>3. alloted'[q] # <<>>
    BY <1>1, <1>2, <1>3, <2>1
  <2> QED
    BY <1>3, <2>2, <2>3, KeptOffer
<1>4. CASE partial_pages' = partial_pages /\ (list # <<>> \/ alloted[p] = <<>>)
  <2>1. ASSUME NEW x, NEW j \in DOMAIN partial_pages', x = partial_pages'[j]
        PROVE  \E q \in Virt : Offers(x, q)'
    <3>1. PICK q \in Virt : Offers(x, q)
      BY <1>1, <1>4, <2>1 DEF Nodes
    <3>2. q # p \/ list # <<>>
      BY <1>4, <3>1 DEF Offers
    <3> QED
      BY <1>3, <1>4, <2>1, <3>1, <3>2
  <2>2. Distinct(partial_pages')
    BY <1>1, <1>4
  <2> QED
    BY <1>1, <1>4, <2>1, <2>2, NodesFrom
<1>5. CASE partial_pages' = delete_partial_node(partial_pages, p * PGSIZE)
  <2> DEFINE i == PlaceOf(partial_pages, p * PGSIZE)
  <2>1. \/ i = 0 /\ \A j \in DOMAIN partial_pages : partial_pages[j].base # p * PGSIZE
        \/ i # 0 /\ i \in DOMAIN partial_pages /\ partial_pages[i].base = p * PGSIZE
    BY <1>1, PlaceFacts
  <2>2. partial_pages' = IF i = 0 THEN partial_pages ELSE RemoveAt(partial_pages, i)
    BY <1>5 DEF delete_partial_node
  <2> HIDE DEF i
  <2>3. /\ partial_pages' \in Seq(PartialNodes) /\ Distinct(partial_pages')
        /\ \A k \in DOMAIN partial_pages' :
             \E j \in DOMAIN partial_pages : j # i /\ partial_pages'[k] = partial_pages[j]
    <3>1. CASE i = 0
      <4>1. \A j \in DOMAIN partial_pages : j # 0
        BY <1>1
      <4> QED
        BY <1>1, <2>2, <3>1, <4>1
    <3>2. CASE i # 0
      BY <1>1, <2>1, <2>2, <3>2, RemovedNode
    <3> QED
      BY <3>1, <3>2
  <2>4. ASSUME NEW x, NEW k \in DOMAIN partial_pages', x = partial_pages'[k]
        PROVE  \E q \in Virt : Offers(x, q)'
    <3>1. PICK j \in DOMAIN partial_pages : j # i /\ x = partial_pages[j]
      BY <2>3, <2>4
    <3>2. PICK q \in Virt : Offers(x, q)
      BY <1>1, <3>1 DEF Nodes
    <3>3. q # p
      BY <1>1, <2>1, <3>1, <3>2 DEF Distinct, Offers
    <3> QED
      BY <1>3, <3>1, <3>2, <3>3
  <2> QED
    BY <2>3, <2>4, NodesFrom
<1> QED
  BY <1>4, <1>5 DEF FreesPage

\* A round of t_free keeps the invariant.
LEMMA FreeRoundInv ==
  ASSUME IInv, FreeRound PROVE IInv'
<1>1. PICK p \in Virt, o \in Offsets, left \in 1..MaxSize, R \in Held :
        /\ freeing = [page |-> p, offset |-> o, left |-> left]
        /\ R = [va |-> Byte(p, o), size |-> left]
        /\ FreesPage(p, AfterFree(p, o, left))
        /\ LeavesNothing(R, p) \/ \E T \in Held' : Leaves(R, p, T)
  BY RoundFacts
<1>2. PICK list : list = AfterFree(p, o, left)
  OBVIOUS
<1>3. left \in Nat \ {0} /\ MaxSize \in Nat
  BY Constants
<1>4. Held = areas \cup {R} /\ R \notin areas
  BY <1>1, <1>3, RestFacts
<1>5. /\ list \in Seq(Allotments)
      /\ list = <<>> => \A a \in areas : ~Touches(a, p)
      /\ list # <<>> =>
           /\ alloted[p] # <<>> /\ \E i \in DOMAIN list : ~list[i].free
           /\ \A a \in areas : Touches(a, p) => \E i \in DOMAIN list : Exact(a, p, list[i])
           /\ \A i \in DOMAIN list :
                IF list[i].free THEN list[i].first = 0 /\ list[i].last = 0
                ELSE /\ list[i].first <= list[i].last
                     /\ list[i].first > 0 \/ list[i].last < PGSIZE - 1
                     /\ \E a \in areas : Exact(a, p, list[i])
  BY <1>1, <1>2, <1>3, AfterFreeFacts
<1>6. /\ FreesPage(p, list) /\ areas' = areas
      /\ alloted' = [alloted EXCEPT ![p] = list]
  BY <1>1, <1>2 DEF FreesPage
<1>7. /\ \A a \in Held', x \in Offsets : Covers(a, p, x) => a \in areas
      /\ \A q \in Virt \ {p} :
           /\ \A a \in Held' : Touches(a, q) => \E b \in Held : Same(a, b, q)
           /\ \A b \in Held : Touches(b, q) => \E a \in Held' : Same(a, b, q)
      /\ \A q \in Virt : Apart(q)'
      /\ areas \subseteq Held'
      /\ Placed' /\ (freeing' # None => Rest' \notin areas')
  BY <1>1, <1>4, <1>6, RoundAreas
<1>8. /\ Typed /\ alloted \in [Virt -> Seq(Allotments)] /\ mapped \subseteq virt_bitmap
      /\ \A q \in Virt : PageInv(q)
  BY ListFacts DEF IInv
<1>9. alloted'[p] = list /\ \A q \in Virt \ {p} : alloted'[q] = alloted[q]
  BY <1>6, <1>8
<1>10. \A a \in Held' : Touches(a, p) => a \in areas
  BY <1>7 DEF Touches
<1>11. ASSUME NEW q \in Virt \ {p} PROVE PageInv(q)'
  <2>1. q \in mapped' <=> q \in mapped
    BY <1>6, <1>11 DEF FreesPage
  <2>2. alloted'[q] = alloted[q] /\ q \in Virt /\ PageInv(q) /\ Apart(q)'
    BY <1>7, <1>8, <1>9
  <2>3. /\ \A a \in Held' : Touches(a, q) => \E b \in Held : Same(a, b, q)
        /\ \A b \in Held : Touches(b, q) => \E a \in Held' : Same(a, b, q)
    BY <1>7
  <2> QED
    BY <1>8, <2>1, <2>2, <2>3, KeptPage
<1>12. ASSUME list = <<>> PROVE PageInv(p)'
  <2>1. \A a \in Held' : ~Touches(a, p)
    BY <1>5, <1>10, <1>12
  <2>2. p \notin mapped'
    BY <1>6, <1>12 DEF FreesPage
  <2>3. DOMAIN list = {}
    BY <1>12
  <2>4. Known(p)' /\ Entries(p)' /\ InUse(p)'
    BY <1>9, <1>12, <2>1, <2>2, <2>3 DEF Known, Entries, InUse
  <2> QED
    BY <1>7, <2>4 DEF PageInv
<1>13. ASSUME list # <<>> PROVE PageInv(p)'
  <2>1. p \in mapped' /\ alloted[p] # <<>>
    BY <1>5, <1>6, <1>8, <1>13 DEF FreesPage, PageInv, InUse
  <2>2. Known(p)'
    <3>1. ASSUME NEW a \in Held', Touches(a, p) PROVE Listed(a, p)'
      BY <1>5, <1>9, <1>10, <1>13, <3>1 DEF Listed
    <3> QED
      BY <3>1 DEF Known
  <2>3. Entries(p)'
    <3>1. \A i \in DOMAIN list :
            IF list[i].free THEN list[i].first = 0 /\ list[i].last = 0
            ELSE /\ list[i].first <= list[i].last
                 /\ list[i].first > 0 \/ list[i].last < PGSIZE - 1
                 /\ \E a \in Held' : Exact(a, p, list[i])
      BY <1>5, <1>7, <1>13
    <3> QED
      BY <1>9, <3>1 DEF Entries
  <2>4. InUse(p)'
    BY <1>5, <1>9, <1>13, <2>1 DEF InUse
  <2> QED
    BY <1>7, <2>2, <2>3, <2>4 DEF PageInv
<1>14. Nodes' /\ partial_pages' \in Seq(PartialNodes)
  <2>1. ASSUME NEW a \in Held', NEW q \in Virt, NEW x \in Offsets, Covers(a, q, x)
        PROVE  \E b \in Held : Covers(b, q, x)
    <3>1. CASE q = p
      BY <1>4, <1>7, <2>1, <3>1
    <3>2. CASE q # p
      <4>1. Touches(a, q) /\ q \in Virt \ {p}
        BY <2>1, <3>2 DEF Touches
      <4>2. PICK b \in Held : Same(a, b, q)
        BY <1>7, <4>1
      <4> QED
        BY <2>1, <4>2 DEF Same
    <3> QED
      BY <3>1, <3>2
  <2> QED
    BY <1>6, <2>1, RoundNodes
<1>15. mapped' \subseteq virt_bitmap' /\ virt_bitmap' \subseteq virt_bitmap /\ mapped' \subseteq mapped
  BY <1>6, <1>8 DEF FreesPage
<1>16. Typed'
  <2>1. freeing' \in {None} \cup [page : Virt, offset : 0..(PGSIZE - 1), left : 1..MaxSize]
    BY <1>1 DEF LeavesNothing, Leaves
  <2>2. alloted' \in [Virt -> Seq(Allotments)]
    BY <1>5, <1>6, <1>8
  <2> QED
    BY <1>6, <1>8, <1>14, <1>15, <2>1, <2>2 DEF Typed, Allotments, PartialNodes
<1>17. \A q \in Virt : PageInv(q)'
  BY <1>11, <1>12, <1>13
<1> QED
  BY <1>7, <1>14, <1>15, <1>16, <1>17 DEF IInv

-----------------------------------------------------------------------------
\* Requests for pages of their own.

\* The order of addresses is that of pages, then that of offsets.
LEMMA ByteOrder ==
  ASSUME NEW p \in Nat, NEW q \in Nat, NEW a \in Offsets, NEW b \in Offsets
  PROVE  Byte(p, a) <= Byte(q, b) <=> p < q \/ (p = q /\ a <= b)
<1> DEFINE x == p * PGSIZE
           y == q * PGSIZE
<1>1. PGSIZE \in Nat /\ {a, b} \subseteq 0..(PGSIZE - 1)
  BY Constants DEF Offsets
<1>2. x \in Nat /\ y \in Nat
  BY <1>1
<1>3. /\ p < q => x + PGSIZE <= y
      /\ q < p => y + PGSIZE <= x
      /\ p = q => x = y
  BY PagesInOrder
<1> HIDE DEF x, y
<1>4. x + a <= y + b <=> p < q \/ (p = q /\ a <= b)
  <2>1. CASE p = q
    BY <1>1, <1>2, <1>3, <2>1
  <2>2. CASE p < q
    BY <1>1, <1>2, <1>3, <2>2
  <2>3. CASE q < p
    BY <1>1, <1>2, <1>3, <2>3
  <2> QED
    BY <2>1, <2>2, <2>3
<1> QED
  BY <1>4 DEF x, y, Byte

\* A request takes whole pages and the rest of one more, which may be a whole page too.
LEMMA CeilFacts ==
  ASSUME NEW size \in Nat \ {0}
  PROVE  /\ CeilPages(size) \in Nat \ {0}
         /\ size - (CeilPages(size) - 1) * PGSIZE \in 1..PGSIZE
<1> DEFINE s == size + PGSIZE - 1
           n == s \div PGSIZE
           r == s % PGSIZE
           x == PGSIZE * n
<1>1. PGSIZE \in Nat /\ PGSIZE > 0 /\ size \in Nat /\ size > 0
  BY Constants
<1>2. s \in Nat /\ s >= PGSIZE
  BY <1>1
<1>3. s = x + r /\ r \in 0..(PGSIZE - 1) /\ n \in Int
  <2> HIDE DEF s
  <2> QED
    BY <1>1, <1>2
<1>4. CeilPages(size) = n
  BY DEF CeilPages
<1> HIDE DEF n, r
<1>5. (n - 1) * PGSIZE = x - PGSIZE /\ x \in Int
  BY <1>1, <1>3
<1>6. n > 0
  <2> SUFFICES ASSUME n <= 0 PROVE FALSE
    BY <1>3
  <2>1. x <= 0
    BY <1>1, <1>3
  <2> HIDE DEF x, s
  <2> QED
    BY <1>1, <1>2, <1>3, <1>5, <2>1
<1> HIDE DEF x
<1>7. size - (x - PGSIZE) = r + 1
  BY <1>1, <1>3, <1>5
<1>8. size - (n - 1) * PGSIZE \in 1..PGSIZE
  BY <1>1, <1>3, <1>5, <1>7
<1> QED
  BY <1>3, <1>4, <1>6, <1>8

\* The pages from p to l are given out; the last one keeps a part for others.
GivesPages(size, p, l, rest, N) ==
  /\ p <= l /\ p..l \subseteq Virt \ virt_bitmap
  /\ freeing = None /\ freeing' = None
  /\ virt_bitmap' = virt_bitmap \cup p..l
  /\ mapped' = mapped \cup p..l
  /\ IF rest < PGSIZE
     THEN /\ alloted' = [alloted EXCEPT ![l] = Append(@, Allotment(0, rest - 1))]
          /\ partial_pages' = Append(partial_pages, [base |-> l * PGSIZE, taken |-> rest])
     ELSE alloted' = alloted /\ partial_pages' = partial_pages
  /\ N = [va |-> Byte(p, 0), size |-> size]
  /\ Byte(p, 0) + size - 1 = Byte(l, rest - 1)
  /\ areas' = areas \cup {N}

\* A request takes consecutive pages that nobody uses.
LEMMA MallocPagesFacts ==
  ASSUME NEW size \in 1..MaxSize, MallocPages(size)
  PROVE  \E p, l \in Virt, rest \in 1..PGSIZE, N \in areas' : GivesPages(size, p, l, rest, N)
<1> DEFINE n == CeilPages(size)
           p == CHOOSE q \in Starts(n) : \A r \in Starts(n) : q <= r
           l == p + n - 1
           last == l * PGSIZE
           rest == size - (n - 1) * PGSIZE
           N == [va |-> p * PGSIZE, size |-> size]
<1>1. /\ freeing = None /\ freeing' = None
      /\ Starts(n) # {}
      /\ virt_bitmap' = virt_bitmap \cup p..l
      /\ mapped' = mapped \cup p..l
      /\ IF rest < PGSIZE
         THEN /\ alloted' = add_alloc_entry(alloted, last, rest)
              /\ partial_pages' = add_partial_page(partial_pages, last, rest)
         ELSE UNCHANGED <<alloted, partial_pages>>
      /\ areas' = areas \cup {N}
  BY DEF MallocPages, Ready
<1>2. size \in Nat \ {0} /\ PGSIZE \in Nat /\ PGSIZE > 0 /\ Virt \subseteq Nat /\ 0 \in Offsets
  BY Constants
<1>3. n \in Nat \ {0} /\ rest \in 1..PGSIZE
  BY <1>2, CeilFacts
<1>4. p \in Starts(n)
  <2>1. Starts(n) \subseteq Nat
    BY <1>2 DEF Starts
  <2>2. \E q \in Starts(n) : \A r \in Starts(n) : q <= r
    BY <1>1, <2>1, LeastOf
  <2> QED
    BY <2>2
<1> HIDE DEF p, n
<1>5. /\ p \in Virt /\ p \in Nat
      /\ \A k \in 0..(n - 1) : p + k \in Virt \ virt_bitmap
  BY <1>2, <1>4 DEF Starts
<1>6. l = p + (n - 1) /\ l \in Virt /\ l \in Nat /\ p <= l
  <2>1. l = p + (n - 1)
    BY <1>3, <1>5
  <2>2. n - 1 \in 0..(n - 1)
    BY <1>3
  <2> QED
    BY <1>2, <1>3, <1>5, <2>1, <2>2
<1>7. p..l \subseteq Virt \ virt_bitmap
  <2> SUFFICES ASSUME NEW q \in p..l PROVE q \in Virt \ virt_bitmap
    OBVIOUS
  <2>1. q - p \in 0..(n - 1) /\ p + (q - p) = q
    BY <1>3, <1>5, <1>6
  <2> QED
    BY <1>5, <2>1
<1>8. N = [va |-> Byte(p, 0), size |-> size]
  <2>1. Byte(p, 0) = p * PGSIZE
    BY <1>2, <1>5, ByteFacts
  <2> QED
    BY <2>1
<1> HIDE DEF l
<1>9. last = Byte(l, 0) /\ PageOf(last) = l /\ OffsetOf(last) = 0
  <2>1. Byte(l, 0) = last + 0 /\ last \in Nat
    BY <1>2, <1>6, ByteFacts
  <2>2. Byte(l, 0) = last
    BY <2>1
  <2> QED
    BY <1>2, <1>6, <2>2, ByteFacts
<1>10. Byte(p, 0) + size - 1 = Byte(l, rest - 1)
  <2> DEFINE x == p * PGSIZE
             d == (n - 1) * PGSIZE
  <2>1. x \in Nat /\ d \in Int /\ l * PGSIZE = x + d
    BY <1>2, <1>3, <1>5, <1>6
  <2>2. rest = size - d
    OBVIOUS
  <2> HIDE DEF x, d, rest
  <2>3. x + 0 + size - 1 = (x + d) + (rest - 1)
    BY <1>2, <1>3, <2>1, <2>2
  <2> QED
    BY <2>1, <2>3 DEF x, Byte
<1> HIDE DEF rest
<1>11. IF rest < PGSIZE
       THEN /\ alloted' = [alloted EXCEPT ![l] = Append(@, Allotment(0, rest - 1))]
            /\ partial_pages' = Append(partial_pages, [base |-> l * PGSIZE, taken |-> rest])
       ELSE alloted' = alloted /\ partial_pages' = partial_pages
  <2>1. add_alloc_entry(alloted, last, rest) = [alloted EXCEPT ![l] = Append(@, Allotment(0, 0 + rest - 1))]
    BY <1>9 DEF add_alloc_entry
  <2>2. 0 + rest - 1 = rest - 1
    BY <1>3
  <2>3. add_partial_page(partial_pages, last, rest) = Append(partial_pages, [base |-> last, taken |-> rest])
    BY DEF add_partial_page
  <2> QED
    BY <1>1, <2>1, <2>2, <2>3
<1>12. N \in areas'
  BY <1>1
<1> HIDE DEF last, N
<1>13. GivesPages(size, p, l, rest, N)
  BY <1>1, <1>6, <1>7, <1>8, <1>10, <1>11 DEF GivesPages
<1> QED
  BY <1>3, <1>5, <1>6, <1>12, <1>13

\* An area that starts at a page: all of its pages, and the first bytes of the last one.
LEMMA PagesOfArea ==
  ASSUME NEW size \in 1..MaxSize, NEW p \in Virt, NEW l \in Virt, p <= l, NEW rest \in 1..PGSIZE,
         NEW N, N = [va |-> Byte(p, 0), size |-> size],
         Byte(p, 0) + size - 1 = Byte(l, rest - 1)
  PROVE  /\ N.va \in Nat /\ N.size \in Nat \ {0} /\ OffsetOf(N.va) = 0
         /\ N.va + N.size <= NumPages * PGSIZE
         /\ N \in [va : 0..(NumPages * PGSIZE - 1), size : 1..MaxSize]
         /\ \A q \in Virt, x \in Offsets :
              Covers(N, q, x) <=> q \in p..l /\ (q = l => x <= rest - 1)
<1> DEFINE n == NumPages * PGSIZE
           y == l * PGSIZE
           hi == rest - 1
<1>1. /\ PGSIZE \in Nat /\ PGSIZE > 0 /\ NumPages \in Nat /\ Virt \subseteq Nat /\ 0 \in Offsets
      /\ size \in Nat /\ size > 0 /\ Offsets \subseteq Nat
  BY Constants
<1>2. p \in Nat /\ l \in Nat /\ hi \in Offsets /\ n \in Nat
  BY <1>1 DEF Offsets
<1>3. N.va = Byte(p, 0) /\ N.size = size
  OBVIOUS
<1>4. N.va \in Nat /\ OffsetOf(N.va) = 0
  BY <1>1, <1>2, <1>3, ByteFacts
<1>5. N.va + N.size - 1 = Byte(l, hi)
  BY <1>3
<1>6. N.va + N.size <= n
  <2>1. y + PGSIZE <= n /\ y \in Nat
    BY PageInside
  <2>2. N.va + N.size - 1 = y + hi
    BY <1>5 DEF Byte
  <2>3. hi \in 0..(PGSIZE - 1)
    BY <1>2 DEF Offsets
  <2> HIDE DEF y, hi, n
  <2>4. N.size \in Nat
    BY <1>1, <1>3
  <2> QED
    BY <1>1, <1>2, <1>4, <2>1, <2>2, <2>3, <2>4
<1>7. ASSUME NEW q \in Virt, NEW x \in Offsets
      PROVE  Covers(N, q, x) <=> q \in p..l /\ (q = l => x <= rest - 1)
  <2>1. q \in Nat /\ x \in Nat
    BY <1>1
  <2>2. N.va <= Byte(q, x) <=> p <= q
    <3>1. Byte(p, 0) <= Byte(q, x) <=> p < q \/ (p = q /\ 0 <= x)
      BY <1>1, <1>2, <2>1, ByteOrder
    <3> QED
      BY <1>2, <1>3, <2>1, <3>1
  <2>3. Byte(q, x) <= N.va + N.size - 1 <=> q < l \/ (q = l /\ x <= hi)
    BY <1>2, <1>5, <2>1, ByteOrder
  <2> QED
    BY <1>2, <2>1, <2>2, <2>3 DEF Covers
<1>8. N \in [va : 0..(n - 1), size : 1..MaxSize]
  <2> HIDE DEF n
  <2>1. N.va \in 0..(n - 1)
    BY <1>1, <1>2, <1>3, <1>4, <1>6
  <2>2. N = [va |-> N.va, size |-> size]
    BY <1>3
  <2> QED
    BY <2>1, <2>2
<1> QED
  BY <1>1, <1>3, <1>4, <1>6, <1>7, <1>8

\* A request for pages of its own keeps the invariant.
LEMMA MallocPagesInv ==
  ASSUME IInv, NEW size \in 1..MaxSize, MallocPages(size) PROVE IInv'
<1>1. PICK p \in Virt, l \in Virt, rest \in 1..PGSIZE, N \in areas' : GivesPages(size, p, l, rest, N)
  BY MallocPagesFacts
<1>2. /\ p <= l /\ p..l \subseteq Virt \ virt_bitmap
      /\ freeing = None /\ freeing' = None
      /\ virt_bitmap' = virt_bitmap \cup p..l
      /\ mapped' = mapped \cup p..l
      /\ N = [va |-> Byte(p, 0), size |-> size]
      /\ Byte(p, 0) + size - 1 = Byte(l, rest - 1)
      /\ areas' = areas \cup {N}
  BY <1>1 DEF GivesPages
<1>3. \/ /\ rest < PGSIZE
         /\ alloted' = [alloted EXCEPT ![l] = Append(@, Allotment(0, rest - 1))]
         /\ partial_pages' = Append(partial_pages, [base |-> l * PGSIZE, taken |-> rest])
      \/ rest = PGSIZE /\ alloted' = alloted /\ partial_pages' = partial_pages
  BY <1>1, Constants DEF GivesPages
<1>4. /\ Typed /\ Placed /\ Nodes /\ mapped \subseteq virt_bitmap /\ \A q \in Virt : PageInv(q)
  BY DEF IInv
<1>5. /\ partial_pages \in Seq(PartialNodes) /\ alloted \in [Virt -> Seq(Allotments)]
      /\ PGSIZE \in Nat /\ PGSIZE > 0 /\ p \in Nat /\ l \in Nat /\ Distinct(partial_pages)
  BY <1>4, NodeType, ListFacts, Constants DEF Nodes, Distinct
<1>6. Held = areas /\ Held' = Held \cup {N}
  BY <1>2 DEF Held
<1>7. /\ N.va \in Nat /\ N.size \in Nat \ {0} /\ OffsetOf(N.va) = 0
      /\ N.va + N.size <= NumPages * PGSIZE
      /\ N \in [va : 0..(NumPages * PGSIZE - 1), size : 1..MaxSize]
      /\ \A q \in Virt, x \in Offsets : Covers(N, q, x) <=> q \in p..l /\ (q = l => x <= rest - 1)
  BY <1>2, PagesOfArea
<1>8. ASSUME NEW q \in p..l
      PROVE  /\ q \in Virt /\ q \in mapped' /\ q \notin mapped /\ alloted[q] = <<>>
             /\ \A b \in Held : ~Touches(b, q)
  BY <1>2, <1>4 DEF PageInv, InUse
<1>9. \A q \in Virt : Apart(q)'
  <2> SUFFICES ASSUME NEW q \in Virt, NEW a \in Held', NEW b \in Held', NEW x \in Offsets,
                      Covers(a, q, x), Covers(b, q, x)
               PROVE  a = b
    BY DEF Apart
  <2>1. ASSUME NEW c \in Held, Covers(c, q, x), Covers(N, q, x) PROVE FALSE
    BY <1>7, <1>8, <2>1 DEF Touches
  <2>2. CASE a \in Held /\ b \in Held
    BY <1>4, <2>2 DEF PageInv, Apart
  <2> QED
    BY <1>6, <2>1, <2>2
<1>10. l \in p..l /\ 0 \in Offsets /\ \A q \in p..l : q \in Nat
  BY <1>2, <1>5, Constants
<1>11. ASSUME NEW q \in Virt, q \notin p..l PROVE PageInv(q)' /\ alloted'[q] = alloted[q]
  <2>1. alloted'[q] = alloted[q]
    BY <1>3, <1>5, <1>10, <1>11
  <2>2. q \in mapped' <=> q \in mapped
    BY <1>2, <1>11
  <2>3. ~Touches(N, q)
    BY <1>7, <1>11 DEF Touches
  <2>4. /\ \A a \in Held' : Touches(a, q) => \E b \in Held : Same(a, b, q)
        /\ \A b \in Held : Touches(b, q) => \E a \in Held' : Same(a, b, q)
    BY <1>6, <2>3 DEF Same
  <2>5. PageInv(q) /\ Apart(q)'
    BY <1>4, <1>9
  <2> QED
    BY <1>4, <2>1, <2>2, <2>4, <2>5, KeptPage
<1>12. ASSUME NEW q \in p..l, alloted'[q] = <<>>, q # l \/ rest = PGSIZE PROVE PageInv(q)'
  <2>1. Fills(N, q)
    <3>1. ASSUME NEW x \in Offsets PROVE Covers(N, q, x)
      <4>1. q \in Virt /\ x <= PGSIZE - 1
        BY <1>5, <1>8 DEF Offsets
      <4> QED
        BY <1>7, <1>12, <4>1
    <3> QED
      BY <3>1 DEF Fills
  <2>2. Known(q)'
    BY <1>6, <1>8, <1>12, <2>1 DEF Known
  <2>3. DOMAIN alloted'[q] = {}
    BY <1>12
  <2>4. Entries(q)'
    BY <2>3 DEF Entries
  <2>5. InUse(q)'
    BY <1>6, <1>8, <1>12, <2>1, <2>3 DEF InUse
  <2>6. Apart(q)'
    BY <1>8, <1>9
  <2> QED
    BY <2>2, <2>4, <2>5, <2>6 DEF PageInv
<1>13. ASSUME rest < PGSIZE
       PROVE  PageInv(l)' /\ alloted'[l] # <<>> /\ alloted'[l] \in Seq(Allotments)
  <2>1. alloted'[l] = Append(alloted[l], Allotment(0, rest - 1))
    BY <1>3, <1>5, <1>13
  <2>2. rest - 1 \in Offsets /\ 0 <= rest - 1 /\ rest - 1 < PGSIZE - 1
    BY <1>5, <1>13 DEF Offsets
  <2>3. /\ l \in mapped' /\ ~ \E b \in Held : Touches(b, l)
    BY <1>8, <1>10
  <2>4. \A x \in Offsets : Covers(N, l, x) <=> 0 <= x /\ x <= rest - 1
    BY <1>7, <1>10, Constants
  <2>5. PageInv(l) /\ Apart(l)' /\ Held' = Held \cup {N}
    BY <1>4, <1>6, <1>9
  <2> QED
    BY <1>4, <1>10, <2>1, <2>2, <2>3, <2>4, <2>5, ListedPage
<1>14. \A q \in Virt : PageInv(q)'
  <2> SUFFICES ASSUME NEW q \in Virt PROVE PageInv(q)'
    OBVIOUS
  <2>1. CASE q \notin p..l
    BY <1>11, <2>1
  <2>2. CASE q = l
    <3>1. CASE rest < PGSIZE
      BY <1>13, <2>2, <3>1
    <3>2. CASE rest = PGSIZE
      <4>1. alloted'[l] = <<>>
        BY <1>3, <1>5, <1>8, <1>10, <3>2
      <4> QED
        BY <1>10, <1>12, <2>2, <3>2, <4>1
    <3> QED
      BY <1>3, <3>1, <3>2
  <2>3. CASE q \in p..l /\ q # l
    <3>1. alloted'[q] = <<>>
      BY <1>3, <1>5, <1>8, <2>3
    <3> QED
      BY <1>12, <2>3, <3>1
  <2> QED
    BY <2>1, <2>2, <2>3
<1>15. ASSUME NEW x, NEW j \in DOMAIN partial_pages, x = partial_pages[j]
       PROVE  /\ x.base # l * PGSIZE
              /\ \E q \in Virt : Offers(x, q)'
  <2>1. PICK q \in Virt : Offers(x, q)
    BY <1>4, <1>15 DEF Nodes
  <2>2. q \notin p..l /\ q \in mapped' /\ x.base = q * PGSIZE /\ alloted[q] # <<>>
    BY <1>2, <1>8, <2>1 DEF Offers
  <2>3. alloted'[q] # <<>>
    BY <1>11, <2>2
  <2>4. \A a \in Held', o \in Offsets : Covers(a, q, o) => \E b \in Held : Covers(b, q, o)
    BY <1>6, <1>7, <2>2
  <2>5. q # l
    BY <1>10, <2>2
  <2>6. q * PGSIZE # l * PGSIZE
    BY <2>5, BaseOfPage
  <2> QED
    BY <2>1, <2>2, <2>3, <2>4, <2>6, KeptOffer
<1>16. partial_pages' \in Seq(PartialNodes) /\ Nodes'
  <2>1. CASE partial_pages' = partial_pages
    BY <1>5, <1>15, <2>1, NodesFrom
  <2>2. CASE rest < PGSIZE /\ partial_pages' = Append(partial_pages, [base |-> l * PGSIZE, taken |-> rest])
    <3>1. PICK e : e = [base |-> l * PGSIZE, taken |-> rest]
      OBVIOUS
    <3>2. e \in PartialNodes /\ e.base = l * PGSIZE /\ e.taken = rest
      BY <3>1 DEF PartialNodes
    <3>3. /\ partial_pages' \in Seq(PartialNodes)
          /\ DOMAIN partial_pages' = DOMAIN partial_pages \cup {Len(partial_pages) + 1}
          /\ partial_pages'[Len(partial_pages) + 1] = e
          /\ \A i \in DOMAIN partial_pages : partial_pages'[i] = partial_pages[i]
      BY <1>5, <2>2, <3>1, <3>2, AppendedNode
    <3>4. Offers(e, l)'
      <4>1. ASSUME NEW a \in Held', NEW x \in Offsets, Covers(a, l, x) PROVE x <= rest
        <5>1. ~Touches(a, l) \/ a = N
          BY <1>6, <1>8, <1>10
        <5>2. Covers(N, l, x)
          BY <4>1, <5>1 DEF Touches
        <5>3. x <= rest - 1 /\ x \in Nat
          BY <1>7, <5>2, Constants
        <5> QED
          BY <5>3
      <4>2. l \in mapped' /\ alloted'[l] # <<>>
        BY <1>8, <1>10, <1>13, <2>2
      <4>3. rest \in 1..(PGSIZE - 1)
        BY <1>5, <2>2
      <4> QED
        BY <3>2, <4>1, <4>2, <4>3 DEF Offers
    <3>5. Distinct(partial_pages')
      BY <1>5, <1>15, <3>2, <3>3 DEF Distinct
    <3>6. ASSUME NEW x, NEW k \in DOMAIN partial_pages', x = partial_pages'[k]
          PROVE  \E q \in Virt : Offers(x, q)'
      <4>1. CASE x = e
        BY <3>4, <4>1
      <4>2. CASE k \in DOMAIN partial_pages
        BY <1>15, <3>3, <3>6, <4>2
      <4> QED
        BY <3>3, <3>6, <4>1, <4>2
    <3> QED
      BY <3>3, <3>5, <3>6, NodesFrom
  <2> QED
    BY <1>3, <2>1, <2>2
<1>17. Placed'
  BY <1>4, <1>6, <1>7 DEF Placed
<1>18. Typed'
  <2>1. alloted' \in [Virt -> Seq(Allotments)]
    BY <1>3, <1>5, <1>13
  <2>2. areas' \subseteq [va : 0..(NumPages * PGSIZE - 1), size : 1..MaxSize]
    BY <1>2, <1>4, <1>7 DEF Typed
  <2> QED
    BY <1>2, <1>4, <1>16, <2>1, <2>2 DEF Typed, Allotments, PartialNodes
<1>19. mapped' \subseteq virt_bitmap'
  BY <1>2, <1>4
<1> QED
  BY <1>2, <1>14, <1>16, <1>17, <1>18, <1>19 DEF IInv

-----------------------------------------------------------------------------
\* What the invariant says of areas and nodes.

\* Two areas of clients have no byte in common, and their pages are mapped.
LEMMA ApartFromInv ==
  ASSUME IInv
  PROVE  /\ \A a, b \in areas : a # b => Bytes(a) \cap Bytes(b) = {}
         /\ \A a \in areas : \A x \in Bytes(a) : PageOf(x) \in mapped
<1>1. Placed /\ areas \subseteq Held /\ \A p \in Virt : PageInv(p)
  BY DEF IInv, Held
<1>2. ASSUME NEW a \in areas, NEW x \in Bytes(a)
      PROVE  /\ PageOf(x) \in Virt /\ OffsetOf(x) \in Offsets /\ a \in Held
             /\ Covers(a, PageOf(x), OffsetOf(x))
  <2>1. a \in Held /\ a.va \in Nat /\ a.size \in Nat
    BY <1>1 DEF Placed
  <2>2. x \in Nat /\ a.va <= x /\ x <= a.va + a.size - 1
    BY <1>2, <2>1 DEF Bytes
  <2> QED
    BY <1>1, <2>1, <2>2, ByteOfArea
<1>3. ASSUME NEW a \in areas, NEW b \in areas, NEW x \in Bytes(a), x \in Bytes(b) PROVE a = b
  BY <1>1, <1>2, <1>3 DEF PageInv, Apart
<1>4. ASSUME NEW a \in areas, NEW x \in Bytes(a) PROVE PageOf(x) \in mapped
  BY <1>1, <1>2, <1>4 DEF PageInv, InUse, Touches
<1> QED
  BY <1>3, <1>4

\* What a node of the list offers belongs to nobody.
LEMMA PartialFromInv ==
  ASSUME IInv PROVE PartialPagesLive
<1>1. /\ Placed /\ areas \subseteq Held /\ Nodes /\ partial_pages \in Seq(PartialNodes)
  BY NodeType DEF IInv, Held
<1>2. ASSUME NEW i \in DOMAIN partial_pages
      PROVE  LET node == partial_pages[i]
             IN  /\ PageOf(node.base) \in mapped
                 /\ alloted[PageOf(node.base)] # <<>>
                 /\ \A j \in DOMAIN partial_pages : partial_pages[j].base = node.base => j = i
                 /\ \A a \in areas : Bytes(a) \cap PartialAddress(node)..(node.base + PGSIZE - 1) = {}
  <2> DEFINE node == partial_pages[i]
             t == node.taken
  <2>1. PICK p \in Virt : Offers(node, p)
    BY <1>1 DEF Nodes
  <2>2. /\ node.base = p * PGSIZE /\ p \in mapped /\ alloted[p] # <<>> /\ t \in 1..(PGSIZE - 1)
        /\ \A a \in Held, o \in Offsets : Covers(a, p, o) => o <= t
    BY <2>1 DEF Offers
  <2>3. p \in Nat /\ PGSIZE \in Nat /\ PGSIZE > 0 /\ 0 \in Offsets /\ p * PGSIZE \in Nat
    BY Constants, PageInside
  <2> HIDE DEF node
  <2>4. PageOf(node.base) = p
    <3>1. PageOf(Byte(p, 0)) = p /\ Byte(p, 0) = p * PGSIZE + 0
      BY <2>3, ByteFacts
    <3>2. Byte(p, 0) = node.base
      BY <2>2, <2>3, <3>1
    <3> QED
      BY <3>1, <3>2
  <2>5. \A j \in DOMAIN partial_pages : partial_pages[j].base = node.base => j = i
    BY <1>1 DEF Nodes, node
  <2>6. ASSUME NEW a \in areas, NEW x \in Bytes(a), x \in PartialAddress(node)..(node.base + PGSIZE - 1)
        PROVE  FALSE
    <3> DEFINE y == p * PGSIZE
               o == x - y
    <3>1. a \in Held /\ a.va \in Nat /\ a.size \in Nat
      BY <1>1 DEF Placed
    <3>2. x \in Nat /\ a.va <= x /\ x <= a.va + a.size - 1
      BY <2>6, <3>1 DEF Bytes
    <3>3. y \in Nat /\ node.base = y /\ x \in (y + t + 1)..(y + PGSIZE - 1)
      BY <2>2, <2>3, <2>6 DEF PartialAddress
    <3>4. o \in Offsets /\ o > t /\ o \in Nat /\ x = y + o
      <4> HIDE DEF y, t
      <4> QED
        BY <2>2, <2>3, <3>2, <3>3 DEF Offsets
    <3> HIDE DEF o
    <3>5. Covers(a, p, o)
      BY <3>2, <3>4 DEF Covers, Byte
    <3>6. o <= t /\ t \in Nat
      BY <2>2, <3>1, <3>4, <3>5
    <3> HIDE DEF t
    <3> QED
      BY <3>4, <3>6
  <2>7. \A a \in areas : Bytes(a) \cap PartialAddress(node)..(node.base + PGSIZE - 1) = {}
    BY <2>6
  <2> QED
    BY <2>2, <2>4, <2>5, <2>7 DEF node
<1> QED
  BY <1>2 DEF PartialPagesLive

-----------------------------------------------------------------------------
\* A request for all that is left of a page.

\* The type invariant, and what no area shares or leaves unmapped before such a request.
LEMMA TypedIsType ==
  ASSUME Typed, spilt = {} PROVE TypeOK
<1> DEFINE A == [first : 0..(PGSIZE - 1), last : 0..(PGSIZE - 1), free : BOOLEAN]
           B == [first : 0..(PGSIZE - 1), last : 0..PGSIZE, free : BOOLEAN]
<1>1. PGSIZE \in Nat /\ NumPages * PGSIZE \in Nat
  BY Constants
<1>2. A \subseteq B
  BY <1>1
<1>3. Seq(A) \subseteq Seq(B)
  <2> HIDE DEF A, B
  <2> QED
    BY <1>2
<1>4. alloted \in [Virt -> Seq(B)]
  <2>1. alloted \in [Virt -> Seq(A)]
    BY DEF Typed
  <2> HIDE DEF A, B
  <2> QED
    BY <1>3, <2>1
<1>5. areas \subseteq [va : 0..(NumPages * PGSIZE), size : 1..MaxSize]
  <2> DEFINE n == NumPages * PGSIZE
  <2>1. areas \subseteq [va : 0..(n - 1), size : 1..MaxSize] /\ n \in Nat
    BY <1>1 DEF Typed
  <2> HIDE DEF n
  <2>2. 0..(n - 1) \subseteq 0..n
    BY <2>1
  <2>3. [va : 0..(n - 1), size : 1..MaxSize] \subseteq [va : 0..n, size : 1..MaxSize]
    BY <2>2
  <2> QED
    BY <2>1, <2>3 DEF n
<1> QED
  BY <1>4, <1>5 DEF Typed, TypeOK

\* It reaches one byte behind the page of its node.
LEMMA SpillFacts ==
  ASSUME IInv, NEW size \in 1..MaxSize, MallocPartial(size), spilt' # {}
  PROVE  \E i \in DOMAIN partial_pages, p \in Virt, t \in 1..(PGSIZE - 1), a \in Nat, x \in Nat :
           /\ Offers(partial_pages[i], p) /\ t = partial_pages[i].taken
           /\ x = p * PGSIZE /\ x + PGSIZE <= NumPages * PGSIZE
           /\ size = PGSIZE - t /\ a = x + t + 1 /\ a = PartialAddress(partial_pages[i])
           /\ spilt' = {x + PGSIZE}
           /\ areas' = areas \cup {[va |-> a, size |-> size]}
           /\ alloted' = add_alloc_entry(alloted, a % (NumPages * PGSIZE), size)
           /\ partial_pages' = update_partial_list(partial_pages, a % (NumPages * PGSIZE), size)
           /\ freeing = None /\ freeing' = None /\ UNCHANGED <<virt_bitmap, mapped>>
<1>1. PICK i \in DOMAIN partial_pages, p \in Virt, t \in 1..(PGSIZE - 1), a \in Nat :
           /\ Offers(partial_pages[i], p) /\ t = partial_pages[i].taken
           /\ PGSIZE - t >= size
           /\ a = Byte(p, t + 1) /\ a = PartialAddress(partial_pages[i])
           /\ areas' = areas \cup {[va |-> a, size |-> size]}
           /\ alloted' = add_alloc_entry(alloted, a % (NumPages * PGSIZE), size)
           /\ partial_pages' = update_partial_list(partial_pages, a % (NumPages * PGSIZE), size)
           /\ spilt' = Behind(a, size, partial_pages[i])
           /\ Ready /\ freeing' = None /\ UNCHANGED <<virt_bitmap, mapped>>
  BY MallocPartialPlace
<1> DEFINE x == p * PGSIZE
<1>2. x \in Nat /\ partial_pages[i].base = x /\ x + PGSIZE <= NumPages * PGSIZE
  BY <1>1, PageInside DEF Offers
<1>3. a = x + t + 1
  BY <1>1, <1>2 DEF Byte
<1>4. PGSIZE \in Nat /\ size \in Nat /\ size > 0
  BY Constants
<1> HIDE DEF x
<1>5. \A b \in spilt' : b \in Int /\ b <= a + size - 1 /\ b >= x + PGSIZE
  BY <1>1, <1>2, <1>4 DEF Behind
<1>6. PICK b \in spilt' : TRUE
  OBVIOUS
<1>7. size = PGSIZE - t
  BY <1>1, <1>2, <1>3, <1>4, <1>5, <1>6
<1>8. \A c \in spilt' : c = x + PGSIZE
  BY <1>2, <1>3, <1>4, <1>5, <1>7
<1>9. spilt' = {x + PGSIZE}
  BY <1>6, <1>8
<1> QED
  BY <1>1, <1>2, <1>3, <1>7, <1>9 DEF x, Ready

\* Where the bookkeeping files it: in its page, or, if it is only the byte behind the page, in
\* the next page or the first one.
LEMMA SpillPlace ==
  ASSUME NEW p \in Virt, NEW t \in 1..(PGSIZE - 1), NEW x \in Nat, x = p * PGSIZE,
         NEW w, w = (x + t + 1) % (NumPages * PGSIZE)
  PROVE  /\ PageOf(w) \in Virt /\ Base(w) = PageOf(w) * PGSIZE
         /\ IF t < PGSIZE - 1 THEN PageOf(w) = p /\ OffsetOf(w) = t + 1 ELSE OffsetOf(w) = 0
<1> DEFINE n == NumPages * PGSIZE
           a == x + t + 1
<1>1. /\ PGSIZE \in Nat /\ PGSIZE > 0 /\ n \in Nat /\ p \in Nat /\ x + PGSIZE <= n
      /\ NumPages \in Nat /\ NumPages > 0 /\ p < NumPages
  <2>1. PGSIZE \in Nat /\ PGSIZE > 0 /\ NumPages \in Nat /\ NumPages > 0
    BY Constants
  <2> QED
    BY <2>1, PageInside DEF Virt
<1>2. CASE t < PGSIZE - 1
  <2>1. a % n = a
    <3> HIDE DEF n
    <3>1. a \in Nat /\ a < n
      BY <1>1, <1>2
    <3> QED
      BY <1>1, <3>1
  <2>2. t + 1 \in Offsets /\ a = Byte(p, t + 1)
    <3>1. a = x + (t + 1)
      BY <1>1
    <3> QED
      BY <1>1, <1>2, <3>1 DEF Offsets, Byte
  <2> QED
    BY <1>1, <1>2, <2>1, <2>2, ByteFacts
<1>3. CASE t = PGSIZE - 1
  <2>1. a = x + PGSIZE /\ 0 \in Offsets
    BY <1>1, <1>3, Constants
  <2>2. CASE p + 1 \in Virt
    <3>1. p + 1 \in Nat /\ (p + 1) * PGSIZE = a /\ (p + 1) * PGSIZE + PGSIZE <= n
      <4>1. (p + 1) * PGSIZE = x + PGSIZE
        BY <1>1
      <4> QED
        BY <2>1, <2>2, <4>1, PageInside
    <3>2. a % n = a
      <4> HIDE DEF n
      <4>1. a \in Nat /\ a < n
        <5>1. a + PGSIZE <= n
          BY <3>1
        <5> QED
          BY <1>1, <2>1, <5>1
      <4> QED
        BY <1>1, <4>1
    <3>3. a = Byte(p + 1, 0)
      BY <1>1, <2>1, <3>1 DEF Byte
    <3> QED
      BY <1>3, <2>1, <2>2, <3>1, <3>2, <3>3, ByteFacts
  <2>3. CASE p + 1 \notin Virt
    <3>1. p + 1 = NumPages
      BY <1>1, <2>3 DEF Virt
    <3>2. a = n
      <4>1. (p + 1) * PGSIZE = x + PGSIZE
        BY <1>1
      <4> QED
        BY <2>1, <3>1, <4>1
    <3>3. n > 0 /\ a % n = 0
      <4>1. n > 0
        BY <1>1
      <4> HIDE DEF n
      <4> QED
        BY <1>1, <3>2, <4>1
    <3>4. Byte(0, 0) = 0 /\ 0 \in Virt
      BY <1>1, Constants DEF Byte
    <3> QED
      BY <1>3, <2>1, <3>3, <3>4, ByteFacts
  <2> QED
    BY <2>2, <2>3
<1> QED
  BY <1>1, <1>2, <1>3

\* The nodes after it: those from before, with the same bases and no fewer bytes taken; its own
\* offers nothing any more.
LEMMA SpillNodes ==
  ASSUME Typed, Nodes, NEW i \in DOMAIN partial_pages, NEW p \in Virt, Offers(partial_pages[i], p),
         NEW t \in 1..(PGSIZE - 1), t = partial_pages[i].taken,
         NEW size \in Nat, size = PGSIZE - t,
         NEW w, Base(w) = PageOf(w) * PGSIZE, PageOf(w) \in Virt, t < PGSIZE - 1 => PageOf(w) = p,
         NEW list, list = update_partial_list(partial_pages, w, size)
  PROVE  /\ list \in Seq(PartialNodes) /\ Distinct(list)
         /\ \A k \in DOMAIN list : \E j \in DOMAIN partial_pages :
              /\ list[k].base = partial_pages[j].base
              /\ list[k].taken \in Nat /\ list[k].taken >= partial_pages[j].taken
              /\ j = i => list[k].taken >= PGSIZE - 1
<1> DEFINE m == PlaceOf(partial_pages, Base(w))
<1>1. /\ partial_pages \in Seq(PartialNodes) /\ Distinct(partial_pages)
      /\ PGSIZE \in Nat /\ size > 0 /\ \A j \in DOMAIN partial_pages : partial_pages[j].taken \in 1..(PGSIZE - 1)
  <2>1. partial_pages \in Seq(PartialNodes)
    BY NodeType
  <2>2. Distinct(partial_pages)
    BY DEF Nodes, Distinct
  <2>3. PGSIZE \in Nat /\ size > 0
    BY Constants
  <2>4. ASSUME NEW j \in DOMAIN partial_pages
        PROVE  partial_pages[j].taken \in 1..(PGSIZE - 1)
    <3>1. PICK q \in Virt : Offers(partial_pages[j], q)
      BY DEF Nodes
    <3> QED
      BY <3>1 DEF Offers
  <2> QED
    BY <2>1, <2>2, <2>3, <2>4
<1>2. /\ m # 0 => m \in DOMAIN partial_pages /\ partial_pages[m].base = Base(w)
      /\ m = i \/ t = PGSIZE - 1
  <2>1. m # 0 => m \in DOMAIN partial_pages /\ partial_pages[m].base = Base(w)
    BY <1>1, PlaceFacts
  <2>2. partial_pages[i].base = p * PGSIZE
    BY DEF Offers
  <2>3. t < PGSIZE - 1 => m = i
    BY <2>2, FoundNode
  <2> QED
    BY <1>1, <2>1, <2>3
<1> HIDE DEF m
<1>3. \/ list = partial_pages /\ m = 0
      \/ m # 0 /\ list = RemoveAt(partial_pages, m)
      \/ m # 0 /\ list = [partial_pages EXCEPT ![m].taken = @ + size]
  BY DEF update_partial_list, m
<1>4. \A j \in DOMAIN partial_pages : /\ partial_pages[j].taken \in Nat
                                      /\ m = 0 \/ m # i => (j = i => partial_pages[j].taken >= PGSIZE - 1)
  BY <1>1, <1>2
<1>5. CASE list = partial_pages /\ m = 0
  BY <1>1, <1>4, <1>5
<1>6. CASE m # 0 /\ list = RemoveAt(partial_pages, m)
  <2>1. /\ list \in Seq(PartialNodes) /\ Distinct(list)
        /\ \A k \in DOMAIN list : \E j \in DOMAIN partial_pages : j # m /\ list[k] = partial_pages[j]
    BY <1>1, <1>2, <1>6, RemovedNode
  <2>2. ASSUME NEW k \in DOMAIN list
        PROVE  \E j \in DOMAIN partial_pages :
                 /\ list[k].base = partial_pages[j].base
                 /\ list[k].taken \in Nat /\ list[k].taken >= partial_pages[j].taken
                 /\ j = i => list[k].taken >= PGSIZE - 1
    <3>1. PICK j \in DOMAIN partial_pages : j # m /\ list[k] = partial_pages[j]
      BY <2>1
    <3> QED
      BY <1>4, <3>1
  <2> QED
    BY <2>1, <2>2
<1>7. CASE m # 0 /\ list = [partial_pages EXCEPT ![m].taken = @ + size]
  <2> DEFINE s == partial_pages[m].taken + size
  <2>1. m \in DOMAIN partial_pages /\ partial_pages[m] \in PartialNodes
    BY <1>1, <1>2, <1>7
  <2>2. PICK e : e = [partial_pages[m] EXCEPT !.taken = @ + size]
    OBVIOUS
  <2>3. s \in 1..PGSIZE /\ s >= partial_pages[m].taken /\ (m = i => s >= PGSIZE - 1)
    <3>1. partial_pages[m].taken \in 1..(PGSIZE - 1)
      BY <1>1, <2>1
    <3>2. PICK c \in Nat : c = partial_pages[m].taken /\ c \in 1..(PGSIZE - 1)
      BY <1>1, <3>1
    <3>3. (m = i /\ c = t) \/ t = PGSIZE - 1
      BY <1>2, <3>2
    <3>4. c + size \in 1..PGSIZE /\ c + size >= c /\ (m = i => c + size >= PGSIZE - 1)
      <4>1. m = i => c = t
        BY <3>2
      <4>2. PGSIZE \in Nat /\ size \in Nat /\ size > 0
        BY <1>1
      <4>3. CASE m = i
        BY <3>2, <4>1, <4>2, <4>3
      <4>4. CASE m # i
        <5>1. t = PGSIZE - 1 /\ size = 1
          BY <3>3, <4>2, <4>4
        <5> QED
          BY <3>2, <4>2, <4>4, <5>1
      <4> QED
        BY <4>3, <4>4
    <3> QED
      BY <3>2, <3>4
  <2>4. e.base = partial_pages[m].base /\ e.taken = s /\ e \in PartialNodes
    <3>1. e.base = partial_pages[m].base /\ e.taken = s /\ e = [base |-> e.base, taken |-> e.taken]
      BY <2>1, <2>2 DEF PartialNodes
    <3>2. e.base \in {q * PGSIZE : q \in Virt}
      BY <2>1, <3>1 DEF PartialNodes
    <3> QED
      BY <2>3, <3>1, <3>2 DEF PartialNodes
  <2>5. list = [partial_pages EXCEPT ![m] = e]
    BY <1>7, <2>2
  <2>6. /\ list \in Seq(PartialNodes) /\ DOMAIN list = DOMAIN partial_pages /\ list[m] = e
        /\ \A j \in DOMAIN partial_pages \ {m} : list[j] = partial_pages[j]
    BY <1>1, <2>1, <2>4, <2>5, ChangedNode
  <2>7. \A j \in DOMAIN partial_pages : list[j].base = partial_pages[j].base
    BY <2>4, <2>6
  <2>8. Distinct(list)
    BY <1>1, <2>6, <2>7 DEF Distinct
  <2>9. ASSUME NEW k \in DOMAIN list
        PROVE  /\ list[k].taken \in Nat /\ list[k].taken >= partial_pages[k].taken
               /\ k = i => list[k].taken >= PGSIZE - 1
    <3>1. CASE k = m
      BY <2>3, <2>4, <2>6, <3>1
    <3>2. CASE k # m
      BY <1>1, <1>4, <2>6, <3>2
    <3> QED
      BY <3>1, <3>2
  <2> QED
    BY <2>6, <2>7, <2>8, <2>9
<1> QED
  BY <1>3, <1>5, <1>6, <1>7

\* The lists of allotments after it.
LEMMA SpillLists ==
  ASSUME Typed, NEW t \in 1..(PGSIZE - 1), NEW size \in Nat, size = PGSIZE - t,
         NEW w, PageOf(w) \in Virt,
         IF t < PGSIZE - 1 THEN OffsetOf(w) = t + 1 ELSE OffsetOf(w) = 0,
         NEW lists, lists = add_alloc_entry(alloted, w, size)
  PROVE  /\ lists \in [Virt -> Seq([first : 0..(PGSIZE - 1), last : 0..PGSIZE, free : BOOLEAN])]
         /\ \A q \in Virt : alloted[q] # <<>> => lists[q] # <<>>
<1> DEFINE E == [first : 0..(PGSIZE - 1), last : 0..PGSIZE, free : BOOLEAN]
           o == OffsetOf(w)
           q == PageOf(w)
           A == Allotment(o, o + size - 1)
<1>1. PGSIZE \in Nat /\ alloted \in [Virt -> Seq(Allotments)]
  BY Constants DEF Typed, Allotments
<1>2. o \in 0..(PGSIZE - 1) /\ o + size - 1 \in 0..PGSIZE
  BY <1>1
<1> HIDE DEF o
<1>3. A \in E
  BY <1>2 DEF Allotment
<1>4. Allotments \subseteq E
  BY <1>1 DEF Allotments
<1> HIDE DEF A, E
<1>5. alloted \in [Virt -> Seq(E)]
  BY <1>1, <1>4
<1>6. lists = [alloted EXCEPT ![q] = Append(alloted[q], A)]
  BY DEF add_alloc_entry, A, o, q
<1> HIDE DEF q
<1>7. Append(alloted[q], A) \in Seq(E) /\ Append(alloted[q], A) # <<>>
  <2>1. alloted[q] \in Seq(E)
    BY <1>5 DEF q
  <2> QED
    BY <1>3, <2>1
<1>8. lists \in [Virt -> Seq(E)]
  BY <1>5, <1>6, <1>7
<1>9. \A r \in Virt : alloted[r] # <<>> => lists[r] # <<>>
  BY <1>5, <1>6, <1>7
<1> QED
  BY <1>8, <1>9 DEF E

\* No byte of it but the one behind its page is that of another area or in a page that is not
\* mapped, and the list of partly used pages offers none of its bytes.
LEMMA SpillInv ==
  ASSUME IInv, spilt = {}, NEW size \in 1..MaxSize, MallocPartial(size), spilt' # {}
  PROVE  Full'
<1>1. PICK i \in DOMAIN partial_pages, p \in Virt, t \in 1..(PGSIZE - 1), a \in Nat, x \in Nat :
           /\ Offers(partial_pages[i], p) /\ t = partial_pages[i].taken
           /\ x = p * PGSIZE /\ x + PGSIZE <= NumPages * PGSIZE
           /\ size = PGSIZE - t /\ a = x + t + 1 /\ a = PartialAddress(partial_pages[i])
           /\ spilt' = {x + PGSIZE}
           /\ areas' = areas \cup {[va |-> a, size |-> size]}
           /\ alloted' = add_alloc_entry(alloted, a % (NumPages * PGSIZE), size)
           /\ partial_pages' = update_partial_list(partial_pages, a % (NumPages * PGSIZE), size)
           /\ freeing = None /\ freeing' = None /\ UNCHANGED <<virt_bitmap, mapped>>
  BY SpillFacts
<1> DEFINE N == [va |-> a, size |-> size]
           n == NumPages * PGSIZE
           end == x + PGSIZE
<1>2. /\ Typed /\ Nodes /\ PGSIZE \in Nat /\ size \in Nat /\ size > 0 /\ n \in Nat /\ p \in Nat
      /\ PartialPagesLive
  BY Constants, PartialFromInv DEF IInv
<1>3. PICK w : w = a % n
  OBVIOUS
<1>4. /\ PageOf(w) \in Virt /\ Base(w) = PageOf(w) * PGSIZE
      /\ IF t < PGSIZE - 1 THEN PageOf(w) = p /\ OffsetOf(w) = t + 1 ELSE OffsetOf(w) = 0
  BY <1>1, <1>3, SpillPlace
<1>5. /\ partial_pages' \in Seq(PartialNodes) /\ Distinct(partial_pages')
      /\ \A k \in DOMAIN partial_pages' : \E j \in DOMAIN partial_pages :
           /\ partial_pages'[k].base = partial_pages[j].base
           /\ partial_pages'[k].taken \in Nat /\ partial_pages'[k].taken >= partial_pages[j].taken
           /\ j = i => partial_pages'[k].taken >= PGSIZE - 1
  <2>1. partial_pages' = update_partial_list(partial_pages, w, size)
    BY <1>1, <1>3
  <2>2. PICK list : list = partial_pages'
    OBVIOUS
  <2>3. Offers(partial_pages[i], p) /\ t = partial_pages[i].taken /\ size = PGSIZE - t
    BY <1>1
  <2>4. (t < PGSIZE - 1 => PageOf(w) = p) /\ list = update_partial_list(partial_pages, w, size)
    BY <1>4, <2>1, <2>2
  <2>5. /\ list \in Seq(PartialNodes) /\ Distinct(list)
        /\ \A k \in DOMAIN list : \E j \in DOMAIN partial_pages :
             /\ list[k].base = partial_pages[j].base
             /\ list[k].taken \in Nat /\ list[k].taken >= partial_pages[j].taken
             /\ j = i => list[k].taken >= PGSIZE - 1
    <3> HIDE DEF N
    <3> QED
      BY <1>2, <1>4, <2>3, <2>4, SpillNodes
  <2> QED
    BY <2>2, <2>5
<1>6. /\ alloted' \in [Virt -> Seq([first : 0..(PGSIZE - 1), last : 0..PGSIZE, free : BOOLEAN])]
      /\ \A q \in Virt : alloted[q] # <<>> => alloted'[q] # <<>>
  <2>1. PICK lists : lists = alloted' /\ lists = add_alloc_entry(alloted, w, size)
    BY <1>1, <1>3
  <2>2. size = PGSIZE - t /\ IF t < PGSIZE - 1 THEN OffsetOf(w) = t + 1 ELSE OffsetOf(w) = 0
    BY <1>1, <1>4
  <2>3. /\ lists \in [Virt -> Seq([first : 0..(PGSIZE - 1), last : 0..PGSIZE, free : BOOLEAN])]
        /\ \A q \in Virt : alloted[q] # <<>> => lists[q] # <<>>
    BY <1>2, <1>4, <2>1, <2>2, SpillLists
  <2> QED
    BY <2>1, <2>3
<1>7. Bytes(N) = a..end /\ a..end \subseteq Nat /\ end \in Nat /\ a <= end /\ end <= n
  <2>1. size = PGSIZE - t /\ a = x + t + 1 /\ x + PGSIZE <= n
    BY <1>1
  <2> HIDE DEF n
  <2>2. a + size - 1 = end /\ a <= end /\ end \in Nat /\ end <= n
    BY <1>2, <2>1
  <2>3. N.va = a /\ N.size = size
    OBVIOUS
  <2> HIDE DEF N, end
  <2>4. Bytes(N) = a..end
    BY <2>2, <2>3 DEF Bytes
  <2> QED
    BY <2>2, <2>4
<1> HIDE DEF n
<1>8. TypeOK'
  <2>1. N \in [va : 0..n, size : 1..MaxSize]
    BY <1>1, <1>2, <1>7
  <2>2. areas' \subseteq [va : 0..n, size : 1..MaxSize]
    <3>1. TypeOK
      BY <1>2, TypedIsType
    <3> QED
      BY <1>1, <2>1, <3>1 DEF TypeOK, n
  <2>3. spilt' \subseteq 0..n
    BY <1>1, <1>2, <1>7
  <2> QED
    BY <1>1, <1>2, <1>5, <1>6, <2>2, <2>3 DEF TypeOK, Typed, PartialNodes, n
<1> HIDE DEF end
<1>9. AreasApart'
  <2>1. ASSUME NEW b \in areas, NEW y \in Bytes(b), y \in Bytes(N) PROVE y = end
    <3>1. Bytes(b) \cap a..(x + PGSIZE - 1) = {}
      <4>1. PartialAddress(partial_pages[i]) = a /\ partial_pages[i].base = x
        BY <1>1 DEF Offers
      <4> QED
        BY <1>2, <4>1 DEF PartialPagesLive
    <3>2. y \notin a..(x + PGSIZE - 1) /\ y \in a..end
      BY <1>7, <2>1, <3>1
    <3> QED
      BY <1>2, <1>7, <3>2 DEF end
  <2>2. /\ \A b, c \in areas : b # c => Bytes(b) \cap Bytes(c) = {}
        /\ \A b \in areas : \A y \in Bytes(b) : PageOf(y) \in mapped
    BY ApartFromInv
  <2>3. ASSUME NEW y \in Bytes(N), y # end PROVE PageOf(y) \in mapped
    <3> DEFINE o == y - x
    <3>1. o \in Offsets /\ y = x + o
      <4>1. y \in a..end /\ y # end /\ end = x + PGSIZE /\ a = x + t + 1
        BY <1>1, <1>7, <2>3 DEF end
      <4> HIDE DEF N
      <4> QED
        BY <1>2, <4>1 DEF Offsets
    <3>2. y = Byte(p, o)
      BY <1>1, <3>1 DEF Byte
    <3>3. PageOf(y) = p
      <4> HIDE DEF o
      <4> QED
        BY <1>2, <3>1, <3>2, ByteFacts
    <3> QED
      BY <1>1, <3>3 DEF Offers
  <2>4. OffsetOf(end) = 0
    <3>1. (p + 1) * PGSIZE = x + PGSIZE /\ p + 1 \in Nat /\ 0 \in Offsets
      BY <1>1, <1>2, Constants
    <3>2. Byte(p + 1, 0) = end
      BY <1>1, <1>2, <3>1 DEF Byte, end
    <3> QED
      BY <3>1, <3>2, ByteFacts
  <2>5. areas' = areas \cup {N} /\ spilt' = {end} /\ mapped' = mapped
    BY <1>1 DEF end
  <2> HIDE DEF N
  <2>6. \A b, c \in areas' : b # c => Bytes(b) \cap Bytes(c) \subseteq spilt'
    BY <2>1, <2>2, <2>5
  <2>7. \A b \in areas' : \A y \in Bytes(b) \ spilt' : PageOf(y) \in mapped'
    BY <2>2, <2>3, <2>5
  <2> QED
    BY <2>4, <2>5, <2>6, <2>7 DEF AreasApart
<1>10. PartialPagesLive'
  <2> SUFFICES ASSUME NEW k \in DOMAIN partial_pages'
               PROVE  LET node == partial_pages'[k]
                      IN  /\ PageOf(node.base) \in mapped'
                          /\ alloted'[PageOf(node.base)] # <<>>
                          /\ \A j \in DOMAIN partial_pages' : partial_pages'[j].base = node.base => j = k
                          /\ \A b \in areas' : Bytes(b) \cap PartialAddress(node)..(node.base + PGSIZE - 1) = {}
    BY DEF PartialPagesLive, PartialAddress, Bytes, PageOf
  <2>1. PICK j \in DOMAIN partial_pages :
           /\ partial_pages'[k].base = partial_pages[j].base
           /\ partial_pages'[k].taken \in Nat /\ partial_pages'[k].taken >= partial_pages[j].taken
           /\ j = i => partial_pages'[k].taken >= PGSIZE - 1
    BY <1>5
  <2>2. PICK q \in Virt : Offers(partial_pages[j], q)
    BY <1>2 DEF Nodes
  <2> DEFINE z == q * PGSIZE
             s == partial_pages'[k].taken
             r == partial_pages[j].taken
  <2>3. /\ z \in Nat /\ q \in Nat /\ partial_pages'[k].base = z /\ partial_pages[j].base = z
        /\ r \in 1..(PGSIZE - 1) /\ s \in Nat /\ s >= r
        /\ q = p => s >= PGSIZE - 1
    <3>1. /\ z \in Nat /\ q \in Nat /\ partial_pages'[k].base = z /\ partial_pages[j].base = z
          /\ r \in 1..(PGSIZE - 1) /\ s \in Nat /\ s >= r
      BY <2>1, <2>2, PageInside DEF Offers
    <3>2. q = p => j = i
      BY <1>1, <1>2, <2>2 DEF Nodes, Offers
    <3> QED
      BY <2>1, <3>1, <3>2
  <2>4. /\ PageOf(z) \in mapped /\ PageOf(z) \in Virt /\ alloted[PageOf(z)] # <<>>
        /\ \A b \in areas : Bytes(b) \cap (z + r + 1)..(z + PGSIZE - 1) = {}
    <3>1. PageOf(z) \in mapped /\ mapped \subseteq Virt
      BY <1>2, <2>3 DEF PartialPagesLive, Typed
    <3> QED
      BY <1>2, <2>3, <3>1 DEF PartialPagesLive, PartialAddress
  <2>5. /\ q < p => z + PGSIZE <= x
        /\ q > p => x + PGSIZE <= z
        /\ q = p => z = x
    BY <1>1, <1>2, <2>3, PagesInOrder
  <2> HIDE DEF z, s, r
  <2>6. Bytes(N) \cap (z + s + 1)..(z + PGSIZE - 1) = {}
    <3> SUFFICES ASSUME NEW y \in a..end, y \in (z + s + 1)..(z + PGSIZE - 1) PROVE FALSE
      BY <1>7
    <3>1. y \in Int /\ y >= a /\ y <= x + PGSIZE /\ y >= z + s + 1 /\ y <= z + PGSIZE - 1
      BY <1>2, <1>7, <2>3 DEF end
    <3>2. q < p \/ q = p \/ q > p
      BY <1>2, <2>3
    <3> QED
      BY <1>1, <1>2, <2>3, <2>5, <3>1, <3>2
  <2>7. (z + s + 1)..(z + PGSIZE - 1) \subseteq (z + r + 1)..(z + PGSIZE - 1)
    BY <1>2, <2>3
  <2>8. \A b \in areas' : Bytes(b) \cap (z + s + 1)..(z + PGSIZE - 1) = {}
    BY <1>1, <2>4, <2>6, <2>7
  <2>9. PageOf(z) \in mapped' /\ alloted'[PageOf(z)] # <<>>
    BY <1>1, <1>6, <2>4
  <2>10. \A l \in DOMAIN partial_pages' : partial_pages'[l].base = partial_pages'[k].base => l = k
    BY <1>5 DEF Distinct
  <2>11. PartialAddress(partial_pages'[k]) = z + s + 1
    BY <2>3 DEF PartialAddress, s
  <2> QED
    BY <2>3, <2>8, <2>9, <2>10, <2>11
<1>11. freeing' = None /\ areas' # {}
  BY <1>1
<1> QED
  BY <1>1, <1>8, <1>9, <1>10, <1>11 DEF Full, AfterSpill

-----------------------------------------------------------------------------
\* The invariant of the allocator.

\* Up to an area that reaches behind its page every step keeps the invariant.
LEMMA NextInv ==
  ASSUME IInv, [Next]_vars, spilt' = {} PROVE IInv'
<1>1. CASE UNCHANGED vars
  <2>1. Held' = Held /\ Rest' = Rest
    BY <1>1 DEF vars, Held, Rest
  <2>2. Typed' /\ Placed' /\ Nodes' /\ (mapped \subseteq virt_bitmap)' /\ (freeing # None => Rest \notin areas)'
    BY <1>1, <2>1 DEF vars, IInv, Typed, Placed, Nodes, Offers
  <2>3. ASSUME NEW p \in Virt PROVE PageInv(p)'
    <3>1. PageInv(p)
      BY DEF IInv
    <3> QED
      BY <1>1, <2>1, <3>1 DEF vars, PageInv, Apart, Known, Listed, Entries, InUse
  <2> QED
    BY <2>2, <2>3 DEF IInv
<1>2. ASSUME NEW size \in 1..MaxSize, MallocPartial(size) PROVE IInv'
  BY <1>2, MallocPartialInv
<1>3. ASSUME NEW size \in 1..MaxSize, MallocPages(size) PROVE IInv'
  BY <1>3, MallocPagesInv
<1>4. ASSUME NEW area \in areas, TFree(area) PROVE IInv'
  BY <1>4, TFreeInv
<1>5. CASE FreeRound
  BY <1>5, FreeRoundInv
<1>6. CASE Stopped
  BY <1>1, <1>6 DEF Stopped
<1> QED
  BY <1>1, <1>2, <1>3, <1>4, <1>5, <1>6 DEF Next

\* Every step keeps the invariant.
LEMMA NextFull ==
  ASSUME Full, [Next]_vars PROVE Full'
<1>1. CASE UNCHANGED vars
  <2>2. spilt' = {} => IInv'
    <3> SUFFICES ASSUME spilt' = {} PROVE IInv'
      OBVIOUS
    <3>1. IInv /\ spilt = {}
      BY <1>1 DEF Full, vars
    <3> QED
      BY <1>1, <3>1, NextInv
  <2>3. spilt' # {} => AfterSpill'
    <3> SUFFICES ASSUME spilt' # {} PROVE AfterSpill'
      OBVIOUS
    <3>1. AfterSpill
      BY <1>1 DEF Full, vars
    <3> QED
      BY <1>1, <3>1 DEF AfterSpill, TypeOK, AreasApart, PartialPagesLive, vars
  <2> QED
    BY <2>2, <2>3 DEF Full
<1>2. CASE spilt # {} /\ ~UNCHANGED vars
  <2>1. freeing = None
    BY <1>2 DEF Full, AfterSpill
  <2> QED
    BY <1>2, <2>1 DEF Next, MallocPartial, MallocPages, TFree, FreeRound, Stopped, Ready
<1>3. CASE spilt = {} /\ spilt' = {}
  <2>1. IInv'
    BY <1>3, NextInv DEF Full
  <2> QED
    BY <1>3, <2>1 DEF Full
<1>4. CASE spilt = {} /\ spilt' # {}
  <2>1. PICK size \in 1..MaxSize : MallocPartial(size)
    BY <1>4 DEF Next, MallocPages, TFree, FreeRound, Stopped, vars
  <2> QED
    BY <1>4, <2>1, SpillInv DEF Full
<1> QED
  BY <1>1, <1>2, <1>3, <1>4

\* Every area has its bytes to itself, and the allotments, the pages that are mapped and the
\* list of partly used pages say so, up to a request for all that is left of a page; what that
\* one leaves of it is AfterSpill (t_malloc, t_free).
THEOREM Invariant == Spec => []Full
<1>1. Init => Full
  <2> SUFFICES ASSUME Init PROVE Full
    OBVIOUS
  <2>1. IInv /\ spilt = {}
    BY InitInv DEF Init
  <2> QED
    BY <2>1 DEF Full
<1>2. Full /\ [Next]_vars => Full'
  BY NextFull
<1> QED
  BY <1>1, <1>2, PTL DEF Spec

\* No page counts more bytes than it has, and what the lists hold is of its type
\* (space_taken in update_partial_list).
THEOREM TypeCorrect == Spec => []TypeOK
<1>1. Full => TypeOK
  BY TypedIsType DEF Full, AfterSpill, IInv
<1> QED
  BY <1>1, Invariant, PTL

\* What t_malloc gives to one client overlaps nothing another one holds and lies in pages that
\* are mapped, whatever was freed before; but for one byte of a request for all that is left
\* of a page, and that is the first byte of a page (t_malloc, t_free).
THEOREM AreasStayApart == Spec => []AreasApart
<1>1. ASSUME Full PROVE AreasApart
  <2>1. CASE spilt = {}
    <3>1. IInv
      BY <1>1, <2>1 DEF Full
    <3>2. /\ \A a, b \in areas : a # b => Bytes(a) \cap Bytes(b) \subseteq spilt
          /\ \A a \in areas : \A byte \in Bytes(a) \ spilt : PageOf(byte) \in mapped
      BY <3>1, ApartFromInv
    <3>3. \A byte \in spilt : OffsetOf(byte) = 0 /\ spilt = {byte}
      BY <2>1
    <3> QED
      BY <3>2, <3>3 DEF AreasApart
  <2> QED
    BY <1>1, <2>1 DEF Full, AfterSpill
<1> QED
  BY <1>1, Invariant, PTL

\* The list of partly used pages never offers bytes of a page that is free or taken
\* (check_partial_list).
THEOREM PartialPagesStayLive == Spec => []PartialPagesLive
<1>1. Full => PartialPagesLive
  BY PartialFromInv DEF Full, AfterSpill
<1> QED
  BY <1>1, Invariant, PTL

\* Once all areas have been freed, no page is mapped and no allotment or node is left
\* (free_part_page and t_free).
THEOREM NothingIsKept == Spec => []NothingKept
<1>1. Full => NothingKept
  <2> SUFFICES ASSUME Full, areas = {}, freeing = None
               PROVE  mapped = {} /\ partial_pages = <<>> /\ \A p \in Virt : alloted[p] = <<>>
    BY DEF NothingKept
  <2> IInv
    BY DEF Full, AfterSpill
  <2>1. Held = {} /\ mapped \subseteq Virt /\ partial_pages \in Seq(PartialNodes)
    BY NodeType DEF Held, IInv
  <2>2. ASSUME NEW p \in Virt PROVE p \notin mapped
    BY <2>1 DEF IInv, PageInv, InUse, Entries
  <2>3. \A p \in Virt : alloted[p] = <<>>
    BY <2>2 DEF IInv, PageInv, InUse
  <2>4. DOMAIN partial_pages = {}
    BY <2>2 DEF IInv, Nodes, Offers
  <2>5. partial_pages = <<>>
    BY <2>1, <2>4
  <2> QED
    BY <2>1, <2>2, <2>3, <2>5
<1> QED
  BY <1>1, Invariant, PTL

-----------------------------------------------------------------------------
\* Requests of put_value and get_value.

\* In each page it touches a request starts at its first byte or at that of the page, and has
\* bytes up to its last one.
LEMMA RequestParts ==
  ASSUME NEW r \in Requests, NEW k \in PagesTouched(r.va, r.size),
         NEW p, p = PageOf(r.va), NEW f, f = OffsetIn(r.va, k), NEW t, t = RestIn(r.va, r.size, k)
  PROVE  /\ p + k \in Virt /\ f \in Offsets /\ t \in Nat \ {0} /\ r.va \in Nat /\ r.size \in Nat \ {0}
         /\ r.va <= Byte(p + k, f) /\ Byte(p + k, f) + t - 1 = r.va + r.size - 1
<1> DEFINE o == OffsetOf(r.va)
           n == NumPages * PGSIZE
           x == p * PGSIZE
           d == k * PGSIZE
<1>1. /\ PGSIZE \in Nat /\ PGSIZE > 0 /\ 0 \in Offsets /\ Offsets \subseteq Nat /\ n \in Nat
      /\ NumPages \in Nat /\ MaxSize \in Nat
  BY Constants
<1>2. /\ r.va \in Nat /\ r.size \in Nat /\ r.size > 0 /\ r.va + r.size <= n
  BY <1>1 DEF Requests
<1>3. p \in Nat /\ o \in Offsets /\ r.va = Byte(p, o) /\ r.va = x + o
  BY <1>2, PartsOfByte DEF Byte
<1>4. /\ k \in 0..NumPages /\ k \in Nat /\ t > 0
      /\ f = IF k = 0 THEN o ELSE 0
      /\ t = IF k = 0 THEN r.size ELSE r.size - (d - o)
  BY <1>1 DEF PagesTouched, OffsetIn, RestIn
<1>5. x \in Nat /\ d \in Nat /\ (p + k) * PGSIZE = x + d /\ (k = 0 => d = 0) /\ (k > 0 => d >= PGSIZE)
  <2>1. d >= 0 /\ (k > 0 => d >= PGSIZE)
    BY <1>1, <1>4
  <2> QED
    BY <1>1, <1>3, <1>4, <2>1
<1> HIDE DEF o, n, x, d
<1>6. f \in Offsets /\ t \in Nat \ {0} /\ p + k \in Nat /\ o \in Nat /\ o < PGSIZE
  <2>1. o \in Nat /\ o < PGSIZE
    BY <1>1, <1>3 DEF Offsets
  <2> QED
    BY <1>1, <1>2, <1>3, <1>4, <1>5, <2>1
<1>7. Byte(p + k, f) = (x + d) + f /\ Byte(p + k, f) \in Nat /\ PageOf(Byte(p + k, f)) = p + k
  BY <1>5, <1>6, ByteFacts
<1>8. r.va <= (x + d) + f /\ (x + d) + f + t - 1 = r.va + r.size - 1
  BY <1>1, <1>2, <1>3, <1>4, <1>5, <1>6
<1>9. Byte(p + k, f) < n
  <2>1. (x + d) + f < n
    <3>1. f \in Nat
      BY <1>1, <1>6
    <3> QED
      BY <1>1, <1>2, <1>5, <1>6, <1>8, <3>1
  <2> QED
    BY <1>7, <2>1
<1>10. p + k \in Virt
  BY <1>7, <1>9, PartsOfByte DEF n
<1> QED
  BY <1>2, <1>6, <1>7, <1>8, <1>10

\* The first page of a request.
LEMMA FirstPart ==
  ASSUME NEW r \in Requests
  PROVE  /\ 0 \in PagesTouched(r.va, r.size)
         /\ OffsetIn(r.va, 0) = OffsetOf(r.va) /\ RestIn(r.va, r.size, 0) = r.size
         /\ PageOf(r.va) + 0 = PageOf(r.va) /\ PageOf(r.va) \in Virt
         /\ OffsetOf(r.va) \in Offsets /\ r.va = Byte(PageOf(r.va), OffsetOf(r.va))
<1>1. /\ NumPages \in Nat /\ NumPages * PGSIZE \in Nat
  BY Constants
<1>2. r.va \in Nat /\ r.size > 0 /\ r.size \in Nat /\ r.va + r.size <= NumPages * PGSIZE
  BY Constants DEF Requests
<1>3. r.va < NumPages * PGSIZE
  BY <1>1, <1>2
<1>4. /\ PageOf(r.va) \in Nat /\ OffsetOf(r.va) \in Offsets /\ PageOf(r.va) \in Virt
      /\ r.va = Byte(PageOf(r.va), OffsetOf(r.va))
  BY <1>2, <1>3, PartsOfByte
<1> QED
  BY <1>1, <1>2, <1>4 DEF PagesTouched, OffsetIn, RestIn

\* Where a part of a request ends: in its page, or behind the page, whose last byte and next
\* page's first byte it then has.
LEMMA PartEnds ==
  ASSUME NEW q \in Virt, NEW f \in Offsets, NEW t \in Nat \ {0}, NEW last \in Nat,
         Byte(q, f) + t - 1 = last
  PROVE  /\ f + t <= PGSIZE => /\ f + t - 1 \in Offsets /\ Byte(q, f + t - 1) = last
                               /\ PageOf(last) = q
         /\ f + t > PGSIZE => Byte(q, PGSIZE - 1) < last /\ Byte(q, f) <= Byte(q, PGSIZE - 1)
<1> DEFINE y == q * PGSIZE
<1>1. PGSIZE \in Nat /\ PGSIZE > 0 /\ q \in Nat /\ f \in Nat /\ f < PGSIZE /\ y \in Nat
  BY Constants DEF Offsets
<1>2. y + f + t - 1 = last
  BY DEF Byte
<1>3. /\ Byte(q, f + t - 1) = y + (f + t - 1) /\ Byte(q, PGSIZE - 1) = y + (PGSIZE - 1)
      /\ Byte(q, f) = y + f
  BY DEF Byte
<1> HIDE DEF y
<1>4. f + t > PGSIZE => Byte(q, PGSIZE - 1) < last /\ Byte(q, f) <= Byte(q, PGSIZE - 1)
  BY <1>1, <1>2, <1>3
<1>5. ASSUME f + t <= PGSIZE
      PROVE  f + t - 1 \in Offsets /\ Byte(q, f + t - 1) = last /\ PageOf(last) = q
  <2>1. f + t - 1 \in Offsets /\ Byte(q, f + t - 1) = last
    BY <1>1, <1>2, <1>3, <1>5 DEF Offsets
  <2> QED
    BY <1>1, <2>1, ByteFacts
<1> QED
  BY <1>4, <1>5

\* An area that has more bytes behind a page has that page to itself.
LEMMA AreaGoesOn ==
  ASSUME IInv, NEW a \in Held, NEW q \in Virt, Covers(a, q, PGSIZE - 1),
         Byte(q, PGSIZE - 1) < a.va + a.size - 1
  PROVE  alloted[q] = <<>>
<1>1. Typed /\ Placed /\ PageInv(q)
  BY DEF IInv
<1>2. /\ PGSIZE \in Nat /\ PGSIZE > 0 /\ PGSIZE - 1 \in Offsets /\ 0 \in Offsets /\ q \in Nat
      /\ Offsets \subseteq Nat /\ Virt \subseteq Nat
  BY Constants
<1> SUFFICES ASSUME alloted[q] # <<>> PROVE FALSE
  OBVIOUS
<1>3. Touches(a, q)
  BY <1>2 DEF Touches
<1>4. PICK i \in DOMAIN alloted[q] : Exact(a, q, alloted[q][i])
  BY <1>1, <1>3 DEF PageInv, Known, Listed
<1> DEFINE e == alloted[q][i]
<1>5. /\ e.first \in Nat /\ e.last \in Nat /\ e.first <= PGSIZE - 1 /\ e.last <= PGSIZE - 1
      /\ e.first > 0 \/ e.last < PGSIZE - 1
  <2>1. e.first \in Offsets /\ e.last \in Offsets
    BY <1>1, ListFacts
  <2>2. e.first > 0 \/ e.last < PGSIZE - 1
    BY <1>1, <1>4 DEF PageInv, Entries, Exact
  <2> QED
    BY <1>2, <2>1, <2>2 DEF Offsets
<1>6. \A x \in Offsets : Covers(a, q, x) <=> e.first <= x /\ x <= e.last
  BY <1>4 DEF Exact
<1> HIDE DEF e
<1>7. ~Covers(a, q, 0)
  <2>1. PGSIZE - 1 <= e.last
    BY <1>2, <1>6
  <2> QED
    BY <1>2, <1>5, <1>6, <2>1
<1>8. a.va \in Nat /\ a.size \in Nat /\ (OffsetOf(a.va) = 0 \/ OffsetOf(a.va) + a.size <= PGSIZE)
  BY <1>1 DEF Placed
<1> DEFINE m == PageOf(a.va)
           o == OffsetOf(a.va)
           y == m * PGSIZE
<1>9. m \in Virt /\ m \in Nat /\ o \in Offsets /\ o \in Nat /\ a.va = Byte(m, o) /\ a.va = y + o /\ y \in Nat
  BY <1>1, <1>2, FirstByte, PageInside DEF Byte
<1> HIDE DEF m, o
<1>10. /\ Byte(m, o) <= Byte(q, PGSIZE - 1) <=> m < q \/ (m = q /\ o <= PGSIZE - 1)
       /\ Byte(m, o) <= Byte(q, 0) <=> m < q \/ (m = q /\ o <= 0)
  BY <1>2, <1>9, ByteOrder
<1>11. m = q /\ o > 0
  <2>1. a.va <= Byte(q, PGSIZE - 1)
    BY DEF Covers
  <2>2. Byte(q, 0) <= Byte(q, PGSIZE - 1) /\ Byte(q, 0) \in Nat /\ Byte(q, PGSIZE - 1) \in Nat
    <3>1. Byte(q, 0) <= Byte(q, PGSIZE - 1) <=> q < q \/ (q = q /\ 0 <= PGSIZE - 1)
      BY <1>2, ByteOrder
    <3>2. Byte(q, 0) \in Nat /\ Byte(q, PGSIZE - 1) \in Nat
      BY <1>2, ByteFacts
    <3> QED
      BY <1>2, <3>1, <3>2
  <2>3. ~(a.va <= Byte(q, 0))
    BY <1>7, <1>8, <2>2 DEF Covers
  <2> QED
    BY <1>2, <1>9, <1>10, <2>1, <2>3
<1>12. o + a.size <= PGSIZE
  BY <1>8, <1>9, <1>11 DEF o
<1>13. Byte(q, PGSIZE - 1) = y + (PGSIZE - 1)
  BY <1>11 DEF Byte
<1> HIDE DEF y
<1> QED
  BY <1>2, <1>8, <1>9, <1>12, <1>13

\* A request whose first and last bytes are on one page touches only that page.
LEMMA OnePart ==
  ASSUME NEW r \in Requests, PageOf(r.va) = PageOf(r.va + r.size - 1)
  PROVE  /\ OffsetOf(r.va) + r.size <= PGSIZE
         /\ \A k \in PagesTouched(r.va, r.size) : k = 0
<1> DEFINE last == r.va + r.size - 1
           p == PageOf(r.va)
           o == OffsetOf(r.va)
           x == OffsetOf(last)
           y == p * PGSIZE
<1>1. r.va \in Nat /\ r.size \in Nat /\ r.size > 0 /\ last \in Nat
  BY Constants DEF Requests
<1>2. PGSIZE \in Nat /\ Offsets \subseteq Nat
  BY Constants
<1>3. /\ p \in Nat /\ o \in Offsets /\ r.va = Byte(p, o)
      /\ x \in Offsets /\ last = Byte(p, x)
  BY <1>1, PartsOfByte
<1>4. o + r.size <= PGSIZE
  <2>1. r.va = y + o /\ last = y + x /\ y \in Nat
    BY <1>2, <1>3 DEF Byte
  <2>2. o \in Nat /\ x \in 0..(PGSIZE - 1)
    BY <1>2, <1>3 DEF Offsets
  <2>3. last = r.va + r.size - 1
    OBVIOUS
  <2> HIDE DEF last, o, x, y
  <2> QED
    BY <1>1, <1>2, <2>1, <2>2, <2>3
<1>5. ASSUME NEW k \in PagesTouched(r.va, r.size) PROVE k = 0
  <2> PICK f, t : f = OffsetIn(r.va, k) /\ t = RestIn(r.va, r.size, k)
    OBVIOUS
  <2>1. /\ p + k \in Virt /\ f \in Offsets /\ t \in Nat \ {0} /\ Byte(p + k, f) + t - 1 = last
    BY RequestParts
  <2>2. k \in Nat /\ p + k \in Nat
    BY <1>3, <2>1, Constants DEF PagesTouched
  <2> HIDE DEF last, p, x
  <2>3. Byte(p + k, f) <= last
    <3>1. Byte(p + k, f) \in Nat
      BY <2>1, <2>2, ByteFacts
    <3> QED
      BY <1>1, <2>1, <3>1
  <2>4. p + k < p \/ p + k = p
    BY <1>3, <2>1, <2>2, <2>3, ByteOrder
  <2> QED
    BY <1>3, <2>2, <2>4
<1> QED
  BY <1>4, <1>5

\* A part of a request that is inside an area is found valid, and if the request goes on behind
\* the page the page has no allotments.
LEMMA PartInside ==
  ASSUME IInv, NEW r \in Requests, NEW a \in Held, Bytes(r) \subseteq Bytes(a),
         NEW k \in PagesTouched(r.va, r.size),
         NEW q, q = PageOf(r.va) + k, NEW f, f = OffsetIn(r.va, k), NEW t, t = RestIn(r.va, r.size, k)
  PROVE  /\ q \in mapped /\ is_part_page_valid(q, f, t)
         /\ \/ f + t <= PGSIZE /\ PageOf(r.va + r.size - 1) = q
            \/ f + t > PGSIZE /\ alloted[q] = <<>>
<1> DEFINE last == r.va + r.size - 1
<1>1. /\ q \in Virt /\ f \in Offsets /\ t \in Nat \ {0} /\ r.va \in Nat /\ r.size \in Nat \ {0}
      /\ r.va <= Byte(q, f) /\ Byte(q, f) + t - 1 = last
  <2>1. PICK p : p = PageOf(r.va)
    OBVIOUS
  <2>2. /\ p + k \in Virt /\ f \in Offsets /\ t \in Nat \ {0} /\ r.va \in Nat /\ r.size \in Nat \ {0}
        /\ r.va <= Byte(p + k, f) /\ Byte(p + k, f) + t - 1 = r.va + r.size - 1
    BY <2>1, RequestParts
  <2>3. q = p + k
    BY <2>1
  <2> QED
    BY <2>2, <2>3
<1>2. /\ Placed /\ Typed /\ PageInv(q) /\ a.va \in Nat /\ a.size \in Nat
  BY <1>1 DEF IInv, Placed
<1>3. /\ PGSIZE \in Nat /\ PGSIZE > 0 /\ PGSIZE - 1 \in Offsets /\ q \in Nat /\ f \in Nat /\ f < PGSIZE
      /\ last \in Nat /\ Byte(q, f) \in Nat /\ Offsets \subseteq Nat
  <2>1. PGSIZE \in Nat /\ PGSIZE > 0 /\ PGSIZE - 1 \in Offsets /\ q \in Nat /\ f \in Nat /\ f < PGSIZE
    BY <1>1, Constants DEF Offsets
  <2>2. last \in Nat
    BY <1>1
  <2> QED
    BY <1>1, <2>1, <2>2, ByteFacts, Constants
<1>4. a.va <= r.va /\ last <= a.va + a.size - 1
  <2>1. r.va \in Bytes(r) /\ last \in Bytes(r)
    BY <1>1, <1>3 DEF Bytes
  <2>2. r.va \in Bytes(a) /\ last \in Bytes(a)
    BY <2>1
  <2> QED
    BY <1>1, <1>2, <1>3, <2>2 DEF Bytes
<1> HIDE DEF last
<1>5. /\ f + t <= PGSIZE => f + t - 1 \in Offsets /\ Byte(q, f + t - 1) = last /\ PageOf(last) = q
      /\ f + t > PGSIZE => Byte(q, PGSIZE - 1) < last /\ Byte(q, f) <= Byte(q, PGSIZE - 1)
  BY <1>1, <1>3, PartEnds
<1>6. Covers(a, q, f)
  BY <1>1, <1>2, <1>3, <1>4 DEF Covers
<1>7. q \in mapped
  BY <1>1, <1>2, <1>6 DEF PageInv, InUse, Touches
<1>8. CASE f + t > PGSIZE
  <2>1. Byte(q, PGSIZE - 1) \in Nat
    BY <1>3, ByteFacts
  <2>2. Covers(a, q, PGSIZE - 1) /\ Byte(q, PGSIZE - 1) < a.va + a.size - 1
    BY <1>1, <1>2, <1>3, <1>4, <1>5, <1>8, <2>1 DEF Covers
  <2>3. alloted[q] = <<>>
    BY <1>1, <2>2, AreaGoesOn
  <2> QED
    BY <1>7, <1>8, <2>3 DEF is_part_page_valid
<1>9. CASE f + t <= PGSIZE
  <2>1. Covers(a, q, f + t - 1)
    <3>1. Byte(q, f + t - 1) = last /\ r.va <= last
      BY <1>1, <1>3, <1>5, <1>9
    <3> QED
      BY <1>1, <1>2, <1>3, <1>4, <3>1 DEF Covers
  <2>2. is_part_page_valid(q, f, t)
    <3>1. CASE alloted[q] = <<>>
      BY <3>1 DEF is_part_page_valid
    <3>2. CASE Listed(a, q)
      <4>1. PICK i \in DOMAIN alloted[q] : Exact(a, q, alloted[q][i])
        BY <3>2 DEF Listed
      <4>2. alloted[q][i].first <= f /\ f + t - 1 <= alloted[q][i].last
        BY <1>1, <1>5, <1>6, <1>9, <2>1, <4>1 DEF Exact
      <4>3. alloted[q][i].first \in Nat
        BY <1>1, <1>2, <1>3, ListFacts
      <4> QED
        BY <1>3, <4>2, <4>3 DEF is_part_page_valid, Within
    <3>3. Touches(a, q)
      BY <1>1, <1>6 DEF Touches
    <3> QED
      BY <1>2, <3>1, <3>2, <3>3 DEF PageInv, Known
  <2> QED
    BY <1>5, <1>7, <1>9, <2>2 DEF last
<1> QED
  BY <1>1, <1>3, <1>8, <1>9

\* A request inside an area is met.
LEMMA RequestInside ==
  ASSUME IInv, NEW r \in Requests, NEW a \in Held, Bytes(r) \subseteq Bytes(a)
  PROVE  /\ PutWrites(r.va, r.size)
         /\ \/ GetReads(r.va, r.size)
            \/ ~OnSharedPage(r) /\ alloted[PageOf(r.va + r.size - 1)] # <<>>
<1> DEFINE p == PageOf(r.va)
           o == OffsetOf(r.va)
           z == PageOf(r.va + r.size - 1)
           f(k) == OffsetIn(r.va, k)
           t(k) == RestIn(r.va, r.size, k)
<1>1. ASSUME NEW k \in PagesTouched(r.va, r.size)
      PROVE  /\ p + k \in mapped /\ is_part_page_valid(p + k, f(k), t(k))
             /\ \/ f(k) + t(k) <= PGSIZE /\ z = p + k
                \/ f(k) + t(k) > PGSIZE /\ alloted[p + k] = <<>>
  BY <1>1, PartInside
<1>2. /\ 0 \in PagesTouched(r.va, r.size) /\ f(0) = o /\ t(0) = r.size /\ p + 0 = p
  BY FirstPart
<1>3. AllValid(r.va, r.size)
  BY <1>1 DEF AllValid
<1>4. PutWrites(r.va, r.size)
  <2>1. p \in mapped /\ is_part_page_valid(p, o, r.size)
    BY <1>1, <1>2
  <2> QED
    BY <1>3, <2>1 DEF PutWrites
<1> HIDE DEF p, o, z, f, t
<1>5. CASE alloted[z] = <<>>
  <2>1. ASSUME NEW k \in PagesTouched(r.va, r.size) PROVE p + k \in mapped /\ alloted[p + k] = <<>>
    BY <1>1, <1>5
  <2>2. ASSUME NEW k \in PagesTouched(r.va, r.size)
        PROVE  p + k \in mapped /\ is_part_page_valid(p + k, o, r.size)
    BY <2>1 DEF is_part_page_valid
  <2>3. GetReads(r.va, r.size)
    BY <2>2 DEF GetReads, p, o
  <2> QED
    BY <1>4, <2>3
<1>6. CASE p # z
  <2>1. ~OnSharedPage(r)
    BY <1>6 DEF OnSharedPage, p, z
  <2> QED
    BY <1>4, <1>5, <2>1 DEF z
<1>7. CASE p = z /\ alloted[z] # <<>>
  <2>1. ASSUME NEW k \in PagesTouched(r.va, r.size)
        PROVE  p + k \in mapped /\ is_part_page_valid(p + k, o, r.size)
    <3>1. k = 0
      BY <1>7, OnePart DEF p, z
    <3> QED
      BY <1>1, <1>2, <3>1
  <2>2. GetReads(r.va, r.size)
    BY <2>1 DEF GetReads, p, o
  <2> QED
    BY <1>4, <2>2
<1> QED
  BY <1>5, <1>6, <1>7

\* A request that is inside no area is refused on a page with allotments, save for byte 0.
LEMMA RequestOutside ==
  ASSUME IInv, freeing = None, NEW r \in Requests,
         ~ \E a \in areas : Bytes(r) \subseteq Bytes(a), OnSharedPage(r), ~ForgottenByte(r)
  PROVE  ~PutWrites(r.va, r.size) /\ ~GetReads(r.va, r.size)
<1> DEFINE p == PageOf(r.va)
           o == OffsetOf(r.va)
           last == r.va + r.size - 1
<1>1. /\ p \in Virt /\ o \in Offsets /\ r.va = Byte(p, o) /\ 0 \in PagesTouched(r.va, r.size)
      /\ OffsetIn(r.va, 0) = o /\ RestIn(r.va, r.size, 0) = r.size /\ p + 0 = p
  BY FirstPart
<1>2. alloted[p] # <<>> /\ p = PageOf(last)
  BY DEF OnSharedPage
<1>3. o + r.size <= PGSIZE
  BY <1>2, OnePart
<1>4. /\ r.va \in Nat /\ r.size \in Nat \ {0} /\ o \in Nat /\ PGSIZE \in Nat /\ p \in Nat /\ last \in Nat
  <2>1. r.va \in Nat /\ r.size \in Nat /\ r.size > 0
    BY Constants DEF Requests
  <2>2. o \in Nat /\ PGSIZE \in Nat /\ p \in Nat
    <3> HIDE DEF o, p
    <3> QED
      BY <1>1, Constants
  <2> QED
    BY <2>1, <2>2
<1>5. o + r.size - 1 \in Offsets /\ Byte(p, o + r.size - 1) = last
  <2>1. Byte(p, o) + r.size - 1 = last
    BY <1>1
  <2> QED
    BY <1>1, <1>3, <1>4, <2>1, PartEnds
<1>6. Typed /\ PageInv(p) /\ Placed /\ Held = areas
  BY <1>1 DEF IInv, Held
<1>7. ~(o = 0 /\ r.size = 1)
  BY DEF ForgottenByte
<1> HIDE DEF p, o, last
<1>8. ~is_part_page_valid(p, o, r.size)
  <2> SUFFICES ASSUME NEW i \in DOMAIN alloted[p], Within(o, r.size, alloted[p][i])
               PROVE  FALSE
    BY <1>2 DEF is_part_page_valid
  <2> DEFINE e == alloted[p][i]
  <2>1. e.first <= o /\ o + r.size - 1 <= e.last /\ e.first \in Nat /\ e.last \in Nat
    BY <1>1, <1>4, <1>6, ListFacts, Constants DEF Within
  <2>2. CASE e.free
    <3>1. e.first = 0 /\ e.last = 0
      BY <1>6, <2>2 DEF PageInv, Entries
    <3> QED
      BY <1>4, <1>7, <2>1, <3>1
  <2>3. CASE ~e.free
    <3>1. PICK b \in Held : Exact(b, p, e)
      BY <1>6, <2>3 DEF PageInv, Entries
    <3> HIDE DEF e
    <3>2. Covers(b, p, o) /\ Covers(b, p, o + r.size - 1)
      <4>1. o <= e.last /\ e.first <= o + r.size - 1
        BY <1>4, <2>1
      <4> QED
        BY <1>1, <1>5, <2>1, <3>1, <4>1 DEF Exact
    <3>3. b.va <= r.va /\ last <= b.va + b.size - 1 /\ b.va \in Nat /\ b.size \in Nat
      BY <1>1, <1>5, <1>6, <3>2 DEF Covers, Placed
    <3>4. Bytes(r) \subseteq Bytes(b)
      <4>1. ASSUME NEW y \in Bytes(r) PROVE y \in Bytes(b)
        <5>1. y \in Nat /\ r.va <= y /\ y <= last
          BY <1>4, <4>1 DEF Bytes, last
        <5> QED
          BY <1>4, <3>3, <5>1 DEF Bytes
      <4> QED
        BY <4>1
    <3> QED
      BY <1>6, <3>4
  <2> QED
    BY <2>2, <2>3
<1>9. ~AllValid(r.va, r.size)
  BY <1>1, <1>8 DEF AllValid, p
<1>10. ~PutWrites(r.va, r.size)
  BY <1>8, <1>9 DEF PutWrites, p, o
<1>11. ~GetReads(r.va, r.size)
  BY <1>1, <1>8 DEF GetReads, p, o
<1> QED
  BY <1>10, <1>11

\* The page of a byte of a request is one of those the request is tested on, and the byte lies in
\* the part of the request that is in that page.
LEMMA PartOfByte ==
  ASSUME NEW r \in Requests, NEW x \in Bytes(r)
  PROVE  \E k \in PagesTouched(r.va, r.size) :
           /\ PageOf(x) = PageOf(r.va) + k /\ PageOf(x) \in Virt
           /\ OffsetOf(x) \in Offsets /\ x = Byte(PageOf(x), OffsetOf(x))
           /\ OffsetIn(r.va, k) <= OffsetOf(x)
           /\ OffsetOf(x) <= OffsetIn(r.va, k) + RestIn(r.va, r.size, k) - 1
<1> DEFINE p == PageOf(r.va)
           o == OffsetOf(r.va)
           q == PageOf(x)
           b == OffsetOf(x)
           n == NumPages * PGSIZE
           y == p * PGSIZE
<1>1. /\ PGSIZE \in Nat /\ PGSIZE > 0 /\ Offsets \subseteq Nat /\ 0 \in Offsets /\ n \in Nat /\ NumPages \in Nat
  BY Constants
<1>2. /\ r.va \in Nat /\ r.size \in Nat /\ r.size > 0 /\ r.va + r.size <= n
  BY Constants DEF Requests
<1>3. x \in Nat /\ r.va <= x /\ x <= r.va + r.size - 1 /\ x < n
  BY <1>1, <1>2 DEF Bytes
<1>4. /\ p \in Nat /\ o \in Offsets /\ r.va = Byte(p, o)
      /\ q \in Nat /\ b \in Offsets /\ x = Byte(q, b) /\ q \in Virt
  BY <1>2, <1>3, PartsOfByte
<1> HIDE DEF p, o, q, b
<1>5. p < q \/ (p = q /\ o <= b)
  BY <1>3, <1>4, ByteOrder
<1>6. PICK k \in Nat : q = p + k
  <2>1. q - p \in Nat /\ q = p + (q - p)
    BY <1>4, <1>5
  <2> QED
    BY <2>1
<1>7. k \in 0..NumPages
  BY <1>1, <1>4, <1>6 DEF Virt
<1> DEFINE d == k * PGSIZE
           f == OffsetIn(r.va, k)
           t == RestIn(r.va, r.size, k)
<1>8. y \in Nat /\ d \in Nat /\ q * PGSIZE = y + d /\ (k = 0 => d = 0)
  BY <1>1, <1>4, <1>6
<1>9. r.va = y + o /\ x = y + d + b
  BY <1>4, <1>8 DEF Byte
<1>10. /\ f = IF k = 0 THEN o ELSE 0
       /\ t = IF k = 0 THEN r.size ELSE r.size - (d - o)
  BY DEF OffsetIn, RestIn, o
<1> HIDE DEF d, y, n, f
<1>11. o \in Nat /\ b \in Nat
  BY <1>1, <1>4
<1>12. t > 0
  BY <1>2, <1>3, <1>8, <1>9, <1>10, <1>11
<1>13. k \in PagesTouched(r.va, r.size)
  BY <1>7, <1>12 DEF PagesTouched
<1> HIDE DEF t
<1>14. f <= b /\ b <= f + t - 1
  BY <1>2, <1>3, <1>5, <1>6, <1>8, <1>9, <1>10, <1>11
<1> QED
  BY <1>4, <1>6, <1>13, <1>14 DEF p, q, b, f, t

\* A request that is met has been found valid on each of its pages, with the part it has there.
LEMMA MetParts ==
  ASSUME IInv, NEW r \in Requests, PutWrites(r.va, r.size) \/ GetReads(r.va, r.size),
         NEW k \in PagesTouched(r.va, r.size)
  PROVE  /\ PageOf(r.va) + k \in mapped
         /\ \/ alloted[PageOf(r.va) + k] = <<>>
            \/ is_part_page_valid(PageOf(r.va) + k, OffsetIn(r.va, k), RestIn(r.va, r.size, k))
<1> DEFINE p == PageOf(r.va)
           o == OffsetOf(r.va)
           last == r.va + r.size - 1
<1>1. /\ p \in Virt /\ o \in Offsets /\ r.va = Byte(p, o)
      /\ OffsetIn(r.va, 0) = o /\ RestIn(r.va, r.size, 0) = r.size /\ p + 0 = p
  BY FirstPart
<1>2. /\ r.va \in Nat /\ r.size \in Nat /\ r.size > 0 /\ PGSIZE \in Nat /\ Offsets \subseteq Nat
      /\ last \in Nat /\ p \in Nat
  <2>1. r.va \in Nat /\ r.size \in Nat /\ r.size > 0 /\ PGSIZE \in Nat /\ Offsets \subseteq Nat
    BY Constants DEF Requests
  <2>2. last \in Nat
    BY <2>1
  <2>3. p \in Nat
    <3> HIDE DEF p
    <3> QED
      BY <1>1, Constants
  <2> QED
    BY <2>1, <2>2, <2>3
<1>3. Byte(p, o) + r.size - 1 = last /\ o \in Nat
  BY <1>1, <1>2
<1>4. ASSUME o + r.size <= PGSIZE PROVE k = 0
  <2>1. PageOf(last) = p
    <3> HIDE DEF p, o, last
    <3> QED
      BY <1>1, <1>2, <1>3, <1>4, PartEnds
  <2> QED
    BY <2>1, OnePart
<1> HIDE DEF last
<1>5. CASE PutWrites(r.va, r.size) /\ EndsInside(r.va, r.size)
  <2>1. p \in mapped /\ is_part_page_valid(p, o, r.size)
    BY <1>5 DEF PutWrites
  <2>2. k = 0
    <3>1. PGSIZE - o > r.size
      BY <1>5 DEF EndsInside
    <3> HIDE DEF o, p
    <3> QED
      BY <1>2, <1>3, <1>4, <3>1
  <2> QED
    BY <1>1, <2>1, <2>2
<1>6. CASE PutWrites(r.va, r.size) /\ ~EndsInside(r.va, r.size)
  BY <1>6 DEF PutWrites, AllValid
<1>7. CASE GetReads(r.va, r.size)
  <2>1. p + k \in mapped /\ is_part_page_valid(p + k, o, r.size)
    BY <1>7 DEF GetReads
  <2>2. CASE alloted[p + k] = <<>>
    BY <2>1, <2>2
  <2>3. CASE alloted[p + k] # <<>>
    <3>1. PICK i \in DOMAIN alloted[p + k] : Within(o, r.size, alloted[p + k][i])
      BY <2>1, <2>3 DEF is_part_page_valid
    <3>2. Typed /\ p + k \in Virt
      BY <2>1 DEF IInv, Typed
    <3>3. alloted[p + k][i].last \in Offsets
      BY <3>2, ListFacts
    <3>4. o + r.size <= PGSIZE
      <4> DEFINE l == alloted[p + k][i].last
      <4>1. o + r.size - 1 <= l /\ l \in 0..(PGSIZE - 1)
        BY <3>1, <3>3 DEF Within, Offsets
      <4> HIDE DEF l, o
      <4> QED
        BY <1>2, <1>3, <4>1
    <3>5. k = 0
      BY <1>4, <3>4
    <3> QED
      BY <1>1, <2>1, <3>5
  <2> QED
    BY <2>2, <2>3
<1> QED
  BY <1>5, <1>6, <1>7

\* A byte of a request that is met belongs to an area, or it is byte 0 of a page with allotments.
LEMMA RequestOwned ==
  ASSUME IInv, freeing = None, NEW r \in Requests, NEW x \in Bytes(r),
         PutWrites(r.va, r.size) \/ GetReads(r.va, r.size)
  PROVE  Owned(x) \/ (OffsetOf(x) = 0 /\ alloted[PageOf(x)] # <<>>)
<1>1. PICK k \in PagesTouched(r.va, r.size) :
           /\ PageOf(x) = PageOf(r.va) + k /\ PageOf(x) \in Virt
           /\ OffsetOf(x) \in Offsets /\ x = Byte(PageOf(x), OffsetOf(x))
           /\ OffsetIn(r.va, k) <= OffsetOf(x)
           /\ OffsetOf(x) <= OffsetIn(r.va, k) + RestIn(r.va, r.size, k) - 1
  BY PartOfByte
<1> DEFINE q == PageOf(x)
           b == OffsetOf(x)
           f == OffsetIn(r.va, k)
           t == RestIn(r.va, r.size, k)
<1>2. q \in mapped /\ (alloted[q] = <<>> \/ is_part_page_valid(q, f, t))
  BY <1>1, MetParts
<1>3. /\ Typed /\ PageInv(q) /\ Placed /\ Held = areas
  BY <1>1 DEF IInv, Held
<1>4. /\ f \in Nat /\ t \in Nat /\ b \in Nat /\ Offsets \subseteq Nat
  <2> PICK pg, ff, tt : pg = PageOf(r.va) /\ ff = f /\ tt = t
    OBVIOUS
  <2>1. ff \in Offsets /\ tt \in Nat
    BY RequestParts
  <2> QED
    BY <1>1, <2>1, Constants
<1>5. ASSUME NEW a \in Held, Covers(a, q, b) PROVE Owned(x)
  <2>1. a.va \in Nat /\ a.size \in Nat /\ a \in areas
    BY <1>3 DEF Placed
  <2>2. x \in Nat /\ a.va <= x /\ x <= a.va + a.size - 1
    <3>1. x \in Nat
      <4>1. q \in Nat
        BY <1>1, Constants
      <4> QED
        BY <1>1, <4>1, ByteFacts
    <3> QED
      BY <1>1, <1>5, <3>1 DEF Covers
  <2>3. x \in Bytes(a)
    BY <2>1, <2>2 DEF Bytes
  <2> QED
    BY <2>1, <2>3 DEF Owned
<1>6. CASE alloted[q] = <<>>
  <2>1. PICK a \in Held : Fills(a, q)
    BY <1>2, <1>3, <1>6 DEF PageInv, InUse
  <2> QED
    BY <1>1, <1>5, <2>1 DEF Fills
<1>7. CASE alloted[q] # <<>>
  <2>1. PICK i \in DOMAIN alloted[q] : Within(f, t, alloted[q][i])
    BY <1>2, <1>7 DEF is_part_page_valid
  <2> DEFINE e == alloted[q][i]
  <2>2. e.first \in Nat /\ e.last \in Nat /\ e.free \in BOOLEAN
    BY <1>1, <1>3, <1>4, ListFacts
  <2>3. e.first <= b /\ b <= e.last
    <3>1. f >= e.first /\ f + t - 1 <= e.last /\ f <= b /\ b <= f + t - 1
      BY <1>1, <2>1 DEF Within
    <3> HIDE DEF e, f, t, b
    <3> QED
      BY <1>4, <2>2, <3>1
  <2>4. CASE e.free
    <3>1. e.first = 0 /\ e.last = 0
      BY <1>3, <2>4 DEF PageInv, Entries
    <3>2. b = 0
      <4> HIDE DEF e, b
      <4> QED
        BY <1>4, <2>3, <3>1
    <3> QED
      BY <1>7, <3>2
  <2>5. CASE ~e.free
    <3>1. PICK a \in Held : Exact(a, q, e)
      BY <1>3, <2>5 DEF PageInv, Entries
    <3>2. Covers(a, q, b)
      BY <1>1, <2>3, <3>1 DEF Exact
    <3> QED
      BY <1>5, <3>2
  <2> QED
    BY <2>2, <2>4, <2>5
<1> QED
  BY <1>6, <1>7

\* Up to a request for all that is left of a page: a request inside an area is met by put_value,
\* and by get_value too unless it runs into a page with allotments; one that is met has no byte
\* that belongs to nobody, save for byte 0 of a page with allotments; and on such a page it is
\* inside one area, save for byte 0 (put_value, get_value, is_part_page_valid).
THEOREM RequestsStayWithin == Spec => []RequestsWithinAreas
<1>1. ASSUME Full PROVE RequestsWithinAreas
  <2> SUFFICES ASSUME Ready, NEW r \in Requests
               PROVE  LET met == PutWrites(r.va, r.size) \/ GetReads(r.va, r.size)
                      IN  /\ Inside(r) => /\ PutWrites(r.va, r.size)
                                          /\ \/ GetReads(r.va, r.size)
                                             \/ ~OnSharedPage(r) /\ alloted[PageOf(r.va + r.size - 1)] # <<>>
                          /\ met => \A byte \in Bytes(r) :
                                      Owned(byte) \/ (OffsetOf(byte) = 0 /\ alloted[PageOf(byte)] # <<>>)
                          /\ met /\ OnSharedPage(r) => Inside(r) \/ ForgottenByte(r)
    BY DEF RequestsWithinAreas
  <2>1. IInv /\ freeing = None /\ Held = areas
    BY <1>1 DEF Ready, Full, Held
  <2>2. Inside(r) => /\ PutWrites(r.va, r.size)
                     /\ \/ GetReads(r.va, r.size)
                        \/ ~OnSharedPage(r) /\ alloted[PageOf(r.va + r.size - 1)] # <<>>
    BY <2>1, RequestInside DEF Inside
  <2>3. ASSUME PutWrites(r.va, r.size) \/ GetReads(r.va, r.size), NEW byte \in Bytes(r)
        PROVE  Owned(byte) \/ (OffsetOf(byte) = 0 /\ alloted[PageOf(byte)] # <<>>)
    BY <2>1, <2>3, RequestOwned
  <2>4. ASSUME ~Inside(r), OnSharedPage(r), ~ForgottenByte(r)
        PROVE  ~PutWrites(r.va, r.size) /\ ~GetReads(r.va, r.size)
    BY <2>1, <2>4, RequestOutside DEF Inside
  <2> QED
    BY <2>2, <2>3, <2>4
<1> QED
  BY <1>1, Invariant, PTL

=============================================================================

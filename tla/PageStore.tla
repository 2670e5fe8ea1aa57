----------------------------- MODULE PageStore -----------------------------
(***************************************************************************)
(* What a virtual memory promises: pages that appear filled with zero,     *)
(* keep what was last written to them, whatever happens to other pages,    *)
(* and disappear.                                                          *)
(***************************************************************************)
EXTENDS Integers

CONSTANTS Virt, Words, Values, Null

VARIABLE store   \* the words of the mapped pages: <<page, offset, word>>

ContentOf(v) == {c \in store : c[1] = v}
MappedPages  == {c[1] : c \in store}

Map(v)   == v \notin MappedPages /\ store' = store \cup {<<v, w, Null>> : w \in Words}
Unmap(v) == store' = store \ ContentOf(v)

\* One value goes to some of the words of one page.
Write(v, x) ==
  /\ v \in MappedPages
  /\ \E range \in SUBSET Words :
       store' = {c \in store : ~(c[1] = v /\ c[2] \in range)} \cup {<<v, w, x>> : w \in range}

Init == store = {}
Next == \E v \in Virt : Map(v) \/ Unmap(v) \/ \E x \in Values : Write(v, x)
Spec == Init /\ [][Next]_store

=============================================================================

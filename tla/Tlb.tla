-------------------------------- MODULE Tlb --------------------------------
(***************************************************************************)
(* The translation lookaside buffer of src/Level -3/my_vm.c: a list of     *)
(* (virtual page, frame) pairs with pointers to its head and tail and a    *)
(* counter.  The functions on it are operators on a record; the memory     *)
(* manager keeps that record in a variable and calls them under its mutex. *)
(*                                                                         *)
(* No two nodes have the same page, so the tail pointer is named by the    *)
(* page of the node it points to.  The code moves nodes without moving the *)
(* tail, so the tail may point anywhere in the list, or to a freed node.   *)
(***************************************************************************)
EXTENDS Integers, SequencesExt

CONSTANT TLB_ENTRIES

ASSUME TlbAssumption == TLB_ENTRIES \in Nat \ {0}

NoNode == -1   \* tail = NULL
Freed  == -2   \* tail points to memory that was given to free()

EmptyTlb == [nodes |-> <<>>, tail |-> NoNode, length |-> 0]

Cached(t) == {t.nodes[i].va : i \in DOMAIN t.nodes}

\* The node that the search loops find, for a page that is cached.
Position(t, va) ==
  CHOOSE i \in DOMAIN t.nodes : t.nodes[i].va = va /\ \A j \in 1..(i-1) : t.nodes[j].va # va

HeadIsTail(t) == t.nodes # <<>> /\ t.nodes[1].va = t.tail

-----------------------------------------------------------------------------

\* Mutant: a full list grows.
AddTlbOneMore(t, va, pa) ==
  {[nodes  |-> Cons([va |-> va, pa |-> pa], IF t.length <= TLB_ENTRIES THEN t.nodes ELSE Tail(t.nodes)),
    tail   |-> IF t.nodes = <<>> THEN va ELSE t.tail,
    length |-> IF t.length <= TLB_ENTRIES THEN t.length + 1 ELSE t.length]}

\* A full list loses its head, the node used last.  The results differ in whether malloc
\* returns the address of the freed node that tail still holds.
add_TLB(t, va, pa) ==
  LET node  == [va |-> va, pa |-> pa]
      tails == IF t.tail = Freed THEN {Freed, va} ELSE {t.tail}
  IN  IF t.nodes = <<>> THEN {[nodes |-> <<node>>, tail |-> va, length |-> t.length + 1]}
      ELSE IF t.length < TLB_ENTRIES
      THEN {[nodes |-> Cons(node, t.nodes), tail |-> e, length |-> t.length + 1] : e \in tails}
      ELSE {[nodes |-> Cons(node, Tail(t.nodes)), tail |-> e, length |-> t.length] :
              e \in IF HeadIsTail(t) THEN {Freed} ELSE tails}

\* Moves the node of a cached page to the front, and leaves the tail where it is.
arrange(t, va) ==
  LET i == Position(t, va)
  IN  IF HeadIsTail(t) THEN t
      ELSE [t EXCEPT !.nodes = Cons(t.nodes[i], RemoveAt(t.nodes, i))]

\* Where the tail pointer is wrong, more than the one node leaves the list.
delete_from_tlb(t, va) ==
  IF va \notin Cached(t) THEN t
  ELSE IF t.nodes[1].va = va
  THEN IF t.tail = va THEN [nodes |-> <<>>, tail |-> NoNode, length |-> t.length - 1]
       ELSE [t EXCEPT !.nodes = Tail(t.nodes), !.length = @ - 1]
  ELSE LET i == Position(t, va)
       IN  IF t.tail = va
           THEN [nodes |-> SubSeq(t.nodes, 1, i - 1), tail |-> t.nodes[i-1].va, length |-> t.length - 1]
           ELSE [t EXCEPT !.nodes = RemoveAt(t.nodes, i), !.length = @ - 1]

=============================================================================

------------------------------- MODULE MCRufs -------------------------------
(***************************************************************************)
(* Instances of the file system for TLC.                                   *)
(***************************************************************************)
EXTENDS RufsProps, TLC

\* The code never compares two names by their order, nor looks at what a client writes.
Symmetry == Permutations(Names) \cup Permutations(Data)

\* Clients that build trees, and read and write whole blocks of one value.  No path has the
\* same name twice in a row.
TreePaths   == {p \in Paths : Len(p) = 1 \/ p[1] # p[Len(p)]}
Offsets     == {i * BlockSize : i \in 0..(FileWords \div BlockSize - 1)}
TreeClients == {[paths  |-> TreePaths,
                 writes |-> [off : Offsets, words : {[o \in 1..BlockSize |-> v] : v \in Data}],
                 reads  |-> [off : Offsets, len : {BlockSize}]]}

\* Clients that read and write parts of one file, within blocks and across them.
Writes      == {w \in [off : 0..(FileWords - 1), words : Requests] : w.off + Len(w.words) <= FileWords}
Reads       == {[off |-> w.off, len |-> Len(w.words)] : w \in Writes}
FileClients == {[paths |-> {<<name>>}, writes |-> Writes, reads |-> Reads] : name \in Names}

AllClients  == TreeClients \cup FileClients

=============================================================================

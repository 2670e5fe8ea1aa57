------------------------------ MODULE FileTree ------------------------------
(***************************************************************************)
(* What a file system promises: a tree of directories and files in which   *)
(* every call touches the one path it names, a directory is removed only   *)
(* when it is empty, and a word that was written holds what was written.   *)
(***************************************************************************)
EXTENDS Integers, Sequences

CONSTANTS Paths, FileWords, Requests

VARIABLE tree   \* the nodes, the root excepted

\* The content of a file is the set of its written words: <<offset, word>>.
Dir(p)  == [path |-> p, type |-> "dir"]
File(p) == [path |-> p, type |-> "file", content |-> {}]

Parent(p) == SubSeq(p, 1, Len(p) - 1)

Written(n, off, words) ==
  [n EXCEPT !.content = {c \in @ : c[1] \notin off..(off + Len(words) - 1)}
                          \cup {<<off + k - 1, words[k]>> : k \in DOMAIN words}]

\* The three ways in which a call may turn the tree t into u.
Adds(t, u) == \E n \in u \ t :
                /\ n \in {Dir(n.path), File(n.path)} /\ n.path \in Paths
                /\ \A m \in t : m.path # n.path
                /\ Parent(n.path) = <<>> \/ Dir(Parent(n.path)) \in t
                /\ u = t \cup {n}

Removes(t, u) == \E n \in t \ u :
                   /\ \A m \in t : Parent(m.path) # n.path
                   /\ u = t \ {n}

Writes(t, u) == \E n \in t \ u, off \in 0..(FileWords - 1), words \in Requests :
                  /\ n.type = "file"
                  /\ u = (t \ {n}) \cup {Written(n, off, words)}

Init == tree = {}
Next == LET t == tree
            u == tree'
        IN  Adds(t, u) \/ Removes(t, u) \/ Writes(t, u)
Spec == Init /\ [][Next]_tree

=============================================================================

----------------------------- MODULE RufsProps -----------------------------
(***************************************************************************)
(* What must hold of the disk of Rufs, and the tree of files it stands for. *)
(***************************************************************************)
EXTENDS Rufs

-----------------------------------------------------------------------------
\* The places of the disk that point to blocks, and the entries that name inodes.

Live   == {n \in Inos : disk.inode[n].valid = 1}
Dirs   == {n \in Live : disk.inode[n].type = "dir"}
Files  == Live \ Dirs

Index(x) == disk.block[x].ptr

Slots ==
  {<<n, "direct", i>> : n \in Live, i \in 0..(NumDirect - 1)}
    \cup {<<n, "indirect", k>> : n \in Live, k \in 0..(NumIndirect - 1)}

Pointed(s) == IF s[2] = "direct" THEN disk.inode[s[1]].direct[s[3]]
              ELSE disk.inode[s[1]].indirect[s[3]]

Indexes == {x \in {Pointed(s) : s \in {t \in Slots : t[2] = "indirect"}} : x # Nil}

\* The pointers of inodes and of index blocks, each with the place that holds it.
Pointers == {<<s, Pointed(s)>> : s \in Slots}
              \cup UNION {{<<<<x, "index", j>>, Index(x)[j]>> : j \in DOMAIN Index(x)} : x \in Indexes}

Uses == {u \in Pointers : u[2] # Nil}
Used == {u[2] : u \in Uses}

\* The names in use: <<directory, entry>>.
Entries == {e \in Dirs \X (3..MaxEntries) : Table(disk, e[1])[e[2]].valid = 1}
Named(e) == Table(disk, e[1])[e[2]].ino

\* The blocks that the write under way has allocated, in its copy of the inode.
Pending == IF call = NoCall THEN {}
           ELSE {call.inode.direct[i] : i \in 0..(NumDirect - 1)}
                  \cup {call.inode.indirect[k] : k \in 0..(NumIndirect - 1)}
                  \cup UNION {{Index(x)[j] : j \in DOMAIN Index(x)} :
                               x \in {call.inode.indirect[k] : k \in 0..(NumIndirect - 1)} \ {Nil}}

Mounted == fs # "new"

-----------------------------------------------------------------------------
\* Safety.

\* The bitmaps cover everything in use, and no block is used in two places: a free bit never
\* hands out a block or an inode that a file or a directory still owns (rufs.c:180-231, 49-94).
BlocksOwned == Mounted => /\ Live \subseteq disk.i_bitmap
                          /\ Used \subseteq disk.d_bitmap
                          /\ \A u, v \in Uses : u[2] = v[2] => u = v

\* Directories form a tree: every inode but the root is named by one entry of one directory,
\* names within a directory differ, "." and ".." lead to the directory and to the one that
\* names it, and a directory's size counts its names (rufs.c:138-159, 325-412).
OneTree ==
  Mounted =>
    /\ \A e \in Entries : Named(e) \in Live \ {Root}
    /\ \A n \in Live \ {Root} : \E e \in Entries : Named(e) = n
    /\ \A e, f \in Entries : Named(e) = Named(f) => e = f
    /\ \A n \in Dirs : /\ dir_find(disk, n, ".") = n
                       /\ disk.inode[n].size = Cardinality({e \in Entries : e[1] = n})
                       /\ \A i, j \in 1..MaxEntries :
                            Table(disk, n)[i].valid = 1 /\ Table(disk, n)[i].name = Table(disk, n)[j].name
                              => i = j
    /\ \A e \in Entries : Named(e) \in Dirs => dir_find(disk, Named(e), "..") = e[1]

\* A block that no file owns holds nothing: what a file held is gone when its blocks are
\* given to another one, of which a client may write only a part (rufs.c:79-94, 1164-1166).
FreeIsZero == Mounted => \A b \in Blocks \ disk.d_bitmap : disk.block[b] = Zero

\* The blocks of inode f behind a missing pointer, in the inode or in an index block, and those of
\* an index block that is behind one.
Behind(ptr)  == {ptr[i] : i \in {k \in DOMAIN ptr : \E j \in DOMAIN ptr : j < k /\ ptr[j] = Nil}} \ {Nil}
Leads(ptr)   == {ptr[i] : i \in DOMAIN ptr} \ {Nil}
BehindGap(f) == Behind(f.indirect) \cup UNION ({Behind(Index(x)) : x \in Leads(f.indirect)}
                                                  \cup {Leads(Index(x)) : x \in Behind(f.indirect)})

\* A call that succeeds loses nothing but what is behind a gap of a file that it unlinks: every
\* inode and block it takes from the bitmaps is reachable afterwards, and unlink and rmdir give
\* back what the node had up to the first missing pointer (rufs.c:1193-1272, loops 1208-1243).
LostInodes == disk.i_bitmap \ Live
LostBlocks == disk.d_bitmap \ (Used \cup Pending)
Unlinked   == Files \ Live'
LosesOnlyOnFailure ==
  [][fs' = "up" /\ ret' = "ok" =>
       /\ LostInodes' \subseteq LostInodes
       /\ LostBlocks' \subseteq LostBlocks \cup UNION {BehindGap(disk.inode[n]) : n \in Unlinked}]_vars

\* unlink gives back all the blocks of the file (rufs.c:1193 "Clear data block bitmap of target
\* file").
LosesNothing == [][fs' = "up" /\ ret' = "ok" => LostBlocks' \subseteq LostBlocks]_vars

\* rmdir removes no directory that has entries (rufs.c:829 "check whether the directory is
\* empty"): a path that had a path below it is still there after the call.
RmdirEmptyOnly ==
  [][\A p, q \in Paths : Parent(q) = p /\ get_node_by_path(disk, q) # Nil
       => (get_node_by_path(disk, p) # Nil)' \/ (get_node_by_path(disk, q) # Nil)']_vars

\* A path that leads to a node is found until it is itself removed: when rmdir is asked to remove
\* the directory above it, and after an unmount and a mount (rufs.c:541 "and read superblock from
\* disk").
PathsStay ==
  [][\A p \in Paths :
       get_node_by_path(disk, p) # Nil /\ fs' \in {"up", "misread"}
         => Found(p)' \/ rufs_rmdir(p) \/ rufs_unlink(p)]_vars

-----------------------------------------------------------------------------
\* The disk implements a tree of files: a path's node is what the code's own lookup finds, and
\* its content what the pointers lead to.  A failed call or one that was cut short changes no
\* more than a part of what it was asked to: any other change by such a call, and any damage to
\* a path that the call did not name, would be a step of the disk that is no step of the tree.
Content(f) == {c \in {<<j, WordOf(disk, f, j)>> : j \in {k \in 0..(FileWords - 1) :
                                                        BlockOf(disk, f, k \div BlockSize) # Nil}} :
                 c[2] # "zero"}

Ino(p)  == get_node_by_path(disk, p)
Node(l) == IF disk.inode[l.ino].type = "dir" THEN [path |-> l.path, type |-> "dir"]
           ELSE [path |-> l.path, type |-> "file", content |-> Content(disk.inode[l.ino])]

Lookups == {[path |-> p, ino |-> Ino(p)] : p \in Paths}
Tree    == {Node(l) : l \in {k \in Lookups : k.ino # Nil}}

Abstract == INSTANCE FileTree WITH tree <- Tree
TreeRefinement == Abstract!Spec

\* A call that succeeds changes the node it names and no other: what a client writes to p,
\* within a block, is what p holds afterwards, through direct and indirect pointers, and can be
\* read (rufs.c:1077 "Write the correct amount of data from offset to disk").
Others(p) == {n \in Tree : n.path # p}
Stored(p, off, words) ==
  /\ Tree' = Others(p) \cup {Abstract!Written(n, off, words) : n \in Tree \ Others(p)}
  /\ ReadCount(disk, disk.inode[Ino(p)], off, Len(words))' = Len(words)

CallsDoAsSaid ==
  [][fs = "up" /\ ret' = "ok" /\ disk' # disk =>
       \A p \in client.paths :
         /\ call # NoCall /\ call.path = p => Others(p)' = Others(p)
         /\ rufs_mkdir(p)  => Tree' = Tree \cup {Abstract!Dir(p)}
         /\ rufs_create(p) => Tree' = Tree \cup {Abstract!File(p)}
         /\ rufs_rmdir(p) \/ rufs_unlink(p) => Tree' = Others(p)
         /\ \A w \in client.writes :
              ~Spans(w.off, Len(w.words)) /\ rufs_write(p, w.off, w.words)
                => Stored(p, w.off, w.words)]_vars

\* What a read of n words returns is what the file f holds.
ReadsBack(f, off, n) ==
  LET inode == disk.inode[Ino(f.path)]
  IN  \A k \in 1..ReadCount(disk, inode, off, n) :
        LET word == Buffer(disk, inode, off, n)[k]
        IN  IF word = "zero" THEN \A c \in f.content : c[1] # off + k - 1
            ELSE <<off + k - 1, word>> \in f.content

ReadsAre(reads) == fs = "up" => \A f \in {n \in Tree : n.type = "file"}, r \in reads :
                                  ReadsBack(f, r.off, r.len)

\* A read within a block returns the words at its offset (rufs.c:1054-1058).
PartsReadBack == ReadsAre({r \in client.reads : ~Spans(r.off, r.len)})

\* So does a read that spans blocks (rufs.c:984 "copy the correct amount of data from offset
\* to buffer").
ReadsWhatIsThere == ReadsAre(client.reads)

=============================================================================

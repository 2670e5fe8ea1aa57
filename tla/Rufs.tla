-------------------------------- MODULE Rufs --------------------------------
(***************************************************************************)
(* The file system of src/Level - 4/rufs.c: its disk (the two bitmaps, the *)
(* inode table and the data blocks), path lookup, and the FUSE operations  *)
(* that change the disk.  Every operation holds one mutex from its first   *)
(* statement to its last, so an operation is one action; a write is one    *)
(* action for each block that it writes, as the process may end between    *)
(* two of them.                                                            *)
(*                                                                         *)
(* The unit of offsets and sizes is the word, BlockSize of them in a block. *)
(***************************************************************************)
EXTENDS Integers, Sequences, FiniteSets

CONSTANTS
  Names,          \* the names that clients use
  Clients,        \* what a client may be: the paths it uses, what it writes (offset and words), and
                  \* what it reads (offset and length)
  MaxDepth,       \* bound on the length of a path
  MAX_INUM, MAX_DNUM,
  MaxEntries,     \* max_dir_entries
  NumDirect, NumIndirect, IndirectCap,   \* pointers of an inode, and of an indirect block
  BlockSize,      \* BLOCK_SIZE, in words
  Data,           \* what a client may write into a word
  MaxSize,        \* bound on the size of a file
  MaxRequest,     \* bound on the size of a read or write
  NoCall,         \* no write is under way
  RemovesFullDirs    \* clients call rmdir on directories that are not empty

Nil    == -1
Inos   == 0..(MAX_INUM - 1)
Blocks == 0..(MAX_DNUM - 1)
Root   == 0

FileWords  == (NumDirect + NumIndirect * IndirectCap) * BlockSize
Paths      == UNION {[1..n -> Names] : n \in 1..MaxDepth}
Requests   == UNION {[1..n -> Data] : n \in 1..MaxRequest}
Parent(p)  == SubSeq(p, 1, Len(p) - 1)
Name(p)    == p[Len(p)]

ASSUME RufsAssumption ==
  /\ Names \cap {"", ".", ".."} = {}
  /\ {MAX_INUM, MAX_DNUM, NumDirect, IndirectCap, MaxDepth, BlockSize} \subseteq Nat \ {0}
  /\ {NumIndirect, MaxSize, MaxRequest} \subseteq Nat
  /\ "zero" \notin Data
  /\ MaxEntries \in Nat /\ MaxEntries >= 2
  /\ \A c \in Clients :
       /\ c.paths \subseteq Paths
       /\ \A w \in c.writes : w.off \in Nat /\ w.words \in Requests /\ w.off + Len(w.words) <= FileWords
       /\ \A r \in c.reads : r.off \in Nat /\ r.len \in 1..MaxRequest /\ r.off + r.len <= FileWords
  /\ RemovesFullDirs \in BOOLEAN

VARIABLES
  fs,     \* "new": no disk file; "down"; "up"; "misread": mounted without its superblock;
          \* "undefined": it has written through that superblock
  disk,
  ret,    \* the result of the last call, "ok" while a write is under way
  call,   \* the write under way between two blocks: its arguments, how many blocks it has
          \* written, and its copy of the inode
  client  \* the client, the same all the time

vars == <<fs, disk, ret, call, client>>

Pointer == Blocks \cup {Nil}
Dirent  == [name : Names \cup {"", ".", ".."}, ino : Inos, valid : {0, 1}]
Inode   == [valid : {0, 1}, type : {"none", "file", "dir"}, size : 0..(MaxSize + MaxEntries),
            direct : [0..(NumDirect - 1) -> Pointer],
            indirect : [0..(NumIndirect - 1) -> Pointer]]
Word    == Data \cup {"zero"}
Block   == [as : {"bytes"}, val : [0..(BlockSize - 1) -> Word]]
             \cup [as : {"table"}, entry : [1..MaxEntries -> Dirent]]
             \cup [as : {"index"}, ptr : [0..(IndirectCap - 1) -> Pointer]]
Disk    == [i_bitmap : SUBSET Inos, d_bitmap : SUBSET Blocks,
            inode : [Inos -> Inode], block : [Blocks -> Block]]

Write    == [path : Paths, ino : Inos, inode : Inode, off : 0..(FileWords - 1),
             words : Requests, done : 1..MaxRequest]

\* A write is not mistaken for there being none.
ASSUME NoCallAssumption == NoCall \notin Write

TypeOK == /\ fs \in {"new", "down", "up", "misread", "undefined"}
          /\ disk \in Disk
          /\ ret \in {"ok", "ENOENT", "EEXIST", "ENOSPC", "short"}
          /\ call \in Write \cup {NoCall}
          /\ client \in Clients

-----------------------------------------------------------------------------
\* Inodes, blocks and directory tables.

Zero       == [as |-> "bytes", val |-> [o \in 0..(BlockSize - 1) |-> "zero"]]
EmptyIndex == [as |-> "index", ptr |-> [j \in 0..(IndirectCap - 1) |-> Nil]]

init_inode(type) == [valid |-> 1, type |-> type, size |-> 0,
                     direct |-> [i \in 0..(NumDirect - 1) |-> Nil],
                     indirect |-> [k \in 0..(NumIndirect - 1) |-> Nil]]

Entry(name, ino) == [name |-> name, ino |-> ino, valid |-> 1]
NoEntry          == [name |-> "", ino |-> 0, valid |-> 0]

\* Mutant: the two inode numbers are swapped.
InitDirentTableSwapped(ino, parent) ==
  [as    |-> "table",
   entry |-> [i \in 1..MaxEntries |-> IF i = 1 THEN Entry("..", ino)
                                      ELSE IF i = 2 THEN Entry(".", parent) ELSE NoEntry]]

init_dirent_table(ino, parent) ==
  [as    |-> "table",
   entry |-> [i \in 1..MaxEntries |-> IF i = 1 THEN Entry("..", parent)
                                      ELSE IF i = 2 THEN Entry(".", ino) ELSE NoEntry]]

\* The first number of S, or -1: what the loops over a bitmap return.
First[S \in SUBSET Nat] == IF S = {} THEN Nil ELSE CHOOSE n \in S : \A m \in S : n <= m

\* Mutant: the loop runs to MAX_INUM inclusive.
GetAvailInoInclusive(d) == First[(0..MAX_INUM) \ d.i_bitmap]

get_avail_ino(d)   == First[Inos \ d.i_bitmap]
get_avail_blkno(d) == First[Blocks \ d.d_bitmap]

clear_inode(d, ino) ==
  [d EXCEPT !.inode[ino] = [init_inode("none") EXCEPT !.valid = 0],
            !.i_bitmap   = @ \ {ino}]

\* Mutant: the blocks are freed as they are.
ClearDataBlocksBitsOnly(d, B) == [d EXCEPT !.d_bitmap = @ \ B]

clear_data_blocks(d, B) ==
  [d EXCEPT !.block    = [b \in Blocks |-> IF b \in B THEN Zero ELSE @[b]],
            !.d_bitmap = @ \ B]

-----------------------------------------------------------------------------
\* Directories and paths.

Table(d, dir) == d.block[d.inode[dir].direct[0]].entry

Slot(d, dir, name) == First[{i \in 1..MaxEntries : Table(d, dir)[i].name = name}]

dir_find(d, dir, name) ==
  LET i == Slot(d, dir, name) IN IF i = Nil THEN Nil ELSE Table(d, dir)[i].ino

\* One level of a path.  The kernel looks every prefix up before it sends a call, so the
\* blocks of a file are never searched for names.
Level(d) == [n \in Inos \cup {Nil} |-> [name \in Names |->
               IF n = Nil \/ d.inode[n].type # "dir" THEN Nil ELSE dir_find(d, n, name)]]

\* The inode of a path, or -1.
get_node_by_path(d, p) ==
  LET node[k \in 0..Len(p)] == IF k = 0 THEN Root ELSE Level(d)[node[k - 1]][p[k]]
  IN  node[Len(p)]

Done(d)    == [ret |-> "ok", disk |-> d]
Fail(d, e) == [ret |-> e, disk |-> d]

dir_add(d, dir, ino, name) ==
  LET i == First[{s \in 1..MaxEntries : Table(d, dir)[s].valid = 0}]
  IN  CASE dir_find(d, dir, name) # Nil -> Fail(d, "EEXIST")
        [] dir_find(d, dir, name) = Nil /\ i = Nil -> Fail(d, "ENOSPC")
        [] OTHER -> Done([d EXCEPT !.block[d.inode[dir].direct[0]].entry[i] = Entry(name, ino),
                                   !.inode[dir].size = @ + 1])

dir_remove(d, dir, name) ==
  LET i == Slot(d, dir, name)
  IN  IF i = Nil THEN Fail(d, "ENOENT")
      ELSE Done([d EXCEPT !.block[d.inode[dir].direct[0]].entry[i] = NoEntry,
                          !.inode[dir].size = @ - 1])

-----------------------------------------------------------------------------
\* The blocks of a file.

\* The pointer to block i of inode f.
BlockOf(d, f, i) ==
  IF i < NumDirect THEN f.direct[i]
  ELSE LET x == f.indirect[(i - NumDirect) \div IndirectCap]
       IN  IF x = Nil THEN Nil ELSE d.block[x].ptr[(i - NumDirect) % IndirectCap]

\* Mutant: the first block is read for every offset.
WordOfFirst(d, f, j) == d.block[BlockOf(d, f, 0)].val[j % BlockSize]

WordOf(d, f, j) == d.block[BlockOf(d, f, j \div BlockSize)].val[j % BlockSize]

\* A request for n words from off on takes one block per round; these are the offsets of round k.
PieceStart(off, k) == IF k = 0 THEN off ELSE (off \div BlockSize + k) * BlockSize
Piece(off, n, k)   == {j \in off..(off + n - 1) : j \div BlockSize = off \div BlockSize + k}
Spans(off, n)      == off \div BlockSize # (off + n - 1) \div BlockSize

\* Mutant: the offset is cleared before the first round.
CopiedLastAligned(off, n, m) ==
  LET copied == {k \in 0..n : (off \div BlockSize + k) * BlockSize + m - 1 \in Piece(off, n, k)}
  IN  IF copied = {} THEN Nil
      ELSE (off \div BlockSize + (CHOOSE k \in copied : \A l \in copied : l <= k)) * BlockSize + m - 1

\* Every round of a read copies to the start of the buffer: the offset of the word that
\* is the last to go to the m-th place.
CopiedLast(off, n, m) ==
  LET copied == {k \in 0..n : PieceStart(off, k) + m - 1 \in Piece(off, n, k)}
  IN  IF copied = {} THEN Nil
      ELSE PieceStart(off, CHOOSE k \in copied : \A l \in copied : l <= k) + m - 1

\* What a read returns: nothing if it reaches beyond the size, else the words before the first
\* block that does not exist; and the buffer, of which the rest is left as it was.
ReadCount(d, f, off, n) ==
  LET missing == {j \in off..(off + n - 1) : BlockOf(d, f, j \div BlockSize) = Nil}
  IN  IF off + n > f.size THEN 0 ELSE IF missing = {} THEN n ELSE First[missing] - off

Buffer(d, f, off, n) ==
  LET count == ReadCount(d, f, off, n)
      last  == [m \in 1..n |-> CopiedLast(off, count, m)]
  IN  [m \in 1..n |-> IF last[m] = Nil THEN "unset" ELSE WordOf(d, f, last[m])]

\* Mutant: the new block is not entered in the inode.
DirectBlockUnlinked(d, f, i) ==
  LET b == IF f.direct[i] = Nil THEN get_avail_blkno(d) ELSE f.direct[i]
  IN  [ret   |-> IF b = Nil THEN "short" ELSE "ok",
       disk  |-> IF b = Nil THEN d ELSE [d EXCEPT !.d_bitmap = @ \cup {b}],
       inode |-> f,
       blk   |-> b]

\* The block for block i of the inode in memory, allocated where there is none.
DirectBlock(d, f, i) ==
  LET b == IF f.direct[i] = Nil THEN get_avail_blkno(d) ELSE f.direct[i]
  IN  [ret   |-> IF b = Nil THEN "short" ELSE "ok",
       disk  |-> IF b = Nil THEN d ELSE [d EXCEPT !.d_bitmap = @ \cup {b}],
       inode |-> [f EXCEPT !.direct[i] = b],
       blk   |-> b]

\* Mutant: the data block is searched in the bitmap as it was before the index block.
IndirectBlockSameBlock(d, f, i) ==
  LET k  == (i - NumDirect) \div IndirectCap
      j  == (i - NumDirect) % IndirectCap
      x  == IF f.indirect[k] = Nil THEN get_avail_blkno(d) ELSE f.indirect[k]
      d1 == IF f.indirect[k] # Nil \/ x = Nil THEN d
            ELSE [d EXCEPT !.d_bitmap = @ \cup {x}, !.block[x] = EmptyIndex]
      b  == IF x = Nil THEN Nil
            ELSE IF d1.block[x].ptr[j] = Nil THEN get_avail_blkno(d) ELSE d1.block[x].ptr[j]
  IN  [ret   |-> IF b = Nil THEN "ENOSPC" ELSE "ok",
       disk  |-> IF b = Nil THEN d1
                 ELSE [d1 EXCEPT !.d_bitmap = @ \cup {b}, !.block[x].ptr[j] = b],
       inode |-> [f EXCEPT !.indirect[k] = x],
       blk   |-> b]

\* The index block is allocated, cleared and written before the block it will point to.
IndirectBlock(d, f, i) ==
  LET k  == (i - NumDirect) \div IndirectCap
      j  == (i - NumDirect) % IndirectCap
      x  == IF f.indirect[k] = Nil THEN get_avail_blkno(d) ELSE f.indirect[k]
      d1 == IF f.indirect[k] # Nil \/ x = Nil THEN d
            ELSE [d EXCEPT !.d_bitmap = @ \cup {x}, !.block[x] = EmptyIndex]
      b  == IF x = Nil THEN Nil
            ELSE IF d1.block[x].ptr[j] = Nil THEN get_avail_blkno(d1) ELSE d1.block[x].ptr[j]
  IN  [ret   |-> IF b = Nil THEN "ENOSPC" ELSE "ok",
       disk  |-> IF b = Nil THEN d1
                 ELSE [d1 EXCEPT !.d_bitmap = @ \cup {b}, !.block[x].ptr[j] = b],
       inode |-> [f EXCEPT !.indirect[k] = x],
       blk   |-> b]

FileBlock(d, f, i) == IF i < NumDirect THEN DirectBlock(d, f, i) ELSE IndirectBlock(d, f, i)

\* The loops of rufs_unlink over pointers end at the first -1.
Leading(f) == {f[i] : i \in {k \in DOMAIN f : \A j \in DOMAIN f : j <= k => f[j] # Nil}}

DirectBlocks(f)      == {f.direct[i] : i \in DOMAIN f.direct} \ {Nil}
IndirectBlocks(d, f) == Leading(f.indirect)
                          \cup UNION {Leading(d.block[x].ptr) : x \in Leading(f.indirect)}

-----------------------------------------------------------------------------
\* mkfs, mounting, and the calls.

\* The disk file is made of zeros; rufs_mkfs takes inode 0 and block 0 for the root.
ZeroDisk == [i_bitmap |-> {}, d_bitmap |-> {},
             inode |-> [n \in Inos |-> [valid |-> 0, type |-> "none", size |-> 0,
                                        direct |-> [i \in 0..(NumDirect - 1) |-> 0],
                                        indirect |-> [k \in 0..(NumIndirect - 1) |-> 0]]],
             block |-> [b \in Blocks |-> Zero]]

rufs_mkfs == [ZeroDisk EXCEPT !.i_bitmap = {0}, !.d_bitmap = {0},
                              !.inode[0] = [init_inode("dir") EXCEPT !.direct[0] = 0],
                              !.block[0] = init_dirent_table(0, 0)]

Init == fs = "new" /\ disk = ZeroDisk /\ ret = "ok" /\ call = NoCall /\ client \in Clients

\* rufs_init.  If the disk file exists, the superblock is zeroed memory and is not read.
Mount ==
  \/ fs = "new"  /\ fs' = "up" /\ disk' = rufs_mkfs /\ ret' = "ok" /\ UNCHANGED <<call, client>>
  \/ fs = "down" /\ fs' = "misread" /\ ret' = "ok" /\ UNCHANGED <<disk, call, client>>

\* rufs_destroy, or the end of the process, also in the middle of a write.
Unmount == /\ fs \in {"up", "misread"}
           /\ fs' = "down" /\ ret' = "ok" /\ call' = NoCall
           /\ UNCHANGED <<disk, client>>

Ready     == fs = "up" /\ call = NoCall
Finish(r) == disk' = r.disk /\ ret' = r.ret /\ call' = NoCall /\ UNCHANGED <<fs, client>>

Type(p) == LET n == get_node_by_path(disk, p) IN IF n = Nil THEN "none" ELSE disk.inode[n].type

\* getattr, opendir, readdir and open.  Through a zero superblock, block 0 is taken for
\* the inode table and the first inodes for the table of the root: no client's name is there.
Found(p)  == fs = "up" /\ Type(p) # "none"
Lookup(p) == /\ fs \in {"up", "misread"} /\ call = NoCall
             /\ ret' = IF Found(p) THEN "ok" ELSE "ENOENT"
             /\ UNCHANGED <<fs, disk, call, client>>

\* The kernel sends no call for a path below a file.
rufs_mkdir(p) ==
  LET parent == get_node_by_path(disk, Parent(p))
      ino    == get_avail_ino(disk)
      d1     == [disk EXCEPT !.i_bitmap = @ \cup {ino}]
      blk    == get_avail_blkno(d1)
      d2     == [d1 EXCEPT !.d_bitmap = @ \cup {blk}]
      added  == dir_add(d2, parent, ino, Name(p))
  IN  /\ Ready /\ Type(Parent(p)) # "file"
      /\ Finish(CASE parent = Nil -> Fail(disk, "ENOENT")
                  [] parent # Nil /\ ino = Nil -> Fail(disk, "ENOSPC")
                  [] parent # Nil /\ ino # Nil /\ blk = Nil -> Fail(d1, "ENOSPC")
                  [] OTHER ->
                       IF added.ret # "ok" THEN added
                       ELSE Done([added.disk EXCEPT
                                    !.block[blk] = init_dirent_table(ino, parent),
                                    !.inode[ino] = [init_inode("dir") EXCEPT !.direct[0] = blk]]))

rufs_create(p) ==
  LET parent == get_node_by_path(disk, Parent(p))
      ino    == get_avail_ino(disk)
      added  == dir_add([disk EXCEPT !.i_bitmap = @ \cup {ino}], parent, ino, Name(p))
  IN  /\ Ready /\ Type(Parent(p)) # "file"
      /\ Finish(CASE parent = Nil -> Fail(disk, "ENOENT")
                  [] parent # Nil /\ ino = Nil -> Fail(disk, "ENOSPC")
                  [] OTHER ->
                       IF added.ret # "ok" THEN added
                       ELSE Done([added.disk EXCEPT !.inode[ino] = init_inode("file")]))

\* The table whose emptiness is tested is zeroed memory, so the test always succeeds.
\* The kernel sends rmdir for no file, and unlink and write for no directory.
rufs_rmdir(p) ==
  LET ino == get_node_by_path(disk, p)
      d1  == clear_inode(clear_data_blocks(disk, DirectBlocks(disk.inode[ino])), ino)
  IN  /\ Ready /\ Type(p) # "file"
      /\ Type(p) = "dir" /\ ~RemovesFullDirs
           => \A i \in 3..MaxEntries : Table(disk, ino)[i].valid = 0
      /\ Finish(IF ino = Nil THEN Fail(disk, "ENOENT")
                ELSE dir_remove(d1, get_node_by_path(d1, Parent(p)), Name(p)))

rufs_unlink(p) ==
  LET ino == get_node_by_path(disk, p)
      f   == disk.inode[ino]
      d1  == clear_inode(clear_data_blocks(disk, DirectBlocks(f) \cup IndirectBlocks(disk, f)), ino)
  IN  /\ Ready /\ Type(p) # "dir"
      /\ Finish(IF ino = Nil THEN Fail(disk, "ENOENT")
                ELSE dir_remove(d1, get_node_by_path(d1, Parent(p)), Name(p)))

\* The time of the access is the only change.
rufs_read(p, off, n) ==
  LET ino == get_node_by_path(disk, p)
  IN  /\ Ready /\ Type(p) # "dir"
      /\ ret' = IF ino = Nil THEN "ENOENT"
                ELSE IF ReadCount(disk, disk.inode[ino], off, n) = n THEN "ok" ELSE "short"
      /\ UNCHANGED <<fs, disk, call, client>>

\* Mutant: the block is not read before a part of it is written.
MergedFresh(val, c, i) ==
  [o \in 0..(BlockSize - 1) |->
     LET j == i * BlockSize + o
     IN  IF j \in Piece(c.off, Len(c.words), c.done)
         THEN c.words[j - PieceStart(c.off, c.done) + 1] ELSE "zero"]

\* Block i with this round's words: every round copies from the start of the client's buffer.
Merged(val, c, i) ==
  [o \in 0..(BlockSize - 1) |->
     LET j == i * BlockSize + o
     IN  IF j \in Piece(c.off, Len(c.words), c.done)
         THEN c.words[j - PieceStart(c.off, c.done) + 1] ELSE val[o]]

\* One round of a write, and the return after the last one.  The inode is written after the last
\* round, and its size grows by the length of the request, also when it overwrites: a later write
\* may then begin behind blocks that the file does not have.
WriteRound(c) ==
  LET i    == c.off \div BlockSize + c.done
      r    == FileBlock(disk, c.inode, i)
      d    == [r.disk EXCEPT !.block[r.blk].val = Merged(@, c, i)]
      last == c.off + Len(c.words) - 1 \in Piece(c.off, Len(c.words), c.done)
  IN  \/ /\ r.ret # "ok"
         /\ Finish([ret |-> r.ret, disk |-> r.disk])
      \/ /\ r.ret = "ok" /\ last
         /\ Finish(Done([d EXCEPT !.inode[c.ino] = [r.inode EXCEPT !.size = @ + Len(c.words)]]))
      \/ /\ r.ret = "ok" /\ ~last
         /\ disk' = d /\ call' = [c EXCEPT !.done = @ + 1, !.inode = r.inode]
         /\ ret' = "ok" /\ UNCHANGED <<fs, client>>

rufs_write(p, off, words) ==
  LET ino == get_node_by_path(disk, p)
      f   == disk.inode[ino]
  IN  /\ Ready /\ Type(p) # "dir"
      /\ ino # Nil => f.size + Len(words) <= MaxSize
      /\ \/ ino = Nil /\ Finish(Fail(disk, "ENOENT"))
         \/ ino # Nil /\ off > f.size /\ Finish(Fail(disk, "short"))
         \/ /\ ino # Nil /\ off <= f.size
            /\ WriteRound([path |-> p, ino |-> ino, inode |-> f,
                           off |-> off, words |-> words, done |-> 0])

\* The next round of the write under way.
WriteNext == fs = "up" /\ call # NoCall /\ WriteRound(call)

\* A call that allocates or frees through the zero superblock overwrites the disk's first
\* blocks: what follows is not modelled.
Misuse == fs = "misread" /\ fs' = "undefined" /\ UNCHANGED <<disk, ret, call, client>>

Stopped == fs = "undefined" /\ UNCHANGED vars

Next == \/ Mount \/ Unmount \/ WriteNext \/ Misuse \/ Stopped
        \/ \E p \in client.paths :
             \/ Lookup(p) \/ rufs_mkdir(p) \/ rufs_create(p) \/ rufs_rmdir(p) \/ rufs_unlink(p)
             \/ \E r \in client.reads  : rufs_read(p, r.off, r.len)
             \/ \E w \in client.writes : rufs_write(p, w.off, w.words)

Spec == Init /\ [][Next]_vars

=============================================================================

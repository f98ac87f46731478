------------------------------ MODULE Squashfs ------------------------------
(***************************************************************************)
(* The reader of squashfs images, src/src/squashfs.js.                     *)
(*                                                                         *)
(* An image has a superblock, file data, a table of inodes and a table of  *)
(* directory listings, the tables cut into metadata blocks.  A cell is what*)
(* one call of read16 or read32 returns, or one letter of readString, or a *)
(* byte of a file; positions and sizes count cells.  A reference is <<where*)
(* its metadata block begins in the table, offset inside it>>.             *)
(* The builder of images is mksquashfs, see Mksquashfs: the reader is right*)
(* if what it makes of an image is the tree that the image was made of.    *)
(*                                                                         *)
(* A tree is a function of inode numbers, 1 is the root:                   *)
(*   [type |-> "dir" or "ldir", entries |-> <<<<name, number>>, ...>>]     *)
(*   [type |-> "file", bytes |-> <<...>>]                                  *)
(*   [type |-> "lreg", size |-> ...]           (its data is not read)      *)
(*   [type |-> "link", target |-> <<component, ...>>]                      *)
(*   [type |-> "chr" or "blk", rdev |-> ...]                               *)
(***************************************************************************)
EXTENDS Integers, Sequences, SequencesExt

Unread == 77           \* in a cell whose value nothing depends on
Sizeless == 3          \* a directory's size is this more than its listing

-----------------------------------------------------------------------------
(* SquashFS_superblock, of which the fields that are used later.  An inode *)
(* id takes three cells, a number of 64 bits two.                          *)
SuperblockSize == 28
InodeId(disk, n) == <<disk[n + 1], disk[n]>>
Read64(disk, n) == disk[n]     \* the high word is zero
Superblock(disk) ==
  [blockSize |-> disk[4], blockLog |-> disk[7], root |-> InodeId(disk, 12),
   inodeTable |-> Read64(disk, 21), dirTable |-> Read64(disk, 23),
   dirTableEnd |-> Read64(disk, 25)]   \* fragment_table_start: there are no fragments

(* useBlock: the size of a metadata block comes before it.                 *)
HeaderSize == 1
SizeOfBlock(disk, start) == disk[start + 1]
Block(disk, start) ==
  SubSeq(disk, start + HeaderSize + 1, start + HeaderSize + SizeOfBlock(disk, start))

(* read_table: the blocks are put together into one buffer, and a table    *)
(* says where each one begins in it.                                       *)
BlockStarts(disk, start, end) ==
  LET starts[s \in Nat] ==
        IF s >= end THEN <<>> ELSE <<s>> \o starts[s + HeaderSize + SizeOfBlock(disk, s)]
  IN starts[start]

ReadTable(disk, start, end) ==
  LET starts == BlockStarts(disk, start, end)
      before(s) == SelectSeq(starts, LAMBDA x : x < s)
  IN [base |-> start,
      buffer |-> FlattenSeq([b \in DOMAIN starts |-> Block(disk, starts[b])]),
      hash |-> [s \in ToSet(starts) |-> FoldLeft(LAMBDA n, x : n + SizeOfBlock(disk, x), 0, before(s))]]

(* The n-th cell after a reference.                                        *)
At(table, ref, n) == table.buffer[table.hash[table.base + ref[1]] + ref[2] + n]
Run(table, ref, first, last) == [i \in 1..(last - first + 1) |-> At(table, ref, first + i - 1)]

-----------------------------------------------------------------------------
(* SquashFSFileInode: blocks of data, 0 for a block of zeros that is not   *)
(* on disk.  block_log is the logarithm of block_size.                     *)
BlockCount(size, super) == (size + super.blockSize - 1) \div 2^super.blockLog

(* Where block n begins on disk: blocks of zeros take no room.             *)
DataStartOfAll(start, list, blockSize, n) == start + blockSize * (n - 1)    \* mutant: they do
DataStart(start, list, blockSize, n) ==
  start + blockSize * Len(SelectSeq(SubSeq(list, 1, n - 1), LAMBDA b : b # 0))

FileBytes(disk, start, size, list, blockSize) ==
  [i \in 1..size |->
     LET n == (i - 1) \div blockSize + 1
     IN IF list[n] = 0 THEN 0
        ELSE disk[DataStart(start, list, blockSize, n) + ((i - 1) % blockSize) + 1]]

(* The constructors of inodes: which of the cells that follow the type are *)
(* read, and for what.  All begin with mode, two owners, time and number.  *)
CommonInode(table, ref, type) == [type |-> type, inode |-> At(table, ref, 6)]

LinkInode(table, ref) ==
  CommonInode(table, ref, "link") @@ [target |-> Run(table, ref, 9, 8 + At(table, ref, 8))]

DeviceInode(table, ref, type) ==
  CommonInode(table, ref, type) @@ [rdev |-> At(table, ref, 8)]

FileInode(disk, table, ref) ==
  LET super == Superblock(disk)
      size == At(table, ref, 10)
      list == Run(table, ref, 11, 10 + BlockCount(size, super))
  IN CommonInode(table, ref, "file") @@
       [bytes |-> FileBytes(disk, At(table, ref, 7), size, list, super.blockSize)]

(* The list of blocks is read, but not the blocks.                         *)
LRegInode(disk, table, ref) ==
  LET size == At(table, ref, 8)
  IN CommonInode(table, ref, "lreg") @@
       [size |-> size, list |-> Run(table, ref, 14, 13 + BlockCount(size, Superblock(disk)))]

DirInode(table, ref) ==
  CommonInode(table, ref, "dir") @@
    [start |-> At(table, ref, 7), size |-> At(table, ref, 9), offset |-> At(table, ref, 10)]

LDirInode(table, ref) ==
  CommonInode(table, ref, "ldir") @@
    [start |-> At(table, ref, 9), size |-> At(table, ref, 8), offset |-> At(table, ref, 12)]

(* readInode.                                                              *)
ReadInode(disk, table, ref) ==
  LET type == At(table, ref, 1)
  IN CASE type = "dir" -> DirInode(table, ref)
       [] type = "ldir" -> LDirInode(table, ref)
       [] type = "file" -> FileInode(disk, table, ref)
       [] type = "lreg" -> LRegInode(disk, table, ref)
       [] type = "link" -> LinkInode(table, ref)
       [] type \in {"chr", "blk"} -> DeviceInode(table, ref, type)

(* readEntries: runs of entries, each after a header that says how many    *)
(* they are less one and which block their inodes are in.                  *)
EntriesFrom(table, dir, bytes, left, block) ==
  LET ref == <<dir.start, dir.offset>>
      Entry(at, length) == <<Run(table, ref, at.bytes + 5, at.bytes + 4 + length),
                             <<at.block, At(table, ref, at.bytes + 1)>>>>
      entries[at \in [bytes : Nat, left : Nat, block : Nat]] ==
        IF at.left > 0
        THEN LET length == At(table, ref, at.bytes + 4) + 1
             IN <<Entry(at, length)>>
                  \o entries[[at EXCEPT !.bytes = @ + 4 + length, !.left = @ - 1]]
        ELSE IF at.bytes < dir.size - Sizeless
        THEN entries[[bytes |-> at.bytes + 3, left |-> At(table, ref, at.bytes + 1) + 1,
                      block |-> At(table, ref, at.bytes + 2)]]
        ELSE <<>>
  IN entries[[bytes |-> bytes, left |-> left, block |-> block]]

(* An empty directory has no block to look for.                            *)
ReadEntries(table, dir) ==
  IF dir.size = Sizeless THEN <<>> ELSE EntriesFrom(table, dir, 0, 0, 0)

(* The inodes that are reached from the root: getChildren, over and over.  *)
Reached(disk, inodes, dirs, root) ==
  LET Read(refs) == {ReadInode(disk, inodes, ref) : ref \in refs}
      Listed(read) == UNION {{e[2] : e \in ToSet(ReadEntries(dirs, node))} :
                               node \in {n \in read : n.type \in {"dir", "ldir"}}}
      reached[refs \in SUBSET (Nat \X Nat)] ==
        IF refs = {} THEN {} ELSE Read(refs) \cup reached[Listed(Read(refs))]
  IN reached[{root}]

Mount(disk) ==
  LET super == Superblock(disk)
      inodes == ReadTable(disk, super.inodeTable, super.dirTable)
      dirs == ReadTable(disk, super.dirTable, super.dirTableEnd)
      nodes == Reached(disk, inodes, dirs, super.root)
      Number(ref) == ReadInode(disk, inodes, ref).inode
      Listed(node) == LET list == ReadEntries(dirs, node)
                      IN [i \in DOMAIN list |-> <<list[i][1], Number(list[i][2])>>]
  IN [n \in {node.inode : node \in nodes} |->
        LET node == CHOOSE x \in nodes : x.inode = n
        IN CASE node.type \in {"dir", "ldir"} -> [type |-> node.type, entries |-> Listed(node)]
             [] node.type = "file" -> [type |-> "file", bytes |-> node.bytes]
             [] node.type = "lreg" -> [type |-> "lreg", size |-> node.size]
             [] node.type = "link" -> [type |-> "link", target |-> node.target]
             [] OTHER -> [type |-> node.type, rdev |-> node.rdev]]
=============================================================================

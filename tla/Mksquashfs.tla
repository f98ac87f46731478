----------------------------- MODULE Mksquashfs -----------------------------
(***************************************************************************)
(* The builder of squashfs images (mksquashfs, external): what Squashfs    *)
(* reads.  Pack is the image of a tree, with metadata blocks of metaSize   *)
(* cells and data blocks of 2^blockLog.                                    *)
(***************************************************************************)
EXTENDS Squashfs

CutsOf(size, length) == (size + length - 1) \div length
Pack(tree, metaSize, blockLog) ==
  LET Number == 1..Cardinality(DOMAIN tree)
      blockSize == 2^blockLog
      SumTo(size, n) == FoldLeft(LAMBDA s, i : s + size[i], 0, [i \in 1..(n - 1) |-> i])
      MetaBlock(cells, b) == SubSeq(cells, (b - 1) * metaSize + 1,
                                    IF b * metaSize < Len(cells) THEN b * metaSize ELSE Len(cells))
      Cut(cells) == FlattenSeq([b \in 1..CutsOf(Len(cells), metaSize) |->
                                  <<Len(MetaBlock(cells, b))>> \o MetaBlock(cells, b)])
      Ref(at) == <<(at \div metaSize) * (metaSize + HeaderSize), at % metaSize>>
      Bytes(n) == IF tree[n].type = "file" THEN tree[n].bytes ELSE <<>>
      Chunk(n, c) == SubSeq(Bytes(n), (c - 1) * blockSize + 1,
                            IF c * blockSize < Len(Bytes(n)) THEN c * blockSize ELSE Len(Bytes(n)))
      Zero(chunk) == ToSet(chunk) = {0}
      Chunks(n) == [c \in 1..CutsOf(Len(Bytes(n)), blockSize) |-> Chunk(n, c)]
      Stored(n) == FlattenSeq(SelectSeq(Chunks(n), LAMBDA c : ~Zero(c)))
      List(n) == [c \in DOMAIN Chunks(n) |-> IF Zero(Chunks(n)[c]) THEN 0 ELSE Len(Chunks(n)[c])]
      LargeList(n) == [c \in 1..CutsOf(tree[n].size, blockSize) |-> blockSize]
      inodeSize == [n \in Number |->
                      CASE tree[n].type = "dir" -> 11
                        [] tree[n].type = "ldir" -> 13
                        [] tree[n].type = "file" -> 10 + Len(List(n))
                        [] tree[n].type = "lreg" -> 13 + Len(LargeList(n))
                        [] tree[n].type = "link" -> 8 + Len(tree[n].target)
                        [] OTHER -> 8]
      InodeRef(n) == Ref(SumTo(inodeSize, n))
      Entry(e) == <<InodeRef(e[2])[2], 0, tree[e[2]].type, Len(e[1]) - 1>> \o e[1]
      BlockOf(e) == InodeRef(e[2])[1]
      (* A header before every run of entries whose inodes share a block.  *)
      RunLength(entries, i) ==
        CHOOSE k \in 1..(Len(entries) - i + 1) :
          /\ \A j \in i..(i + k - 1) : BlockOf(entries[j]) = BlockOf(entries[i])
          /\ i + k <= Len(entries) => BlockOf(entries[i + k]) # BlockOf(entries[i])
      Begins(entries, i) == i = 1 \/ BlockOf(entries[i - 1]) # BlockOf(entries[i])
      Listing(n) ==
        LET entries == tree[n].entries
        IN FlattenSeq([i \in DOMAIN entries |->
             (IF Begins(entries, i) THEN <<RunLength(entries, i) - 1, BlockOf(entries[i]), n>> ELSE <<>>)
               \o Entry(entries[i])])
      Listings == [n \in Number |-> IF tree[n].type \in {"dir", "ldir"} THEN Listing(n) ELSE <<>>]
      listSize == [n \in Number |-> Len(Listings[n])]
      dataSize == [n \in Number |-> Len(Stored(n))]
      Inode(n) ==
        LET list == Ref(SumTo(listSize, n))
            size == listSize[n] + Sizeless
        IN <<tree[n].type, Unread, Unread, Unread, Unread, n>> \o
           CASE tree[n].type = "dir" -> <<list[1], Unread, size, list[2], Unread>>
             [] tree[n].type = "ldir" -> <<Unread, size, list[1], Unread, Unread, list[2], Unread>>
             [] tree[n].type = "file" ->
                  <<SuperblockSize + SumTo(dataSize, n), Unread, Unread, Len(Bytes(n))>> \o List(n)
             [] tree[n].type = "lreg" ->
                  <<Unread, tree[n].size, Unread, Unread, Unread, Unread, Unread>> \o LargeList(n)
             [] tree[n].type = "link" -> <<Unread, Len(tree[n].target)>> \o tree[n].target
             [] OTHER -> <<Unread, tree[n].rdev>>
      data == FlattenSeq([n \in Number |-> Stored(n)])
      inodes == Cut(FlattenSeq([n \in Number |-> Inode(n)]))
      dirs == Cut(FlattenSeq(Listings))
      inodeTable == SuperblockSize + Len(data)
      dirTable == inodeTable + Len(inodes)
      end == dirTable + Len(dirs)
  IN <<Unread, Unread, Unread, blockSize, Unread, Unread, blockLog, Unread, Unread, 4, 0,
       InodeRef(1)[2], InodeRef(1)[1], 0, Unread, 0, Unread, 0, Unread, 0,
       inodeTable, 0, dirTable, 0, end, 0, Unread, 0>>
       \o data \o inodes \o dirs
=============================================================================

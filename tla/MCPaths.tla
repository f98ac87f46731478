------------------------------- MODULE MCPaths -------------------------------
(* A small instance of Paths for TLC, on trees that come from an image.    *)
EXTENDS Paths, Mksquashfs

A == <<"a">>
B == <<"b">>
L == <<"l">>
K == <<"k">>
D == <<"d">>
One == <<"1">>

Dir(entries) == [type |-> "dir", entries |-> entries]
Link(target) == [type |-> "link", target |-> target]

(* /a with three files, links to it and to itself, an empty directory, and a  *)
(* block device; runs of entries whose inodes are in different blocks.     *)
Tree ==
  <<Dir(<<<<A, 2>>, <<L, 3>>, <<K, 4>>, <<<<"a", "b">>, 6>>, <<D, 7>>>>),
    [type |-> "ldir", entries |-> <<<<B, 5>>, <<<<"c">>, 8>>, <<D, 9>>>>],
    Link(<<A, B>>),
    Link(<<Empty, K>>),
    [type |-> "file", bytes |-> <<1, 2, 0, 0, 3, 0, 4>>],
    Dir(<<>>),
    [type |-> "blk", rdev |-> 8],
    [type |-> "lreg", size |-> 4],
    [type |-> "file", bytes |-> <<5, 6, 7>>]>>

AllImages ==
  {[tree |-> Tree, disk |-> Pack(Tree, metaSize, blockLog)] :
     metaSize \in 2..14 \cup {20, 40}, blockLog \in 0..2}

Alphabet == {Empty, DotDot, A, B, L, K, ProcName, One, <<"c">>}
AllPaths ==
  {<<x, y>> : x, y \in Alphabet} \cup {<<Empty, x, y>> : x, y \in Alphabet}
    \cup {<<Empty, ProcName, One, x, y>> : x \in {<<"c">>, <<"r">>}, y \in Alphabet}
Numbers == <<<<"0">>, <<"1">>, <<"2">>>>

Asked == {<<A>>, <<A, A>>, <<DotDot>>, <<Empty, B>>, <<One>>, <<Empty, ProcName>>}
==============================================================================

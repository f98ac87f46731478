-------------------------------- MODULE Paths --------------------------------
(***************************************************************************)
(* Names of files: the tree of nodes and procfs of src/src/noopfs.js, in   *)
(* which Lookup finds the node of a path, and the calls of                 *)
(* src/src/syscalls.js that look up a path, change the working directory,  *)
(* create a file or list a directory.                                      *)
(*                                                                         *)
(* A node is <<"node", n>>, a directory of procfs <<"proc", p>> (its root  *)
(* <<"proc", 0>>), a link there <<"self", 0>>, <<"cwd", p>>, <<"root", p>>.*)
(* Directories are read from the image at their first use; here all are    *)
(* read by Boot.                                                           *)
(***************************************************************************)
EXTENDS Lookup, Squashfs, FiniteSets

CONSTANTS
  MaxProc,    \* bound: processes ever created
  MaxMade,    \* bound: files ever made by open
  MaxDepth,   \* bound: names in a working directory
  Numerals,   \* bound: the names that are numbers, 0, 1, 2, ...
  Images,     \* bound: images, each [tree, disk]: what it was made of, and its cells
  PathSet,    \* bound: paths that calls are given
  LookedUp,   \* bound: paths that LookupCorrect looks up
  Counts      \* bound: sizes of the buffer that getdents is given

Proc == 1..MaxProc
Dot == <<".">>
DotDot == <<".", ".">>
ProcName == <<"p">>                        \* proc
PidText(i) == Numerals[i + 1]
RootPath == <<Empty, Empty>>               \* "/"

Directories == {"dir", "ldir"}
Types == Directories \cup {"link", "file", "lreg", "blk", "chr"}
Distinct(entries) ==
  \A i, j \in DOMAIN entries : entries[i][1] = entries[j][1] => i = j

(* What the reader makes of an image is a tree: nodes are numbered from 1, *)
(* the root, and each other one is in a directory, by a name of its own.   *)
IsTree(nodes) ==
  LET Lists(d, n) == \E i \in DOMAIN nodes[d].entries : nodes[d].entries[i][2] = n
      Dirs == {d \in DOMAIN nodes : nodes[d].type \in Directories}
  IN /\ Len(nodes) \in Nat /\ DOMAIN nodes = 1..Len(nodes) /\ 1 \in Dirs
     /\ \A n \in DOMAIN nodes :
          /\ nodes[n].type \in Types
          /\ nodes[n].type = "file" => nodes[n].bytes \in Seq(Nat)
          /\ nodes[n].type = "link" => nodes[n].target \in Path
          /\ nodes[n].type \in {"chr", "blk"} => nodes[n].rdev \in Nat
          /\ n # 1 => \E d \in Dirs : Lists(d, n)
     /\ \A d \in Dirs :
          /\ nodes[d].entries \in Seq((Name \ {Empty, Dot, DotDot}) \X DOMAIN nodes)
          /\ Distinct(nodes[d].entries)

ASSUME PathsAssumption ==
  /\ {".", "p", "s", "c", "r"} \subseteq Letters
  /\ MaxProc \in Nat \ {0} /\ MaxMade \in Nat /\ MaxDepth \in Nat \ {0, 1}
  /\ Numerals \in Seq(Name \ {Dot, DotDot, <<"s">>}) /\ Len(Numerals) > MaxProc
  /\ \A i, j \in DOMAIN Numerals : Numerals[i] = Numerals[j] => i = j
  /\ PathSet \subseteq Path /\ LookedUp \subseteq Path /\ Counts \subseteq Nat
ASSUME ImagesAssumption == \A i \in Images : IsTree(Mount(i.disk))

VARIABLES
  image,      \* the image, until it is read
  tree,       \* tree[n]: [type, entries, target, data, image], in the order of creation
  cwd,        \* cwd[p], a path
  nprocs,     \* processes.length
  exited,
  listing,    \* listing[p]: the directory that p lists, and how far it is
  thrown      \* an Error ended the emulator
vars == <<image, tree, cwd, nprocs, exited, listing, thrown>>

Node(n) == <<"node", n>>
Root == Node(1)
Opened(dir, keys) ==
  [dir |-> dir, pos |-> 0, got |-> <<>>, short |-> FALSE, keys |-> keys, changed |-> FALSE]
NoListing == Opened(<<"none", 0>>, <<>>)

-----------------------------------------------------------------------------
(* Nodes.                                                                  *)

(* The bits of a mode: S_ISLNK, S_ISREG and S_ISDIR each test some.        *)
Bits(type) ==
  CASE type = "link" -> {8, 2} [] type \in {"file", "lreg"} -> {8}
    [] type \in {"dir", "ldir"} -> {4} [] type = "blk" -> {4, 2} [] type = "chr" -> {2}

Type(node) ==
  CASE node[1] = "node" -> tree[node[2]].type
    [] node[1] = "proc" -> "dir"
    [] OTHER -> "link"
IsLink(node) == {8, 2} \subseteq Bits(Type(node))
IsDir(node) == 4 \in Bits(Type(node))

(* The elements of a sequence that are in a set, in their order.           *)
Kept(s, set) ==
  LET kept[n \in 0..Len(s)] ==
        IF n = 0 THEN <<>>
        ELSE IF s[n] \in set THEN Append(kept[n - 1], s[n]) ELSE kept[n - 1]
  IN kept[Len(s)]

(* procFSProcess and procFSRoot make their children anew at every call.    *)
Living == Kept([q \in 1..nprocs |-> q], {q \in 1..nprocs : ~exited[q]})
ProcEntries(node) ==
  IF node[2] = 0
  THEN <<<<Dot, node>>, <<DotDot, Root>>, <<<<"s">>, <<"self", 0>>>>>>
       \o [i \in DOMAIN Living |-> <<PidText(Living[i]), <<"proc", Living[i]>>>>]
  ELSE <<<<Dot, node>>, <<DotDot, <<"proc", 0>>>>,
         <<<<"c">>, <<"cwd", node[2]>>>>, <<<<"r">>, <<"root", node[2]>>>>>>

(* getChildren; a node of the image that is no directory has none, which   *)
(* is a TypeError, while one made by open, and a link of procfs, have an   *)
(* object without names.                                                   *)
HasChildren(node) ==
  node[1] = "node" => Type(node) \in Directories \/ ~tree[node[2]].image
Children(node) ==
  CASE node[1] = "node" -> tree[node[2]].entries
    [] node[1] = "proc" -> ProcEntries(node)
    [] OTHER -> <<>>
Object(entries) ==
  [name \in {entries[i][1] : i \in DOMAIN entries} |->
     entries[CHOOSE i \in DOMAIN entries : entries[i][1] = name][2]]

(* The data of a link.  /proc/self is the index of the process in          *)
(* processes, which is one less than its pid.                              *)
Target(node, p) ==
  CASE node[1] = "node" -> tree[node[2]].target
    [] node[1] = "self" -> <<PidText(p - 1)>>
    [] node[1] = "cwd" -> cwd[node[2]]
    [] node[1] = "root" -> RootPath

-----------------------------------------------------------------------------
(* Lookup.                                                                 *)
Nodes ==
  {Node(n) : n \in DOMAIN tree} \cup ({"proc"} \X (0..MaxProc))
    \cup {<<"self", 0>>} \cup ({"cwd", "root"} \X Proc)
Graph(p) ==
  [nodes |-> Nodes, root |-> Root,
   children |-> [d \in {x \in Nodes : HasChildren(x)} |-> Object(Children(d))],
   target |-> [l \in {x \in Nodes : IsLink(x)} |-> Target(l, p)]]

FromOf(p, path) == IF Absolute(path) THEN path ELSE cwd[p] \o path
(* getNodeForPath.                                                         *)
Find(p, path, stopOnLinks) ==
  IF path = <<Empty>> THEN NoEntry ELSE Led(Graph(p), FromOf(p, path), stopOnLinks)

-----------------------------------------------------------------------------
Throws ==
  /\ thrown' = TRUE
  /\ UNCHANGED <<image, tree, cwd, nprocs, exited, listing>>

(* These and the lookup of execve change nothing of what is modelled here, *)
(* but may meet the TypeError.                                             *)
Stat(p, path, followLinks) == Find(p, path, ~followLinks) = TypeError /\ Throws
Access(p, path) == Find(p, path, FALSE) = TypeError /\ Throws
Readlink(p, path) == Find(p, path, TRUE) = TypeError /\ Throws

(* sys_chdir.  The directory it enters is written down as it was asked for,*)
(* except "..", which takes the last name away.                            *)
ParentBare(dir) == IF dir = RootPath THEN dir ELSE Front(dir)    \* mutant: "" is no directory
Parent(dir) ==
  IF dir = RootPath THEN dir ELSE IF Len(dir) = 2 THEN RootPath ELSE Front(dir)
EnteredFromRoot(dir, path) ==      \* mutant: as if it were absolute
  CASE Absolute(path) -> path [] path = <<DotDot>> -> Parent(dir) [] OTHER -> <<Empty>> \o path
Entered(dir, path) ==
  CASE Absolute(path) -> path
    [] path = <<Dot>> -> dir
    [] path = <<DotDot>> -> Parent(dir)
    [] OTHER -> (IF Last(dir) = Empty THEN Front(dir) ELSE dir) \o path

Chdir(p, path) ==
  LET found == Find(p, path, FALSE)
  IN \/ found = TypeError /\ Throws
     \/ /\ ~Failed(found) /\ Len(Entered(cwd[p], path)) <= MaxDepth
        /\ cwd' = [cwd EXCEPT ![p] = Entered(cwd[p], path)]
        /\ UNCHANGED <<image, tree, nprocs, exited, listing, thrown>>

-----------------------------------------------------------------------------
(* sys_open and sys_openat.                                                *)

(* The path without its last name.  Nothing is left of "/x": "./" is used. *)
PathNameBare(path) == <<Dot, Empty>>      \* mutant: always the working directory
PathName(path) == IF Front(path) \in {<<>>, <<Empty>>} THEN <<Dot, Empty>> ELSE Front(path)

Stored(entries, name, node) ==
  IF \E i \in DOMAIN entries : entries[i][1] = name
  THEN [i \in DOMAIN entries |-> IF entries[i][1] = name THEN <<name, node>> ELSE entries[i]]
  ELSE Append(entries, <<name, node>>)

(* A file made in procfs is in the children that nobody sees again.        *)
WithFile(parent, name) ==
  LET new == [type |-> "file", entries |-> <<>>, target |-> <<>>, data |-> <<>>, image |-> FALSE]
  IN Append(IF parent[1] # "node" THEN tree
            ELSE [tree EXCEPT ![parent[2]].entries = Stored(@, name, Node(Len(tree) + 1))], new)

Create(p, path, noFollow) ==
  LET found == Find(p, path, noFollow)
      parent == Find(p, PathName(path), noFollow)
  IN /\ found = NoEntry
     /\ \/ (parent = TypeError \/ (~Failed(parent) /\ ~HasChildren(parent))) /\ Throws
        \/ /\ ~Failed(parent) /\ HasChildren(parent)
           /\ Cardinality({n \in DOMAIN tree : ~tree[n].image}) < MaxMade
           /\ tree' = WithFile(parent, Last(path))
           /\ UNCHANGED <<image, cwd, nprocs, exited, listing, thrown>>

(* Object.keys: the names that are numbers come first, in their order.     *)
NumbersFirst(names) ==
  Kept(Numerals, ToSet(names)) \o Kept(names, ToSet(names) \ ToSet(Numerals))
Keys(node) == NumbersFirst([i \in DOMAIN Children(node) |-> Children(node)[i][1]])

(* A directory is opened to be listed.  open refuses character devices,    *)
(* while a block device passes for a directory and has no children.        *)
OpenDir(p, path) ==
  LET found == Find(p, path, FALSE)
  IN /\ ~Failed(found) /\ IsDir(found)
     /\ \A q \in Proc \ {p} : listing[q] = NoListing     \* bound: one process lists
     /\ listing' = [listing EXCEPT ![p] =
                       Opened(found, IF HasChildren(found) THEN Keys(found) ELSE <<>>)]
     /\ UNCHANGED <<image, tree, cwd, nprocs, exited, thrown>>

-----------------------------------------------------------------------------
(* sys_getdents_core: entries are given as long as they fit, each takes    *)
(* two letters more than its name.  The position is moved before that is   *)
(* known, so that the first entry that does not fit is passed over; and if *)
(* no room at all is left for it, the call fails with what it has given.   *)
Used(names) ==     \* by the first n of them
  LET used[n \in 0..Len(names)] == IF n = 0 THEN 0 ELSE used[n - 1] + Len(names[n]) + 2 IN used
Given(names, room) ==
  LET Stops == {n \in 0..Len(names) : n = Len(names) \/ ~(Used(names)[n + 1] <= room)}
  IN SubSeq(names, 1, Min(Stops))
Taken(names) == Used(names)[Len(names)]

PassedNone(given, left) == 0   \* mutant: the position is not kept
PassedOver(given, left) == IF Len(given) < Len(left) THEN Len(given) + 1 ELSE Len(given)

AfterCall(l, keys, room) ==
  LET left == SubSeq(keys, l.pos + 1, Len(keys))
      given == Given(left, room)
      short == Len(given) < Len(left)
  IN [dir |-> l.dir, keys |-> l.keys,
      pos |-> l.pos + PassedOver(given, left),
      got |-> IF short /\ Taken(given) = room THEN l.got ELSE l.got \o given,
      short |-> l.short \/ short,
      changed |-> l.changed \/ keys # l.keys]

Getdents(p, room) ==
  LET dir == listing[p].dir
  IN /\ dir # NoListing.dir
     /\ \/ ~HasChildren(dir) /\ Throws
        \/ /\ HasChildren(dir)
           /\ listing' = [listing EXCEPT ![p] = AfterCall(@, Keys(dir), room)]
           /\ UNCHANGED <<image, tree, cwd, nprocs, exited, thrown>>

(* clone copies the working directory (and the positions: see Files).      *)
Clone(p) ==
  LET q == nprocs + 1
  IN /\ q \in Proc
     /\ nprocs' = q
     /\ cwd' = [cwd EXCEPT ![q] = cwd[p]]
     /\ UNCHANGED <<image, tree, exited, listing, thrown>>

Exit(p) ==
  /\ exited' = [exited EXCEPT ![p] = TRUE]
  /\ listing' = [listing EXCEPT ![p] = NoListing]
  /\ UNCHANGED <<image, tree, cwd, nprocs, thrown>>

-----------------------------------------------------------------------------
(* The nodes of an image, each directory with "." and ".." after its own   *)
(* entries; mountProc adds procfs to the root, or puts it in place of what *)
(* has its name.                                                           *)
ParentIn(nodes, n) ==
  IF n = 1 THEN 1
  ELSE CHOOSE d \in DOMAIN nodes :
         nodes[d].type \in Directories /\ \E i \in DOMAIN nodes[d].entries : nodes[d].entries[i][2] = n
Mounted(nodes) ==
  [n \in DOMAIN nodes |->
     LET dots == <<<<Dot, Node(n)>>, <<DotDot, Node(ParentIn(nodes, n))>>>>
         own == IF nodes[n].type \in Directories
                THEN [i \in DOMAIN nodes[n].entries |->
                        <<nodes[n].entries[i][1], Node(nodes[n].entries[i][2])>>] \o dots
                ELSE <<>>
     IN [type |-> nodes[n].type, image |-> TRUE,
         target |-> IF nodes[n].type = "link" THEN nodes[n].target ELSE <<>>,
         data |-> CASE nodes[n].type = "file" -> nodes[n].bytes
                    [] nodes[n].type \in {"chr", "blk"} -> <<nodes[n].rdev>>
                    [] OTHER -> <<>>,
         entries |-> IF n = 1 THEN Stored(own, ProcName, <<"proc", 0>>) ELSE own]]

Init ==
  /\ image \in Images /\ tree = <<>>
  /\ cwd = [p \in Proc |-> RootPath]
  /\ nprocs = 1
  /\ exited = [p \in Proc |-> FALSE]
  /\ listing = [p \in Proc |-> NoListing]
  /\ thrown = FALSE

(* new SquashFS and emuStart; image.buffer is not read again.              *)
Boot ==
  /\ tree = <<>>
  /\ tree' = Mounted(Mount(image.disk))
  /\ image' = <<>>
  /\ UNCHANGED <<cwd, nprocs, exited, listing, thrown>>

Call(p) ==
  \/ \E path \in PathSet :
       \/ Chdir(p, path) \/ OpenDir(p, path) \/ Access(p, path) \/ Readlink(p, path)
       \/ \E flag \in BOOLEAN : Stat(p, path, flag) \/ Create(p, path, flag)
  \/ \E room \in Counts : Getdents(p, room)
  \/ Clone(p) \/ Exit(p)

Next == Boot \/ (tree # <<>> /\ ~thrown /\ \E p \in 1..nprocs : ~exited[p] /\ Call(p))
Spec == Init /\ [][Next]_vars

-----------------------------------------------------------------------------
Listing ==
  [dir : Nodes \cup {NoListing.dir}, pos : Nat, got : Seq(Name), short : BOOLEAN,
   keys : Seq(Name), changed : BOOLEAN]

TypeOK ==
  /\ tree \in Seq([type : Types, entries : Seq(Name \X Nodes), target : Seq(Name),
                   data : Seq(Nat), image : BOOLEAN])
  /\ \A n \in DOMAIN tree :
       /\ Distinct(tree[n].entries)
       /\ tree[n].type = "link" => tree[n].target \in Path
  /\ cwd \in [Proc -> Path]
  /\ \A p \in Proc : Absolute(cwd[p]) /\ Len(cwd[p]) \in 2..MaxDepth
  /\ nprocs \in Proc /\ exited \in [Proc -> BOOLEAN] /\ thrown \in BOOLEAN
  /\ listing \in [Proc -> Listing]

(* squashfs.js finds inodes and listings by where their blocks begin on    *)
(* disk, in tables that it has put together: whatever the blocks cut apart,*)
(* a record, a listing or a run, the tree it reads is the one packed.      *)
MountRebuilds == [][tree = <<>> => tree' = Mounted(image.tree)]_vars

(* getNodeForAbsPath splices targets into the names it has left, and counts*)
(* links over all of them: for every path, through links to links, loops,  *)
(* empty names, procfs and what open has made of the tree, it finds what   *)
(* the path means, or the error that its meaning has.                      *)
Means(p, path, stopOnLinks) ==
  Meaning(Graph(p))[From(Graph(p), Tail(FromOf(p, path)), stopOnLinks)].node
LookupCorrect ==
  tree # <<>> /\ listing = [p \in Proc |-> NoListing] =>    \* bound: lookups read no listing
    \A p \in 1..nprocs, path \in LookedUp \ {<<Empty>>}, stop \in BOOLEAN :
      Find(p, path, stop) = Means(p, path, stop)

(* chdir keeps text, and "doesn't resolve path" (syscalls.js:776): except  *)
(* after "..", the directory that is then the working directory is the one *)
(* the path led to before the call.  "." keeps the text as it is, and may  *)
(* lead to a file made by the name "." in another file.                    *)
ChdirEnters ==
  [][\A p \in 1..nprocs, path \in PathSet :
       tree # <<>> /\ Chdir(p, path) /\ ~thrown' /\ path # <<DotDot>>
         /\ (path = <<Dot>> => IsDir(Find(p, path, FALSE)))
         => Led(Graph(p), cwd'[p], FALSE) = Find(p, path, FALSE)]_vars

(* O_CREAT makes a file where nothing was found, "bad for various reasons" *)
(* (syscalls.js:692): an entry of a directory is only ever replaced if it  *)
(* is a dangling link, or by a path that is one name after a slash, which  *)
(* is made in the working directory instead of the root; or if it has no   *)
(* name, which the empty path makes anew each time.                        *)
EntriesKept ==
  [][\A n \in DOMAIN tree : \A i \in DOMAIN tree[n].entries :
       LET entry == tree[n].entries[i]
       IN tree[n].type \in Directories /\ tree'[n].entries[i] # entry =>
            \/ IsLink(entry[2]) \/ entry[1] = Empty
            \/ \E p \in Proc : /\ Find(p, <<Empty, entry[1]>>, FALSE) = NoEntry
                               /\ Led(Graph(p), cwd[p], FALSE) = Node(n)]_vars

(* While the names of a directory stay the same, calls of getdents give    *)
(* them in order and none twice, and if every call had room for all, all.  *)
InOrder(l) ==
  \A i, j \in DOMAIN l.got, a, b \in DOMAIN l.keys :
    i < j /\ l.got[i] = l.keys[a] /\ l.got[j] = l.keys[b] => a < b
ListingInOrder ==
  \A p \in Proc :
    LET l == listing[p]
    IN ~l.changed =>
         /\ ToSet(l.got) \subseteq ToSet(SubSeq(l.keys, 1, l.pos)) /\ InOrder(l)
         /\ ~l.short => l.got = SubSeq(l.keys, 1, l.pos)
===============================================================================

-------------------------------- MODULE Files --------------------------------
(***************************************************************************)
(* In-memory files: memFSBackedFile of src/src/noopfs.js and the calls of  *)
(* src/src/syscalls.js that open, read, write, seek, poll and duplicate.   *)
(* A file has its data and, kept apart from it, its size.  The data of a   *)
(* file of the image is an ArrayBuffer (`packed') until it is written or   *)
(* truncated, that of any other file a string.  An open file is an object  *)
(* with an offset: dup shares it, clone copies it for every descriptor.    *)
(* A descriptor is an index of fds[p] less one.                            *)
(***************************************************************************)
EXTENDS Integers, Sequences, FiniteSets

CONSTANTS
  File,
  Byte,
  Imaged,    \* the files that the image holds
  Image,     \* their contents
  Label,     \* "[object ArrayBuffer]", its length scaled down
  MaxProc,   \* bound: processes ever created
  MaxFds,    \* bound: length of a descriptor table
  MaxOpen,   \* bound: open-file objects in use
  MaxSize,   \* bound: bytes in a file, and offsets
  Offsets,   \* bound: distances that lseek is given
  Lengths,   \* bound: lengths that reads ask for
  News       \* bound: what a write may carry

Proc == 1..MaxProc
Handle == 1..MaxOpen
NoHandle == 0             \* null: a closed descriptor

ASSUME ConstantsAssumption ==
  /\ File # {} /\ Imaged \subseteq File
  /\ 0 \in Byte /\ {Image, Label} \subseteq Seq(Byte) /\ News \subseteq Seq(Byte)
  /\ {MaxProc, MaxFds, MaxOpen, MaxSize} \subseteq Nat \ {0}
  /\ Offsets \subseteq Int /\ Lengths \subseteq Nat
  /\ Len(Image) <= MaxSize

VARIABLES
  data,      \* data[f]: bytes of node.data
  packed,    \* node.data is an ArrayBuffer
  size,      \* node.size
  file,      \* file[h]: node of the open-file object h
  pos,       \* pos[h]: its offset
  fds,       \* fds[p]: a sequence of objects
  live,      \* live[p]: created and not released
  got,       \* what the latest read returned
  thrown     \* an Error ended the emulator
nodeVars == <<data, packed, size>>
vars == <<nodeVars, file, pos, fds, live, got, thrown>>

Init ==
  /\ data = [f \in File |-> IF f \in Imaged THEN Image ELSE <<>>]
  /\ packed = [f \in File |-> f \in Imaged]
  /\ size = [f \in File |-> Len(data[f])]
  /\ file = [h \in Handle |-> CHOOSE f \in File : TRUE]   \* read only after Open
  /\ pos = [h \in Handle |-> 0]
  /\ fds = [p \in Proc |-> <<>>]
  /\ live = [p \in Proc |-> p = 1]
  /\ got = <<>> /\ thrown = FALSE

Slots(p) == DOMAIN fds[p]
IsOpen(p, i) == i \in Slots(p) /\ fds[p][i] # NoHandle
Held(p) == {fds[p][i] : i \in Slots(p)} \ {NoHandle}
Unused == Handle \ UNION {Held(p) : p \in Proc}
New == CHOOSE h \in Unused : TRUE

Throws ==
  /\ thrown' = TRUE
  /\ UNCHANGED <<nodeVars, file, pos, fds, live, got>>

-----------------------------------------------------------------------------
(* memFSBackedFile.                                                        *)

Least(a, b) == IF a < b THEN a ELSE b
Greatest(a, b) == IF a > b THEN a ELSE b
Zeros(n) == [i \in 1..n |-> 0]

(* read: a string is cut to what is there, a view of an ArrayBuffer that   *)
(* begins after its end is a RangeError.                                   *)
ReadFails(h) == packed[file[h]] /\ pos[h] > Len(data[file[h]])
BytesFromStart(h, n) ==        \* mutant: the offset is not used
  SubSeq(data[file[h]], 1, Least(n, Len(data[file[h]])))
BytesAt(h, n) ==
  LET bytes == data[file[h]] IN SubSeq(bytes, pos[h] + 1, Least(pos[h] + n, Len(bytes)))

(* write.  What is added to an ArrayBuffer is added to its text.           *)
AsText(f) == IF packed[f] THEN Label ELSE data[f]
Padded(f, at) == AsText(f) \o Zeros(at - size[f])
Appended(f, at, new) ==
  IF at > size[f] THEN Padded(f, at) \o new ELSE AsText(f) \o new

InsertedAt(bytes, at, new) ==  \* mutant: the rest is not overwritten
  SubSeq(bytes, 1, at) \o new \o SubSeq(bytes, at + 1, Len(bytes))
SplicedAt(bytes, at, new) ==
  SubSeq(bytes, 1, at) \o new \o SubSeq(bytes, at + Len(new) + 1, Len(bytes))

SizeWithoutGrowth(f, at, new) == size[f]   \* mutant: size is forgotten
SizeOverlaid(f, at, new) == Greatest(size[f], at + Len(new))

Written(f, at, new) ==
  /\ \/ /\ at < size[f]
        /\ data' = [data EXCEPT ![f] = SplicedAt(@, at, new)]
        /\ size' = [size EXCEPT ![f] = SizeOverlaid(f, at, new)]
     \/ /\ at >= size[f]
        /\ data' = [data EXCEPT ![f] = Appended(f, at, new)]
        /\ size' = [size EXCEPT ![f] = Len(Appended(f, at, new))]
  /\ packed' = [packed EXCEPT ![f] = FALSE]

-----------------------------------------------------------------------------
(* System calls.                                                           *)

Opened(f, truncates) ==
  IF truncates
  THEN /\ data' = [data EXCEPT ![f] = <<>>]
       /\ packed' = [packed EXCEPT ![f] = FALSE]
       /\ size' = [size EXCEPT ![f] = 0]
  ELSE UNCHANGED nodeVars

(* sys_open, and sys_openat without a flag; O_CREAT of a file that is not  *)
(* there makes one that is empty, as the files outside the image are.      *)
Open(p, f, truncates) ==
  /\ Len(fds[p]) < MaxFds /\ Unused # {}
  /\ Opened(f, truncates)
  /\ fds' = [fds EXCEPT ![p] = Append(@, New)]
  /\ file' = [file EXCEPT ![New] = f]
  /\ pos' = [pos EXCEPT ![New] = 0]
  /\ UNCHANGED <<live, got, thrown>>

(* O_APPEND is an Error, though not before O_TRUNC has been done.          *)
OpenAppend(f, truncates) ==
  /\ Opened(f, truncates)
  /\ thrown' = TRUE
  /\ UNCHANGED <<file, pos, fds, live, got>>

Read(p, i, n) ==
  LET h == fds[p][i]
  IN \/ ReadFails(h) /\ Throws
     \/ /\ ~ReadFails(h)
        /\ got' = BytesAt(h, n)
        /\ pos' = [pos EXCEPT ![h] = @ + Len(BytesAt(h, n))]
        /\ UNCHANGED <<nodeVars, file, fds, live, thrown>>

(* sys_poll for input reads one byte to see whether there is one.          *)
Poll(p, i) ==
  LET h == fds[p][i]
  IN \/ ReadFails(h) /\ Throws
     \/ /\ ~ReadFails(h)
        /\ pos' = [pos EXCEPT ![h] = @ + Len(BytesAt(h, 1))]
        /\ UNCHANGED <<nodeVars, file, fds, live, got, thrown>>

Write(p, i, new) ==
  LET h == fds[p][i]
  IN /\ Written(file[h], pos[h], new)
     /\ size'[file[h]] <= MaxSize /\ pos[h] + Len(new) <= MaxSize
     /\ pos' = [pos EXCEPT ![h] = @ + Len(new)]
     /\ UNCHANGED <<file, fds, live, got, thrown>>

(* do_lseek: a negative offset is EINVAL, one beyond the end is not.       *)
ValidBelow(offset) == offset <= MaxSize   \* mutant: negative offsets too
Valid(offset) == offset \in 0..MaxSize
Seek(p, i, offset, whence) ==
  LET h == fds[p][i]
      base == CASE whence = "SET" -> 0 [] whence = "CUR" -> pos[h] [] whence = "END" -> size[file[h]]
  IN /\ Valid(base + offset)
     /\ pos' = [pos EXCEPT ![h] = base + offset]
     /\ UNCHANGED <<nodeVars, file, fds, live, got, thrown>>

Close(p, i) ==
  /\ fds' = [fds EXCEPT ![p][i] = NoHandle]
  /\ UNCHANGED <<nodeVars, file, pos, live, got, thrown>>

Dup(p, i) ==
  /\ Len(fds[p]) < MaxFds
  /\ fds' = [fds EXCEPT ![p] = Append(@, fds[p][i])]
  /\ UNCHANGED <<nodeVars, file, pos, live, got, thrown>>

(* dup2, also to a number beyond the table.                                *)
Placed(s, j, h) ==
  [k \in 1..Greatest(Len(s), j) |-> IF k = j THEN h ELSE IF k \in DOMAIN s THEN s[k] ELSE NoHandle]
Dup2(p, i, j) ==
  /\ fds' = [fds EXCEPT ![p] = Placed(@, j, fds[p][i])]
  /\ UNCHANGED <<nodeVars, file, pos, live, got, thrown>>

-----------------------------------------------------------------------------
(* Processes.                                                              *)

OpenSlots(p) == {i \in Slots(p) : fds[p][i] # NoHandle}
CopiesShared(p) ==             \* mutant: the child has the parent's objects
  {[i \in OpenSlots(p) |-> fds[p][i]]}
(* The objects that are the child's copies of descriptors: one for each.   *)
Copies(p) ==
  {c \in [OpenSlots(p) -> Unused] : \A i, j \in OpenSlots(p) : c[i] = c[j] => i = j}

Clone(p, q) ==
  /\ ~live[q] /\ \A r \in Proc : r < q => live[r]
  /\ Copies(p) # {}
  /\ LET copy == CHOOSE c \in Copies(p) : TRUE
         copied(h) == {i \in OpenSlots(p) : copy[i] = h}
         source(h) == IF copied(h) = {} THEN h ELSE fds[p][CHOOSE i \in copied(h) : TRUE]
     IN /\ fds' = [fds EXCEPT ![q] =
             [i \in Slots(p) |-> IF i \in OpenSlots(p) THEN copy[i] ELSE NoHandle]]
        /\ file' = [h \in Handle |-> file[source(h)]]
        /\ pos' = [h \in Handle |-> pos[source(h)]]
  /\ live' = [live EXCEPT ![q] = TRUE]
  /\ UNCHANGED <<nodeVars, got, thrown>>

(* The release of a process; its number is free for the next one here.     *)
Exit(p) ==
  /\ live' = [live EXCEPT ![p] = FALSE]
  /\ fds' = [fds EXCEPT ![p] = <<>>]
  /\ UNCHANGED <<nodeVars, file, pos, got, thrown>>

Call(p) ==
  \/ \E f \in File, truncates \in BOOLEAN : Open(p, f, truncates) \/ OpenAppend(f, truncates)
  \/ \E i \in OpenSlots(p) :
       \/ \E n \in Lengths : Read(p, i, n)
       \/ \E new \in News : Write(p, i, new)
       \/ \E offset \in Offsets, whence \in {"SET", "CUR", "END"} : Seek(p, i, offset, whence)
       \/ Poll(p, i) \/ Close(p, i) \/ Dup(p, i)
       \/ \E j \in 1..MaxFds : Dup2(p, i, j)
  \/ \E q \in Proc : Clone(p, q)
  \/ Exit(p)

Next == ~thrown /\ \E p \in Proc : live[p] /\ Call(p)
Spec == Init /\ [][Next]_vars

-----------------------------------------------------------------------------
TypeOK ==
  /\ data \in [File -> Seq(Byte)] /\ packed \in [File -> BOOLEAN] /\ size \in [File -> Nat]
  /\ file \in [Handle -> File] /\ pos \in [Handle -> Nat]
  /\ fds \in [Proc -> Seq(Handle \cup {NoHandle})]
  /\ live \in [Proc -> BOOLEAN] /\ got \in Seq(Byte) /\ thrown \in BOOLEAN

(* node.size is kept beside the data and not computed from it: stat, lseek *)
(* and the decision whether a write overlays or appends read it.  It stays *)
(* the length of the data, for an ArrayBuffer, a string or a mixture.      *)
SizeExact == \A f \in File : size[f] = Len(data[f])

(* clone copies every open file ("TODO: think about this", noopfs.js:290): *)
(* whatever is opened, duplicated, cloned or closed, no call of a process  *)
(* moves the offset of another process's descriptor.                       *)
OffsetsPrivate ==
  [][\A p, q \in Proc :
       p # q /\ live[p] /\ live[q] /\ live'[p] /\ live'[q]
         => \/ \A i \in OpenSlots(p) : fds'[p] = fds[p] /\ pos'[fds[p][i]] = pos[fds[p][i]]
            \/ \A i \in OpenSlots(q) : fds'[q] = fds[q] /\ pos'[fds[q][i]] = pos[fds[q][i]]]_vars

(* The code implements files of bytes behind descriptors: whatever         *)
(* descriptors are open on whatever files, in whatever processes, a call   *)
(* on a descriptor reads or writes the bytes of its own file at its own    *)
(* offset, over gaps, overlays across the end, truncation by another       *)
(* descriptor and the change from an ArrayBuffer to a string, moves that   *)
(* offset alone, and lseek counts from the end that the bytes have.        *)
OpenPart(s) == [i \in {k \in DOMAIN s : s[k] # NoHandle} |-> s[i]]
Tables == [p \in Proc |-> OpenPart(fds[p])]
Pristine == {f \in File : packed[f]}
Bytes == INSTANCE ByteStore WITH
  Slot <- 1..MaxFds,
  Description <- Handle,
  contents <- data,
  pristine <- Pristine,
  table <- Tables,
  of <- file,
  at <- pos,
  halted <- thrown
IsByteStore == Bytes!Spec
==============================================================================

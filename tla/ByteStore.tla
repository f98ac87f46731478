------------------------------ MODULE ByteStore ------------------------------
(***************************************************************************)
(* What the calls on in-memory files promise to the programs that make     *)
(* them: a descriptor leads to a description, which has one file and one   *)
(* offset; a read returns the bytes that this file has from this offset    *)
(* on, a write overlays them, with zeros in a gap before it, and both move *)
(* this offset and no other.  There is nothing here of the two forms a     *)
(* file's data has, of the size kept beside it, of the sequences that      *)
(* descriptor tables are, or of which objects and numbers are chosen.      *)
(* What the code does unlike other systems is stated as it is: a clone has *)
(* copies of the descriptions; a poll moves the offset; and a file of the  *)
(* image, until it is first overwritten or truncated, has its contents     *)
(* replaced by the name of their class when bytes are written past them,   *)
(* and halts the emulator when it is read from beyond its end.             *)
(***************************************************************************)
EXTENDS Integers, Sequences

CONSTANTS
  File, Byte, Imaged, Image, Label, Proc,
  Slot,          \* numbers a descriptor may have
  Description,
  Offsets, Lengths, News

VARIABLES
  contents,   \* contents[f], a sequence of bytes
  pristine,   \* files of the image that were never changed
  table,      \* table[p]: the description of each open descriptor of p
  of,         \* of[d]: the file of description d
  at,         \* at[d]: its offset
  got,        \* what the latest read returned
  halted      \* the emulator has ended
store == <<contents, pristine>>
vars == <<store, table, of, at, got, halted>>

Zeros(n) == [i \in 1..n |-> 0]
End(bytes, from, new) == IF Len(bytes) > from + Len(new) THEN Len(bytes) ELSE from + Len(new)
Overlaid(bytes, from, new) ==
  [i \in 1..End(bytes, from, new) |->
     CASE i \in (from + 1)..(from + Len(new)) -> new[i - from]
       [] i \notin (from + 1)..(from + Len(new)) /\ i <= Len(bytes) -> bytes[i]
       [] OTHER -> 0]
Stretch(bytes, from, n) ==
  SubSeq(bytes, from + 1, IF from + n < Len(bytes) THEN from + n ELSE Len(bytes))

NoDescriptor == [i \in {} |-> i]

Init ==
  /\ contents = [f \in File |-> IF f \in Imaged THEN Image ELSE <<>>]
  /\ pristine = Imaged
  /\ table = [p \in Proc |-> NoDescriptor]
  /\ of \in [Description -> File] /\ at = [d \in Description |-> 0]
  /\ got = <<>> /\ halted = FALSE

InUse == UNION {{table[p][i] : i \in DOMAIN table[p]} : p \in Proc}
Bound(t, i, d) == [j \in DOMAIN t \cup {i} |-> IF j = i THEN d ELSE t[j]]

Truncated(f, truncates) ==
  /\ contents' = IF truncates THEN [contents EXCEPT ![f] = <<>>] ELSE contents
  /\ pristine' = IF truncates THEN pristine \ {f} ELSE pristine

Open(p, f, truncates) ==
  /\ Truncated(f, truncates)
  /\ \E i \in Slot \ DOMAIN table[p], d \in Description \ InUse :
       /\ table' = [table EXCEPT ![p] = Bound(@, i, d)]
       /\ of' = [of EXCEPT ![d] = f] /\ at' = [at EXCEPT ![d] = 0]
  /\ UNCHANGED <<got, halted>>

(* O_APPEND is not supported, which is found out after the truncation.     *)
Refuse(f, truncates) ==
  /\ Truncated(f, truncates)
  /\ halted' = TRUE
  /\ UNCHANGED <<table, of, at, got>>

(* The calls on descriptor i of p.                                         *)
FileOf(p, i) == of[table[p][i]]
Offset(p, i) == at[table[p][i]]
Moved(p, i, to) == at' = [at EXCEPT ![table[p][i]] = to]
Rest(p, i, n) == Stretch(contents[FileOf(p, i)], Offset(p, i), n)
Unreadable(p, i) == FileOf(p, i) \in pristine /\ Offset(p, i) > Len(contents[FileOf(p, i)])

Read(p, i, n) ==
  /\ ~Unreadable(p, i)
  /\ got' = Rest(p, i, n)
  /\ Moved(p, i, Offset(p, i) + Len(got'))
  /\ UNCHANGED <<store, table, of, halted>>

Poll(p, i) ==
  /\ ~Unreadable(p, i)
  /\ Moved(p, i, Offset(p, i) + Len(Rest(p, i, 1)))
  /\ UNCHANGED <<store, table, of, got, halted>>

ReadBeyond(p, i) ==
  /\ Unreadable(p, i)
  /\ halted' = TRUE
  /\ UNCHANGED <<store, table, of, at, got>>

Replaced(f, bytes) ==
  /\ contents' = [contents EXCEPT ![f] = bytes]
  /\ pristine' = pristine \ {f}

Write(p, i, new) ==
  LET f == FileOf(p, i)
      from == Offset(p, i)
  IN /\ IF f \in pristine /\ from >= Len(contents[f])
        THEN Replaced(f, Label \o Zeros(from - Len(contents[f])) \o new)
        ELSE Replaced(f, Overlaid(contents[f], from, new))
     /\ Moved(p, i, from + Len(new))
     /\ UNCHANGED <<table, of, got, halted>>

Base(p, i, whence) ==
  CASE whence = "SET" -> 0 [] whence = "CUR" -> Offset(p, i)
    [] whence = "END" -> Len(contents[FileOf(p, i)])
Seek(p, i, offset, whence) ==
  /\ Base(p, i, whence) + offset >= 0
  /\ Moved(p, i, Base(p, i, whence) + offset)
  /\ UNCHANGED <<store, table, of, got, halted>>

Close(p, i) ==
  /\ table' = [table EXCEPT ![p] = [j \in DOMAIN @ \ {i} |-> @[j]]]
  /\ UNCHANGED <<store, of, at, got, halted>>

Duplicate(p, i, j) ==
  /\ table' = [table EXCEPT ![p] = Bound(@, j, @[i])]
  /\ UNCHANGED <<store, of, at, got, halted>>

(* q gets a description of its own for every descriptor of p, even for     *)
(* those that share one.                                                   *)
Clone(p, q) ==
  /\ DOMAIN table[q] = {}
  /\ table'[q] \in [DOMAIN table[p] -> Description \ InUse]
  /\ \A i, j \in DOMAIN table[p] : table'[q][i] = table'[q][j] => i = j
  /\ table' = [table EXCEPT ![q] = table'[q]]
  /\ \A i \in DOMAIN table[p] :
       of'[table'[q][i]] = FileOf(p, i) /\ at'[table'[q][i]] = Offset(p, i)
  /\ \A d \in InUse : of'[d] = of[d] /\ at'[d] = at[d]
  /\ UNCHANGED <<store, got, halted>>

Exit(p) ==
  /\ table' = [table EXCEPT ![p] = NoDescriptor]
  /\ UNCHANGED <<store, of, at, got, halted>>

Call(p, i) ==
  \/ \E n \in Lengths : Read(p, i, n)
  \/ \E new \in News : Write(p, i, new)
  \/ \E offset \in Offsets, whence \in {"SET", "CUR", "END"} : Seek(p, i, offset, whence)
  \/ \E j \in Slot : Duplicate(p, i, j)
  \/ Poll(p, i) \/ ReadBeyond(p, i) \/ Close(p, i)

Next ==
  /\ ~halted
  /\ \E p \in Proc :
       \/ \E f \in File, truncates \in BOOLEAN : Open(p, f, truncates) \/ Refuse(f, truncates)
       \/ \E i \in DOMAIN table[p] : Call(p, i)
       \/ \E q \in Proc \ {p} : Clone(p, q)
       \/ Exit(p)

Spec == Init /\ [][Next]_vars
==============================================================================

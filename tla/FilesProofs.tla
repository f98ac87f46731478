------------------------------ MODULE FilesProofs ------------------------------
(***************************************************************************)
(* What Files does for any number of processes, files, descriptors and     *)
(* open-file objects: every variable keeps to its type, the size of a file *)
(* is the length of its data, and no process moves another's offset.       *)
(***************************************************************************)
EXTENDS Files, SequenceTheorems, TLAPS

(* No object is held by two processes: what OffsetsPrivate needs of every  *)
(* state, and what a clone that shared an object would break.              *)
ObjectsPrivate ==
  \A p, q \in Proc : p # q => Held(p) \cap Held(q) = {}

IInv == TypeOK /\ SizeExact /\ ObjectsPrivate

-----------------------------------------------------------------------------
(* Sequences of bytes.                                                     *)

LEMMA ByteFacts ==
  /\ 0 \in Byte /\ Image \in Seq(Byte) /\ Label \in Seq(Byte)
  /\ \A new \in News : new \in Seq(Byte)
  /\ \A n \in Lengths : n \in Nat
  BY ConstantsAssumption

LEMMA SequenceOf ==
  ASSUME NEW S, NEW n \in Nat, NEW s \in [1..n -> S]
  PROVE  s \in Seq(S) /\ Len(s) = n
<1>1. s \in Seq(S)
  BY SeqDef
<1>2. DOMAIN s = 1..n /\ DOMAIN s = 1..Len(s) /\ Len(s) \in Nat
  BY <1>1, LenProperties
<1> QED BY <1>1, <1>2

LEMMA ZerosLemma ==
  ASSUME NEW n \in Nat
  PROVE  Zeros(n) \in Seq(Byte) /\ Len(Zeros(n)) = n
<1>1. Zeros(n) \in [1..n -> Byte]
  BY ByteFacts DEF Zeros
<1> QED BY <1>1, SequenceOf

LEMMA SplicedLemma ==
  ASSUME NEW bytes \in Seq(Byte), NEW new \in Seq(Byte), NEW at \in Nat, at < Len(bytes)
  PROVE  /\ SplicedAt(bytes, at, new) \in Seq(Byte)
         /\ Len(SplicedAt(bytes, at, new)) = Greatest(Len(bytes), at + Len(new))
<1> DEFINE before == SubSeq(bytes, 1, at)
           after == SubSeq(bytes, at + Len(new) + 1, Len(bytes))
<1>1. Len(bytes) \in Nat /\ Len(new) \in Nat
  BY LenProperties
<1>2. \A i \in 1..Len(bytes) : bytes[i] \in Byte
  BY ElementOfSeq
<1>3. before \in Seq(Byte) /\ Len(before) = at
  <2>1. \A i \in 1..at : bytes[i] \in Byte
    BY <1>1, <1>2
  <2> QED BY <2>1, SubSeqProperties
<1>4. /\ after \in Seq(Byte)
      /\ Len(after) = IF at + Len(new) + 1 <= Len(bytes)
                      THEN Len(bytes) - (at + Len(new) + 1) + 1 ELSE 0
  <2>1. \A i \in at + Len(new) + 1 .. Len(bytes) : bytes[i] \in Byte
    BY <1>1, <1>2
  <2> QED BY <1>1, <2>1, SubSeqProperties
<1>5. before \o new \in Seq(Byte) /\ Len(before \o new) = at + Len(new)
  BY <1>3, ConcatProperties
<1>6. /\ (before \o new) \o after \in Seq(Byte)
      /\ Len((before \o new) \o after) = at + Len(new) + Len(after)
  BY <1>4, <1>5, ConcatProperties
<1>7. SplicedAt(bytes, at, new) = (before \o new) \o after
  BY DEF SplicedAt
<1> HIDE DEF before, after
<1>8. at + Len(new) + Len(after) = Greatest(Len(bytes), at + Len(new))
  <2>1. CASE at + Len(new) + 1 <= Len(bytes)
    BY <1>1, <1>4, <2>1 DEF Greatest
  <2>2. CASE ~(at + Len(new) + 1 <= Len(bytes))
    BY <1>1, <1>4, <2>2 DEF Greatest
  <2> QED BY <2>1, <2>2
<1> QED BY <1>6, <1>7, <1>8

LEMMA AppendedLemma ==
  ASSUME TypeOK, NEW f \in File, NEW at \in Nat, NEW new \in Seq(Byte)
  PROVE  Appended(f, at, new) \in Seq(Byte)
<1>1. AsText(f) \in Seq(Byte)
  BY ByteFacts DEF AsText, TypeOK
<1>2. CASE at > size[f]
  <2>1. at - size[f] \in Nat
    BY <1>2 DEF TypeOK
  <2>2. Padded(f, at) \in Seq(Byte)
    BY <1>1, <2>1, ZerosLemma, ConcatProperties DEF Padded
  <2> QED BY <1>2, <2>2, ConcatProperties DEF Appended
<1>3. CASE ~(at > size[f])
  BY <1>1, <1>3, ConcatProperties DEF Appended
<1> QED BY <1>2, <1>3

LEMMA BytesAtLemma ==
  ASSUME TypeOK, NEW h \in Handle, NEW n \in Nat
  PROVE  BytesAt(h, n) \in Seq(Byte) /\ Len(BytesAt(h, n)) \in Nat
<1> DEFINE bytes == data[file[h]]
           last == Least(pos[h] + n, Len(bytes))
<1>1. bytes \in Seq(Byte) /\ pos[h] \in Nat
  BY DEF TypeOK
<1>2. Len(bytes) \in Nat
  BY <1>1, LenProperties
<1>3. last \in Nat /\ last <= Len(bytes)
  BY <1>1, <1>2 DEF Least
<1>4. \A i \in pos[h] + 1 .. last : bytes[i] \in Byte
  BY <1>1, <1>2, <1>3, ElementOfSeq
<1>5. SubSeq(bytes, pos[h] + 1, last) \in Seq(Byte)
  BY <1>1, <1>3, <1>4, SubSeqProperties
<1> QED BY <1>5, LenProperties DEF BytesAt

-----------------------------------------------------------------------------
(* Files: what a write and an opening leave of their types and sizes.      *)

NodesExact ==
  /\ data \in [File -> Seq(Byte)] /\ packed \in [File -> BOOLEAN]
  /\ size \in [File -> Nat] /\ SizeExact

LEMMA WrittenLemma ==
  ASSUME IInv, NEW f \in File, NEW at \in Nat, NEW new \in Seq(Byte), Written(f, at, new)
  PROVE  NodesExact'
<1>1. packed' \in [File -> BOOLEAN]
  BY DEF Written, IInv, TypeOK
<1>2. /\ data[f] \in Seq(Byte) /\ size[f] = Len(data[f])
      /\ \A g \in File : size[g] = Len(data[g])
  BY DEF IInv, TypeOK, SizeExact
<1>3. CASE at < size[f]
  <2> DEFINE spliced == SplicedAt(data[f], at, new)
  <2>1. /\ data' = [data EXCEPT ![f] = spliced]
        /\ size' = [size EXCEPT ![f] = SizeOverlaid(f, at, new)]
    <3>1. ~(at >= size[f])
      BY <1>3 DEF IInv, TypeOK
    <3> QED BY <3>1 DEF Written
  <2>3. SizeOverlaid(f, at, new) = Len(spliced)
    BY <1>2, <1>3, SplicedLemma DEF SizeOverlaid
  <2>2. spliced \in Seq(Byte) /\ Len(spliced) \in Nat
    BY <1>2, <1>3, SplicedLemma, LenProperties
  <2> HIDE DEF spliced
  <2> QED BY <1>1, <1>2, <2>1, <2>2, <2>3 DEF NodesExact, SizeExact, IInv, TypeOK
<1>4. CASE at >= size[f]
  <2> DEFINE appended == Appended(f, at, new)
  <2>1. data' = [data EXCEPT ![f] = appended] /\ size' = [size EXCEPT ![f] = Len(appended)]
    BY <1>4 DEF Written, IInv, TypeOK
  <2>2. appended \in Seq(Byte) /\ Len(appended) \in Nat
    BY AppendedLemma, LenProperties DEF IInv
  <2> HIDE DEF appended
  <2> QED BY <1>1, <1>2, <2>1, <2>2 DEF NodesExact, SizeExact, IInv, TypeOK
<1>5. at < size[f] \/ at >= size[f]
  BY DEF IInv, TypeOK
<1> QED BY <1>3, <1>4, <1>5

LEMMA OpenedLemma ==
  ASSUME IInv, NEW f \in File, NEW truncates \in BOOLEAN, Opened(f, truncates)
  PROVE  NodesExact'
<1>1. CASE truncates
  <2>1. <<>> \in Seq(Byte) /\ Len(<<>>) = 0
    BY EmptySeq
  <2>2. /\ \A g \in File : data'[g] = IF g = f THEN <<>> ELSE data[g]
        /\ \A g \in File : size'[g] = IF g = f THEN 0 ELSE size[g]
    BY <1>1 DEF Opened, IInv, TypeOK
  <2>3. data' \in [File -> Seq(Byte)] /\ packed' \in [File -> BOOLEAN] /\ size' \in [File -> Nat]
    <3>1. data' = [data EXCEPT ![f] = <<>>]
          /\ packed' = [packed EXCEPT ![f] = FALSE] /\ size' = [size EXCEPT ![f] = 0]
      BY <1>1 DEF Opened
    <3>2. data' \in [File -> Seq(Byte)]
      BY <2>1, <3>1 DEF IInv, TypeOK
    <3> QED BY <3>1, <3>2 DEF IInv, TypeOK
  <2>4. \A g \in File : size'[g] = Len(data'[g])
    BY <2>1, <2>2 DEF IInv, SizeExact
  <2> QED BY <2>3, <2>4 DEF SizeExact, NodesExact
<1>2. CASE ~truncates
  BY <1>2 DEF Opened, nodeVars, IInv, TypeOK, SizeExact, NodesExact
<1> QED BY <1>1, <1>2

-----------------------------------------------------------------------------
(* Descriptors and objects.                                                *)

TablesOK ==
  /\ file \in [Handle -> File] /\ pos \in [Handle -> Nat]
  /\ fds \in [Proc -> Seq(Handle \cup {NoHandle})]
  /\ live \in [Proc -> BOOLEAN] /\ got \in Seq(Byte) /\ thrown \in BOOLEAN

LEMMA Parts == IInv <=> NodesExact /\ TablesOK /\ ObjectsPrivate
  BY DEF IInv, TypeOK, NodesExact, TablesOK

LEMMA PartsAfter == NodesExact' /\ TablesOK' /\ ObjectsPrivate' => IInv'
  BY DEF IInv, TypeOK, NodesExact, TablesOK

LEMMA SlotsLemma ==
  ASSUME TablesOK, NEW p \in Proc
  PROVE  /\ Len(fds[p]) \in Nat /\ Slots(p) = 1..Len(fds[p])
         /\ \A i \in Slots(p) : fds[p][i] \in Handle \cup {NoHandle}
         /\ \A i \in OpenSlots(p) : i \in Slots(p) /\ fds[p][i] \in Handle /\ fds[p][i] \in Held(p)
         /\ Held(p) \subseteq Handle
<1>1. fds[p] \in Seq(Handle \cup {NoHandle})
  BY DEF TablesOK
<1>2. Len(fds[p]) \in Nat /\ Slots(p) = 1..Len(fds[p])
  BY <1>1, LenProperties DEF Slots
<1>3. \A i \in Slots(p) : fds[p][i] \in Handle \cup {NoHandle}
  BY <1>1, <1>2, ElementOfSeq
<1> QED BY <1>2, <1>3 DEF OpenSlots, Held

(* What a call of p leaves alone of a process q.                           *)
Untouched(p, q) ==
  q # p /\ live[q] /\ live'[q]
    => fds'[q] = fds[q] /\ \A i \in OpenSlots(q) : pos'[fds[q][i]] = pos[fds[q][i]]
Good(p) == IInv' /\ \A q \in Proc : Untouched(p, q)

LEMMA OwnTable ==
  ASSUME IInv, NEW p \in Proc, NEW new \in SUBSET Unused,
         \A q \in Proc : q # p => fds'[q] = fds[q],
         Held(p)' \subseteq Held(p) \cup new
  PROVE  ObjectsPrivate'
<1>1. \A q \in Proc : q # p => Held(q)' = Held(q)
  BY DEF Held, Slots
<1>2. \A q \in Proc : Held(q) \cap new = {}
  BY DEF Unused
<1> QED BY <1>1, <1>2 DEF ObjectsPrivate, IInv

LEMMA OwnOffset ==
  ASSUME IInv, NEW p \in Proc, NEW i \in OpenSlots(p), NEW offset \in Nat,
         UNCHANGED <<file, fds, live, thrown>>, NodesExact', got' \in Seq(Byte),
         pos' = [pos EXCEPT ![fds[p][i]] = offset]
  PROVE  Good(p)
<1>1. TablesOK'
  BY SlotsLemma, Parts DEF TablesOK
<1>2. ObjectsPrivate'
  <2>1. \A q \in Proc : Held(q)' = Held(q)
    BY DEF Held, Slots
  <2> QED BY <2>1, Parts DEF ObjectsPrivate
<1>3. ASSUME NEW q \in Proc, q # p
      PROVE  \A j \in OpenSlots(q) : pos'[fds[q][j]] = pos[fds[q][j]]
  <2>1. fds[p][i] \in Held(p)
    BY SlotsLemma, Parts
  <2>2. \A j \in OpenSlots(q) : fds[q][j] \in Handle /\ fds[q][j] \in Held(q)
    BY SlotsLemma, Parts
  <2>3. Held(p) \cap Held(q) = {}
    BY <1>3, Parts DEF ObjectsPrivate
  <2> QED BY <2>1, <2>2, <2>3, Parts DEF TablesOK
<1> QED BY <1>1, <1>2, <1>3, PartsAfter DEF Good, Untouched

LEMMA NodesKept ==
  ASSUME IInv, UNCHANGED nodeVars
  PROVE  NodesExact'
  BY DEF IInv, TypeOK, NodesExact, SizeExact, nodeVars

(* A call that changes p's table, and no object that is held.              *)
LEMMA TableStep ==
  ASSUME IInv, NEW p \in Proc, NEW new \in SUBSET Unused,
         NEW table \in Seq(Handle \cup {NoHandle}),
         fds' = [fds EXCEPT ![p] = table],
         \A i \in DOMAIN table : table[i] \in Held(p) \cup new \cup {NoHandle},
         NodesExact',
         file' \in [Handle -> File], pos' \in [Handle -> Nat],
         \A h \in Handle : h \notin new => pos'[h] = pos[h],
         live' \in [Proc -> BOOLEAN], UNCHANGED <<got, thrown>>
  PROVE  Good(p)
<1>1. fds' \in [Proc -> Seq(Handle \cup {NoHandle})] /\ fds'[p] = table
  BY Parts DEF TablesOK
<1>2. \A q \in Proc : q # p => fds'[q] = fds[q]
  BY Parts DEF TablesOK
<1>3. TablesOK'
  BY <1>1, Parts DEF TablesOK
<1>4. Held(p)' \subseteq Held(p) \cup new
  BY <1>1 DEF Held, Slots
<1>5. ObjectsPrivate'
  BY <1>2, <1>4, OwnTable
<1>6. \A q \in Proc : \A i \in OpenSlots(q) : pos'[fds[q][i]] = pos[fds[q][i]]
  BY SlotsLemma, Parts DEF Unused
<1> QED BY <1>2, <1>3, <1>5, <1>6, PartsAfter DEF Good, Untouched

-----------------------------------------------------------------------------
(* One lemma for each call.                                                *)

LEMMA OpenStep ==
  ASSUME IInv, NEW p \in Proc, NEW f \in File, NEW truncates \in BOOLEAN,
         Open(p, f, truncates)
  PROVE  Good(p)
<1>1. New \in Unused /\ New \in Handle
  BY DEF Open, New, Unused
<1>2. NodesExact'
  BY OpenedLemma DEF Open
<1> DEFINE table == Append(fds[p], New)
<1>3. fds[p] \in Seq(Handle \cup {NoHandle})
  BY Parts DEF TablesOK
<1>4. /\ table \in Seq(Handle \cup {NoHandle})
      /\ Len(table) = Len(fds[p]) + 1 /\ DOMAIN table = 1..Len(table)
      /\ \A i \in 1..Len(fds[p]) : table[i] = fds[p][i]
      /\ table[Len(fds[p]) + 1] = New
  BY <1>1, <1>3, AppendProperties, LenProperties
<1>5. \A i \in DOMAIN table : table[i] \in Held(p) \cup {New} \cup {NoHandle}
  <2>1. \A i \in 1..Len(fds[p]) : fds[p][i] \in Held(p) \cup {NoHandle}
    BY SlotsLemma, Parts DEF Held
  <2> QED BY <1>4, <2>1, SlotsLemma, Parts
<1>6. fds' = [fds EXCEPT ![p] = table]
  BY DEF Open
<1>7. /\ file' \in [Handle -> File] /\ pos' \in [Handle -> Nat]
      /\ \A h \in Handle : h \notin {New} => pos'[h] = pos[h]
  BY <1>1, Parts DEF Open, TablesOK
<1>8. live' \in [Proc -> BOOLEAN] /\ UNCHANGED <<got, thrown>>
  BY Parts DEF Open, TablesOK
<1>9. {New} \in SUBSET Unused
  BY <1>1
<1> HIDE DEF table
<1> QED BY <1>2, <1>4, <1>5, <1>6, <1>7, <1>8, <1>9, TableStep

(* After an Error nothing else is changed.                                 *)
LEMMA StopStep ==
  ASSUME IInv, NEW p \in Proc, NodesExact', thrown' = TRUE,
         UNCHANGED <<file, pos, fds, live, got>>
  PROVE  Good(p)
<1>1. TablesOK'
  BY Parts DEF TablesOK
<1>2. ObjectsPrivate'
  BY Parts DEF ObjectsPrivate, Held, Slots
<1> QED BY <1>1, <1>2, PartsAfter DEF Good, Untouched

LEMMA OpenAppendStep ==
  ASSUME IInv, NEW p \in Proc, NEW f \in File, NEW truncates \in BOOLEAN,
         OpenAppend(f, truncates)
  PROVE  Good(p)
  BY OpenedLemma, StopStep DEF OpenAppend

LEMMA ThrowsStep ==
  ASSUME IInv, NEW p \in Proc, Throws
  PROVE  Good(p)
  BY NodesKept, StopStep DEF Throws

LEMMA ReadStep ==
  ASSUME IInv, NEW p \in Proc, NEW i \in OpenSlots(p), NEW n \in Lengths, Read(p, i, n)
  PROVE  Good(p)
<1> DEFINE h == fds[p][i]
<1>1. h \in Handle /\ n \in Nat /\ pos[h] \in Nat
  BY SlotsLemma, ByteFacts, Parts DEF TablesOK
<1>2. CASE Throws
  BY <1>2, ThrowsStep
<1>3. CASE ~ReadFails(h)
  <2>1. BytesAt(h, n) \in Seq(Byte) /\ Len(BytesAt(h, n)) \in Nat
    BY <1>1, BytesAtLemma DEF IInv
  <2>2. CASE ~Throws
    <3>1. pos' = [pos EXCEPT ![h] = pos[h] + Len(BytesAt(h, n))] /\ got' = BytesAt(h, n)
          /\ UNCHANGED <<nodeVars, file, fds, live, thrown>>
      BY <1>3, <2>2 DEF Read
    <3>2. pos[h] + Len(BytesAt(h, n)) \in Nat
      BY <1>1, <2>1
    <3> QED BY <2>1, <3>1, <3>2, NodesKept, OwnOffset
  <2> QED BY <1>2, <2>2
<1> QED BY <1>2, <1>3 DEF Read

LEMMA PollStep ==
  ASSUME IInv, NEW p \in Proc, NEW i \in OpenSlots(p), Poll(p, i)
  PROVE  Good(p)
<1> DEFINE h == fds[p][i]
<1>1. h \in Handle /\ pos[h] \in Nat
  BY SlotsLemma, Parts DEF TablesOK
<1>2. CASE Throws
  BY <1>2, ThrowsStep
<1>3. CASE ~Throws
  <2>1. Len(BytesAt(h, 1)) \in Nat
    BY <1>1, BytesAtLemma DEF IInv
  <2>2. pos' = [pos EXCEPT ![h] = pos[h] + Len(BytesAt(h, 1))]
        /\ UNCHANGED <<nodeVars, file, fds, live, got, thrown>>
    BY <1>3 DEF Poll
  <2>3. got' \in Seq(Byte)
    BY <2>2, Parts DEF TablesOK
  <2>4. pos[h] + Len(BytesAt(h, 1)) \in Nat
    BY <1>1, <2>1
  <2> QED BY <2>2, <2>3, <2>4, NodesKept, OwnOffset
<1> QED BY <1>2, <1>3

LEMMA WriteStep ==
  ASSUME IInv, NEW p \in Proc, NEW i \in OpenSlots(p), NEW new \in News, Write(p, i, new)
  PROVE  Good(p)
<1> DEFINE h == fds[p][i]
<1>1. h \in Handle /\ pos[h] \in Nat /\ file[h] \in File
  BY SlotsLemma, Parts DEF TablesOK
<1>2. new \in Seq(Byte) /\ Len(new) \in Nat
  BY ByteFacts, LenProperties
<1>3. NodesExact'
  BY <1>1, <1>2, WrittenLemma DEF Write
<1>4. pos' = [pos EXCEPT ![h] = pos[h] + Len(new)] /\ UNCHANGED <<file, fds, live, got, thrown>>
  BY DEF Write
<1>5. got' \in Seq(Byte)
  BY <1>4, Parts DEF TablesOK
<1>6. pos[h] + Len(new) \in Nat
  BY <1>1, <1>2
<1> QED BY <1>3, <1>4, <1>5, <1>6, OwnOffset

LEMMA SeekStep ==
  ASSUME IInv, NEW p \in Proc, NEW i \in OpenSlots(p), NEW offset \in Offsets,
         NEW whence \in {"SET", "CUR", "END"}, Seek(p, i, offset, whence)
  PROVE  Good(p)
<1>1. PICK at \in Nat : pos' = [pos EXCEPT ![fds[p][i]] = at]
  <2>1. PICK at \in 0..MaxSize : pos' = [pos EXCEPT ![fds[p][i]] = at]
    BY DEF Seek, Valid
  <2>2. at \in Nat
    BY <2>1, ConstantsAssumption
  <2> QED BY <2>1, <2>2
<1>2. UNCHANGED <<nodeVars, file, fds, live, got, thrown>>
  BY DEF Seek
<1>3. got' \in Seq(Byte)
  BY <1>2, Parts DEF TablesOK
<1> QED BY <1>1, <1>2, <1>3, NodesKept, OwnOffset

(* A table of p that is made of descriptors it has.                        *)
LEMMA OwnStep ==
  ASSUME IInv, NEW p \in Proc, NEW table \in Seq(Handle \cup {NoHandle}),
         fds' = [fds EXCEPT ![p] = table],
         \A i \in DOMAIN table : table[i] \in Held(p) \cup {NoHandle},
         live' \in [Proc -> BOOLEAN], UNCHANGED <<nodeVars, file, pos, got, thrown>>
  PROVE  Good(p)
<1>1. file' \in [Handle -> File] /\ pos' \in [Handle -> Nat]
  BY Parts DEF TablesOK
<1>2. {} \in SUBSET Unused
  OBVIOUS
<1> QED BY <1>1, <1>2, NodesKept, TableStep

LEMMA CloseStep ==
  ASSUME IInv, NEW p \in Proc, NEW i \in OpenSlots(p), Close(p, i)
  PROVE  Good(p)
<1> DEFINE table == [fds[p] EXCEPT ![i] = NoHandle]
<1>1. fds[p] \in Seq(Handle \cup {NoHandle}) /\ i \in 1..Len(fds[p])
  BY SlotsLemma, Parts DEF TablesOK
<1>2. /\ table \in Seq(Handle \cup {NoHandle}) /\ Len(table) = Len(fds[p])
      /\ \A j \in 1..Len(fds[p]) : table[j] = IF j = i THEN NoHandle ELSE fds[p][j]
  BY <1>1, ExceptSeq
<1>3. \A j \in DOMAIN table : table[j] \in Held(p) \cup {NoHandle}
  BY <1>1, <1>2, LenProperties DEF Held, Slots
<1>4. fds' = [fds EXCEPT ![p] = table] /\ live' = live
      /\ UNCHANGED <<nodeVars, file, pos, got, thrown>>
  BY Parts DEF Close, TablesOK
<1>5. live' \in [Proc -> BOOLEAN]
  BY <1>4, Parts DEF TablesOK
<1> HIDE DEF table
<1> QED BY <1>2, <1>3, <1>4, <1>5, OwnStep

LEMMA DupStep ==
  ASSUME IInv, NEW p \in Proc, NEW i \in OpenSlots(p), Dup(p, i)
  PROVE  Good(p)
<1> DEFINE table == Append(fds[p], fds[p][i])
<1>1. fds[p] \in Seq(Handle \cup {NoHandle}) /\ fds[p][i] \in Handle /\ fds[p][i] \in Held(p)
  BY SlotsLemma, Parts DEF TablesOK
<1>2. /\ table \in Seq(Handle \cup {NoHandle}) /\ Len(table) = Len(fds[p]) + 1
      /\ \A j \in 1..Len(fds[p]) : table[j] = fds[p][j]
      /\ table[Len(fds[p]) + 1] = fds[p][i]
  BY <1>1, AppendProperties
<1>3. \A j \in DOMAIN table : table[j] \in Held(p) \cup {NoHandle}
  <2>1. DOMAIN table = 1..Len(fds[p]) + 1
    BY <1>2, LenProperties
  <2>2. Len(fds[p]) \in Nat /\ \A j \in 1..Len(fds[p]) : fds[p][j] \in Held(p) \cup {NoHandle}
    BY SlotsLemma, Parts DEF Held
  <2> HIDE DEF table
  <2> QED BY <1>1, <1>2, <2>1, <2>2
<1>4. fds' = [fds EXCEPT ![p] = table] /\ live' = live
      /\ UNCHANGED <<nodeVars, file, pos, got, thrown>>
  BY DEF Dup
<1>5. live' \in [Proc -> BOOLEAN]
  BY <1>4, Parts DEF TablesOK
<1> HIDE DEF table
<1> QED BY <1>2, <1>3, <1>4, <1>5, OwnStep

LEMMA Dup2Step ==
  ASSUME IInv, NEW p \in Proc, NEW i \in OpenSlots(p), NEW j \in 1..MaxFds, Dup2(p, i, j)
  PROVE  Good(p)
<1> DEFINE last == Greatest(Len(fds[p]), j)
           table == Placed(fds[p], j, fds[p][i])
<1>1. Len(fds[p]) \in Nat /\ DOMAIN fds[p] = 1..Len(fds[p]) /\ fds[p][i] \in Held(p)
      /\ \A k \in DOMAIN fds[p] : fds[p][k] \in Held(p) \cup {NoHandle}
  BY SlotsLemma, Parts DEF Held, Slots
<1>2. last \in Nat
  BY <1>1 DEF Greatest
<1>3. table \in [1..last -> Held(p) \cup {NoHandle}]
  BY <1>1 DEF Placed
<1>4. Held(p) \cup {NoHandle} \subseteq Handle \cup {NoHandle}
  <2>1. Held(p) \subseteq Handle
    BY SlotsLemma, Parts
  <2> QED BY <2>1, Zenon
<1>5. fds' = [fds EXCEPT ![p] = table] /\ live' = live
      /\ UNCHANGED <<nodeVars, file, pos, got, thrown>>
  BY DEF Dup2
<1>6. live' \in [Proc -> BOOLEAN]
  BY <1>5, Parts DEF TablesOK
<1> HIDE DEF table, last
<1>7. table \in Seq(Handle \cup {NoHandle})
  <2>1. table \in [1..last -> Handle \cup {NoHandle}]
    BY <1>3, <1>4
  <2> QED BY <1>2, <2>1, SequenceOf
<1> QED BY <1>3, <1>5, <1>6, <1>7, OwnStep

LEMMA ExitStep ==
  ASSUME IInv, NEW p \in Proc, Exit(p)
  PROVE  Good(p)
<1>1. <<>> \in Seq(Handle \cup {NoHandle}) /\ \A i \in DOMAIN <<>> : <<>>[i] \in Held(p) \cup {NoHandle}
  BY EmptySeq
<1>2. live' \in [Proc -> BOOLEAN]
  BY Parts DEF Exit, TablesOK
<1> QED BY <1>1, <1>2, OwnStep DEF Exit

LEMMA CloneStep ==
  ASSUME IInv, NEW p \in Proc, NEW q \in Proc, live[p], Clone(p, q)
  PROVE  Good(p)
<1> DEFINE copy == CHOOSE c \in Copies(p) : TRUE
           copied(h) == {i \in OpenSlots(p) : copy[i] = h}
           source(h) == IF copied(h) = {} THEN h ELSE fds[p][CHOOSE i \in copied(h) : TRUE]
           table == [i \in Slots(p) |-> IF i \in OpenSlots(p) THEN copy[i] ELSE NoHandle]
           new == {copy[i] : i \in OpenSlots(p)}
<1>1. copy \in [OpenSlots(p) -> Unused]
  BY DEF Clone, Copies
<1>2. /\ fds' = [fds EXCEPT ![q] = table]
      /\ file' = [h \in Handle |-> file[source(h)]]
      /\ pos' = [h \in Handle |-> pos[source(h)]]
      /\ live' = [live EXCEPT ![q] = TRUE] /\ ~live[q]
      /\ UNCHANGED <<nodeVars, got, thrown>>
  BY DEF Clone
<1> HIDE DEF copy
<1>3. new \in SUBSET Unused /\ new \subseteq Handle
  BY <1>1 DEF Unused
<1>4. \A h \in Handle : source(h) \in Handle
  BY SlotsLemma, Parts
<1>5. \A h \in Handle : h \notin new => source(h) = h
  OBVIOUS
<1>6. file' \in [Handle -> File] /\ pos' \in [Handle -> Nat]
      /\ \A h \in Handle : h \notin new => pos'[h] = pos[h]
  BY <1>2, <1>4, <1>5, Parts DEF TablesOK
<1>7. Len(fds[p]) \in Nat /\ Slots(p) = 1..Len(fds[p])
  BY SlotsLemma, Parts
<1>8. table \in [1..Len(fds[p]) -> Handle \cup {NoHandle}]
  BY <1>1, <1>7 DEF Unused
<1>9. table \in Seq(Handle \cup {NoHandle})
  BY <1>7, <1>8, SequenceOf
<1>10. \A i \in DOMAIN table : table[i] \in Held(q) \cup new \cup {NoHandle}
  OBVIOUS
<1>11. live' \in [Proc -> BOOLEAN] /\ NodesExact'
  BY <1>2, NodesKept, Parts DEF TablesOK
<1> HIDE DEF table, new
<1>12. Good(q)
  BY <1>2, <1>3, <1>6, <1>9, <1>10, <1>11, TableStep
<1>13. ASSUME NEW r \in Proc PROVE Untouched(p, r)
  BY <1>2, <1>12 DEF Good, Untouched
<1> QED BY <1>12, <1>13 DEF Good

-----------------------------------------------------------------------------
(* The theorems.                                                           *)

LEMMA InitLemma == Init => IInv
<1> SUFFICES ASSUME Init PROVE IInv
  OBVIOUS
<1>1. <<>> \in Seq(Byte) /\ Len(<<>>) = 0 /\ <<>> \in Seq(Handle \cup {NoHandle})
  BY EmptySeq
<1>2. data \in [File -> Seq(Byte)] /\ packed \in [File -> BOOLEAN] /\ live \in [Proc -> BOOLEAN]
  BY <1>1, ByteFacts DEF Init
<1>3. \A f \in File : Len(data[f]) \in Nat
  BY <1>2, LenProperties
<1>4. NodesExact
  BY <1>2, <1>3 DEF NodesExact, SizeExact, Init
<1>5. file \in [Handle -> File] /\ pos \in [Handle -> Nat]
  BY ConstantsAssumption DEF Init
<1>6. fds \in [Proc -> Seq(Handle \cup {NoHandle})] /\ got \in Seq(Byte) /\ thrown \in BOOLEAN
  BY <1>1 DEF Init
<1>7. ObjectsPrivate
  BY DEF ObjectsPrivate, Held, Slots, Init
<1> QED BY <1>2, <1>4, <1>5, <1>6, <1>7, Parts DEF TablesOK

LEMMA StepLemma ==
  ASSUME IInv, Next
  PROVE  \E p \in Proc : Good(p)
<1>1. PICK p \in Proc : live[p] /\ Call(p)
  BY DEF Next
<1>2. Good(p)
  <2>1. ASSUME NEW f \in File, NEW truncates \in BOOLEAN,
               Open(p, f, truncates) \/ OpenAppend(f, truncates)
        PROVE  Good(p)
    BY <2>1, OpenStep, OpenAppendStep
  <2>2. ASSUME NEW i \in OpenSlots(p), NEW n \in Lengths, Read(p, i, n) PROVE Good(p)
    BY <2>2, ReadStep
  <2>3. ASSUME NEW i \in OpenSlots(p), NEW new \in News, Write(p, i, new) PROVE Good(p)
    BY <2>3, WriteStep
  <2>4. ASSUME NEW i \in OpenSlots(p), NEW offset \in Offsets,
               NEW whence \in {"SET", "CUR", "END"}, Seek(p, i, offset, whence)
        PROVE  Good(p)
    BY <2>4, SeekStep
  <2>5. ASSUME NEW i \in OpenSlots(p), Poll(p, i) \/ Close(p, i) \/ Dup(p, i) PROVE Good(p)
    BY <2>5, PollStep, CloseStep, DupStep
  <2>6. ASSUME NEW i \in OpenSlots(p), NEW j \in 1..MaxFds, Dup2(p, i, j) PROVE Good(p)
    BY <2>6, Dup2Step
  <2>7. ASSUME NEW q \in Proc, Clone(p, q) PROVE Good(p)
    BY <1>1, <2>7, CloneStep
  <2>8. CASE Exit(p)
    BY <2>8, ExitStep
  <2> QED BY <1>1, <2>1, <2>2, <2>3, <2>4, <2>5, <2>6, <2>7, <2>8 DEF Call
<1> QED BY <1>2

LEMMA StutterLemma == IInv /\ UNCHANGED vars => IInv'
<1> SUFFICES ASSUME IInv, UNCHANGED vars PROVE IInv'
  OBVIOUS
<1>1. \A q \in Proc : Held(q)' = Held(q)
  BY DEF Held, Slots, vars
<1>2. ObjectsPrivate'
  BY <1>1, Parts DEF ObjectsPrivate
<1>3. TypeOK' /\ SizeExact'
  BY DEF IInv, TypeOK, SizeExact, vars, nodeVars
<1> QED BY <1>2, <1>3 DEF IInv

LEMMA Invariance == Spec => []IInv
<1>1. Init => IInv
  BY InitLemma
<1>2. IInv /\ [Next]_vars => IInv'
  BY StepLemma, StutterLemma DEF Good
<1> QED BY <1>1, <1>2, PTL DEF Spec

(* Every variable of Files keeps to its type: descriptors name objects,    *)
(* offsets are never negative, files and reads are of bytes.               *)
THEOREM FilesTypeCorrect == Spec => []TypeOK
<1>1. IInv => TypeOK
  BY DEF IInv
<1> QED BY <1>1, Invariance, PTL

(* node.size is the length of node.data after any calls (noopfs.js      *)
(* 257-287), whatever the image, the offsets and the bytes are.            *)
THEOREM SizeCorrect == Spec => []SizeExact
<1>1. IInv => SizeExact
  BY DEF IInv
<1> QED BY <1>1, Invariance, PTL

(* Of two processes a step leaves one's table and offsets alone.           *)
OneUntouched ==
  \A p, q \in Proc :
    p # q /\ live[p] /\ live[q] /\ live'[p] /\ live'[q]
      => \/ \A i \in OpenSlots(p) : fds'[p] = fds[p] /\ pos'[fds[p][i]] = pos[fds[p][i]]
         \/ \A i \in OpenSlots(q) : fds'[q] = fds[q] /\ pos'[fds[q][i]] = pos[fds[q][i]]

LEMMA OneUntouchedLemma == IInv /\ Next => OneUntouched
<1> SUFFICES ASSUME IInv, Next, NEW p \in Proc, NEW q \in Proc, p # q,
                    live[p], live[q], live'[p], live'[q]
             PROVE  \/ \A i \in OpenSlots(p) : fds'[p] = fds[p] /\ pos'[fds[p][i]] = pos[fds[p][i]]
                    \/ \A i \in OpenSlots(q) : fds'[q] = fds[q] /\ pos'[fds[q][i]] = pos[fds[q][i]]
  BY DEF OneUntouched
<1>1. PICK r \in Proc : Good(r)
  BY StepLemma
<1>2. CASE r # p
  BY <1>1, <1>2 DEF Good, Untouched
<1>3. CASE r # q
  BY <1>1, <1>3 DEF Good, Untouched
<1> QED BY <1>2, <1>3

(* clone copies every open file (noopfs.js 289): with any number of        *)
(* processes no call of one moves the offset of another's descriptor.      *)
THEOREM OffsetsCorrect == Spec => OffsetsPrivate
<1>1. IInv /\ [Next]_vars => [OneUntouched]_vars
  BY OneUntouchedLemma
<1>2. OffsetsPrivate <=> [][OneUntouched]_vars
  BY DEF OffsetsPrivate, OneUntouched
<1> QED BY <1>1, <1>2, Invariance, PTL DEF Spec

-----------------------------------------------------------------------------
(* Files implements ByteStore: what a write leaves.                        *)

LEMMA OverlaidLemma ==
  ASSUME NEW bytes \in Seq(Byte), NEW new \in Seq(Byte), NEW at \in Nat
  PROVE  /\ Bytes!Overlaid(bytes, at, new) \in Seq(Byte)
         /\ Len(Bytes!Overlaid(bytes, at, new)) = Greatest(Len(bytes), at + Len(new))
         /\ \A i \in 1..Greatest(Len(bytes), at + Len(new)) :
              Bytes!Overlaid(bytes, at, new)[i] =
                IF at < i /\ i <= at + Len(new) THEN new[i - at]
                ELSE IF i <= Len(bytes) THEN bytes[i] ELSE 0
<1> DEFINE end == Greatest(Len(bytes), at + Len(new))
           byte(i) == IF at < i /\ i <= at + Len(new) THEN new[i - at]
                      ELSE IF i <= Len(bytes) THEN bytes[i] ELSE 0
<1>1. Len(bytes) \in Nat /\ Len(new) \in Nat /\ end \in Nat
  BY LenProperties DEF Greatest
<1>2. Bytes!End(bytes, at, new) = end
  BY DEF Bytes!End, Greatest
<1>3. \A i \in 1..end :
        (CASE i \in (at + 1)..(at + Len(new)) -> new[i - at]
           [] i \notin (at + 1)..(at + Len(new)) /\ i <= Len(bytes) -> bytes[i]
           [] OTHER -> 0) = byte(i)
  BY <1>1
<1>4. Bytes!Overlaid(bytes, at, new) = [i \in 1..end |-> byte(i)]
  BY <1>2, <1>3 DEF Bytes!Overlaid
<1>5. \A i \in 1..end : byte(i) \in Byte
  <2>1. \A i \in 1..Len(bytes) : bytes[i] \in Byte
    BY ElementOfSeq
  <2>2. \A i \in 1..Len(new) : new[i] \in Byte
    BY ElementOfSeq
  <2> QED BY <1>1, <2>1, <2>2, ByteFacts
<1> HIDE DEF end, byte
<1>6. [i \in 1..end |-> byte(i)] \in [1..end -> Byte]
  BY <1>5
<1>7. [i \in 1..end |-> byte(i)] \in Seq(Byte) /\ Len([i \in 1..end |-> byte(i)]) = end
  BY <1>1, <1>6, SequenceOf
<1>8. /\ Bytes!Overlaid(bytes, at, new) \in Seq(Byte)
      /\ Len(Bytes!Overlaid(bytes, at, new)) = end
      /\ \A i \in 1..end : Bytes!Overlaid(bytes, at, new)[i] = byte(i)
  BY <1>4, <1>7
<1> QED BY <1>8 DEF end, byte

LEMMA SplicedIsOverlaid ==
  ASSUME NEW bytes \in Seq(Byte), NEW new \in Seq(Byte), NEW at \in Nat, at < Len(bytes)
  PROVE  SplicedAt(bytes, at, new) = Bytes!Overlaid(bytes, at, new)
<1> DEFINE end == Greatest(Len(bytes), at + Len(new))
           before == SubSeq(bytes, 1, at)
           after == SubSeq(bytes, at + Len(new) + 1, Len(bytes))
           spliced == SplicedAt(bytes, at, new)
           overlaid == Bytes!Overlaid(bytes, at, new)
<1>1. Len(bytes) \in Nat /\ Len(new) \in Nat /\ \A i \in 1..Len(bytes) : bytes[i] \in Byte
  BY LenProperties, ElementOfSeq
<1>2. before \in Seq(Byte) /\ Len(before) = at /\ \A i \in 1..at : before[i] = bytes[i]
  <2>1. \A i \in 1..at : bytes[i] \in Byte
    BY <1>1
  <2> QED BY <2>1, SubSeqProperties
<1>3. /\ after \in Seq(Byte)
      /\ Len(after) = IF at + Len(new) + 1 <= Len(bytes)
                      THEN Len(bytes) - (at + Len(new) + 1) + 1 ELSE 0
      /\ \A i \in 1 .. Len(bytes) - (at + Len(new) + 1) + 1 :
           after[i] = bytes[at + Len(new) + 1 + i - 1]
  <2>1. \A i \in at + Len(new) + 1 .. Len(bytes) : bytes[i] \in Byte
    BY <1>1
  <2> QED BY <1>1, <2>1, SubSeqProperties
<1>4. /\ before \o new \in Seq(Byte) /\ Len(before \o new) = at + Len(new)
      /\ \A i \in 1..at + Len(new) :
           (before \o new)[i] = IF i <= at THEN before[i] ELSE new[i - at]
  BY <1>2, ConcatProperties
<1>5. \A i \in 1 .. at + Len(new) + Len(after) :
        ((before \o new) \o after)[i] =
           IF i <= at + Len(new) THEN (before \o new)[i] ELSE after[i - (at + Len(new))]
  <2> DEFINE first == before \o new
  <2>1. first \in Seq(Byte) /\ Len(first) = at + Len(new) /\ after \in Seq(Byte)
    BY <1>3, <1>4
  <2> HIDE DEF first, after
  <2>2. \A i \in 1 .. Len(first) + Len(after) :
          (first \o after)[i] = IF i <= Len(first) THEN first[i] ELSE after[i - Len(first)]
    BY <2>1, ConcatProperties
  <2>3. \A i \in 1 .. at + Len(new) + Len(after) :
          (first \o after)[i] = IF i <= at + Len(new) THEN first[i] ELSE after[i - (at + Len(new))]
    BY <2>1, <2>2
  <2> QED BY <2>3 DEF first
<1>6. spliced = (before \o new) \o after
  BY DEF SplicedAt
<1>7. spliced \in Seq(Byte) /\ Len(spliced) = end
  BY SplicedLemma
<1>8. /\ overlaid \in Seq(Byte) /\ Len(overlaid) = end
      /\ \A i \in 1..end :
           overlaid[i] = IF at < i /\ i <= at + Len(new) THEN new[i - at]
                         ELSE IF i <= Len(bytes) THEN bytes[i] ELSE 0
  BY OverlaidLemma
<1>9. end \in Nat /\ end = at + Len(new) + Len(after)
  <2> HIDE DEF after
  <2>1. CASE at + Len(new) + 1 <= Len(bytes)
    BY <1>1, <1>3, <2>1 DEF Greatest
  <2>2. CASE ~(at + Len(new) + 1 <= Len(bytes))
    BY <1>1, <1>3, <2>2 DEF Greatest
  <2> QED BY <2>1, <2>2
<1> HIDE DEF end, before, after, spliced, overlaid
<1>10. ASSUME NEW i \in 1..end PROVE spliced[i] = overlaid[i]
  <2>4. i \in Int /\ 1 <= i /\ i <= at + Len(new) + Len(after) /\ Len(after) \in Nat
    <3>1. Len(after) \in Nat
      BY <1>3, LenProperties
    <3> QED BY <1>1, <1>9, <3>1
  <2>1. CASE i <= at
    <3>1. i \in 1..at /\ i \in 1..at + Len(new) /\ i \in 1 .. at + Len(new) + Len(after)
          /\ i <= Len(bytes)
      BY <1>1, <2>1, <2>4
    <3>2. spliced[i] = bytes[i]
      BY <1>2, <1>4, <1>5, <1>6, <2>1, <3>1
    <3>3. overlaid[i] = bytes[i]
      BY <1>1, <1>8, <2>1, <2>4, <3>1
    <3> QED BY <3>2, <3>3
  <2>2. CASE at < i /\ i <= at + Len(new)
    BY <1>1, <1>4, <1>5, <1>6, <1>8, <1>9, <2>2
  <2>3. CASE at + Len(new) < i
    <3>1. at + Len(new) + 1 <= Len(bytes)
      <4>1. SUFFICES ASSUME ~(at + Len(new) + 1 <= Len(bytes)) PROVE FALSE
        OBVIOUS
      <4>2. Len(after) = 0
        BY <1>3, <4>1
      <4>3. i <= at + Len(new)
        BY <1>1, <2>4, <4>2
      <4> QED BY <1>1, <2>3, <2>4, <4>3
    <3>2. Len(after) = Len(bytes) - (at + Len(new) + 1) + 1 /\ i <= Len(bytes)
      BY <1>1, <1>3, <1>9, <3>1
    <3>3. spliced[i] = after[i - (at + Len(new))]
      <4>1. i \in 1 .. at + Len(new) + Len(after) /\ ~(i <= at + Len(new))
        BY <1>1, <2>3, <2>4
      <4> QED BY <1>5, <1>6, <4>1
    <3>4. i - (at + Len(new)) \in 1 .. Len(bytes) - (at + Len(new) + 1) + 1
      BY <1>1, <2>3, <3>2
    <3>5. after[i - (at + Len(new))] = bytes[i]
      <4>1. at + Len(new) + 1 + (i - (at + Len(new))) - 1 = i
        BY <1>1
      <4> QED BY <1>3, <3>4, <4>1
    <3> QED BY <1>1, <1>8, <2>3, <3>2, <3>3, <3>5
  <2> QED BY <1>1, <2>1, <2>2, <2>3
<1>11. spliced = overlaid
  BY <1>7, <1>8, <1>10, SeqEqual
<1> QED BY <1>11 DEF spliced, overlaid

LEMMA AppendedIsPadded ==
  ASSUME TypeOK, NEW f \in File, NEW at \in Nat, NEW new \in Seq(Byte), at >= size[f]
  PROVE  Appended(f, at, new) = (AsText(f) \o Zeros(at - size[f])) \o new
<1>1. size[f] \in Nat
  BY DEF TypeOK
<1>2. CASE at > size[f]
  BY <1>2 DEF Appended, Padded
<1>3. CASE at = size[f]
  <2>1. Zeros(at - size[f]) = <<>>
    <3>1. Zeros(0) \in Seq(Byte) /\ Len(Zeros(0)) = 0
      BY ZerosLemma
    <3>2. Zeros(0) = <<>>
      BY <3>1, EmptySeq
    <3> QED BY <1>1, <1>3, <3>2
  <2>2. AsText(f) \o <<>> = AsText(f)
    <3>1. AsText(f) \in Seq(Byte)
      BY ByteFacts DEF AsText, TypeOK
    <3> QED BY <3>1, ConcatEmptySeq
  <2>3. ~(at > size[f])
    BY <1>1, <1>3
  <2> QED BY <2>1, <2>2, <2>3 DEF Appended
<1> QED BY <1>1, <1>2, <1>3

LEMMA PaddedIsOverlaid ==
  ASSUME NEW bytes \in Seq(Byte), NEW new \in Seq(Byte), NEW at \in Nat, at >= Len(bytes)
  PROVE  (bytes \o Zeros(at - Len(bytes))) \o new = Bytes!Overlaid(bytes, at, new)
<1> DEFINE zeros == Zeros(at - Len(bytes))
           first == bytes \o zeros
           overlaid == Bytes!Overlaid(bytes, at, new)
<1>1. Len(bytes) \in Nat /\ Len(new) \in Nat /\ at - Len(bytes) \in Nat
  BY LenProperties
<1>2. zeros \in Seq(Byte) /\ Len(zeros) = at - Len(bytes)
      /\ \A i \in 1 .. at - Len(bytes) : zeros[i] = 0
  BY <1>1, ZerosLemma DEF Zeros
<1> HIDE DEF zeros
<1>3. /\ first \in Seq(Byte) /\ Len(first) = at
      /\ \A i \in 1..at : first[i] = IF i <= Len(bytes) THEN bytes[i] ELSE zeros[i - Len(bytes)]
  <2>1. /\ first \in Seq(Byte) /\ Len(first) = Len(bytes) + Len(zeros)
        /\ \A i \in 1 .. Len(bytes) + Len(zeros) :
             first[i] = IF i <= Len(bytes) THEN bytes[i] ELSE zeros[i - Len(bytes)]
    BY <1>2, ConcatProperties
  <2>2. Len(bytes) + Len(zeros) = at
    BY <1>1, <1>2
  <2> HIDE DEF first
  <2> QED BY <2>1, <2>2
<1> HIDE DEF first
<1>4. /\ first \o new \in Seq(Byte) /\ Len(first \o new) = at + Len(new)
      /\ \A i \in 1 .. at + Len(new) : (first \o new)[i] = IF i <= at THEN first[i] ELSE new[i - at]
  <2>1. \A i \in 1 .. Len(first) + Len(new) :
          (first \o new)[i] = IF i <= Len(first) THEN first[i] ELSE new[i - Len(first)]
    BY <1>3, ConcatProperties
  <2>2. first \o new \in Seq(Byte) /\ Len(first \o new) = at + Len(new)
    BY <1>3, ConcatProperties
  <2>3. Len(first) = at
    BY <1>3
  <2> QED BY <2>1, <2>2, <2>3
<1>5. Greatest(Len(bytes), at + Len(new)) = at + Len(new)
  BY <1>1 DEF Greatest
<1>6. /\ overlaid \in Seq(Byte) /\ Len(overlaid) = at + Len(new)
      /\ \A i \in 1 .. at + Len(new) :
           overlaid[i] = IF at < i /\ i <= at + Len(new) THEN new[i - at]
                         ELSE IF i <= Len(bytes) THEN bytes[i] ELSE 0
  BY <1>5, OverlaidLemma
<1> HIDE DEF overlaid
<1>7. ASSUME NEW i \in 1 .. at + Len(new) PROVE (first \o new)[i] = overlaid[i]
  <2>1. CASE i <= Len(bytes)
    <3>1. i \in 1..at /\ ~(at < i) /\ i <= at
      BY <1>1, <2>1
    <3> QED BY <1>3, <1>4, <1>6, <2>1, <3>1
  <2>2. CASE Len(bytes) < i /\ i <= at
    <3>1. /\ i \in 1..at /\ ~(at < i) /\ ~(i <= Len(bytes))
          /\ i - Len(bytes) \in 1 .. at - Len(bytes)
      BY <1>1, <2>2
    <3>2. first[i] = 0
      BY <1>2, <1>3, <3>1
    <3> QED BY <1>4, <1>6, <2>2, <3>1, <3>2
  <2>3. CASE at < i
    <3>1. ~(i <= at) /\ i <= at + Len(new)
      BY <1>1, <2>3
    <3>2. (first \o new)[i] = new[i - at]
      BY <1>4, <3>1
    <3>3. overlaid[i] = new[i - at]
      BY <1>6, <2>3, <3>1
    <3> QED BY <3>2, <3>3
  <2>4. i <= Len(bytes) \/ (Len(bytes) < i /\ i <= at) \/ at < i
    BY <1>1
  <2> QED BY <2>1, <2>2, <2>3, <2>4
<1>8. first \o new = overlaid
  BY <1>1, <1>4, <1>6, <1>7, SeqEqual
<1> QED BY <1>8 DEF first, zeros, overlaid

-----------------------------------------------------------------------------
(* Files implements ByteStore: descriptors.                                *)

StoreStep == [Bytes!Next]_Bytes!vars

(* A descriptor's number is within the table, and only a live process has  *)
(* descriptors.                                                            *)
Tidy ==
  \A p \in Proc : Len(fds[p]) <= MaxFds /\ (~live[p] => fds[p] = <<>>)

LEMMA TidyTable ==
  ASSUME IInv, Tidy, NEW p \in Proc, NEW s \in Seq(Handle \cup {NoHandle}),
         fds' = [fds EXCEPT ![p] = s], Len(s) <= MaxFds,
         \A q \in Proc : q # p => live'[q] = live[q],
         live'[p] \/ s = <<>>
  PROVE  Tidy'
<1>1. fds'[p] = s /\ \A q \in Proc : q # p => fds'[q] = fds[q]
  BY Parts DEF TablesOK
<1>2. ASSUME NEW q \in Proc PROVE Len(fds'[q]) <= MaxFds /\ (~live'[q] => fds'[q] = <<>>)
  <2>1. CASE q = p
    BY <1>1, <2>1
  <2>2. CASE q # p
    BY <1>1, <2>2 DEF Tidy
  <2> QED BY <2>1, <2>2
<1> QED BY <1>2 DEF Tidy

LEMMA TidyStep ==
  ASSUME IInv, Tidy, Next
  PROVE  Tidy'
<1>1. PICK p \in Proc : live[p] /\ Call(p)
  BY DEF Next
<1>2. MaxFds \in Nat /\ Len(fds[p]) \in Nat /\ Len(fds[p]) <= MaxFds
      /\ fds[p] \in Seq(Handle \cup {NoHandle})
  BY ConstantsAssumption, SlotsLemma, Parts DEF TablesOK, Tidy
<1>3. ASSUME UNCHANGED <<fds, live>> PROVE Tidy'
  BY <1>3 DEF Tidy
<1>4. ASSUME NEW f \in File, NEW truncates \in BOOLEAN, Open(p, f, truncates) PROVE Tidy'
  <2> DEFINE s == Append(fds[p], New)
  <2>1. fds' = [fds EXCEPT ![p] = s] /\ live' = live /\ Len(fds[p]) < MaxFds
        /\ New \in Handle
    BY <1>4 DEF Open, New, Unused
  <2>2. s \in Seq(Handle \cup {NoHandle}) /\ Len(s) = Len(fds[p]) + 1
    BY <1>2, <2>1, AppendProperties
  <2> HIDE DEF s
  <2>3. Len(s) <= MaxFds
    BY <1>2, <2>1, <2>2
  <2> QED BY <1>1, <2>1, <2>2, <2>3, TidyTable
<1>5. ASSUME NEW f \in File, NEW truncates \in BOOLEAN, OpenAppend(f, truncates) PROVE Tidy'
  BY <1>3, <1>5 DEF OpenAppend
<1>6. ASSUME NEW i \in OpenSlots(p)
      PROVE  /\ \A n \in Lengths : Read(p, i, n) => Tidy'
             /\ \A new \in News : Write(p, i, new) => Tidy'
             /\ \A offset \in Offsets, whence \in {"SET", "CUR", "END"} :
                  Seek(p, i, offset, whence) => Tidy'
             /\ Poll(p, i) => Tidy'
  BY <1>3 DEF Read, Write, Seek, Poll, Throws
<1>7. ASSUME NEW i \in OpenSlots(p), Close(p, i) PROVE Tidy'
  <2> DEFINE s == [fds[p] EXCEPT ![i] = NoHandle]
  <2>1. fds' = [fds EXCEPT ![p] = s] /\ live' = live
    BY <1>7 DEF Close
  <2>2. i \in 1..Len(fds[p])
    BY SlotsLemma, Parts
  <2>3. s \in Seq(Handle \cup {NoHandle}) /\ Len(s) = Len(fds[p])
    BY <1>2, <2>2, ExceptSeq
  <2> HIDE DEF s
  <2>4. Len(s) <= MaxFds
    BY <1>2, <2>3
  <2> QED BY <1>1, <2>1, <2>3, <2>4, TidyTable
<1>8. ASSUME NEW i \in OpenSlots(p), Dup(p, i) PROVE Tidy'
  <2> DEFINE s == Append(fds[p], fds[p][i])
  <2>1. fds' = [fds EXCEPT ![p] = s] /\ live' = live /\ Len(fds[p]) < MaxFds
        /\ fds[p][i] \in Handle
    BY <1>8, SlotsLemma, Parts DEF Dup
  <2>2. s \in Seq(Handle \cup {NoHandle}) /\ Len(s) = Len(fds[p]) + 1
    BY <1>2, <2>1, AppendProperties
  <2> HIDE DEF s
  <2>3. Len(s) <= MaxFds
    BY <1>2, <2>1, <2>2
  <2> QED BY <1>1, <2>1, <2>2, <2>3, TidyTable
<1>9. ASSUME NEW i \in OpenSlots(p), NEW j \in 1..MaxFds, Dup2(p, i, j) PROVE Tidy'
  <2> DEFINE last == Greatest(Len(fds[p]), j)
             s == Placed(fds[p], j, fds[p][i])
  <2>1. fds' = [fds EXCEPT ![p] = s] /\ live' = live
    BY <1>9 DEF Dup2
  <2>2. last \in Nat /\ last <= MaxFds /\ DOMAIN fds[p] = 1..Len(fds[p])
    BY <1>2, LenProperties DEF Greatest
  <2>3. s \in [1..last -> Handle \cup {NoHandle}]
    BY <2>2, SlotsLemma, Parts DEF Placed, Slots
  <2>4. s \in Seq(Handle \cup {NoHandle}) /\ Len(s) = last
    BY <2>2, <2>3, SequenceOf
  <2> HIDE DEF s, last
  <2> QED BY <1>1, <2>1, <2>2, <2>4, TidyTable
<1>10. ASSUME NEW q \in Proc, Clone(p, q) PROVE Tidy'
  <2> DEFINE copy == CHOOSE c \in Copies(p) : TRUE
             s == [i \in Slots(p) |-> IF i \in OpenSlots(p) THEN copy[i] ELSE NoHandle]
  <2>1. copy \in [OpenSlots(p) -> Unused]
    BY <1>10 DEF Clone, Copies
  <2>2. fds' = [fds EXCEPT ![q] = s] /\ live' = [live EXCEPT ![q] = TRUE]
    BY <1>10 DEF Clone
  <2> HIDE DEF copy
  <2>3. Slots(p) = 1..Len(fds[p])
    BY SlotsLemma, Parts
  <2>4. s \in [1..Len(fds[p]) -> Handle \cup {NoHandle}]
    BY <2>1, <2>3 DEF Unused
  <2>5. s \in Seq(Handle \cup {NoHandle}) /\ Len(s) = Len(fds[p])
    BY <1>2, <2>4, SequenceOf
  <2> HIDE DEF s
  <2>6. Len(s) <= MaxFds
    BY <1>2, <2>5
  <2>7. live'[q] /\ \A r \in Proc : r # q => live'[r] = live[r]
    BY <2>2, Parts DEF TablesOK
  <2> QED BY <2>2, <2>5, <2>6, <2>7, TidyTable
<1>11. CASE Exit(p)
  <2>1. fds' = [fds EXCEPT ![p] = <<>>] /\ live' = [live EXCEPT ![p] = FALSE]
    BY <1>11 DEF Exit
  <2>2. <<>> \in Seq(Handle \cup {NoHandle}) /\ Len(<<>>) <= MaxFds
    BY <1>2, EmptySeq
  <2>3. \A q \in Proc : q # p => live'[q] = live[q]
    BY <2>1, Parts DEF TablesOK
  <2> QED BY <2>1, <2>2, <2>3, TidyTable
<1> QED BY <1>1, <1>4, <1>5, <1>6, <1>7, <1>8, <1>9, <1>10, <1>11 DEF Call

LEMMA TidyInvariance == Spec => []Tidy
<1>1. Init => Tidy
  <2> SUFFICES ASSUME Init PROVE Tidy
    OBVIOUS
  <2>1. MaxFds \in Nat /\ Len(<<>>) = 0
    BY ConstantsAssumption, EmptySeq
  <2> QED BY <2>1 DEF Init, Tidy
<1>2. IInv /\ Tidy /\ [Next]_vars => Tidy'
  <2>1. Tidy /\ UNCHANGED vars => Tidy'
    BY DEF Tidy, vars
  <2> QED BY <2>1, TidyStep
<1> QED BY <1>1, <1>2, Invariance, PTL DEF Spec

LEMMA TablesLemma ==
  ASSUME IInv
  PROVE  /\ \A p \in Proc : DOMAIN Tables[p] = OpenSlots(p)
         /\ \A p \in Proc : \A i \in OpenSlots(p) : Tables[p][i] = fds[p][i]
         /\ UNION {{Tables[p][i] : i \in DOMAIN Tables[p]} : p \in Proc} = UNION {Held(p) : p \in Proc}
<1>1. \A p \in Proc : DOMAIN Tables[p] = OpenSlots(p)
  BY DEF Tables, OpenPart, OpenSlots, Slots
<1>2. \A p \in Proc : \A i \in OpenSlots(p) : Tables[p][i] = fds[p][i]
  BY DEF Tables, OpenPart, OpenSlots, Slots
<1>3. \A p \in Proc : {Tables[p][i] : i \in DOMAIN Tables[p]} = Held(p)
  BY <1>1, <1>2 DEF Held, OpenSlots
<1> QED BY <1>1, <1>2, <1>3

LEMMA TableMade ==
  ASSUME IInv, NEW p \in Proc, NEW s, fds' = [fds EXCEPT ![p] = s]
  PROVE  Tables' = [Tables EXCEPT ![p] = OpenPart(s)]
<1>1. Tables' = [q \in Proc |-> OpenPart(fds'[q])]
  BY DEF Tables, OpenPart
<1>2. \A q \in Proc : fds'[q] = IF q = p THEN s ELSE fds[q]
  BY Parts DEF TablesOK
<1>3. \A q \in Proc : OpenPart(fds'[q]) = IF q = p THEN OpenPart(s) ELSE OpenPart(fds[q])
  BY <1>2
<1> HIDE DEF OpenPart
<1> QED BY <1>1, <1>3 DEF Tables

LEMMA TablesKept ==
  ASSUME UNCHANGED fds
  PROVE  UNCHANGED Tables
  BY DEF Tables, OpenPart

(* t is table s in which number j was bound to object h.                   *)
BoundTo(t, s, j, h) ==
  /\ DOMAIN t = DOMAIN s \cup DOMAIN t /\ j \in DOMAIN t
  /\ \A k \in DOMAIN t : t[k] = IF k = j THEN h ELSE IF k \in DOMAIN s THEN s[k] ELSE NoHandle

LEMMA PartBound ==
  ASSUME NEW s, NEW t, NEW j, NEW h, h # NoHandle, BoundTo(t, s, j, h)
  PROVE  OpenPart(t) = Bytes!Bound(OpenPart(s), j, h)
<1>1. {k \in DOMAIN t : t[k] # NoHandle} = {k \in DOMAIN s : s[k] # NoHandle} \cup {j}
  BY DEF BoundTo
<1>2. DOMAIN OpenPart(s) = {k \in DOMAIN s : s[k] # NoHandle}
      /\ \A k \in DOMAIN OpenPart(s) : OpenPart(s)[k] = s[k]
  BY DEF OpenPart
<1>3. \A k \in DOMAIN OpenPart(s) \cup {j} :
        t[k] = IF k = j THEN h ELSE OpenPart(s)[k]
  BY <1>1, <1>2 DEF BoundTo
<1>4. OpenPart(t) = [k \in DOMAIN OpenPart(s) \cup {j} |-> t[k]]
  BY <1>1, <1>2 DEF OpenPart
<1>5. [k \in DOMAIN OpenPart(s) \cup {j} |-> t[k]]
        = [k \in DOMAIN OpenPart(s) \cup {j} |-> IF k = j THEN h ELSE OpenPart(s)[k]]
  BY <1>3
<1> QED BY <1>4, <1>5 DEF Bytes!Bound

LEMMA DescriptorLemma ==
  ASSUME IInv, NEW p \in Proc, NEW i \in OpenSlots(p)
  PROVE  /\ i \in DOMAIN Tables[p] /\ Tables[p][i] = fds[p][i]
         /\ fds[p][i] \in Handle /\ file[fds[p][i]] \in File /\ pos[fds[p][i]] \in Nat
         /\ Bytes!FileOf(p, i) = file[fds[p][i]]
         /\ Bytes!Offset(p, i) = pos[fds[p][i]]
         /\ \A n : Bytes!Rest(p, i, n) = BytesAt(fds[p][i], n)
         /\ Bytes!Unreadable(p, i) <=> ReadFails(fds[p][i])
<1>1. i \in DOMAIN Tables[p] /\ Tables[p][i] = fds[p][i]
  BY TablesLemma
<1>2. fds[p][i] \in Handle /\ file[fds[p][i]] \in File /\ pos[fds[p][i]] \in Nat
  BY SlotsLemma, Parts DEF TablesOK
<1>3. Bytes!FileOf(p, i) = file[fds[p][i]] /\ Bytes!Offset(p, i) = pos[fds[p][i]]
  BY <1>1 DEF Bytes!FileOf, Bytes!Offset
<1>4. \A n : Bytes!Rest(p, i, n) = BytesAt(fds[p][i], n)
  BY <1>3 DEF Bytes!Rest, Bytes!Stretch, BytesAt, Least
<1>5. Bytes!Unreadable(p, i) <=> ReadFails(fds[p][i])
  BY <1>2, <1>3 DEF Bytes!Unreadable, ReadFails, Pristine
<1> QED BY <1>1, <1>2, <1>3, <1>4, <1>5

LEMMA CallStores ==
  ASSUME IInv, ~thrown, NEW p \in Proc, NEW i \in OpenSlots(p), Bytes!Call(p, i)
  PROVE  StoreStep
<1>1. i \in DOMAIN Tables[p]
  BY DescriptorLemma
<1> QED BY <1>1 DEF StoreStep, Bytes!Next

LEMMA PristineKept ==
  ASSUME UNCHANGED nodeVars
  PROVE  UNCHANGED <<data, Pristine>>
  BY DEF nodeVars, Pristine

LEMMA ReadStores ==
  ASSUME IInv, ~thrown, NEW p \in Proc, NEW i \in OpenSlots(p), NEW n \in Lengths, Read(p, i, n)
  PROVE  StoreStep
<1> DEFINE h == fds[p][i]
<1>1. CASE ReadFails(h)
  <2>1. thrown' = TRUE /\ UNCHANGED <<nodeVars, file, pos, fds, got>>
    BY <1>1 DEF Read, Throws
  <2>2. Bytes!ReadBeyond(p, i)
    BY <1>1, <2>1, DescriptorLemma, PristineKept, TablesKept DEF Bytes!ReadBeyond, Bytes!store
  <2> QED BY <2>2, CallStores DEF Bytes!Call
<1>2. CASE ~ReadFails(h)
  <2>1. got' = BytesAt(h, n) /\ pos' = [pos EXCEPT ![h] = pos[h] + Len(BytesAt(h, n))]
        /\ UNCHANGED <<nodeVars, file, fds, thrown>>
    BY <1>2 DEF Read
  <2>2. Bytes!Moved(p, i, Bytes!Offset(p, i) + Len(got'))
    BY <2>1, DescriptorLemma DEF Bytes!Moved
  <2>3. Bytes!Read(p, i, n)
    BY <1>2, <2>1, <2>2, DescriptorLemma, PristineKept, TablesKept DEF Bytes!Read, Bytes!store
  <2> QED BY <2>3, CallStores DEF Bytes!Call
<1> QED BY <1>1, <1>2

LEMMA PollStores ==
  ASSUME IInv, ~thrown, NEW p \in Proc, NEW i \in OpenSlots(p), Poll(p, i)
  PROVE  StoreStep
<1> DEFINE h == fds[p][i]
<1>1. CASE ReadFails(h)
  <2>1. thrown' = TRUE /\ UNCHANGED <<nodeVars, file, pos, fds, got>>
    BY <1>1 DEF Poll, Throws
  <2>2. Bytes!ReadBeyond(p, i)
    BY <1>1, <2>1, DescriptorLemma, PristineKept, TablesKept DEF Bytes!ReadBeyond, Bytes!store
  <2> QED BY <2>2, CallStores DEF Bytes!Call
<1>2. CASE ~ReadFails(h)
  <2>1. pos' = [pos EXCEPT ![h] = pos[h] + Len(BytesAt(h, 1))]
        /\ UNCHANGED <<nodeVars, file, fds, got, thrown>>
    BY <1>2 DEF Poll
  <2>2. Bytes!Moved(p, i, Bytes!Offset(p, i) + Len(Bytes!Rest(p, i, 1)))
    BY <2>1, DescriptorLemma DEF Bytes!Moved
  <2>3. Bytes!Poll(p, i)
    BY <1>2, <2>1, <2>2, DescriptorLemma, PristineKept, TablesKept DEF Bytes!Poll, Bytes!store
  <2> QED BY <2>3, CallStores DEF Bytes!Call
<1> QED BY <1>1, <1>2

LEMMA WriteStores ==
  ASSUME IInv, ~thrown, NEW p \in Proc, NEW i \in OpenSlots(p), NEW new \in News, Write(p, i, new)
  PROVE  StoreStep
<1> DEFINE f == file[fds[p][i]]
           at == pos[fds[p][i]]
<1>1. /\ Written(f, at, new) /\ UNCHANGED <<file, fds, got, thrown>>
      /\ pos' = [pos EXCEPT ![fds[p][i]] = at + Len(new)]
  BY DEF Write
<1>2. f \in File /\ at \in Nat
  BY DescriptorLemma
<1>3. new \in Seq(Byte) /\ data[f] \in Seq(Byte) /\ size[f] = Len(data[f]) /\ Len(data[f]) \in Nat
  BY <1>2, ByteFacts, LenProperties DEF IInv, TypeOK, SizeExact
<1>4. Pristine' = Pristine \ {f}
  BY <1>1, <1>2 DEF Written, Pristine, IInv, TypeOK
<1>5. IF f \in Pristine /\ at >= Len(data[f])
      THEN data' = [data EXCEPT ![f] = Label \o Bytes!Zeros(at - Len(data[f])) \o new]
      ELSE data' = [data EXCEPT ![f] = Bytes!Overlaid(data[f], at, new)]
  <2>1. CASE at < size[f]
    <3>1. ~(at >= size[f]) /\ ~(at >= Len(data[f]))
      BY <1>2, <1>3, <2>1
    <3>2. data' = [data EXCEPT ![f] = SplicedAt(data[f], at, new)]
      BY <1>1, <3>1 DEF Written
    <3>3. SplicedAt(data[f], at, new) = Bytes!Overlaid(data[f], at, new)
      BY <1>2, <1>3, <2>1, SplicedIsOverlaid
    <3> QED BY <3>1, <3>2, <3>3
  <2>2. CASE at >= size[f]
    <3>1. ~(at < size[f])
      BY <1>2, <1>3, <2>2
    <3>2. data' = [data EXCEPT ![f] = (AsText(f) \o Zeros(at - size[f])) \o new]
      <4>1. data' = [data EXCEPT ![f] = Appended(f, at, new)]
        BY <1>1, <3>1 DEF Written
      <4> QED BY <1>2, <1>3, <2>2, <4>1, AppendedIsPadded DEF IInv
    <3>3. CASE packed[f]
      <4>1. Bytes!Zeros(at - Len(data[f])) = Zeros(at - size[f])
        BY <1>3 DEF Bytes!Zeros, Zeros
      <4>2. f \in Pristine /\ at >= Len(data[f])
        BY <1>2, <1>3, <2>2, <3>3 DEF Pristine
      <4> QED BY <3>2, <3>3, <4>1, <4>2 DEF AsText
    <3>4. CASE ~packed[f]
      <4>1. f \notin Pristine
        BY <3>4 DEF Pristine
      <4>2. data' = [data EXCEPT ![f] = Bytes!Overlaid(data[f], at, new)]
        BY <1>2, <1>3, <2>2, <3>2, <3>4, PaddedIsOverlaid DEF AsText
      <4> QED BY <4>1, <4>2
    <3> QED BY <3>3, <3>4
  <2> QED BY <1>2, <1>3, <2>1, <2>2
<1>6. Bytes!Moved(p, i, Bytes!Offset(p, i) + Len(new))
  BY <1>1, DescriptorLemma DEF Bytes!Moved
<1>7. Bytes!FileOf(p, i) = f /\ Bytes!Offset(p, i) = at /\ UNCHANGED Tables
  BY <1>1, DescriptorLemma, TablesKept
<1> HIDE DEF f, at
<1>8. Bytes!Write(p, i, new)
  BY <1>1, <1>4, <1>5, <1>6, <1>7 DEF Bytes!Write, Bytes!Replaced
<1> QED BY <1>8, CallStores DEF Bytes!Call

LEMMA SeekStores ==
  ASSUME IInv, ~thrown, NEW p \in Proc, NEW i \in OpenSlots(p), NEW offset \in Offsets,
         NEW whence \in {"SET", "CUR", "END"}, Seek(p, i, offset, whence)
  PROVE  StoreStep
<1> DEFINE h == fds[p][i]
           base == CASE whence = "SET" -> 0 [] whence = "CUR" -> pos[h]
                     [] whence = "END" -> size[file[h]]
<1>1. /\ base + offset \in 0..MaxSize /\ pos' = [pos EXCEPT ![h] = base + offset]
      /\ UNCHANGED <<nodeVars, file, fds, got, thrown>>
  BY DEF Seek, Valid
<1>2. size[file[h]] = Len(data[file[h]])
  BY DescriptorLemma DEF IInv, SizeExact
<1>3. Bytes!Base(p, i, whence) = base
  BY <1>2, DescriptorLemma DEF Bytes!Base
<1> HIDE DEF base
<1>4. base + offset >= 0
  BY <1>1
<1>5. Bytes!Moved(p, i, Bytes!Base(p, i, whence) + offset)
  BY <1>1, <1>3, DescriptorLemma DEF Bytes!Moved
<1>6. Bytes!Seek(p, i, offset, whence)
  BY <1>1, <1>3, <1>4, <1>5, PristineKept, TablesKept DEF Bytes!Seek, Bytes!store
<1> QED BY <1>6, CallStores DEF Bytes!Call

(* A call that binds number j of p's table to the object of descriptor i.  *)
LEMMA DuplicateStores ==
  ASSUME IInv, ~thrown, NEW p \in Proc, NEW i \in OpenSlots(p), NEW j \in 1..MaxFds, NEW s,
         fds' = [fds EXCEPT ![p] = s], BoundTo(s, fds[p], j, fds[p][i]),
         UNCHANGED <<nodeVars, file, pos, got, thrown>>
  PROVE  StoreStep
<1>1. fds[p][i] # NoHandle
  BY DEF OpenSlots
<1>2. OpenPart(s) = Bytes!Bound(OpenPart(fds[p]), j, fds[p][i])
  BY <1>1, PartBound
<1>3. Tables[p] = OpenPart(fds[p]) /\ Tables[p][i] = fds[p][i]
  BY DescriptorLemma DEF Tables
<1>4. Tables' = [Tables EXCEPT ![p] = OpenPart(s)]
  BY TableMade
<1>5. Bytes!Duplicate(p, i, j)
  BY <1>2, <1>3, <1>4, PristineKept DEF Bytes!Duplicate, Bytes!store
<1> QED BY <1>5, CallStores DEF Bytes!Call

LEMMA AppendedTable ==
  ASSUME IInv, NEW p \in Proc, NEW h \in Handle
  PROVE  /\ BoundTo(Append(fds[p], h), fds[p], Len(fds[p]) + 1, h)
         /\ Len(fds[p]) + 1 \notin Slots(p)
<1> DEFINE s == Append(fds[p], h)
<1>1. fds[p] \in Seq(Handle \cup {NoHandle}) /\ Len(fds[p]) \in Nat /\ Slots(p) = 1..Len(fds[p])
  BY SlotsLemma, Parts DEF TablesOK
<1>2. /\ s \in Seq(Handle \cup {NoHandle}) /\ Len(s) = Len(fds[p]) + 1
      /\ \A k \in 1..Len(fds[p]) : s[k] = fds[p][k]
      /\ s[Len(fds[p]) + 1] = h
  BY <1>1, AppendProperties
<1>3. DOMAIN s = 1..Len(fds[p]) + 1
  BY <1>2, LenProperties
<1>4. DOMAIN fds[p] = Slots(p)
  BY DEF Slots
<1> HIDE DEF s
<1>5. BoundTo(s, fds[p], Len(fds[p]) + 1, h) /\ Len(fds[p]) + 1 \notin Slots(p)
  BY <1>1, <1>2, <1>3, <1>4 DEF BoundTo
<1> QED BY <1>5 DEF s

LEMMA DupStores ==
  ASSUME IInv, ~thrown, NEW p \in Proc, NEW i \in OpenSlots(p), Dup(p, i)
  PROVE  StoreStep
<1> DEFINE s == Append(fds[p], fds[p][i])
           j == Len(fds[p]) + 1
<1>1. fds[p][i] \in Handle
  BY DescriptorLemma
<1>2. BoundTo(s, fds[p], j, fds[p][i])
  BY <1>1, AppendedTable
<1>3. j \in 1..MaxFds
  BY SlotsLemma, Parts, ConstantsAssumption DEF Dup
<1>4. fds' = [fds EXCEPT ![p] = s] /\ UNCHANGED <<nodeVars, file, pos, got, thrown>>
  BY DEF Dup
<1> HIDE DEF s, j
<1> QED BY <1>2, <1>3, <1>4, DuplicateStores

LEMMA Dup2Stores ==
  ASSUME IInv, ~thrown, NEW p \in Proc, NEW i \in OpenSlots(p), NEW j \in 1..MaxFds, Dup2(p, i, j)
  PROVE  StoreStep
<1> DEFINE s == Placed(fds[p], j, fds[p][i])
           last == Greatest(Len(fds[p]), j)
<1>1. Len(fds[p]) \in Nat /\ Slots(p) = 1..Len(fds[p]) /\ DOMAIN fds[p] = Slots(p)
  BY SlotsLemma, Parts DEF Slots
<1>2. DOMAIN s = 1..last
      /\ \A k \in 1..last :
           s[k] = IF k = j THEN fds[p][i] ELSE IF k \in Slots(p) THEN fds[p][k] ELSE NoHandle
  BY <1>1 DEF Placed
<1>3. j \in 1..last /\ \A k \in Slots(p) : k \in 1..last
  BY <1>1 DEF Greatest
<1>4. fds' = [fds EXCEPT ![p] = s] /\ UNCHANGED <<nodeVars, file, pos, got, thrown>>
  BY DEF Dup2
<1> HIDE DEF s, last
<1>5. BoundTo(s, fds[p], j, fds[p][i])
  BY <1>1, <1>2, <1>3 DEF BoundTo
<1> QED BY <1>4, <1>5, DuplicateStores

LEMMA CloseStores ==
  ASSUME IInv, ~thrown, NEW p \in Proc, NEW i \in OpenSlots(p), Close(p, i)
  PROVE  StoreStep
<1> DEFINE s == [fds[p] EXCEPT ![i] = NoHandle]
           rest == [j \in DOMAIN Tables[p] \ {i} |-> Tables[p][j]]
<1>1. fds' = [fds EXCEPT ![p] = s] /\ UNCHANGED <<nodeVars, file, pos, got, thrown>>
  BY DEF Close
<1>2. i \in DOMAIN fds[p] /\ DOMAIN s = DOMAIN fds[p]
      /\ \A k \in DOMAIN s : s[k] = IF k = i THEN NoHandle ELSE fds[p][k]
  BY DEF OpenSlots, Slots
<1> HIDE DEF s
<1>3. {k \in DOMAIN s : s[k] # NoHandle} = DOMAIN Tables[p] \ {i}
  BY <1>2, TablesLemma DEF OpenSlots, Slots
<1>4. \A k \in DOMAIN Tables[p] \ {i} : s[k] = Tables[p][k]
  BY <1>2, TablesLemma DEF OpenSlots, Slots
<1>5. OpenPart(s) = rest
  BY <1>3, <1>4 DEF OpenPart
<1>6. Tables' = [Tables EXCEPT ![p] = rest]
  BY <1>1, <1>5, TableMade
<1>7. Bytes!Close(p, i)
  BY <1>1, <1>6, PristineKept DEF Bytes!Close, Bytes!store
<1> QED BY <1>7, CallStores DEF Bytes!Call

LEMMA OpenedStores ==
  ASSUME IInv, NEW f \in File, NEW truncates \in BOOLEAN, Opened(f, truncates)
  PROVE  Bytes!Truncated(f, truncates)
<1>1. CASE truncates
  <2>1. Pristine' = Pristine \ {f}
    BY <1>1 DEF Opened, Pristine, IInv, TypeOK
  <2> QED BY <1>1, <2>1 DEF Opened, Bytes!Truncated
<1>2. CASE ~truncates
  BY <1>2, PristineKept DEF Opened, Bytes!Truncated
<1> QED BY <1>1, <1>2

LEMMA OpenStores ==
  ASSUME IInv, ~thrown, NEW p \in Proc, NEW f \in File, NEW truncates \in BOOLEAN,
         Open(p, f, truncates)
  PROVE  StoreStep
<1> DEFINE s == Append(fds[p], New)
           j == Len(fds[p]) + 1
<1>1. /\ New \in Handle /\ New \in Unused /\ Len(fds[p]) < MaxFds
      /\ fds' = [fds EXCEPT ![p] = s]
      /\ file' = [file EXCEPT ![New] = f] /\ pos' = [pos EXCEPT ![New] = 0]
      /\ UNCHANGED <<got, thrown>>
  BY DEF Open, New, Unused
<1>2. BoundTo(s, fds[p], j, New) /\ j \notin Slots(p)
  BY <1>1, AppendedTable
<1>3. j \in 1..MaxFds
  BY <1>1, SlotsLemma, Parts, ConstantsAssumption
<1>4. j \notin DOMAIN Tables[p]
  BY <1>2, TablesLemma DEF OpenSlots
<1>5. New # NoHandle
  BY <1>1 DEF Handle, NoHandle
<1> HIDE DEF s, j
<1>6. OpenPart(s) = Bytes!Bound(OpenPart(fds[p]), j, New)
  BY <1>2, <1>5, PartBound
<1>7. Tables[p] = OpenPart(fds[p])
  BY DEF Tables
<1>8. Tables' = [Tables EXCEPT ![p] = Bytes!Bound(Tables[p], j, New)]
  BY <1>1, <1>6, <1>7, TableMade
<1>9. New \in Handle \ Bytes!InUse
  BY <1>1, TablesLemma DEF Bytes!InUse, Unused
<1>10. Bytes!Truncated(f, truncates)
  BY OpenedStores DEF Open
<1>11. Bytes!Open(p, f, truncates)
  BY <1>1, <1>3, <1>4, <1>8, <1>9, <1>10 DEF Bytes!Open
<1> QED BY <1>11 DEF StoreStep, Bytes!Next

LEMMA OpenAppendStores ==
  ASSUME IInv, ~thrown, NEW p \in Proc, NEW f \in File, NEW truncates \in BOOLEAN,
         OpenAppend(f, truncates)
  PROVE  StoreStep
<1>1. Bytes!Truncated(f, truncates)
  BY OpenedStores DEF OpenAppend
<1>2. Bytes!Refuse(f, truncates)
  BY <1>1, TablesKept DEF OpenAppend, Bytes!Refuse
<1> QED BY <1>2 DEF StoreStep, Bytes!Next

LEMMA CloneStores ==
  ASSUME IInv, Tidy, ~thrown, NEW p \in Proc, live[p], NEW q \in Proc, Clone(p, q)
  PROVE  StoreStep
<1> DEFINE copy == CHOOSE c \in Copies(p) : TRUE
           copied(h) == {i \in OpenSlots(p) : copy[i] = h}
           source(h) == IF copied(h) = {} THEN h ELSE fds[p][CHOOSE i \in copied(h) : TRUE]
           s == [i \in Slots(p) |-> IF i \in OpenSlots(p) THEN copy[i] ELSE NoHandle]
<1>1. /\ ~live[q] /\ fds' = [fds EXCEPT ![q] = s]
      /\ file' = [h \in Handle |-> file[source(h)]]
      /\ pos' = [h \in Handle |-> pos[source(h)]]
      /\ UNCHANGED <<nodeVars, got, thrown>>
  BY DEF Clone
<1>2. /\ copy \in [OpenSlots(p) -> Unused]
      /\ \A i, j \in OpenSlots(p) : copy[i] = copy[j] => i = j
  BY DEF Clone, Copies
<1> HIDE DEF copy
<1>3. \A i \in OpenSlots(p) : copy[i] \in Handle /\ copy[i] # NoHandle /\ copy[i] \notin Bytes!InUse
  <2>1. Bytes!InUse = UNION {Held(r) : r \in Proc}
    BY TablesLemma DEF Bytes!InUse
  <2>2. \A i \in OpenSlots(p) : copy[i] \in Handle \ UNION {Held(r) : r \in Proc}
    BY <1>2 DEF Unused
  <2>3. \A h \in Handle : h # NoHandle
    BY DEF Handle, NoHandle
  <2> QED BY <2>1, <2>2, <2>3
<1>4. OpenPart(s) = copy
  <2>1. {k \in DOMAIN s : s[k] # NoHandle} = OpenSlots(p)
    BY <1>3 DEF OpenSlots
  <2>2. \A k \in OpenSlots(p) : s[k] = copy[k]
    BY DEF OpenSlots
  <2> HIDE DEF s
  <2>3. OpenPart(s) = [k \in OpenSlots(p) |-> s[k]]
    BY <2>1 DEF OpenPart
  <2> QED BY <1>2, <2>2, <2>3
<1>5. Tables' = [Tables EXCEPT ![q] = copy] /\ Tables'[q] = copy
  <2>1. Tables' = [Tables EXCEPT ![q] = copy]
    BY <1>1, <1>4, TableMade
  <2> QED BY <2>1 DEF Tables
<1>6. DOMAIN Tables[q] = {}
  <2>1. fds[q] = <<>>
    BY <1>1 DEF Tidy
  <2>2. DOMAIN fds[q] = {}
    BY <2>1
  <2> QED BY <2>2, TablesLemma DEF OpenSlots, Slots
<1>7. ASSUME NEW i \in OpenSlots(p)
      PROVE  file'[copy[i]] = file[fds[p][i]] /\ pos'[copy[i]] = pos[fds[p][i]]
  <2>1. copied(copy[i]) = {i}
    BY <1>2
  <2>2. source(copy[i]) = fds[p][i]
    BY <2>1
  <2> HIDE DEF source
  <2> QED BY <1>1, <1>3, <2>2
<1>8. ASSUME NEW d \in Bytes!InUse PROVE file'[d] = file[d] /\ pos'[d] = pos[d]
  <2>1. d \in Handle
    BY TablesLemma, SlotsLemma, Parts DEF Bytes!InUse
  <2>2. copied(d) = {}
    BY <1>3
  <2> QED BY <1>1, <2>1, <2>2
<1>9. DOMAIN Tables[p] = OpenSlots(p) /\ \A i \in OpenSlots(p) :
        Bytes!FileOf(p, i) = file[fds[p][i]] /\ Bytes!Offset(p, i) = pos[fds[p][i]]
  BY TablesLemma, DescriptorLemma
<1>10. copy \in [OpenSlots(p) -> Handle \ Bytes!InUse]
  BY <1>2, <1>3
<1> HIDE DEF copied, source, s
<1>11. UNCHANGED <<data, Pristine>>
  BY <1>1, PristineKept
<1>12. Bytes!Clone(p, q)
  <2>1. \A i, j \in DOMAIN Tables[p] : Tables'[q][i] = Tables'[q][j] => i = j
    BY <1>2, <1>5, <1>9
  <2>2. \A i \in DOMAIN Tables[p] :
          /\ file'[Tables'[q][i]] = Bytes!FileOf(p, i)
          /\ pos'[Tables'[q][i]] = Bytes!Offset(p, i)
    BY <1>5, <1>7, <1>9
  <2>3. Tables'[q] \in [DOMAIN Tables[p] -> Handle \ Bytes!InUse]
    BY <1>5, <1>9, <1>10
  <2>4. Tables' = [Tables EXCEPT ![q] = Tables'[q]]
    BY <1>5
  <2>5. \A d \in Bytes!InUse : file'[d] = file[d] /\ pos'[d] = pos[d]
    BY <1>8
  <2> QED BY <1>1, <1>6, <1>11, <2>1, <2>2, <2>3, <2>4, <2>5 DEF Bytes!Clone, Bytes!store
<1>13. q # p
  BY <1>1
<1> QED BY <1>12, <1>13 DEF StoreStep, Bytes!Next

LEMMA ExitStores ==
  ASSUME IInv, ~thrown, NEW p \in Proc, Exit(p)
  PROVE  StoreStep
<1>1. fds' = [fds EXCEPT ![p] = <<>>] /\ UNCHANGED <<nodeVars, file, pos, got, thrown>>
  BY DEF Exit
<1>2. OpenPart(<<>>) = Bytes!NoDescriptor
  BY DEF OpenPart, Bytes!NoDescriptor
<1>3. Bytes!Exit(p)
  BY <1>1, <1>2, TableMade, PristineKept DEF Bytes!Exit, Bytes!store
<1> QED BY <1>3 DEF StoreStep, Bytes!Next

LEMMA StoreLemma ==
  ASSUME IInv, Tidy, Next
  PROVE  StoreStep
<1>1. PICK p \in Proc : live[p] /\ Call(p)
  BY DEF Next
<1>2. ~thrown
  BY DEF Next
<1>3. ASSUME NEW f \in File, NEW truncates \in BOOLEAN,
             Open(p, f, truncates) \/ OpenAppend(f, truncates)
      PROVE  StoreStep
  BY <1>2, <1>3, OpenStores, OpenAppendStores
<1>4. ASSUME NEW i \in OpenSlots(p), NEW n \in Lengths, Read(p, i, n) PROVE StoreStep
  BY <1>2, <1>4, ReadStores
<1>5. ASSUME NEW i \in OpenSlots(p), NEW new \in News, Write(p, i, new) PROVE StoreStep
  BY <1>2, <1>5, WriteStores
<1>6. ASSUME NEW i \in OpenSlots(p), NEW offset \in Offsets,
             NEW whence \in {"SET", "CUR", "END"}, Seek(p, i, offset, whence)
      PROVE  StoreStep
  BY <1>2, <1>6, SeekStores
<1>7. ASSUME NEW i \in OpenSlots(p), Poll(p, i) \/ Close(p, i) \/ Dup(p, i) PROVE StoreStep
  BY <1>2, <1>7, PollStores, CloseStores, DupStores
<1>8. ASSUME NEW i \in OpenSlots(p), NEW j \in 1..MaxFds, Dup2(p, i, j) PROVE StoreStep
  BY <1>2, <1>8, Dup2Stores
<1>9. ASSUME NEW q \in Proc, Clone(p, q) PROVE StoreStep
  BY <1>1, <1>2, <1>9, CloneStores
<1>10. CASE Exit(p)
  BY <1>2, <1>10, ExitStores
<1> QED BY <1>1, <1>3, <1>4, <1>5, <1>6, <1>7, <1>8, <1>9, <1>10 DEF Call

(* A call on a descriptor of an in-memory file (noopfs.js 237-296, and the *)
(* calls of syscalls.js above it) reads, overlays or counts from the bytes *)
(* of the file it is open on, at its own offset, and moves that one; open, *)
(* dup, dup2, clone, close and exit make and end descriptors that keep to  *)
(* this: with any number of files, processes and descriptors, whatever the *)
(* image holds, no state of offsets, sizes and the two forms of the data   *)
(* lets a call do anything else.                                           *)
THEOREM StoreCorrect == Spec => IsByteStore
<1>1. Init => Bytes!Init
  <2> SUFFICES ASSUME Init PROVE Bytes!Init
    OBVIOUS
  <2>1. Pristine = Imaged
    BY ConstantsAssumption DEF Init, Pristine
  <2>2. OpenPart(<<>>) = Bytes!NoDescriptor
    BY DEF OpenPart, Bytes!NoDescriptor
  <2>3. Tables = [p \in Proc |-> Bytes!NoDescriptor]
    BY <2>2 DEF Init, Tables
  <2>4. file \in [Handle -> File]
    BY InitLemma DEF IInv, TypeOK
  <2> QED BY <2>1, <2>3, <2>4 DEF Init, Bytes!Init
<1>2. IInv /\ Tidy /\ [Next]_vars => [Bytes!Next]_Bytes!vars
  <2>1. UNCHANGED vars => UNCHANGED Bytes!vars
    BY DEF vars, nodeVars, Bytes!vars, Bytes!store, Pristine, Tables, OpenPart
  <2> QED BY <2>1, StoreLemma DEF StoreStep
<1>3. IsByteStore <=> Bytes!Init /\ [][Bytes!Next]_Bytes!vars
  BY DEF IsByteStore, Bytes!Spec
<1> QED BY <1>1, <1>2, <1>3, Invariance, TidyInvariance, PTL DEF Spec
==============================================================================

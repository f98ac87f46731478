------------------------------ MODULE PipesProofs ------------------------------
(***************************************************************************)
(* What Pipes does for any number of processes, pipes and descriptors: the *)
(* count of writers is exact, and no reader or poller sleeps uncalled.     *)
(***************************************************************************)
EXTENDS Pipes, FiniteSetTheorems, SequenceTheorems, TLAPS

(* A pipe that is not made yet is in no table.                             *)
NewPipesUnused ==
  \A p \in Proc, i \in Fd, k \in Pipe :
    k > npipes => FileAt(p, i) \notin {Reader(k), Writer(k)}

(* A step that gives no pipe a first writer.                               *)
NoneOpened == \A k \in Pipe : refs'[k] > 0 => refs[k] > 0

(* A process that is not made yet holds nothing.                           *)
LaterUnborn == \A p \in Proc : p > nprocs => life[p] = "unborn"

IInv == TypeOK /\ WriterRefsExact /\ SleepersAreCalled /\ NewPipesUnused /\ LaterUnborn

-----------------------------------------------------------------------------
(* Files and tables of files.                                              *)

LEMMA Numbers ==
  /\ MaxProc \in Nat \ {0} /\ MaxPipe \in Nat \ {0} /\ MaxFds \in Nat \ {0} /\ MaxSent \in Nat \ {0}
  /\ Terminals \in 0..MaxFds
  /\ \A n \in ReadSizes : n \in Nat \ {0}
  BY ConstantsAssumption

LEMMA FilesDiffer ==
  /\ Closed \in File /\ Terminal \in File
  /\ \A k \in Pipe : Reader(k) \in File /\ Writer(k) \in File
  /\ \A k, l : Reader(k) = Reader(l) => k = l
  /\ \A k, l : Writer(k) = Writer(l) => k = l
  /\ \A k, l : Reader(k) # Writer(l)
  /\ \A k : Reader(k) \notin {Closed, Terminal} /\ Writer(k) \notin {Closed, Terminal}
  BY DEF File, Closed, Terminal, Reader, Writer

At(files, i) == IF i \in DOMAIN files THEN files[i] ELSE Closed

LEMMA FileAtIs == \A p, i : FileAt(p, i) = At(fds[p], i)
  BY DEF FileAt, At, Slots

Table == {files \in Seq(File) : Len(files) <= MaxFds}

LEMMA TableLemma ==
  ASSUME NEW files \in Table
  PROVE  /\ files \in Seq(File) /\ Len(files) \in Nat /\ Len(files) <= MaxFds
         /\ DOMAIN files = 1..Len(files) /\ DOMAIN files \subseteq Fd
         /\ \A i \in DOMAIN files : files[i] \in File
         /\ \A i : At(files, i) \in File
         /\ \A i : At(files, i) # Closed => i \in DOMAIN files
<1>1. files \in Seq(File) /\ Len(files) <= MaxFds
  BY DEF Table
<1>2. Len(files) \in Nat /\ DOMAIN files = 1..Len(files)
  BY <1>1, LenProperties
<1>3. \A i \in DOMAIN files : files[i] \in File
  BY <1>1, <1>2, ElementOfSeq
<1>4. DOMAIN files \subseteq Fd
  BY <1>1, <1>2, Numbers DEF Fd
<1> QED BY <1>1, <1>2, <1>3, <1>4, FilesDiffer DEF At

LEMMA Tables == TypeOK => \A p \in Proc : fds[p] \in Table
  BY DEF TypeOK, Table

LEMMA SequenceOf ==
  ASSUME NEW S, NEW n \in Nat, NEW s \in [1..n -> S]
  PROVE  s \in Seq(S) /\ Len(s) = n
<1>1. s \in Seq(S)
  BY SeqDef
<1>2. DOMAIN s = 1..n /\ DOMAIN s = 1..Len(s) /\ Len(s) \in Nat
  BY <1>1, LenProperties
<1> QED BY <1>1, <1>2

LEMMA EmptyTable == <<>> \in Table /\ \A i : At(<<>>, i) = Closed
<1>1. <<>> \in Seq(File) /\ Len(<<>>) = 0
  BY EmptySeq
<1>2. DOMAIN <<>> = {}
  BY <1>1, LenProperties
<1> QED BY <1>1, <1>2, Numbers DEF Table, At

LEMMA ClosedTable ==
  ASSUME NEW files \in Table, NEW i \in DOMAIN files
  PROVE  /\ [files EXCEPT ![i] = Closed] \in Table
         /\ \A j : At([files EXCEPT ![i] = Closed], j) = IF j = i THEN Closed ELSE At(files, j)
<1> DEFINE closed == [files EXCEPT ![i] = Closed]
<1>1. closed \in Seq(File) /\ Len(closed) = Len(files)
  BY TableLemma, FilesDiffer, ExceptSeq
<1>2. DOMAIN closed = DOMAIN files /\ \A j \in DOMAIN files : closed[j] = IF j = i THEN Closed ELSE files[j]
  OBVIOUS
<1>3. closed \in Table
  BY <1>1, TableLemma DEF Table
<1> HIDE DEF closed
<1>4. \A j : At(closed, j) = IF j = i THEN Closed ELSE At(files, j)
  BY <1>2 DEF At
<1> QED BY <1>3, <1>4 DEF closed

LEMMA AppendedTable ==
  ASSUME NEW files \in Table, NEW file \in File, Len(files) < MaxFds
  PROVE  /\ Append(files, file) \in Table /\ Len(files) + 1 \in Fd
         /\ \A j : At(Append(files, file), j) = IF j = Len(files) + 1 THEN file ELSE At(files, j)
<1> DEFINE longer == Append(files, file)
<1>1. Len(files) \in Nat /\ DOMAIN files = 1..Len(files) /\ files \in Seq(File)
  BY TableLemma
<1>2. /\ longer \in Seq(File) /\ Len(longer) = Len(files) + 1
      /\ \A j \in 1..Len(files) : longer[j] = files[j]
      /\ longer[Len(files) + 1] = file
  BY <1>1, AppendProperties
<1>3. DOMAIN longer = 1..Len(files) + 1
  BY <1>2, LenProperties
<1>4. longer \in Table /\ Len(files) + 1 \in Fd
  BY <1>1, <1>2, Numbers DEF Table, Fd
<1> HIDE DEF longer
<1>5. \A j : At(longer, j) = IF j = Len(files) + 1 THEN file ELSE At(files, j)
  BY <1>1, <1>2, <1>3 DEF At
<1> QED BY <1>4, <1>5 DEF longer

LEMMA StoredTable ==
  ASSUME NEW files \in Table, NEW file \in File, NEW j \in Fd
  PROVE  /\ Stored(files, j, file) \in Table
         /\ \A i \in Fd : At(Stored(files, j, file), i) = IF i = j THEN file ELSE At(files, i)
<1> DEFINE length == IF j > Len(files) THEN j ELSE Len(files)
           stored == Stored(files, j, file)
<1>1. Len(files) \in Nat /\ Len(files) <= MaxFds /\ DOMAIN files = 1..Len(files)
      /\ \A i \in DOMAIN files : files[i] \in File
  BY TableLemma
<1>2. length \in Nat /\ length <= MaxFds /\ j \in 1..length /\ \A i \in 1..Len(files) : i \in 1..length
  BY <1>1, Numbers DEF Fd
<1>3. stored = [i \in 1..length |-> IF i = j THEN file ELSE At(files, i)]
  BY DEF Stored, At
<1>4. \A i : At(files, i) \in File
  BY TableLemma
<1> HIDE DEF length, stored
<1>5. stored \in [1..length -> File]
  BY <1>3, <1>4
<1>6. stored \in Seq(File) /\ Len(stored) = length
  BY <1>2, <1>5, SequenceOf
<1>7. stored \in Table
  BY <1>2, <1>6 DEF Table
<1>8. \A i \in Fd : At(stored, i) = IF i = j THEN file ELSE At(files, i)
  <2>1. ASSUME NEW i \in Fd, i \in 1..length
        PROVE  At(stored, i) = IF i = j THEN file ELSE At(files, i)
    BY <1>3, <2>1 DEF At
  <2>2. ASSUME NEW i \in Fd, i \notin 1..length
        PROVE  At(stored, i) = Closed /\ At(files, i) = Closed /\ i # j
    BY <1>1, <1>2, <1>3, <2>2 DEF At
  <2> QED BY <2>1, <2>2
<1> QED BY <1>7, <1>8 DEF stored

-----------------------------------------------------------------------------
(* Counting the descriptors that are the writer of a pipe.                 *)

EndsIn(files, k) == {i \in Fd : At(files, i) = Writer(k)}
HoldersIn(f, L, k) == {h \in Proc \X Fd : h[1] \in L /\ At(f[h[1]], h[2]) = Writer(k)}
HoldingProcs == {p \in Proc : Holding(p)}

LEMMA HoldersAre == \A k : Holders(k) = HoldersIn(fds, HoldingProcs, k)
  BY FileAtIs DEF Holders, HoldersIn, HoldingProcs

LEMMA HoldersWillBe == \A k : Holders(k)' = HoldersIn(fds', HoldingProcs', k)
  BY DEF Holders, HoldersIn, HoldingProcs, FileAt, At, Slots, Holding, Fd, Proc, Writer, Closed

LEMMA SlotsFinite == IsFiniteSet(Fd) /\ IsFiniteSet(Proc \X Fd) /\ Cardinality(Proc \X Fd) = MaxProc * MaxFds
<1>1. /\ IsFiniteSet(1..MaxFds) /\ Cardinality(1..MaxFds) = MaxFds
      /\ IsFiniteSet(1..MaxProc) /\ Cardinality(1..MaxProc) = MaxProc
  BY Numbers, FS_Interval
<1>2. /\ IsFiniteSet(Fd) /\ Cardinality(Fd) = MaxFds
      /\ IsFiniteSet(Proc) /\ Cardinality(Proc) = MaxProc
  BY <1>1 DEF Fd, Proc
<1> QED BY <1>2, FS_Product

LEMMA HoldersFinite ==
  ASSUME NEW f, NEW L, NEW k
  PROVE  /\ IsFiniteSet(HoldersIn(f, L, k))
         /\ Cardinality(HoldersIn(f, L, k)) \in 0..(MaxProc * MaxFds)
<1>1. HoldersIn(f, L, k) \in SUBSET (Proc \X Fd)
  BY DEF HoldersIn
<1>2. IsFiniteSet(HoldersIn(f, L, k)) /\ Cardinality(HoldersIn(f, L, k)) <= MaxProc * MaxFds
  BY <1>1, SlotsFinite, FS_Subset
<1>3. Cardinality(HoldersIn(f, L, k)) \in Nat
  BY <1>2, FS_CardinalityType
<1>4. MaxProc * MaxFds \in Int
  BY Numbers
<1> QED BY <1>2, <1>3, <1>4

(* The tables g are f with one more file in the slot j of p.               *)
SlotSet(f, g, p, j, file) ==
  \A q \in Proc, i \in Fd : At(g[q], i) = IF q = p /\ i = j THEN file ELSE At(f[q], i)

(* Changing one descriptor moves one holder.                               *)
LEMMA SlotReplaced ==
  ASSUME NEW f, NEW g, NEW L, NEW p \in Proc, p \in L, NEW j \in Fd, NEW file, NEW k,
         SlotSet(f, g, p, j, file)
  PROVE  Cardinality(HoldersIn(g, L, k)) =
           Cardinality(HoldersIn(f, L, k)) + (IF file = Writer(k) THEN 1 ELSE 0)
                                           - (IF At(f[p], j) = Writer(k) THEN 1 ELSE 0)
<1> DEFINE h == <<p, j>>
           H == HoldersIn(f, L, k)
           A == H \ {h}
<1>1. IsFiniteSet(H) /\ Cardinality(H) \in Nat
  BY HoldersFinite, FS_CardinalityType
<1>2. IsFiniteSet(A) /\ Cardinality(A) = IF h \in H THEN Cardinality(H) - 1 ELSE Cardinality(H)
  BY <1>1, FS_RemoveElement
<1>3. h \notin A /\ Cardinality(A \cup {h}) = Cardinality(A) + 1
  BY <1>2, FS_AddElement
<1>4. h \in H <=> At(f[p], j) = Writer(k)
  BY DEF HoldersIn
<1>5. HoldersIn(g, L, k) = IF file = Writer(k) THEN A \cup {h} ELSE A
  BY DEF HoldersIn, SlotSet
<1>6. Cardinality(A) \in Nat
  BY <1>2, FS_CardinalityType
<1> HIDE DEF A, H, h
<1> QED BY <1>1, <1>2, <1>3, <1>4, <1>5, <1>6 DEF H

(* The holders of a set of processes and of one more.                      *)
LEMMA OneMore ==
  ASSUME NEW f, NEW L, NEW q \in Proc, q \notin L, NEW k
  PROVE  /\ Cardinality(HoldersIn(f, L \cup {q}, k)) =
              Cardinality(HoldersIn(f, L, k)) + Cardinality(EndsIn(f[q], k))
         /\ Cardinality(EndsIn(f[q], k)) \in Nat
<1> DEFINE S == EndsIn(f[q], k)
           O == HoldersIn(f, L, k)
           R == HoldersIn(f, {q}, k)
<1>1. IsFiniteSet(S) /\ IsFiniteSet(O) /\ IsFiniteSet(R)
  <2>1. S \in SUBSET Fd
    BY DEF EndsIn
  <2> QED BY <2>1, SlotsFinite, FS_Subset, HoldersFinite
<1>2. Cardinality(R) = Cardinality(S)
  <2> DEFINE g == [i \in S |-> <<q, i>>]
  <2>1. g \in [S -> R]
    BY DEF EndsIn, HoldersIn
  <2>2. \A i, j \in S : g[i] = g[j] => i = j
    OBVIOUS
  <2>3. \A r \in R : \E i \in S : g[i] = r
    BY DEF EndsIn, HoldersIn
  <2>4. g \in Bijection(S, R)
    BY <2>1, <2>2, <2>3 DEF Bijection, Injection, Surjection, IsInjective
  <2>5. ExistsBijection(S, R)
    BY <2>4 DEF ExistsBijection
  <2> QED BY <2>5, <1>1, FS_Bijection
<1>3. HoldersIn(f, L \cup {q}, k) = O \cup R /\ O \cap R = {}
  BY DEF HoldersIn
<1>4. Cardinality(O \cup R) = Cardinality(O) + Cardinality(R) - Cardinality(O \cap R)
  BY <1>1, FS_Union
<1>5. Cardinality(O \cap R) = 0
  BY <1>3, FS_EmptySet
<1>6. Cardinality(O) \in Nat /\ Cardinality(S) \in Nat
  BY <1>1, FS_CardinalityType
<1> HIDE DEF S, O, R
<1>7. Cardinality(HoldersIn(f, L \cup {q}, k)) = Cardinality(O \cup R)
  BY <1>3, Zenon
<1>8. Cardinality(HoldersIn(f, L \cup {q}, k)) = Cardinality(O) + Cardinality(S)
  BY <1>2, <1>4, <1>5, <1>6, <1>7
<1> QED BY <1>6, <1>8 DEF O, S

LEMMA EndsAre ==
  ASSUME NEW p \in Proc, fds[p] \in Table, NEW k
  PROVE  Ends(p, Writer(k)) = Cardinality(EndsIn(fds[p], k))
<1>1. {i \in Slots(p) : fds[p][i] = Writer(k)} = EndsIn(fds[p], k)
  BY TableLemma, FilesDiffer DEF Slots, EndsIn, At
<1> QED BY <1>1 DEF Ends

(* A descriptor of a holding process is counted.                           *)
LEMMA HeldIsCounted ==
  ASSUME TypeOK, WriterRefsExact, NEW p \in Proc, Holding(p), NEW i, NEW k \in Pipe,
         At(fds[p], i) = Writer(k)
  PROVE  refs[k] > 0
<1>1. i \in Fd
  BY Tables, TableLemma, FilesDiffer
<1>2. <<p, i>> \in Holders(k)
  BY <1>1, FileAtIs DEF Holders
<1>3. IsFiniteSet(Holders(k)) /\ Cardinality(Holders(k)) \in Nat
  BY HoldersAre, HoldersFinite, FS_CardinalityType
<1>4. Cardinality(Holders(k)) # 0
  BY <1>2, <1>3, FS_EmptySet
<1> QED BY <1>3, <1>4 DEF WriterRefsExact

-----------------------------------------------------------------------------
(* Processes asleep.                                                       *)

Asleep(p) == life[p] = "alive" /\ ~running[p]
Asks(p) == IF restart[p][1] = "read" THEN {restart[p][2]} ELSE restart[p][2]
Asked(p) == {k \in Pipe : \E i \in Asks(p) : FileAt(p, i) = Reader(k)}
WillBeCalled(p) ==
  /\ restart[p] # None
  /\ \A k \in Asked(p) : data[k] = <<>> /\ (refs[k] > 0 => p \in callbacks[k])
  /\ \E k \in Asked(p) : refs[k] > 0

LEMMA SleepersAre == SleepersAreCalled <=> \A p \in Proc : Asleep(p) => WillBeCalled(p)
  BY DEF SleepersAreCalled, Asleep, WillBeCalled, Asked, Asks

LEMMA SleepersWillBe == SleepersAreCalled' <=> \A p \in Proc : Asleep(p)' => WillBeCalled(p)'
  BY DEF SleepersAreCalled, Asleep, WillBeCalled, Asked, Asks

(* A sleeper keeps waiting for the same pipes, in the same state.          *)
LEMMA StillCalled ==
  ASSUME NEW r \in Proc, WillBeCalled(r), fds'[r] = fds[r], restart'[r] = restart[r],
         \A k \in Asked(r) :
            /\ data[k] = <<>> => data'[k] = <<>>
            /\ refs'[k] > 0 <=> refs[k] > 0
            /\ refs[k] > 0 /\ r \in callbacks[k] => r \in callbacks'[k]
  PROVE  WillBeCalled(r)'
<1>1. Asked(r)' = Asked(r)
  BY DEF Asked, Asks, FileAt, Slots
<1>2. restart'[r] # None
  BY DEF WillBeCalled
<1>3. \A k \in Asked(r) : data'[k] = <<>> /\ (refs'[k] > 0 => r \in callbacks'[k])
  BY DEF WillBeCalled
<1>4. \E k \in Asked(r) : refs'[k] > 0
  BY DEF WillBeCalled
<1> QED BY <1>1, <1>2, <1>3, <1>4 DEF WillBeCalled

(* A step that leaves tables, pipes and sleepers alone keeps the sleepers. *)
LEMMA OnlyOthersCalled ==
  ASSUME TypeOK, NEW r \in Proc, WillBeCalled(r), NEW ks \in SUBSET Pipe, Called(ks), ~running'[r]
  PROVE  \A k \in Asked(r) : refs[k] > 0 => k \notin ks /\ callbacks'[k] = callbacks[k]
<1>1. \A k \in Asked(r) : k \in Pipe /\ (refs[k] > 0 => r \in callbacks[k])
  BY DEF WillBeCalled, Asked
<1>2. \A k \in ks : r \notin callbacks[k]
  BY DEF Called
<1> QED BY <1>1, <1>2 DEF Called

LEMMA CalledTypes ==
  ASSUME TypeOK, NEW ks \in SUBSET Pipe, Called(ks)
  PROVE  /\ running' \in [Proc -> BOOLEAN] /\ callbacks' \in [Pipe -> SUBSET Proc]
         /\ \A p \in Proc : running[p] => running'[p]
<1>1. running' \in [Proc -> BOOLEAN]
  BY DEF Called
<1>2. callbacks' \in [Pipe -> SUBSET Proc]
  BY DEF Called, TypeOK
<1> QED BY <1>1, <1>2 DEF Called

-----------------------------------------------------------------------------
(* Blocking and not blocking.                                              *)

LEMMA EmptyPipe ==
  ASSUME TypeOK, NEW k \in Pipe, NEW n \in Nat \ {0}
  PROVE  /\ data[k] \in Seq(1..MaxSent) /\ Len(data[k]) \in Nat
         /\ data[k] = <<>> <=> Len(data[k]) = 0
         /\ Returned(k, n) \in 0..Len(data[k])
         /\ Returned(k, n) = 0 <=> data[k] = <<>>
         /\ SubSeq(data[k], Returned(k, n) + 1, Len(data[k])) \in Seq(1..MaxSent)
         /\ data[k] = <<>> => SubSeq(data[k], Returned(k, n) + 1, Len(data[k])) = <<>>
<1>1. data[k] \in Seq(1..MaxSent)
  BY DEF TypeOK
<1>2. Len(data[k]) \in Nat /\ (data[k] = <<>> <=> Len(data[k]) = 0)
  BY <1>1, EmptySeq
<1>3. Returned(k, n) \in 0..Len(data[k]) /\ (Returned(k, n) = 0 <=> data[k] = <<>>)
  BY <1>2 DEF Returned
<1>4. \A i \in (Returned(k, n) + 1)..Len(data[k]) : data[k][i] \in 1..MaxSent
  <2>1. \A i \in (Returned(k, n) + 1)..Len(data[k]) : i \in 1..Len(data[k])
    BY <1>2, <1>3
  <2>2. \A i \in 1..Len(data[k]) : data[k][i] \in 1..MaxSent
    BY <1>1, ElementOfSeq
  <2> QED BY <2>1, <2>2
<1>5. SubSeq(data[k], Returned(k, n) + 1, Len(data[k])) \in Seq(1..MaxSent)
  BY <1>2, <1>3, <1>4, SubSeqProperties
<1>6. data[k] = <<>> => SubSeq(data[k], Returned(k, n) + 1, Len(data[k])) = <<>>
  BY <1>2, <1>3, SubSeqEmpty
<1> QED BY <1>1, <1>2, <1>3, <1>5, <1>6

(* A pipe blocks a read or a poll if it is empty and has a writer.         *)
LEMMA BlocksIf ==
  ASSUME TypeOK, NEW k \in Pipe, NEW n \in Nat \ {0}
  PROVE  Blocks(k, n) <=> data[k] = <<>> /\ refs[k] > 0
<1>1. refs[k] \in Nat
  BY Numbers DEF TypeOK
<1>2. data[k] = <<>> => Len(data[k]) = 0
  BY EmptyPipe
<1>3. data[k] = <<>> => Len(data[k]) < n
  BY <1>2
<1> QED BY <1>1, <1>3 DEF Blocks

-----------------------------------------------------------------------------
(* Calls that leave the tables alone.                                      *)

LEMMA TablesKept ==
  ASSUME IInv, UNCHANGED <<fds, refs, npipes, nprocs>>,
         \A q \in Proc : (Holding(q)' <=> Holding(q)) /\ (life[q] = "unborn" => life'[q] = "unborn")
  PROVE  WriterRefsExact' /\ NewPipesUnused' /\ LaterUnborn'
<1>1. HoldingProcs' = HoldingProcs
  BY DEF HoldingProcs, Proc
<1>2. \A k : Holders(k)' = Holders(k)
  BY <1>1, HoldersAre, HoldersWillBe
<1>3. WriterRefsExact'
  BY <1>2 DEF IInv, WriterRefsExact
<1>4. NewPipesUnused'
  BY DEF IInv, NewPipesUnused, FileAt, Slots
<1>5. LaterUnborn'
  BY DEF IInv, LaterUnborn
<1> QED BY <1>3, <1>4, <1>5

LEMMA ReadKeeps ==
  ASSUME IInv, NEW p \in Proc, Runs(p), NEW i \in Fd, NEW n \in ReadSizes, Read(p, i, n)
  PROVE  IInv'
<1>1. PICK k \in Pipe :
        /\ FileAt(p, i) = Reader(k)
        /\ \/ /\ Blocks(k, n)
              /\ callbacks' = [callbacks EXCEPT ![k] = @ \cup {p}]
              /\ running' = [running EXCEPT ![p] = FALSE]
              /\ restart' = [restart EXCEPT ![p] = <<"read", i, n>>]
              /\ UNCHANGED <<data, last>>
           \/ /\ ~Blocks(k, n)
              /\ data' = [data EXCEPT ![k] = SubSeq(@, Returned(k, n) + 1, Len(@))]
              /\ restart' = [restart EXCEPT ![p] = None]
              /\ UNCHANGED <<callbacks, running>>
        /\ UNCHANGED <<fds, refs, npipes, sent, nprocs, life, thrown>>
  BY DEF Read
<1>2. TypeOK /\ n \in Nat \ {0} /\ running[p]
  BY Numbers DEF IInv, Runs
<1>3. WriterRefsExact' /\ NewPipesUnused' /\ LaterUnborn'
  BY <1>1, TablesKept DEF Holding
<1>4. CASE Blocks(k, n)
  <2>1. /\ callbacks' = [callbacks EXCEPT ![k] = @ \cup {p}]
        /\ running' = [running EXCEPT ![p] = FALSE]
        /\ restart' = [restart EXCEPT ![p] = <<"read", i, n>>]
        /\ UNCHANGED <<fds, refs, npipes, sent, nprocs, life, thrown, data>>
    BY <1>1, <1>4
  <2>2. TypeOK'
    BY <1>2, <2>1 DEF TypeOK, None
  <2>3. data[k] = <<>> /\ refs[k] > 0
    BY <1>2, <1>4, BlocksIf
  <2>4. ASSUME NEW r \in Proc, Asleep(r)'
        PROVE  WillBeCalled(r)'
    <3>1. CASE r = p
      <4>1. restart'[p] = <<"read", i, n>> /\ p \in callbacks'[k]
        BY <1>2, <2>1 DEF TypeOK
      <4>2. Asks(p)' = {i} /\ restart'[p] # None
        BY <4>1 DEF Asks, None
      <4>3. Asked(p)' = {k}
        BY <1>1, <2>1, <4>2, FilesDiffer DEF Asked, FileAt, Slots
      <4> QED BY <2>1, <2>3, <3>1, <4>1, <4>2, <4>3 DEF WillBeCalled
    <3>2. CASE r # p
      <4>1. WillBeCalled(r)
        BY <1>2, <2>1, <2>4, <3>2, SleepersAre DEF IInv, Asleep, TypeOK
      <4>2. restart'[r] = restart[r] /\ fds'[r] = fds[r]
        BY <1>2, <2>1, <3>2 DEF TypeOK
      <4>3. \A l \in Asked(r) : data'[l] = data[l] /\ refs'[l] = refs[l] /\ (r \in callbacks[l] => r \in callbacks'[l])
        BY <1>2, <2>1 DEF Asked, TypeOK
      <4> QED BY <4>1, <4>2, <4>3, StillCalled
    <3> QED BY <3>1, <3>2
  <2> QED BY <1>3, <2>2, <2>4, SleepersWillBe DEF IInv
<1>5. CASE ~Blocks(k, n)
  <2>1. /\ data' = [data EXCEPT ![k] = SubSeq(@, Returned(k, n) + 1, Len(@))]
        /\ restart' = [restart EXCEPT ![p] = None]
        /\ UNCHANGED <<fds, refs, npipes, sent, nprocs, life, thrown, callbacks, running>>
    BY <1>1, <1>5
  <2>2. TypeOK'
    BY <1>2, <2>1, EmptyPipe DEF TypeOK
  <2>3. ASSUME NEW r \in Proc, Asleep(r)'
        PROVE  WillBeCalled(r)'
    <3>1. r # p /\ WillBeCalled(r)
      BY <1>2, <2>1, <2>3, SleepersAre DEF IInv, Asleep
    <3>2. restart'[r] = restart[r]
      BY <1>2, <2>1, <3>1 DEF TypeOK
    <3>3. \A l \in Asked(r) : data[l] = <<>> => data'[l] = <<>>
      BY <1>2, <2>1, EmptyPipe DEF Asked, TypeOK
    <3> QED BY <2>1, <3>1, <3>2, <3>3, StillCalled
  <2> QED BY <1>3, <2>2, <2>3, SleepersWillBe DEF IInv
<1> QED BY <1>4, <1>5

LEMMA PollKeeps ==
  ASSUME IInv, NEW p \in Proc, Runs(p), NEW is \in PollSets, NEW timeout \in BOOLEAN, Poll(p, is, timeout)
  PROVE  IInv'
<1> DEFINE asked == {k \in Pipe : \E i \in is : FileAt(p, i) = Reader(k)}
           empty == {k \in asked : Blocks(k, 1)}
           ready == {k \in asked : ~Blocks(k, 1) /\ Returned(k, 1) > 0}
           sleeps == ready = {} /\ timeout /\ empty # {}
<1>1. /\ callbacks' = [k \in Pipe |-> IF k \in empty THEN callbacks[k] \cup {p} ELSE callbacks[k]]
      /\ running' = [running EXCEPT ![p] = ~sleeps]
      /\ restart' = [restart EXCEPT ![p] = IF sleeps THEN <<"poll", is, timeout>> ELSE None]
      /\ UNCHANGED <<fds, refs, data, npipes, sent, nprocs, life, last, thrown>>
  BY DEF Poll
<1>2. TypeOK /\ running[p]
  BY DEF IInv, Runs
<1>3. WriterRefsExact' /\ NewPipesUnused' /\ LaterUnborn'
  BY <1>1, TablesKept DEF Holding
<1>4. sleeps \in BOOLEAN /\ (sleeps => timeout)
  OBVIOUS
<1>5. sleeps => \A k \in asked : data[k] = <<>> /\ (refs[k] > 0 => k \in empty)
  <2> SUFFICES ASSUME sleeps, NEW k \in asked
               PROVE  data[k] = <<>> /\ (refs[k] > 0 => k \in empty)
    OBVIOUS
  <2>1. Blocks(k, 1) <=> data[k] = <<>> /\ refs[k] > 0
    BY <1>2, BlocksIf
  <2>2. Blocks(k, 1) \/ Returned(k, 1) = 0
    <3>0. k \in Pipe /\ 1 \in Nat \ {0}
      OBVIOUS
    <3>1. Returned(k, 1) \in 0..Len(data[k]) /\ Len(data[k]) \in Nat
      BY <1>2, <3>0, EmptyPipe
    <3>2. Blocks(k, 1) \/ ~(Returned(k, 1) > 0)
      OBVIOUS
    <3> QED BY <3>1, <3>2
  <2>3. data[k] = <<>>
    BY <1>2, <2>1, <2>2, EmptyPipe
  <2> QED BY <2>1, <2>3
<1>6. sleeps => \E k \in asked : refs[k] > 0
  BY <1>2, BlocksIf
<1>7. empty \subseteq asked /\ asked \subseteq Pipe
  OBVIOUS
<1> HIDE DEF sleeps, empty, ready
<1>8. TypeOK'
  <2>1. callbacks' \in [Pipe -> SUBSET Proc]
    BY <1>1, <1>2 DEF TypeOK
  <2>2. running' \in [Proc -> BOOLEAN]
    BY <1>1, <1>2, <1>4 DEF TypeOK
  <2>3. restart' \in [Proc -> {None} \cup ({"read"} \X Fd \X ReadSizes) \cup ({"poll"} \X PollSets \X {TRUE})]
    BY <1>1, <1>2, <1>4 DEF TypeOK
  <2> QED BY <1>1, <1>2, <2>1, <2>2, <2>3 DEF TypeOK
<1>9. ASSUME NEW r \in Proc, Asleep(r)'
      PROVE  WillBeCalled(r)'
  <2>1. CASE r = p
    <3>1. sleeps
      BY <1>1, <1>2, <1>9, <2>1 DEF Asleep, TypeOK
    <3>2. restart'[p] = <<"poll", is, timeout>>
      BY <1>1, <1>2, <3>1 DEF TypeOK
    <3>3. Asks(p)' = is /\ restart'[p] # None
      BY <3>2 DEF Asks, None
    <3>4. Asked(p)' = asked
      BY <1>1, <3>3 DEF Asked, FileAt, Slots, Pipe, Reader
    <3>5. \A k \in asked : data'[k] = <<>> /\ (refs'[k] > 0 => p \in callbacks'[k])
      BY <1>1, <1>5, <1>7, <3>1
    <3>6. \E k \in asked : refs'[k] > 0
      BY <1>1, <1>6, <3>1
    <3> HIDE DEF asked
    <3> QED BY <2>1, <3>3, <3>4, <3>5, <3>6 DEF WillBeCalled
  <2>2. CASE r # p
    <3>1. WillBeCalled(r)
      BY <1>1, <1>2, <1>9, <2>2, SleepersAre DEF IInv, Asleep, TypeOK
    <3>2. restart'[r] = restart[r] /\ fds'[r] = fds[r]
      BY <1>1, <1>2, <2>2 DEF TypeOK
    <3>3. \A l \in Asked(r) : data'[l] = data[l] /\ refs'[l] = refs[l] /\ (r \in callbacks[l] => r \in callbacks'[l])
      BY <1>1 DEF Asked
    <3> QED BY <3>1, <3>2, <3>3, StillCalled
  <2> QED BY <2>1, <2>2
<1> QED BY <1>3, <1>8, <1>9, SleepersWillBe DEF IInv

LEMMA WriteKeeps ==
  ASSUME IInv, NEW p \in Proc, Runs(p), NEW i \in Fd, NEW n \in 1..MaxSent, Write(p, i, n)
  PROVE  IInv'
<1>1. PICK k \in Pipe :
        /\ FileAt(p, i) = Writer(k) /\ sent[k] + n <= MaxSent
        /\ data' = [data EXCEPT ![k] = @ \o [b \in 1..n |-> sent[k] + b]]
        /\ sent' = [sent EXCEPT ![k] = @ + n]
        /\ Called({k})
        /\ UNCHANGED <<fds, refs, npipes, nprocs, life, restart, last, thrown>>
  BY DEF Write
<1>2. TypeOK /\ Holding(p) /\ {k} \in SUBSET Pipe
  BY DEF IInv, Runs
<1>3. WriterRefsExact' /\ NewPipesUnused' /\ LaterUnborn'
  BY <1>1, TablesKept DEF Holding
<1>4. TypeOK'
  <2> DEFINE new == [b \in 1..n |-> sent[k] + b]
  <2>1. sent[k] \in Nat /\ n \in Nat /\ MaxSent \in Nat
    BY <1>2, Numbers DEF TypeOK
  <2>2. new \in [1..n -> 1..MaxSent]
    BY <1>1, <2>1
  <2>3. new \in Seq(1..MaxSent)
    BY <2>1, <2>2, SequenceOf
  <2> HIDE DEF new
  <2>4. data[k] \o new \in Seq(1..MaxSent)
    BY <1>2, <2>3, ConcatProperties DEF TypeOK
  <2>5. data' \in [Pipe -> Seq(1..MaxSent)]
    BY <1>1, <1>2, <2>4 DEF TypeOK, new
  <2>6. sent' \in [Pipe -> 0..MaxSent]
    BY <1>1, <1>2, <2>1 DEF TypeOK
  <2>7. running' \in [Proc -> BOOLEAN] /\ callbacks' \in [Pipe -> SUBSET Proc]
    BY <1>1, <1>2, CalledTypes
  <2> QED BY <1>1, <1>2, <2>5, <2>6, <2>7 DEF TypeOK
<1>5. refs[k] > 0
  BY <1>1, <1>2, HeldIsCounted, FileAtIs DEF IInv
<1>6. ASSUME NEW r \in Proc, Asleep(r)'
      PROVE  WillBeCalled(r)'
  <2>1. ~running'[r] /\ WillBeCalled(r)
    BY <1>1, <1>2, <1>6, CalledTypes, SleepersAre DEF IInv, Asleep
  <2>2. \A l \in Asked(r) : refs[l] > 0 => l # k /\ callbacks'[l] = callbacks[l]
    BY <1>1, <1>2, <2>1, OnlyOthersCalled
  <2>3. \A l \in Asked(r) : l # k /\ data'[l] = data[l]
    BY <1>1, <1>2, <1>5, <2>2 DEF TypeOK, Asked
  <2> QED BY <1>1, <2>1, <2>2, <2>3, StillCalled
<1> QED BY <1>3, <1>4, <1>6, SleepersWillBe DEF IInv

LEMMA WakeKeeps ==
  ASSUME IInv, NEW p \in Proc, Wake(p)
  PROVE  IInv'
<1>1. TypeOK'
  BY DEF IInv, TypeOK, Wake, pipeVars
<1>2. WriterRefsExact' /\ NewPipesUnused' /\ LaterUnborn'
  BY TablesKept DEF Wake, pipeVars, Holding
<1>3. ASSUME NEW r \in Proc, Asleep(r)'
      PROVE  WillBeCalled(r)'
  <2>1. WillBeCalled(r)
    BY <1>3, SleepersAre DEF IInv, Asleep, Wake, TypeOK
  <2> QED BY <2>1, StillCalled DEF Wake, pipeVars
<1> QED BY <1>1, <1>2, <1>3, SleepersWillBe DEF IInv

LEMMA ExitKeeps ==
  ASSUME IInv, NEW p \in Proc, Holding(p), Exit(p)
  PROVE  IInv'
<1>1. TypeOK'
  BY DEF IInv, TypeOK, Exit, pipeVars
<1>2. WriterRefsExact' /\ NewPipesUnused' /\ LaterUnborn'
  BY TablesKept DEF Exit, pipeVars, Holding, IInv, TypeOK
<1>3. ASSUME NEW r \in Proc, Asleep(r)'
      PROVE  WillBeCalled(r)'
  <2>1. WillBeCalled(r)
    BY <1>3, SleepersAre DEF IInv, Asleep, Exit, TypeOK
  <2> QED BY <2>1, StillCalled DEF Exit, pipeVars
<1> QED BY <1>1, <1>2, <1>3, SleepersWillBe DEF IInv

(* A TypeError leaves nobody to hold or to sleep.                          *)
LEMMA WrongEndKeeps ==
  ASSUME IInv, NEW p \in Proc, NEW i \in Fd, WrongEnd(p, i)
  PROVE  IInv'
<1>1. /\ fds' = [q \in Proc |-> <<>>] /\ refs' = [k \in Pipe |-> 0]
      /\ callbacks' = [k \in Pipe |-> {}] /\ thrown' = TRUE
      /\ life' = [q \in Proc |-> IF life[q] = "unborn" THEN "unborn" ELSE "gone"]
      /\ running' = [q \in Proc |-> FALSE] /\ restart' = [q \in Proc |-> None]
      /\ UNCHANGED <<data, npipes, sent, nprocs, last>>
  BY DEF WrongEnd
<1>2. TypeOK'
  <2>1. <<>> \in Table
    BY EmptyTable
  <2>2. fds' \in [Proc -> Seq(File)] /\ \A q \in Proc : Len(fds'[q]) <= MaxFds
    BY <1>1, <2>1 DEF Table
  <2>3. MaxProc * MaxFds \in Nat
    BY Numbers
  <2>4. refs' \in [Pipe -> 0..(MaxProc * MaxFds)]
    BY <1>1, <2>3
  <2> QED BY <1>1, <2>2, <2>4 DEF IInv, TypeOK
<1>3. WriterRefsExact'
  <2>1. \A q \in Proc : ~Holding(q)'
    BY <1>1 DEF Holding
  <2>2. HoldingProcs' = {}
    BY <2>1 DEF HoldingProcs, Proc
  <2>3. \A k : Holders(k)' = {}
    BY <2>2, HoldersWillBe DEF HoldersIn
  <2> QED BY <1>1, <2>3, FS_EmptySet DEF WriterRefsExact, Pipe
<1>4. SleepersAreCalled'
  BY <1>1, SleepersWillBe DEF Asleep
<1>5. NewPipesUnused'
  <2>1. \A q \in Proc, j \in Fd : FileAt(q, j)' = Closed
    BY <1>1, EmptyTable DEF FileAt, At, Slots, Closed
  <2> QED BY <2>1, FilesDiffer DEF NewPipesUnused, Fd, Pipe, Proc, Reader, Writer, Closed
<1>6. LaterUnborn'
  BY <1>1 DEF IInv, LaterUnborn, Proc
<1> QED BY <1>2, <1>3, <1>4, <1>5, <1>6 DEF IInv

-----------------------------------------------------------------------------
(* Calls that change one descriptor.                                       *)

(* A table with one slot changed; a file that may be stored in it.         *)
Changed(files, new, j, file) == \A i \in Fd : At(new, i) = IF i = j THEN file ELSE At(files, i)
Known(files, file) == file = Closed \/ \E i \in Fd : file = At(files, i)

(* The descriptor j of p becomes one more of a file that p has, or closed. *)
LEMMA SlotKeeps ==
  ASSUME IInv, NEW p \in Proc, Runs(p), NEW files \in Table, NEW j \in Fd, NEW file,
         Changed(fds[p], files, j, file), Known(fds[p], file),
         fds' = [fds EXCEPT ![p] = files],
         Duplicated(file, At(fds[p], j)),
         UNCHANGED <<data, npipes, sent, nprocs, life, restart, last, thrown>>
  PROVE  IInv' /\ NoneOpened
<1> DEFINE closed == At(fds[p], j)
           ks == {k \in Pipe : closed = Writer(k) /\ refs[k] = 1}
<1>1. /\ TypeOK /\ Holding(p) /\ running[p] /\ \A q \in Proc : fds[q] \in Table
      /\ WriterRefsExact /\ ks \in SUBSET Pipe
  BY Tables DEF IInv, Runs
<1>2. /\ refs' = [k \in Pipe |-> refs[k] + (IF file = Writer(k) THEN 1 ELSE 0)
                                         - (IF closed = Writer(k) THEN 1 ELSE 0)]
      /\ Called(ks)
  BY DEF Duplicated
<1>3. \A q \in Proc : fds'[q] = IF q = p THEN files ELSE fds[q]
  BY <1>1 DEF TypeOK
<1>4. HoldingProcs' = HoldingProcs /\ p \in HoldingProcs
  BY <1>1 DEF HoldingProcs, Holding, Proc
<1> HIDE DEF closed, ks
<1>5. \A k \in Pipe : refs[k] \in Nat
  BY <1>1, Numbers DEF TypeOK
<1>6. \A k \in Pipe : refs'[k] = refs[k] + (IF file = Writer(k) THEN 1 ELSE 0)
                                        - (IF closed = Writer(k) THEN 1 ELSE 0)
  BY <1>2
<1>7. \A k \in Pipe : refs'[k] = Cardinality(Holders(k)')
  <2> SUFFICES ASSUME NEW k \in Pipe
               PROVE  refs'[k] = Cardinality(Holders(k)')
    OBVIOUS
  <2>1. SlotSet(fds, fds', p, j, file)
    BY <1>3 DEF SlotSet, Changed
  <2>2. Cardinality(HoldersIn(fds', HoldingProcs, k)) =
           Cardinality(HoldersIn(fds, HoldingProcs, k)) + (IF file = Writer(k) THEN 1 ELSE 0)
                                                    - (IF closed = Writer(k) THEN 1 ELSE 0)
    <3>1. Cardinality(HoldersIn(fds', HoldingProcs, k)) =
             Cardinality(HoldersIn(fds, HoldingProcs, k)) + (IF file = Writer(k) THEN 1 ELSE 0)
                                                      - (IF At(fds[p], j) = Writer(k) THEN 1 ELSE 0)
      BY <1>4, <2>1, SlotReplaced
    <3> QED BY <3>1 DEF closed
  <2>3. refs[k] = Cardinality(HoldersIn(fds, HoldingProcs, k))
    BY <1>1, HoldersAre DEF WriterRefsExact
  <2>4. Holders(k)' = HoldersIn(fds', HoldingProcs, k)
    BY <1>4, HoldersWillBe
  <2> QED BY <1>6, <2>2, <2>3, <2>4
<1>8. TypeOK'
  <2>1. \A k \in Pipe : Cardinality(Holders(k)') \in 0..(MaxProc * MaxFds)
    BY HoldersWillBe, HoldersFinite
  <2>2. refs' \in [Pipe -> 0..(MaxProc * MaxFds)]
    BY <1>2, <1>7, <2>1
  <2>3. fds' \in [Proc -> Seq(File)] /\ \A q \in Proc : Len(fds'[q]) <= MaxFds
    BY <1>1, <1>3 DEF TypeOK, Table
  <2>4. running' \in [Proc -> BOOLEAN] /\ callbacks' \in [Pipe -> SUBSET Proc]
    BY <1>1, <1>2, CalledTypes
  <2> QED BY <1>1, <2>2, <2>3, <2>4 DEF TypeOK
<1>9. \A k \in Pipe \ ks : refs'[k] > 0 <=> refs[k] > 0
  <2> SUFFICES ASSUME NEW k \in Pipe, k \notin ks
               PROVE  refs'[k] > 0 <=> refs[k] > 0
    OBVIOUS
  <2>1. file = Writer(k) => refs[k] > 0
    BY <1>1, FilesDiffer, HeldIsCounted DEF Known
  <2>2. closed = Writer(k) => refs[k] > 0 /\ refs[k] # 1
    BY <1>1, HeldIsCounted DEF closed, ks
  <2> QED BY <1>5, <1>6, <2>1, <2>2
<1>10. ASSUME NEW r \in Proc, Asleep(r)'
       PROVE  WillBeCalled(r)'
  <2>1. ~running'[r] /\ WillBeCalled(r)
    BY <1>1, <1>2, <1>10, CalledTypes, SleepersAre DEF IInv, Asleep
  <2>2. \A l \in Asked(r) : refs[l] > 0 => l \notin ks /\ callbacks'[l] = callbacks[l]
    BY <1>1, <1>2, <2>1, OnlyOthersCalled
  <2>3. \A l \in Asked(r) : l \in Pipe /\ (l \in ks => refs[l] > 0)
    BY DEF ks, Asked
  <2>4. r # p
    BY <1>1, <1>2, <2>1, CalledTypes
  <2> QED BY <1>3, <1>9, <2>1, <2>2, <2>3, <2>4, StillCalled
<1>11. NewPipesUnused'
  <2> SUFFICES ASSUME NEW q \in Proc, NEW i \in Fd, NEW k \in Pipe, k > npipes
               PROVE  At(fds'[q], i) \notin {Reader(k), Writer(k)}
    BY DEF NewPipesUnused, FileAt, At, Slots, Fd, Pipe, Proc, Reader, Writer, Closed
  <2>1. \A m \in Proc, l \in Fd : At(fds[m], l) \notin {Reader(k), Writer(k)}
    BY FileAtIs DEF IInv, NewPipesUnused
  <2>2. file \notin {Reader(k), Writer(k)}
    BY <2>1, FilesDiffer DEF Known
  <2> QED BY <1>3, <2>1, <2>2 DEF Changed
<1>12. LaterUnborn'
  BY DEF IInv, LaterUnborn
<1>13. WriterRefsExact'
  BY <1>7 DEF WriterRefsExact, Pipe
<1>14. NoneOpened
  <2>1. \A k \in ks : refs[k] > 0
    BY DEF ks
  <2> QED BY <1>9, <2>1 DEF NoneOpened
<1> QED BY <1>8, <1>10, <1>11, <1>12, <1>13, <1>14, SleepersWillBe DEF IInv

LEMMA CloseKeeps ==
  ASSUME IInv, NEW p \in Proc, Runs(p), NEW i \in Fd, Close(p, i)
  PROVE  IInv' /\ NoneOpened
<1>1. fds[p] \in Table /\ i \in DOMAIN fds[p] /\ fds[p][i] = At(fds[p], i)
  BY Tables, TableLemma, FileAtIs DEF IInv, Close, At
<1> PICK files : files = [fds[p] EXCEPT ![i] = Closed]
  OBVIOUS
<1>2. files \in Table /\ \A j : At(files, j) = IF j = i THEN Closed ELSE At(fds[p], j)
  BY <1>1, ClosedTable
<1>3. Duplicated(Closed, At(fds[p], i))
  <2>1. \A k \in Pipe : Closed # Writer(k) /\ refs[k] \in Nat
    BY FilesDiffer, Numbers DEF IInv, TypeOK
  <2>2. WritersClosed(CloseOf(fds[p][i]))
    BY DEF Close
  <2>3. {k \in Pipe : CloseOf(fds[p][i])[k] > 0 /\ refs[k] = CloseOf(fds[p][i])[k]}
          = {k \in Pipe : fds[p][i] = Writer(k) /\ refs[k] = 1}
    BY DEF CloseOf
  <2>4. [k \in Pipe |-> refs[k] - CloseOf(fds[p][i])[k]] =
          [k \in Pipe |-> refs[k] + (IF Closed = Writer(k) THEN 1 ELSE 0)
                                  - (IF fds[p][i] = Writer(k) THEN 1 ELSE 0)]
    BY <2>1 DEF CloseOf
  <2> QED BY <1>1, <2>2, <2>3, <2>4 DEF WritersClosed, Duplicated
<1>4. fds' = [fds EXCEPT ![p] = files]
  BY DEF Close, IInv, TypeOK
<1>5. UNCHANGED <<data, npipes, sent, nprocs, life, restart, last, thrown>>
  BY DEF Close
<1>6. Changed(fds[p], files, i, Closed) /\ Known(fds[p], Closed) /\ files \in Table
  BY <1>2 DEF Changed, Known
<1> QED BY <1>3, <1>4, <1>5, <1>6, SlotKeeps

LEMMA DupKeeps ==
  ASSUME IInv, NEW p \in Proc, Runs(p), NEW i \in Fd, Dup(p, i)
  PROVE  IInv' /\ NoneOpened
<1>1. fds[p] \in Table /\ i \in DOMAIN fds[p] /\ fds[p][i] = At(fds[p], i) /\ fds[p][i] \in File
  BY Tables, TableLemma, FileAtIs DEF IInv, Dup, At
<1> PICK files, file, j : files = Append(fds[p], file) /\ file = fds[p][i] /\ j = Len(fds[p]) + 1
  OBVIOUS
<1>2. files \in Table /\ j \in Fd /\ \A l : At(files, l) = IF l = j THEN file ELSE At(fds[p], l)
  BY <1>1, AppendedTable DEF Dup
<1>3. At(fds[p], j) = Closed
  BY <1>1, TableLemma DEF At
<1>4. Duplicated(file, At(fds[p], j))
  BY <1>3 DEF Dup, Duplicated
<1>5. /\ fds' = [fds EXCEPT ![p] = files]
      /\ UNCHANGED <<data, npipes, sent, nprocs, life, restart, last, thrown>>
  BY DEF Dup, IInv, TypeOK
<1>6. Changed(fds[p], files, j, file) /\ Known(fds[p], file) /\ files \in Table /\ j \in Fd
  BY <1>1, <1>2 DEF Changed, Known
<1> QED BY <1>4, <1>5, <1>6, SlotKeeps

LEMMA Dup2Keeps ==
  ASSUME IInv, NEW p \in Proc, Runs(p), NEW i \in Fd, NEW j \in Fd, Dup2(p, i, j)
  PROVE  IInv' /\ NoneOpened
<1>1. fds[p] \in Table /\ fds[p][i] = At(fds[p], i) /\ fds[p][i] \in File /\ FileAt(p, j) = At(fds[p], j)
  BY Tables, TableLemma, FileAtIs DEF IInv, Dup2, At
<1> PICK files, file : files = Stored(fds[p], j, file) /\ file = fds[p][i]
  OBVIOUS
<1>2. files \in Table /\ \A l \in Fd : At(files, l) = IF l = j THEN file ELSE At(fds[p], l)
  BY <1>1, StoredTable
<1>3. Duplicated(file, At(fds[p], j))
  BY <1>1 DEF Dup2, Duplicated
<1>4. /\ fds' = [fds EXCEPT ![p] = files]
      /\ UNCHANGED <<data, npipes, sent, nprocs, life, restart, last, thrown>>
  BY DEF Dup2, IInv, TypeOK
<1>5. Changed(fds[p], files, j, file) /\ Known(fds[p], file) /\ files \in Table
  BY <1>1, <1>2 DEF Changed, Known
<1> QED BY <1>3, <1>4, <1>5, SlotKeeps

LEMMA DupFromKeeps ==
  ASSUME IInv, NEW p \in Proc, Runs(p), NEW i \in Fd, NEW low \in Fd, DupFrom(p, i, low)
  PROVE  IInv' /\ NoneOpened
<1>1. fds[p] \in Table /\ fds[p][i] = At(fds[p], i) /\ fds[p][i] \in File
  BY Tables, TableLemma, FileAtIs DEF IInv, DupFrom, At
<1>2. PICK j \in low..MaxFds : FileAt(p, j) = Closed /\ fds' = [fds EXCEPT ![p] = Stored(@, j, fds[p][i])]
  BY DEF DupFrom
<1>3. j \in Fd /\ At(fds[p], j) = Closed
  BY <1>2, Numbers, FileAtIs DEF Fd
<1> PICK files, file : files = Stored(fds[p], j, file) /\ file = fds[p][i]
  OBVIOUS
<1>4. files \in Table /\ \A l \in Fd : At(files, l) = IF l = j THEN file ELSE At(fds[p], l)
  BY <1>1, <1>3, StoredTable
<1>5. Duplicated(file, At(fds[p], j))
  BY <1>3 DEF DupFrom, Duplicated
<1>6. /\ fds' = [fds EXCEPT ![p] = files]
      /\ UNCHANGED <<data, npipes, sent, nprocs, life, restart, last, thrown>>
  BY <1>2 DEF DupFrom, IInv, TypeOK
<1>7. Changed(fds[p], files, j, file) /\ Known(fds[p], file) /\ files \in Table
  BY <1>1, <1>4 DEF Changed, Known
<1> QED BY <1>3, <1>5, <1>6, <1>7, SlotKeeps

-----------------------------------------------------------------------------
(* pipe, clone and the release of a process.                               *)

(* The two descriptors of a new pipe are appended one after the other.     *)
LEMMA PairIsAppended ==
  ASSUME NEW files \in Table, NEW a \in File, NEW b \in File
  PROVE  files \o <<a, b>> = Append(Append(files, a), b)
<1>1. files \in Seq(File) /\ <<a>> \in Seq(File) /\ <<b>> \in Seq(File)
  BY DEF Table
<1>2. Append(files, a) \in Seq(File) /\ Append(files, a) = files \o <<a>>
  BY <1>1, AppendProperties, AppendIsConcat
<1>3. Append(Append(files, a), b) = (files \o <<a>>) \o <<b>>
  BY <1>2, AppendIsConcat
<1>4. (files \o <<a>>) \o <<b>> = files \o (<<a>> \o <<b>>)
  BY <1>1, ConcatAssociative
<1>5. <<a>> \o <<b>> = <<a, b>>
  <2>1. /\ <<a>> \o <<b>> \in Seq(File) /\ Len(<<a>> \o <<b>>) = 2
        /\ (<<a>> \o <<b>>)[1] = a /\ (<<a>> \o <<b>>)[2] = b
    BY <1>1, ConcatProperties
  <2>2. <<a, b>> \in Seq(File) /\ Len(<<a, b>>) = 2 /\ <<a, b>>[1] = a /\ <<a, b>>[2] = b
    OBVIOUS
  <2>3. \A i \in 1..2 : (<<a>> \o <<b>>)[i] = <<a, b>>[i]
    BY <2>1, <2>2
  <2> QED BY <2>1, <2>2, <2>3, SeqEqual
<1> QED BY <1>3, <1>4, <1>5

LEMMA CreatePipeKeeps ==
  ASSUME IInv, NEW p \in Proc, Runs(p), CreatePipe(p)
  PROVE  IInv'
<1>1. PICK k : k = npipes + 1
  OBVIOUS
<1>2. /\ k \in Pipe /\ Len(fds[p]) + 2 <= MaxFds /\ npipes' = k
      /\ refs' = [refs EXCEPT ![k] = 1]
      /\ fds' = [fds EXCEPT ![p] = @ \o <<Writer(k), Reader(k)>>]
      /\ UNCHANGED <<data, callbacks, sent, nprocs, life, running, restart, last, thrown>>
  BY <1>1 DEF CreatePipe, procVars
<1>3. /\ TypeOK /\ Holding(p) /\ running[p] /\ WriterRefsExact /\ \A q \in Proc : fds[q] \in Table
      /\ npipes \in Nat
  <2>1. TypeOK /\ Holding(p) /\ running[p] /\ WriterRefsExact /\ \A q \in Proc : fds[q] \in Table
    BY Tables DEF IInv, Runs
  <2>2. npipes \in Nat
    BY <2>1 DEF TypeOK
  <2> QED BY <2>1, <2>2
<1>4. PICK mid, new : mid = Append(fds[p], Writer(k)) /\ new = Append(mid, Reader(k))
  OBVIOUS
<1>5. PICK j, i : j = Len(fds[p]) + 1 /\ i = j + 1
  OBVIOUS
<1>6. /\ mid \in Table /\ new \in Table /\ j \in Fd /\ i \in Fd
      /\ Changed(fds[p], mid, j, Writer(k)) /\ Changed(mid, new, i, Reader(k))
      /\ At(fds[p], j) = Closed /\ At(mid, i) = Closed
  <2>1. fds[p] \in Table /\ Len(fds[p]) \in Nat /\ Writer(k) \in File /\ Reader(k) \in File
    BY <1>2, <1>3, TableLemma, FilesDiffer
  <2>2. Len(fds[p]) < MaxFds
    BY <1>2, <2>1, Numbers
  <2>3. /\ mid \in Table /\ j \in Fd
        /\ \A l : At(mid, l) = IF l = j THEN Writer(k) ELSE At(fds[p], l)
    BY <1>4, <1>5, <2>1, <2>2, AppendedTable
  <2>4. Len(mid) = j /\ i = Len(mid) + 1
    BY <1>4, <1>5, <2>1, AppendProperties DEF Table
  <2>5. Len(mid) < MaxFds
    BY <1>2, <1>5, <2>1, <2>4, Numbers
  <2>6. /\ new \in Table /\ i \in Fd
        /\ \A l : At(new, l) = IF l = i THEN Reader(k) ELSE At(mid, l)
    <3>1. /\ Append(mid, Reader(k)) \in Table /\ Len(mid) + 1 \in Fd
          /\ \A l : At(Append(mid, Reader(k)), l) = IF l = Len(mid) + 1 THEN Reader(k) ELSE At(mid, l)
      BY <2>1, <2>3, <2>5, AppendedTable
    <3> QED BY <1>4, <2>4, <3>1
  <2>7. At(fds[p], j) = Closed /\ At(mid, i) = Closed
    <3>1. DOMAIN fds[p] = 1..Len(fds[p]) /\ DOMAIN mid = 1..Len(mid)
      BY <2>1, <2>3, TableLemma
    <3> QED BY <1>5, <2>1, <2>4, <3>1 DEF At
  <2> QED BY <2>3, <2>6, <2>7 DEF Changed
<1>7. \A q \in Proc : fds'[q] = IF q = p THEN new ELSE fds[q]
  BY <1>2, <1>3, <1>4, FilesDiffer, PairIsAppended DEF TypeOK
<1>8. HoldingProcs' = HoldingProcs /\ p \in HoldingProcs
  BY <1>2, <1>3 DEF HoldingProcs, Holding, Proc
<1>9. \A q \in Proc : \A l : FileAt(q, l) \notin {Reader(k), Writer(k)}
  <2> SUFFICES ASSUME NEW q \in Proc, NEW l, l \notin Fd
               PROVE  FileAt(q, l) = Closed
    BY <1>1, <1>2, <1>3, FilesDiffer DEF IInv, NewPipesUnused
  <2> QED BY <1>3, TableLemma, FileAtIs
<1>10. \A l \in Pipe : refs'[l] = Cardinality(Holders(l)')
  <2> SUFFICES ASSUME NEW l \in Pipe
               PROVE  refs'[l] = Cardinality(Holders(l)')
    OBVIOUS
  <2>11. PICK g : g = [fds EXCEPT ![p] = mid]
    OBVIOUS
  <2>1. SlotSet(fds, g, p, j, Writer(k))
    BY <1>3, <1>6, <2>11 DEF SlotSet, Changed, TypeOK
  <2>2. SlotSet(g, fds', p, i, Reader(k))
    BY <1>3, <1>6, <1>7, <2>11 DEF SlotSet, Changed, TypeOK
  <2>10. g[p] = mid
    BY <1>3, <2>11 DEF TypeOK
  <2>3. Cardinality(HoldersIn(g, HoldingProcs, l)) =
          Cardinality(HoldersIn(fds, HoldingProcs, l)) + (IF Writer(k) = Writer(l) THEN 1 ELSE 0)
                                                   - (IF At(fds[p], j) = Writer(l) THEN 1 ELSE 0)
    BY <1>6, <1>8, <2>1, SlotReplaced
  <2>4. Cardinality(HoldersIn(fds', HoldingProcs, l)) =
          Cardinality(HoldersIn(g, HoldingProcs, l)) + (IF Reader(k) = Writer(l) THEN 1 ELSE 0)
                                                 - (IF At(g[p], i) = Writer(l) THEN 1 ELSE 0)
    <3>1. i \in Fd /\ p \in HoldingProcs
      BY <1>6, <1>8
    <3> QED BY <2>2, <3>1, SlotReplaced
  <2>5. Holders(l)' = HoldersIn(fds', HoldingProcs, l) /\ Holders(l) = HoldersIn(fds, HoldingProcs, l)
    BY <1>8, HoldersAre, HoldersWillBe
  <2>6. refs[l] = Cardinality(HoldersIn(fds, HoldingProcs, l)) /\ refs[l] \in Nat
    BY <1>3, <2>5, Numbers DEF WriterRefsExact, TypeOK
  <2>7. Cardinality(HoldersIn(fds', HoldingProcs, l)) = IF l = k THEN refs[l] + 1 ELSE refs[l]
    BY <1>6, <2>3, <2>4, <2>6, <2>10, FilesDiffer
  <2>8. l = k => refs[l] = 0
    <3>1. l = k => Holders(l) = {}
      BY <1>9 DEF Holders
    <3> QED BY <2>5, <2>6, <3>1, FS_EmptySet
  <2>9. refs'[l] = IF l = k THEN 1 ELSE refs[l]
    BY <1>2, <1>3 DEF TypeOK
  <2> QED BY <2>5, <2>7, <2>8, <2>9
<1>11. TypeOK'
  <2>1. \A l \in Pipe : Cardinality(Holders(l)') \in 0..(MaxProc * MaxFds)
    BY HoldersWillBe, HoldersFinite
  <2>2. refs' \in [Pipe -> 0..(MaxProc * MaxFds)]
    <3>1. refs' = [l \in Pipe |-> refs'[l]]
      BY <1>2, <1>3 DEF TypeOK
    <3> QED BY <1>10, <2>1, <3>1
  <2>3. fds' \in [Proc -> Seq(File)] /\ \A q \in Proc : Len(fds'[q]) <= MaxFds
    BY <1>2, <1>3, <1>6, <1>7 DEF TypeOK, Table
  <2>4. npipes' \in 0..MaxPipe
    BY <1>2, Numbers DEF Pipe
  <2> QED BY <1>2, <1>3, <2>2, <2>3, <2>4 DEF TypeOK
<1>12. ASSUME NEW r \in Proc, Asleep(r)'
       PROVE  WillBeCalled(r)'
  <2>1. r # p /\ WillBeCalled(r)
    BY <1>2, <1>3, <1>12, SleepersAre DEF IInv, Asleep
  <2>2. \A l \in Asked(r) : l # k /\ refs'[l] = refs[l]
    BY <1>2, <1>3, <1>9 DEF Asked, TypeOK
  <2> QED BY <1>2, <1>7, <2>1, <2>2, StillCalled
<1>13. NewPipesUnused'
  <2> SUFFICES ASSUME NEW q \in Proc, NEW n \in Fd, NEW l \in Pipe, l > k
               PROVE  At(fds'[q], n) \notin {Reader(l), Writer(l)}
    BY <1>2 DEF NewPipesUnused, FileAt, At, Slots, Fd, Pipe, Proc, Reader, Writer, Closed
  <2>1. l > npipes /\ l # k
    BY <1>1, <1>3 DEF Pipe
  <2>2. \A m \in Proc, o \in Fd : At(fds[m], o) \notin {Reader(l), Writer(l)}
    BY <2>1, FileAtIs DEF IInv, NewPipesUnused
  <2>3. Reader(k) \notin {Reader(l), Writer(l)} /\ Writer(k) \notin {Reader(l), Writer(l)}
    BY <2>1, FilesDiffer
  <2> QED BY <1>6, <1>7, <2>2, <2>3 DEF Changed
<1>14. LaterUnborn'
  BY <1>2 DEF IInv, LaterUnborn
<1>15. WriterRefsExact'
  BY <1>10 DEF WriterRefsExact, Pipe
<1> QED BY <1>11, <1>12, <1>13, <1>14, <1>15, SleepersWillBe DEF IInv

LEMMA CloneKeeps ==
  ASSUME IInv, NEW p \in Proc, Runs(p), Clone(p)
  PROVE  IInv' /\ NoneOpened
<1>1. PICK q : q = nprocs + 1
  OBVIOUS
<1>2. /\ q \in Proc /\ nprocs' = q
      /\ life' = [life EXCEPT ![q] = "alive"]
      /\ running' = [running EXCEPT ![q] = TRUE]
      /\ fds' = [fds EXCEPT ![q] = fds[p]]
      /\ refs' = [k \in Pipe |-> refs[k] + Ends(p, Writer(k))]
      /\ UNCHANGED <<data, callbacks, npipes, sent, restart, last, thrown>>
  BY <1>1 DEF Clone, Cloned
<1>3. TypeOK /\ Holding(p) /\ WriterRefsExact /\ \A r \in Proc : fds[r] \in Table
  BY Tables DEF IInv, Runs
<1>4. nprocs \in Nat /\ life[q] = "unborn"
  <2>1. nprocs \in Nat
    BY <1>3 DEF TypeOK, Proc
  <2>2. q > nprocs
    BY <1>1, <2>1
  <2> QED BY <1>2, <2>1, <2>2 DEF IInv, LaterUnborn
<1>5. q \notin HoldingProcs /\ p \in HoldingProcs /\ p # q
  BY <1>3, <1>4 DEF HoldingProcs, Holding
<1>6. HoldingProcs' = HoldingProcs \cup {q}
  BY <1>2, <1>3 DEF HoldingProcs, Holding, Proc, TypeOK
<1>7. \A r \in Proc : fds'[r] = IF r = q THEN fds[p] ELSE fds[r]
  BY <1>2, <1>3 DEF TypeOK
<1>8. \A k \in Pipe : refs[k] \in Nat /\ refs[k] = Cardinality(HoldersIn(fds, HoldingProcs, k))
  BY <1>3, Numbers, HoldersAre DEF TypeOK, WriterRefsExact
<1>9. \A k : Ends(p, Writer(k)) = Cardinality(EndsIn(fds[p], k))
  BY <1>3, EndsAre
<1>10. \A k \in Pipe : refs'[k] = Cardinality(Holders(k)') /\ Ends(p, Writer(k)) \in Nat
  <2> SUFFICES ASSUME NEW k \in Pipe
               PROVE  refs'[k] = Cardinality(Holders(k)') /\ Ends(p, Writer(k)) \in Nat
    OBVIOUS
  <2>1. /\ Cardinality(HoldersIn(fds', HoldingProcs \cup {q}, k)) =
             Cardinality(HoldersIn(fds', HoldingProcs, k)) + Cardinality(EndsIn(fds'[q], k))
        /\ Cardinality(EndsIn(fds'[q], k)) \in Nat
    <3>1. q \in Proc /\ q \notin HoldingProcs
      BY <1>2, <1>5
    <3> QED BY <3>1, OneMore
  <2>2. HoldersIn(fds', HoldingProcs, k) = HoldersIn(fds, HoldingProcs, k)
    BY <1>5, <1>7 DEF HoldersIn
  <2>3. fds'[q] = fds[p]
    BY <1>2, <1>7
  <2>4. Holders(k)' = HoldersIn(fds', HoldingProcs \cup {q}, k)
    BY <1>6, HoldersWillBe
  <2>5. refs'[k] = refs[k] + Ends(p, Writer(k))
    BY <1>2
  <2> QED BY <1>8, <1>9, <2>1, <2>2, <2>3, <2>4, <2>5
<1>11. TypeOK'
  <2>1. \A l \in Pipe : Cardinality(Holders(l)') \in 0..(MaxProc * MaxFds)
    BY HoldersWillBe, HoldersFinite
  <2>2. refs' \in [Pipe -> 0..(MaxProc * MaxFds)]
    <3>1. refs' = [l \in Pipe |-> refs'[l]]
      BY <1>2
    <3> QED BY <1>10, <2>1, <3>1
  <2>3. fds' \in [Proc -> Seq(File)] /\ \A r \in Proc : Len(fds'[r]) <= MaxFds
    BY <1>2, <1>3, <1>7 DEF TypeOK, Table
  <2> QED BY <1>2, <1>3, <2>2, <2>3 DEF TypeOK
<1>12. \A k \in Pipe : refs'[k] > 0 <=> refs[k] > 0
  <2> SUFFICES ASSUME NEW k \in Pipe
               PROVE  refs'[k] > 0 <=> refs[k] > 0
    OBVIOUS
  <2>1. Ends(p, Writer(k)) > 0 => refs[k] > 0
    <3> SUFFICES ASSUME Ends(p, Writer(k)) > 0
                 PROVE  refs[k] > 0
      OBVIOUS
    <3>1. EndsIn(fds[p], k) # {}
      BY <1>9, FS_EmptySet
    <3>2. PICK i \in Fd : At(fds[p], i) = Writer(k)
      BY <3>1 DEF EndsIn
    <3> QED BY <1>3, <3>2, HeldIsCounted
  <2>2. refs'[k] = refs[k] + Ends(p, Writer(k))
    BY <1>2
  <2> QED BY <1>8, <1>10, <2>1, <2>2
<1>13. ASSUME NEW r \in Proc, Asleep(r)'
       PROVE  WillBeCalled(r)'
  <2>1. r # q /\ Asleep(r)
    BY <1>2, <1>3, <1>13 DEF Asleep, TypeOK
  <2>2. WillBeCalled(r)
    BY <2>1, SleepersAre DEF IInv
  <2>3. \A l \in Asked(r) : l \in Pipe
    BY DEF Asked
  <2> QED BY <1>2, <1>7, <1>12, <2>1, <2>2, <2>3, StillCalled
<1>14. NewPipesUnused'
  <2> SUFFICES ASSUME NEW r \in Proc, NEW i \in Fd, NEW l \in Pipe, l > npipes
               PROVE  At(fds'[r], i) \notin {Reader(l), Writer(l)}
    BY <1>2 DEF NewPipesUnused, FileAt, At, Slots, Fd, Pipe, Proc, Reader, Writer, Closed
  <2>1. \A m \in Proc, o \in Fd : At(fds[m], o) \notin {Reader(l), Writer(l)}
    BY FileAtIs DEF IInv, NewPipesUnused
  <2> QED BY <1>7, <2>1
<1>15. LaterUnborn'
  <2> SUFFICES ASSUME NEW r \in Proc, r > q
               PROVE  life'[r] = "unborn"
    BY <1>2 DEF LaterUnborn, Proc
  <2>1. r > nprocs /\ r # q
    BY <1>1, <1>4 DEF Proc
  <2> QED BY <1>2, <1>3, <2>1 DEF IInv, LaterUnborn, TypeOK
<1>16. WriterRefsExact'
  BY <1>10 DEF WriterRefsExact, Pipe
<1>17. NoneOpened
  BY <1>12 DEF NoneOpened
<1> QED BY <1>11, <1>13, <1>14, <1>15, <1>16, <1>17, SleepersWillBe DEF IInv

(* closeFds gives back every descriptor at once.                           *)
LEMMA ReleaseKeeps ==
  ASSUME IInv, NEW p \in Proc, Release(p)
  PROVE  IInv' /\ NoneOpened
<1> DEFINE ks == {k \in Pipe : Ends(p, Writer(k)) > 0 /\ refs[k] = Ends(p, Writer(k))}
<1>1. /\ life[p] = "exited" /\ life' = [life EXCEPT ![p] = "gone"]
      /\ refs' = [k \in Pipe |-> refs[k] - Ends(p, Writer(k))]
      /\ Called(ks)
      /\ fds' = [fds EXCEPT ![p] = <<>>]
      /\ restart' = [restart EXCEPT ![p] = None]
      /\ UNCHANGED <<data, npipes, sent, nprocs, last, thrown>>
  <2> DEFINE n == [k \in Pipe |-> Ends(p, Writer(k))]
  <2>1. WritersClosed(n)
    BY DEF Release
  <2>2. {k \in Pipe : n[k] > 0 /\ refs[k] = n[k]} = ks
    OBVIOUS
  <2>3. [k \in Pipe |-> refs[k] - n[k]] = [k \in Pipe |-> refs[k] - Ends(p, Writer(k))]
    OBVIOUS
  <2>4. refs' = [k \in Pipe |-> refs[k] - Ends(p, Writer(k))] /\ Called(ks)
    BY <2>1, <2>2, <2>3 DEF WritersClosed
  <2> QED BY <2>4 DEF Release
<1>2. /\ TypeOK /\ Holding(p) /\ WriterRefsExact /\ \A r \in Proc : fds[r] \in Table
      /\ ks \in SUBSET Pipe
  BY <1>1, Tables DEF IInv, Holding
<1> HIDE DEF ks
<1> DEFINE L == HoldingProcs \ {p}
<1>3. HoldingProcs = L \cup {p} /\ p \notin L
  BY <1>2 DEF HoldingProcs
<1>4. HoldingProcs' = L
  BY <1>1, <1>2 DEF HoldingProcs, Holding, Proc, TypeOK
<1> HIDE DEF L
<1>5. \A r \in Proc : fds'[r] = IF r = p THEN <<>> ELSE fds[r]
  BY <1>1, <1>2 DEF TypeOK
<1>6. \A k : Ends(p, Writer(k)) = Cardinality(EndsIn(fds[p], k))
  BY <1>2, EndsAre
<1>7. \A k \in Pipe : /\ refs'[k] = Cardinality(Holders(k)')
                      /\ refs'[k] = refs[k] - Ends(p, Writer(k))
                      /\ Ends(p, Writer(k)) \in Nat /\ refs[k] \in Nat /\ refs'[k] \in Nat
  <2> SUFFICES ASSUME NEW k \in Pipe
               PROVE  /\ refs'[k] = Cardinality(Holders(k)')
                      /\ refs'[k] = refs[k] - Ends(p, Writer(k))
                      /\ Ends(p, Writer(k)) \in Nat /\ refs[k] \in Nat /\ refs'[k] \in Nat
    OBVIOUS
  <2>1. /\ Cardinality(HoldersIn(fds, L \cup {p}, k)) =
             Cardinality(HoldersIn(fds, L, k)) + Cardinality(EndsIn(fds[p], k))
        /\ Cardinality(EndsIn(fds[p], k)) \in Nat
    BY <1>3, OneMore
  <2>2. HoldersIn(fds', L, k) = HoldersIn(fds, L, k)
    BY <1>3, <1>5 DEF HoldersIn
  <2>3. Holders(k)' = HoldersIn(fds', L, k) /\ Holders(k) = HoldersIn(fds, L \cup {p}, k)
    BY <1>3, <1>4, HoldersAre, HoldersWillBe
  <2>4. refs[k] = Cardinality(HoldersIn(fds, L \cup {p}, k)) /\ refs[k] \in Nat
    BY <1>2, <2>3, Numbers DEF WriterRefsExact, TypeOK
  <2>5. refs'[k] = refs[k] - Ends(p, Writer(k))
    BY <1>1
  <2>6. Cardinality(HoldersIn(fds, L, k)) \in Nat
    BY HoldersFinite, FS_CardinalityType
  <2> QED BY <1>6, <2>1, <2>2, <2>3, <2>4, <2>5, <2>6
<1>8. TypeOK'
  <2>1. \A k \in Pipe : Cardinality(Holders(k)') \in 0..(MaxProc * MaxFds)
    BY HoldersWillBe, HoldersFinite
  <2>2. refs' \in [Pipe -> 0..(MaxProc * MaxFds)]
    <3>1. refs' = [l \in Pipe |-> refs'[l]]
      BY <1>1
    <3> QED BY <1>7, <2>1, <3>1
  <2>3. fds' \in [Proc -> Seq(File)] /\ \A r \in Proc : Len(fds'[r]) <= MaxFds
    BY <1>1, <1>2, <1>5, EmptyTable DEF TypeOK, Table
  <2>4. running' \in [Proc -> BOOLEAN] /\ callbacks' \in [Pipe -> SUBSET Proc]
    BY <1>1, <1>2, CalledTypes
  <2> QED BY <1>1, <1>2, <2>2, <2>3, <2>4 DEF TypeOK
<1>9. \A k \in Pipe \ ks : refs'[k] > 0 <=> refs[k] > 0
  BY <1>7 DEF ks
<1>10. ASSUME NEW r \in Proc, Asleep(r)'
       PROVE  WillBeCalled(r)'
  <2>1. r # p
    BY <1>1, <1>2, <1>10 DEF Asleep, TypeOK
  <2>2. ~running'[r] /\ WillBeCalled(r)
    BY <1>1, <1>2, <1>10, <2>1, CalledTypes, SleepersAre DEF IInv, Asleep, TypeOK
  <2>3. \A l \in Asked(r) : refs[l] > 0 => l \notin ks /\ callbacks'[l] = callbacks[l]
    BY <1>1, <1>2, <2>2, OnlyOthersCalled
  <2>4. \A l \in Asked(r) : l \in Pipe /\ (l \in ks => refs[l] > 0)
    BY DEF ks, Asked
  <2>5. restart'[r] = restart[r] /\ fds'[r] = fds[r]
    BY <1>1, <1>2, <1>5, <2>1 DEF TypeOK
  <2> QED BY <1>1, <1>9, <2>2, <2>3, <2>4, <2>5, StillCalled
<1>11. NewPipesUnused'
  <2> SUFFICES ASSUME NEW r \in Proc, NEW i \in Fd, NEW l \in Pipe, l > npipes
               PROVE  At(fds'[r], i) \notin {Reader(l), Writer(l)}
    BY <1>1 DEF NewPipesUnused, FileAt, At, Slots, Fd, Pipe, Proc, Reader, Writer, Closed
  <2>1. \A m \in Proc, o \in Fd : At(fds[m], o) \notin {Reader(l), Writer(l)}
    BY FileAtIs DEF IInv, NewPipesUnused
  <2>2. At(<<>>, i) \notin {Reader(l), Writer(l)}
    BY EmptyTable, FilesDiffer
  <2> QED BY <1>5, <2>1, <2>2
<1>12. LaterUnborn'
  BY <1>1, <1>2 DEF IInv, LaterUnborn, TypeOK
<1>13. WriterRefsExact'
  BY <1>7 DEF WriterRefsExact, Pipe
<1>14. NoneOpened
  BY <1>7 DEF NoneOpened
<1> QED BY <1>8, <1>10, <1>11, <1>12, <1>13, <1>14, SleepersWillBe DEF IInv

-----------------------------------------------------------------------------
LEMMA InitHolds == Init => IInv
<1> SUFFICES ASSUME Init PROVE IInv
  OBVIOUS
<1> DEFINE first == [i \in 1..Terminals |-> Terminal]
<1>1. \A p \in Proc : fds[p] = IF p = 1 THEN first ELSE <<>>
  BY DEF Init
<1>2. first \in Table /\ \A i : At(first, i) \in {Closed, Terminal}
  <2>1. Terminals \in Nat /\ Terminals <= MaxFds
    BY Numbers
  <2>2. first \in [1..Terminals -> File] /\ DOMAIN first = 1..Terminals
    BY FilesDiffer
  <2>3. first \in Seq(File) /\ Len(first) = Terminals
    BY <2>1, <2>2, SequenceOf
  <2>4. first \in Table
    BY <2>1, <2>3 DEF Table
  <2> QED BY <2>4 DEF At
<1> HIDE DEF first
<1>3. \A p \in Proc : \A i : At(fds[p], i) \in {Closed, Terminal}
  BY <1>1, <1>2, EmptyTable
<1>4. TypeOK
  <2>1. fds \in [Proc -> Seq(File)] /\ \A p \in Proc : Len(fds[p]) <= MaxFds
    BY <1>1, <1>2, EmptyTable DEF Init, Table
  <2>2. MaxProc * MaxFds \in Nat /\ 1 \in Proc /\ 0 \in 0..MaxPipe /\ 0 \in 0..MaxSent
    BY Numbers DEF Proc
  <2>3. <<>> \in Seq(1..MaxSent)
    BY EmptySeq
  <2>4. data \in [Pipe -> Seq(1..MaxSent)]
    BY <2>3 DEF Init
  <2>5. refs \in [Pipe -> 0..(MaxProc * MaxFds)] /\ sent \in [Pipe -> 0..MaxSent]
    BY <2>2 DEF Init
  <2>6. restart \in [Proc -> {None} \cup ({"read"} \X Fd \X ReadSizes) \cup ({"poll"} \X PollSets \X {TRUE})]
    BY DEF Init
  <2>7. /\ callbacks \in [Pipe -> SUBSET Proc]
        /\ life \in [Proc -> {"unborn", "alive", "exited", "gone"}]
        /\ running \in [Proc -> BOOLEAN] /\ thrown \in BOOLEAN
    BY DEF Init
  <2>8. npipes \in 0..MaxPipe /\ nprocs \in Proc
    BY <2>2 DEF Init
  <2> QED BY <2>1, <2>4, <2>5, <2>6, <2>7, <2>8 DEF TypeOK
<1>5. WriterRefsExact
  <2>1. \A k : Holders(k) = {}
    BY <1>3, FileAtIs, FilesDiffer DEF Holders
  <2> QED BY <2>1, FS_EmptySet DEF Init, WriterRefsExact
<1>6. SleepersAreCalled
  BY SleepersAre DEF Init, Asleep
<1>7. NewPipesUnused
  BY <1>3, FileAtIs, FilesDiffer DEF NewPipesUnused
<1>8. LaterUnborn
  BY DEF Init, LaterUnborn, Proc
<1> QED BY <1>4, <1>5, <1>6, <1>7, <1>8 DEF IInv

(* One case per call, and one per thing that happens to a process.         *)
LEMMA NextKeeps == IInv /\ [Next]_vars => IInv'
<1> SUFFICES ASSUME IInv, [Next]_vars PROVE IInv'
  OBVIOUS
<1>1. ASSUME NEW p \in Proc, Step(p) PROVE IInv'
  <2>1. Runs(p) /\ Call(p)
    BY <1>1 DEF Step
  <2>2. ASSUME NEW i \in Fd, NEW n \in ReadSizes, Read(p, i, n) PROVE IInv'
    BY <2>1, <2>2, ReadKeeps
  <2>3. ASSUME NEW is \in PollSets, NEW timeout \in BOOLEAN, Poll(p, is, timeout) PROVE IInv'
    BY <2>1, <2>3, PollKeeps
  <2>4. ASSUME NEW i \in Fd, NEW n \in 1..MaxSent, Write(p, i, n) PROVE IInv'
    BY <2>1, <2>4, WriteKeeps
  <2>5. ASSUME NEW i \in Fd, WrongEnd(p, i) PROVE IInv'
    BY <2>5, WrongEndKeeps
  <2>6. ASSUME NEW i \in Fd, Close(p, i) PROVE IInv'
    BY <2>1, <2>6, CloseKeeps
  <2>7. ASSUME NEW i \in Fd, Dup(p, i) PROVE IInv'
    BY <2>1, <2>7, DupKeeps
  <2>8. ASSUME NEW i \in Fd, NEW j \in Fd, Dup2(p, i, j) PROVE IInv'
    BY <2>1, <2>8, Dup2Keeps
  <2>9. ASSUME NEW i \in Fd, NEW j \in Fd, DupFrom(p, i, j) PROVE IInv'
    BY <2>1, <2>9, DupFromKeeps
  <2>10. CASE CreatePipe(p)
    BY <2>1, <2>10, CreatePipeKeeps
  <2>11. CASE Clone(p)
    BY <2>1, <2>11, CloneKeeps
  <2>12. CASE Exit(p)
    BY <2>1, <2>12, ExitKeeps DEF Runs
  <2> QED BY <2>1, <2>2, <2>3, <2>4, <2>5, <2>6, <2>7, <2>8, <2>9, <2>10, <2>11, <2>12 DEF Call
<1>2. ASSUME NEW p \in Proc, Resume(p) PROVE IInv'
  <2>1. Runs(p) /\ Restart(p)
    BY <1>2 DEF Resume
  <2>2. ASSUME NEW i \in Fd, NEW n \in ReadSizes, Read(p, i, n) PROVE IInv'
    BY <2>1, <2>2, ReadKeeps
  <2>3. ASSUME NEW is \in PollSets, Poll(p, is, TRUE) PROVE IInv'
    BY <2>1, <2>3, PollKeeps
  <2> QED BY <2>1, <2>2, <2>3 DEF Restart
<1>3. ASSUME NEW p \in Proc, Kill(p) PROVE IInv'
  BY <1>3, ExitKeeps DEF Kill, Holding
<1>4. ASSUME NEW p \in Proc, Wake(p) PROVE IInv'
  BY <1>4, WakeKeeps
<1>5. ASSUME NEW p \in Proc, Release(p) PROVE IInv'
  BY <1>5, ReleaseKeeps
<1>6. CASE UNCHANGED vars
  <2>1. UNCHANGED <<fds, refs, data, callbacks, npipes, sent, nprocs, life, running, restart, last, thrown>>
    BY <1>6 DEF vars, pipeVars, procVars
  <2>2. TypeOK'
    BY <2>1 DEF IInv, TypeOK
  <2>3. WriterRefsExact' /\ NewPipesUnused' /\ LaterUnborn'
    BY <2>1, TablesKept DEF Holding
  <2>4. ASSUME NEW r \in Proc, Asleep(r)' PROVE WillBeCalled(r)'
    <3>1. WillBeCalled(r)
      BY <2>1, <2>4, SleepersAre DEF IInv, Asleep
    <3> QED BY <2>1, <3>1, StillCalled
  <2> QED BY <2>2, <2>3, <2>4, SleepersWillBe DEF IInv
<1> QED BY <1>1, <1>2, <1>3, <1>4, <1>5, <1>6 DEF Next

-----------------------------------------------------------------------------
(* Pipes are channels.                                                     *)

(* A pipe that is not made yet is empty.                                   *)
NewPipesEmpty == \A k \in Pipe : k > npipes => data[k] = <<>>

(* What a step does to bytes and to open pipes: one of four things.        *)
Quiet == UNCHANGED <<data, last, npipes>> /\ NoneOpened
Makes(k) ==
  /\ k = npipes + 1 /\ npipes' = k /\ refs' = [refs EXCEPT ![k] = 1] /\ UNCHANGED <<data, last>>
Takes(k, n) ==
  /\ ~Blocks(k, n) /\ UNCHANGED <<refs, npipes>>
  /\ last' = SubSeq(data[k], 1, Returned(k, n))
  /\ data' = [data EXCEPT ![k] = SubSeq(@, Returned(k, n) + 1, Len(@))]
Puts(k, n) ==
  /\ refs[k] > 0 /\ k <= npipes /\ sent[k] + n <= MaxSent /\ UNCHANGED <<refs, npipes, last>>
  /\ data' = [data EXCEPT ![k] = @ \o [b \in 1..n |-> sent[k] + b]]
Effect ==
  \/ Quiet
  \/ \E k \in Pipe : Makes(k)
  \/ \E k \in Pipe, n \in ReadSizes : Takes(k, n)
  \/ \E k \in Pipe, n \in 1..MaxSent : Puts(k, n)

LEMMA NextHasEffect == IInv /\ [Next]_vars => Effect
<1> SUFFICES ASSUME IInv, [Next]_vars PROVE Effect
  OBVIOUS
<1>1. ASSUME UNCHANGED <<data, last, npipes, refs>> PROVE Effect
  BY <1>1 DEF Effect, Quiet, NoneOpened
<1>2. ASSUME NEW p \in Proc, NEW i \in Fd, NEW n \in ReadSizes, Read(p, i, n) PROVE Effect
  <2>1. PICK k \in Pipe :
          /\ \/ UNCHANGED <<data, last>>
             \/ /\ ~Blocks(k, n)
                /\ last' = SubSeq(data[k], 1, Returned(k, n))
                /\ data' = [data EXCEPT ![k] = SubSeq(@, Returned(k, n) + 1, Len(@))]
          /\ UNCHANGED <<refs, npipes>>
    BY <1>2 DEF Read
  <2> QED BY <1>1, <2>1 DEF Effect, Takes
<1>3. ASSUME NEW p \in Proc, NEW is \in PollSets, NEW timeout \in BOOLEAN, Poll(p, is, timeout) PROVE Effect
  BY <1>1, <1>3 DEF Poll
<1>4. ASSUME NEW p \in Proc, Runs(p), NEW i \in Fd, NEW n \in 1..MaxSent, Write(p, i, n) PROVE Effect
  <2>1. PICK k \in Pipe :
          /\ FileAt(p, i) = Writer(k) /\ sent[k] + n <= MaxSent
          /\ data' = [data EXCEPT ![k] = @ \o [b \in 1..n |-> sent[k] + b]]
          /\ UNCHANGED <<refs, npipes, last>>
    BY <1>4 DEF Write
  <2>2. refs[k] > 0
    BY <1>4, <2>1, HeldIsCounted, FileAtIs DEF IInv, Runs
  <2>3. ~(k > npipes)
    BY <2>1 DEF IInv, NewPipesUnused
  <2>4. k \in Nat /\ npipes \in Nat
    BY DEF Pipe, IInv, TypeOK
  <2>5. k <= npipes
    BY <2>3, <2>4
  <2>6. Puts(k, n)
    BY <2>1, <2>2, <2>5 DEF Puts
  <2> QED BY <2>6 DEF Effect
<1>5. ASSUME NEW p \in Proc, Step(p) PROVE Effect
  <2>1. Runs(p) /\ Call(p)
    BY <1>5 DEF Step
  <2>2. ASSUME NEW i \in Fd, WrongEnd(p, i) PROVE Effect
    <3>1. refs' = [k \in Pipe |-> 0] /\ UNCHANGED <<data, last, npipes>>
      BY <2>2 DEF WrongEnd
    <3> QED BY <3>1 DEF Effect, Quiet, NoneOpened
  <2>3. ASSUME NEW i \in Fd, Close(p, i) PROVE Effect
    BY <2>1, <2>3, CloseKeeps DEF Close, Effect, Quiet
  <2>4. ASSUME NEW i \in Fd, Dup(p, i) PROVE Effect
    BY <2>1, <2>4, DupKeeps DEF Dup, Effect, Quiet
  <2>5. ASSUME NEW i \in Fd, NEW j \in Fd, Dup2(p, i, j) PROVE Effect
    BY <2>1, <2>5, Dup2Keeps DEF Dup2, Effect, Quiet
  <2>6. ASSUME NEW i \in Fd, NEW j \in Fd, DupFrom(p, i, j) PROVE Effect
    BY <2>1, <2>6, DupFromKeeps DEF DupFrom, Effect, Quiet
  <2>7. CASE CreatePipe(p)
    BY <2>7 DEF CreatePipe, Effect, Makes
  <2>8. CASE Clone(p)
    BY <2>1, <2>8, CloneKeeps DEF Clone, Effect, Quiet
  <2>9. CASE Exit(p)
    BY <1>1, <2>9 DEF Exit, pipeVars
  <2> QED BY <1>2, <1>3, <1>4, <2>1, <2>2, <2>3, <2>4, <2>5, <2>6, <2>7, <2>8, <2>9 DEF Call
<1>6. ASSUME NEW p \in Proc, Resume(p) PROVE Effect
  BY <1>2, <1>3, <1>6 DEF Resume, Restart
<1>7. ASSUME NEW p \in Proc, Kill(p) \/ Wake(p) PROVE Effect
  BY <1>1, <1>7 DEF Kill, Exit, Wake, pipeVars
<1>8. ASSUME NEW p \in Proc, Release(p) PROVE Effect
  BY <1>8, ReleaseKeeps DEF Release, Effect, Quiet
<1>9. CASE UNCHANGED vars
  BY <1>1, <1>9 DEF vars, pipeVars
<1> QED BY <1>5, <1>6, <1>7, <1>8, <1>9 DEF Next

LEMMA NewPipesStayEmpty == IInv /\ NewPipesEmpty /\ [Next]_vars => NewPipesEmpty'
<1> SUFFICES ASSUME IInv, NewPipesEmpty, Effect PROVE NewPipesEmpty'
  BY NextHasEffect
<1>1. TypeOK /\ npipes \in Nat
  <2>1. TypeOK
    BY DEF IInv
  <2>2. npipes \in Nat
    BY <2>1 DEF TypeOK
  <2> QED BY <2>1, <2>2
<1>2. \A k \in Pipe : k \in Nat
  BY DEF Pipe
<1>3. CASE Quiet
  BY <1>3 DEF Quiet, NewPipesEmpty, Pipe
<1>4. ASSUME NEW k \in Pipe, Makes(k) PROVE NewPipesEmpty'
  <2>1. \A l \in Pipe : l > k => l > npipes
    BY <1>1, <1>2, <1>4 DEF Makes
  <2> QED BY <1>4, <2>1 DEF Makes, NewPipesEmpty, Pipe
<1>5. ASSUME NEW k \in Pipe, NEW n \in ReadSizes, Takes(k, n) PROVE NewPipesEmpty'
  <2>1. n \in Nat \ {0}
    BY Numbers
  <2>2. data[k] = <<>> => data'[k] = <<>>
    BY <1>1, <1>5, <2>1, EmptyPipe DEF Takes, TypeOK
  <2>3. \A l \in Pipe : l # k => data'[l] = data[l]
    BY <1>1, <1>5 DEF Takes, TypeOK
  <2> QED BY <1>5, <2>2, <2>3 DEF Takes, NewPipesEmpty, Pipe
<1>6. ASSUME NEW k \in Pipe, NEW n \in 1..MaxSent, Puts(k, n) PROVE NewPipesEmpty'
  <2>1. \A l \in Pipe : l # k => data'[l] = data[l]
    BY <1>1, <1>6 DEF Puts, TypeOK
  <2>2. ~(k > npipes)
    BY <1>1, <1>2, <1>6 DEF Puts
  <2> QED BY <1>6, <2>1, <2>2 DEF Puts, NewPipesEmpty, Pipe
<1> QED BY <1>3, <1>4, <1>5, <1>6 DEF Effect

-----------------------------------------------------------------------------
LEMMA WritableIs == TypeOK /\ WriterRefsExact => Writable = {k \in Pipe : refs[k] > 0}
<1> SUFFICES ASSUME TypeOK, WriterRefsExact, NEW k \in Pipe
             PROVE  k \in Writable <=> refs[k] > 0
  BY DEF Writable
<1>1. IsFiniteSet(Holders(k)) /\ refs[k] = Cardinality(Holders(k)) /\ refs[k] \in Nat
  BY HoldersAre, HoldersFinite, FS_CardinalityType DEF WriterRefsExact
<1>2. refs[k] > 0 <=> Holders(k) # {}
  BY <1>1, FS_EmptySet
<1>3. \A p \in Proc : DOMAIN fds[p] \subseteq Fd
  BY Tables, TableLemma
<1>4. Holders(k) # {} <=> k \in Writable
  <2>1. ASSUME NEW h \in Holders(k) PROVE k \in Writable
    <3>1. h[1] \in Proc /\ Holding(h[1]) /\ FileAt(h[1], h[2]) = Writer(k)
      BY DEF Holders
    <3>2. h[2] \in Slots(h[1]) /\ fds[h[1]][h[2]] = Writer(k)
      BY <3>1, FilesDiffer DEF FileAt
    <3> QED BY <3>1, <3>2 DEF Writable
  <2>2. ASSUME NEW p \in Proc, Holding(p), NEW i \in Slots(p), fds[p][i] = Writer(k)
        PROVE  <<p, i>> \in Holders(k)
    BY <1>3, <2>2 DEF Holders, FileAt, Slots
  <2> QED BY <2>1, <2>2 DEF Writable
<1> QED BY <1>2, <1>4

LEMMA WritableWillBe == (TypeOK /\ WriterRefsExact)' => Writable' = {k \in Pipe : refs'[k] > 0}
<1> SUFFICES ASSUME TypeOK', WriterRefsExact', NEW k \in Pipe
             PROVE  k \in Writable' <=> refs'[k] > 0
  BY DEF Writable, Pipe
<1>1. Holders(k)' = HoldersIn(fds', HoldingProcs', k) /\ refs'[k] = Cardinality(Holders(k)')
  BY HoldersWillBe DEF WriterRefsExact, Pipe
<1> PICK H : H = HoldersIn(fds', HoldingProcs', k)
  OBVIOUS
<1>2. IsFiniteSet(H) /\ refs'[k] = Cardinality(H) /\ refs'[k] \in Nat
  BY <1>1, HoldersFinite, FS_CardinalityType
<1>3. refs'[k] > 0 <=> H # {}
  BY <1>2, FS_EmptySet
<1>4. \A p \in Proc : fds'[p] \in Table
  BY DEF TypeOK, Table, Proc, File, Pipe, Reader, Writer, Closed, Terminal
<1>5. \A p \in Proc : DOMAIN fds'[p] \subseteq Fd
  BY <1>4, TableLemma
<1>6. H # {} <=> k \in Writable'
  <2>1. ASSUME NEW h \in H PROVE k \in Writable'
    <3>1. h[1] \in Proc /\ Holding(h[1])' /\ At(fds'[h[1]], h[2]) = Writer(k)
      BY DEF HoldersIn, HoldingProcs, Proc
    <3>2. h[2] \in DOMAIN fds'[h[1]] /\ fds'[h[1]][h[2]] = Writer(k)
      BY <3>1, FilesDiffer DEF At
    <3> QED BY <3>1, <3>2 DEF Writable, Slots, Proc, Pipe, Writer, Holding
  <2>2. ASSUME NEW p \in Proc, Holding(p)', NEW i \in DOMAIN fds'[p], fds'[p][i] = Writer(k)
        PROVE  <<p, i>> \in H
    BY <1>5, <2>2 DEF HoldersIn, HoldingProcs, At, Proc
  <2> QED BY <2>1, <2>2 DEF Writable, Slots, Proc, Pipe, Writer, Holding
<1> QED BY <1>3, <1>6

ChannelNext == Channel!Next
ChannelStep == [ChannelNext]_<<data, Writable, last>>

LEMMA EffectIsChannels ==
  ASSUME IInv, IInv', NewPipesEmpty, Effect
  PROVE  ChannelStep
<1>1. /\ TypeOK /\ npipes \in Nat
      /\ Writable = {k \in Pipe : refs[k] > 0} /\ Writable' = {k \in Pipe : refs'[k] > 0}
  <2>1. TypeOK /\ WriterRefsExact /\ (TypeOK /\ WriterRefsExact)'
    BY DEF IInv
  <2>2. npipes \in Nat
    BY <2>1 DEF TypeOK
  <2> QED BY <2>1, <2>2, WritableIs, WritableWillBe
<1>2. CASE Quiet
  <2>1. Channel!Close
    BY <1>1, <1>2 DEF Quiet, NoneOpened, Channel!Close
  <2> QED BY <2>1 DEF ChannelStep, ChannelNext, Channel!Next
<1>3. ASSUME NEW k \in Pipe, Makes(k) PROVE ChannelStep
  <2>1. k > npipes /\ data[k] = <<>>
    BY <1>1, <1>3 DEF Makes, NewPipesEmpty
  <2>2. refs[k] = 0
    <3>1. \A p \in Proc, i \in Fd : FileAt(p, i) # Writer(k)
      BY <2>1 DEF IInv, NewPipesUnused
    <3>2. Holders(k) = {}
      BY <3>1 DEF Holders
    <3> QED BY <3>2, FS_EmptySet DEF IInv, WriterRefsExact
  <2>3. \A l \in Pipe : refs'[l] = IF l = k THEN 1 ELSE refs[l]
    BY <1>1, <1>3 DEF Makes, TypeOK
  <2>4. k \notin Writable /\ Writable' = Writable \cup {k}
    BY <1>1, <2>2, <2>3
  <2>5. Channel!Create(k)
    BY <1>3, <2>1, <2>4 DEF Makes, Channel!Create
  <2> QED BY <2>5 DEF ChannelStep, ChannelNext, Channel!Next
<1>4. ASSUME NEW k \in Pipe, NEW n \in ReadSizes, Takes(k, n) PROVE ChannelStep
  <2>1. n \in Nat \ {0}
    BY Numbers
  <2>2. Returned(k, n) \in 0..Len(data[k]) /\ Len(data[k]) \in Nat
        /\ (Returned(k, n) = 0 <=> data[k] = <<>>)
    BY <1>1, <2>1, EmptyPipe
  <2>3. Writable' = Writable
    BY <1>1, <1>4 DEF Takes
  <2>4. CASE data[k] # <<>>
    <3>1. Returned(k, n) \in 1..Len(data[k])
      BY <2>2, <2>4
    <3>2. Channel!Get(k)
      BY <1>4, <2>3, <3>1 DEF Takes, Channel!Get
    <3> QED BY <3>2 DEF ChannelStep, ChannelNext, Channel!Next
  <2>5. CASE data[k] = <<>>
    <3>1. ~(refs[k] > 0)
      BY <1>1, <1>4, <2>1, <2>5, BlocksIf DEF Takes
    <3>2. k \notin Writable
      BY <1>1, <3>1
    <3>3. SubSeq(data[k], 1, 0) = <<>>
      BY SubSeqEmpty
    <3>4. last' = <<>>
      BY <1>4, <2>2, <2>5, <3>3 DEF Takes
    <3>5. SubSeq(data[k], Returned(k, n) + 1, Len(data[k])) = <<>>
      BY <1>1, <2>1, <2>5, EmptyPipe
    <3>6. data' = data
      BY <1>1, <1>4, <2>5, <3>5 DEF Takes, TypeOK
    <3>7. Channel!EndOfFile(k)
      BY <2>3, <2>5, <3>2, <3>4, <3>6 DEF Channel!EndOfFile
    <3> QED BY <3>7 DEF ChannelStep, ChannelNext, Channel!Next
  <2> QED BY <2>4, <2>5
<1>5. ASSUME NEW k \in Pipe, NEW n \in 1..MaxSent, Puts(k, n) PROVE ChannelStep
  <2> DEFINE bytes == [b \in 1..n |-> sent[k] + b]
  <2>1. sent[k] \in Nat /\ n \in Nat /\ MaxSent \in Nat /\ sent[k] + n <= MaxSent
    BY <1>1, <1>5, Numbers DEF Puts, TypeOK
  <2>2. bytes \in [1..n -> 1..MaxSent]
    BY <2>1
  <2> HIDE DEF bytes
  <2>3. bytes \in UNION {[1..m -> 1..MaxSent] : m \in 1..MaxSent}
    BY <2>2
  <2>4. Writable' = Writable /\ k \in Writable
    BY <1>1, <1>5 DEF Puts
  <2>5. data' = [data EXCEPT ![k] = @ \o bytes] /\ last' = last
    BY <1>5 DEF Puts, bytes
  <2>6. Channel!Put(k)
    BY <2>3, <2>4, <2>5 DEF Channel!Put
  <2> QED BY <2>6 DEF ChannelStep, ChannelNext, Channel!Next
<1> QED BY <1>2, <1>3, <1>4, <1>5 DEF Effect

LEMMA InitIsChannels == Init => Channel!Init
<1> SUFFICES ASSUME Init PROVE Channel!Init
  OBVIOUS
<1>1. IInv
  BY InitHolds
<1>2. Writable = {}
  BY <1>1, WritableIs DEF IInv, Init
<1> QED BY <1>2 DEF Init, Channel!Init

LEMMA Inductive == Spec => []IInv
  BY InitHolds, NextKeeps, PTL DEF Spec

(* Tables, counts, callbacks and blocked calls keep their types; no table  *)
(* grows past its bound and no count past the descriptors there are.       *)
THEOREM PipesTypeCorrect == Spec => []TypeOK
<1>1. IInv => TypeOK
  BY DEF IInv
<1> QED BY Inductive, <1>1, PTL

(* PipeWriter.refs counts the writers over every way to make and lose one, *)
(* so the Error "closing pipe which is already dead" is unreachable.       *)
THEOREM RefsCorrect == Spec => []WriterRefsExact
<1>1. IInv => WriterRefsExact
  BY DEF IInv
<1> QED BY Inductive, <1>1, PTL

(* readCallbacks: a process asleep in a read or a poll is called by every  *)
(* pipe it waits for, and one of these can still be written.               *)
THEOREM SleepersCorrect == Spec => []SleepersAreCalled
<1>1. IInv => SleepersAreCalled
  BY DEF IInv
<1> QED BY Inductive, <1>1, PTL

(* Pipes are channels, for any number of processes, pipes and bytes: what  *)
(* PipeReader.read returns, whoever reads and whatever dup, clone, exit    *)
(* and close do to the two ends, is the next bytes written, and the end    *)
(* only when nobody can write any more.                                    *)
THEOREM ChannelsCorrect == Spec => DeliversInOrder
<1>1. Init => IInv /\ NewPipesEmpty
  BY InitHolds DEF Init, NewPipesEmpty
<1>2. IInv /\ NewPipesEmpty /\ [Next]_vars => (IInv /\ NewPipesEmpty)'
  BY NextKeeps, NewPipesStayEmpty
<1>3. IInv /\ NewPipesEmpty /\ [Next]_vars => [ChannelNext]_<<data, Writable, last>>
  BY NextKeeps, NextHasEffect, EffectIsChannels DEF ChannelStep
<1>4. DeliversInOrder <=> Channel!Init /\ [][ChannelNext]_<<data, Writable, last>>
  BY DEF DeliversInOrder, Channel!Spec, ChannelNext
<1> QED BY <1>1, <1>2, <1>3, <1>4, InitIsChannels, PTL DEF Spec
==============================================================================

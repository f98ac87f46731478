-------------------------- MODULE PageMemoryProofs --------------------------
(***************************************************************************)
(* Proofs about PageMemory for every number of processes and pages.        *)
(***************************************************************************)
EXTENDS PageMemory, FiniteSetTheorems, TLAPS

Table == [Slot -> Page]
Tables == [Pid -> Table]

-----------------------------------------------------------------------------
(* Counting references.                                                    *)

LEMMA SlotsFinite == IsFiniteSet(Slot) /\ IsFiniteSet(Pid) /\ IsFiniteSet(Pid \X Slot)
<1>1. IsFiniteSet(Pid)
  BY FS_Interval, ConstantsAssumption DEF Pid
<1>2. IsFiniteSet({PagemapSlot, PageflagsSlot})
  <2>1. {PagemapSlot, PageflagsSlot} = {PagemapSlot} \cup {PageflagsSlot}
    OBVIOUS
  <2>2. IsFiniteSet({PagemapSlot})
    BY FS_Singleton
  <2> QED BY <2>1, <2>2, FS_AddElement, Zenon
<1>3. IsFiniteSet(Slot)
  BY <1>2, FS_Union, ConstantsAssumption DEF Slot
<1> QED BY <1>1, <1>3, FS_Product

(* The references of all tables are those of process q and the others.     *)
OthersIn(f, q, b) == {h \in Pid \X Slot : h[1] # q /\ f[h[1]][h[2]] = b}

LEMMA HoldersSplit ==
  ASSUME NEW f \in Tables, NEW q \in Pid, NEW b \in Page
  PROVE  /\ Cardinality(HoldersIn(f, b)) = Cardinality(OthersIn(f, q, b)) + Count(f[q], b)
         /\ Cardinality(OthersIn(f, q, b)) \in Nat
         /\ Count(f[q], b) \in Nat
<1> DEFINE S == {s \in Slot : f[q][s] = b}
           R == {h \in Pid \X Slot : h[1] = q /\ f[h[1]][h[2]] = b}
           O == OthersIn(f, q, b)
<1>1. IsFiniteSet(S) /\ IsFiniteSet(R) /\ IsFiniteSet(O)
  BY SlotsFinite, FS_Subset DEF OthersIn
<1>2. Cardinality(R) = Cardinality(S)
  <2> DEFINE g == [s \in S |-> <<q, s>>]
  <2>1. g \in [S -> R]
    OBVIOUS
  <2>2. \A s, t \in S : g[s] = g[t] => s = t
    OBVIOUS
  <2>3. \A r \in R : \E s \in S : g[s] = r
    OBVIOUS
  <2>4. g \in Bijection(S, R)
    BY <2>1, <2>2, <2>3 DEF Bijection, Injection, Surjection, IsInjective
  <2>5. ExistsBijection(S, R)
    BY <2>4 DEF ExistsBijection
  <2> QED BY <2>5, <1>1, FS_Bijection
<1>3. HoldersIn(f, b) = O \cup R /\ O \cap R = {}
  BY DEF HoldersIn, OthersIn
<1>4. Cardinality(O \cup R) = Cardinality(O) + Cardinality(R) - Cardinality(O \cap R)
  BY <1>1, FS_Union
<1>5. Cardinality(O \cap R) = 0
  BY <1>3, FS_EmptySet
<1>6. Cardinality(O) \in Nat /\ Cardinality(S) \in Nat
  BY <1>1, FS_CardinalityType
<1> QED BY <1>2, <1>3, <1>4, <1>5, <1>6 DEF Count

(* What replacing one process's table does to the references to a page.    *)
LEMMA TableReplaced ==
  ASSUME NEW f \in Tables, NEW q \in Pid, NEW g \in Table, NEW b \in Page,
         NEW f2, f2 = [f EXCEPT ![q] = g]
  PROVE  /\ f2 \in Tables
         /\ Cardinality(HoldersIn(f2, b)) = Cardinality(HoldersIn(f, b)) - Count(f[q], b) + Count(g, b)
         /\ Count(f[q], b) \in Nat /\ Count(g, b) \in Nat
         /\ Count(f[q], b) <= Cardinality(HoldersIn(f, b))
         /\ Cardinality(HoldersIn(f, b)) \in Nat
         /\ Cardinality(HoldersIn(f2, b)) \in Nat
<1>1. f2 \in Tables /\ f2[q] = g
  BY DEF Tables, Table
<1>2. OthersIn(f2, q, b) = OthersIn(f, q, b)
  BY DEF OthersIn, Tables
<1>3. /\ Cardinality(HoldersIn(f, b)) = Cardinality(OthersIn(f, q, b)) + Count(f[q], b)
      /\ Cardinality(OthersIn(f, q, b)) \in Nat /\ Count(f[q], b) \in Nat
  BY HoldersSplit
<1>4. /\ Cardinality(HoldersIn(f2, b)) = Cardinality(OthersIn(f2, q, b)) + Count(f2[q], b)
      /\ Count(f2[q], b) \in Nat
  BY <1>1, HoldersSplit
<1> QED BY <1>1, <1>2, <1>3, <1>4

(* Changing one entry of a table moves one reference.                      *)
LEMMA EntryReplaced ==
  ASSUME NEW f \in Table, NEW s \in Slot, NEW c \in Page, NEW b \in Page
  PROVE  Count([f EXCEPT ![s] = c], b) =
           Count(f, b) - (IF f[s] = b THEN 1 ELSE 0) + (IF c = b THEN 1 ELSE 0)
<1> DEFINE A == {t \in Slot : t # s /\ f[t] = b}
           g == [f EXCEPT ![s] = c]
<1>1. IsFiniteSet(A) /\ s \notin A
  BY SlotsFinite, FS_Subset
<1>2. Cardinality(A) \in Nat /\ Cardinality(A \cup {s}) = Cardinality(A) + 1
  BY <1>1, FS_AddElement, FS_CardinalityType
<1>3. {t \in Slot : f[t] = b} = IF f[s] = b THEN A \cup {s} ELSE A
  OBVIOUS
<1>4. {t \in Slot : g[t] = b} = IF c = b THEN A \cup {s} ELSE A
  BY DEF Table
<1> HIDE DEF A, g
<1>5. Count(f, b) = IF f[s] = b THEN Cardinality(A) + 1 ELSE Cardinality(A)
  BY <1>2, <1>3, Zenon DEF Count
<1>6. Count(g, b) = IF c = b THEN Cardinality(A) + 1 ELSE Cardinality(A)
  BY <1>2, <1>4, Zenon DEF Count
<1>7. Count(g, b) = Count(f, b) - (IF f[s] = b THEN 1 ELSE 0) + (IF c = b THEN 1 ELSE 0)
  BY <1>2, <1>5, <1>6
<1> QED BY <1>7 DEF g

(* A page with a reference is counted; two references count twice.         *)
LEMMA HeldIsCounted ==
  ASSUME NEW f \in Tables, NEW q \in Pid, NEW s \in Slot, NEW b \in Page, f[q][s] = b
  PROVE  /\ Cardinality(HoldersIn(f, b)) \in Nat /\ Cardinality(HoldersIn(f, b)) >= 1
         /\ Cardinality(HoldersIn(f, b)) = 1 => HoldersIn(f, b) = {<<q, s>>}
<1> DEFINE H == HoldersIn(f, b)
<1>1. IsFiniteSet(H) /\ <<q, s>> \in H
  BY SlotsFinite, FS_Subset DEF HoldersIn
<1>2. /\ Cardinality(H) \in Nat
      /\ IsFiniteSet(H \ {<<q, s>>})
      /\ Cardinality(H \ {<<q, s>>}) = Cardinality(H) - 1
      /\ Cardinality(H \ {<<q, s>>}) \in Nat
  BY <1>1, FS_RemoveElement, FS_CardinalityType
<1>3. Cardinality(H) = 1 => H \ {<<q, s>>} = {}
  BY <1>2, FS_EmptySet
<1> QED BY <1>1, <1>2, <1>3

-----------------------------------------------------------------------------
(* The inductive invariant.                                                *)

TableSlots == {PagemapSlot, PageflagsSlot}

FlagsInv ==
  \A b \in Page : "W" \in gflags[b] => b \notin {0, ZeroPage, vdsoPage} /\ refs[b] <= 1
TablesInv ==
  \A p \in Pid, s \in TableSlots : Live(p) =>
     pages[p][s] \notin {0, ZeroPage, vdsoPage} /\ refs[pages[p][s]] = 1
DeadInv == \A p \in Pid : ~Live(p) => pages[p] = Unmapped
SettidInv == settid # None => Live(nprocs)

IInv ==
  /\ TypeOK
  /\ RefCountsExact
  /\ FlagsInv
  /\ TablesInv
  /\ DeadInv
  /\ SettidInv
  /\ CacheCoherent
  /\ SharedPagesUnwritten

LEMMA ConstantFacts ==
  /\ 0 \in Page /\ ZeroPage \in Page /\ vdsoPage \in Page /\ vdsoPage \in Frames
  /\ Frames \subseteq Page \ {0, ZeroPage} /\ Page \subseteq Nat
  /\ VPage \subseteq Slot /\ PagemapSlot \in Slot /\ PageflagsSlot \in Slot
  /\ PagemapSlot \notin VPage /\ PageflagsSlot \notin VPage /\ PagemapSlot # PageflagsSlot
  /\ None \notin VPage /\ Pid \subseteq Nat \ {0} /\ 1 \in Pid
  /\ ZeroPage # vdsoPage /\ ZeroPage # 0 /\ vdsoPage # 0
BY ConstantsAssumption
DEF Page, Frames, ZeroPage, vdsoPage, Slot, PagemapSlot, PageflagsSlot, None, Pid

(* A step that replaces one table keeps the counts if it adjusts them by   *)
(* what that table held and holds, and by what it loses.                   *)
LEMMA CountsMoved ==
  ASSUME TypeOK, RefCountsExact, NEW q \in Pid, NEW g \in Table,
         pages' = [pages EXCEPT ![q] = g], leaked' \in [Page -> Nat],
         \A b \in Page \ {0} :
           refs'[b] = refs[b] - Count(pages[q], b) + Count(g, b) + leaked'[b] - leaked[b]
  PROVE  /\ RefCountsExact'
         /\ \A b \in Page \ {0} : refs'[b] \in Nat
         /\ pages' \in Tables
<1>1. pages \in Tables
  BY DEF TypeOK, Tables, Table
<1>2. ASSUME NEW b \in Page \ {0}
      PROVE  /\ refs'[b] = Cardinality(HoldersIn(pages', b)) + Permanent(b) + leaked'[b]
             /\ Cardinality(HoldersIn(pages', b)) + Permanent(b) + leaked'[b] \in Nat
  <2>1. /\ Cardinality(HoldersIn(pages', b)) = Cardinality(HoldersIn(pages, b)) - Count(pages[q], b) + Count(g, b)
        /\ Count(pages[q], b) \in Nat /\ Count(g, b) \in Nat
        /\ Cardinality(HoldersIn(pages, b)) \in Nat
        /\ Cardinality(HoldersIn(pages', b)) \in Nat
    BY <1>1, TableReplaced, ZenonT(30)
  <2>2. /\ refs[b] = Cardinality(HoldersIn(pages, b)) + Permanent(b) + leaked[b]
        /\ refs[b] \in Nat /\ leaked[b] \in Nat /\ leaked'[b] \in Nat
    BY DEF RefCountsExact, Holders, TypeOK
  <2>3. Permanent(b) \in Nat
    BY DEF Permanent
  <2> QED BY <2>1, <2>2, <2>3
<1>3. pages' \in Tables
  BY <1>1 DEF Tables, Table
<1>4. RefCountsExact'
  BY <1>2 DEF RefCountsExact, Holders, HoldersIn, Permanent
<1>5. \A b \in Page \ {0} : refs'[b] \in Nat
  BY <1>2
<1> QED BY <1>3, <1>4, <1>5

LEMMA CountsKept ==
  ASSUME TypeOK, RefCountsExact, NEW q \in Pid, NEW g \in Table,
         pages' = [pages EXCEPT ![q] = g], leaked' = leaked,
         \A b \in Page \ {0} : refs'[b] = refs[b] - Count(pages[q], b) + Count(g, b) /\ refs'[b] \in Int
  PROVE  /\ RefCountsExact'
         /\ \A b \in Page \ {0} : refs'[b] \in Nat
         /\ pages' \in Tables
<1>1. leaked' \in [Page -> Nat]
  BY DEF TypeOK
<1>2. \A b \in Page \ {0} :
        refs'[b] = refs[b] - Count(pages[q], b) + Count(g, b) + leaked'[b] - leaked[b]
  <2> SUFFICES ASSUME NEW b \in Page \ {0}
               PROVE  refs'[b] = refs[b] - Count(pages[q], b) + Count(g, b) + leaked'[b] - leaked[b]
    OBVIOUS
  <2> DEFINE x == refs[b] - Count(pages[q], b) + Count(g, b)
             y == leaked[b]
  <2>1. refs'[b] = x /\ x \in Int /\ y \in Int /\ leaked'[b] = y
    BY DEF TypeOK
  <2> HIDE DEF x, y
  <2>2. refs'[b] = x + y - y
    BY <2>1
  <2> QED BY <2>1, <2>2 DEF x, y
<1> QED BY <1>1, <1>2, CountsMoved

(* What a process holds is in use; with one reference it has one holder,   *)
(* and it is neither the zero page nor the vdso page.                      *)
LEMMA HeldFacts ==
  ASSUME TypeOK, RefCountsExact, NEW p \in Pid, NEW s \in Slot, pages[p][s] # 0
  PROVE  /\ refs[pages[p][s]] >= 1
         /\ pages[p][s] \in {ZeroPage, vdsoPage} => refs[pages[p][s]] >= 2
         /\ refs[pages[p][s]] = 1 => Holders(pages[p][s]) = {<<p, s>>}
<1> DEFINE b == pages[p][s]
<1>1. pages \in Tables /\ b \in Page \ {0} /\ refs[b] \in Nat
  BY DEF TypeOK, Tables, Table
<1>2. /\ Cardinality(HoldersIn(pages, b)) \in Nat /\ Cardinality(HoldersIn(pages, b)) >= 1
      /\ Cardinality(HoldersIn(pages, b)) = 1 => HoldersIn(pages, b) = {<<p, s>>}
  BY <1>1, HeldIsCounted
<1>3. refs[b] = Cardinality(HoldersIn(pages, b)) + Permanent(b) + leaked[b] /\ leaked[b] \in Nat
  BY <1>1 DEF RefCountsExact, Holders, TypeOK
<1> QED BY <1>1, <1>2, <1>3 DEF Permanent, Holders

(* The pages of a live process's table are held by nothing else.           *)
LEMMA TablePagesHeldOnce ==
  ASSUME IInv
  PROVE  TablesPrivate
BY HeldFacts, ConstantFacts DEF IInv, TablesPrivate, TablesInv, TableSlots

LEMMA UnusedFacts ==
  ASSUME IInv, NEW b \in Frames, refs[b] = 0
  PROVE  /\ b \in Page /\ b \notin {0, ZeroPage, vdsoPage}
         /\ \A p \in Pid, s \in Slot : pages[p][s] # b
<1>1. b \in Page /\ b \notin {0, ZeroPage}
  BY ConstantFacts
<1>2. b # vdsoPage
  <2>1. pages \in Tables
    BY DEF IInv, TypeOK, Tables, Table
  <2>2. Cardinality(HoldersIn(pages, vdsoPage)) \in Nat
    <3>1. IsFiniteSet(HoldersIn(pages, vdsoPage))
      BY SlotsFinite, FS_Subset DEF HoldersIn
    <3> QED BY <3>1, FS_CardinalityType
  <2>3. /\ refs[vdsoPage] = Cardinality(HoldersIn(pages, vdsoPage)) + 1 + leaked[vdsoPage]
        /\ leaked[vdsoPage] \in Nat
    BY ConstantFacts DEF IInv, RefCountsExact, Permanent, Holders, TypeOK
  <2> QED BY <2>2, <2>3
<1>3. \A p \in Pid, s \in Slot : pages[p][s] # b
  BY <1>1, HeldFacts DEF IInv
<1> QED BY <1>1, <1>2, <1>3

-----------------------------------------------------------------------------
(* Steps that leave every table alone.                                     *)

LEMMA ThrowStep ==
  ASSUME IInv, NEW e \in {"fault", "memory", "unaligned", "zeroing"}, Throw(e)
  PROVE  IInv'
BY DEF Throw, IInv, TypeOK, RefCountsExact, Holders, HoldersIn, FlagsInv, TablesInv, DeadInv,
       SettidInv, CacheCoherent, SharedPagesUnwritten, Live

Translations == [CacheSlot -> [v : VPage \cup {None}, page : Page]]

LEMMA FilledFacts ==
  ASSUME NEW c \in Translations,
         NEW perm \in Perm, NEW v \in VPage, NEW b \in Page
  PROVE  /\ Filled(c, perm, v, b) \in Translations
         /\ \A s \in CacheSlot :
              \/ Filled(c, perm, v, b)[s] = [v |-> v, page |-> b] /\ (s = "write" => perm = "W")
              \/ Filled(c, perm, v, b)[s] = c[s]
              \/ s # "write" /\ \E t \in CacheSlot : Filled(c, perm, v, b)[s] = c[t]
<1>1. CASE perm = "W"
  BY <1>1 DEF Filled, CacheSlot, Translations
<1>2. CASE perm = "R"
  BY <1>2 DEF Filled, CacheSlot, Translations
<1>3. CASE perm = "X"
  BY <1>3 DEF Filled, CacheSlot, Translations
<1> QED BY <1>1, <1>2, <1>3 DEF Perm

LEMMA NoTranslationsFacts ==
  /\ NoTranslations \in Translations
  /\ \A s \in CacheSlot : NoTranslations[s].v = None
BY ConstantFacts DEF NoTranslations, NoEntry, Translations

LEMMA ReadMissStep ==
  ASSUME IInv, NEW p \in Pid, NEW v \in VPage, NEW perm \in Perm, ReadMiss(p, v, perm)
  PROVE  IInv'
<1> DEFINE b == pages[p][v]
           c == Filled(cache[p], perm, v, b)
<1>1. /\ cache' = [cache EXCEPT ![p] = c] /\ b # 0 /\ perm # "W"
      /\ UNCHANGED <<refs, gflags, mem, pages, pageflags, nprocs, settid, thrown, leaked, vdso>>
  BY DEF ReadMiss, Allowed
<1>2. b \in Page /\ cache[p] \in Translations
  BY ConstantFacts DEF IInv, TypeOK, Translations
<1>3. /\ c \in Translations
      /\ \A s \in CacheSlot :
           \/ c[s] = [v |-> v, page |-> b] /\ s # "write"
           \/ c[s] = cache[p][s]
           \/ s # "write" /\ \E t \in CacheSlot : c[s] = cache[p][t]
  <2> HIDE DEF b
  <2> DEFINE k == cache[p]
  <2> HIDE DEF k
  <2>1. /\ Filled(k, perm, v, b) \in Translations
        /\ \A s \in CacheSlot :
             \/ Filled(k, perm, v, b)[s] = [v |-> v, page |-> b] /\ (s = "write" => perm = "W")
             \/ Filled(k, perm, v, b)[s] = k[s]
             \/ s # "write" /\ \E t \in CacheSlot : Filled(k, perm, v, b)[s] = k[t]
    <3>1. k \in Translations /\ b \in Page
      BY <1>2 DEF k
    <3> QED BY <3>1, FilledFacts, Zenon
  <2> QED BY <2>1, <1>1 DEF k
<1> HIDE DEF c
<1>4. TypeOK'
  BY <1>1, <1>3 DEF IInv, TypeOK, Translations
<1>5. CacheCoherent'
  <2> SUFFICES ASSUME NEW r \in Pid, NEW s \in CacheSlot, Live(r), cache'[r][s].v # None
               PROVE  /\ pages[r][cache'[r][s].v] = cache'[r][s].page
                      /\ cache'[r][s].page # 0
                      /\ s = "write" => "W" \in gflags[cache'[r][s].page]
    BY <1>1 DEF CacheCoherent, Live
  <2>1. CASE r # p
    BY <1>1, <2>1 DEF IInv, CacheCoherent, TypeOK
  <2>2. CASE r = p
    BY <1>1, <1>3, <2>2 DEF IInv, CacheCoherent, TypeOK
  <2> QED BY <2>1, <2>2
<1>6. (RefCountsExact /\ FlagsInv /\ TablesInv /\ DeadInv /\ SettidInv /\ SharedPagesUnwritten)'
  BY <1>1 DEF IInv, RefCountsExact, Holders, HoldersIn, FlagsInv, TablesInv, DeadInv,
       SettidInv, SharedPagesUnwritten, Live
<1> QED BY <1>4, <1>5, <1>6 DEF IInv

LEMMA MprotectStep ==
  ASSUME IInv, NEW p \in Pid, NEW n, NEW prot \in Prots, Mprotect(p, n, prot)
  PROVE  IInv'
<1>1. /\ pageflags' \in [Pid -> [VPage -> SUBSET Perm]]
      /\ UNCHANGED <<refs, gflags, mem, pages, cache, nprocs, settid, thrown, leaked, vdso>>
  BY ConstantsAssumption DEF Mprotect, IInv, TypeOK
<1> QED BY <1>1 DEF IInv, TypeOK, RefCountsExact, Holders, HoldersIn, FlagsInv, TablesInv, DeadInv,
       SettidInv, CacheCoherent, SharedPagesUnwritten, Live

-----------------------------------------------------------------------------
(* Stores.                                                                 *)

(* After a step of p the caches are coherent if p's own is and no page that*)
(* another live process holds stopped being writable.                      *)
LEMMA CachesKept ==
  ASSUME IInv, NEW p \in Pid, NEW g \in Table, NEW c \in Translations,
         pages' = [pages EXCEPT ![p] = g], cache' = [cache EXCEPT ![p] = c], nprocs' = nprocs,
         \A r \in Pid \ {p}, s \in VPage :
            pages[r][s] # 0 /\ "W" \in gflags[pages[r][s]] => "W" \in gflags'[pages[r][s]],
         \A s \in CacheSlot : c[s].v # None =>
            /\ g[c[s].v] = c[s].page
            /\ c[s].page # 0
            /\ s = "write" => "W" \in gflags'[c[s].page]
  PROVE  CacheCoherent'
<1> SUFFICES ASSUME NEW r \in Pid, NEW s \in CacheSlot, Live(r)', cache'[r][s].v # None
             PROVE  /\ pages'[r][cache'[r][s].v] = cache'[r][s].page
                    /\ cache'[r][s].page # 0
                    /\ s = "write" => "W" \in gflags'[cache'[r][s].page]
  BY DEF CacheCoherent
<1>1. CASE r = p
  BY <1>1 DEF IInv, TypeOK
<1>2. CASE r # p
  <2>1. pages'[r] = pages[r] /\ cache'[r] = cache[r] /\ Live(r)
    BY <1>2 DEF Live, IInv, TypeOK
  <2>2. cache[r][s].v \in VPage
    BY <2>1 DEF IInv, TypeOK
  <2> QED BY <2>1, <2>2, <1>2 DEF IInv, CacheCoherent
<1> QED BY <1>1, <1>2

LEMMA HitFacts ==
  ASSUME NEW p, NEW v, Hit(p, v, "W")
  PROVE  cache[p]["write"].v = v
BY DEF Hit

LEMMA WriteHitStep ==
  ASSUME IInv, NEW p \in Pid, NEW v \in VPage, NEW d \in Data, Live(p), WriteHit(p, v, d),
         settid' = None
  PROVE  IInv'
<1> DEFINE b == cache[p]["write"].page
<1>1. /\ mem' = [mem EXCEPT ![b] = d]
      /\ UNCHANGED <<refs, gflags, pages, pageflags, cache, nprocs, thrown, leaked, vdso>>
  BY DEF WriteHit
<1>2. "W" \in gflags[b] /\ b \in Page
  <2>1. cache[p]["write"].v = v /\ v # None
    BY HitFacts, ConstantFacts DEF WriteHit
  <2> QED BY <2>1 DEF IInv, CacheCoherent, TypeOK, CacheSlot
<1>3. b \notin {ZeroPage, vdsoPage}
  BY <1>2 DEF IInv, FlagsInv
<1>4. TypeOK'
  BY <1>1, <1>2 DEF IInv, TypeOK
<1>5. SharedPagesUnwritten'
  BY <1>1, <1>2, <1>3, ConstantFacts DEF IInv, SharedPagesUnwritten, TypeOK
<1> QED BY <1>1, <1>4, <1>5 DEF IInv, RefCountsExact, Holders, HoldersIn, FlagsInv, TablesInv,
          DeadInv, SettidInv, CacheCoherent, Live

LEMMA WriteMappedStep ==
  ASSUME IInv, NEW p \in Pid, NEW v \in VPage, NEW d \in Data, Live(p), WriteMapped(p, v, d),
         settid' = None
  PROVE  IInv'
<1> DEFINE b == pages[p][v]
           c == Filled(cache[p], "W", v, b)
<1>1. /\ mem' = [mem EXCEPT ![b] = d] /\ cache' = [cache EXCEPT ![p] = c]
      /\ UNCHANGED <<refs, gflags, pages, pageflags, nprocs, thrown, leaked, vdso>>
      /\ "W" \in gflags[b] /\ b # 0
  BY DEF WriteMapped, Allowed
<1>2. b \in Page /\ cache[p] \in Translations /\ pages[p] \in Table /\ pages' = [pages EXCEPT ![p] = pages[p]]
  BY <1>1, ConstantFacts DEF IInv, TypeOK, Translations, Table
<1>3. b \notin {ZeroPage, vdsoPage}
  BY <1>1, <1>2 DEF IInv, FlagsInv
<1>4. /\ c \in Translations
      /\ \A s \in CacheSlot : c[s] = [v |-> v, page |-> b] \/ c[s] = cache[p][s]
  BY <1>2 DEF Filled, CacheSlot, Translations
<1> HIDE DEF c
<1>5. TypeOK'
  BY <1>1, <1>2, <1>4 DEF IInv, TypeOK, Translations
<1>6. SharedPagesUnwritten'
  BY <1>1, <1>2, <1>3, ConstantFacts DEF IInv, SharedPagesUnwritten, TypeOK
<1>7. \A s \in CacheSlot : c[s].v # None =>
         /\ pages[p][c[s].v] = c[s].page /\ c[s].page # 0
         /\ s = "write" => "W" \in gflags'[c[s].page]
  BY <1>1, <1>4 DEF IInv, CacheCoherent
<1>8. CacheCoherent'
  <2>1. cache' = [cache EXCEPT ![p] = c] /\ nprocs' = nprocs
    BY <1>1
  <2>2. \A r \in Pid \ {p}, s \in VPage :
           pages[r][s] # 0 /\ "W" \in gflags[pages[r][s]] => "W" \in gflags'[pages[r][s]]
    BY <1>1
  <2> HIDE DEF b
  <2> QED BY <1>2, <1>4, <1>7, <2>1, <2>2, CachesKept
<1> QED BY <1>1, <1>5, <1>6, <1>8 DEF IInv, RefCountsExact, Holders, HoldersIn, FlagsInv, TablesInv,
          DeadInv, SettidInv, Live

LEMMA FilledAfterInvalidation ==
  ASSUME NEW v \in VPage, NEW b \in Page, NEW perm \in {"R", "W"}
  PROVE  /\ Filled(NoTranslations, perm, v, b) \in Translations
         /\ \A s \in CacheSlot : Filled(NoTranslations, perm, v, b)[s].v # None =>
              /\ Filled(NoTranslations, perm, v, b)[s] = [v |-> v, page |-> b]
              /\ s = "write" => perm = "W"
<1>1. CASE perm = "W"
  BY <1>1, ConstantFacts DEF Filled, CacheSlot, Translations, NoTranslations, NoEntry
<1>2. CASE perm = "R"
  BY <1>2, ConstantFacts DEF Filled, CacheSlot, Translations, NoTranslations, NoEntry
<1> QED BY <1>1, <1>2

LEMMA ReclaimSharedStep ==
  ASSUME IInv, NEW p \in Pid, NEW v \in VPage, NEW d \in Data, Live(p), ReclaimShared(p, v, d),
         settid' = None
  PROVE  IInv'
<1> DEFINE b == pages[p][v]
           c == Filled(NoTranslations, "W", v, b)
<1>1. /\ mem' = [mem EXCEPT ![b] = d] /\ cache' = [cache EXCEPT ![p] = c]
      /\ gflags' = [gflags EXCEPT ![b] = pageflags[p][v]]
      /\ UNCHANGED <<refs, pages, pageflags, nprocs, thrown, leaked, vdso>>
      /\ "W" \in pageflags[p][v] /\ b # 0 /\ refs[b] = 1
  BY DEF ReclaimShared, WriteFaults, Allowed, SoleUser
<1>2. b \in Page /\ pages[p] \in Table /\ pages' = [pages EXCEPT ![p] = pages[p]]
  BY <1>1, ConstantFacts DEF IInv, TypeOK, Table
<1>3. b \notin {0, ZeroPage, vdsoPage}
  BY <1>1, HeldFacts, ConstantFacts DEF IInv
<1>4. /\ c \in Translations
      /\ \A s \in CacheSlot : c[s].v # None => c[s] = [v |-> v, page |-> b]
  BY <1>2, FilledAfterInvalidation
<1> HIDE DEF c
<1>5. TypeOK'
  BY <1>1, <1>2, <1>4 DEF IInv, TypeOK, Translations
<1>6. SharedPagesUnwritten'
  BY <1>1, <1>2, <1>3, ConstantFacts DEF IInv, SharedPagesUnwritten, TypeOK
<1>7. gflags \in [Page -> SUBSET (Perm \cup {"S"})]
  BY DEF IInv, TypeOK
<1>8. CacheCoherent'
  <2>1. \A x \in Page : "W" \in gflags[x] => "W" \in gflags'[x]
    BY <1>1, <1>2, <1>7
  <2>2. \A r \in Pid \ {p}, s \in VPage :
           pages[r][s] # 0 /\ "W" \in gflags[pages[r][s]] => "W" \in gflags'[pages[r][s]]
    <3>1. \A r \in Pid, s \in VPage : pages[r][s] \in Page
      BY ConstantFacts DEF IInv, TypeOK
    <3> QED BY <2>1, <3>1
  <2>3. \A s \in CacheSlot : c[s].v # None =>
         /\ pages[p][c[s].v] = c[s].page /\ c[s].page # 0
         /\ s = "write" => "W" \in gflags'[c[s].page]
    BY <1>1, <1>2, <1>4, <1>7
  <2>4. nprocs' = nprocs
    BY <1>1
  <2> DEFINE g == pages[p]
  <2>5. g \in Table /\ pages' = [pages EXCEPT ![p] = g] /\ cache' = [cache EXCEPT ![p] = c]
    BY <1>1, <1>2
  <2>6. \A s \in CacheSlot : c[s].v # None =>
         /\ g[c[s].v] = c[s].page /\ c[s].page # 0
         /\ s = "write" => "W" \in gflags'[c[s].page]
    BY <2>3
  <2> HIDE DEF g
  <2> QED BY <1>4, <2>2, <2>4, <2>5, <2>6, CachesKept
<1>9. FlagsInv'
  BY <1>1, <1>2, <1>3, <1>7 DEF IInv, FlagsInv
<1> QED BY <1>1, <1>5, <1>6, <1>8, <1>9 DEF IInv, RefCountsExact, Holders, HoldersIn, TablesInv,
          DeadInv, SettidInv, Live

(* A live process that changes entries of its map keeps its table pages, if*)
(* the step leaves the counts of pages that its map does not hold.         *)
LEMMA TablesKept ==
  ASSUME IInv, NEW p \in Pid, NEW g \in Table, Live(p), nprocs' = nprocs,
         pages' = [pages EXCEPT ![p] = g],
         \A s \in TableSlots : g[s] = pages[p][s],
         \A t \in Page \ {0, ZeroPage, vdsoPage} :
            /\ \A x \in VPage : pages[p][x] # t
            /\ \E r \in Pid, s \in Slot : pages[r][s] = t
            => refs'[t] = refs[t]
  PROVE  TablesInv' /\ DeadInv'
<1>1. pages \in Tables /\ TableSlots \subseteq Slot /\ TableSlots \cap VPage = {}
  BY ConstantFacts DEF IInv, TypeOK, Tables, Table, TableSlots
<1>2. \A r \in Pid, s \in TableSlots : pages'[r][s] = pages[r][s]
  BY <1>1 DEF Tables
<1>3. \A r \in Pid : Live(r)' <=> Live(r)
  BY <1>2 DEF Live, TableSlots
<1>4. TablesInv'
  <2> SUFFICES ASSUME NEW r \in Pid, NEW s \in TableSlots, Live(r)
               PROVE  pages[r][s] \notin {0, ZeroPage, vdsoPage} /\ refs'[pages[r][s]] = 1
    BY <1>2, <1>3 DEF TablesInv
  <2> DEFINE t == pages[r][s]
  <2>1. t \in Page \ {0, ZeroPage, vdsoPage} /\ refs[t] = 1
    BY <1>1 DEF IInv, TablesInv, Tables, Table
  <2>2. Holders(t) = {<<r, s>>}
    BY TablePagesHeldOnce DEF TablesPrivate, TableSlots
  <2>3. \A x \in VPage : pages[p][x] # t
    <3> SUFFICES ASSUME NEW x \in VPage, pages[p][x] = t PROVE FALSE
      OBVIOUS
    <3>1. <<p, x>> \in Pid \X Slot
      BY ConstantFacts
    <3>2. <<p, x>> \in Holders(t)
      BY <3>1 DEF Holders, HoldersIn
    <3>3. x = s
      BY <3>2, <2>2
    <3> QED BY <3>3, <1>1
  <2>4. \E q \in Pid, z \in Slot : pages[q][z] = t
    BY <1>1
  <2>5. refs'[t] = refs[t]
    BY <2>1, <2>3, <2>4
  <2> QED BY <2>1, <2>5
<1>5. DeadInv'
  <2> SUFFICES ASSUME NEW r \in Pid, ~Live(r) PROVE pages'[r] = Unmapped
    BY <1>3 DEF DeadInv
  <2>1. r # p /\ pages[r] = Unmapped
    BY DEF IInv, DeadInv
  <2> QED BY <2>1, <1>1 DEF Tables
<1> QED BY <1>4, <1>5

LEMMA CopyOnWriteStep ==
  ASSUME IInv, NEW p \in Pid, NEW v \in VPage, NEW d \in Data, Live(p), CopyOnWrite(p, v, d),
         settid' = None
  PROVE  IInv'
<1> DEFINE old == pages[p][v]
<1>1. PICK b \in Frames :
        /\ refs[b] = 0
        /\ refs' = [Taken(refs, b) EXCEPT ![old] = refs[old] - 1]
        /\ gflags' = [gflags EXCEPT ![b] = pageflags[p][v]]
        /\ mem' = [mem EXCEPT ![b] = d]
        /\ pages' = [pages EXCEPT ![p][v] = b]
        /\ cache' = [cache EXCEPT ![p] = Filled(NoTranslations, "W", v, b)]
  BY DEF CopyOnWrite, Lowest, Unused
<1>2. /\ UNCHANGED <<pageflags, nprocs, thrown, leaked, vdso>>
      /\ "W" \in pageflags[p][v] /\ old # 0
  BY DEF CopyOnWrite, CopyNeeded, WriteFaults, Allowed
<1> DEFINE g == [pages[p] EXCEPT ![v] = b]
           c == Filled(NoTranslations, "W", v, b)
<1>3. /\ b \in Page \ {0, ZeroPage, vdsoPage}
      /\ \A q \in Pid, s \in Slot : pages[q][s] # b
  BY <1>1, UnusedFacts
<1>4. /\ pages \in Tables /\ pages[p] \in Table /\ g \in Table /\ old \in Page \ {0}
      /\ pages' = [pages EXCEPT ![p] = g] /\ old # b
  BY <1>1, <1>2, <1>3, ConstantFacts DEF IInv, TypeOK, Tables, Table
<1>5. refs \in [Page -> Nat] /\ refs[old] >= 1
  BY <1>2, ConstantFacts, HeldFacts DEF IInv, TypeOK
<1>6. \A x \in Page : refs'[x] = IF x = b THEN 1 ELSE IF x = old THEN refs[x] - 1 ELSE refs[x]
  BY <1>1, <1>3, <1>4, <1>5 DEF Taken
<1>7. refs' \in [Page -> Nat]
  BY <1>1, <1>3, <1>4, <1>5 DEF Taken
<1>8. \A x \in Page : Count(pages[p], x) \in Nat /\
        Count(g, x) = Count(pages[p], x) - (IF old = x THEN 1 ELSE 0) + (IF b = x THEN 1 ELSE 0)
  BY <1>3, <1>4, ConstantFacts, EntryReplaced, HoldersSplit
<1>9. RefCountsExact'
  <2>1. \A x \in Page \ {0} : refs'[x] = refs[x] - Count(pages[p], x) + Count(g, x) /\ refs'[x] \in Int
    BY <1>1, <1>5, <1>6, <1>7, <1>8
  <2> HIDE DEF g
  <2> QED BY <1>2, <1>4, <2>1, CountsKept DEF IInv
<1>10. TablesInv' /\ DeadInv'
  <2>1. \A s \in TableSlots : g[s] = pages[p][s]
    BY <1>4, ConstantFacts DEF TableSlots, Table
  <2>2. \A t \in Page \ {0, ZeroPage, vdsoPage} :
            /\ \A x \in VPage : pages[p][x] # t
            /\ \E r \in Pid, s \in Slot : pages[r][s] = t
            => refs'[t] = refs[t]
    BY <1>3, <1>6
  <2> HIDE DEF g
  <2> QED BY <1>2, <1>4, <2>1, <2>2, TablesKept
<1>11. gflags \in [Page -> SUBSET (Perm \cup {"S"})] /\ pageflags[p][v] \subseteq Perm
  BY DEF IInv, TypeOK
<1>12. FlagsInv'
  <2> SUFFICES ASSUME NEW x \in Page, "W" \in gflags'[x]
               PROVE  x \notin {0, ZeroPage, vdsoPage} /\ refs'[x] <= 1
    BY DEF FlagsInv
  <2>1. CASE x = b
    BY <2>1, <1>3, <1>6
  <2>2. CASE x # b
    BY <2>2, <1>1, <1>5, <1>6, <1>11 DEF IInv, FlagsInv
  <2> QED BY <2>1, <2>2
<1>13. /\ c \in Translations
       /\ \A s \in CacheSlot : c[s].v # None => c[s] = [v |-> v, page |-> b]
  BY <1>3, FilledAfterInvalidation
<1>14. CacheCoherent'
  <2>1. \A r \in Pid \ {p}, s \in VPage :
           pages[r][s] # 0 /\ "W" \in gflags[pages[r][s]] => "W" \in gflags'[pages[r][s]]
    <3>1. \A r \in Pid, s \in VPage : pages[r][s] \in Page \ {b}
      BY <1>3, ConstantFacts DEF IInv, TypeOK
    <3> QED BY <1>1, <3>1, <1>11
  <2>2. g[v] = b /\ "W" \in gflags'[b]
    BY <1>1, <1>2, <1>3, <1>4, <1>11, ConstantFacts DEF Table
  <2> HIDE DEF c, g
  <2>3. \A s \in CacheSlot : c[s].v # None =>
         /\ g[c[s].v] = c[s].page /\ c[s].page # 0
         /\ s = "write" => "W" \in gflags'[c[s].page]
    BY <1>3, <1>13, <2>2
  <2>4. cache' = [cache EXCEPT ![p] = c]
    BY <1>1 DEF c
  <2> QED BY <1>2, <1>4, <1>13, <2>1, <2>3, <2>4, CachesKept
<1>15. TypeOK'
  <2>1. gflags' \in [Page -> SUBSET (Perm \cup {"S"})] /\ mem' \in [Page -> Data]
    BY <1>1, <1>3, <1>11 DEF IInv, TypeOK
  <2>2. pages' \in [Pid -> [Slot -> Page]]
    BY <1>4 DEF Tables, Table
  <2>3. cache' \in [Pid -> [CacheSlot -> [v : VPage \cup {None}, page : Page]]]
    BY <1>1, <1>13 DEF IInv, TypeOK, Translations
  <2> QED BY <1>2, <1>7, <2>1, <2>2, <2>3 DEF IInv, TypeOK
<1>16. SharedPagesUnwritten'
  BY <1>1, <1>2, <1>3, ConstantFacts DEF IInv, SharedPagesUnwritten, TypeOK
<1>17. SettidInv'
  BY DEF SettidInv
<1> QED BY <1>9, <1>10, <1>12, <1>14, <1>15, <1>16, <1>17 DEF IInv

LEMMA StoreStep ==
  ASSUME IInv, NEW p \in Pid, NEW v \in VPage, NEW d \in Data, Live(p), Store(p, v, d), settid' = None
  PROVE  IInv'
BY WriteHitStep, WriteMappedStep, ReclaimSharedStep, CopyOnWriteStep DEF Store

-----------------------------------------------------------------------------
(* mmap.                                                                   *)

(* Freeing the page that a mapping replaces.                               *)
LEMMA WithoutOldFacts ==
  ASSUME IInv, NEW p \in Pid, NEW v \in VPage
  PROVE  /\ WithoutOld(p, v) \in [Page -> Nat]
         /\ \A x \in Page \ {0} : WithoutOld(p, v)[x] = refs[x] - (IF pages[p][v] = x THEN 1 ELSE 0)
         /\ WithoutOld(p, v)[ZeroPage] >= 1 /\ WithoutOld(p, v)[vdsoPage] >= 1
         /\ \A x \in Page : "W" \in FlagsWithoutOld(p, v)[x] => "W" \in gflags[x]
         /\ FlagsWithoutOld(p, v) \in [Page -> SUBSET (Perm \cup {"S"})]
         /\ \A q \in Pid \ {p}, s \in Slot : pages[q][s] # 0 =>
               /\ FlagsWithoutOld(p, v)[pages[q][s]] = gflags[pages[q][s]]
               /\ WithoutOld(p, v)[pages[q][s]] >= 1
<1> DEFINE old == pages[p][v]
<1>1. /\ pages \in Tables /\ old \in Page /\ v \in Slot
      /\ refs \in [Page -> Nat] /\ gflags \in [Page -> SUBSET (Perm \cup {"S"})]
  BY ConstantFacts DEF IInv, TypeOK, Tables, Table
<1>2. old # 0 => /\ refs[old] >= 1
                 /\ old \in {ZeroPage, vdsoPage} => refs[old] >= 2
                 /\ refs[old] = 1 => Holders(old) = {<<p, v>>}
  BY <1>1, HeldFacts DEF IInv
<1>3. WithoutOld(p, v) \in [Page -> Nat]
  BY <1>1, <1>2 DEF WithoutOld
<1>4. \A x \in Page \ {0} : WithoutOld(p, v)[x] = refs[x] - (IF old = x THEN 1 ELSE 0)
  BY <1>1, <1>2 DEF WithoutOld
<1>5. refs[ZeroPage] >= 1 /\ refs[vdsoPage] >= 1
  <2>1. \A b \in {ZeroPage, vdsoPage} : Cardinality(HoldersIn(pages, b)) \in Nat
    BY <1>1, ConstantFacts, TableReplaced DEF Tables
  <2>2. \A b \in {ZeroPage, vdsoPage} :
          refs[b] = Cardinality(HoldersIn(pages, b)) + 1 + leaked[b] /\ leaked[b] \in Nat
    <3> SUFFICES ASSUME NEW b \in {ZeroPage, vdsoPage}
                 PROVE  refs[b] = Cardinality(HoldersIn(pages, b)) + 1 + leaked[b] /\ leaked[b] \in Nat
      OBVIOUS
    <3>1. b \in Page \ {0} /\ Permanent(b) = 1
      BY ConstantFacts DEF Permanent
    <3> QED BY <3>1 DEF IInv, RefCountsExact, Holders, TypeOK
  <2> QED BY <2>1, <2>2, <1>1, ConstantFacts
<1>6. WithoutOld(p, v)[ZeroPage] >= 1 /\ WithoutOld(p, v)[vdsoPage] >= 1
  <2> SUFFICES ASSUME NEW b \in {ZeroPage, vdsoPage} PROVE WithoutOld(p, v)[b] >= 1
    OBVIOUS
  <2>1. b \in Page \ {0} /\ refs[b] \in Nat /\ refs[b] >= 1
    BY <1>1, <1>5, ConstantFacts
  <2>2. WithoutOld(p, v)[b] = refs[b] - (IF old = b THEN 1 ELSE 0)
    BY <1>4, <2>1
  <2>3. old = b => refs[b] >= 2
    BY <1>2, <2>1
  <2> QED BY <2>1, <2>2, <2>3
<1>7. /\ \A x \in Page : "W" \in FlagsWithoutOld(p, v)[x] => "W" \in gflags[x]
      /\ FlagsWithoutOld(p, v) \in [Page -> SUBSET (Perm \cup {"S"})]
  BY <1>1 DEF FlagsWithoutOld
<1>8. ASSUME NEW q \in Pid \ {p}, NEW s \in Slot, pages[q][s] # 0
      PROVE  /\ FlagsWithoutOld(p, v)[pages[q][s]] = gflags[pages[q][s]]
             /\ WithoutOld(p, v)[pages[q][s]] >= 1
  <2> DEFINE y == pages[q][s]
  <2>1. y \in Page \ {0} /\ refs[y] >= 1
    BY <1>1, <1>8, HeldFacts DEF IInv, Tables, Table
  <2>2. y = old => refs[old] >= 2
    <3>1. y = old => <<q, s>> \in Holders(old)
      BY DEF Holders, HoldersIn
    <3>2. <<q, s>> \notin {<<p, v>>}
      OBVIOUS
    <3> QED BY <3>1, <3>2, <2>1, <1>1, <1>2
  <2>3. FlagsWithoutOld(p, v)[y] = gflags[y]
    BY <1>1, <2>1, <2>2 DEF FlagsWithoutOld
  <2> QED BY <1>1, <1>4, <2>1, <2>2, <2>3
<1> QED BY <1>3, <1>4, <1>6, <1>7, <1>8

LEMMA MmapAnonymousStep ==
  ASSUME IInv, NEW p \in Pid, NEW v \in VPage, NEW prot \in Prots, Live(p), settid = None,
         MmapAnonymous(p, v, prot)
  PROVE  IInv'
<1> DEFINE r == WithoutOld(p, v)
           f == FlagsWithoutOld(p, v)
           g == [pages[p] EXCEPT ![v] = ZeroPage]
           old == pages[p][v]
<1>1. /\ refs' = [r EXCEPT ![ZeroPage] = @ + 1]
      /\ gflags' = f /\ pages' = [pages EXCEPT ![p][v] = ZeroPage]
      /\ pageflags' = [pageflags EXCEPT ![p][v] = prot]
      /\ cache' = [cache EXCEPT ![p] = NoTranslations]
      /\ UNCHANGED <<mem, nprocs, settid, thrown, leaked, vdso>>
  BY DEF MmapAnonymous
<1>2. /\ r \in [Page -> Nat]
      /\ \A x \in Page \ {0} : r[x] = refs[x] - (IF old = x THEN 1 ELSE 0)
      /\ \A x \in Page : "W" \in f[x] => "W" \in gflags[x]
      /\ f \in [Page -> SUBSET (Perm \cup {"S"})]
      /\ \A q \in Pid \ {p}, s \in Slot : pages[q][s] # 0 => f[pages[q][s]] = gflags[pages[q][s]]
  BY WithoutOldFacts
<1> HIDE DEF r, f
<1>3. /\ pages \in Tables /\ pages[p] \in Table /\ g \in Table
      /\ pages' = [pages EXCEPT ![p] = g] /\ refs \in [Page -> Nat] /\ v \in Slot
      /\ pages[p][v] \in Page
  BY <1>1, ConstantFacts DEF IInv, TypeOK, Tables, Table
<1>4. /\ refs' \in [Page -> Nat]
      /\ \A x \in Page : refs'[x] = r[x] + (IF x = ZeroPage THEN 1 ELSE 0)
  BY <1>1, <1>2, ConstantFacts
<1>5. \A x \in Page : Count(pages[p], x) \in Nat /\
        Count(g, x) = Count(pages[p], x) - (IF old = x THEN 1 ELSE 0) + (IF ZeroPage = x THEN 1 ELSE 0)
  BY <1>3, ConstantFacts, EntryReplaced, HoldersSplit
<1>6. RefCountsExact'
  <2>1. \A x \in Page \ {0} : refs'[x] = refs[x] - Count(pages[p], x) + Count(g, x) /\ refs'[x] \in Int
    BY <1>2, <1>3, <1>4, <1>5
  <2> HIDE DEF g
  <2> QED BY <1>1, <1>3, <2>1, CountsKept DEF IInv
<1>7. TablesInv' /\ DeadInv'
  <2>1. \A s \in TableSlots : g[s] = pages[p][s]
    BY <1>3, ConstantFacts DEF TableSlots, Table
  <2>2. \A t \in Page \ {0, ZeroPage, vdsoPage} :
            /\ \A x \in VPage : pages[p][x] # t
            /\ \E q \in Pid, s \in Slot : pages[q][s] = t
            => refs'[t] = refs[t]
    BY <1>2, <1>3, <1>4
  <2> HIDE DEF g
  <2> QED BY <1>1, <1>3, <2>1, <2>2, TablesKept
<1>8. FlagsInv'
  BY <1>1, <1>2, <1>3, <1>4 DEF IInv, FlagsInv
<1>9. CacheCoherent'
  <2>1. \A q \in Pid \ {p}, s \in VPage :
           pages[q][s] # 0 /\ "W" \in gflags[pages[q][s]] => "W" \in gflags'[pages[q][s]]
    BY <1>1, <1>2, ConstantFacts
  <2> DEFINE c == NoTranslations
  <2>2. /\ c \in Translations /\ \A s \in CacheSlot : c[s].v = None
        /\ cache' = [cache EXCEPT ![p] = c] /\ nprocs' = nprocs
    BY <1>1, NoTranslationsFacts
  <2> HIDE DEF c, g
  <2>3. \A s \in CacheSlot : c[s].v # None =>
         /\ g[c[s].v] = c[s].page /\ c[s].page # 0
         /\ s = "write" => "W" \in gflags'[c[s].page]
    BY <2>2
  <2> QED BY <1>3, <2>1, <2>2, <2>3, CachesKept
<1>10. TypeOK'
  <2>1. pages' \in [Pid -> [Slot -> Page]]
    BY <1>3 DEF Tables, Table
  <2>2. cache' \in [Pid -> [CacheSlot -> [v : VPage \cup {None}, page : Page]]]
    BY <1>1, NoTranslationsFacts DEF IInv, TypeOK, Translations
  <2>3. pageflags' \in [Pid -> [VPage -> SUBSET Perm]]
    BY <1>1, ConstantsAssumption DEF IInv, TypeOK
  <2> QED BY <1>1, <1>2, <1>4, <2>1, <2>2, <2>3 DEF IInv, TypeOK
<1>11. SharedPagesUnwritten' /\ SettidInv'
  BY <1>1 DEF IInv, SharedPagesUnwritten, SettidInv
<1> QED BY <1>6, <1>7, <1>8, <1>9, <1>10, <1>11 DEF IInv

LEMMA MmapFileStep ==
  ASSUME IInv, NEW p \in Pid, NEW v \in VPage, NEW prot \in Prots, NEW copied \in BOOLEAN,
         NEW d \in Data, Live(p), settid = None, MmapFile(p, v, prot, copied, d)
  PROVE  IInv'
<1> DEFINE r == WithoutOld(p, v)
           f == FlagsWithoutOld(p, v)
           old == pages[p][v]
<1>1. PICK b \in Frames :
        /\ r[b] = 0
        /\ refs' = Taken(r, b)
        /\ gflags' = [f EXCEPT ![b] = prot]
        /\ mem' = [mem EXCEPT ![b] = d]
        /\ pages' = [pages EXCEPT ![p][v] = b]
        /\ cache' = [cache EXCEPT ![p] = IF copied THEN Filled(NoTranslations, "R", v, b)
                                                   ELSE NoTranslations]
  BY DEF MmapFile, Lowest, Unused
<1>2. pageflags' = [pageflags EXCEPT ![p][v] = prot] /\ UNCHANGED <<nprocs, settid, thrown, leaked, vdso>>
  BY DEF MmapFile
<1> DEFINE g == [pages[p] EXCEPT ![v] = b]
           c == IF copied THEN Filled(NoTranslations, "R", v, b) ELSE NoTranslations
<1>3. /\ r \in [Page -> Nat]
      /\ \A x \in Page \ {0} : r[x] = refs[x] - (IF old = x THEN 1 ELSE 0)
      /\ r[ZeroPage] >= 1 /\ r[vdsoPage] >= 1
      /\ \A x \in Page : "W" \in f[x] => "W" \in gflags[x]
      /\ f \in [Page -> SUBSET (Perm \cup {"S"})]
      /\ \A q \in Pid \ {p}, s \in Slot : pages[q][s] # 0 =>
            f[pages[q][s]] = gflags[pages[q][s]] /\ r[pages[q][s]] >= 1
  BY WithoutOldFacts
<1> HIDE DEF r, f
<1>4. b \in Page \ {0, ZeroPage, vdsoPage}
  BY <1>1, <1>3, ConstantFacts
<1>5. \A q \in Pid \ {p}, s \in Slot : pages[q][s] # b
  BY <1>1, <1>3, <1>4
<1>6. /\ pages \in Tables /\ pages[p] \in Table /\ g \in Table
      /\ pages' = [pages EXCEPT ![p] = g] /\ refs \in [Page -> Nat] /\ v \in Slot
      /\ old \in Page
  BY <1>1, <1>4, ConstantFacts DEF IInv, TypeOK, Tables, Table
<1>7. /\ refs' \in [Page -> Nat]
      /\ \A x \in Page : refs'[x] = IF x = b THEN 1 ELSE r[x]
  BY <1>1, <1>3, <1>4 DEF Taken
<1>8. \A x \in Page : Count(pages[p], x) \in Nat /\
        Count(g, x) = Count(pages[p], x) - (IF old = x THEN 1 ELSE 0) + (IF b = x THEN 1 ELSE 0)
  BY <1>4, <1>6, EntryReplaced, HoldersSplit
<1>9. RefCountsExact'
  <2>1. \A x \in Page \ {0} : refs'[x] = refs[x] - Count(pages[p], x) + Count(g, x) /\ refs'[x] \in Int
    BY <1>1, <1>3, <1>6, <1>7, <1>8
  <2> HIDE DEF g
  <2> QED BY <1>2, <1>6, <2>1, CountsKept DEF IInv
<1>10. TablesInv' /\ DeadInv'
  <2>1. \A s \in TableSlots : g[s] = pages[p][s]
    BY <1>6, ConstantFacts DEF TableSlots, Table
  <2>2. \A t \in Page \ {0, ZeroPage, vdsoPage} :
            /\ \A x \in VPage : pages[p][x] # t
            /\ \E q \in Pid, s \in Slot : pages[q][s] = t
            => refs'[t] = refs[t]
    <3> SUFFICES ASSUME NEW t \in Page \ {0, ZeroPage, vdsoPage},
                        \A x \in VPage : pages[p][x] # t,
                        NEW q \in Pid, NEW s \in Slot, pages[q][s] = t
                 PROVE  refs'[t] = refs[t]
      OBVIOUS
    <3>1. r[t] = refs[t]
      <4>1. pages[p][v] # t
        OBVIOUS
      <4> QED BY <4>1, <1>3, <1>6
    <3>2. refs[t] >= 1
      BY HeldFacts DEF IInv
    <3> QED BY <3>1, <3>2, <1>1, <1>7
  <2> HIDE DEF g
  <2> QED BY <1>2, <1>6, <2>1, <2>2, TablesKept
<1>11. FlagsInv'
  <2> SUFFICES ASSUME NEW x \in Page, "W" \in gflags'[x]
               PROVE  x \notin {0, ZeroPage, vdsoPage} /\ refs'[x] <= 1
    BY DEF FlagsInv
  <2>1. CASE x = b
    BY <2>1, <1>4, <1>7
  <2>2. CASE x # b
    <3>1. "W" \in gflags[x]
      BY <2>2, <1>1, <1>3
    <3> QED BY <3>1, <2>2, <1>3, <1>6, <1>7 DEF IInv, FlagsInv
  <2> QED BY <2>1, <2>2
<1>12. /\ c \in Translations
       /\ \A s \in CacheSlot : c[s].v # None => c[s] = [v |-> v, page |-> b] /\ s # "write"
  <2>1. CASE copied
    BY <2>1, <1>4, FilledAfterInvalidation
  <2>2. CASE ~copied
    BY <2>2, NoTranslationsFacts
  <2> QED BY <2>1, <2>2
<1>13. CacheCoherent'
  <2>1. \A q \in Pid \ {p}, s \in VPage :
           pages[q][s] # 0 /\ "W" \in gflags[pages[q][s]] => "W" \in gflags'[pages[q][s]]
    <3>1. \A q \in Pid, s \in VPage : pages[q][s] \in Page /\ s \in Slot
      BY <1>6, ConstantFacts DEF Tables, Table
    <3> QED BY <1>1, <1>3, <1>5, <3>1
  <2>2. g[v] = b
    BY <1>6 DEF Table
  <2>4. cache' = [cache EXCEPT ![p] = c]
    BY <1>1
  <2> HIDE DEF c, g
  <2>3. \A s \in CacheSlot : c[s].v # None =>
         /\ g[c[s].v] = c[s].page /\ c[s].page # 0
         /\ s = "write" => "W" \in gflags'[c[s].page]
    BY <1>4, <1>12, <2>2
  <2> QED BY <1>2, <1>6, <1>12, <2>1, <2>3, <2>4, CachesKept
<1>14. TypeOK'
  <2>1. gflags' \in [Page -> SUBSET (Perm \cup {"S"})] /\ mem' \in [Page -> Data]
    BY <1>1, <1>3, <1>4, ConstantsAssumption DEF IInv, TypeOK
  <2>2. pages' \in [Pid -> [Slot -> Page]]
    BY <1>6 DEF Tables, Table
  <2>3. cache' \in [Pid -> [CacheSlot -> [v : VPage \cup {None}, page : Page]]]
    BY <1>1, <1>12 DEF IInv, TypeOK, Translations
  <2>4. pageflags' \in [Pid -> [VPage -> SUBSET Perm]]
    BY <1>2, ConstantsAssumption DEF IInv, TypeOK
  <2> QED BY <1>2, <1>7, <2>1, <2>2, <2>3, <2>4 DEF IInv, TypeOK
<1>15. SharedPagesUnwritten'
  BY <1>1, <1>2, <1>4, ConstantFacts DEF IInv, SharedPagesUnwritten, TypeOK
<1>16. SettidInv'
  BY <1>2 DEF SettidInv
<1> QED BY <1>9, <1>10, <1>11, <1>13, <1>14, <1>15, <1>16 DEF IInv

-----------------------------------------------------------------------------
(* Release of a process, and execution of a new image.                     *)

LEMMA UnmappedFacts ==
  /\ Unmapped \in Table
  /\ \A b \in Page \ {0} : Count(Unmapped, b) = 0
<1>1. Unmapped \in Table
  BY ConstantFacts DEF Unmapped, Table
<1>2. ASSUME NEW b \in Page \ {0} PROVE {s \in Slot : Unmapped[s] = b} = {}
  BY DEF Unmapped
<1> QED BY <1>1, <1>2, FS_EmptySet DEF Count

LEMMA DroppedFacts ==
  ASSUME IInv, NEW p \in Pid
  PROVE  /\ Dropped(p) \in [Page -> Nat]
         /\ \A x \in Page \ {0} : Dropped(p)[x] = refs[x] - Count(pages[p], x)
         /\ \A x \in Page \ {0} : Count(pages[p], x) \in Nat
         /\ Dropped(p)[ZeroPage] >= 1 /\ Dropped(p)[vdsoPage] >= 1
         /\ \A x \in Page : "W" \in DroppedFlags(p)[x] => "W" \in gflags[x]
         /\ DroppedFlags(p) \in [Page -> SUBSET (Perm \cup {"S"})]
         /\ \A q \in Pid \ {p}, s \in Slot : pages[q][s] # 0 =>
               /\ DroppedFlags(p)[pages[q][s]] = gflags[pages[q][s]]
               /\ Dropped(p)[pages[q][s]] >= 1
<1> DEFINE f2 == [pages EXCEPT ![p] = Unmapped]
<1>1. /\ pages \in Tables /\ f2 \in Tables
      /\ refs \in [Page -> Nat] /\ gflags \in [Page -> SUBSET (Perm \cup {"S"})]
  BY UnmappedFacts DEF IInv, TypeOK, Tables, Table
<1>2. ASSUME NEW x \in Page \ {0}
      PROVE  /\ Dropped(p)[x] = refs[x] - Count(pages[p], x)
             /\ Count(pages[p], x) \in Nat
             /\ Cardinality(HoldersIn(f2, x)) \in Nat
             /\ Dropped(p)[x] >= Cardinality(HoldersIn(f2, x)) + Permanent(x)
             /\ Dropped(p)[x] \in Nat
  <2>1. /\ Cardinality(HoldersIn(f2, x)) = Cardinality(HoldersIn(pages, x)) - Count(pages[p], x)
        /\ Count(pages[p], x) \in Nat
        /\ Cardinality(HoldersIn(f2, x)) \in Nat /\ Cardinality(HoldersIn(pages, x)) \in Nat
    BY <1>1, UnmappedFacts, TableReplaced
  <2>2. refs[x] = Cardinality(HoldersIn(pages, x)) + Permanent(x) + leaked[x] /\ leaked[x] \in Nat
    BY DEF IInv, RefCountsExact, Holders, TypeOK
  <2>3. Permanent(x) \in Nat
    BY DEF Permanent
  <2>4. Dropped(p)[x] = refs[x] - Count(pages[p], x)
    BY DEF Dropped
  <2> HIDE DEF f2
  <2> QED BY <1>1, <2>1, <2>2, <2>3, <2>4
<1>3. Dropped(p) \in [Page -> Nat]
  BY <1>1, <1>2 DEF Dropped
<1>4. Dropped(p)[ZeroPage] >= 1 /\ Dropped(p)[vdsoPage] >= 1
  BY <1>2, ConstantFacts DEF Permanent
<1>5. /\ \A x \in Page : "W" \in DroppedFlags(p)[x] => "W" \in gflags[x]
      /\ DroppedFlags(p) \in [Page -> SUBSET (Perm \cup {"S"})]
  BY <1>1 DEF DroppedFlags
<1>6. ASSUME NEW q \in Pid \ {p}, NEW s \in Slot, pages[q][s] # 0
      PROVE  /\ DroppedFlags(p)[pages[q][s]] = gflags[pages[q][s]]
             /\ Dropped(p)[pages[q][s]] >= 1
  <2> DEFINE x == pages[q][s]
  <2>1. x \in Page \ {0} /\ f2[q][s] = x
    BY <1>1, <1>6 DEF Tables, Table
  <2>2. Cardinality(HoldersIn(f2, x)) >= 1
    BY <1>1, <2>1, HeldIsCounted
  <2>3. Permanent(x) \in Nat
    BY DEF Permanent
  <2>4. Dropped(p)[x] >= 1
    <3> HIDE DEF f2
    <3> QED BY <1>2, <2>1, <2>2, <2>3
  <2>5. DroppedFlags(p)[x] = gflags[x]
    BY <2>1, <2>4 DEF DroppedFlags
  <2> QED BY <2>4, <2>5
<1> QED BY <1>2, <1>3, <1>4, <1>5, <1>6

(* What a step that drops p's table keeps of the other processes.          *)
LEMMA OthersAfterDrop ==
  ASSUME IInv, NEW p \in Pid, NEW g \in Table, pages' = [pages EXCEPT ![p] = g], nprocs' = nprocs,
         \A q \in Pid \ {p}, s \in Slot : pages[q][s] # 0 =>
           /\ refs'[pages[q][s]] = 1 \/ refs'[pages[q][s]] = Dropped(p)[pages[q][s]]
                \/ pages[q][s] \in {ZeroPage, vdsoPage}
           /\ gflags'[pages[q][s]] = gflags[pages[q][s]]
  PROVE  /\ \A q \in Pid \ {p}, s \in TableSlots : Live(q)' =>
              pages'[q][s] \notin {0, ZeroPage, vdsoPage} /\ refs'[pages'[q][s]] = 1
         /\ \A q \in Pid \ {p} : ~Live(q)' => pages'[q] = Unmapped
         /\ \A q \in Pid \ {p} : cache'[q] = cache[q] =>
              \A s \in CacheSlot : Live(q)' /\ cache'[q][s].v # None =>
                /\ pages'[q][cache'[q][s].v] = cache'[q][s].page
                /\ cache'[q][s].page # 0
                /\ s = "write" => "W" \in gflags'[cache'[q][s].page]
<1>1. pages \in Tables /\ TableSlots \subseteq Slot
  BY ConstantFacts DEF IInv, TypeOK, Tables, Table, TableSlots
<1>2. \A q \in Pid \ {p} : pages'[q] = pages[q] /\ (Live(q)' <=> Live(q))
  BY <1>1 DEF Tables, Live
<1>3. ASSUME NEW q \in Pid \ {p}, NEW s \in TableSlots, Live(q)
      PROVE  pages[q][s] \notin {0, ZeroPage, vdsoPage} /\ refs'[pages[q][s]] = 1
  <2> DEFINE t == pages[q][s]
  <2>1. t \in Page \ {0} /\ t \notin {ZeroPage, vdsoPage} /\ refs[t] = 1
    BY <1>1, <1>3 DEF IInv, TablesInv, Tables, Table
  <2>2. Dropped(p)[t] >= 1 /\ Dropped(p)[t] = refs[t] - Count(pages[p], t) /\ Count(pages[p], t) \in Nat
    BY <1>1, <2>1, DroppedFacts
  <2>3. Dropped(p)[t] = 1
    BY <2>1, <2>2
  <2> QED BY <1>1, <2>1, <2>3
<1>4. \A q \in Pid \ {p} : ~Live(q) => pages[q] = Unmapped
  BY DEF IInv, DeadInv
<1>5. ASSUME NEW q \in Pid \ {p}, NEW s \in CacheSlot, Live(q), cache[q][s].v # None
      PROVE  /\ pages[q][cache[q][s].v] = cache[q][s].page
             /\ cache[q][s].page # 0
             /\ s = "write" => "W" \in gflags'[cache[q][s].page]
  <2>1. /\ pages[q][cache[q][s].v] = cache[q][s].page
        /\ cache[q][s].page # 0
        /\ s = "write" => "W" \in gflags[cache[q][s].page]
    BY <1>5 DEF IInv, CacheCoherent
  <2>2. cache[q][s].v \in Slot
    BY <1>5, ConstantFacts DEF IInv, TypeOK
  <2> QED BY <2>1, <2>2
<1> QED BY <1>2, <1>3, <1>4, <1>5

LEMMA ExitStep ==
  ASSUME IInv, NEW p \in Pid, settid = None, Exit(p)
  PROVE  IInv'
<1>1. /\ refs' = Dropped(p) /\ gflags' = DroppedFlags(p)
      /\ pages' = [pages EXCEPT ![p] = Unmapped]
      /\ pageflags' = [pageflags EXCEPT ![p] = NoFlags]
      /\ UNCHANGED <<mem, cache, nprocs, settid, thrown, leaked, vdso>>
  BY DEF Exit
<1>2. RefCountsExact' /\ pages' \in Tables
  <2>1. \A x \in Page \ {0} :
           /\ refs'[x] = refs[x] - Count(pages[p], x) + Count(Unmapped, x)
           /\ refs'[x] \in Int
    BY <1>1, DroppedFacts, UnmappedFacts DEF IInv, TypeOK
  <2> QED BY <1>1, <2>1, UnmappedFacts, CountsKept DEF IInv
<1>3. /\ \A q \in Pid \ {p}, s \in TableSlots : Live(q)' =>
              pages'[q][s] \notin {0, ZeroPage, vdsoPage} /\ refs'[pages'[q][s]] = 1
      /\ \A q \in Pid \ {p} : ~Live(q)' => pages'[q] = Unmapped
      /\ \A q \in Pid \ {p}, s \in CacheSlot : Live(q)' /\ cache'[q][s].v # None =>
                /\ pages'[q][cache'[q][s].v] = cache'[q][s].page
                /\ cache'[q][s].page # 0
                /\ s = "write" => "W" \in gflags'[cache'[q][s].page]
  <2>1. \A q \in Pid \ {p}, s \in Slot : pages[q][s] # 0 =>
           /\ refs'[pages[q][s]] = 1 \/ refs'[pages[q][s]] = Dropped(p)[pages[q][s]]
                \/ pages[q][s] \in {ZeroPage, vdsoPage}
           /\ gflags'[pages[q][s]] = gflags[pages[q][s]]
    BY <1>1, DroppedFacts
  <2>2. nprocs' = nprocs /\ cache' = cache
    BY <1>1
  <2> QED BY <1>1, <2>1, <2>2, UnmappedFacts, OthersAfterDrop
<1>4. ~Live(p)' /\ pages'[p] = Unmapped
  BY <1>1, ConstantFacts DEF Live, Unmapped, IInv, TypeOK
<1>5. TablesInv' /\ DeadInv' /\ CacheCoherent'
  BY <1>3, <1>4 DEF TablesInv, DeadInv, CacheCoherent
<1>6. FlagsInv'
  <2> SUFFICES ASSUME NEW x \in Page, "W" \in gflags'[x]
               PROVE  x \notin {0, ZeroPage, vdsoPage} /\ refs'[x] <= 1
    BY DEF FlagsInv
  <2>1. x \notin {0, ZeroPage, vdsoPage} /\ refs[x] <= 1
    BY <1>1, DroppedFacts DEF IInv, FlagsInv
  <2>2. refs'[x] = refs[x] - Count(pages[p], x) /\ Count(pages[p], x) \in Nat /\ refs[x] \in Nat
    BY <1>1, <2>1, DroppedFacts DEF IInv, TypeOK
  <2> QED BY <2>1, <2>2
<1>7. TypeOK'
  <2>1. refs' \in [Page -> Nat] /\ gflags' \in [Page -> SUBSET (Perm \cup {"S"})]
    BY <1>1, DroppedFacts
  <2>2. pages' \in [Pid -> [Slot -> Page]]
    BY <1>2 DEF Tables, Table
  <2>3. pageflags' \in [Pid -> [VPage -> SUBSET Perm]]
    BY <1>1 DEF NoFlags, IInv, TypeOK
  <2> QED BY <1>1, <2>1, <2>2, <2>3 DEF IInv, TypeOK
<1>8. SharedPagesUnwritten' /\ SettidInv'
  BY <1>1 DEF IInv, SharedPagesUnwritten, SettidInv
<1> QED BY <1>2, <1>5, <1>6, <1>7, <1>8 DEF IInv

(* An image holds its table pages, its stack, the zero page, the vdso and  *)
(* the page of its segment, unless the heap or the stack took its place.   *)
Distinct(t, pm, pf, tx, st) ==
  /\ pm \in Page \ {0, ZeroPage, vdsoPage} /\ pf \in Page \ {0, ZeroPage, vdsoPage}
  /\ st \in Page \ {0, ZeroPage, vdsoPage} /\ tx \in Page \ {0, ZeroPage}
  /\ pm # pf /\ pm # tx /\ pm # st /\ pf # tx /\ pf # st /\ tx # st
  /\ tx = vdsoPage <=> t = VdsoAt

LEMMA ImageFacts ==
  ASSUME NEW t \in TextPages, NEW pm, NEW pf, NEW tx, NEW st, Distinct(t, pm, pf, tx, st)
  PROVE  /\ ImagePages(t, pm, pf, tx, st) \in Table
         /\ \A x \in Page \ {0} : Count(ImagePages(t, pm, pf, tx, st), x) =
              IF x \in {pm, pf, st, ZeroPage, vdsoPage} \/ (x = tx /\ t \notin {HeapPage, StackPage})
              THEN 1 ELSE 0
         /\ ImagePages(t, pm, pf, tx, st)[PagemapSlot] = pm
         /\ ImagePages(t, pm, pf, tx, st)[PageflagsSlot] = pf
         /\ \A v \in VPage : ImagePages(t, pm, pf, tx, st)[v] =
              IF v = StackPage THEN st ELSE IF v = HeapPage THEN ZeroPage
              ELSE IF v = VdsoAt THEN vdsoPage ELSE IF v = t THEN tx ELSE 0
<1> DEFINE g == ImagePages(t, pm, pf, tx, st)
           home == {PagemapSlot, PageflagsSlot, VdsoAt, t, HeapPage, StackPage}
<1>0. /\ pm \in Page \ {0, ZeroPage, vdsoPage} /\ pf \in Page \ {0, ZeroPage, vdsoPage}
      /\ st \in Page \ {0, ZeroPage, vdsoPage} /\ tx \in Page \ {0, ZeroPage}
      /\ pm # pf /\ pm # tx /\ pm # st /\ pf # tx /\ pf # st /\ tx # st
      /\ tx = vdsoPage <=> t = VdsoAt
  BY DEF Distinct
<1>1. home \subseteq Slot /\ t \in VPage /\ {VdsoAt, HeapPage, StackPage} \subseteq VPage
  BY ConstantsAssumption, ConstantFacts
<1>2. /\ PagemapSlot # PageflagsSlot
      /\ PagemapSlot \notin {VdsoAt, t, HeapPage, StackPage}
      /\ PageflagsSlot \notin {VdsoAt, t, HeapPage, StackPage}
      /\ HeapPage \notin {StackPage, VdsoAt} /\ StackPage # VdsoAt
  BY <1>1, ConstantsAssumption, ConstantFacts
<1>3. g = [s \in Slot |-> IF s = StackPage THEN st ELSE IF s = HeapPage THEN ZeroPage
                          ELSE IF s = VdsoAt THEN vdsoPage ELSE IF s = t THEN tx
                          ELSE IF s = PageflagsSlot THEN pf ELSE IF s = PagemapSlot THEN pm ELSE 0]
  BY <1>1, <1>2 DEF ImagePages, Unmapped
<1> HIDE DEF g
<1>4. g \in Table
  BY <1>0, <1>3, ConstantFacts DEF Table
<1>5. g[PagemapSlot] = pm /\ g[PageflagsSlot] = pf
  BY <1>1, <1>2, <1>3
<1>6. \A v \in VPage : g[v] =
        IF v = StackPage THEN st ELSE IF v = HeapPage THEN ZeroPage
        ELSE IF v = VdsoAt THEN vdsoPage ELSE IF v = t THEN tx ELSE 0
  BY <1>3, ConstantFacts
<1>7. /\ {s \in Slot : g[s] = pm} = {PagemapSlot}
      /\ {s \in Slot : g[s] = pf} = {PageflagsSlot}
      /\ {s \in Slot : g[s] = st} = {StackPage}
      /\ {s \in Slot : g[s] = ZeroPage} = {HeapPage}
      /\ {s \in Slot : g[s] = vdsoPage} = {VdsoAt}
  <2>1. {s \in Slot : g[s] = pm} = {PagemapSlot}
    BY <1>0, <1>1, <1>2, <1>3, ConstantFacts
  <2>2. {s \in Slot : g[s] = pf} = {PageflagsSlot}
    BY <1>0, <1>1, <1>2, <1>3, ConstantFacts
  <2>3. {s \in Slot : g[s] = st} = {StackPage}
    BY <1>0, <1>1, <1>2, <1>3, ConstantFacts
  <2>4. {s \in Slot : g[s] = ZeroPage} = {HeapPage}
    BY <1>0, <1>1, <1>2, <1>3, ConstantFacts
  <2>5. {s \in Slot : g[s] = vdsoPage} = {VdsoAt}
    BY <1>0, <1>1, <1>2, <1>3, ConstantFacts
  <2> QED BY <2>1, <2>2, <2>3, <2>4, <2>5
<1>8. t \notin {HeapPage, StackPage} => \E y : {s \in Slot : g[s] = tx} = {y}
  <2>1. CASE t = VdsoAt
    BY <1>0, <1>7, <2>1
  <2>2. CASE t \notin {HeapPage, StackPage, VdsoAt}
    <3>1. {s \in Slot : g[s] = tx} = {t}
      BY <1>0, <1>1, <1>2, <1>3, <2>2, ConstantFacts
    <3> QED BY <3>1
  <2> QED BY <2>1, <2>2
<1>9. ASSUME NEW x \in Page \ {0}
      PROVE  Count(g, x) =
              IF x \in {pm, pf, st, ZeroPage, vdsoPage} \/ (x = tx /\ t \notin {HeapPage, StackPage})
              THEN 1 ELSE 0
  <2>1. ASSUME NEW y, {s \in Slot : g[s] = x} = {y} PROVE Count(g, x) = 1
    <3>1. Cardinality({y}) = 1
      BY FS_Singleton, Zenon
    <3> QED BY <2>1, <3>1, Zenon DEF Count
  <2>2. CASE x \in {pm, pf, st, ZeroPage, vdsoPage}
    <3>1. \E y : {s \in Slot : g[s] = x} = {y}
      <4>1. ASSUME NEW b, NEW s \in Slot, {u \in Slot : g[u] = b} = {s}, x = b
            PROVE  {u \in Slot : g[u] = x} = {s}
        BY <4>1
      <4>2. x = pm \/ x = pf \/ x = st \/ x = ZeroPage \/ x = vdsoPage
        BY <2>2
      <4>3. {PagemapSlot, PageflagsSlot, StackPage, HeapPage, VdsoAt} \subseteq Slot
        BY <1>1
      <4> QED BY ONLY <1>7, <4>1, <4>2, <4>3, ZenonT(30)
    <3> QED BY <2>1, <2>2, <3>1
  <2>3. CASE x = tx /\ t \notin {HeapPage, StackPage}
    BY <1>8, <2>1, <2>3
  <2>4. CASE ~(x \in {pm, pf, st, ZeroPage, vdsoPage} \/ (x = tx /\ t \notin {HeapPage, StackPage}))
    <3>1. {s \in Slot : g[s] = x} = {}
      BY <1>2, <1>3, <2>4
    <3> QED BY <2>4, <3>1, FS_EmptySet DEF Count
  <2> QED BY <2>2, <2>3, <2>4
<1> QED BY <1>4, <1>5, <1>6, <1>9 DEF g

(* What an execve allocates and leaves.                                    *)
Loads(p, t, prot, text, argv, pm, pf, tx, st) ==
  /\ refs' = ImageRefs(Dropped(p), pm, pf, tx, st)
  /\ gflags' = ImageGlobalFlags(DroppedFlags(p), prot, pm, pf, tx, st)
  /\ mem' = [mem EXCEPT ![tx] = text, ![st] = argv]
  /\ pages' = [pages EXCEPT ![p] = ImagePages(t, pm, pf, tx, st)]
  /\ cache' = [cache EXCEPT ![p] = ImageCache(st)]
  /\ leaked' = ImageLeaks(leaked, t, tx)

LEMMA ExecFrames ==
  ASSUME IInv, NEW p \in Pid, NEW t \in TextPages, NEW prot \in Prots, NEW text \in Data,
         NEW argv \in Data, Exec(p, t, prot, text, argv)
  PROVE  \E pm, pf, tx, st :
           /\ Distinct(t, pm, pf, tx, st)
           /\ \A x \in {pm, pf, st} : Dropped(p)[x] = 0
           /\ tx # vdsoPage => Dropped(p)[tx] = 0
           /\ Loads(p, t, prot, text, argv, pm, pf, tx, st)
<1> DEFINE r == Dropped(p)
           Post(pm, pf, tx, st) == Loads(p, t, prot, text, argv, pm, pf, tx, st)
<1>1. \E pm \in Frames : Lowest(r, pm) /\
      \E pf \in Frames : Lowest(Taken(r, pm), pf) /\
      \E tx \in Frames : SegmentFrame(Taken(Taken(r, pm), pf), t, tx) /\
      \E st \in Frames : Lowest(ImageTaken(r, pm, pf, tx), st) /\ Post(pm, pf, tx, st)
  BY DEF Exec, Loads
<1>2. r \in [Page -> Nat] /\ r[ZeroPage] >= 1 /\ r[vdsoPage] >= 1
  BY DroppedFacts
<1> HIDE DEF r, Post
<1>3. PICK pm \in Frames, pf \in Frames, tx \in Frames, st \in Frames :
        /\ Lowest(r, pm) /\ Lowest(Taken(r, pm), pf)
        /\ SegmentFrame(Taken(Taken(r, pm), pf), t, tx)
        /\ Lowest(ImageTaken(r, pm, pf, tx), st)
        /\ Post(pm, pf, tx, st)
  BY <1>1, Zenon
<1>4. {pm, pf, tx, st} \subseteq Page \ {0, ZeroPage} /\ vdsoPage \in Page
  BY ConstantFacts
<1>5. pm # pf /\ r[pm] = 0 /\ r[pf] = 0
  BY <1>2, <1>3, <1>4 DEF Lowest, Taken
<1>6. pm # vdsoPage /\ pf # vdsoPage
  BY <1>2, <1>5
<1>7. /\ tx = vdsoPage <=> t = VdsoAt
      /\ tx # pm /\ tx # pf /\ (tx # vdsoPage => r[tx] = 0)
  <2>1. CASE t = VdsoAt
    BY <1>3, <1>6, <2>1 DEF SegmentFrame
  <2>2. CASE t # VdsoAt
    <3>1. Taken(Taken(r, pm), pf)[tx] = 0
      BY <1>3, <2>2 DEF SegmentFrame, Lowest
    <3>2. tx # pm /\ tx # pf /\ r[tx] = 0
      BY <1>2, <1>4, <3>1 DEF Taken
    <3> QED BY <1>2, <2>2, <3>2
  <2> QED BY <2>1, <2>2
<1>8. st # pm /\ st # pf /\ st # tx /\ r[st] = 0 /\ st # vdsoPage
  <2>1. ImageTaken(r, pm, pf, tx)[st] = 0
    BY <1>3 DEF Lowest
  <2>2. st # pm /\ st # pf /\ r[st] = 0
    BY <1>2, <1>4, <2>1 DEF ImageTaken, Taken
  <2>3. st # vdsoPage
    BY <1>2, <2>2
  <2>4. tx # vdsoPage => st # tx
    BY <1>2, <1>4, <2>1 DEF ImageTaken, Taken
  <2> QED BY <2>2, <2>3, <2>4
<1>9. Distinct(t, pm, pf, tx, st)
  BY <1>4, <1>5, <1>6, <1>7, <1>8 DEF Distinct
<1> QED BY <1>3, <1>5, <1>7, <1>8, <1>9 DEF r, Post

LEMMA ImageCacheFacts ==
  ASSUME NEW st \in Page
  PROVE  /\ ImageCache(st) \in Translations
         /\ \A s \in CacheSlot : ImageCache(st)[s].v # None => ImageCache(st)[s] = [v |-> StackPage, page |-> st]
BY ConstantsAssumption, ConstantFacts
DEF ImageCache, NoTranslations, NoEntry, CacheSlot, Translations

LEMMA ImageFlagsType ==
  ASSUME NEW t \in TextPages, NEW prot \in Prots
  PROVE  ImageFlags(t, prot) \in [VPage -> SUBSET Perm]
BY ConstantsAssumption DEF ImageFlags, NoFlags, Perm

LEMMA ExecStep ==
  ASSUME IInv, NEW p \in Pid, NEW t \in TextPages, NEW prot \in Prots, NEW text \in Data,
         NEW argv \in Data, Live(p), settid = None, Exec(p, t, prot, text, argv)
  PROVE  IInv'
<1> DEFINE r == Dropped(p)
           f == DroppedFlags(p)
<1>1. PICK pm, pf, tx, st :
        /\ Distinct(t, pm, pf, tx, st)
        /\ \A x \in {pm, pf, st} : r[x] = 0
        /\ tx # vdsoPage => r[tx] = 0
        /\ Loads(p, t, prot, text, argv, pm, pf, tx, st)
  BY ExecFrames
<1>2. /\ pageflags' = [pageflags EXCEPT ![p] = ImageFlags(t, prot)]
      /\ vdso' = IF t = VdsoAt THEN text ELSE vdso
      /\ UNCHANGED <<nprocs, settid, thrown>>
  BY DEF Exec
<1>3. /\ r \in [Page -> Nat]
      /\ \A x \in Page \ {0} : r[x] = refs[x] - Count(pages[p], x) /\ Count(pages[p], x) \in Nat
      /\ r[ZeroPage] >= 1 /\ r[vdsoPage] >= 1
      /\ \A x \in Page : "W" \in f[x] => "W" \in gflags[x]
      /\ f \in [Page -> SUBSET (Perm \cup {"S"})]
      /\ \A q \in Pid \ {p}, s \in Slot : pages[q][s] # 0 =>
            f[pages[q][s]] = gflags[pages[q][s]] /\ r[pages[q][s]] >= 1
  BY DroppedFacts
<1> DEFINE own == Owned(pm, pf, tx, st)
           g == ImagePages(t, pm, pf, tx, st)
           lost(x) == IF t \in {HeapPage, StackPage} /\ x = tx THEN 1 ELSE 0
<1>4. /\ pm \in Page \ {0, ZeroPage, vdsoPage} /\ pf \in Page \ {0, ZeroPage, vdsoPage}
      /\ st \in Page \ {0, ZeroPage, vdsoPage} /\ tx \in Page \ {0, ZeroPage}
      /\ pm # pf /\ pm # tx /\ pm # st /\ pf # tx /\ pf # st /\ tx # st
      /\ tx = vdsoPage <=> t = VdsoAt
  BY <1>1 DEF Distinct
<1>5. /\ g \in Table
      /\ \A x \in Page \ {0} : Count(g, x) =
           IF x \in {pm, pf, st, ZeroPage, vdsoPage} \/ (x = tx /\ t \notin {HeapPage, StackPage})
           THEN 1 ELSE 0
      /\ g[StackPage] = st /\ g[PagemapSlot] = pm /\ g[PageflagsSlot] = pf
  <2>1. StackPage \in VPage
    BY ConstantsAssumption
  <2> QED BY <1>1, <2>1, ImageFacts
<1> HIDE DEF g
<1>6. /\ \A x \in Page : x \in own <=> x \in {pm, pf, tx, st} /\ x # vdsoPage
      /\ \A x \in own : r[x] = 0
      /\ own \subseteq Page
  BY <1>1, <1>4 DEF Owned
<1>7. /\ refs' = [b \in Page |-> CASE b \in own -> 1
                                  [] b \in {ZeroPage, vdsoPage} -> r[b] + 1
                                  [] OTHER -> r[b]]
      /\ gflags' = [b \in Page |-> CASE b \in {pm, pf} -> {}
                                     [] b = tx /\ tx # vdsoPage -> prot
                                     [] b = st -> {"R", "W"}
                                     [] OTHER -> f[b]]
      /\ mem' = [mem EXCEPT ![tx] = text, ![st] = argv]
      /\ pages' = [pages EXCEPT ![p] = g]
      /\ cache' = [cache EXCEPT ![p] = ImageCache(st)]
      /\ leaked' = ImageLeaks(leaked, t, tx)
  BY <1>1 DEF Loads, ImageRefs, ImageGlobalFlags, g
<1> HIDE DEF r, f, own
<1>8. /\ refs' \in [Page -> Nat]
      /\ \A x \in Page : refs'[x] = IF x \in own THEN 1
                                   ELSE IF x \in {ZeroPage, vdsoPage} THEN r[x] + 1 ELSE r[x]
  <2>1. \A x \in Page : refs'[x] = IF x \in own THEN 1
                                   ELSE IF x \in {ZeroPage, vdsoPage} THEN r[x] + 1 ELSE r[x]
    BY <1>4, <1>6, <1>7, ConstantFacts
  <2>2. \A x \in Page : refs'[x] \in Nat
    BY <1>3, <2>1
  <2> QED BY <1>7, <2>1, <2>2
<1>9. refs \in [Page -> Nat] /\ pages \in Tables /\ pages'[p] = g /\ leaked \in [Page -> Nat]
  BY <1>7 DEF IInv, TypeOK, Tables, Table
<1>10. /\ leaked' \in [Page -> Nat]
       /\ \A x \in Page : leaked'[x] = leaked[x] + lost(x)
  <2>1. CASE t \in {HeapPage, StackPage}
    BY <1>4, <1>7, <1>9, <2>1 DEF ImageLeaks
  <2>2. CASE t \notin {HeapPage, StackPage}
    BY <1>7, <1>9, <2>2 DEF ImageLeaks
  <2> QED BY <2>1, <2>2
<1>11. RefCountsExact' /\ pages' \in Tables
  <2>1. ASSUME NEW x \in Page \ {0}
        PROVE  refs'[x] = refs[x] - Count(pages[p], x) + Count(g, x) + leaked'[x] - leaked[x]
    <3> DEFINE now == Count(g, x)
               held == Count(pages[p], x)
    <3>1. /\ r[x] = refs[x] - held /\ held \in Nat /\ refs[x] \in Nat /\ leaked[x] \in Nat
          /\ leaked'[x] = leaked[x] + lost(x)
      BY <1>3, <1>9, <1>10
    <3>2. t \in {HeapPage, StackPage} => t # VdsoAt
      BY ConstantsAssumption
    <3>3. refs'[x] = r[x] + now + lost(x) /\ now \in Nat /\ lost(x) \in Nat
      <4>1. now = IF x \in {pm, pf, st, ZeroPage, vdsoPage} \/ (x = tx /\ t \notin {HeapPage, StackPage})
                  THEN 1 ELSE 0
        BY <1>5
      <4>2. r[x] \in Nat
        BY <1>3
      <4>3. CASE x \in own
        <5>1. refs'[x] = 1 /\ r[x] = 0 /\ x \in {pm, pf, tx, st} /\ x # vdsoPage
          BY <1>6, <1>8, <4>3
        <5>2. x # tx \/ t \notin {HeapPage, StackPage} => now = 1 /\ lost(x) = 0
          BY <1>4, <4>1, <5>1
        <5>3. x = tx /\ t \in {HeapPage, StackPage} => now = 0 /\ lost(x) = 1
          BY <1>4, <4>1, <5>1, ConstantFacts
        <5> HIDE DEF now, lost
        <5> QED BY <5>1, <5>2, <5>3
      <4>4. CASE x \in {ZeroPage, vdsoPage}
        <5>1. x \notin own /\ refs'[x] = r[x] + 1
          BY <1>4, <1>6, <1>8, <4>4, ConstantFacts
        <5>2. now = 1 /\ lost(x) = 0
          BY <1>4, <3>2, <4>1, <4>4
        <5> HIDE DEF now, lost
        <5> QED BY <4>2, <5>1, <5>2
      <4>5. CASE x \notin own /\ x \notin {ZeroPage, vdsoPage}
        <5>1. refs'[x] = r[x] /\ x \notin {pm, pf, tx, st}
          BY <1>6, <1>8, <4>5
        <5>2. now = 0 /\ lost(x) = 0
          BY <4>1, <4>5, <5>1
        <5> HIDE DEF now, lost
        <5> QED BY <4>2, <5>1, <5>2
      <4> QED BY <4>3, <4>4, <4>5
    <3> HIDE DEF now, held, lost
    <3>4. refs'[x] = refs[x] - held + now + leaked'[x] - leaked[x]
      BY <3>1, <3>3
    <3> QED BY <3>4 DEF now, held
  <2>2. \A x \in Page \ {0} :
          refs'[x] = refs[x] - Count(pages[p], x) + Count(g, x) + leaked'[x] - leaked[x]
    BY <2>1
  <2>3. TypeOK /\ RefCountsExact /\ pages' = [pages EXCEPT ![p] = g]
    BY <1>7 DEF IInv
  <2> QED BY <1>5, <1>10, <2>2, <2>3, CountsMoved
<1>12. \A q \in Pid \ {p}, s \in Slot : pages[q][s] # 0 =>
           /\ refs'[pages[q][s]] = 1 \/ refs'[pages[q][s]] = Dropped(p)[pages[q][s]]
                \/ pages[q][s] \in {ZeroPage, vdsoPage}
           /\ gflags'[pages[q][s]] = gflags[pages[q][s]]
  <2> SUFFICES ASSUME NEW q \in Pid \ {p}, NEW s \in Slot, pages[q][s] # 0
               PROVE  /\ refs'[pages[q][s]] = r[pages[q][s]] \/ pages[q][s] \in {ZeroPage, vdsoPage}
                      /\ gflags'[pages[q][s]] = gflags[pages[q][s]]
    BY DEF r
  <2>1. pages[q][s] \in Page /\ pages[q][s] \notin own
    BY <1>3, <1>6, <1>9 DEF Tables, Table
  <2>2. pages[q][s] = vdsoPage \/ pages[q][s] \notin {pm, pf, tx, st}
    BY <1>6, <2>1
  <2>3. gflags'[pages[q][s]] = f[pages[q][s]]
    BY <1>4, <1>7, <2>1, <2>2
  <2> QED BY <1>3, <1>8, <2>1, <2>3
<1>13. /\ \A q \in Pid \ {p}, s \in TableSlots : Live(q)' =>
              pages'[q][s] \notin {0, ZeroPage, vdsoPage} /\ refs'[pages'[q][s]] = 1
       /\ \A q \in Pid \ {p} : ~Live(q)' => pages'[q] = Unmapped
       /\ \A q \in Pid \ {p}, s \in CacheSlot : Live(q)' /\ cache'[q][s].v # None =>
                /\ pages'[q][cache'[q][s].v] = cache'[q][s].page
                /\ cache'[q][s].page # 0
                /\ s = "write" => "W" \in gflags'[cache'[q][s].page]
  <2>1. \A q \in Pid \ {p} : cache'[q] = cache[q]
    BY <1>7 DEF IInv, TypeOK
  <2>2. nprocs' = nprocs /\ pages' = [pages EXCEPT ![p] = g]
    BY <1>2, <1>7
  <2> QED BY <1>5, <1>12, <2>1, <2>2, OthersAfterDrop
<1>14. TablesInv' /\ DeadInv'
  <2>1. pm \in own /\ pf \in own
    BY <1>4, <1>6
  <2>2. \A s \in TableSlots : pages'[p][s] \notin {0, ZeroPage, vdsoPage} /\ refs'[pages'[p][s]] = 1
    BY <1>4, <1>5, <1>8, <1>9, <2>1 DEF TableSlots
  <2>3. Live(p)'
    BY <1>2, <1>4, <1>5, <1>9 DEF Live
  <2> QED BY <1>13, <2>2, <2>3 DEF TablesInv, DeadInv
<1>15. /\ ImageCache(st) \in Translations
       /\ \A s \in CacheSlot : ImageCache(st)[s].v # None => ImageCache(st)[s] = [v |-> StackPage, page |-> st]
  BY <1>4, ImageCacheFacts
<1>16. CacheCoherent'
  <2> SUFFICES ASSUME NEW s \in CacheSlot, cache'[p][s].v # None
               PROVE  /\ pages'[p][cache'[p][s].v] = cache'[p][s].page
                      /\ cache'[p][s].page # 0
                      /\ "W" \in gflags'[cache'[p][s].page]
    BY <1>13 DEF CacheCoherent
  <2>1. cache'[p][s] = [v |-> StackPage, page |-> st]
    BY <1>7, <1>15 DEF IInv, TypeOK
  <2>2. "W" \in gflags'[st]
    BY <1>4, <1>7
  <2>3. cache'[p][s].v = StackPage /\ cache'[p][s].page = st
    BY <2>1
  <2>4. pages'[p][StackPage] = st /\ st # 0
    BY <1>4, <1>5, <1>9
  <2> QED BY <2>2, <2>3, <2>4
<1>17. FlagsInv'
  <2> SUFFICES ASSUME NEW x \in Page, "W" \in gflags'[x]
               PROVE  x \notin {0, ZeroPage, vdsoPage} /\ refs'[x] <= 1
    BY DEF FlagsInv
  <2>1. CASE x \in own
    <3>1. x \notin {0, ZeroPage, vdsoPage} /\ refs'[x] = 1
      BY <2>1, <1>4, <1>6, <1>8
    <3> QED BY <3>1
  <2>2. CASE x \notin own
    <3>1. x = vdsoPage \/ x \notin {pm, pf, tx, st}
      BY <1>6, <2>2
    <3>2. gflags'[x] = f[x]
      BY <1>4, <1>7, <3>1
    <3>3. x \notin {0, ZeroPage, vdsoPage} /\ refs[x] <= 1 /\ refs[x] \in Nat
      BY <1>3, <1>9, <3>2 DEF IInv, FlagsInv
    <3> QED BY <3>3, <2>2, <1>3, <1>8
  <2> QED BY <2>1, <2>2
<1>18. TypeOK'
  <2>1. gflags' \in [Page -> SUBSET (Perm \cup {"S"})]
    <3>1. {"R", "W"} \in SUBSET (Perm \cup {"S"}) /\ prot \in SUBSET (Perm \cup {"S"})
      BY ConstantsAssumption DEF Perm
    <3> QED BY <1>3, <1>7, <3>1
  <2>2. mem' \in [Page -> Data]
    BY <1>7 DEF IInv, TypeOK
  <2>3. pages' \in [Pid -> [Slot -> Page]]
    BY <1>11 DEF Tables, Table
  <2>4. cache' \in [Pid -> [CacheSlot -> [v : VPage \cup {None}, page : Page]]]
    BY <1>7, <1>15 DEF IInv, TypeOK, Translations
  <2>5. pageflags' \in [Pid -> [VPage -> SUBSET Perm]]
    BY <1>2, ImageFlagsType DEF IInv, TypeOK
  <2>6. vdso' \in Data
    BY <1>2 DEF IInv, TypeOK
  <2> QED BY <1>2, <1>8, <1>10, <2>1, <2>2, <2>3, <2>4, <2>5, <2>6 DEF IInv, TypeOK
<1>19. SharedPagesUnwritten'
  <2>1. mem'[ZeroPage] = mem[ZeroPage] /\ mem'[vdsoPage] = IF tx = vdsoPage THEN text ELSE mem[vdsoPage]
    BY <1>4, <1>7, ConstantFacts DEF IInv, TypeOK
  <2> QED BY <1>2, <1>4, <2>1 DEF IInv, SharedPagesUnwritten
<1>20. SettidInv'
  BY <1>2 DEF SettidInv
<1> QED BY <1>11, <1>14, <1>16, <1>17, <1>18, <1>19, <1>20 DEF IInv

-----------------------------------------------------------------------------
(* Clone.                                                                  *)

(* The table of a clone holds what its parent's map holds, its own two     *)
(* table pages and perhaps the vdso page.                                  *)
LEMMA ClonePagesFacts ==
  ASSUME IInv, NEW p \in Pid, NEW pm \in Frames, NEW pf \in Frames, pm # pf,
         refs[pm] = 0, refs[pf] = 0
  PROVE  /\ ClonePages(p, pm, pf) \in Table
         /\ ClonePages(p, pm, pf)[PagemapSlot] = pm /\ ClonePages(p, pm, pf)[PageflagsSlot] = pf
         /\ \A b \in Page : MappedCount(p, b) \in Nat
         /\ MappedCount(p, pm) = 0 /\ MappedCount(p, pf) = 0
         /\ Count(ClonePages(p, pm, pf), pm) = 1 /\ Count(ClonePages(p, pm, pf), pf) = 1
         /\ \A b \in Page \ {0, pm, pf, vdsoPage} : Count(ClonePages(p, pm, pf), b) = MappedCount(p, b)
         /\ Count(ClonePages(p, pm, pf), vdsoPage) =
              MappedCount(p, vdsoPage) + (IF pages[p][VdsoAt] = 0 THEN 1 ELSE 0)
         /\ \A b \in Page : Count(ClonePages(p, pm, pf), b) \in Nat
         /\ \A b \in Page, v \in VPage : pages[p][v] = b => MappedCount(p, b) >= 1
<1> DEFINE g == ClonePages(p, pm, pf)
           M(b) == {v \in VPage : pages[p][v] = b}
           S(b) == {s \in Slot : g[s] = b}
<1>1. /\ pages[p] \in Table /\ pm \in Page /\ pf \in Page /\ pm \notin {0, vdsoPage} /\ pf \notin {0, vdsoPage}
      /\ \A s \in Slot : pages[p][s] \notin {pm, pf}
  BY UnusedFacts, ConstantFacts DEF IInv, TypeOK, Table
<1>2. /\ g \in Table /\ g[PagemapSlot] = pm /\ g[PageflagsSlot] = pf
      /\ \A v \in VPage : \/ pages[p][v] # 0 /\ g[v] = pages[p][v]
                          \/ pages[p][v] = 0 /\ g[v] \in {0, vdsoPage} /\ (g[v] = vdsoPage <=> v = VdsoAt)
  <2>1. g = [s \in Slot |-> CASE s = PagemapSlot -> pm
                              [] s = PageflagsSlot -> pf
                              [] s \in VPage /\ pages[p][s] # 0 -> pages[p][s]
                              [] s = VdsoAt /\ pages[p][s] = 0 -> vdsoPage
                              [] OTHER -> 0]
    BY DEF ClonePages
  <2>2. \A s \in Slot : g[s] \in Page
    <3>1. \A s \in Slot : pages[p][s] \in Page
      BY <1>1 DEF Table
    <3> QED BY <1>1, <2>1, <3>1, ConstantFacts
  <2>3. g \in Table
    <3> HIDE DEF g
    <3> QED BY <2>1, <2>2 DEF Table
  <2>4. g[PagemapSlot] = pm /\ g[PageflagsSlot] = pf
    <3>1. VdsoAt \notin {PagemapSlot, PageflagsSlot}
      BY ConstantFacts, ConstantsAssumption
    <3> QED BY <2>1, <3>1, ConstantFacts
  <2>5. ASSUME NEW v \in VPage
        PROVE  \/ pages[p][v] # 0 /\ g[v] = pages[p][v]
               \/ pages[p][v] = 0 /\ g[v] \in {0, vdsoPage} /\ (g[v] = vdsoPage <=> v = VdsoAt)
    <3>1. v \in Slot /\ v # PagemapSlot /\ v # PageflagsSlot /\ vdsoPage # 0
      BY ConstantFacts
    <3> QED BY <2>1, <3>1
  <2> HIDE DEF g
  <2> QED BY <2>3, <2>4, <2>5
<1>3. Slot = VPage \cup {PagemapSlot, PageflagsSlot}
  BY DEF Slot
<1> HIDE DEF g
<1>4. \A b \in Page : IsFiniteSet(M(b)) /\ IsFiniteSet(S(b))
  BY SlotsFinite, FS_Subset, ConstantFacts, ConstantsAssumption
<1>5. \A b \in Page : MappedCount(p, b) \in Nat /\ Count(g, b) \in Nat
  BY <1>4, FS_CardinalityType DEF MappedCount, Count
<1>6. MappedCount(p, pm) = 0 /\ MappedCount(p, pf) = 0
  <2>1. M(pm) = {} /\ M(pf) = {}
    BY <1>1, <1>3
  <2> QED BY <2>1, FS_EmptySet DEF MappedCount
<1>7. Count(g, pm) = 1 /\ Count(g, pf) = 1
  <2>1. S(pm) = {PagemapSlot} /\ S(pf) = {PageflagsSlot}
    BY <1>1, <1>2, <1>3, ConstantFacts
  <2>2. Cardinality({PagemapSlot}) = 1 /\ Cardinality({PageflagsSlot}) = 1
    BY FS_Singleton
  <2> QED BY <2>1, <2>2 DEF Count
<1>8. ASSUME NEW b \in Page \ {0, pm, pf, vdsoPage} PROVE Count(g, b) = MappedCount(p, b)
  <2>1. S(b) = M(b)
    BY <1>1, <1>2, <1>3, ConstantFacts
  <2> QED BY <2>1 DEF Count, MappedCount
<1>9. Count(g, vdsoPage) = MappedCount(p, vdsoPage) + (IF pages[p][VdsoAt] = 0 THEN 1 ELSE 0)
  <2>0. vdsoPage \in Page /\ VdsoAt \in VPage /\ vdsoPage # 0
    BY ConstantFacts, ConstantsAssumption
  <2>1. CASE pages[p][VdsoAt] # 0
    <3>1. S(vdsoPage) = M(vdsoPage)
      BY <1>1, <1>2, <1>3, <2>0, <2>1
    <3>2. Count(g, vdsoPage) = MappedCount(p, vdsoPage)
      BY <3>1 DEF Count, MappedCount
    <3> QED BY <1>5, <2>0, <2>1, <3>2
  <2>2. CASE pages[p][VdsoAt] = 0
    <3>1. S(vdsoPage) = M(vdsoPage) \cup {VdsoAt} /\ VdsoAt \notin M(vdsoPage)
      BY <1>1, <1>2, <1>3, <2>0, <2>2
    <3>2. IsFiniteSet(M(vdsoPage))
      BY <1>4, <2>0
    <3> HIDE DEF S, M
    <3>3. Cardinality(S(vdsoPage)) = Cardinality(M(vdsoPage)) + 1
      BY <3>1, <3>2, FS_AddElement
    <3> QED BY <2>2, <3>3 DEF Count, MappedCount, S, M
  <2> QED BY <2>1, <2>2
<1>10. ASSUME NEW b \in Page, NEW v \in VPage, pages[p][v] = b PROVE MappedCount(p, b) >= 1
  <2>1. M(b) # {}
    BY <1>10
  <2>2. Cardinality(M(b)) # 0 /\ Cardinality(M(b)) \in Nat
    BY <2>1, <1>4, FS_EmptySet, FS_CardinalityType
  <2> QED BY <2>2 DEF MappedCount
<1> QED BY <1>2, <1>5, <1>6, <1>7, <1>8, <1>9, <1>10 DEF g

LEMMA CloneStep ==
  ASSUME IInv, NEW p \in Pid, Live(p), settid = None, Clone(p)
  PROVE  IInv'
<1>0. PICK q \in Pid : q = nprocs + 1
  BY DEF Clone
<1>1. PICK pm \in Frames, pf \in Frames :
        /\ pm \in Unused(refs) /\ pf \in Unused(Taken(refs, pm))
        /\ refs' = CloneRefs(p, {pm, pf})
        /\ gflags' = [b \in Page |->
              CASE b \in {pm, pf} -> {}
                [] b \notin {0, ZeroPage, pm, pf} /\ MappedCount(p, b) > 0 -> CowFlags(b)
                [] OTHER -> gflags[b]]
        /\ pages' = [pages EXCEPT ![q] = ClonePages(p, pm, pf)]
  <2> DEFINE Post(pm, pf) ==
        /\ refs' = CloneRefs(p, {pm, pf})
        /\ gflags' = [b \in Page |->
              CASE b \in {pm, pf} -> {}
                [] b \notin {0, ZeroPage, pm, pf} /\ MappedCount(p, b) > 0 -> CowFlags(b)
                [] OTHER -> gflags[b]]
        /\ pages' = [pages EXCEPT ![q] = ClonePages(p, pm, pf)]
  <2>1. \E pm \in Frames : Lowest(refs, pm) /\
        \E pf \in Frames : Lowest(Taken(refs, pm), pf) /\ Post(pm, pf)
    BY <1>0 DEF Clone
  <2> HIDE DEF Post
  <2>2. \E pm \in Frames, pf \in Frames :
           pm \in Unused(refs) /\ pf \in Unused(Taken(refs, pm)) /\ Post(pm, pf)
    BY <2>1, Zenon DEF Lowest, Unused
  <2> QED BY <2>2, Zenon DEF Post
<1>2. /\ q \in Pid /\ nprocs' = q /\ settid' \in VPage \cup {None}
      /\ pageflags' = [pageflags EXCEPT ![q] =
            [v \in VPage |-> CASE pages[p][v] # 0 -> pageflags[p][v]
                               [] v = VdsoAt /\ pages[p][v] = 0 -> {"R", "X"}
                               [] OTHER -> {}]]
      /\ cache' = [r \in Pid |-> NoTranslations]
      /\ leaked' = CloneLeaks(p)
      /\ UNCHANGED <<mem, thrown, vdso>>
  BY <1>0 DEF Clone, InvalidatedAll
<1> DEFINE g == ClonePages(p, pm, pf)
<1>3. /\ pages \in Tables /\ refs \in [Page -> Nat] /\ nprocs \in Nat
      /\ gflags \in [Page -> SUBSET (Perm \cup {"S"})]
  BY ConstantFacts DEF IInv, TypeOK, Tables, Table
<1>4. refs[pm] = 0 /\ refs[pf] = 0 /\ pm # pf /\ pm \in Page /\ pf \in Page
  BY <1>1, <1>3, ConstantFacts DEF Unused, Taken
<1>5. /\ pm \notin {0, ZeroPage, vdsoPage} /\ pf \notin {0, ZeroPage, vdsoPage}
      /\ \A r \in Pid, s \in Slot : pages[r][s] \notin {pm, pf}
  BY <1>4, UnusedFacts
<1>6. /\ g \in Table /\ g[PagemapSlot] = pm /\ g[PageflagsSlot] = pf
      /\ \A b \in Page : MappedCount(p, b) \in Nat
      /\ MappedCount(p, pm) = 0 /\ MappedCount(p, pf) = 0
      /\ Count(g, pm) = 1 /\ Count(g, pf) = 1
      /\ \A b \in Page \ {0, pm, pf, vdsoPage} : Count(g, b) = MappedCount(p, b)
      /\ Count(g, vdsoPage) = MappedCount(p, vdsoPage) + (IF pages[p][VdsoAt] = 0 THEN 1 ELSE 0)
      /\ \A b \in Page : Count(g, b) \in Nat
      /\ \A b \in Page, v \in VPage : pages[p][v] = b => MappedCount(p, b) >= 1
  BY <1>4, ClonePagesFacts
<1>7. ~Live(q) /\ pages[q] = Unmapped
  BY <1>0, <1>3 DEF Live, IInv, DeadInv
<1> HIDE DEF g
<1>8. pages' = [pages EXCEPT ![q] = g] /\ pages'[q] = g /\ \A r \in Pid \ {q} : pages'[r] = pages[r]
  BY <1>1, <1>2, <1>3 DEF g, Tables
<1>9. \A b \in Page \ {0} : Count(pages[q], b) = 0
  BY <1>7, UnmappedFacts
<1>10. /\ refs' \in [Page -> Nat]
       /\ \A b \in Page \ {0} :
            refs'[b] = IF b \in {pm, pf} THEN 1
                       ELSE IF b = vdsoPage THEN refs[b] + 1 + MappedCount(p, b)
                       ELSE refs[b] + MappedCount(p, b)
  BY <1>1, <1>3, <1>5, <1>6, ConstantFacts DEF CloneRefs
<1>11. /\ leaked' \in [Page -> Nat] /\ leaked \in [Page -> Nat]
       /\ \A b \in Page : leaked'[b] =
            leaked[b] + (IF b = vdsoPage /\ pages[p][VdsoAt] # 0 THEN 1 ELSE 0)
  <2>1. leaked \in [Page -> Nat] /\ vdsoPage \in Page
    BY ConstantFacts DEF IInv, TypeOK
  <2>2. CASE pages[p][VdsoAt] # 0
    BY <1>2, <2>1, <2>2 DEF CloneLeaks
  <2>3. CASE pages[p][VdsoAt] = 0
    BY <1>2, <2>1, <2>3 DEF CloneLeaks
  <2> QED BY <2>1, <2>2, <2>3
<1>20. RefCountsExact' /\ pages' \in Tables
  <2>1. ASSUME NEW b \in Page \ {0}
        PROVE  refs'[b] = refs[b] - Count(pages[q], b) + Count(g, b) + leaked'[b] - leaked[b]
    <3> DEFINE old == Count(pages[q], b)
               new == Count(g, b)
               mapped == MappedCount(p, b)
    <3>1. old = 0
      BY <1>9
    <3>2. refs[b] \in Nat /\ new \in Nat /\ mapped \in Nat /\ leaked[b] \in Nat
      BY <1>3, <1>6, <1>11
    <3>3. CASE b \in {pm, pf}
      <4>1. refs[b] = 0 /\ new = 1 /\ refs'[b] = 1 /\ leaked'[b] = leaked[b]
        BY <1>4, <1>5, <1>6, <1>10, <1>11, <3>2, <3>3
      <4> HIDE DEF new, mapped, old
      <4>2. refs'[b] = refs[b] - old + new + leaked'[b] - leaked[b]
        BY <4>1, <3>1, <3>2
      <4> QED BY <4>2 DEF old, new
    <3>4. CASE b = vdsoPage
      <4>1. refs'[b] = refs[b] + 1 + mapped
        BY <1>5, <1>10, <3>4
      <4>2. new = mapped + (IF pages[p][VdsoAt] = 0 THEN 1 ELSE 0)
        BY <1>6, <3>4
      <4>3. leaked'[b] = leaked[b] + (IF pages[p][VdsoAt] # 0 THEN 1 ELSE 0)
        BY <1>11, <3>4
      <4> HIDE DEF new, mapped, old
      <4>4. refs'[b] = refs[b] - old + new + leaked'[b] - leaked[b]
        BY <4>1, <4>2, <4>3, <3>1, <3>2
      <4> QED BY <4>4 DEF old, new
    <3>5. CASE b \notin {pm, pf, vdsoPage}
      <4>1. new = mapped /\ refs'[b] = refs[b] + mapped /\ leaked'[b] = leaked[b]
        BY <1>6, <1>10, <1>11, <3>2, <3>5
      <4> HIDE DEF new, mapped, old
      <4>2. refs'[b] = refs[b] - old + new + leaked'[b] - leaked[b]
        BY <4>1, <3>1, <3>2
      <4> QED BY <4>2 DEF old, new
    <3> QED BY <3>3, <3>4, <3>5
  <2>2. \A b \in Page \ {0} :
          refs'[b] = refs[b] - Count(pages[q], b) + Count(g, b) + leaked'[b] - leaked[b]
    BY <2>1
  <2>3. q \in Pid /\ g \in Table /\ pages' = [pages EXCEPT ![q] = g] /\ TypeOK /\ RefCountsExact
    BY <1>2, <1>6, <1>8 DEF IInv
  <2> QED BY <1>11, <2>2, <2>3, CountsMoved
<1>12. \A r \in Pid \ {q} : Live(r)' <=> Live(r)
  <2> SUFFICES ASSUME NEW r \in Pid \ {q} PROVE Live(r)' <=> Live(r)
    OBVIOUS
  <2>1. r \in Nat /\ (r <= nprocs + 1 <=> r <= nprocs)
    BY <1>0, <1>3, ConstantFacts
  <2> QED BY <2>1, <1>0, <1>2, <1>8 DEF Live
<1>13. TablesInv'
  <2>1. \A s \in TableSlots : pages'[q][s] \notin {0, ZeroPage, vdsoPage} /\ refs'[pages'[q][s]] = 1
    BY <1>4, <1>5, <1>6, <1>8, <1>10 DEF TableSlots
  <2>2. ASSUME NEW r \in Pid \ {q}, NEW s \in TableSlots, Live(r)
        PROVE  pages[r][s] \notin {0, ZeroPage, vdsoPage} /\ refs'[pages[r][s]] = 1
    <3> DEFINE t == pages[r][s]
    <3>1. t \in Page \ {0, ZeroPage, vdsoPage} /\ refs[t] = 1 /\ t \notin {pm, pf} /\ s \in Slot \ VPage
      BY <2>2, <1>3, <1>5, ConstantFacts DEF IInv, TablesInv, Tables, Table, TableSlots
    <3>2. Holders(t) = {<<r, s>>}
      BY <2>2, TablePagesHeldOnce DEF TablesPrivate, TableSlots
    <3>3. {v \in VPage : pages[p][v] = t} = {}
      <4> SUFFICES ASSUME NEW v \in VPage, pages[p][v] = t PROVE FALSE
        OBVIOUS
      <4>1. <<p, v>> \in Holders(t)
        BY ConstantFacts DEF Holders, HoldersIn
      <4>2. v = s
        BY <4>1, <3>2
      <4> QED BY <4>2, <3>1
    <3>4. MappedCount(p, t) = 0
      BY <3>3, FS_EmptySet DEF MappedCount
    <3>5. refs'[t] = refs[t] + MappedCount(p, t)
      BY <1>10, <3>1
    <3> QED BY <3>1, <3>4, <3>5
  <2> QED BY <1>8, <1>12, <2>1, <2>2 DEF TablesInv
<1>14. DeadInv' /\ SettidInv'
  <2>1. Live(q)'
    BY <1>0, <1>2, <1>3, <1>5, <1>6, <1>8 DEF Live
  <2>2. \A r \in Pid \ {q} : ~Live(r)' => pages'[r] = Unmapped
    BY <1>8, <1>12 DEF IInv, DeadInv
  <2> QED BY <1>2, <2>1, <2>2 DEF DeadInv, SettidInv
<1>15. CacheCoherent'
  BY <1>2, NoTranslationsFacts DEF CacheCoherent
<1>16. /\ gflags' \in [Page -> SUBSET (Perm \cup {"S"})]
       /\ \A b \in Page : "W" \in gflags'[b] => "W" \in gflags[b] /\ b \notin {pm, pf} /\
             (b \in {0, ZeroPage} \/ ~(MappedCount(p, b) > 0))
  BY <1>1, <1>3 DEF CowFlags
<1>17. FlagsInv'
  <2> SUFFICES ASSUME NEW x \in Page, "W" \in gflags'[x]
               PROVE  x \notin {0, ZeroPage, vdsoPage} /\ refs'[x] <= 1
    BY DEF FlagsInv
  <2>1. x \notin {0, ZeroPage, vdsoPage, pm, pf} /\ refs[x] <= 1 /\ ~(MappedCount(p, x) > 0)
    BY <1>16 DEF IInv, FlagsInv
  <2>2. MappedCount(p, x) = 0
    BY <2>1, <1>6
  <2>3. refs'[x] = refs[x]
    BY <2>1, <2>2, <1>3, <1>10
  <2> QED BY <2>1, <2>3
<1>18. TypeOK'
  <2>1. pages' \in [Pid -> [Slot -> Page]]
    BY <1>20 DEF Tables, Table
  <2>2. cache' \in [Pid -> [CacheSlot -> [v : VPage \cup {None}, page : Page]]]
    BY <1>2, NoTranslationsFacts DEF Translations
  <2>3. pageflags' \in [Pid -> [VPage -> SUBSET Perm]]
    <3>1. [v \in VPage |-> CASE pages[p][v] # 0 -> pageflags[p][v]
                             [] v = VdsoAt /\ pages[p][v] = 0 -> {"R", "X"}
                             [] OTHER -> {}] \in [VPage -> SUBSET Perm]
      BY DEF IInv, TypeOK, Perm
    <3> QED BY <1>2, <3>1 DEF IInv, TypeOK
  <2> QED BY <1>2, <1>10, <1>11, <1>16, <2>1, <2>2, <2>3 DEF IInv, TypeOK
<1>19. SharedPagesUnwritten'
  BY <1>2 DEF IInv, SharedPagesUnwritten
<1> QED BY <1>13, <1>14, <1>15, <1>17, <1>18, <1>19, <1>20 DEF IInv

-----------------------------------------------------------------------------
(* Boot and the next-state relation.                                       *)

(* What boot leaves, with the image of t in the pages pm, pf, tx and st.   *)
Boots(t, prot, text, argv, pm, pf, tx, st) ==
  /\ refs = ImageRefs(BootRefs, pm, pf, tx, st)
  /\ gflags = ImageGlobalFlags(BootFlags, prot, pm, pf, tx, st)
  /\ mem = [b \in Page |-> CASE b = tx -> text
                             [] b = st -> argv
                             [] b = vdsoPage /\ tx # vdsoPage -> VdsoCode
                             [] OTHER -> Zero]
  /\ pages = [p \in Pid |-> IF p = 1 THEN ImagePages(t, pm, pf, tx, st) ELSE Unmapped]
  /\ pageflags = [p \in Pid |-> IF p = 1 THEN ImageFlags(t, prot) ELSE NoFlags]
  /\ cache = [p \in Pid |-> IF p = 1 THEN ImageCache(st) ELSE NoTranslations]
  /\ nprocs = 1 /\ settid = None /\ thrown = "none"
  /\ leaked = ImageLeaks([b \in Page |-> 0], t, tx)
  /\ vdso = IF t = VdsoAt THEN text ELSE VdsoCode

LEMMA InitLemma == Init => IInv
<1> DEFINE pm == FirstFree + 1
           pf == FirstFree + 2
           f0 == [p \in Pid |-> Unmapped]
           Segment(t) == IF t = VdsoAt THEN vdsoPage ELSE FirstFree + 3
           Stack(t) == IF t = VdsoAt THEN FirstFree + 3 ELSE FirstFree + 4
<1> SUFFICES ASSUME Init PROVE IInv
  OBVIOUS
<1>0. PICK t \in TextPages, prot \in Prots, text \in Data, argv \in Data :
        Boots(t, prot, text, argv, pm, pf, Segment(t), Stack(t))
  BY Zenon DEF Init, Boots, Segment, Stack
<1> DEFINE tx == Segment(t)
           st == Stack(t)
<1>1. /\ tx = IF t = VdsoAt THEN vdsoPage ELSE FirstFree + 3
      /\ st = IF t = VdsoAt THEN FirstFree + 3 ELSE FirstFree + 4
      /\ refs = ImageRefs(BootRefs, pm, pf, tx, st)
      /\ gflags = ImageGlobalFlags(BootFlags, prot, pm, pf, tx, st)
      /\ mem = [b \in Page |-> CASE b = tx -> text
                                 [] b = st -> argv
                                 [] b = vdsoPage /\ tx # vdsoPage -> VdsoCode
                                 [] OTHER -> Zero]
      /\ pages = [p \in Pid |-> IF p = 1 THEN ImagePages(t, pm, pf, tx, st) ELSE Unmapped]
      /\ pageflags = [p \in Pid |-> IF p = 1 THEN ImageFlags(t, prot) ELSE NoFlags]
      /\ cache = [p \in Pid |-> IF p = 1 THEN ImageCache(st) ELSE NoTranslations]
      /\ nprocs = 1 /\ settid = None /\ thrown = "none"
      /\ leaked = ImageLeaks([b \in Page |-> 0], t, tx)
      /\ vdso = IF t = VdsoAt THEN text ELSE VdsoCode
  BY <1>0, Zenon DEF Boots, Segment, Stack
<1> HIDE DEF tx, st
<1> DEFINE own == Owned(pm, pf, tx, st)
           g == ImagePages(t, pm, pf, tx, st)
           lost(x) == IF t \in {HeapPage, StackPage} /\ x = tx THEN 1 ELSE 0
<1>2. Distinct(t, pm, pf, tx, st)
  <2>1. CASE t = VdsoAt
    BY <1>1, <2>1, ConstantsAssumption DEF Page, ZeroPage, vdsoPage, Distinct
  <2>2. CASE t # VdsoAt
    BY <1>1, <2>2, ConstantsAssumption DEF Page, ZeroPage, vdsoPage, Distinct
  <2> QED BY <2>1, <2>2
<1> HIDE DEF pm, pf
<1>3. /\ pm \in Page \ {0, ZeroPage, vdsoPage} /\ pf \in Page \ {0, ZeroPage, vdsoPage}
      /\ st \in Page \ {0, ZeroPage, vdsoPage} /\ tx \in Page \ {0, ZeroPage}
      /\ pm # pf /\ pm # tx /\ pm # st /\ pf # tx /\ pf # st /\ tx # st
      /\ tx = vdsoPage <=> t = VdsoAt
  BY <1>2 DEF Distinct
<1>4. /\ g \in Table
      /\ \A x \in Page \ {0} : Count(g, x) =
           IF x \in {pm, pf, st, ZeroPage, vdsoPage} \/ (x = tx /\ t \notin {HeapPage, StackPage})
           THEN 1 ELSE 0
      /\ g[StackPage] = st /\ g[PagemapSlot] = pm /\ g[PageflagsSlot] = pf
  <2>1. StackPage \in VPage
    BY ConstantsAssumption
  <2> QED BY <1>2, <2>1, ImageFacts
<1>5. /\ \A x \in Page : x \in own <=> x \in {pm, pf, tx, st} /\ x # vdsoPage
      /\ own \subseteq Page
  BY <1>3 DEF Owned
<1>6. /\ refs = [b \in Page |-> CASE b \in own -> 1
                                  [] b \in {ZeroPage, vdsoPage} -> BootRefs[b] + 1
                                  [] OTHER -> BootRefs[b]]
      /\ gflags = [b \in Page |-> CASE b \in {pm, pf} -> {}
                                    [] b = tx /\ tx # vdsoPage -> prot
                                    [] b = st -> {"R", "W"}
                                    [] OTHER -> BootFlags[b]]
      /\ pages = [p \in Pid |-> IF p = 1 THEN g ELSE Unmapped]
  BY <1>1 DEF ImageRefs, ImageGlobalFlags
<1> HIDE DEF own, g
<1>7. f0 \in Tables /\ pages = [f0 EXCEPT ![1] = g] /\ f0[1] = Unmapped
  BY <1>6, UnmappedFacts, ConstantFacts DEF Tables
<1>8. pages \in Tables /\ 1 \in Pid /\ pages[1] = g /\ \A q \in Pid \ {1} : pages[q] = Unmapped
  <2>1. \A q \in Pid \ {1} : pages[q] = Unmapped
    BY <1>6
  <2> HIDE DEF f0
  <2>2. pages \in Tables /\ 1 \in Pid
    BY <1>4, <1>7, ConstantFacts DEF Tables
  <2>3. pages[1] = g
    BY <1>7, ConstantFacts DEF Tables
  <2> QED BY <2>1, <2>2, <2>3
<1> HIDE DEF f0
<1>9. ASSUME NEW b \in Page \ {0} PROVE Cardinality(HoldersIn(pages, b)) = Count(g, b)
  <2>1. /\ Cardinality(HoldersIn(pages, b)) = Cardinality(OthersIn(pages, 1, b)) + Count(pages[1], b)
        /\ Count(pages[1], b) \in Nat
    BY <1>8, HoldersSplit
  <2>2. OthersIn(pages, 1, b) = {}
    BY <1>8 DEF OthersIn, Unmapped
  <2>3. Cardinality(OthersIn(pages, 1, b)) = 0
    BY <2>2, FS_EmptySet
  <2> QED BY <1>8, <2>1, <2>3
<1>10. /\ refs \in [Page -> Nat]
       /\ \A x \in Page \ {0} : refs[x] = IF x \in {ZeroPage, vdsoPage} THEN 2
                                          ELSE IF x \in own THEN 1 ELSE 0
  <2>1. \A x \in Page : BootRefs[x] = IF x \in {0, ZeroPage, vdsoPage} THEN 1 ELSE 0
    BY DEF BootRefs
  <2>2. ZeroPage \notin own /\ vdsoPage \notin own /\ 0 \notin own
    BY <1>3, <1>5, ConstantFacts
  <2>3. \A x \in Page : refs[x] = IF x \in own THEN 1 ELSE
                                  IF x \in {ZeroPage, vdsoPage} THEN 2 ELSE IF x = 0 THEN 1 ELSE 0
    BY <1>6, <2>1, <2>2
  <2> QED BY <1>6, <2>2, <2>3
<1>11. /\ leaked \in [Page -> Nat]
       /\ \A x \in Page : leaked[x] = lost(x)
  <2>1. leaked = IF t \in {HeapPage, StackPage} THEN [[b \in Page |-> 0] EXCEPT ![tx] = @ + 1]
                                                ELSE [b \in Page |-> 0]
    BY <1>1 DEF ImageLeaks
  <2> QED BY <1>3, <2>1
<1>12. RefCountsExact
  <2> SUFFICES ASSUME NEW b \in Page \ {0}
               PROVE  refs[b] = Cardinality(HoldersIn(pages, b)) + Permanent(b) + leaked[b]
    BY DEF RefCountsExact, Holders
  <2> DEFINE now == Count(g, b)
  <2>0. now = IF b \in {pm, pf, st, ZeroPage, vdsoPage} \/ (b = tx /\ t \notin {HeapPage, StackPage})
              THEN 1 ELSE 0
    BY <1>4
  <2>1. refs[b] = now + Permanent(b) + lost(b)
    <3>1. t \in {HeapPage, StackPage} => t # VdsoAt
      BY ConstantsAssumption
    <3>2. CASE b \in {ZeroPage, vdsoPage}
      <4>1. refs[b] = 2 /\ now = 1 /\ lost(b) = 0 /\ Permanent(b) = 1
        BY <1>3, <1>10, <2>0, <3>1, <3>2 DEF Permanent
      <4> HIDE DEF now, lost
      <4> QED BY <4>1
    <3>3. CASE b \notin {ZeroPage, vdsoPage} /\ b \in own
      <4>1. refs[b] = 1 /\ Permanent(b) = 0 /\ b \in {pm, pf, tx, st}
        BY <1>5, <1>10, <3>3 DEF Permanent
      <4>2. b # tx \/ t \notin {HeapPage, StackPage} => now = 1 /\ lost(b) = 0
        BY <1>3, <2>0, <4>1
      <4>3. b = tx /\ t \in {HeapPage, StackPage} => now = 0 /\ lost(b) = 1
        BY <1>3, <2>0, <3>3
      <4> HIDE DEF now, lost
      <4> QED BY <4>1, <4>2, <4>3
    <3>4. CASE b \notin {ZeroPage, vdsoPage} /\ b \notin own
      <4>1. refs[b] = 0 /\ Permanent(b) = 0 /\ b \notin {pm, pf, tx, st}
        BY <1>5, <1>10, <3>4 DEF Permanent
      <4>2. now = 0 /\ lost(b) = 0
        BY <2>0, <3>4, <4>1
      <4> HIDE DEF now, lost
      <4> QED BY <4>1, <4>2
    <3> QED BY <3>2, <3>3, <3>4
  <2>2. Cardinality(HoldersIn(pages, b)) = now /\ leaked[b] = lost(b)
    BY <1>9, <1>11
  <2> HIDE DEF now, lost
  <2> QED BY <2>1, <2>2
<1>13. /\ gflags \in [Page -> SUBSET (Perm \cup {"S"})]
       /\ \A b \in Page : "W" \in gflags[b] => b \in {tx, st} /\ b # vdsoPage
       /\ "W" \in gflags[st]
  <2>1. prot \in SUBSET Perm
    BY ConstantsAssumption
  <2>2. \A b \in Page : BootFlags[b] = IF b = vdsoPage THEN {"R", "X"} ELSE
                                       IF b = ZeroPage THEN {"R"} ELSE {}
    BY ConstantFacts DEF BootFlags
  <2> QED BY <1>3, <1>6, <2>1, <2>2 DEF Perm
<1>14. FlagsInv
  <2> SUFFICES ASSUME NEW b \in Page, b \in {tx, st}, b # vdsoPage
               PROVE  b \notin {0, ZeroPage, vdsoPage} /\ refs[b] <= 1
    BY <1>13 DEF FlagsInv
  <2>1. b \notin {0, ZeroPage, vdsoPage} /\ b \in own
    BY <1>3, <1>5
  <2>2. refs[b] = 1
    BY <1>10, <2>1
  <2> QED BY <2>1, <2>2
<1>15. \A p \in Pid : Live(p) <=> p = 1
  <2> SUFFICES ASSUME NEW p \in Pid PROVE Live(p) <=> p = 1
    OBVIOUS
  <2>1. p \in Nat \ {0} /\ nprocs = 1
    BY <1>1, ConstantFacts
  <2>2. pages[1][PagemapSlot] # 0
    BY <1>3, <1>4, <1>8
  <2> QED BY <2>1, <2>2 DEF Live
<1>16. TablesInv
  <2>1. pm \in own /\ pf \in own
    BY <1>3, <1>5
  <2>2. refs[pm] = 1 /\ refs[pf] = 1
    BY <1>3, <1>10, <2>1
  <2> QED BY <1>3, <1>4, <1>8, <1>15, <2>2 DEF TablesInv, TableSlots
<1>17. DeadInv /\ SettidInv
  BY <1>1, <1>8, <1>15 DEF DeadInv, SettidInv
<1>18. /\ ImageCache(st) \in Translations
       /\ \A s \in CacheSlot : ImageCache(st)[s].v # None => ImageCache(st)[s] = [v |-> StackPage, page |-> st]
  BY <1>3, ImageCacheFacts
<1>19. CacheCoherent
  <2> SUFFICES ASSUME NEW s \in CacheSlot, cache[1][s].v # None
               PROVE  /\ pages[1][cache[1][s].v] = cache[1][s].page
                      /\ cache[1][s].page # 0
                      /\ s = "write" => "W" \in gflags[cache[1][s].page]
    BY <1>15 DEF CacheCoherent
  <2>1. cache[1] = ImageCache(st)
    BY <1>1, ConstantFacts
  <2>2. cache[1][s].v = StackPage /\ cache[1][s].page = st
    BY <2>1, <1>18
  <2> QED BY <2>2, <1>3, <1>4, <1>8, <1>13
<1>20. SharedPagesUnwritten
  <2>1. mem[ZeroPage] = Zero
    BY <1>1, <1>3, ConstantFacts
  <2>2. mem[vdsoPage] = IF tx = vdsoPage THEN text ELSE VdsoCode
    BY <1>1, <1>3, ConstantFacts
  <2> QED BY <1>1, <1>3, <2>1, <2>2 DEF SharedPagesUnwritten
<1>21. TypeOK
  <2>1. mem \in [Page -> Data]
    BY <1>1, ConstantsAssumption
  <2>2. pages \in [Pid -> [Slot -> Page]]
    BY <1>8 DEF Tables, Table
  <2>3. pageflags \in [Pid -> [VPage -> SUBSET Perm]]
    <3>1. ImageFlags(t, prot) \in [VPage -> SUBSET Perm] /\ NoFlags \in [VPage -> SUBSET Perm]
      BY ImageFlagsType DEF NoFlags
    <3> QED BY <1>1, <3>1
  <2>4. cache \in [Pid -> [CacheSlot -> [v : VPage \cup {None}, page : Page]]]
    BY <1>1, <1>18, NoTranslationsFacts DEF Translations
  <2>5. vdso \in Data
    BY <1>1, ConstantsAssumption
  <2> QED BY <1>1, <1>10, <1>11, <1>13, <2>1, <2>2, <2>3, <2>4, <2>5, ConstantFacts DEF TypeOK
<1> QED BY <1>12, <1>14, <1>16, <1>17, <1>19, <1>20, <1>21 DEF IInv

LEMMA FaultStep ==
  ASSUME IInv, NEW p, NEW v, NEW perm, Fault(p, v, perm)
  PROVE  IInv'
BY ThrowStep DEF Fault

LEMMA StoreThrowsStep ==
  ASSUME IInv, NEW p, NEW v, StoreThrows(p, v)
  PROVE  IInv'
BY ThrowStep, FaultStep DEF StoreThrows

(* A page mapped past the table: the zero page is counted, nothing holds it.*)
LEMMA MmapPastStep ==
  ASSUME IInv, NEW p \in Pid, Live(p), settid = None, MmapPast(p)
  PROVE  IInv'
<1> DEFINE g == pages[p]
           c == NoTranslations
<1>1. /\ refs' = [refs EXCEPT ![ZeroPage] = @ + 1]
      /\ leaked' = [leaked EXCEPT ![ZeroPage] = @ + 1]
      /\ cache' = [cache EXCEPT ![p] = c]
      /\ UNCHANGED <<gflags, mem, pages, pageflags, nprocs, settid, thrown, vdso>>
  BY DEF MmapPast
<1>2. /\ refs \in [Page -> Nat] /\ leaked \in [Page -> Nat]
      /\ pages \in Tables /\ g \in Table /\ pages' = [pages EXCEPT ![p] = g]
  BY <1>1 DEF IInv, TypeOK, Tables, Table
<1>3. /\ refs' \in [Page -> Nat] /\ leaked' \in [Page -> Nat]
      /\ \A x \in Page : refs'[x] = refs[x] + (IF x = ZeroPage THEN 1 ELSE 0)
      /\ \A x \in Page : leaked'[x] = leaked[x] + (IF x = ZeroPage THEN 1 ELSE 0)
  BY <1>1, <1>2, ConstantFacts
<1> HIDE DEF g
<1>4. RefCountsExact'
  <2>1. \A x \in Page \ {0} :
          refs'[x] = refs[x] - Count(pages[p], x) + Count(g, x) + leaked'[x] - leaked[x]
    <3> SUFFICES ASSUME NEW x \in Page \ {0}
                 PROVE  refs'[x] = refs[x] - Count(pages[p], x) + Count(g, x) + leaked'[x] - leaked[x]
      OBVIOUS
    <3> DEFINE n == Count(pages[p], x)
    <3>1. n \in Nat
      BY <1>2, HoldersSplit
    <3>2. Count(g, x) = n
      BY DEF g
    <3> HIDE DEF n
    <3>3. refs'[x] = refs[x] - n + n + leaked'[x] - leaked[x]
      BY <1>2, <1>3, <3>1
    <3> QED BY <3>2, <3>3 DEF n
  <2>2. TypeOK /\ RefCountsExact
    BY DEF IInv
  <2> QED BY <1>2, <1>3, <2>1, <2>2, CountsMoved
<1>5. TablesInv' /\ DeadInv'
  <2>1. \A s \in TableSlots : g[s] = pages[p][s]
    BY DEF g
  <2>2. \A t \in Page \ {0, ZeroPage, vdsoPage} :
            /\ \A x \in VPage : pages[p][x] # t
            /\ \E r \in Pid, s \in Slot : pages[r][s] = t
            => refs'[t] = refs[t]
    BY <1>2, <1>3
  <2> QED BY <1>1, <1>2, <2>1, <2>2, TablesKept
<1>6. CacheCoherent'
  <2>1. c \in Translations /\ \A s \in CacheSlot : c[s].v = None
    BY NoTranslationsFacts
  <2> HIDE DEF c
  <2> QED BY <1>1, <1>2, <2>1, CachesKept
<1>7. FlagsInv'
  BY <1>1, <1>2, <1>3 DEF IInv, FlagsInv
<1>8. TypeOK'
  <2>1. cache' \in [Pid -> [CacheSlot -> [v : VPage \cup {None}, page : Page]]]
    BY <1>1, NoTranslationsFacts DEF IInv, TypeOK, Translations
  <2> QED BY <1>1, <1>3, <2>1 DEF IInv, TypeOK
<1>9. SharedPagesUnwritten' /\ SettidInv'
  BY <1>1 DEF IInv, SharedPagesUnwritten, SettidInv
<1> QED BY <1>4, <1>5, <1>6, <1>7, <1>8, <1>9 DEF IInv

(* One case for every action of a process.                                 *)
LEMMA ProcessLemma ==
  ASSUME IInv, NEW p \in Pid, Ready(p), ProcessStep(p)
  PROVE  IInv'
<1>1. Live(p) /\ settid = None
  BY DEF Ready
<1>2. ASSUME NEW v \in VPage, Access(p, v) PROVE IInv'
  <2>1. ASSUME NEW perm \in {"R", "X"}, ReadMiss(p, v, perm) PROVE IInv'
    BY <2>1, ReadMissStep DEF Perm
  <2>2. ASSUME NEW perm \in {"R", "X"}, Fault(p, v, perm) PROVE IInv'
    BY <2>2, FaultStep
  <2>3. ASSUME NEW d \in Data, Write(p, v, d) PROVE IInv'
    BY <1>1, <2>3, StoreStep DEF Write
  <2>4. CASE StoreThrows(p, v)
    BY <2>4, StoreThrowsStep
  <2> QED BY <1>2, <2>1, <2>2, <2>3, <2>4 DEF Access
<1>3. ASSUME NEW v \in MmapPages, Mmap(p, v) PROVE IInv'
  <2>0. v \in VPage
    BY ConstantsAssumption
  <2>1. ASSUME NEW prot \in Prots, MmapAnonymous(p, v, prot) PROVE IInv'
    BY <1>1, <2>0, <2>1, MmapAnonymousStep
  <2>2. ASSUME NEW prot \in Prots, NEW copied \in BOOLEAN, NEW d \in Data,
               MmapFile(p, v, prot, copied, d)
        PROVE  IInv'
    BY <1>1, <2>0, <2>2, MmapFileStep
  <2>3. CASE MmapError(p, v)
    BY <2>3, ThrowStep DEF MmapError
  <2> QED BY <1>3, <2>1, <2>2, <2>3 DEF Mmap
<1>4. ASSUME NEW n \in MprotectLens, NEW prot \in Prots, Mprotect(p, n, prot) PROVE IInv'
  BY <1>4, MprotectStep
<1>5. CASE Clone(p)
  BY <1>1, <1>5, CloneStep
<1>6. CASE CloneError
  BY <1>6, ThrowStep DEF CloneError
<1>7. ASSUME NEW t \in TextPages, NEW prot \in Prots, NEW text \in Data, NEW argv \in Data,
             Exec(p, t, prot, text, argv)
      PROVE  IInv'
  BY <1>1, <1>7, ExecStep
<1>8. ASSUME NEW t \in TextPages, ExecError(p, t) PROVE IInv'
  BY <1>8, ThrowStep DEF ExecError
<1>9. CASE Exit(p)
  BY <1>1, <1>9, ExitStep
<1>10. CASE MmapPast(p)
  BY <1>1, <1>10, MmapPastStep
<1> QED BY <1>2, <1>3, <1>4, <1>5, <1>6, <1>7, <1>8, <1>9, <1>10 DEF ProcessStep

LEMMA FinishCloneLemma ==
  ASSUME IInv, FinishClone
  PROVE  IInv'
<1>1. nprocs \in Pid /\ settid \in VPage /\ Live(nprocs)
  BY DEF FinishClone, IInv, TypeOK, SettidInv
<1>2. ASSUME NEW d \in Data, SetTid(d) PROVE IInv'
  BY <1>1, <1>2, StoreStep DEF SetTid
<1>3. CASE StoreThrows(nprocs, settid)
  BY <1>3, StoreThrowsStep
<1> QED BY <1>2, <1>3 DEF FinishClone

LEMMA NextLemma == IInv /\ [Next]_vars => IInv'
<1> SUFFICES ASSUME IInv, [Next]_vars PROVE IInv'
  OBVIOUS
<1>1. CASE FinishClone
  BY <1>1, FinishCloneLemma
<1>2. ASSUME NEW p \in Pid, Ready(p), ProcessStep(p) PROVE IInv'
  BY <1>2, ProcessLemma
<1>3. CASE UNCHANGED vars
  BY <1>3 DEF vars, IInv, TypeOK, RefCountsExact, Holders, HoldersIn, FlagsInv, TablesInv,
       DeadInv, SettidInv, CacheCoherent, SharedPagesUnwritten, Live
<1> QED BY <1>1, <1>2, <1>3 DEF Next

LEMMA Invariance == Spec => []IInv
BY InitLemma, NextLemma, PTL DEF Spec

-----------------------------------------------------------------------------
(* What the allocator and the virtual memory promise.                      *)

(* Every reachable state has the expected shape: in particular a reference *)
(* count never goes below zero, whatever processes do.                     *)
THEOREM TypeCorrect == Spec => []TypeOK
<1>1. IInv => TypeOK
  BY DEF IInv
<1> QED BY <1>1, Invariance, PTL

(* pageRefCounts is the number of tables that hold a page, boot's reference*)
(* and those that clone, the loader and a mapping past the table lose: no  *)
(* other is lost, and no page is free while it is mapped.                  *)
THEOREM CountsCorrect == Spec => []RefCountsExact
<1>1. IInv => RefCountsExact
  BY DEF IInv
<1> QED BY <1>1, Invariance, PTL

(* The page that a process may write without a fault has no other user.    *)
THEOREM WritableCorrect == Spec => []WritableExclusive
<1>1. ASSUME IInv PROVE WritableExclusive
  <2> SUFFICES ASSUME NEW b \in Page, "W" \in gflags[b]
               PROVE  b \notin {0, ZeroPage, vdsoPage} /\ Cardinality(Holders(b)) <= 1
    BY DEF WritableExclusive
  <2>1. b \notin {0, ZeroPage, vdsoPage} /\ refs[b] <= 1 /\ refs[b] \in Nat
    BY <1>1 DEF IInv, FlagsInv, TypeOK
  <2>2. Cardinality(Holders(b)) \in Nat
    BY SlotsFinite, FS_Subset, FS_CardinalityType DEF Holders, HoldersIn
  <2>3. refs[b] = Cardinality(Holders(b)) + leaked[b] /\ leaked[b] \in Nat
    BY <1>1, <2>1, <2>2 DEF IInv, RefCountsExact, Permanent, TypeOK
  <2> QED BY <2>1, <2>2, <2>3
<1> QED BY <1>1, Invariance, PTL

(* No cached translation of a live process is stale.                       *)
THEOREM CacheCorrect == Spec => []CacheCoherent
<1>1. IInv => CacheCoherent
  BY DEF IInv
<1> QED BY <1>1, Invariance, PTL

(* No process stores to the zero page or to the vdso page; only a loader   *)
(* changes the latter, by a segment that lies over it.                     *)
THEOREM SharedPagesCorrect == Spec => []SharedPagesUnwritten
<1>1. IInv => SharedPagesUnwritten
  BY DEF IInv
<1> QED BY <1>1, Invariance, PTL

(* No guest reaches a page that holds a page table.                        *)
THEOREM TablesCorrect == Spec => []TablesPrivate
<1>1. IInv => TablesPrivate
  BY TablePagesHeldOnce
<1> QED BY <1>1, Invariance, PTL

(* The Errors of freePage and duplicatePage are unreachable.  That of      *)
(* doZeroPage is not: MmapError reaches it.                                *)
THEOREM AssertionsCorrect == Spec => []AssertionsHold
<1>1. IInv => AssertionsHold
  BY DroppedFacts, ConstantFacts DEF AssertionsHold
<1> QED BY <1>1, Invariance, PTL

-----------------------------------------------------------------------------
(* PageMemory implements AddressSpaces for any number of processes and     *)
(* pages: sharing, copy on write, cached translations and the reuse of     *)
(* pages never show in what another process reads.                         *)

(* What tells a process that lives from one that was released: nothing     *)
(* unmaps a page, and every image has the vdso.                            *)
LiveMapped == \A p \in Pid : Live(p) => pages[p][VdsoAt] # 0

(* A step of the address spaces, or none.                                  *)
SpacesSame == UNCHANGED <<[p \in Pid |-> SpaceOf(p)], mem[vdsoPage], nprocs>>
SpaceStep == (Private!Next \/ SpacesSame) /\ LiveMapped'

(* Page b holds d now, and nothing else changed.                           *)
Holds(b, d) == \A x \in Page : mem'[x] = IF x = b THEN d ELSE mem[x]
(* Nobody but p, at v, maps page b.                                        *)
Exclusive(p, v, b) == \A r \in Pid, w \in VPage : pages[r][w] = b => r = p /\ w = v

-----------------------------------------------------------------------------
LEMMA PagesTyped ==
  ASSUME IInv
  PROVE  /\ pages \in [Pid -> [Slot -> Page]] /\ mem \in [Page -> Data] /\ VPage \subseteq Slot
         /\ \A p \in Pid, v \in VPage : pages[p][v] \in Page
         /\ mem[vdsoPage] \in Data
<1>1. TypeOK /\ VPage \subseteq Slot /\ vdsoPage \in Page
  BY ConstantFacts DEF IInv
<1> QED BY <1>1 DEF TypeOK

(* What a process has where its table gives page b.                        *)
Cell(b) == CASE b = 0 -> Private!Absent
             [] b = vdsoPage -> Private!Shared
             [] OTHER -> Private!Own(mem[b])

LEMMA CellFacts ==
  /\ Cell(0) = Private!Absent /\ Cell(vdsoPage) = Private!Shared
  /\ \A b \in Page \ {0, vdsoPage} : Cell(b) = Private!Own(mem[b])
  /\ \A b \in Page \ {0} : Cell(b) # Private!Absent
  /\ \A b \in Page : mem'[b] = mem[b] \/ b \in {0, vdsoPage} => Cell(b)' = Cell(b)
<1>1. vdsoPage # 0
  BY ConstantFacts
<1>2. Private!Shared # Private!Absent /\ \A d : Private!Own(d) # Private!Absent
  BY DEF Private!Shared, Private!Absent, Private!Own
<1> QED BY <1>1, <1>2 DEF Cell

LEMMA Spaces ==
  /\ \A p : SpaceOf(p) = [v \in VPage |-> Cell(pages[p][v])]
  /\ \A p : SpaceOf(p)' = [v \in VPage |-> Cell(pages[p][v])']
BY DEF SpaceOf, Cell, Private!Absent, Private!Shared, Private!Own

LEMMA SameStep ==
  ASSUME IInv, LiveMapped, UNCHANGED <<pages, mem, nprocs>>
  PROVE  SpaceStep
BY DEF SpaceStep, SpacesSame, SpaceOf, LiveMapped, Live

LEMMA AliveFacts ==
  ASSUME IInv, LiveMapped, NEW p \in Pid, Live(p)
  PROVE  Private!Alive(p)
<1>1. p <= nprocs /\ pages[p][VdsoAt] # 0 /\ VdsoAt \in VPage
  BY ConstantsAssumption DEF Live, LiveMapped
<1>2. SpaceOf(p)[VdsoAt] # Private!Absent
  BY <1>1, PagesTyped, CellFacts, Spaces
<1>3. SpaceOf(p) # Private!NoSpace
  BY <1>1, <1>2 DEF Private!NoSpace
<1> QED BY <1>1, <1>3 DEF Private!Alive

(* A store or a mapping: page b, which nobody else maps or which held the  *)
(* same before, is now at v.                                               *)
LEMMA PutStep ==
  ASSUME IInv, LiveMapped, NEW p \in Pid, Live(p), NEW v \in VPage, NEW d \in Data,
         NEW b \in Page \ {0, vdsoPage},
         pages' = [pages EXCEPT ![p][v] = b], nprocs' = nprocs, Holds(b, d),
         mem[b] = d \/ Exclusive(p, v, b)
  PROVE  SpaceStep
<1>1. \A r \in Pid, w \in VPage : pages'[r][w] = IF r = p /\ w = v THEN b ELSE pages[r][w]
  BY PagesTyped
<1>2. \A x \in Page : x # b => mem'[x] = mem[x]
  BY DEF Holds
<1>3. mem'[b] = d /\ mem'[vdsoPage] = mem[vdsoPage]
  BY ConstantFacts DEF Holds
<1>4. \A r \in Pid, w \in VPage :
        Cell(pages[r][w])' = IF r = p /\ w = v THEN Private!Own(d) ELSE Cell(pages[r][w])
  <2> SUFFICES ASSUME NEW r \in Pid, NEW w \in VPage
               PROVE  Cell(pages[r][w])' = IF r = p /\ w = v THEN Private!Own(d) ELSE Cell(pages[r][w])
    OBVIOUS
  <2>2. CASE r = p /\ w = v
    <3>1. pages'[r][w] = b
      BY <1>1, <2>2
    <3> QED BY <1>3, <2>2, <3>1 DEF Cell
  <2>3. CASE ~(r = p /\ w = v)
    <3>1. pages'[r][w] = pages[r][w] /\ pages[r][w] \in Page
      BY <1>1, <2>3, PagesTyped
    <3>2. mem'[pages[r][w]] = mem[pages[r][w]]
      BY <1>2, <1>3, <2>3, <3>1 DEF Exclusive
    <3> QED BY <2>3, <3>1, <3>2 DEF Cell
  <2> QED BY <2>2, <2>3
<1>5. [r \in Pid |-> SpaceOf(r)'] = [[r \in Pid |-> SpaceOf(r)] EXCEPT ![p][v] = Private!Own(d)]
  <2> DEFINE old == [r \in Pid |-> SpaceOf(r)]
             new == [r \in Pid |-> SpaceOf(r)']
             own == Private!Own(d)
             c == [r \in Pid |-> [w \in VPage |-> Cell(pages[r][w])]]
             e == [r \in Pid |-> [w \in VPage |-> Cell(pages[r][w])']]
  <2>1. old = c /\ new = e
    BY Spaces
  <2>2. \A r \in Pid, w \in VPage : e[r][w] = IF r = p /\ w = v THEN own ELSE c[r][w]
    BY <1>4
  <2>3. e = [r \in Pid |-> [w \in VPage |-> e[r][w]]] /\ c = [r \in Pid |-> [w \in VPage |-> c[r][w]]]
    OBVIOUS
  <2> HIDE DEF c, e, own
  <2>4. e = [r \in Pid |-> [w \in VPage |-> IF r = p /\ w = v THEN own ELSE c[r][w]]]
    BY <2>2, <2>3
  <2>5. e = [c EXCEPT ![p][v] = own]
    BY <2>3, <2>4
  <2> HIDE DEF old, new
  <2>6. new = [old EXCEPT ![p][v] = own]
    BY <2>1, <2>5
  <2> QED BY <2>6 DEF old, new, own
<1>6. Private!Put(p, v, d)
  BY <1>3, <1>5 DEF Private!Put
<1>7. LiveMapped'
  BY <1>1, PagesTyped, ConstantsAssumption, ConstantFacts DEF LiveMapped, Live
<1> QED BY <1>6, <1>7, AliveFacts DEF SpaceStep, Private!Next, Pid

-----------------------------------------------------------------------------
(* Stores.                                                                 *)

(* A page with one reference is exclusive to whoever maps it.              *)
LEMMA SoleIsExclusive ==
  ASSUME IInv, NEW p \in Pid, NEW v \in VPage, pages[p][v] # 0, refs[pages[p][v]] <= 1
  PROVE  pages[p][v] \in Page \ {0, vdsoPage} /\ Exclusive(p, v, pages[p][v])
<1>1. v \in Slot /\ TypeOK /\ RefCountsExact /\ VPage \subseteq Slot
  BY PagesTyped DEF IInv
<1>2. /\ pages[p][v] \in Page /\ refs[pages[p][v]] \in Nat /\ refs[pages[p][v]] >= 1
      /\ pages[p][v] # vdsoPage
  BY <1>1, PagesTyped, HeldFacts DEF TypeOK
<1>3. Holders(pages[p][v]) = {<<p, v>>}
  BY <1>1, <1>2, HeldFacts
<1>4. \A r \in Pid, w \in VPage : pages[r][w] = pages[p][v] => <<r, w>> \in Holders(pages[p][v])
  BY <1>1 DEF Holders, HoldersIn
<1> QED BY <1>2, <1>3, <1>4 DEF Exclusive

LEMMA WritableIsExclusive ==
  ASSUME IInv, NEW p \in Pid, NEW v \in VPage, "W" \in gflags[pages[p][v]]
  PROVE  pages[p][v] \in Page \ {0, vdsoPage} /\ Exclusive(p, v, pages[p][v])
<1>1. pages[p][v] \in Page /\ pages[p][v] # 0 /\ refs[pages[p][v]] <= 1
  BY PagesTyped DEF IInv, FlagsInv
<1> QED BY <1>1, SoleIsExclusive

(* A store to the page that p maps already.                                *)
LEMMA StoreInPlace ==
  ASSUME IInv, LiveMapped, NEW p \in Pid, Live(p), NEW v \in VPage, NEW d \in Data,
         NEW b \in Page \ {0, vdsoPage}, b = pages[p][v], Exclusive(p, v, b),
         mem' = [mem EXCEPT ![b] = d], UNCHANGED <<pages, nprocs>>
  PROVE  SpaceStep
<1>1. pages' = [pages EXCEPT ![p][v] = b]
  BY PagesTyped
<1>2. Holds(b, d)
  BY PagesTyped DEF Holds
<1> QED BY <1>1, <1>2, PutStep

LEMMA WriteHitPuts ==
  ASSUME IInv, LiveMapped, NEW p \in Pid, Live(p), NEW v \in VPage, NEW d \in Data, WriteHit(p, v, d)
  PROVE  SpaceStep
<1>1. PICK b : b = cache[p]["write"].page
  OBVIOUS
<1>2. cache[p]["write"].v = v /\ mem' = [mem EXCEPT ![b] = d] /\ UNCHANGED <<pages, nprocs>>
  BY <1>1, HitFacts DEF WriteHit
<1>3. v # None /\ "write" \in CacheSlot
  BY ConstantFacts DEF CacheSlot
<1>4. b = pages[p][v] /\ "W" \in gflags[b]
  BY <1>1, <1>2, <1>3 DEF IInv, CacheCoherent
<1>5. b \in Page \ {0, vdsoPage} /\ Exclusive(p, v, b)
  BY <1>4, WritableIsExclusive
<1> QED BY <1>2, <1>4, <1>5, StoreInPlace

LEMMA WriteMappedPuts ==
  ASSUME IInv, LiveMapped, NEW p \in Pid, Live(p), NEW v \in VPage, NEW d \in Data, WriteMapped(p, v, d)
  PROVE  SpaceStep
<1>1. PICK b : b = pages[p][v]
  OBVIOUS
<1>2. "W" \in gflags[b] /\ mem' = [mem EXCEPT ![b] = d] /\ UNCHANGED <<pages, nprocs>>
  BY <1>1 DEF WriteMapped
<1>3. b \in Page \ {0, vdsoPage} /\ Exclusive(p, v, b)
  BY <1>1, <1>2, WritableIsExclusive
<1> QED BY <1>1, <1>2, <1>3, StoreInPlace

LEMMA ReclaimSharedPuts ==
  ASSUME IInv, LiveMapped, NEW p \in Pid, Live(p), NEW v \in VPage, NEW d \in Data, ReclaimShared(p, v, d)
  PROVE  SpaceStep
<1>1. PICK b : b = pages[p][v]
  OBVIOUS
<1>2. /\ b # 0 /\ refs[b] = 1 /\ mem' = [mem EXCEPT ![b] = d] /\ UNCHANGED <<pages, nprocs>>
  BY <1>1 DEF ReclaimShared, WriteFaults, Allowed, SoleUser
<1>3. b \in Page \ {0} /\ refs[b] <= 1
  BY <1>1, <1>2, PagesTyped
<1>4. b # vdsoPage /\ Exclusive(p, v, b)
  BY <1>1, <1>2, <1>3, SoleIsExclusive
<1> QED BY <1>1, <1>2, <1>3, <1>4, StoreInPlace

LEMMA CopyOnWritePuts ==
  ASSUME IInv, LiveMapped, NEW p \in Pid, Live(p), NEW v \in VPage, NEW d \in Data, CopyOnWrite(p, v, d)
  PROVE  SpaceStep
<1>1. PICK b \in Frames :
        /\ Lowest(refs, b) /\ mem' = [mem EXCEPT ![b] = d]
        /\ pages' = [pages EXCEPT ![p][v] = b]
  BY DEF CopyOnWrite
<1>2. refs[b] = 0 /\ nprocs' = nprocs
  BY <1>1 DEF Lowest, CopyOnWrite
<1>3. b \in Page \ {0, vdsoPage} /\ Exclusive(p, v, b)
  BY <1>2, UnusedFacts, PagesTyped DEF Exclusive
<1>4. Holds(b, d)
  BY <1>1, PagesTyped DEF Holds
<1> QED BY <1>1, <1>2, <1>3, <1>4, PutStep

LEMMA StorePuts ==
  ASSUME IInv, LiveMapped, NEW p \in Pid, Live(p), NEW v \in VPage, NEW d \in Data, Store(p, v, d)
  PROVE  SpaceStep
BY WriteHitPuts, WriteMappedPuts, ReclaimSharedPuts, CopyOnWritePuts DEF Store

-----------------------------------------------------------------------------
(* Mappings.                                                               *)

LEMMA MmapAnonymousPuts ==
  ASSUME IInv, LiveMapped, NEW p \in Pid, Live(p), NEW v \in VPage, NEW prot \in Prots,
         MmapAnonymous(p, v, prot)
  PROVE  SpaceStep
<1>1. /\ pages' = [pages EXCEPT ![p][v] = ZeroPage] /\ mem' = mem /\ nprocs' = nprocs
  BY DEF MmapAnonymous
<1>2. ZeroPage \in Page \ {0, vdsoPage} /\ Zero \in Data /\ mem[ZeroPage] = Zero
  BY ConstantFacts, ConstantsAssumption DEF IInv, SharedPagesUnwritten
<1>3. Holds(ZeroPage, Zero)
  BY <1>1, <1>2 DEF Holds
<1> QED BY <1>1, <1>2, <1>3, PutStep

(* The page that is allocated was unused, or was at v alone.               *)
LEMMA MmapFilePuts ==
  ASSUME IInv, LiveMapped, NEW p \in Pid, Live(p), NEW v \in VPage, NEW prot \in Prots,
         NEW copied \in BOOLEAN, NEW d \in Data, MmapFile(p, v, prot, copied, d)
  PROVE  SpaceStep
<1>1. PICK b \in Frames :
        /\ Lowest(WithoutOld(p, v), b) /\ mem' = [mem EXCEPT ![b] = d]
        /\ pages' = [pages EXCEPT ![p][v] = b]
  BY DEF MmapFile
<1>2. WithoutOld(p, v)[b] = 0 /\ nprocs' = nprocs
  BY <1>1 DEF Lowest, MmapFile
<1>3. b \in Page \ {0} /\ refs[b] \in Nat
  BY ConstantFacts DEF IInv, TypeOK
<1>4. 0 = refs[b] - (IF pages[p][v] = b THEN 1 ELSE 0)
  BY <1>2, <1>3, WithoutOldFacts
<1>5. b # vdsoPage /\ Exclusive(p, v, b)
  <2>1. CASE pages[p][v] = b
    <3>1. refs[b] <= 1
      BY <1>3, <1>4, <2>1
    <3> QED BY <1>3, <2>1, <3>1, SoleIsExclusive
  <2>2. CASE pages[p][v] # b
    <3>1. refs[b] = 0
      BY <1>3, <1>4, <2>2
    <3> QED BY <3>1, UnusedFacts, PagesTyped DEF Exclusive
  <2> QED BY <2>1, <2>2
<1>6. Holds(b, d)
  BY <1>1, PagesTyped DEF Holds
<1> QED BY <1>1, <1>2, <1>3, <1>5, <1>6, PutStep

-----------------------------------------------------------------------------
(* Processes.                                                              *)

(* What the others have after a step that leaves their tables and the      *)
(* pages they map alone.                                                   *)
LEMMA SameSpace ==
  ASSUME IInv, NEW q \in Pid, NEW r \in Pid,
         \A v \in VPage : pages'[q][v] = pages[r][v],
         \A v \in VPage : pages[r][v] \notin {0, vdsoPage} => mem'[pages[r][v]] = mem[pages[r][v]]
  PROVE  SpaceOf(q)' = SpaceOf(r)
<1>1. \A v \in VPage : Cell(pages[q][v])' = Cell(pages[r][v])
  <2> SUFFICES ASSUME NEW v \in VPage PROVE Cell(pages[q][v])' = Cell(pages[r][v])
    OBVIOUS
  <2>1. pages'[q][v] = pages[r][v] /\ (pages[r][v] \notin {0, vdsoPage} => mem'[pages[r][v]] = mem[pages[r][v]])
    OBVIOUS
  <2> QED BY <2>1 DEF Cell
<1> QED BY <1>1, Spaces

LEMMA ExitVanishes ==
  ASSUME IInv, LiveMapped, NEW p \in Pid, Live(p), Exit(p)
  PROVE  SpaceStep
<1>1. pages' = [pages EXCEPT ![p] = Unmapped] /\ UNCHANGED <<mem, nprocs>>
  BY DEF Exit
<1>2. \A r \in Pid : pages'[r] = IF r = p THEN Unmapped ELSE pages[r]
  BY <1>1, PagesTyped
<1>3. \A v \in VPage : Unmapped[v] = 0
  BY ConstantFacts DEF Unmapped
<1>4. SpaceOf(p)' = Private!NoSpace
  <2>1. \A v \in VPage : pages'[p][v] = 0
    BY <1>2, <1>3
  <2>2. \A v \in VPage : Cell(pages[p][v])' = Private!Absent
    BY <2>1, ConstantFacts DEF Cell
  <2> QED BY <2>2, Spaces DEF Private!NoSpace
<1>5. \A r \in Pid : r # p => SpaceOf(r)' = SpaceOf(r)
  BY <1>1, <1>2, SameSpace
<1>6. Private!Vanish(p)
  BY <1>1, <1>4, <1>5 DEF Private!Vanish
<1>7. LiveMapped'
  <2>1. Unmapped[PagemapSlot] = 0
    BY ConstantFacts DEF Unmapped
  <2> QED BY <1>1, <1>2, <2>1 DEF LiveMapped, Live
<1> QED BY <1>6, <1>7, AliveFacts DEF SpaceStep, Private!Next, Pid

(* What a table f shows of the memory m.                                   *)
Shows(f, m) ==
  [v \in VPage |-> CASE f[v] = 0 -> Private!Absent
                     [] f[v] = vdsoPage -> Private!Shared
                     [] OTHER -> Private!Own(m[f[v]])]

LEMMA ImageShows ==
  ASSUME NEW t \in TextPages, NEW text, NEW argv, NEW pm, NEW pf, NEW tx, NEW st,
         Distinct(t, pm, pf, tx, st), NEW m,
         m[st] = argv, m[ZeroPage] = Zero, tx # vdsoPage => m[tx] = text
  PROVE  Shows(ImagePages(t, pm, pf, tx, st), m) = Private!Image(t, text, argv)
<1> DEFINE g == ImagePages(t, pm, pf, tx, st)
           shown(v) == CASE g[v] = 0 -> Private!Absent
                         [] g[v] = vdsoPage -> Private!Shared
                         [] OTHER -> Private!Own(m[g[v]])
           image(v) == IF v = StackPage THEN Private!Own(argv)
                       ELSE IF v = HeapPage THEN Private!Own(Zero)
                       ELSE IF v = VdsoAt THEN Private!Shared
                       ELSE IF v = t THEN Private!Own(text) ELSE Private!Absent
<1>1. t \in VPage /\ {VdsoAt, HeapPage, StackPage} \subseteq VPage
      /\ HeapPage \notin {StackPage, VdsoAt} /\ StackPage # VdsoAt
  BY ConstantsAssumption
<1>2. \A v \in VPage : g[v] =
        IF v = StackPage THEN st ELSE IF v = HeapPage THEN ZeroPage
        ELSE IF v = VdsoAt THEN vdsoPage ELSE IF v = t THEN tx ELSE 0
  BY ImageFacts
<1>3. /\ st \notin {0, ZeroPage, vdsoPage} /\ tx \notin {0, ZeroPage} /\ tx # st
      /\ tx = vdsoPage <=> t = VdsoAt
      /\ ZeroPage # 0 /\ vdsoPage # 0 /\ ZeroPage # vdsoPage
  BY ConstantFacts DEF Distinct
<1> HIDE DEF g
<1>4. ASSUME NEW v \in VPage PROVE shown(v) = image(v)
  <2>1. CASE v = StackPage
    BY <1>2, <1>3, <2>1
  <2>2. CASE v # StackPage /\ v = HeapPage
    BY <1>2, <1>3, <2>2
  <2>3. CASE v \notin {StackPage, HeapPage} /\ v = VdsoAt
    BY <1>2, <1>3, <2>3
  <2>4. CASE v \notin {StackPage, HeapPage, VdsoAt} /\ v = t
    BY <1>2, <1>3, <2>4
  <2>5. CASE v \notin {StackPage, HeapPage, VdsoAt, t}
    BY <1>2, <1>3, <2>5
  <2> QED BY <2>1, <2>2, <2>3, <2>4, <2>5
<1>5. Private!Image(t, text, argv) = [v \in VPage |-> image(v)]
  BY <1>1 DEF Private!Image, Private!NoSpace
<1>6. Shows(g, m) = [v \in VPage |-> shown(v)]
  BY DEF Shows
<1> HIDE DEF shown, image
<1>7. Shows(g, m) = Private!Image(t, text, argv)
  BY <1>4, <1>5, <1>6
<1> QED BY <1>7 DEF g

LEMMA ExecExecutes ==
  ASSUME IInv, LiveMapped, NEW p \in Pid, Live(p), NEW t \in TextPages, NEW prot \in Prots,
         NEW text \in Data, NEW argv \in Data, Exec(p, t, prot, text, argv)
  PROVE  SpaceStep
<1> DEFINE r == Dropped(p)
<1>1. PICK pm, pf, tx, st :
        /\ Distinct(t, pm, pf, tx, st)
        /\ \A x \in {pm, pf, st} : r[x] = 0
        /\ tx # vdsoPage => r[tx] = 0
        /\ Loads(p, t, prot, text, argv, pm, pf, tx, st)
  BY ExecFrames
<1>2. nprocs' = nprocs
  BY DEF Exec
<1> DEFINE g == ImagePages(t, pm, pf, tx, st)
<1>3. mem' = [mem EXCEPT ![tx] = text, ![st] = argv] /\ pages' = [pages EXCEPT ![p] = g]
  BY <1>1 DEF Loads
<1>4. /\ st \in Page \ {0, ZeroPage, vdsoPage} /\ tx \in Page \ {0, ZeroPage} /\ tx # st
      /\ tx = vdsoPage <=> t = VdsoAt
  BY <1>1 DEF Distinct
<1>5. \A q \in Pid, v \in VPage : q # p /\ pages[q][v] \notin {0, vdsoPage} =>
        pages[q][v] \notin {tx, st}
  <2>1. \A q \in Pid \ {p}, s \in Slot : pages[q][s] # 0 => r[pages[q][s]] >= 1
    BY DroppedFacts
  <2> HIDE DEF r
  <2> QED BY <1>1, <2>1, PagesTyped
<1> HIDE DEF g
<1>6. \A x \in Page : mem'[x] = IF x = st THEN argv ELSE IF x = tx THEN text ELSE mem[x]
  BY <1>3, <1>4, PagesTyped
<1>7. \A q \in Pid : pages'[q] = IF q = p THEN g ELSE pages[q]
  BY <1>3, PagesTyped
<1>8. \A q \in Pid : q # p => SpaceOf(q)' = SpaceOf(q)
  <2> SUFFICES ASSUME NEW q \in Pid, q # p PROVE SpaceOf(q)' = SpaceOf(q)
    OBVIOUS
  <2>1. \A v \in VPage :
          /\ pages'[q][v] = pages[q][v]
          /\ pages[q][v] \notin {0, vdsoPage} => mem'[pages[q][v]] = mem[pages[q][v]]
    BY <1>5, <1>6, <1>7, PagesTyped
  <2> QED BY <2>1, SameSpace
<1>9. SpaceOf(p)' = Private!Image(t, text, argv)
  <2>1. mem'[st] = argv /\ mem'[ZeroPage] = Zero /\ mem'[tx] = text
    BY <1>4, <1>6, ConstantFacts DEF IInv, SharedPagesUnwritten
  <2>2. Shows(g, mem') = Private!Image(t, text, argv)
    BY <1>1, <2>1, ImageShows DEF g
  <2>3. SpaceOf(p)' = Shows(g, mem')
    BY <1>7 DEF SpaceOf, Shows, Private!Absent, Private!Shared, Private!Own
  <2> QED BY <2>2, <2>3
<1>10. mem'[vdsoPage] = Private!Loaded(t, text, mem[vdsoPage])
  BY <1>4, <1>6, ConstantFacts DEF Private!Loaded
<1>11. Private!Execute(p)
  BY <1>2, <1>8, <1>9, <1>10 DEF Private!Execute
<1>12. LiveMapped'
  <2>1. g[VdsoAt] # 0
    <3>1. VdsoAt \in VPage /\ VdsoAt \notin {HeapPage, StackPage}
      BY ConstantsAssumption
    <3>2. g[VdsoAt] = vdsoPage
      BY <1>1, <3>1, ImageFacts DEF g
    <3> QED BY <3>2, ConstantFacts
  <2> QED BY <1>2, <1>7, <2>1 DEF LiveMapped, Live
<1> QED BY <1>11, <1>12, AliveFacts DEF SpaceStep, Private!Next, Pid

LEMMA CloneForks ==
  ASSUME IInv, LiveMapped, NEW p \in Pid, Live(p), Clone(p)
  PROVE  SpaceStep
<1>1. PICK q : q = nprocs + 1
  OBVIOUS
<1>2. PICK pm \in Frames, pf \in Frames : pages' = [pages EXCEPT ![q] = ClonePages(p, pm, pf)]
  BY <1>1 DEF Clone
<1>3. q \in Pid /\ nprocs' = q /\ mem' = mem
  BY <1>1 DEF Clone
<1>4. nprocs \in Nat /\ nprocs < MaxPid /\ q = nprocs + 1 /\ p <= nprocs /\ p # q
  <2>1. nprocs \in Nat /\ p \in Nat /\ p <= nprocs
    BY ConstantFacts DEF IInv, TypeOK, Live
  <2>2. q <= MaxPid /\ MaxPid \in Nat
    BY <1>3, ConstantsAssumption DEF Pid
  <2> QED BY <1>1, <2>1, <2>2
<1>5. \A r \in Pid : pages'[r] = IF r = q THEN ClonePages(p, pm, pf) ELSE pages[r]
  BY <1>2, PagesTyped
(* The vdso page that initMemory maps first is under the parent's.         *)
<1>6. \A v \in VPage : ClonePages(p, pm, pf)[v] = pages[p][v]
  <2>1. pages[p][VdsoAt] # 0
    BY DEF LiveMapped
  <2> QED BY <2>1, ConstantFacts DEF ClonePages
<1>7. SpaceOf(q)' = SpaceOf(p)
  <2>1. \A v \in VPage : pages'[q][v] = pages[p][v]
    BY <1>3, <1>5, <1>6
  <2> QED BY <1>3, <2>1, SameSpace
<1>8. \A r \in Pid : r # q => SpaceOf(r)' = SpaceOf(r)
  BY <1>3, <1>5, SameSpace
<1>9. Private!Fork(p)
  <2>1. [r \in Pid |-> SpaceOf(r)'] = [[r \in Pid |-> SpaceOf(r)] EXCEPT ![q] = SpaceOf(p)]
    BY <1>7, <1>8
  <2> QED BY <1>3, <1>4, <2>1 DEF Private!Fork
<1>10. LiveMapped'
  <2>1. \A r \in Pid : r # q => (Live(r)' => Live(r))
    <3>1. \A r \in Pid : r <= q /\ r # q => r <= nprocs
      BY <1>4, ConstantFacts
    <3> QED BY <1>3, <1>5, <3>1 DEF Live
  <2>2. VdsoAt \in VPage /\ pages[p][VdsoAt] # 0
    BY ConstantsAssumption DEF LiveMapped
  <2>3. pages'[q][VdsoAt] # 0
    BY <1>3, <1>5, <1>6, <2>2
  <2> QED BY <1>5, <2>1, <2>3 DEF LiveMapped
<1> QED BY <1>9, <1>10, AliveFacts DEF SpaceStep, Private!Next, Pid

-----------------------------------------------------------------------------
LEMMA ThrowStutters == ASSUME IInv, LiveMapped, NEW e, Throw(e) PROVE SpaceStep
BY SameStep DEF Throw

LEMMA ProcessSteps ==
  ASSUME IInv, LiveMapped, NEW p \in Pid, Ready(p), ProcessStep(p)
  PROVE  SpaceStep
<1>1. Live(p)
  BY DEF Ready
<1>2. ASSUME NEW v \in VPage, Access(p, v) PROVE SpaceStep
  <2>1. ASSUME NEW perm \in {"R", "X"}, ReadMiss(p, v, perm) PROVE SpaceStep
    BY <2>1, SameStep DEF ReadMiss
  <2>2. ASSUME NEW perm \in {"R", "X"}, Fault(p, v, perm) PROVE SpaceStep
    BY <2>2, ThrowStutters DEF Fault
  <2>3. ASSUME NEW d \in Data, Write(p, v, d) PROVE SpaceStep
    BY <1>1, <2>3, StorePuts DEF Write
  <2>4. CASE StoreThrows(p, v)
    BY <2>4, ThrowStutters DEF StoreThrows, Fault
  <2> QED BY <1>2, <2>1, <2>2, <2>3, <2>4 DEF Access
<1>3. ASSUME NEW v \in MmapPages, Mmap(p, v) PROVE SpaceStep
  <2>1. v \in VPage
    BY ConstantsAssumption
  <2>2. ASSUME NEW prot \in Prots, MmapAnonymous(p, v, prot) PROVE SpaceStep
    BY <1>1, <2>1, <2>2, MmapAnonymousPuts
  <2>3. ASSUME NEW prot \in Prots, NEW copied \in BOOLEAN, NEW d \in Data, MmapFile(p, v, prot, copied, d)
        PROVE  SpaceStep
    BY <1>1, <2>1, <2>3, MmapFilePuts
  <2>4. CASE MmapError(p, v)
    BY <2>4, ThrowStutters DEF MmapError
  <2> QED BY <1>3, <2>2, <2>3, <2>4 DEF Mmap
<1>4. ASSUME NEW n \in MprotectLens, NEW prot \in Prots, Mprotect(p, n, prot) PROVE SpaceStep
  BY <1>4, SameStep DEF Mprotect
<1>5. CASE Clone(p)
  BY <1>1, <1>5, CloneForks
<1>6. CASE CloneError
  BY <1>6, ThrowStutters DEF CloneError
<1>7. ASSUME NEW t \in TextPages, NEW prot \in Prots, NEW text \in Data, NEW argv \in Data,
             Exec(p, t, prot, text, argv)
      PROVE  SpaceStep
  BY <1>1, <1>7, ExecExecutes
<1>8. ASSUME NEW t \in TextPages, ExecError(p, t) PROVE SpaceStep
  BY <1>8, ThrowStutters DEF ExecError
<1>9. CASE Exit(p)
  BY <1>1, <1>9, ExitVanishes
<1>10. CASE MmapPast(p)
  BY <1>10, SameStep DEF MmapPast
<1> QED BY <1>2, <1>3, <1>4, <1>5, <1>6, <1>7, <1>8, <1>9, <1>10 DEF ProcessStep

LEMMA FinishCloneSteps ==
  ASSUME IInv, LiveMapped, FinishClone
  PROVE  SpaceStep
<1>1. PICK q, v : q = nprocs /\ v = settid
  OBVIOUS
<1>2. q \in Pid /\ v \in VPage /\ Live(q)
  BY <1>1 DEF FinishClone, IInv, TypeOK, SettidInv
<1>3. ASSUME NEW d \in Data, SetTid(d) PROVE SpaceStep
  <2>1. Store(q, v, d)
    BY <1>1, <1>3 DEF SetTid
  <2> QED BY <1>2, <2>1, StorePuts
<1>4. CASE StoreThrows(nprocs, settid)
  BY <1>4, ThrowStutters DEF StoreThrows, Fault
<1> QED BY <1>3, <1>4 DEF FinishClone

LEMMA InitIsolated == ASSUME Init PROVE Private!Init /\ LiveMapped
<1> DEFINE pm == FirstFree + 1
           pf == FirstFree + 2
           Segment(t) == IF t = VdsoAt THEN vdsoPage ELSE FirstFree + 3
           Stack(t) == IF t = VdsoAt THEN FirstFree + 3 ELSE FirstFree + 4
<1>1. PICK t \in TextPages, prot \in Prots, text \in Data, argv \in Data :
        Boots(t, prot, text, argv, pm, pf, Segment(t), Stack(t))
  BY Zenon DEF Init, Boots, Segment, Stack
<1> DEFINE tx == Segment(t)
           st == Stack(t)
           g == ImagePages(t, pm, pf, tx, st)
<1>2. Distinct(t, pm, pf, tx, st)
  <2>1. CASE t = VdsoAt
    BY <2>1, ConstantsAssumption DEF Page, ZeroPage, vdsoPage, Distinct
  <2>2. CASE t # VdsoAt
    BY <2>2, ConstantsAssumption DEF Page, ZeroPage, vdsoPage, Distinct
  <2> QED BY <2>1, <2>2
<1> HIDE DEF pm, pf, tx, st, Segment, Stack
<1>3. /\ mem = [b \in Page |-> CASE b = tx -> text
                                 [] b = st -> argv
                                 [] b = vdsoPage /\ tx # vdsoPage -> VdsoCode
                                 [] OTHER -> Zero]
      /\ pages = [p \in Pid |-> IF p = 1 THEN g ELSE Unmapped]
      /\ nprocs = 1
  BY <1>1, Zenon DEF Boots, tx, st
<1>4. /\ st \in Page \ {0, ZeroPage, vdsoPage} /\ tx \in Page \ {0, ZeroPage} /\ tx # st
      /\ tx = vdsoPage <=> t = VdsoAt
  BY <1>2 DEF Distinct
<1>5. /\ mem[st] = argv /\ mem[tx] = text /\ mem[ZeroPage] = Zero
      /\ mem[vdsoPage] = Private!Loaded(t, text, VdsoCode)
  BY <1>3, <1>4, ConstantFacts DEF Private!Loaded
<1>6. Shows(g, mem) = Private!Image(t, text, argv)
  BY <1>2, <1>5, ImageShows
<1>7. \A p \in Pid : SpaceOf(p) = IF p = 1 THEN Private!Image(t, text, argv) ELSE Private!NoSpace
  <2> HIDE DEF g
  <2> SUFFICES ASSUME NEW p \in Pid
               PROVE  SpaceOf(p) = IF p = 1 THEN Private!Image(t, text, argv) ELSE Private!NoSpace
    OBVIOUS
  <2>1. CASE p # 1
    <3>1. \A v \in VPage : pages[p][v] = 0
      BY <1>3, <2>1, ConstantFacts DEF Unmapped
    <3>2. \A v \in VPage : Cell(pages[p][v]) = Private!Absent
      BY <3>1, CellFacts
    <3> QED BY <2>1, <3>2, Spaces DEF Private!NoSpace
  <2>2. CASE p = 1
    <3>1. pages[p] = g
      BY <1>3, <2>2
    <3>2. SpaceOf(p) = Shows(g, mem)
      BY <3>1 DEF SpaceOf, Shows, Private!Absent, Private!Shared, Private!Own
    <3> QED BY <1>6, <2>2, <3>2
  <2> QED BY <2>1, <2>2
<1>8. Private!Init
  BY <1>3, <1>5, <1>7 DEF Private!Init, Pid
<1>9. LiveMapped
  <2>1. VdsoAt \in VPage /\ VdsoAt \notin {HeapPage, StackPage}
    BY ConstantsAssumption
  <2>2. g[VdsoAt] = vdsoPage
    BY <1>2, <2>1, ImageFacts
  <2> HIDE DEF g
  <2>3. pages[1][VdsoAt] # 0
    BY <1>3, <2>2, ConstantFacts
  <2>4. \A p \in Pid : p # 1 => pages[p][PagemapSlot] = 0
    BY <1>3, ConstantFacts DEF Unmapped
  <2> QED BY <2>3, <2>4 DEF LiveMapped, Live
<1> QED BY <1>8, <1>9

(* PageMemory implements AddressSpaces: what one process stores, maps,     *)
(* executes or gives up never shows in the memory of another, but for an   *)
(* image loaded over the shared vdso page, and a child starts with its     *)
(* parent's memory, for any number of processes and pages.                 *)
THEOREM IsolationCorrect == Spec => Isolation
<1>1. Init => Private!Init /\ LiveMapped
  BY InitIsolated
<1>2. IInv /\ LiveMapped /\ [Next]_vars
        => LiveMapped' /\ [Private!Next]_<<[p \in Pid |-> SpaceOf(p)], mem[vdsoPage], nprocs>>
  <2> SUFFICES ASSUME IInv, LiveMapped, [Next]_vars PROVE SpaceStep
    BY DEF SpaceStep, SpacesSame
  <2>1. CASE UNCHANGED vars
    BY <2>1, SameStep DEF vars
  <2> QED BY <2>1, FinishCloneSteps, ProcessSteps DEF Next
<1> QED BY <1>1, <1>2, Invariance, PTL DEF Spec, Isolation, Private!Spec
==============================================================================

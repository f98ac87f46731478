----------------------------- MODULE PageMemory -----------------------------
(***************************************************************************)
(* Physical pages, per-process page tables and cached translations of      *)
(* src/src/process.js, with the system calls that change them (clone,      *)
(* execve, mmap, mprotect in src/src/syscalls.js) and the release of an    *)
(* exited process by myLoop (src/src/startup.js).                          *)
(*                                                                         *)
(* JavaScript runs a system call or an instruction to its end before       *)
(* anything else, so each is one action; only the store of the child's tid *)
(* at the end of sys_clone is a step of its own, and `settid' keeps every  *)
(* other action disabled until it is done.  A page's content is one value. *)
(* An Error is caught nowhere and ends the program (under Node): `thrown'  *)
(* records which one, and nothing runs after it.  The Errors of freePage   *)
(* and duplicatePage have no action: AssertionsHold says that they are     *)
(* never reached.                                                          *)
(*                                                                         *)
(* Two variables record history and guide no action: `leaked', references  *)
(* that the code counts and then loses, and `vdso', what a loader last put *)
(* into the vdso page.                                                     *)
(***************************************************************************)
EXTENDS Integers, FiniteSets

CONSTANTS
  MaxPid,       \* bound: processes ever created
  TotalPages,   \* physical pages, 0 .. TotalPages - 1
  FirstFree,    \* firstFreePage
  VPage,        \* virtual page numbers of a process
  HeapPage, StackPage, VdsoAt,   \* where every image has its heap, its stack and the vdso
  TextPages,    \* bound: pages where an executable may have its segment
  Data, Zero, VdsoCode,                    \* page contents
  Prots,        \* protections that images and mmap ask for
  MmapPages,    \* bound: pages that calls of mmap name
  MprotectLens, \* bound: lengths, in pages, that calls of mprotect name
  MaxPast       \* bound: anonymous pages that calls of mmap map past the page table

Pid == 1..MaxPid
Page == 0..(TotalPages - 1)
Frames == FirstFree..(TotalPages - 1)
ZeroPage == 1
vdsoPage == FirstFree
PagemapSlot == -1
PageflagsSlot == -2
None == -3
Slot == VPage \cup {PagemapSlot, PageflagsSlot}
Perm == {"R", "W", "X"}
CacheSlot == {"write", "read", "olderRead", "code", "olderCode"}

ASSUME ConstantsAssumption ==
  /\ MaxPid \in Nat \ {0}
  /\ FirstFree \in Nat /\ FirstFree > ZeroPage
  /\ TotalPages \in Nat /\ TotalPages >= FirstFree + 5
  /\ IsFiniteSet(VPage) /\ VPage \subseteq Nat
  /\ {HeapPage, StackPage, VdsoAt} \subseteq VPage /\ TextPages \subseteq VPage
  /\ HeapPage \notin {StackPage, VdsoAt} /\ StackPage # VdsoAt
  /\ {Zero, VdsoCode} \subseteq Data
  /\ Prots \subseteq SUBSET Perm
  /\ MmapPages \subseteq VPage
  /\ MprotectLens \subseteq Nat
  /\ MaxPast \in Nat

VARIABLES
  refs,       \* pageRefCounts
  gflags,     \* globalPageFlags, "S" is VM_SHARED
  mem,        \* memory, one value per page
  pages,      \* pages[p][v] is pagemap[v]; the two negative slots hold the
              \* pages of the table itself (pagemapPage, pageflagsPage)
  pageflags,  \* pageflags[p][v]
  cache,      \* the opt* fields: one translation per CacheSlot
  nprocs,     \* processes.length
  settid,     \* page of ctid that the clone under way still has to write, or None
  thrown,     \* the Error that ended the emulator, or "none"
  leaked,     \* history: references to a page that were counted and lost
  vdso        \* history: what a loader last put into the vdso page
vars == <<refs, gflags, mem, pages, pageflags, cache, nprocs, settid, thrown, leaked, vdso>>

Live(p) == p <= nprocs /\ pages[p][PagemapSlot] # 0
Ready(p) == thrown = "none" /\ settid = None /\ Live(p)

-----------------------------------------------------------------------------
NoEntry == [v |-> None, page |-> 0]
NoTranslations == [s \in CacheSlot |-> NoEntry]
Unmapped == [s \in Slot |-> 0]
NoFlags == [v \in VPage |-> {}]

(* References that a table f holds to page b; table pages count as well.   *)
Count(f, b) == Cardinality({s \in Slot : f[s] = b})

(* allocatePage: the lowest unused page, counted once.                     *)
Unused(r) == {b \in Frames : r[b] = 0}
Lowest(r, b) == r[b] = 0 /\ \A c \in FirstFree..(b - 1) : r[c] # 0
TakenUncounted(r, b) == r   \* mutant: allocatePage forgets pageRefCounts[b]++
Taken(r, b) == [r EXCEPT ![b] = 1]

(* freeResources: one freePage for each reference of process p.            *)
DroppedTwice(p) ==          \* mutant: freePage once too often for mapped pages
  [b \in Page |-> IF b = 0 THEN refs[b]
                  ELSE refs[b] - Count(pages[p], b) - Cardinality({v \in VPage : pages[p][v] = b})]
Dropped(p) == [b \in Page |-> IF b = 0 THEN refs[b] ELSE refs[b] - Count(pages[p], b)]
DroppedFlags(p) ==
  LET r == Dropped(p)
  IN [b \in Page |-> IF b # 0 /\ Count(pages[p], b) > 0 /\ r[b] = 0
                     THEN {} ELSE gflags[b]]
Throw(error) ==
  /\ thrown' = error
  /\ UNCHANGED <<refs, gflags, mem, pages, pageflags, cache, nprocs, settid, leaked, vdso>>

(* initMemory maps the vdso.  loadElf then reads the segment into the page *)
(* it finds mapped where the segment lies, the vdso page too, or else into *)
(* a page tx of its own; it maps the heap and the stack to the zero page   *)
(* whatever was there, and stores argv through the latter.                 *)
ImagePages(t, pm, pf, tx, st) ==
  [Unmapped EXCEPT ![PagemapSlot] = pm, ![PageflagsSlot] = pf, ![t] = tx,
                   ![VdsoAt] = vdsoPage, ![HeapPage] = ZeroPage, ![StackPage] = st]
ImageFlags(t, prot) ==
  [NoFlags EXCEPT ![t] = prot, ![VdsoAt] = {"R", "X"},
                  ![HeapPage] = {"R", "W"}, ![StackPage] = {"R", "W"}]
(* The store through the stack page was the last to miss. *)
ImageCache(st) == [NoTranslations EXCEPT !["write"] = [v |-> StackPage, page |-> st]]

SegmentFrame(r, t, tx) == IF t = VdsoAt THEN tx = vdsoPage ELSE Lowest(r, tx)
ImageTaken(r, pm, pf, tx) ==
  IF tx = vdsoPage THEN Taken(Taken(r, pm), pf) ELSE Taken(Taken(Taken(r, pm), pf), tx)
Owned(pm, pf, tx, st) == {pm, pf, tx, st} \ {vdsoPage}
ImageRefs(r, pm, pf, tx, st) ==
  [b \in Page |-> CASE b \in Owned(pm, pf, tx, st) -> 1
                    [] b \in {ZeroPage, vdsoPage} -> r[b] + 1
                    [] OTHER -> r[b]]
ImageGlobalFlags(g, prot, pm, pf, tx, st) ==
  [b \in Page |-> CASE b \in {pm, pf} -> {}
                    [] b = tx /\ tx # vdsoPage -> prot
                    [] b = st -> {"R", "W"}
                    [] OTHER -> g[b]]

(* No table holds the page of a segment where the heap or the stack goes.  *)
ImageLeaks(l, t, tx) == IF t \in {HeapPage, StackPage} THEN [l EXCEPT ![tx] = @ + 1] ELSE l

BootRefs == [b \in Page |-> IF b \in {0, ZeroPage, vdsoPage} THEN 1 ELSE 0]
BootFlagsWritable ==        \* mutant: a writable zero page
  [b \in Page |-> CASE b = vdsoPage -> {"R", "X"} [] b = ZeroPage -> {"R", "W"} [] OTHER -> {}]
BootFlags ==
  [b \in Page |-> CASE b = vdsoPage -> {"R", "X"} [] b = ZeroPage -> {"R"} [] OTHER -> {}]

(* emuStart: one process, its image in an empty memory.                    *)
Init ==
  \E t \in TextPages, prot \in Prots, text \in Data, argv \in Data :
    LET pm == FirstFree + 1
        pf == FirstFree + 2
        tx == IF t = VdsoAt THEN vdsoPage ELSE FirstFree + 3
        st == IF t = VdsoAt THEN FirstFree + 3 ELSE FirstFree + 4
    IN /\ refs = ImageRefs(BootRefs, pm, pf, tx, st)
       /\ gflags = ImageGlobalFlags(BootFlags, prot, pm, pf, tx, st)
       /\ mem = [b \in Page |-> CASE b = tx -> text
                                  [] b = st -> argv
                                  [] b = vdsoPage /\ tx # vdsoPage -> VdsoCode
                                  [] OTHER -> Zero]
       /\ pages = [p \in Pid |-> IF p = 1 THEN ImagePages(t, pm, pf, tx, st) ELSE Unmapped]
       /\ pageflags = [p \in Pid |-> IF p = 1 THEN ImageFlags(t, prot) ELSE NoFlags]
       /\ cache = [p \in Pid |-> IF p = 1 THEN ImageCache(st) ELSE NoTranslations]
       /\ nprocs = 1 /\ settid = None /\ thrown = "none"
       /\ leaked = ImageLeaks([b \in Page |-> 0], t, tx)
       /\ vdso = IF t = VdsoAt THEN text ELSE VdsoCode

-----------------------------------------------------------------------------
(* translate: a hit looks at the cached page numbers and at nothing else.  *)
Hit(p, v, perm) ==
  \E s \in CASE perm = "W" -> {"write"}
             [] perm = "R" -> {"read", "olderRead"}
             [] perm = "X" -> {"code", "olderCode"} :
     cache[p][s].v = v

(* The end of translateMiss: the new translation, the previous one kept.   *)
Filled(c, perm, v, b) ==
  LET e == [v |-> v, page |-> b]
  IN CASE perm = "W" -> [c EXCEPT !["write"] = e]
       [] perm = "R" -> [c EXCEPT !["olderRead"] = c["read"], !["read"] = e]
       [] perm = "X" -> [c EXCEPT !["olderCode"] = c["code"], !["code"] = e]

Allowed(p, v, perm) == perm \in pageflags[p][v] /\ pages[p][v] # 0

ReadMiss(p, v, perm) ==
  /\ perm \in {"R", "X"} /\ ~Hit(p, v, perm) /\ Allowed(p, v, perm)
  /\ perm \in gflags[pages[p][v]]
  /\ cache' = [cache EXCEPT ![p] = Filled(cache[p], perm, v, pages[p][v])]
  /\ UNCHANGED <<refs, gflags, mem, pages, pageflags, nprocs, settid, thrown, leaked, vdso>>

(* A page fault the emulator does not resolve.                             *)
Fault(p, v, perm) ==
  /\ ~Hit(p, v, perm)
  /\ \/ ~Allowed(p, v, perm)
     \/ /\ perm \notin gflags[pages[p][v]]
        /\ ~(perm = "W" /\ ("S" \in gflags[pages[p][v]] \/ pages[p][v] = ZeroPage))
  /\ Throw("fault")

WriteHit(p, v, d) ==
  /\ Hit(p, v, "W")
  /\ mem' = [mem EXCEPT ![cache[p]["write"].page] = d]
  /\ UNCHANGED <<refs, gflags, pages, pageflags, cache, nprocs, thrown, leaked, vdso>>

WriteMapped(p, v, d) ==
  LET b == pages[p][v]
  IN /\ ~Hit(p, v, "W") /\ Allowed(p, v, "W") /\ "W" \in gflags[b]
     /\ mem' = [mem EXCEPT ![b] = d]
     /\ cache' = [cache EXCEPT ![p] = Filled(cache[p], "W", v, b)]
     /\ UNCHANGED <<refs, gflags, pages, pageflags, nprocs, thrown, leaked, vdso>>

WriteFaults(p, v) == ~Hit(p, v, "W") /\ Allowed(p, v, "W") /\ "W" \notin gflags[pages[p][v]]

SoleUserOfTwo(b) == refs[b] <= 2   \* mutant: off by one
SoleUser(b) == refs[b] = 1

(* The only user of a VM_SHARED page keeps it.                             *)
ReclaimShared(p, v, d) ==
  LET b == pages[p][v]
  IN /\ WriteFaults(p, v) /\ "S" \in gflags[b] /\ SoleUser(b)
     /\ gflags' = [gflags EXCEPT ![b] = pageflags[p][v]]
     /\ mem' = [mem EXCEPT ![b] = d]
     /\ cache' = [cache EXCEPT ![p] = Filled(NoTranslations, "W", v, b)]
     /\ UNCHANGED <<refs, pages, pageflags, nprocs, thrown, leaked, vdso>>

(* Copy on write, of a VM_SHARED page with other users or of the zero page:*)
(* allocatePage before freePage(oldPageId).                                *)
CopyNeeded(p, v) ==
  LET b == pages[p][v]
  IN WriteFaults(p, v) /\ (("S" \in gflags[b] /\ ~SoleUser(b)) \/ ("S" \notin gflags[b] /\ b = ZeroPage))

CopyOnWrite(p, v, d) ==
  LET old == pages[p][v]
  IN /\ CopyNeeded(p, v)
     /\ \E b \in Frames :
          /\ Lowest(refs, b)
          /\ refs' = [Taken(refs, b) EXCEPT ![old] = refs[old] - 1]
          /\ gflags' = [gflags EXCEPT ![b] = pageflags[p][v]]
          /\ mem' = [mem EXCEPT ![b] = d]
          /\ pages' = [pages EXCEPT ![p][v] = b]
          /\ cache' = [cache EXCEPT ![p] = Filled(NoTranslations, "W", v, b)]
     /\ UNCHANGED <<pageflags, nprocs, thrown, leaked, vdso>>

Store(p, v, d) == WriteHit(p, v, d) \/ WriteMapped(p, v, d) \/ ReclaimShared(p, v, d) \/ CopyOnWrite(p, v, d)

StoreThrows(p, v) ==
  \/ Fault(p, v, "W")
  \/ CopyNeeded(p, v) /\ Unused(refs) = {} /\ Throw("memory")

Write(p, v, d) == Store(p, v, d) /\ UNCHANGED settid

-----------------------------------------------------------------------------
(* sys_mmap_core, one page: without MAP_FIXED v is free, with it v is any  *)
(* page, those past the table included.  A call for n pages does this n    *)
(* times and then copies the file.                                         *)
WithOldLeaked(p, v) == refs        \* mutant: the page it replaces is not freed
WithoutOld(p, v) == IF pages[p][v] = 0 THEN refs ELSE [refs EXCEPT ![pages[p][v]] = @ - 1]
FlagsWithoutOld(p, v) ==
  IF pages[p][v] # 0 /\ refs[pages[p][v]] = 1 THEN [gflags EXCEPT ![pages[p][v]] = {}] ELSE gflags

MmapAnonymous(p, v, prot) ==
  /\ refs' = [WithoutOld(p, v) EXCEPT ![ZeroPage] = @ + 1]
  /\ gflags' = FlagsWithoutOld(p, v)
  /\ pages' = [pages EXCEPT ![p][v] = ZeroPage]
  /\ pageflags' = [pageflags EXCEPT ![p][v] = prot]
  /\ cache' = [cache EXCEPT ![p] = NoTranslations]
  /\ UNCHANGED <<mem, nprocs, settid, thrown, leaked, vdso>>

(* The copy translates with PROT_NONE, which fills the read translation;   *)
(* beyond the end of the file there is none, and the page stays zero.      *)
MmapFile(p, v, prot, copied, d) ==
  /\ copied \/ d = Zero
  /\ \E b \in Frames :
       /\ Lowest(WithoutOld(p, v), b)
       /\ refs' = Taken(WithoutOld(p, v), b)
       /\ gflags' = [FlagsWithoutOld(p, v) EXCEPT ![b] = prot]
       /\ mem' = [mem EXCEPT ![b] = d]
       /\ pages' = [pages EXCEPT ![p][v] = b]
       /\ cache' = [cache EXCEPT ![p] = IF copied THEN Filled(NoTranslations, "R", v, b)
                                                  ELSE NoTranslations]
  /\ pageflags' = [pageflags EXCEPT ![p][v] = prot]
  /\ UNCHANGED <<nprocs, settid, thrown, leaked, vdso>>

(* Past the table nothing is found and what is stored is dropped, but the  *)
(* zero page is counted.                                                   *)
MmapPast(p) ==
  /\ leaked[ZeroPage] < MaxPast
  /\ refs' = [refs EXCEPT ![ZeroPage] = @ + 1]
  /\ leaked' = [leaked EXCEPT ![ZeroPage] = @ + 1]
  /\ cache' = [cache EXCEPT ![p] = NoTranslations]
  /\ UNCHANGED <<gflags, mem, pages, pageflags, nprocs, settid, thrown, vdso>>

(* A file is mapped to no page, to an address that is no page's, or past   *)
(* the table, where doZeroPage is called for an undefined page.            *)
MmapError(p, v) ==
  \/ Unused(WithoutOld(p, v)) = {} /\ Throw("memory")
  \/ Unused(WithoutOld(p, v)) # {} /\ Throw("unaligned")
  \/ Unused(refs) # {} /\ Throw("zeroing")

(* sys_mprotect as written: for an aligned address the index it computes   *)
(* starts at zero, and the flags it sets are those of the virtual page with*)
(* the number of the physical one.  No translation is invalidated.         *)
Mprotect(p, n, prot) ==
  LET hit == {pages[p][v] : v \in {w \in VPage : w < n}} \cap VPage
  IN /\ pageflags' = [pageflags EXCEPT ![p] = [v \in VPage |-> IF v \in hit THEN prot ELSE @[v]]]
     /\ UNCHANGED <<refs, gflags, mem, pages, cache, nprocs, settid, thrown, leaked, vdso>>

-----------------------------------------------------------------------------
(* sys_clone: new Process (initMemory), then cloneFrom.  cowDupPage makes  *)
(* every page but the zero page VM_SHARED and read-only for all its users, *)
(* so the cached translations of all processes go.                         *)
ClonePages(p, pm, pf) ==
  [s \in Slot |-> CASE s = PagemapSlot -> pm
                    [] s = PageflagsSlot -> pf
                    [] s \in VPage /\ pages[p][s] # 0 -> pages[p][s]
                    [] s = VdsoAt /\ pages[p][s] = 0 -> vdsoPage
                    [] OTHER -> 0]
MappedCount(p, b) == Cardinality({v \in VPage : pages[p][v] = b})

(* References after a clone of p whose tables are tables.                  *)
CloneRefsUncounted(p, tables) ==   \* mutant: cowDupPage does not count
  [b \in Page |-> CASE b = 0 -> refs[b]
                    [] b \in tables -> 1
                    [] b = vdsoPage -> refs[b] + 1
                    [] OTHER -> refs[b]]
CloneRefs(p, tables) ==
  [b \in Page |-> CASE b = 0 -> refs[b]
                    [] b \in tables -> 1
                    [] b = vdsoPage -> refs[b] + 1 + MappedCount(p, b)
                    [] OTHER -> refs[b] + MappedCount(p, b)]

(* The child's own reference to the vdso page is lost where the parent's   *)
(* entry replaces its entry.                                               *)
CloneLeaks(p) == IF pages[p][VdsoAt] # 0 THEN [leaked EXCEPT ![vdsoPage] = @ + 1] ELSE leaked

CowFlagsWritable(b) == gflags[b] \cup {"S"}   \* mutant: the page stays writable
CowFlags(b) == (gflags[b] \cup {"S"}) \ {"W"}

InvalidatedChild(p) == [cache EXCEPT ![nprocs + 1] = NoTranslations]   \* mutant: not the parent
InvalidatedAll(p) == [r \in Pid |-> NoTranslations]

Clone(p) ==
  LET q == nprocs + 1
  IN /\ q \in Pid
     /\ nprocs' = q
     /\ \E pm \in Frames : Lowest(refs, pm) /\
        \E pf \in Frames :
          /\ Lowest(Taken(refs, pm), pf)
          /\ refs' = CloneRefs(p, {pm, pf})
          /\ gflags' = [b \in Page |->
                CASE b \in {pm, pf} -> {}
                  [] b \notin {0, ZeroPage, pm, pf} /\ MappedCount(p, b) > 0 -> CowFlags(b)
                  [] OTHER -> gflags[b]]
          /\ pages' = [pages EXCEPT ![q] = ClonePages(p, pm, pf)]
     /\ pageflags' = [pageflags EXCEPT ![q] =
            [v \in VPage |-> CASE pages[p][v] # 0 -> pageflags[p][v]
                               [] v = VdsoAt /\ pages[p][v] = 0 -> {"R", "X"}
                               [] OTHER -> {}]]
     /\ cache' = InvalidatedAll(p)
     /\ settid' \in VPage \cup {None}
     /\ leaked' = CloneLeaks(p)
     /\ UNCHANGED <<mem, thrown, vdso>>

CloneError == nprocs < MaxPid /\ Cardinality(Unused(refs)) < 2 /\ Throw("memory")

(* CLONE_CHILD_SETTID: newProcess.write32(ctid, newProcess.pid).           *)
SetTid(d) == Store(nprocs, settid, d) /\ settid' = None

(* sys_execve, past its error returns: freeResources, initMemory, loadElf. *)
Exec(p, t, prot, text, argv) ==
  LET r == Dropped(p)
  IN /\ \E pm \in Frames : Lowest(r, pm) /\
        \E pf \in Frames : Lowest(Taken(r, pm), pf) /\
        \E tx \in Frames : SegmentFrame(Taken(Taken(r, pm), pf), t, tx) /\
        \E st \in Frames :
          /\ Lowest(ImageTaken(r, pm, pf, tx), st)
          /\ refs' = ImageRefs(r, pm, pf, tx, st)
          /\ gflags' = ImageGlobalFlags(DroppedFlags(p), prot, pm, pf, tx, st)
          /\ mem' = [mem EXCEPT ![tx] = text, ![st] = argv]
          /\ pages' = [pages EXCEPT ![p] = ImagePages(t, pm, pf, tx, st)]
          /\ cache' = [cache EXCEPT ![p] = ImageCache(st)]
          /\ leaked' = ImageLeaks(leaked, t, tx)
     /\ pageflags' = [pageflags EXCEPT ![p] = ImageFlags(t, prot)]
     /\ vdso' = IF t = VdsoAt THEN text ELSE vdso
     /\ UNCHANGED <<nprocs, settid, thrown>>

ExecError(p, t) ==
  Cardinality(Unused(Dropped(p))) < (IF t = VdsoAt THEN 3 ELSE 4) /\ Throw("memory")

(* myLoop releases a process that exited or was killed.                    *)
Exit(p) ==
  /\ refs' = Dropped(p)
  /\ gflags' = DroppedFlags(p)
  /\ pages' = [pages EXCEPT ![p] = Unmapped]
  /\ pageflags' = [pageflags EXCEPT ![p] = NoFlags]
  /\ UNCHANGED <<mem, cache, nprocs, settid, thrown, leaked, vdso>>

-----------------------------------------------------------------------------
Access(p, v) ==
  \/ \E perm \in {"R", "X"} : ReadMiss(p, v, perm) \/ Fault(p, v, perm)
  \/ \E d \in Data : Write(p, v, d)
  \/ StoreThrows(p, v)

Mmap(p, v) ==
  \/ \E prot \in Prots : MmapAnonymous(p, v, prot)
  \/ \E prot \in Prots, copied \in BOOLEAN, d \in Data : MmapFile(p, v, prot, copied, d)
  \/ MmapError(p, v)

ProcessStep(p) ==
  \/ \E v \in VPage : Access(p, v)
  \/ \E v \in MmapPages : Mmap(p, v)
  \/ MmapPast(p)
  \/ \E n \in MprotectLens, prot \in Prots : Mprotect(p, n, prot)
  \/ Clone(p)
  \/ CloneError
  \/ \E t \in TextPages :
       \/ \E prot \in Prots, text \in Data, argv \in Data : Exec(p, t, prot, text, argv)
       \/ ExecError(p, t)
  \/ Exit(p)

FinishClone ==
  /\ thrown = "none" /\ settid # None
  /\ \/ \E d \in Data : SetTid(d)
     \/ StoreThrows(nprocs, settid)

Next == FinishClone \/ \E p \in Pid : Ready(p) /\ ProcessStep(p)
Spec == Init /\ [][Next]_vars
-----------------------------------------------------------------------------
(* All places in the tables f that hold a reference to page b.             *)
HoldersIn(f, b) == {h \in Pid \X Slot : f[h[1]][h[2]] = b}
Holders(b) == HoldersIn(pages, b)

(* References that no table holds: boot takes the zero page's and the      *)
(* vdso's once and never gives them back.                                  *)
Permanent(b) == IF b \in {ZeroPage, vdsoPage} THEN 1 ELSE 0

TypeOK ==
  /\ refs \in [Page -> Nat]
  /\ gflags \in [Page -> SUBSET (Perm \cup {"S"})]
  /\ mem \in [Page -> Data]
  /\ pages \in [Pid -> [Slot -> Page]]
  /\ pageflags \in [Pid -> [VPage -> SUBSET Perm]]
  /\ cache \in [Pid -> [CacheSlot -> [v : VPage \cup {None}, page : Page]]]
  /\ nprocs \in Pid
  /\ settid \in VPage \cup {None}
  /\ thrown \in {"none", "fault", "memory", "unaligned", "zeroing"}
  /\ leaked \in [Page -> Nat]
  /\ vdso \in Data

(* "Reference counters [...] for physical pages" (process.js:16): a page is*)
(* counted once for every table that holds it, through any interleaving of *)
(* clone, exec, mmap, copy on write and exit, and none is free while it is *)
(* mapped.  What is counted besides is what the code gives up for good:    *)
(* boot's references; one to the vdso page in every clone; the page of a   *)
(* segment where the heap or the stack goes; and one to the zero page for  *)
(* every page mapped past the end of a table.                              *)
RefCountsExact ==
  \A b \in Page \ {0} : refs[b] = Cardinality(Holders(b)) + Permanent(b) + leaked[b]

(* A page that its global flags let a process write without a fault has one*)
(* user; it is neither the zero page nor the vdso page.                    *)
WritableExclusive ==
  \A b \in Page : "W" \in gflags[b] =>
     b \notin {0, ZeroPage, vdsoPage} /\ Cardinality(Holders(b)) <= 1

(* A cached translation of a live process is the one its table gives, and a*)
(* cached write translation goes to a page that is still writable: nobody  *)
(* made it copy-on-write, freed or remapped it meanwhile (process.js:411,  *)
(* "Invalidate everyone's cached page flags (we might have COWed)").       *)
CacheCoherent ==
  \A p \in Pid, s \in CacheSlot : Live(p) /\ cache[p][s].v # None =>
     /\ pages[p][cache[p][s].v] = cache[p][s].page
     /\ cache[p][s].page # 0
     /\ s = "write" => "W" \in gflags[cache[p][s].page]

(* The page that stands for all zero-filled memory stays zero, and the     *)
(* vdso page holds what the last loader left there: no store of any process*)
(* reaches either, through its table or a stale translation.               *)
SharedPagesUnwritten == mem[ZeroPage] = Zero /\ mem[vdsoPage] = vdso

(* A page that holds a page table has that one use: no guest can reach it. *)
TablesPrivate ==
  \A p \in Pid, s \in {PagemapSlot, PageflagsSlot} : Live(p) =>
     pages[p][s] # 0 /\ Holders(pages[p][s]) = {<<p, s>>}

(* freePage never finds a page unused ("tried to free page ... which isn't *)
(* in use") nor drops the zero page's last reference, and duplicatePage    *)
(* never copies an unused page, whatever a live process does next.  Not so *)
(* for the Error of doZeroPage: see MmapError.                             *)
AssertionsHold ==
  \A p \in Pid : Live(p) =>
     LET r == Dropped(p)
     IN \A b \in Page \ {0} : r[b] >= 0 /\ (b = ZeroPage => r[b] >= 1)

-----------------------------------------------------------------------------
(* What a process has at its pages: nothing, the vdso page that all share, *)
(* or a value of its own.                                                  *)
SpaceOf(p) ==
  [v \in VPage |-> CASE pages[p][v] = 0 -> <<>>
                     [] pages[p][v] = vdsoPage -> <<"shared">>
                     [] OTHER -> <<"own", mem[pages[p][v]]>>]

(* The code implements private address spaces around one shared page: no   *)
(* interleaving of stores through cached translations, copy on write, page *)
(* reuse, clone, exec, mmap and exit of one process changes what another   *)
(* one reads, but for an image loaded over the vdso page.                  *)
Private == INSTANCE AddressSpaces WITH
  space <- [p \in Pid |-> SpaceOf(p)], shared <- mem[vdsoPage], born <- nprocs
Isolation == Private!Spec
=============================================================================

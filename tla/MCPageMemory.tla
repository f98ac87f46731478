---------------------------- MODULE MCPageMemory ----------------------------
(* Small instances of PageMemory for TLC.                                   *)
EXTENDS PageMemory

MCProts == {{"R", "W"}, {"R", "X"}}
MCWritable == {{"R", "W"}}

(* States that differ only in what an unused page, a table page or the     *)
(* translations of a released process still hold go on alike: allocatePage *)
(* is always followed by a store to the whole page, a table page holds the *)
(* table, and a released process never runs again.                         *)
(* A step that throws changes thrown alone, and no step follows it.        *)
Unread ==
  {b \in Page : refs[b] = 0} \cup {pages[p][s] : p \in Pid, s \in {PagemapSlot, PageflagsSlot}}
View ==
  IF thrown # "none" THEN <<thrown>>
  ELSE <<refs, gflags, pages, pageflags, nprocs, settid, leaked, vdso,
         LET unread == Unread IN [b \in Page |-> IF b \in unread THEN Zero ELSE mem[b]],
         [p \in Pid |-> IF Live(p) THEN cache[p] ELSE NoTranslations]>>

CONSTANT MaxTranslations
(* Bound: how many translations all processes hold at once.                *)
FewTranslations == Cardinality({<<p, s>> \in Pid \X CacheSlot : Live(p) /\ cache[p][s].v # None}) <= MaxTranslations
=============================================================================

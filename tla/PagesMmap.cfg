\* Three processes that share pages pairwise and all three, and mmap or mprotect
\* over what they share, once past the end of the table; an image's segment is
\* where the heap goes or over the vdso.  Contents do not matter to the counts.
CONSTANTS
  MaxPid = 3
  TotalPages = 10
  FirstFree = 2
  VPage = {2, 3, 4}
  HeapPage = 2
  StackPage = 3
  VdsoAt = 4
  TextPages = {2, 4}
  Data = {0}
  Zero = 0
  VdsoCode = 0
  Prots <- MCWritable
  MmapPages = {2}
  MprotectLens = {3}
  MaxPast = 1
  MaxTranslations = 1
SPECIFICATION Spec
INVARIANTS TypeOK RefCountsExact WritableExclusive TablesPrivate AssertionsHold
CONSTRAINT FewTranslations
VIEW View
CHECK_DEADLOCK FALSE

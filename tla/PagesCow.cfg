\* Two processes, two page contents: stores through cached translations,
\* copy on write, exec, exit and page reuse.  An image's segment has a page of
\* its own, the heap's or the vdso's.
CONSTANTS
  MaxPid = 2
  TotalPages = 10
  FirstFree = 2
  VPage = {1, 2, 3, 4}
  HeapPage = 2
  StackPage = 3
  VdsoAt = 4
  TextPages = {1, 2, 4}
  Data = {0, 1}
  Zero = 0
  VdsoCode = 0
  Prots <- MCWritable
  MmapPages = {}
  MprotectLens = {}
  MaxPast = 0
  MaxTranslations = 2
SPECIFICATION Spec
INVARIANTS CacheCoherent SharedPagesUnwritten
PROPERTY Isolation
CONSTRAINT FewTranslations
VIEW View
CHECK_DEADLOCK FALSE

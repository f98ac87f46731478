\* Words of eight bits, pages of sixteen bytes; the heap is none,
\* since it is made as the stack is, which has room for a start and a signal.
CONSTANTS
  B = 2
  PageSize = 16
  Limit = 240
  LoadBias = 16
  InterpBias = 64
  HeapPages = {}
  StackPages = {7, 8, 9, 10, 11, 12, 13, 14}
  ArgPage = 0
  VdsoPage = 6
  StackTop = 236
  ArgBase = 0
  Executables <- AllExecutables
  SavedOrder <- SomeRegisters
  Decode <- Decoded
  Region = 128
  Quanta = {1, 2}
  Results <- SomeResults
  MaxSignals = 2
  CallKind <- Calls
SPECIFICATION Spec
INVARIANT TypeOK
PROPERTIES ImplementsArchitecture SegmentsLoaded StartFrame
CHECK_DEADLOCK FALSE

\* Two processes, a pipe of two bytes, three descriptors each: both may read, poll and
\* write, with the writer end duplicated every way there is.
CONSTANTS
  MaxProc = 2
  MaxPipe = 1
  MaxFds = 3
  MaxSent = 2
  Terminals = 0
  ReadSizes = {1, 2}
  PollSets <- Polled
SPECIFICATION Spec
INVARIANTS TypeOK WriterRefsExact SleepersAreCalled
PROPERTY DeliversInOrder
CHECK_DEADLOCK FALSE

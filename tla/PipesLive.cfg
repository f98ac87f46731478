\* Two processes and one byte: the last writer goes away while the other sleeps.
CONSTANTS
  MaxProc = 2
  MaxPipe = 1
  MaxFds = 3
  MaxSent = 1
  Terminals = 0
  ReadSizes = {1}
  PollSets <- Polled
SPECIFICATION Spec
PROPERTY ReaderReturns
CHECK_DEADLOCK FALSE

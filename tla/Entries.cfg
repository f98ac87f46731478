\* Five processes, three areas: all of them are taken, given back and taken again.
CONSTANTS
  MaxProc = 5
  Areas = 3
  Value = {0, 1}
  Zeroed = 0
SPECIFICATION Spec
INVARIANTS TypeOK EntriesExact
PROPERTY RegistersPrivate
CHECK_DEADLOCK FALSE

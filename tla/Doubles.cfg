\* Two processes, one computes in double precision.
CONSTANTS
  MaxProc = 2
  Areas = 3
  Value = {0, 1}
  Zeroed = 0
SPECIFICATION Spec
PROPERTY PrivateAreas
CHECK_DEADLOCK FALSE

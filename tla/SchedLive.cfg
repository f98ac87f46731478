CONSTANTS
  Hosts = {TRUE}
  MaxProc = 3
  MaxTyped = 1
  Sets <- NoSets
  Groups = {2}
SPECIFICATION Spec
PROPERTIES ExitedIsReleased WaiterReturns
CHECK_DEADLOCK FALSE

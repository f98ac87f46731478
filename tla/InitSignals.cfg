\* The first process has the terminal, and the default action for SIGINT.
CONSTANTS
  Hosts = {TRUE}
  MaxProc = 1
  MaxTyped = 1
  Sets <- NoSets
  Groups = {}
SPECIFICATION Spec
PROPERTY InitGetsNoSignals
CHECK_DEADLOCK FALSE

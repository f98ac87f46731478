\* Three processes, under Node and in a browser.
CONSTANTS
  Hosts = {TRUE, FALSE}
  MaxProc = 3
  MaxTyped = 2
  Sets <- IntOneshot
  Groups = {0, 2}
SPECIFICATION Spec
INVARIANTS TypeOK WaiterIsCalled PendingSignalsRun RunnableIsScheduled ReadersAreResumed
VIEW View
CHECK_DEADLOCK FALSE

\* A task or a handler may have failed for ever, an example may have ended.
CONSTANTS
  Programs = {"amp", "polled", "intr"}
  LOAD = 1
  Sections <- MCSections
  resources <- MCResources
  MMUTable = 4
  CriticalTasks = {"RXVRING_TASK", "TIMER"}
  MaxNesting = 2
SPECIFICATION FairSpec
INVARIANTS NestingPrivate StartedMeansReady
PROPERTIES TicksGoOn ExamplesEnd
CHECK_DEADLOCK FALSE

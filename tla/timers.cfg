SPECIFICATION FairSpec
CONSTANTS
  tmr = tmr
  app = app
  TmrSvc <- tmr
  App <- app
  Tasks <- MCTasks
  IdleTask = idle
  MAX_PRIORITIES = 3
  TICK_MOD = 6
  OVERFLOW_MOD = 1
  EventLists = {"timerQueue"}
  Timers = {"x"}
  Periods = {1, 3}
  QUEUE_LENGTH = 2
  MaxBusy = 2
  MaxIsr = 1
  MaxAge = 1
  IsrCommands = {"START", "STOP", "CHANGE_PERIOD"}
INVARIANTS NeverEarly SleepsNoLonger PlaceTellsDue
PROPERTIES AutoReloadGoesOn DueExpires

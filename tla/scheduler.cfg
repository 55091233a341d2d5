SPECIFICATION Spec
CONSTANTS
  t1 = t1
  t2 = t2
  Tasks <- MCTasks
  IdleTask = idle
  MAX_PRIORITIES = 2
  TICK_MOD = 4
  OVERFLOW_MOD = 1
  EventLists = {"e"}
  BootOrder <- MCBootOrder
  InitPriority <- MCInitPriority
  Delays = {0, 1, 3}
  Lateness = {0, 2}
  MaxMissed = 2
INVARIANTS TypeOK ListsAgree RunsHighest TimeListsSound
PROPERTIES DelaysExact RoundRobin ImplementsTaskStates ListedUnlessRaised

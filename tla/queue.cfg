SPECIFICATION Spec
CONSTANTS
  t1 = t1
  t2 = t2
  t3 = t3
  Tasks <- MCTasks
  IdleTask = idle
  NoTask = none
  MAX_PRIORITIES = 3
  TICK_MOD = 4
  OVERFLOW_MOD = 1
  EventLists <- MCEventLists
  Queues = {"q"}
  Uses <- MCUses
  LENGTH <- MCLength
  Items = {1, 2}
  BootOrder <- MCBootOrder
  InitPriority <- MCInitPriority
  Calls <- MCCalls
  AltUsers <- MCAltUsers
  InitialCount = 1
  IsrSends = {"sendToBack"}
  MaxMissed = 1
  MaxElapsed = 3
  MaxLocked = 2
  MaxDepth = 2
INVARIANTS NoLostWakeup TimeoutHonest PriorityInherited
PROPERTIES ImplementsQueues

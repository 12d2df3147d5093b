SPECIFICATION FairWaitSpec
CONSTANTS
  main = main
  t1 = t1
  t2 = t2
  Threads <- MCThreads
  main_thread = main
  priority <- MCPriority
INVARIANTS
  TypeOK
  SchedulerConsistent
  NoPanic
  BoundedWait
PROPERTIES
  NoStarvation

SPECIFICATION SyncSpec
CONSTANTS
  Threads = {main, t1, t2, t3}
  main_thread = main
  priority <- MCPriority
  Locks = {console_lock}
  MaxDepth = 2
INVARIANTS
  SyncTypeOK
  AtomicSections
  HolderExact
  WaitersExact
  NoLostWakeup
PROPERTIES
  ThreadLayer
  MutexSafety

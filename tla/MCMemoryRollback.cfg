SPECIFICATION MemSpec
CONSTANTS
  Threads = {main, p1}
  main_thread = main
  priority <- MCPriority
  Locks = {kpool, upool}
  kernel_lock = kpool
  user_lock = upool
  MaxDepth = 1
  Processes = {p1}
  KernelFrames = 9
  UserFrames = 2
  UserPages = 4
  TablePages = 2
  BitmapPages = 1
  MaxPages = 2
  MainRequests = {}
INVARIANT
  FailsCleanly
CHECK_DEADLOCK FALSE

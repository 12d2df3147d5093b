SPECIFICATION MemSpec
CONSTANTS
  Threads = {main, p1, p2}
  main_thread = main
  priority <- MCPriority
  Locks = {kpool, upool}
  kernel_lock = kpool
  user_lock = upool
  MaxDepth = 1
  Processes = {p1, p2}
  KernelFrames = 9
  UserFrames = 3
  UserPages = 4
  TablePages = 2
  BitmapPages = 1
  MaxPages = 2
  MainRequests = {4, 5, 6, 10}
INVARIANTS
  MemTypeOK
  FramesOwned
  BooksExact
  LockKeptOnlyIfEmpty
  PanicCauses
PROPERTIES
  MappingsStable
CHECK_DEADLOCK FALSE

SPECIFICATION MixedSpec
CONSTANTS
  Threads = {main, p1, k1}
  main_thread = main
  priority <- MCPriority
  Locks = {kpool, upool}
  kernel_lock = kpool
  user_lock = upool
  MaxDepth = 1
  Processes = {p1}
  KernelFrames = 7
  UserFrames = 2
  UserPages = 3
  TablePages = 2
  BitmapPages = 1
  MaxPages = 1
  MainRequests = {}
INVARIANT
  FramesOwned
CHECK_DEADLOCK FALSE

SPECIFICATION WaitSpec
CONSTANTS
  Threads = {main, consumer_a}
  main_thread = main
  priority <- MCPriority
  Locks = {ioq}
  ioq_lock = ioq
  MaxDepth = 1
  bufsize = 3
INVARIANTS
  ConsumerCanWait

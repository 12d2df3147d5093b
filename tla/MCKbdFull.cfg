SPECIFICATION KbdFairSpec
CONSTANTS
  Threads = {main, consumer_a, consumer_b}
  main_thread = main
  priority <- MCPriority
  Locks = {console, ioq}
  console_lock = console
  ioq_lock = ioq
  MaxDepth = 1
  bufsize = 3
  MaxKeys = 2
PROPERTY
  LostOnlyIfFull

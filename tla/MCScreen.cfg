SPECIFICATION ScreenFairSpec
CONSTANTS
  Threads = {main, t1, t2}
  main_thread = main
  priority <- MCPriority
  Locks = {console}
  console_lock = console
  MaxDepth = 1
  ROWS = 2
  COLUMNS = 3
  BYTE = 5
  VIDEO_BYTES = 12
  INT_DIGITS = 2
  BLANK_CELLS = 3
  NAME_POS = 4
  END_POS = 3
  Texts <- MCTexts
  MaxCalls = 2
PROPERTIES
  ImplementsTerminal
  ConsoleGivenBack
  ImplementsMutex
CHECK_DEADLOCK FALSE

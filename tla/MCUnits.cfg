SPECIFICATION UnitsSpec
CONSTANTS
  BITS = 3
  btmp_bytes_len = 3
  Requests = {1, 2, 3, 4, 5, 6, 7, 8, 9, 10}
  Lists = {ready, waiters}
  Elems = {a, b, c}
  NULL = NULL
  Keys = {"shift_l", "ctrl_r", "alt_l", "caps_lock", "a", "equal", "slash", "backspace", "arrow"}
  MaxPresses = 4
  MaxPort = 5
INVARIANTS
  ScanTypeOK
  FirstFit
  ReadersAgree
  LinksMatch
  StatusTracksKeys
  TypedAsMeant
PROPERTIES
  ImplementsSequences
CHECK_DEADLOCK FALSE

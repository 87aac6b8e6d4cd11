SPECIFICATION SsdSpec
CONSTANTS
  Threads = {t1, t2}
  Flushers = {}
  Pages = {0, 1}
  Objs = {1, 2, 3, 4}
  cache_pages = 1
  read_ahead_pages = 0
  Ops = {"read", "write"}
  IOErrors = FALSE
  MaxWrites = 2
  MaxClock = 4
INVARIANTS
  ReadsLastWrite
CHECK_DEADLOCK FALSE

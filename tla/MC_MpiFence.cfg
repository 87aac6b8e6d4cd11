SPECIFICATION MpiSpec
CONSTANTS
  QueueSize = 2
  Senders = {s1}
  MsgTags = {t1}
  PoolPages = 2
  PageCounts = {0, 1}
  MaxSends = 0
  Wild = wild
  WinRanks = {1, 2, 3}
  VmOf <- MCVms
  Mirrored = {1, 2, 3}
  SyncModes = {"fence"}
  MaxWrites = 2
  MaxFences = 3
INVARIANT PutVisibleAfterFence
CHECK_DEADLOCK FALSE

SPECIFICATION MpiSpec
CONSTANTS
  QueueSize = 2
  Senders = {s1, s2}
  MsgTags = {t1}
  PoolPages = 2
  PageCounts = {0, 1}
  MaxSends = 3
  Wild = wild
  WinRanks = {1, 2, 3}
  VmOf <- MCVms
  Mirrored = {1, 2, 3}
  SyncModes = {"fence", "lock"}
  MaxWrites = 2
  MaxFences = 3
SYMMETRY SenderSymmetry
INVARIANTS
  MpiTypeOK
  MailDelivered
  
  GetIsCurrent
CHECK_DEADLOCK FALSE

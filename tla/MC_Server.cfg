SPECIFICATION ServerPartsSpec
CONSTANTS
  Threads = {c1, c2}
  NumWords = 2
  NumValues = 2
  IOErrors = TRUE
  Ops = {"READ", "WRITE", "FAA", "CAS", "BI_INVALIDATE", "BI_WRITEBACK"}
  MaxClock = 1
  MaxQueue = 2
  Users = {"u1", "u2"}
  SimUser = "u1"
  Addrs = {1, 2}
  ServerAddrs = {1}
  Latencies = {1}
  MaxStamp = 1
  MaxQueueSize = 4
  InitialCredits = 1
  NoUser = NoUser
  NoRequest = NoRequest
SYMMETRY ThreadSymmetry
INVARIANTS
  DirectoryShape
  ReadsLastWrite
  
  CreditsAccounted

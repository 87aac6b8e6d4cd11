SPECIFICATION BackendsSpec
CONSTANTS
  Threads = {t1}
  Flushers = {f1}
  Pages = {0, 1, 2}
  Objs = {1, 2, 3, 4}
  cache_pages = 2
  read_ahead_pages = 1
  Ops = {"read", "write"}
  IOErrors = TRUE
  MaxWrites = 1
  MaxClock = 4
  RingSize = 3
  RingWorkers = {"w1", "w2"}
  MaxRequests = 4
  MaxDrops = 1
  Clients = {"c1", "c2"}
  Workers = {"w1", "w2"}
  Lines = {0, 1}
  CounterLines = {1}
  BadLine = 2
  Requests <- MCRequests
  MaxCalls = 3
  MaxTimeouts = 1
  GpuThreads = {"a", "b", "c"}
  ProcessOf <- MCProcesses
  Traps = {TRUE, FALSE}
  MaxSubmission = 3
  FirstSubmissions = {0, 1, 2}
  MaxCommands = 2
INVARIANTS
  BackendsTypeOK
  CopyIsCurrent
  FlushDurable
  ResponseMatches
  OnePlaceAtATime
  
  
  

SPECIFICATION BackendsSpec
CONSTANTS
  Threads = {t1}
  Flushers = {f1}
  Pages = {0}
  Objs = {1}
  cache_pages = 1
  read_ahead_pages = 0
  Ops = {"read"}
  IOErrors = FALSE
  MaxWrites = 0
  MaxClock = 1
  RingSize = 2
  RingWorkers = {"w1", "w2"}
  MaxRequests = 1
  MaxDrops = 0
  Clients = {"c1"}
  Workers = {"w1"}
  Lines = {0, 1}
  CounterLines = {1}
  BadLine = 2
  Requests <- MCRequests
  MaxCalls = 1
  MaxTimeouts = 0
  GpuThreads = {"a"}
  ProcessOf <- MCProcesses
  Traps = {FALSE}
  MaxSubmission = 3
  FirstSubmissions = {0, 1, 2}
  MaxCommands = 2
INVARIANT
  TestResultIsOwn

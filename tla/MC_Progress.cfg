SPECIFICATION ProgressSpec
CONSTANTS
  Threads = {t1}
  Flushers = {f1}
  Pages = {0, 1}
  Objs = {1, 2, 3, 4}
  cache_pages = 1
  read_ahead_pages = 1
  Ops = {"read", "write", "prefetch", "pin", "unpin", "evict_after", "set_streaming"}
  IOErrors = FALSE
  MaxWrites = 1
  MaxClock = 2
  RingSize = 3
  RingWorkers = {"w1", "w2"}
  MaxRequests = 2
  MaxDrops = 1
  Clients = {"c1", "c2"}
  Workers = {"w1", "w2"}
  Lines = {0}
  CounterLines = {0}
  BadLine = 2
  Requests <- MCRequests
  MaxCalls = 2
  MaxTimeouts = 1
  GpuThreads = {"a", "c"}
  ProcessOf <- MCProcesses
  Traps = {FALSE}
  MaxSubmission = 3
  FirstSubmissions = {0, 2}
  MaxCommands = 2
  Tests <- MCTests
  Iters = 2
  TicketMod = 5
  StaleSeq = {0, 5}
  CollRanks = {1, 2, 3}
  CollRoot = 1
  CollCalls = 2
PROPERTIES
  OpsReturn
  RingAnswers
  PgasAnswered
  CommandReturns
  BenchFinishes
  

SPECIFICATION NodesSpec
CONSTANTS
  TotalCapacity = 3
  Granularity = 2
  MaxU64 = 15
  Tags = {1}
  MaxTag = 3
  Hosts = {0}
  Threads = {0, 2}
  Bases = {0, 15}
  Sizes = {1, 2}
  ReleaseSizes = {2}
  MaxMappings = 3
  Callers <- MCCallers
  Workers <- MCWorkers
  Beats = {0, 1}
  QueueRoom = 1
  MaxId = 3
INVARIANTS
  NodesTypeOK
  
  
  PendingExact
  AnswerHasItsId

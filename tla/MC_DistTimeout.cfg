SPECIFICATION RequestFairSpec
CONSTANTS
  Callers <- MCCaller
  Workers <- MCWorkerPerNode
  Beats = {}
  QueueRoom = 1
  MaxId = 1
PROPERTY CallsReturn
CHECK_DEADLOCK FALSE

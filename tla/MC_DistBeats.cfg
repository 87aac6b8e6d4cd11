SPECIFICATION RequestSpec
CONSTANTS
  Callers <- MCCaller
  Workers <- MCWorkerPerNode
  Beats = {1}
  QueueRoom = 1
  MaxId = 1
INVARIANT AnswerIsForRequest
CHECK_DEADLOCK FALSE

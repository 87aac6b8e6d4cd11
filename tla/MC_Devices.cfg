SPECIFICATION DevicesSpec
CONSTANTS
  TotalCapacity = 9
  Granularity = 2
  MaxU64 = 21
  Tags = {0, 1, 5}
  MaxTag = 3
  Nodes = {n0, n1, n2, n3, n4, n5}
  NoNode = NoNode
  Memory = Memory
  Wrap = 16
  LocalNode = 0
  Inputs <- MCRanges
  Interleavings <- MCInterleavings
  MaxRanges = 3
  CudaThreads = {"t1", "t2", "t3"}
  MaxDepth = 2
  MaxTokens = 3
  MaxRetains = 3
  Producers = {p1}
  Consumers = {c1}
  Capacity = 4
  Msgs = {"a", "b"}
  CountRange = 8
  Tests <- MCTests
  Iters = 2
  TicketMod = 5
  StaleSeq = {0, 5}
  CollRanks = {1, 2, 3}
  CollRoot = 1
  CollCalls = 3
INVARIANTS
  ExtentsDisjoint
  FirstFit
  DirectoryMatchesViews
  SearchesAgree
  LostOnlyByOverlap
  BenchMutualExclusion
  CountsEveryIncrement
  BarrierSeparates
  
  
PROPERTIES
  SwmrSpec
  HomesAreStable
  RefinesFifo

SPECIFICATION QueueSpec
CONSTANTS
  Producers = {p1}
  Consumers = {c1, c2}
  Capacity = 4
  Msgs = {"a"}
  CountRange = 8
INVARIANT MsgCountMatches

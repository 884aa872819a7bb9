CONSTANTS
  n1 = n1
  n2 = n2
  d1 = d1
  d2 = d2
  d3 = d3
  Node = {n1, n2}
  Daemon = {d1, d2, d3}
  NodeOf <- MCNodeOf
  Payload <- NoPayload
  InitGroup <- EmptyGroup
  Crashable = {}
  Stoppable = {d1}
  DupStart = TRUE
  CpgLosers = {}
SPECIFICATION SUSpec
INVARIANT AtMostOneOldest
CHECK_DEADLOCK FALSE

CONSTANTS
  n1 = n1
  n2 = n2
  d1 = d1
  d2 = d2
  d3 = d3
  Node = {n1, n2}
  Daemon = {d1, d2, d3}
  NodeOf <- MCNodeOf
  Payload <- NoPayload
  InitGroup <- EmptyGroup
  Crashable = {d1, d2}
  Stoppable = {d1, d3}
  DupStart = TRUE
  CpgLosers = {d1}
SPECIFICATION SUSpec
PROPERTY SocketKept
INVARIANT CountCoversList
INVARIANT MembershipAgreed
CHECK_DEADLOCK FALSE

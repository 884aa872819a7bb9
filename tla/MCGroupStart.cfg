CONSTANTS
  n1 = n1
  n2 = n2
  n3 = n3
  d1 = d1
  d2 = d2
  d3 = d3
  Node = {n1, n2, n3}
  Daemon = {d1, d2, d3}
  NodeOf <- NodeOf3
  Payload <- NoPayload
  InitGroup <- EmptyGroup
  Crashable = {d1, d2, d3}
  Stoppable = {d1, d2}
  DupStart = FALSE
SPECIFICATION GFairSpec
INVARIANT GTypeOK
INVARIANT IndInv
INVARIANT AtMostOneOldest
INVARIANT JoinedIsListed
INVARIANT CountCoversList
INVARIANT MembershipAgreed
INVARIANT OldestPresent
PROPERTY OldestEmerges
CHECK_DEADLOCK FALSE

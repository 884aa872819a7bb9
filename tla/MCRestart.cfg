CONSTANTS
  n1 = n1
  n2 = n2
  n3 = n3
  d1 = d1
  d2 = d2
  d3 = d3
  d4 = d4
  p1 = p1
  p2 = p2
  p3 = p3
  p4 = p4
  R1 = R1
  R2 = R2
  Node = {n1, n2}
  Daemon = {d1, d2, d4}
  NodeOf <- MCNodeOfD
  Payload <- LockMsg
  InitGroup <- Group1
  Crashable = {d1}
  Stoppable = {d4}
  DupStart = FALSE
  Proc = {p2, p4}
  ProcNode <- MCProcNodeP
  Resource = {R1}
  MaxCalls <- OneCall
  Threads = 1
  Triers = {p4}
  CpgLosers = {d1}
  Exiters = {}
  ExitHolding = FALSE
SPECIFICATION Spec
INVARIANT MutualExclusion
INVARIANT UnlockFindsLock
CHECK_DEADLOCK FALSE

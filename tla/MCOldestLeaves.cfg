CONSTANTS
  n1 = n1
  n2 = n2
  n3 = n3
  d1 = d1
  d2 = d2
  d3 = d3
  d4 = d4
  p1 = p1
  p2 = p2
  p3 = p3
  p4 = p4
  R1 = R1
  R2 = R2
  Node = {n1, n2}
  Daemon = {d1, d2}
  NodeOf <- MCNodeOfD
  Payload <- LockMsg
  InitGroup <- Group2
  Crashable = {d1}
  Stoppable = {}
  DupStart = FALSE
  Proc = {p1, p2}
  ProcNode <- MCProcNodeP
  Resource = {R1}
  MaxCalls <- OneCall
  Threads = 1
  Triers = {}
  CpgLosers = {}
  Exiters = {}
  ExitHolding = FALSE
SPECIFICATION Spec
INVARIANT NoStrandedWaiter
CHECK_DEADLOCK FALSE

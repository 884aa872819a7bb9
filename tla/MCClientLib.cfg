CONSTANTS
  t1 = t1
  t2 = t2
  t3 = t3
  R1 = R1
  R2 = R2
  Thread = {t1, t2, t3}
  Resource = {R1, R2}
  Wants <- MCWants
  Triers = {t2}
  MaxSeq = 3
  SockBuf = 2
  MayStop = TRUE
SPECIFICATION CLFairSpec
INVARIANT CLTypeOK
INVARIANT NoAnswerLost
INVARIANT HeldAsRecorded
INVARIANT OnlyLateGrantsStay
INVARIANT NoGridlock
PROPERTY ImplementsCalls
CHECK_DEADLOCK FALSE

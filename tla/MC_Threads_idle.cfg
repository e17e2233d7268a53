CONSTANTS
  NTHR <- MC_NTHR
  DevConds <- MC_DevConds
  NULL = NULL
  d1 = d1
SPECIFICATION Spec
INVARIANT NoWaitOnIdle
CHECK_DEADLOCK FALSE

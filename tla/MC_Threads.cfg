CONSTANTS
  NTHR <- MC_NTHR
  DevConds <- MC_DevConds
  NULL = NULL
  d1 = d1
SPECIFICATION FairSpec
INVARIANT TypeOK
INVARIANT SchedulerConsistent
INVARIANT WokenJoinAnyFindsChild
INVARIANT JoinTargetHeld
INVARIANT ParentTree
INVARIANT ReapedChildExitEmpty
PROPERTY ExitedStaysExited
PROPERTY ReadyListFifo
PROPERTY ReadyEventuallyRuns
PROPERTY JoinReturnsAfterExit
CHECK_DEADLOCK FALSE

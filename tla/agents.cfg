CONSTANTS
  Keys = {k1}
  HasSetup = {k1}
  MaxCalls = 2
  MaxFaults = 1
SPECIFICATION FairSpec
INVARIANTS OneExecutionAtATime NoForeignContainer AnsweredLeavesNothing
  OnlyTheOwnerOrAStopEndsARun CancelledMeansStopped
PROPERTIES StopIsHonoured GivingUpEnds
CHECK_DEADLOCK FALSE

CONSTANTS
  Stages = 3
  NoLimit = NoLimit
  Limit <- ThreeStages
  MaxAttempts <- ThreeTries
  Continue = {1}
  Guarded = {3}
  Faulty = {}
  Steered = {2}
  Executors = {e1}
  Sweepers = {}
  DefaultLimit = 1
  HeartbeatLimit = 1
  SilenceLimit = 1
  AgeCap = 1
  SweepSpan = 1
  MaxOpens = 2
  UpdateRetries = 1
  Overlap = FALSE
  Prompt = FALSE
  OperatorStops = FALSE
  Priorities = {0}
  MaxMessages = 1
  ClaimLimit = 1
SPECIFICATION Spec
INVARIANTS
  TypeOK
  AttemptsAreContiguous
  OneStepInFlight
  DoneAccountsForEveryStage
  LogAgreesWithState
  DoneLeavesNothingOpen
PROPERTIES
  FinishedWorkIsKept
CHECK_DEADLOCK FALSE

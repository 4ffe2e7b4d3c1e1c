CONSTANTS
  Stages = 2
  NoLimit = NoLimit
  Limit <- OneLimited
  MaxAttempts <- OneTry
  Continue = {}
  Guarded = {}
  Faulty = {}
  Steered = {2}
  Executors = {e1}
  Sweepers = {w1}
  DefaultLimit = 1
  HeartbeatLimit = 1
  SilenceLimit = 1
  AgeCap = 2
  SweepSpan = 1
  MaxOpens = 1
  UpdateRetries = 1
  Overlap = FALSE
  Prompt = TRUE
  OperatorStops = TRUE
  Priorities = {0}
  MaxMessages = 0
  ClaimLimit = 1
SPECIFICATION Spec
PROPERTIES
  LiveRunIsNotHalted
CHECK_DEADLOCK FALSE

CONSTANTS
  Stages = 1
  NoLimit = NoLimit
  Limit <- OneStage
  MaxAttempts <- OneTryOnly
  Continue = {}
  Guarded = {}
  Faulty = {}
  Steered = {}
  Executors = {e1}
  Sweepers = {w1}
  DefaultLimit = 2
  HeartbeatLimit = 1
  SilenceLimit = 1
  AgeCap = 3
  SweepSpan = 1
  MaxOpens = 1
  UpdateRetries = 1
  Overlap = FALSE
  Prompt = TRUE
  OperatorStops = FALSE
  Priorities = {0}
  MaxMessages = 0
  ClaimLimit = 1
SPECIFICATION Spec
PROPERTIES
  LiveRunIsNotHalted
CHECK_DEADLOCK FALSE

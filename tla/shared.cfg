CONSTANTS
  Stages = 1
  NoLimit = NoLimit
  Limit <- OneStage
  MaxAttempts <- OneTryOnly
  Continue = {}
  Guarded = {1}
  Faulty = {1}
  Steered = {1}
  Executors = {e1, e2}
  Sweepers = {}
  DefaultLimit = 1
  HeartbeatLimit = 1
  SilenceLimit = 1
  AgeCap = 0
  SweepSpan = 1
  MaxOpens = 2
  UpdateRetries = 1
  Overlap = TRUE
  Prompt = FALSE
  OperatorStops = TRUE
  Priorities = {0, 1}
  MaxMessages = 2
  ClaimLimit = 1
SPECIFICATION Spec
SYMMETRY ExecutorSymmetry
INVARIANTS
  HandedAtMostOnce
  OrdinalsAreADenseOrder
CHECK_DEADLOCK FALSE

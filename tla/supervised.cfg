CONSTANTS
  Stages = 2
  NoLimit = NoLimit
  Limit <- OneLimited
  MaxAttempts <- OneTry
  Continue = {}
  Guarded = {}
  Faulty = {}
  Steered = {2}
  Executors = {e1}
  Sweepers = {w1}
  DefaultLimit = 2
  HeartbeatLimit = 1
  SilenceLimit = 1
  AgeCap = 3
  SweepSpan = 1
  MaxOpens = 2
  UpdateRetries = 2
  Overlap = FALSE
  Prompt = FALSE
  OperatorStops = FALSE
  Priorities = {0}
  MaxMessages = 0
  ClaimLimit = 1
SPECIFICATION FairSpec
PROPERTIES
  WhatMovesAFinishedRun
  DeadRunIsNoticed
CHECK_DEADLOCK FALSE

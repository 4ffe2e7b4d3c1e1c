CONSTANTS
  Runs = {u1, u2}
  Branches = {b1}
  BranchOf <- OneBranch
  Nobody = Nobody
  MaxCrashes = 1
CONSTANTS
  Tracked = {"AGENTS.md", "CONVENTIONS.md", "code"}
  Source = "CONVENTIONS.md"
  Evidence = TRUE
  Deletable = {"code"}
  Endings = {{}, {"timed_out"}}
  Reports = {"unreadable", "failed", "passed_with_tests"}
  MaxAttempts = 2
CONSTANTS
  Attempts = {"a", "b"}
  ImageOf <- OneImage
  Opaque = {}
  Flaky = TRUE
  MaxSessions = 2
CONSTANTS
  Lines <- SomeLines
  Counts <- SomeCounts
  Cumulative = TRUE
  MaxLine = 4
  Clocks <- TwoClocks
  Caps <- TwoCaps
  None = None
  MaxWrites = 2
SPECIFICATION Spec
INVARIANTS
  CheckoutIsTheRuns
  BranchIsTheAgentsWork
  ASuccessIsThisAttempts
  SiblingsInUseAreSpared
  OutputIsReadAsWritten
  AttemptKeepsItsLimits
PROPERTIES
  NothingIsLostOrLeft
CHECK_DEADLOCK FALSE

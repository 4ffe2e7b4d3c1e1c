CONSTANTS
  Keys = {"k1", "k2"}
  Repos = {"r1", "r2"}
  RepoOf <- RepoOfKeys
  RepoCap <- OneEach
  FleetLimit = 1
  MaxRemembered = 1
  MaxCalls = 3
CONSTANTS
  Refs = {"a", "b"}
  Unroutable = {"b"}
  People = {"p"}
  Texts = {"t"}
  Conversations = {"c"}
  BatchLimit = 1
  MaxArrivals = 2
  MaxRuns = 1
  MaxTurns = 1
CONSTANTS
  Processes = {"p", "q"}
  NewestSchema = 2
  Runs = {"r", "s"}
  Unreviewable = {"s"}
  Records = {"x", "y"}
  Malformed = {"y"}
  MaxDrains = 2
  MaxFaults = 1
CONSTANTS
  Stages <- SomeStages
  Replies <- SomeReplies
  Price <- TwoPrices
  Window <- TwoWindows
  MaxTries = 2
  NoCap = NoCap
CONSTANTS
  Posts = {"a", "b"}
  Senders = {1, 2, 3}
  Flushers = {"f"}
  Capacity = 1
  MaxSends = 2
CONSTANTS
  Cases <- SomeCases
  MaxFilesRead = 5
  MaxMembers = 2
SPECIFICATION Spec
INVARIANTS
  QueueIsKept
  ReplyIsAccountedFor
  WorkflowMeansWhatItSays
  TextIsASelector
  NothingIsGuessed
  RepairsKeepTheContent
PROPERTIES
  EveryoneIsServed
  RequestsAreKept
  UpgradeLosesNothing
CHECK_DEADLOCK FALSE

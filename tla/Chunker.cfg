CONSTANTS
  LongLine = 5
  WordCosts = {0, 1, 3}
  Documents <- MCDocuments
  Lines <- MCLines
  Words <- MCWords
  Tokens <- MCTokens
  Joined <- MCJoined
  MaxTokens = {0, 3, 4}
  OverlapPercent = 70
  Agencies = {ute, apache}
  Seed = ute
  Operators = {deployer, admin}
  Deployer = deployer
  MaxCommands = 1
  MaxFaults = 1
  MaxOutside = 2
  nothing = nothing
  Null = nothing
  Cases <- MCCases
  Directories <- MCDirectories
  Uuids <- MCUuids
  Loaders = {one, two}
  MaxInactive = 1
SPECIFICATION MCSpec
INVARIANTS Survives WithinBudget WindowsMatchScan VersionIsTrue ConfigLast ExitMeansDone StaysInCase DoneMeansLoaded RerunIsIdempotent
PROPERTIES Chunked ReachesHead
CHECK_DEADLOCK FALSE

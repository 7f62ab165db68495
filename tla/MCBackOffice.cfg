\* Every reachable state of each of the parts.
SPECIFICATION Spec
CONSTANTS
  RoutineCallers = {c1, c2}
  Declared <- MCDeclared
  MaxTime = 4
  RegistryCallers = {c1, c2}
  Roles = {"fixer", "scanner", "ghost"}
  KnownRoles = {"fixer", "scanner"}
  TokenCallers = {c1, c2}
  Tokens <- MCTokens
  OwnerOf <- MCOwnerOf
  Scopes = {"checkout"}
  Writers = {w1, w2, w3}
  Threshold = 1
  MaxEvents = 6
  MaxSeconds = 2
  NoLimit = NoLimit
  Unparsable = Unparsable
  MonthStarts = {0, 744}
  Sessions <- MCSessions
  SessionAgent <- MCSessionAgent
  AgentBudgets <- MCAgentBudgets
  RunCost = 2
  MaxCost = 7
  AdapterCallers = {c1, c2}
  AdapterRuns = {"noop", "backend", "approved", "unasked", "protected"}
  Approved = {"approved", "protected"}
  Protected = {"protected"}
  AdapterOf <- MCAdapterOf
  Backends <- MCBackends
  Preferences <- MCPreferences
  MaxFlips = 4
  Scanners = {"a", "b"}
  MaxHead = 3
  Commands = {c1, c2}
  Audited = {r1}
  Depts <- MCDepts
  Findings <- MCFindings
  Refused <- MCRefused
  Listings <- MCListings
  MaxScans = 2
  MaxCount = 3
  MaxOverlaps = 1
  Suites <- MCSuites
  Incomplete = {"n"}
  CoverageKind <- MCCoverageKind
  Workers = {c1, c2}
  MaxRuns = 2
  MaxSecond = 2
  SyncTargets <- MCSyncTargets
  SyncDepts = {"", "qa"}
  Previews <- MCPreviews
  Produced <- MCProduced
  MaxTries = 2
  MaxVersion = 2
  NoFindings = NoFindings
  NoScore = NoScore
  ScanScenes <- MCScanScenes
  ToolDeeds <- MCToolDeeds
  Minimums = {"medium", "info"}
  Maximums = {1, 2}
  BoardDepts = {"qa", "seo", "compliance", "monetization"}
  RawFindings <- MCRawFindings
  MostFindings = 2
  OwnSummaries <- MCOwnSummaries
  Overalls = {80, NoScore}
  CostEvents <- MCCostEvents
  MostCosts = 3
  Declarations <- MCDeclarations
  Hours = {30, 190, 750}
  FixLogs <- MCFixLogs
  StoredValues <- Values
SYMMETRY Callers
CHECK_DEADLOCK FALSE
INVARIANTS
  RoutinesObeyDecisions
  StatusIsTheOperators
  TokensKeepDecisions
  RotationKeepsEvents
  OverrunIsBounded
  SuccessIsReal
  AssignedCanDoIt
  UndisturbedSkipIsCurrent
  BoardKeepsUp
  BacklogKeepsHistory
  LatestIsHonest
  SyncedIsServed
  EveryInputAddsUp

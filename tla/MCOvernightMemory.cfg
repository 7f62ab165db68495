SPECIFICATION Spec
CONSTANTS
  site = site
  web = web
  app = app
  fix1 = fix1
  feat1 = feat1
  TargetOf <- TargetOfSite
  Default = default
  Wip = wip
  None = none
  Targets <- OneTarget
  Fixes = {fix1}
  Features = {}
  Texts <- TextsOfOne
  NamesIn <- NamesInOne
  Strike <- StrikeOne
  AutoDeploy = {}
  MaxCycles = 6
  MaxStops = 1
  HistoryKeep = 4
  FailureWindow = 2
  QuarantineThreshold = 2
CHECK_DEADLOCK FALSE
INVARIANTS
  RetryWaits
  QuarantineLasts

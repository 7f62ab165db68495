SPECIFICATION Spec
CONSTANTS
  site = site
  web = web
  app = app
  fix1 = fix1
  feat1 = feat1
  TargetOf <- TargetOfSite
  Default = default
  Wip = wip
  None = none
  Targets <- ThreeTargets
  Fixes = {fix1}
  Features = {feat1}
  Texts <- TextsOfThree
  NamesIn <- NamesInThree
  Strike <- StrikeThree
  AutoDeploy = {site, web, app}
  MaxCycles = 2
  MaxStops = 1
  HistoryKeep = 1
  FailureWindow = 1
  QuarantineThreshold = 2
CHECK_DEADLOCK FALSE
INVARIANTS
  DefaultKeepsCommits
  FeaturesGated
  ShippedWasVerified

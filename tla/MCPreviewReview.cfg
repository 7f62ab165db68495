SPECIFICATION Spec
CONSTANTS
  trunk = trunk
  j1 = j1
  j2 = j2
  c1 = c1
  c2 = c2
  c3 = c3
  Trunk = trunk
  Jobs <- TwoJobs
  Changes <- ThreeChanges
  None = none
  MaxCrashes = 2
SYMMETRY Symmetry
CHECK_DEADLOCK FALSE
INVARIANTS
  OneFixAtATime
  PreviewIsolatedUnlessOverlap
  ApprovedStays
  UndecidedIsIntact

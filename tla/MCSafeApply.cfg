SPECIFICATION Spec
CONSTANTS
  r1 = r1
  r2 = r2
  Runs = {r1, r2}
  Trunk = trunk
  None = none
  Args <- MCArgs
  Autonomies <- MCAutonomies
  AiFile <- MCAiFile
  ToolFile <- MCToolFile
  Commands = {"tests"}
  MaxFaults = 1
CHECK_DEADLOCK FALSE
PROPERTIES
  ImplementsPromise
INVARIANTS
  AppliedIsCommitted
  BatchKeepsToRequest

\* The recovery that docs/task-lifecycle.md describes, with no crash at all.
CONSTANTS
  p1 = p1
  p2 = p2
  a1 = a1
  a2 = a2
  r1 = r1
  r2 = r2
  r3 = r3
  Clients = {p1, p2}
  Agents = {a1, a2}
  Tasks = {t1}
  RunIds = {r1, r2, r3}
  None = None
  InitialStatuses = {"ready"}
  TransitionTargets = {"ready"}
  MaxWrites = 2
  MaxCrashes = 0
SPECIFICATION Spec
PROPERTY StaleCheckoutProceeds
CHECK_DEADLOCK FALSE

\* One task that is queued or not in the queue at all, no symmetry (liveness).
\* The bounded system stops once the changes are spent.
CONSTANTS
  p1 = p1
  p2 = p2
  a1 = a1
  a2 = a2
  r1 = r1
  r2 = r2
  r3 = r3
  Clients = {p1, p2}
  Agents = {a1, a2}
  Tasks = {t1}
  RunIds = {r1, r2, r3}
  None = None
  InitialStatuses = {"queued", "absent"}
  TransitionTargets = {"ready", "cancelled"}
  MaxWrites = 3
  MaxCrashes = 1
SPECIFICATION FairSpec
PROPERTY LockReleased
CHECK_DEADLOCK FALSE

\* Two processes, two agents, two tasks that start ready; three run ids, four
\* status changes and one process death: enough for a claim, a return to ready,
\* a second claim and an end of run, with the other task written in between.
\* The bounded system stops once the changes are spent.
CONSTANTS
  p1 = p1
  p2 = p2
  a1 = a1
  a2 = a2
  r1 = r1
  r2 = r2
  r3 = r3
  Clients = {p1, p2}
  Agents = {a1, a2}
  Tasks = {t1, t2}
  RunIds = {r1, r2, r3}
  None = None
  InitialStatuses = {"ready"}
  TransitionTargets = {"ready", "in_progress"}
  MaxWrites = 4
  MaxCrashes = 1
SPECIFICATION Spec
SYMMETRY Symmetric
INVARIANT TypeOK
INVARIANT SingleHolder
INVARIANT PointersAgree
INVARIANT AuditLossBounded
INVARIANT MirrorsSettle
PROPERTY RunsNeverRevived
PROPERTY ImplementsTaskClaim
CHECK_DEADLOCK FALSE

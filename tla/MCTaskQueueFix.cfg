\* The server alone: a fix applied to a ready task.
CONSTANTS
  srv = srv
  cmd = cmd
  a1 = a1
  a2 = a2
  r1 = r1
  r2 = r2
  t1 = t1
  Clients = {srv}
  Servers = {srv}
  Commands = {}
  Agents = {a1, a2}
  Tasks = {t1}
  RunIds = {r1, r2}
  None = None
  InitialStatuses = {"absent"}
  TransitionTargets = {}
  CommandTargets = {"in_progress", "ready_for_review", "cancelled"}
  NewStatuses = {"proposed"}
  MaxWrites = 3
  MaxCrashes = 0
SPECIFICATION SysSpec
PROPERTY AppliedFixGoesToReview
CHECK_DEADLOCK FALSE

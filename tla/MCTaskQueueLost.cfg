\* The server and one command, no crash: a claim is lost to a command that saves
\* the queue it had loaded before the checkout.
CONSTANTS
  srv = srv
  cmd = cmd
  a1 = a1
  a2 = a2
  r1 = r1
  r2 = r2
  t1 = t1
  Clients = {srv, cmd}
  Servers = {srv}
  Commands = {cmd}
  Agents = {a1, a2}
  Tasks = {t1}
  RunIds = {r1, r2}
  None = None
  InitialStatuses = {"ready", "absent"}
  TransitionTargets = {}
  CommandTargets = {"in_progress", "ready_for_review", "cancelled"}
  NewStatuses = {"proposed"}
  MaxWrites = 3
  MaxCrashes = 0
SPECIFICATION SysSpec
INVARIANT SingleHolder
CHECK_DEADLOCK FALSE

\* One dashboard server, which also answers the agent API, and one command at a
\* time; one task of any kind that starts ready or absent; two runs, three moves
\* and one process death.  The bounded system stops once the moves are spent.
CONSTANTS
  srv = srv
  cmd = cmd
  a1 = a1
  a2 = a2
  r1 = r1
  r2 = r2
  t1 = t1
  Clients = {srv, cmd}
  Servers = {srv}
  Commands = {cmd}
  Agents = {a1, a2}
  Tasks = {t1}
  RunIds = {r1, r2}
  None = None
  InitialStatuses = {"ready", "absent"}
  TransitionTargets = {}
  CommandTargets = {"in_progress", "ready_for_review", "cancelled"}
  NewStatuses = {"proposed"}
  MaxWrites = 3
  MaxCrashes = 1
SPECIFICATION SysSpec
SYMMETRY Symmetric
VIEW WithoutMirrors
INVARIANT HoldersUnlessClobbered
INVARIANT EventsMatchWrites
PROPERTY MovesLegalUnlessClobbered
CHECK_DEADLOCK FALSE

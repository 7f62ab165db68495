\* Two of the three runs, in any order and interleaving, with a wait for
\* the flock given up, a script killed or a death of the server.
SPECIFICATION Spec
CONSTANTS
  batch = batch
  make = make
  scan = scan
  Jobs <- MCJobs
  Runs = {batch, make, scan}
  RunOf <- MCRunOf
  DeptOf <- MCDeptOf
  Server = {batch, scan}
  Scans = {scan}
  Sequential = {batch}
  None = None
  Absent = Absent
  Garbage = Garbage
  MaxRuns = 2
  MaxFaults = 1
INVARIANTS EveryCallCounts CompleteMeansDone OneJobPerDepartment
  NoRunIsStuck
CHECK_DEADLOCK FALSE

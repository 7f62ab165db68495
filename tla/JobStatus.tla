------------------------------ MODULE JobStatus ------------------------------
(***************************************************************************)
(* The job status file results/.jobs.json: scripts/job-status.sh, the agent*)
(* scripts that call it, and the run requests of backoffice/api_server.py  *)
(* and of the Makefile.                                                    *)
(*                                                                         *)
(* Every command reads the file, changes it in memory, and copies the      *)
(* result over it with cp, which truncates before it writes.  Start and    *)
(* finish hold a flock meanwhile, or give up on it after five seconds;     *)
(* init and finalize take none.  A command that cannot parse what it reads *)
(* prints nothing, and that is what is copied.                             *)
(***************************************************************************)
EXTENDS Naturals, FiniteSets

CONSTANTS
  Jobs,        \* executions of agent scripts
  Runs,        \* requests to run one or several of them
  RunOf,       \* job -> the run that launches it
  DeptOf,      \* job -> its department
  Server,      \* runs asked of the API server; the others are commands
  Scans,       \* those that are POST /api/run-scan, of one department
  Sequential,  \* batches whose jobs are launched one after the other
  None, Absent, Garbage,
  MaxRuns,     \* bound on the runs begun
  MaxFaults    \* bound on waits for the flock given up, scripts killed and
               \* deaths of the server

Actors == Runs \cup Jobs

Depts == {DeptOf[j] : j \in Jobs}

JobsOf(r) == {j \in Jobs : RunOf[j] = r}

ASSUME RunsAssumption ==
  /\ IsFiniteSet(Jobs) /\ Jobs \cap Runs = {}
  /\ RunOf \in [Jobs -> Runs]
  /\ Scans \subseteq Server /\ Sequential \subseteq Server \ Scans /\ Server \subseteq Runs
  /\ \A j, k \in Jobs : RunOf[j] = RunOf[k] /\ DeptOf[j] = DeptOf[k] => j = k
  /\ \A r \in Scans : Cardinality(JobsOf(r)) = 1
  /\ {None, Absent, Garbage} \cap Actors = {} /\ Absent # Garbage
  /\ \A past \in SUBSET Runs : past # Garbage
ASSUME BoundsAssumption == {MaxRuns, MaxFaults} \subseteq Nat

VARIABLES
  file,      \* results/.jobs.json
  history,   \* results/.jobs-history.json: the runs it records
  lock,      \* holder of the flock on results/.jobs.lock
  at,        \* what each run and each job does next
  change,    \* what the command that an actor executes is to do
  copy,      \* what that command has computed from its reads
  running,   \* running_jobs: the jobs whose threads the server keeps
  served,    \* requests taken by the server that is up
  awaited,   \* run -> the department whose end its thread waits for
  timeouts, restarts,
  ideal,     \* the file and the runs in the history, were every command one
  recorded,  \*   step; kept until disturbed (history)
  disturbed  \* see Disturbs (history)

store == <<file, history, lock, change, copy>>
server == <<running, served, awaited, restarts>>
observed == <<ideal, recorded, disturbed>>
vars == <<store, at, server, timeouts, observed>>

-----------------------------------------------------------------------------
(* The contents of the file. *)

(* A file that can be read: [run, status, jobs], where "done" stands for complete and
   for error. *)
Unreadable == {Absent, Garbage}

With(jobs, d, s) == [x \in DOMAIN jobs \cup {d} |-> IF x = d THEN s ELSE jobs[x]]

SomeDone(jobs) == \E d \in DOMAIN jobs : jobs[d] = "done"

AllDone(jobs) == \A d \in DOMAIN jobs : jobs[d] = "done"

(* job_init *)
Fresh(r) ==
  [run |-> r, status |-> "running", jobs |-> [d \in {DeptOf[j] : j \in JobsOf(r)} |-> "queued"]]

(* job_start *)
Started(f, j) ==
  CASE f = Garbage -> Garbage
    [] f = Absent  ->
         [run |-> RunOf[j], status |-> "running", jobs |-> [d \in {DeptOf[j]} |-> "running"]]
    [] OTHER       -> [f EXCEPT !.status = "running", !.jobs = With(@, DeptOf[j], "running")]

(* job_finish *)
Finished(f, j) ==
  IF f \in Unreadable THEN Garbage
  ELSE LET jobs == With(f.jobs, DeptOf[j], "done")
       IN  [f EXCEPT !.jobs = jobs, !.status = IF AllDone(jobs) THEN "done" ELSE @]

(* finalize *)
Finalized(f) == IF f \in Unreadable THEN Garbage ELSE [f EXCEPT !.status = "done"]

Result(f, c, a) ==
  CASE c = "init"     -> Fresh(a)
    [] c = "start"    -> Started(f, a)
    [] c = "finish"   -> Finished(f, a)
    [] c = "finalize" -> Finalized(f)

(* A finish that completes the run and every finalize add it to the history. *)
Completes(f, c) ==
  /\ f \notin Unreadable
  /\ c = "finalize" \/ (c = "finish" /\ AllDone(f.jobs))

-----------------------------------------------------------------------------
(* Who is doing what. *)

Faults == timeouts + restarts + Cardinality({j \in Jobs : at[j] = "killed"})

MayFail == Faults < MaxFaults

(* Between the reads of a command and its last write; init reads nothing. *)
Inside(a) == at[a] \in {"history", "historyTruncate", "historyWrite", "truncate", "write"}

Live(j) == at[j] \notin {"idle", "skipped", "ended", "killed"}

Held(r) == r \in Server => r \in served

Active(r) ==
  \/ at[r] \notin {"idle", "ended"} /\ (Held(r) \/ Inside(r))
  \/ \E j \in JobsOf(r) : Live(j)

(* init and finalize take no lock: harmless only if no other run is at work. *)
Crowded ==
  \E r, q \in Runs : r # q /\ Active(q) /\ (at[r] = "init" \/ Inside(r))

SameDept ==
  \E j, k \in Jobs : j # k /\ Live(j) /\ Live(k) /\ DeptOf[j] = DeptOf[k]

-----------------------------------------------------------------------------
Init ==
  /\ file = Absent /\ history = {} /\ lock = None
  /\ at = [a \in Actors |-> "idle"]
  /\ change = [a \in Actors |-> "none"]
  /\ copy = [a \in Actors |-> [file |-> Absent, history |-> {}]]
  /\ running = {} /\ served = {} /\ awaited = [r \in Runs |-> None]
  /\ timeouts = 0 /\ restarts = 0
  /\ ideal = Absent /\ recorded = {} /\ disturbed = FALSE

(* What takes the promise away that every call counts: an init or finalize *)
(* beside another run, two jobs of one department, a wait given up, a kill *)
(* between a read and a write.                                             *)
Disturbs(now) == disturbed' = (disturbed \/ now \/ Crowded' \/ SameDept')

Unchanged == /\ ideal' = IF disturbed' THEN Absent ELSE ideal
             /\ recorded' = IF disturbed' THEN {} ELSE recorded

Quietly == Disturbs(FALSE) /\ Unchanged

Goes(a, label) == at' = [at EXCEPT ![a] = label]

-----------------------------------------------------------------------------
(* A command: read the file, and the history if the run is complete; copy *)
(* over the history, then over the file.                                   *)

Reads(a, c) ==
  LET f == Result(file, c, a) IN
  /\ change' = [change EXCEPT ![a] = c]
  /\ copy' = [copy EXCEPT ![a].file = f]
  /\ Goes(a, IF Completes(f, c) THEN "history" ELSE "truncate")
  /\ UNCHANGED <<file, history, server>>

(* A history that cannot be parsed starts anew. *)
ReadHistory(a) ==
  /\ at[a] = "history"
  /\ copy' = [copy EXCEPT ![a].history =
                (IF history = Garbage THEN {} ELSE history) \cup {copy[a].file.run}]
  /\ Goes(a, "historyTruncate")
  /\ UNCHANGED <<file, history, lock, change, server, timeouts>> /\ Quietly

TruncateHistory(a) ==
  /\ at[a] = "historyTruncate"
  /\ history' = Garbage
  /\ Goes(a, "historyWrite")
  /\ UNCHANGED <<file, lock, change, copy, server, timeouts>> /\ Quietly

WriteHistory(a) ==
  /\ at[a] = "historyWrite"
  /\ history' = copy[a].history
  /\ Goes(a, "truncate")
  /\ UNCHANGED <<file, lock, change, copy, server, timeouts>> /\ Quietly

Truncate(a) ==
  /\ at[a] = "truncate"
  /\ file' = Garbage
  /\ Goes(a, "write")
  /\ UNCHANGED <<history, lock, change, copy, server, timeouts>> /\ Quietly

(* A script whose job_start could not parse the file exits at once. *)
After(a) ==
  CASE change[a] = "init"     -> "launch"
    [] change[a] = "finalize" -> "ended"
    [] change[a] = "start"    -> IF copy[a].file = Garbage THEN "leaving" ELSE "audit"
    [] change[a] = "finish"   -> "leaving"

Released(a) == IF lock = a THEN None ELSE lock

Write(a) ==
  /\ at[a] = "write"
  /\ file' = copy[a].file
  /\ lock' = Released(a)
  /\ Goes(a, After(a))
  /\ change' = [change EXCEPT ![a] = "none"]
  /\ copy' = [copy EXCEPT ![a] = [file |-> Absent, history |-> {}]]
  /\ UNCHANGED <<history, server, timeouts>>
  /\ Disturbs(FALSE)
  /\ LET f == Result(ideal, change[a], a) IN
       IF disturbed' THEN Unchanged
       ELSE /\ ideal' = f
            /\ recorded' = recorded \cup (IF Completes(f, change[a]) THEN {f.run} ELSE {})

Command(a) ==
  ReadHistory(a) \/ TruncateHistory(a) \/ WriteHistory(a) \/ Truncate(a) \/ Write(a)

-----------------------------------------------------------------------------
(* The agent scripts. *)

(* flock -w 5 200 || true *)
TakesNoLock(j) == UNCHANGED <<lock, timeouts>> /\ Disturbs(FALSE)

TakesLock(j) == lock = None /\ lock' = j /\ UNCHANGED timeouts /\ Disturbs(FALSE)

GivesUp == /\ lock # None /\ MayFail
           /\ timeouts' = timeouts + 1 /\ UNCHANGED lock /\ Disturbs(TRUE)

Locks(j) == TakesLock(j) \/ GivesUp

JobStart(j) ==
  /\ at[j] = "start"
  /\ Reads(j, "start") /\ Locks(j) /\ Unchanged

JobFinish(j) ==
  /\ at[j] = "audit"
  /\ Reads(j, "finish")
  /\ Locks(j) /\ Unchanged

(* The thread of the server that waits for the script forgets it. *)
NotForgotten(j) == UNCHANGED server

Forgotten(j) == running' = running \ {j} /\ UNCHANGED <<served, awaited, restarts>>

ScriptEnds(j) ==
  /\ at[j] = "leaving"
  /\ Goes(j, "ended")
  /\ Forgotten(j)
  /\ UNCHANGED <<store, timeouts>> /\ Quietly

(* The script and its children are killed: nothing holds the flock any more. *)
Killed(j) ==
  /\ Live(j) /\ MayFail
  /\ Goes(j, "killed")
  /\ lock' = Released(j)
  /\ change' = [change EXCEPT ![j] = "none"]
  /\ copy' = [copy EXCEPT ![j] = [file |-> Absent, history |-> {}]]
  /\ Forgotten(j)
  /\ UNCHANGED <<file, history, timeouts>>
  /\ Disturbs(Inside(j)) /\ Unchanged

-----------------------------------------------------------------------------
(* The runs. *)

(* One request is handled at a time; a sequential batch goes on in a thread. *)
Busy ==
  \E r \in served : \/ at[r] \in {"look", "init"}
                    \/ at[r] \in {"truncate", "write"} /\ change[r] = "init"
                    \/ at[r] = "launch" /\ r \notin Sequential

DeptsRunning == {DeptOf[j] : j \in running}

MayBegin(r) ==
  /\ at[r] = "idle"
  /\ Cardinality({q \in Runs : at[q] # "idle"}) < MaxRuns

(* POST /api/run-all, make audit-all-parallel *)
BeginBatch(r) ==
  /\ r \notin Scans /\ MayBegin(r)
  /\ r \in Server => ~Busy /\ running = {}
  /\ served' = served \cup ({r} \cap Server)
  /\ Goes(r, "init")
  /\ UNCHANGED <<store, running, awaited, restarts, timeouts>> /\ Quietly

(* POST /api/run-scan *)
BeginScan(r) ==
  /\ r \in Scans /\ MayBegin(r) /\ ~Busy
  /\ \A j \in JobsOf(r) : DeptOf[j] \notin DeptsRunning
  /\ served' = served \cup {r}
  /\ Goes(r, "look")
  /\ UNCHANGED <<store, running, awaited, restarts, timeouts>> /\ Quietly

NeedsInit == file \in Unreadable \/ file.status # "running"

Look(r) ==
  /\ at[r] = "look" /\ Held(r)
  /\ Goes(r, IF NeedsInit THEN "init" ELSE "launch")
  /\ UNCHANGED <<store, server, timeouts>> /\ Quietly

(* job_init is a subprocess: begun, it outlives the server. *)
JobInit(r) ==
  /\ at[r] = "init" /\ Held(r)
  /\ file' = Garbage
  /\ change' = [change EXCEPT ![r] = "init"]
  /\ copy' = [copy EXCEPT ![r].file = Fresh(r)]
  /\ Goes(r, "write")
  /\ UNCHANGED <<history, lock, server, timeouts>> /\ Quietly

ToLaunch(r) == {j \in JobsOf(r) : at[j] = "idle"}

(* run_agent starts no script for a department that is running. *)
RefusedNever(r, j) == FALSE

Refused(r, j) == r \in Server /\ DeptOf[j] \in DeptsRunning

Launch(r) ==
  /\ at[r] = "launch" /\ Held(r)
  /\ \E j \in ToLaunch(r) :
       /\ at' = [at EXCEPT ![j] = IF Refused(r, j) THEN "skipped" ELSE "start",
                           ![r] = IF r \in Sequential THEN "await" ELSE "launch"]
       /\ awaited' = [awaited EXCEPT ![r] = IF r \in Sequential THEN DeptOf[j] ELSE None]
       /\ running' = IF r \in Server /\ ~Refused(r, j) THEN running \cup {j} ELSE running
  /\ UNCHANGED <<store, served, restarts, timeouts>> /\ Quietly

(* The thread of the batch waits for the department, whosever job it is. *)
Await(r) ==
  /\ at[r] = "await" /\ Held(r)
  /\ awaited[r] \notin DeptsRunning
  /\ Goes(r, "launch")
  /\ awaited' = [awaited EXCEPT ![r] = None]
  /\ UNCHANGED <<store, running, served, restarts, timeouts>> /\ Quietly

(* A scan and a parallel batch of the server are not finalized. *)
LaunchedAll(r) ==
  /\ at[r] = "launch" /\ Held(r) /\ r \in Server \ Sequential
  /\ ToLaunch(r) = {}
  /\ Goes(r, "ended")
  /\ UNCHANGED <<store, server, timeouts>> /\ Quietly

Finalize(r) ==
  /\ at[r] = "launch" /\ Held(r) /\ r \notin Server \ Sequential
  /\ ToLaunch(r) = {}
  /\ r \notin Server => \A j \in JobsOf(r) : ~Live(j)
  /\ Reads(r, "finalize")
  /\ UNCHANGED <<lock, timeouts>> /\ Quietly

(* The scripts and the commands under way go on without the server. *)
ServerDies ==
  /\ MayFail /\ served # {}
  /\ restarts' = restarts + 1
  /\ running' = {} /\ served' = {} /\ awaited' = [r \in Runs |-> None]
  /\ UNCHANGED <<store, at, timeouts>> /\ Quietly

-----------------------------------------------------------------------------
RunStep(r) ==
  Look(r) \/ JobInit(r) \/ Launch(r) \/ Await(r) \/ LaunchedAll(r) \/ Finalize(r)

JobStep(j) == JobStart(j) \/ JobFinish(j) \/ ScriptEnds(j)

Work ==
  \/ \E r \in Runs : RunStep(r) \/ Command(r)
  \/ \E j \in Jobs : JobStep(j) \/ Command(j)

Next ==
  \/ Work
  \/ \E r \in Runs : BeginBatch(r) \/ BeginScan(r)
  \/ \E j \in Jobs : Killed(j)
  \/ ServerDies

Spec == Init /\ [][Next]_vars

-----------------------------------------------------------------------------
(* Every call of job_init, job_start, job_finish and finalize leaves its    *)
(* mark: between commands, the file and the history are what the calls make *)
(* of them one at a time, however the scripts of a parallel batch, and of   *)
(* the scans that join it, interleave.                                      *)
EveryCallCounts ==
  ~disturbed /\ (\A a \in Actors : ~Inside(a)) => file = ideal /\ history = recorded

(* The file does not call a run complete while an agent of a department it *)
(* lists is at work.                                                       *)
CompleteMeansDone ==
  ~disturbed /\ file \notin Unreadable /\ file.status = "done"
    => \A j \in Jobs : at[j] = "audit" => DeptOf[j] \notin DOMAIN file.jobs

(* The check of running_jobs, made long before the launch, still lets no    *)
(* two scripts of a department run for one server.                          *)
OneJobPerDepartment ==
  restarts = 0 =>
    \A j, k \in Jobs :
      /\ j # k /\ DeptOf[j] = DeptOf[k] /\ {RunOf[j], RunOf[k]} \subseteq Server
      => ~(Live(j) /\ Live(k))

(* The guards of the steps of Work, without the waits that are given up. *)
JobCanMove(j) ==
  Inside(j) \/ at[j] = "leaving" \/ (at[j] \in {"start", "audit"} /\ lock = None)

RunCanMove(r) ==
  \/ Inside(r)
  \/ at[r] \in {"look", "init"} /\ Held(r)
  \/ /\ at[r] = "launch" /\ Held(r)
     /\ ToLaunch(r) # {} \/ r \in Server \/ \A j \in JobsOf(r) : ~Live(j)
  \/ at[r] = "await" /\ Held(r) /\ awaited[r] \notin DeptsRunning

CanWork == (\E r \in Runs : RunCanMove(r)) \/ (\E j \in Jobs : JobCanMove(j))

(* A run that is begun always has a next step until it is over, unless the  *)
(* server that runs it dies: no script that fails, aborts or is killed      *)
(* keeps the flock, or keeps the thread of a sequential batch waiting.      *)
(* Every step of Work brings its actor closer to its end, so runs do end.   *)
NoRunIsStuck == (\E r \in Runs : Active(r)) => CanWork /\ ENABLED Work

=============================================================================

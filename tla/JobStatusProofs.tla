--------------------------- MODULE JobStatusProofs ----------------------------
(***************************************************************************)
(* Proofs about JobStatus, for any number of runs, jobs, faults and deaths *)
(* of the server: an inductive invariant, the safety properties of the run *)
(* jobs, that somebody can always go on, and that going on comes to an end.*)
(***************************************************************************)
EXTENDS JobStatus, FiniteSetTheorems, TLAPS

-----------------------------------------------------------------------------
(* The inductive invariant. *)

InsideSteps == {"history", "historyTruncate", "historyWrite", "truncate", "write"}

RunSteps == {"idle", "look", "init", "launch", "await", "ended"} \cup InsideSteps

JobSteps == {"idle", "skipped", "start", "audit", "leaving", "ended", "killed"} \cup InsideSteps

CallsOf(a) == IF a \in Runs THEN {"init", "finalize"} ELSE {"start", "finish"}

IsFile(f) == f = [run |-> f.run, status |-> f.status, jobs |-> f.jobs] /\ f.run \in Runs

JobTypes ==
  /\ at = [a \in Actors |-> at[a]]
  /\ \A r \in Runs : at[r] \in RunSteps
  /\ \A j \in Jobs : at[j] \in JobSteps
  /\ change = [a \in Actors |-> change[a]]
  /\ \A a \in Actors : Inside(a) => change[a] \in CallsOf(a)
  /\ copy = [a \in Actors |-> [file |-> copy[a].file, history |-> copy[a].history]]
  /\ running \subseteq Jobs /\ served \subseteq Server
  /\ awaited = [r \in Runs |-> awaited[r]]
  /\ restarts \in Nat /\ disturbed \in BOOLEAN
  /\ recorded \subseteq Runs /\ (ideal \in Unreadable \/ IsFile(ideal))

(* A run launches its jobs between its two commands. *)
Staged ==
  \A r \in Runs :
    /\ at[r] \in {"idle", "look", "init"} \/ (Inside(r) /\ change[r] = "init") =>
         \A j \in JobsOf(r) : at[j] = "idle"
    /\ Inside(r) /\ change[r] = "finalize" => \A j \in JobsOf(r) : ~Live(j)

(* What the server that is up knows of its jobs. *)
Known ==
  /\ \A j, k \in running : DeptOf[j] = DeptOf[k] => j = k
  /\ restarts = 0 => \A j \in Jobs : Live(j) /\ RunOf[j] \in Server => j \in running
  /\ \A r \in Sequential \cap served :
       /\ at[r] = "launch" => \A j \in JobsOf(r) : ~Live(j)
       /\ at[r] = "await" =>
            \A j \in JobsOf(r) : Live(j) => j \in running /\ DeptOf[j] = awaited[r]

(* How far the command has come that an actor executes. *)
Recorded(f, c) == recorded \cup (IF Completes(f, c) THEN {f.run} ELSE {})

Progress(a) ==
  LET f == Result(ideal, change[a], a)
      new == Recorded(f, change[a])
  IN  /\ copy[a].file = f
      /\ at[a] \in {"history", "historyTruncate", "historyWrite"} =>
           Completes(f, change[a]) /\ file = ideal
      /\ at[a] = "history" => history = recorded
      /\ at[a] \in {"historyTruncate", "historyWrite"} => copy[a].history = new
      /\ at[a] = "truncate" => file = ideal /\ history = new
      /\ at[a] = "write" => file = Garbage /\ history = new

(* An agent at work is running in the file. *)
AtWorkIsRunning ==
  \A k \in Jobs :
    at[k] = "audit" /\ ideal \notin Unreadable /\ DeptOf[k] \in DOMAIN ideal.jobs =>
      ideal.jobs[DeptOf[k]] = "running" /\ ideal.status = "running"

Orderly ==
  /\ ~Crowded /\ ~SameDept
  /\ \A j \in Jobs : Inside(j) => lock = j
  /\ \A a \in Actors : Inside(a) => Progress(a)
  /\ (\A a \in Actors : ~Inside(a)) => file = ideal /\ history = recorded
  /\ AtWorkIsRunning

JobsInv == JobTypes /\ Staged /\ Known /\ (~disturbed => Orderly)

-----------------------------------------------------------------------------
(* Types. *)

LEMMA JobsAreNotRuns ==
  /\ \A j \in Jobs : j \notin Runs /\ RunOf[j] \in Runs /\ j # None
  /\ Actors = Runs \cup Jobs /\ Server \subseteq Runs
BY RunsAssumption DEF Actors

(* What a command makes of a file that can be read. *)
LEMMA StartedIs ==
  ASSUME NEW f, NEW j \in Jobs, f \in Unreadable \/ IsFile(f)
  PROVE  /\ f \in Unreadable => Started(f, j) \in Unreadable \/ Started(f, j) =
              [run |-> RunOf[j], status |-> "running", jobs |-> [d \in {DeptOf[j]} |-> "running"]]
         /\ f \notin Unreadable => Started(f, j) =
              [run |-> f.run, status |-> "running", jobs |-> With(f.jobs, DeptOf[j], "running")]
<1> DEFINE jobs == With(f.jobs, DeptOf[j], "running")
<1>1. f \notin Unreadable => Started(f, j) = [f EXCEPT !.status = "running", !.jobs = jobs]
  BY DEF Started, Unreadable
<1>2. f \notin Unreadable => Started(f, j) = [run |-> f.run, status |-> "running", jobs |-> jobs]
  <2> HIDE DEF jobs
  <2> QED  BY <1>1 DEF IsFile
<1> HIDE DEF jobs
<1>3. f \in Unreadable => Started(f, j) \in Unreadable \/ Started(f, j) =
              [run |-> RunOf[j], status |-> "running", jobs |-> [d \in {DeptOf[j]} |-> "running"]]
  BY DEF Started, Unreadable
<1> QED  BY <1>2, <1>3 DEF jobs

LEMMA FinishedIs ==
  ASSUME NEW f, NEW j \in Jobs, f \in Unreadable \/ IsFile(f)
  PROVE  /\ f \in Unreadable => Finished(f, j) = Garbage
         /\ f \notin Unreadable => Finished(f, j) =
              [run |-> f.run,
               status |-> IF AllDone(With(f.jobs, DeptOf[j], "done")) THEN "done" ELSE f.status,
               jobs |-> With(f.jobs, DeptOf[j], "done")]
<1> DEFINE jobs == With(f.jobs, DeptOf[j], "done")
           status == IF AllDone(jobs) THEN "done" ELSE f.status
<1>1. /\ f \in Unreadable => Finished(f, j) = Garbage
      /\ f \notin Unreadable => Finished(f, j) = [f EXCEPT !.jobs = jobs, !.status = status]
  BY DEF Finished
<1>2. f \notin Unreadable => Finished(f, j) = [run |-> f.run, status |-> status, jobs |-> jobs]
  <2> HIDE DEF jobs, status
  <2> QED  BY <1>1 DEF IsFile
<1> QED  BY <1>1, <1>2

LEMMA RecordIsFile ==
  \A r \in Runs : \A s, jobs : IsFile([run |-> r, status |-> s, jobs |-> jobs])
BY DEF IsFile

LEMMA ResultIsFile ==
  ASSUME NEW f, NEW a \in Actors, NEW c \in CallsOf(a), f \in Unreadable \/ IsFile(f)
  PROVE  /\ Result(f, c, a) \in Unreadable \/ IsFile(Result(f, c, a))
         /\ Completes(Result(f, c, a), c) => Result(f, c, a).run \in Runs
<1>0. \A j \in Jobs : RunOf[j] \in Runs  BY JobsAreNotRuns
<1>1. CASE c = "init"
  <2>1. a \in Runs  BY <1>1, JobsAreNotRuns DEF CallsOf
  <2> QED  BY <1>1, <2>1 DEF Result, Fresh, IsFile, Completes
<1>2. CASE c = "start"
  <2>1. a \in Jobs  BY <1>2, JobsAreNotRuns DEF CallsOf
  <2>2. Result(f, c, a) = Started(f, a)  BY <1>2 DEF Result
  <2>3. f \notin Unreadable => f.run \in Runs  BY DEF IsFile
  <2>4. Result(f, c, a) \in Unreadable \/ IsFile(Result(f, c, a))
    <3>1. CASE f \in Unreadable
      <4>1. Started(f, a) \in Unreadable \/ Started(f, a) =
              [run |-> RunOf[a], status |-> "running", jobs |-> [d \in {DeptOf[a]} |-> "running"]]
        BY <2>1, <3>1, StartedIs
      <4> QED  BY <1>0, <2>1, <2>2, <4>1, RecordIsFile
    <3>2. CASE f \notin Unreadable
      <4>1. Started(f, a) =
              [run |-> f.run, status |-> "running", jobs |-> With(f.jobs, DeptOf[a], "running")]
        BY <2>1, <3>2, StartedIs
      <4> QED  BY <2>2, <2>3, <3>2, <4>1, RecordIsFile
    <3> QED  BY <3>1, <3>2
  <2> QED  BY <2>4 DEF Completes, IsFile
<1>3. CASE c = "finish"
  <2>1. a \in Jobs  BY <1>3, JobsAreNotRuns DEF CallsOf
  <2>2. Result(f, c, a) = Finished(f, a)  BY <1>3 DEF Result
  <2>3. f \notin Unreadable => f.run \in Runs  BY DEF IsFile
  <2>4. Result(f, c, a) \in Unreadable \/ IsFile(Result(f, c, a))
    BY <2>1, <2>2, <2>3, FinishedIs DEF IsFile, Unreadable
  <2> QED  BY <2>4 DEF Completes, IsFile
<1>4. CASE c = "finalize"
  <2> QED  BY <1>4 DEF Result, Finalized, IsFile, Completes, Unreadable
<1> QED  BY <1>1, <1>2, <1>3, <1>4 DEF CallsOf

(* A command moves its actor only. *)
LEMMA CommandTypes ==
  ASSUME JobTypes, NEW a \in Actors, Command(a)
  PROVE  JobTypes'
<1> USE JobsAreNotRuns
<1>1. Inside(a)
  BY DEF Command, ReadHistory, TruncateHistory, WriteHistory, Truncate, Write, Inside
<1>2. change[a] \in CallsOf(a)  BY <1>1 DEF JobTypes
<1>3. ASSUME NEW s, at' = [at EXCEPT ![a] = s],
             a \in Runs => s \in RunSteps, a \in Jobs => s \in JobSteps,
             change' = change \/ (change' = [change EXCEPT ![a] = "none"] /\ s \notin InsideSteps)
      PROVE  /\ at' = [b \in Actors |-> at'[b]]
             /\ \A r \in Runs : at'[r] \in RunSteps
             /\ \A j \in Jobs : at'[j] \in JobSteps
             /\ change' = [b \in Actors |-> change'[b]]
             /\ \A b \in Actors : Inside(b)' => change'[b] \in CallsOf(b)
  <2>1. at' = [b \in Actors |-> at'[b]] /\ change' = [b \in Actors |-> change'[b]]
    BY <1>3 DEF JobTypes
  <2>2. \A b \in Actors : at'[b] = IF b = a THEN s ELSE at[b]
    BY <1>3 DEF JobTypes
  <2>3. \A b \in Actors : b # a => change'[b] = change[b]
    BY <1>3 DEF JobTypes
  <2>4. s \in InsideSteps => change'[a] \in CallsOf(a)
    BY <1>2, <1>3
  <2> QED  BY <1>3, <2>1, <2>2, <2>3, <2>4 DEF JobTypes, Inside, InsideSteps
<1>4. CASE ReadHistory(a) \/ TruncateHistory(a) \/ WriteHistory(a) \/ Truncate(a)
  <2>1. PICK s \in InsideSteps : at' = [at EXCEPT ![a] = s] /\ change' = change
    BY <1>4 DEF ReadHistory, TruncateHistory, WriteHistory, Truncate, Goes, InsideSteps
  <2>2. copy' = [b \in Actors |-> [file |-> copy'[b].file, history |-> copy'[b].history]]
    BY <1>4 DEF JobTypes, ReadHistory, TruncateHistory, WriteHistory, Truncate
  <2>3. UNCHANGED server /\ Quietly
    BY <1>4 DEF ReadHistory, TruncateHistory, WriteHistory, Truncate
  <2>4. running' \subseteq Jobs /\ served' \subseteq Server /\ restarts' \in Nat
        /\ awaited' = [r \in Runs |-> awaited'[r]]
    BY <2>3 DEF JobTypes, server
  <2>5. disturbed' \in BOOLEAN /\ recorded' \subseteq Runs /\ (ideal' \in Unreadable \/ IsFile(ideal'))
    BY <2>3 DEF JobTypes, Quietly, Disturbs, Unchanged, Unreadable
  <2>6. s \in RunSteps /\ s \in JobSteps  BY DEF RunSteps, JobSteps, InsideSteps
  <2> QED  BY <1>3, <2>1, <2>2, <2>4, <2>5, <2>6 DEF JobTypes, IsFile
<1>5. CASE Write(a)
  <2>1. /\ a \in Runs => After(a) \in {"launch", "ended"}
        /\ a \in Jobs => After(a) \in {"audit", "leaving"}
    BY <1>2 DEF CallsOf, After
  <2>2. at' = [at EXCEPT ![a] = After(a)] /\ change' = [change EXCEPT ![a] = "none"]
    BY <1>5 DEF Write, Goes
  <2>3. copy' = [b \in Actors |-> [file |-> copy'[b].file, history |-> copy'[b].history]]
    BY <1>5 DEF JobTypes, Write
  <2>4. running' \subseteq Jobs /\ served' \subseteq Server /\ restarts' \in Nat
        /\ awaited' = [r \in Runs |-> awaited'[r]]
    BY <1>5 DEF JobTypes, server, Write
  <2>5. disturbed' \in BOOLEAN /\ recorded' \subseteq Runs /\ (ideal' \in Unreadable \/ IsFile(ideal'))
    <3> DEFINE f == Result(ideal, change[a], a)
    <3>1. (f \in Unreadable \/ IsFile(f)) /\ (Completes(f, change[a]) => f.run \in Runs)
      BY <1>2, ResultIsFile DEF JobTypes
    <3>2. Disturbs(FALSE)  BY <1>5 DEF Write
    <3>3. disturbed' \in BOOLEAN  BY <3>2 DEF JobTypes, Disturbs
    <3>4. IF disturbed' THEN Unchanged
          ELSE ideal' = f /\ recorded' = recorded \cup (IF Completes(f, change[a]) THEN {f.run} ELSE {})
      BY <1>5 DEF Write
    <3> QED  BY <3>1, <3>3, <3>4 DEF JobTypes, Unchanged, Unreadable
  <2>6. /\ a \in Runs => After(a) \in RunSteps
        /\ a \in Jobs => After(a) \in JobSteps
        /\ After(a) \notin InsideSteps
    BY <2>1 DEF RunSteps, JobSteps, InsideSteps
  <2> QED  BY <1>3, <2>2, <2>3, <2>4, <2>5, <2>6 DEF JobTypes, IsFile
<1> QED  BY <1>4, <1>5 DEF Command

(* A step that moves one actor, to s, inside a command only with the call c. *)
LEMMA MoveTypes ==
  ASSUME JobTypes, NEW a \in Actors, NEW s, NEW c,
         at' = [at EXCEPT ![a] = s], change' = [change EXCEPT ![a] = c],
         a \in Runs => s \in RunSteps, a \in Jobs => s \in JobSteps,
         s \in InsideSteps => c \in CallsOf(a),
         copy' = [b \in Actors |-> [file |-> copy'[b].file, history |-> copy'[b].history]],
         running' \subseteq Jobs, served' \subseteq Server, restarts' \in Nat,
         awaited' = [r \in Runs |-> awaited'[r]],
         Unchanged, disturbed' \in BOOLEAN
  PROVE  JobTypes'
<1> USE JobsAreNotRuns
<1>1. at' = [b \in Actors |-> at'[b]] /\ change' = [b \in Actors |-> change'[b]]
  BY DEF JobTypes
<1>2. \A b \in Actors : /\ at'[b] = IF b = a THEN s ELSE at[b]
                        /\ change'[b] = IF b = a THEN c ELSE change[b]
  BY DEF JobTypes
<1>3. /\ \A r \in Runs : at'[r] \in RunSteps
      /\ \A j \in Jobs : at'[j] \in JobSteps
      /\ \A b \in Actors : Inside(b)' => change'[b] \in CallsOf(b)
  BY <1>2 DEF JobTypes, Inside, InsideSteps
<1>4. recorded' \subseteq Runs /\ (ideal' \in Unreadable \/ IsFile(ideal'))
  BY DEF JobTypes, Unchanged, Unreadable
<1> QED  BY <1>1, <1>3, <1>4 DEF JobTypes, IsFile

LEMMA QuietTypes ==
  ASSUME JobTypes
  PROVE  /\ UNCHANGED server => running' \subseteq Jobs /\ served' \subseteq Server /\ restarts' \in Nat
                                /\ awaited' = [r \in Runs |-> awaited'[r]]
         /\ \A a \in Actors : /\ change = [change EXCEPT ![a] = change[a]]
                              /\ Inside(a) => change[a] \in CallsOf(a)
         /\ UNCHANGED copy =>
              copy' = [b \in Actors |-> [file |-> copy'[b].file, history |-> copy'[b].history]]
         /\ Quietly => Unchanged /\ disturbed' \in BOOLEAN
BY DEF JobTypes, server, Quietly, Disturbs

(* Such a step that leaves the commands alone. *)
LEMMA CalmMoveTypes ==
  ASSUME JobTypes, NEW a \in Actors, NEW s,
         at' = [at EXCEPT ![a] = s], change' = change, copy' = copy, Quietly,
         a \in Runs => s \in RunSteps, a \in Jobs => s \in JobSteps, s \notin InsideSteps,
         running' \subseteq Jobs, served' \subseteq Server, restarts' \in Nat,
         awaited' = [r \in Runs |-> awaited'[r]]
  PROVE  JobTypes'
<1>1. change' = [change EXCEPT ![a] = change[a]]  BY QuietTypes
<1>2. copy' = [b \in Actors |-> [file |-> copy'[b].file, history |-> copy'[b].history]]
  BY QuietTypes
<1>3. Unchanged /\ disturbed' \in BOOLEAN  BY QuietTypes
<1> QED  BY <1>1, <1>2, <1>3, MoveTypes

LEMMA ReadsTypes ==
  ASSUME JobTypes, NEW a \in Actors, NEW c \in CallsOf(a), Reads(a, c),
         Unchanged, disturbed' \in BOOLEAN
  PROVE  JobTypes'
<1>1. PICK s \in {"history", "truncate"} : at' = [at EXCEPT ![a] = s]
  BY DEF Reads, Goes
<1>2. s \in RunSteps /\ s \in JobSteps  BY DEF RunSteps, JobSteps, InsideSteps
<1>3. change' = [change EXCEPT ![a] = c]  BY DEF Reads
<1>4. copy' = [b \in Actors |-> [file |-> copy'[b].file, history |-> copy'[b].history]]
  BY DEF Reads, JobTypes
<1>5. UNCHANGED server  BY DEF Reads
<1> QED  BY <1>1, <1>2, <1>3, <1>4, <1>5, MoveTypes, QuietTypes

LEMMA TypesStep ==
  ASSUME JobTypes, [Next]_vars
  PROVE  JobTypes'
<1> USE JobsAreNotRuns
<1>u. CASE UNCHANGED vars
  BY <1>u DEF vars, store, server, observed, JobTypes, Inside, IsFile
<1>1. ASSUME NEW a \in Actors, Command(a)  PROVE JobTypes'
  BY <1>1, CommandTypes
<1>2. ASSUME NEW j \in Jobs, JobStart(j) \/ JobFinish(j)  PROVE JobTypes'
  <2>1. PICK c \in {"start", "finish"} : Reads(j, c) /\ Locks(j) /\ Unchanged
    BY <1>2 DEF JobStart, JobFinish
  <2>2. disturbed' \in BOOLEAN
    BY <2>1 DEF JobTypes, Locks, TakesLock, GivesUp, Disturbs
  <2> QED  BY <2>1, <2>2, ReadsTypes DEF CallsOf
<1>3. ASSUME NEW j \in Jobs, ScriptEnds(j)  PROVE JobTypes'
  <2>1. at' = [at EXCEPT ![j] = "ended"] /\ change' = change /\ copy' = copy /\ Quietly
    BY <1>3 DEF ScriptEnds, Goes, store
  <2>2. running' \subseteq Jobs /\ served' \subseteq Server /\ restarts' \in Nat
        /\ awaited' = [r \in Runs |-> awaited'[r]]
    BY <1>3 DEF ScriptEnds, Forgotten, JobTypes
  <2>3. "ended" \in JobSteps /\ "ended" \notin InsideSteps  BY DEF JobSteps, InsideSteps
  <2> QED  BY <2>1, <2>2, <2>3, CalmMoveTypes, QuietTypes
<1>4. ASSUME NEW j \in Jobs, Killed(j)  PROVE JobTypes'
  <2>1. at' = [at EXCEPT ![j] = "killed"] /\ change' = [change EXCEPT ![j] = "none"] /\ Unchanged
    BY <1>4 DEF Killed, Goes
  <2>2. running' \subseteq Jobs /\ served' \subseteq Server /\ restarts' \in Nat
        /\ awaited' = [r \in Runs |-> awaited'[r]]
    BY <1>4 DEF Killed, Forgotten, JobTypes
  <2>3. "killed" \in JobSteps /\ "killed" \notin InsideSteps  BY DEF JobSteps, InsideSteps
  <2>4. disturbed' \in BOOLEAN  BY <1>4 DEF Killed, Disturbs, JobTypes
  <2>5. copy' = [b \in Actors |-> [file |-> copy'[b].file, history |-> copy'[b].history]]
    BY <1>4 DEF Killed, JobTypes
  <2> QED  BY <2>1, <2>2, <2>3, <2>4, <2>5, MoveTypes
<1>5. ASSUME NEW r \in Runs, BeginBatch(r) \/ BeginScan(r)  PROVE JobTypes'
  <2>1. PICK s \in {"init", "look"} : at' = [at EXCEPT ![r] = s]
    BY <1>5 DEF BeginBatch, BeginScan, Goes
  <2>2. change' = change /\ copy' = copy /\ Quietly
    BY <1>5 DEF BeginBatch, BeginScan, store
  <2>3. running' \subseteq Jobs /\ served' \subseteq Server /\ restarts' \in Nat
        /\ awaited' = [q \in Runs |-> awaited'[q]]
    BY <1>5, RunsAssumption DEF BeginBatch, BeginScan, JobTypes
  <2>4. s \in RunSteps /\ s \notin InsideSteps  BY DEF RunSteps, InsideSteps
  <2> QED  BY <2>1, <2>2, <2>3, <2>4, CalmMoveTypes, QuietTypes
<1>6. ASSUME NEW r \in Runs, Look(r) \/ LaunchedAll(r)  PROVE JobTypes'
  <2>1. PICK s \in {"init", "launch", "ended"} : at' = [at EXCEPT ![r] = s]
    BY <1>6 DEF Look, LaunchedAll, Goes
  <2>2. change' = change /\ copy' = copy /\ Quietly /\ UNCHANGED server
    BY <1>6 DEF Look, LaunchedAll, store
  <2>3. s \in RunSteps /\ s \notin InsideSteps  BY DEF RunSteps, InsideSteps
  <2> QED  BY <2>1, <2>2, <2>3, CalmMoveTypes, QuietTypes
<1>7. ASSUME NEW r \in Runs, JobInit(r)  PROVE JobTypes'
  <2>1. at' = [at EXCEPT ![r] = "write"] /\ change' = [change EXCEPT ![r] = "init"]
        /\ Quietly /\ UNCHANGED server
    BY <1>7 DEF JobInit, Goes
  <2>2. copy' = [b \in Actors |-> [file |-> copy'[b].file, history |-> copy'[b].history]]
    <3>1. copy' = [copy EXCEPT ![r].file = Fresh(r)]  BY <1>7 DEF JobInit
    <3>2. copy = [b \in Actors |-> [file |-> copy[b].file, history |-> copy[b].history]]
      BY DEF JobTypes
    <3>3. copy' = [b \in Actors |-> IF b = r THEN [copy[r] EXCEPT !.file = Fresh(r)] ELSE copy[b]]
      BY <3>1, <3>2
    <3>4. [copy[r] EXCEPT !.file = Fresh(r)] = [file |-> Fresh(r), history |-> copy[r].history]
      BY <3>2
    <3> QED  BY <3>2, <3>3, <3>4
  <2>3. "write" \in RunSteps /\ "init" \in CallsOf(r)  BY DEF RunSteps, InsideSteps, CallsOf
  <2> QED  BY <2>1, <2>2, <2>3, MoveTypes, QuietTypes
<1>8. ASSUME NEW r \in Runs, Launch(r)  PROVE JobTypes'
  <2>1. PICK j \in Jobs, s \in {"skipped", "start"}, t \in {"await", "launch"} :
          at' = [at EXCEPT ![j] = s, ![r] = t]
    BY <1>8 DEF Launch, ToLaunch, JobsOf
  <2>2. change' = change /\ copy' = copy /\ Quietly
    BY <1>8 DEF Launch, store
  <2>3. running' \subseteq Jobs /\ served' \subseteq Server /\ restarts' \in Nat
        /\ awaited' = [q \in Runs |-> awaited'[q]]
    BY <1>8 DEF Launch, ToLaunch, JobsOf, JobTypes
  <2>4. at' = [b \in Actors |-> at'[b]]
        /\ \A b \in Actors : at'[b] = IF b = r THEN t ELSE IF b = j THEN s ELSE at[b]
    BY <2>1 DEF JobTypes
  <2>5. /\ \A q \in Runs : at'[q] \in RunSteps
        /\ \A k \in Jobs : at'[k] \in JobSteps
        /\ \A b \in Actors : Inside(b)' => Inside(b)
    <3>1. /\ \A q \in Runs : at'[q] \in {t, at[q]}
          /\ \A k \in Jobs : at'[k] \in {s, at[k]}
          /\ \A b \in Actors : at'[b] \in {s, t, at[b]}
      BY <2>4
    <3>2. t \in RunSteps /\ s \in JobSteps  BY DEF RunSteps, JobSteps
    <3> QED  BY <3>1, <3>2 DEF JobTypes, Inside
  <2>6. recorded' \subseteq Runs /\ (ideal' \in Unreadable \/ IsFile(ideal')) /\ disturbed' \in BOOLEAN
    BY <2>2 DEF JobTypes, Quietly, Disturbs, Unchanged, Unreadable
  <2> QED  BY <2>2, <2>3, <2>4, <2>5, <2>6, QuietTypes DEF JobTypes, IsFile
<1>9. ASSUME NEW r \in Runs, Await(r)  PROVE JobTypes'
  <2>1. at' = [at EXCEPT ![r] = "launch"] /\ change' = change /\ copy' = copy /\ Quietly
    BY <1>9 DEF Await, Goes, store
  <2>2. running' \subseteq Jobs /\ served' \subseteq Server /\ restarts' \in Nat
        /\ awaited' = [q \in Runs |-> awaited'[q]]
    BY <1>9 DEF Await, JobTypes
  <2>3. "launch" \in RunSteps /\ "launch" \notin InsideSteps  BY DEF RunSteps, InsideSteps
  <2> QED  BY <2>1, <2>2, <2>3, CalmMoveTypes, QuietTypes
<1>10. ASSUME NEW r \in Runs, Finalize(r)  PROVE JobTypes'
  <2>1. Reads(r, "finalize") /\ Quietly  BY <1>10 DEF Finalize
  <2>2. "finalize" \in CallsOf(r)  BY DEF CallsOf
  <2> QED  BY <2>1, <2>2, ReadsTypes, QuietTypes
<1>11. CASE ServerDies
  <2>1. at' = at /\ change' = change /\ copy' = copy /\ Quietly
    BY <1>11 DEF ServerDies, store
  <2>2. running' \subseteq Jobs /\ served' \subseteq Server /\ restarts' \in Nat
        /\ awaited' = [q \in Runs |-> awaited'[q]]
    BY <1>11 DEF ServerDies, JobTypes
  <2>3. recorded' \subseteq Runs /\ (ideal' \in Unreadable \/ IsFile(ideal')) /\ disturbed' \in BOOLEAN
    BY <2>1 DEF JobTypes, Quietly, Disturbs, Unchanged, Unreadable
  <2> QED  BY <2>1, <2>2, <2>3 DEF JobTypes, Inside, IsFile
<1> QED
  BY <1>u, <1>1, <1>2, <1>3, <1>4, <1>5, <1>6, <1>7, <1>8, <1>9, <1>10, <1>11
     DEF Next, Work, RunStep, JobStep

-----------------------------------------------------------------------------
(* Runs and their jobs: Staged and Known. *)

(* The steps of a job, and those of a run that launch nothing. *)
JobMoves(j) == Command(j) \/ JobStart(j) \/ JobFinish(j) \/ ScriptEnds(j) \/ Killed(j)

RunMoves(r) ==
  Command(r) \/ BeginBatch(r) \/ BeginScan(r) \/ Look(r) \/ JobInit(r) \/ Await(r)
    \/ LaunchedAll(r) \/ Finalize(r)

LEMMA Moves ==
  ASSUME [Next]_vars
  PROVE  \/ \E j \in Jobs : JobMoves(j)
         \/ \E r \in Runs : RunMoves(r) \/ Launch(r)
         \/ ServerDies
         \/ UNCHANGED vars
BY DEF Next, Work, RunStep, JobStep, JobMoves, RunMoves

(* A job that moves is at work before, and is idle or launched never again. *)
LEMMA JobMovesIs ==
  ASSUME JobTypes, NEW j \in Jobs, JobMoves(j)
  PROVE  /\ \A a \in Actors : a # j => at'[a] = at[a] /\ change'[a] = change[a]
         /\ Live(j) /\ UNCHANGED <<served, awaited, restarts>>
         /\ running' = running \/ (running' = running \ {j} /\ at'[j] \in {"ended", "killed"})
<1> USE JobsAreNotRuns
<1>1. CASE Command(j)
  <2>1. CASE ReadHistory(j) \/ TruncateHistory(j) \/ WriteHistory(j) \/ Truncate(j)
    BY <2>1 DEF ReadHistory, TruncateHistory, WriteHistory, Truncate, Goes, Live, server, JobTypes
  <2>2. CASE Write(j)
    BY <2>2 DEF Write, Goes, Live, server, JobTypes
  <2> QED  BY <1>1, <2>1, <2>2 DEF Command
<1>2. CASE JobStart(j) \/ JobFinish(j)
  <2>1. PICK s, c : at' = [at EXCEPT ![j] = s] /\ change' = [change EXCEPT ![j] = c]
    BY <1>2 DEF JobStart, JobFinish, Reads, Goes
  <2>2. Live(j) /\ UNCHANGED server
    BY <1>2 DEF JobStart, JobFinish, Reads, Live
  <2> QED  BY <2>1, <2>2 DEF JobTypes, server
<1>3. CASE ScriptEnds(j)
  BY <1>3 DEF ScriptEnds, Goes, Forgotten, Live, store, JobTypes
<1>4. CASE Killed(j)
  <2>1. at' = [at EXCEPT ![j] = "killed"] /\ change' = [change EXCEPT ![j] = "none"]
    BY <1>4 DEF Killed, Goes
  <2>2. Live(j) /\ running' = running \ {j} /\ UNCHANGED <<served, awaited, restarts>>
    BY <1>4 DEF Killed, Forgotten
  <2> QED  BY <2>1, <2>2 DEF JobTypes
<1> QED  BY <1>1, <1>2, <1>3, <1>4 DEF JobMoves

(* What a run has to do with its jobs that moves without launching any. *)
LEMMA RunMovesIs ==
  ASSUME JobTypes, Staged, Known, NEW r \in Runs, RunMoves(r)
  PROVE  /\ \A a \in Actors : a # r => at'[a] = at[a] /\ change'[a] = change[a]
         /\ at'[r] \in {"idle", "look", "init"} \/ (Inside(r)' /\ change'[r] = "init") =>
              \A j \in JobsOf(r) : at[j] = "idle"
         /\ Inside(r)' /\ change'[r] = "finalize" => \A j \in JobsOf(r) : ~Live(j)
         /\ r \in Sequential \cap served' /\ at'[r] = "launch" => \A j \in JobsOf(r) : ~Live(j)
         /\ at'[r] # "await"
         /\ UNCHANGED <<running, restarts>> /\ served' \ {r} \subseteq served
         /\ \A q \in Runs : q # r => awaited'[q] = awaited[q]
<1> USE JobsAreNotRuns
<1>0. /\ at[r] \in {"idle", "look", "init"} => \A j \in JobsOf(r) : at[j] = "idle"
      /\ Inside(r) /\ change[r] = "init" => \A j \in JobsOf(r) : at[j] = "idle"
      /\ Inside(r) /\ change[r] = "finalize" => \A j \in JobsOf(r) : ~Live(j)
      /\ Inside(r) => change[r] \in {"init", "finalize"}
  BY DEF Staged, JobTypes, CallsOf
<1>1. CASE ReadHistory(r) \/ TruncateHistory(r) \/ WriteHistory(r) \/ Truncate(r)
  <2>1. PICK s \in InsideSteps : at' = [at EXCEPT ![r] = s] /\ change' = change
    BY <1>1 DEF ReadHistory, TruncateHistory, WriteHistory, Truncate, Goes, InsideSteps
  <2>2. Inside(r) /\ UNCHANGED server
    BY <1>1 DEF ReadHistory, TruncateHistory, WriteHistory, Truncate, Inside
  <2> QED  BY <1>0, <2>1, <2>2 DEF JobTypes, server, InsideSteps
<1>2. CASE Write(r)
  <2>1. Inside(r) /\ at' = [at EXCEPT ![r] = After(r)] /\ change' = [change EXCEPT ![r] = "none"]
        /\ UNCHANGED server
    BY <1>2 DEF Write, Goes, Inside
  <2>2. (change[r] = "init" /\ After(r) = "launch") \/ (change[r] = "finalize" /\ After(r) = "ended")
    BY <1>0, <2>1 DEF After
  <2>3. change[r] = "init" => \A j \in JobsOf(r) : ~Live(j)
    BY <1>0, <2>1 DEF Live
  <2>4. at'[r] = After(r) /\ change'[r] = "none"  BY <2>1 DEF JobTypes
  <2>5. at'[r] # "await" /\ ~Inside(r)' /\ at'[r] \notin {"idle", "look", "init"}
    BY <2>2, <2>4 DEF Inside
  <2> QED  BY <2>1, <2>2, <2>3, <2>4, <2>5 DEF JobTypes, server
<1>3. CASE BeginBatch(r) \/ BeginScan(r)
  <2>1. PICK s \in {"init", "look"} : at' = [at EXCEPT ![r] = s] /\ change' = change
    BY <1>3 DEF BeginBatch, BeginScan, Goes, store
  <2>2. at[r] = "idle" /\ UNCHANGED <<running, awaited, restarts>> /\ served' \ {r} \subseteq served
    BY <1>3 DEF BeginBatch, BeginScan, MayBegin
  <2> QED  BY <1>0, <2>1, <2>2 DEF JobTypes, Inside
<1>4. CASE Look(r)
  <2>1. PICK s \in {"init", "launch"} : at' = [at EXCEPT ![r] = s] /\ change' = change
    BY <1>4 DEF Look, Goes, store
  <2>2. at[r] = "look" /\ UNCHANGED server
    BY <1>4 DEF Look
  <2>3. \A j \in JobsOf(r) : at[j] = "idle" /\ ~Live(j)
    BY <1>0, <2>2 DEF Live
  <2> QED  BY <2>1, <2>2, <2>3 DEF JobTypes, Inside, server
<1>5. CASE JobInit(r)
  <2>1. at' = [at EXCEPT ![r] = "write"] /\ change' = [change EXCEPT ![r] = "init"]
        /\ at[r] = "init" /\ UNCHANGED server
    BY <1>5 DEF JobInit, Goes
  <2> QED  BY <1>0, <2>1 DEF JobTypes, server
<1>6. CASE Await(r)
  <2>1. at' = [at EXCEPT ![r] = "launch"] /\ change' = change /\ at[r] = "await"
        /\ UNCHANGED <<running, served, restarts>> /\ awaited' = [awaited EXCEPT ![r] = None]
        /\ awaited[r] \notin DeptsRunning
    BY <1>6 DEF Await, Goes, store
  <2>2. r \in Sequential \cap served => \A j \in JobsOf(r) : ~Live(j)
    BY <2>1 DEF Known, DeptsRunning
  <2> QED  BY <2>1, <2>2 DEF JobTypes, Inside
<1>7. CASE LaunchedAll(r)
  BY <1>7 DEF LaunchedAll, Goes, JobTypes, Inside, store, server
<1>8. CASE Finalize(r)
  <2>1. PICK s \in {"history", "truncate"} : at' = [at EXCEPT ![r] = s]
    BY <1>8 DEF Finalize, Reads, Goes
  <2>2. change' = [change EXCEPT ![r] = "finalize"] /\ UNCHANGED server /\ at[r] = "launch"
    BY <1>8 DEF Finalize, Reads
  <2>3. \A j \in JobsOf(r) : ~Live(j)
    BY <1>8 DEF Finalize, Held, Known
  <2> QED  BY <2>1, <2>2, <2>3 DEF JobTypes, server
<1> QED  BY <1>1, <1>2, <1>3, <1>4, <1>5, <1>6, <1>7, <1>8 DEF RunMoves, Command

LEMMA LaunchIs ==
  ASSUME JobTypes, Staged, Known, NEW r \in Runs, Launch(r)
  PROVE  \E j \in JobsOf(r) :
           /\ at[r] = "launch" /\ at'[r] \in {"await", "launch"}
           /\ at[j] = "idle" /\ at'[j] \in {"skipped", "start"}
           /\ \A a \in Actors \ {r, j} : at'[a] = at[a]
           /\ UNCHANGED <<store, served, restarts>>
           /\ \A q \in Runs \ {r} : awaited'[q] = awaited[q]
           /\ r \in Sequential =>
                /\ at'[r] = "await" /\ awaited'[r] = DeptOf[j]
                /\ \A k \in JobsOf(r) : ~Live(k)
           /\ r \notin Sequential => at'[r] = "launch"
           /\ running' \in {running, running \cup {j}}
           /\ r \in Server /\ at'[j] = "start" => j \in running'
           /\ running' # running => DeptOf[j] \notin DeptsRunning
<1> USE JobsAreNotRuns
<1>1. PICK j \in ToLaunch(r) :
        /\ at' = [at EXCEPT ![j] = IF Refused(r, j) THEN "skipped" ELSE "start",
                            ![r] = IF r \in Sequential THEN "await" ELSE "launch"]
        /\ awaited' = [awaited EXCEPT ![r] = IF r \in Sequential THEN DeptOf[j] ELSE None]
        /\ running' = IF r \in Server /\ ~Refused(r, j) THEN running \cup {j} ELSE running
  BY DEF Launch
<1>2. j \in JobsOf(r) /\ j \in Jobs /\ at[j] = "idle"  BY DEF ToLaunch, JobsOf
<1>3. at[r] = "launch" /\ Held(r) /\ UNCHANGED <<store, served, restarts>>  BY DEF Launch
<1>4. \A a \in Actors : at'[a] = IF a = r THEN (IF r \in Sequential THEN "await" ELSE "launch")
                                 ELSE IF a = j THEN (IF Refused(r, j) THEN "skipped" ELSE "start")
                                 ELSE at[a]
  BY <1>1, <1>2 DEF JobTypes
<1>5. /\ \A q \in Runs \ {r} : awaited'[q] = awaited[q]
      /\ r \in Sequential => awaited'[r] = DeptOf[j]
  BY <1>1 DEF JobTypes
<1>6. r \in Sequential => \A k \in JobsOf(r) : ~Live(k)
  BY <1>3, RunsAssumption DEF Held, Known
<1>7. running' # running => DeptOf[j] \notin DeptsRunning
  BY <1>1 DEF Refused
<1>8. /\ at'[r] \in {"await", "launch"}
      /\ r \in Sequential => at'[r] = "await"
      /\ r \notin Sequential => at'[r] = "launch"
      /\ at'[j] = IF Refused(r, j) THEN "skipped" ELSE "start"
      /\ \A a \in Actors \ {r, j} : at'[a] = at[a]
  BY <1>2, <1>4
<1>9. /\ at'[j] \in {"skipped", "start"}
      /\ running' \in {running, running \cup {j}}
      /\ r \in Server /\ at'[j] = "start" => j \in running'
  BY <1>1, <1>8
<1> QED  BY <1>2, <1>3, <1>5, <1>6, <1>7, <1>8, <1>9

LEMMA StagedStep ==
  ASSUME JobTypes, Staged, Known, [Next]_vars
  PROVE  Staged'
<1> USE JobsAreNotRuns
<1>1. ASSUME NEW j \in Jobs, JobMoves(j)  PROVE Staged'
  <2>1. /\ \A r \in Runs : at'[r] = at[r] /\ change'[r] = change[r]
        /\ \A k \in Jobs : k # j => at'[k] = at[k]
        /\ Live(j)
    BY <1>1, JobMovesIs
  <2>2. at[j] # "idle"  BY <2>1 DEF Live
  <2>3. ASSUME NEW r \in Runs
        PROVE  /\ at'[r] \in {"idle", "look", "init"} \/ (Inside(r)' /\ change'[r] = "init") =>
                    \A k \in JobsOf(r) : at'[k] = "idle"
               /\ Inside(r)' /\ change'[r] = "finalize" => \A k \in JobsOf(r) : ~Live(k)'
    BY <2>1, <2>2 DEF Staged, Inside, Live, JobsOf
  <2> QED  BY <2>3 DEF Staged, JobsOf
<1>2. ASSUME NEW r \in Runs, RunMoves(r)  PROVE Staged'
  <2>1. /\ \A a \in Actors : a # r => at'[a] = at[a] /\ change'[a] = change[a]
        /\ at'[r] \in {"idle", "look", "init"} \/ (Inside(r)' /\ change'[r] = "init") =>
             \A j \in JobsOf(r) : at[j] = "idle"
        /\ Inside(r)' /\ change'[r] = "finalize" => \A j \in JobsOf(r) : ~Live(j)
    BY <1>2, RunMovesIs
  <2>2. \A j \in Jobs : at'[j] = at[j]  BY <2>1
  <2> QED  BY <2>1, <2>2 DEF Staged, Inside, Live, JobsOf
<1>3. ASSUME NEW r \in Runs, Launch(r)  PROVE Staged'
  <2>1. PICK j \in JobsOf(r) :
          /\ at'[r] \in {"await", "launch"}
          /\ \A a \in Actors \ {r, j} : at'[a] = at[a]
          /\ UNCHANGED store
    BY <1>3, LaunchIs
  <2>2. change' = change /\ \A q \in Runs \ {r} : \A k \in JobsOf(q) : at'[q] = at[q] /\ at'[k] = at[k]
    BY <2>1 DEF JobsOf, store
  <2> QED  BY <2>1, <2>2 DEF Staged, Inside, Live, JobsOf
<1>4. CASE ServerDies \/ UNCHANGED vars
  BY <1>4 DEF ServerDies, vars, store, Staged, Inside, Live, JobsOf
<1> QED  BY <1>1, <1>2, <1>3, <1>4, Moves

LEMMA KnownStep ==
  ASSUME JobTypes, Staged, Known, [Next]_vars
  PROVE  Known'
<1> USE JobsAreNotRuns
<1>1. ASSUME NEW j \in Jobs, JobMoves(j)  PROVE Known'
  <2>1. /\ \A r \in Runs : at'[r] = at[r]
        /\ \A k \in Jobs : k # j => at'[k] = at[k]
        /\ Live(j) /\ UNCHANGED <<served, awaited, restarts>>
        /\ running' = running \/ (running' = running \ {j} /\ at'[j] \in {"ended", "killed"})
    BY <1>1, JobMovesIs
  <2>2. \A k \in Jobs : Live(k)' => Live(k) /\ (k \in running => k \in running')
    BY <2>1 DEF Live
  <2>3. running' \subseteq running  BY <2>1
  <2>4. \A r \in Sequential \cap served :
          /\ at'[r] = "launch" => \A k \in JobsOf(r) : ~Live(k)'
          /\ at'[r] = "await" => \A k \in JobsOf(r) : Live(k)' => k \in running' /\ DeptOf[k] = awaited'[r]
    BY <2>1, <2>2, RunsAssumption DEF Known, JobsOf
  <2> QED  BY <2>1, <2>2, <2>3, <2>4 DEF Known, JobsOf
<1>2. ASSUME NEW r \in Runs, RunMoves(r)  PROVE Known'
  <2>1. /\ \A a \in Actors : a # r => at'[a] = at[a]
        /\ r \in Sequential \cap served' /\ at'[r] = "launch" => \A j \in JobsOf(r) : ~Live(j)
        /\ at'[r] # "await"
        /\ UNCHANGED <<running, restarts>> /\ served' \ {r} \subseteq served
        /\ \A q \in Runs : q # r => awaited'[q] = awaited[q]
    BY <1>2, RunMovesIs
  <2>2. \A j \in Jobs : Live(j)' <=> Live(j)  BY <2>1 DEF Live
  <2>3. ASSUME NEW q \in Sequential \cap served'
        PROVE  /\ at'[q] = "launch" => \A k \in JobsOf(q) : ~Live(k)'
               /\ at'[q] = "await" =>
                    \A k \in JobsOf(q) : Live(k)' => k \in running' /\ DeptOf[k] = awaited'[q]
    <3>1. CASE q = r  BY <2>1, <2>2, <3>1 DEF JobsOf
    <3>2. CASE q # r
      <4>1. q \in Runs /\ q \in Sequential \cap served  BY <2>1, <3>2, RunsAssumption
      <4> QED  BY <2>1, <2>2, <3>2, <4>1 DEF JobsOf, Known
    <3> QED  BY <3>1, <3>2
  <2> QED  BY <2>1, <2>2, <2>3 DEF Known, JobsOf
<1>3. ASSUME NEW r \in Runs, Launch(r)  PROVE Known'
  <2>1. PICK j \in JobsOf(r) :
           /\ at[r] = "launch" /\ at'[r] \in {"await", "launch"}
           /\ at[j] = "idle" /\ at'[j] \in {"skipped", "start"}
           /\ \A a \in Actors \ {r, j} : at'[a] = at[a]
           /\ UNCHANGED <<served, restarts>>
           /\ \A q \in Runs \ {r} : awaited'[q] = awaited[q]
           /\ r \in Sequential =>
                /\ at'[r] = "await" /\ awaited'[r] = DeptOf[j]
                /\ \A k \in JobsOf(r) : ~Live(k)
           /\ r \notin Sequential => at'[r] = "launch"
           /\ running' \in {running, running \cup {j}}
           /\ r \in Server /\ at'[j] = "start" => j \in running'
           /\ running' # running => DeptOf[j] \notin DeptsRunning
    BY <1>3, LaunchIs
  <2>2. j \in Jobs /\ RunOf[j] = r  BY DEF JobsOf
  <2>3. \A k \in Jobs : k # j => at'[k] = at[k] /\ (Live(k)' <=> Live(k))
    BY <2>1, <2>2 DEF Live
  <2>4. Live(j)' => at'[j] = "start"  BY <2>1 DEF Live
  <2>5. \A k, l \in running' : DeptOf[k] = DeptOf[l] => k = l
    BY <2>1 DEF Known, DeptsRunning
  <2>6. restarts' = 0 => \A k \in Jobs : Live(k)' /\ RunOf[k] \in Server => k \in running'
    BY <2>1, <2>2, <2>3, <2>4 DEF Known
  <2>7. ASSUME NEW q \in Sequential \cap served'
        PROVE  /\ at'[q] = "launch" => \A k \in JobsOf(q) : ~Live(k)'
               /\ at'[q] = "await" =>
                    \A k \in JobsOf(q) : Live(k)' => k \in running' /\ DeptOf[k] = awaited'[q]
    <3>1. q \in Runs /\ q \in Server  BY RunsAssumption
    <3>2. CASE q = r
      BY <2>1, <2>2, <2>3, <2>4, <3>1, <3>2 DEF JobsOf
    <3>3. CASE q # r
      <4>1. \A k \in JobsOf(q) : k \in Jobs /\ k # j  BY <2>2, <3>3 DEF JobsOf
      <4>2. at'[q] = at[q] /\ awaited'[q] = awaited[q] /\ q \in Sequential \cap served
        BY <2>1, <2>2, <3>1, <3>3
      <4>3. running \subseteq running'  BY <2>1
      <4> QED  BY <2>3, <4>1, <4>2, <4>3 DEF Known
    <3> QED  BY <3>2, <3>3
  <2> QED  BY <2>5, <2>6, <2>7 DEF Known, JobsOf
<1>4. CASE ServerDies
  <2>1. restarts' # 0 /\ running' = {} /\ served' = {}
    BY <1>4 DEF ServerDies, JobTypes
  <2> QED  BY <2>1 DEF Known
<1>5. CASE UNCHANGED vars
  BY <1>5 DEF vars, store, server, Known, Live, JobsOf
<1> QED  BY <1>1, <1>2, <1>3, <1>4, <1>5, Moves

-----------------------------------------------------------------------------
(* Commands that nothing disturbs. *)

(* Beside a run that executes a command, no script is at work. *)
LEMMA NoScriptBesideRun ==
  ASSUME JobTypes, Staged, ~Crowded, NEW r \in Runs, Inside(r), NEW j \in Jobs
  PROVE  ~Live(j)
<1> USE JobsAreNotRuns
<1>1. CASE RunOf[j] = r
  <2>1. change[r] \in {"init", "finalize"}  BY DEF JobTypes, CallsOf
  <2> QED  BY <1>1, <2>1 DEF Staged, JobsOf, Live
<1>2. CASE RunOf[j] # r
  <2>1. Live(j) => Active(RunOf[j])  BY DEF Active, JobsOf
  <2> QED  BY <1>2, <2>1 DEF Crowded
<1> QED  BY <1>1, <1>2

(* So one command is executed at a time. *)
LEMMA OneCommand ==
  ASSUME JobTypes, Staged, Orderly, NEW a \in Actors, NEW b \in Actors, Inside(a), Inside(b)
  PROVE  a = b
<1> USE JobsAreNotRuns
<1>0. \A j \in Jobs : Inside(j) => Live(j)  BY DEF Inside, Live
<1>1. CASE a \in Jobs /\ b \in Jobs
  BY <1>1 DEF Orderly
<1>2. CASE a \in Runs /\ b \in Runs
  <2>1. Active(b)  BY <1>2 DEF Active, Inside
  <2> QED  BY <1>2, <2>1 DEF Orderly, Crowded
<1>3. CASE (a \in Runs /\ b \in Jobs) \/ (a \in Jobs /\ b \in Runs)
  BY <1>0, <1>3, NoScriptBesideRun DEF Orderly
<1> QED  BY <1>1, <1>2, <1>3

(* A command that begins, and one that goes on. *)
LEMMA ReadsProgress ==
  ASSUME JobTypes, NEW a \in Actors, NEW c, Reads(a, c), file = ideal, history = recorded,
         ideal' = ideal, recorded' = recorded
  PROVE  Progress(a)'
<1> DEFINE f == Result(file, c, a)
<1>1. /\ change'[a] = c /\ copy'[a].file = f
      /\ at'[a] = IF Completes(f, c) THEN "history" ELSE "truncate"
      /\ file' = file /\ history' = history
  <2>1. copy' = [copy EXCEPT ![a].file = f]  BY DEF Reads
  <2>2. copy'[a].file = f
    <3> HIDE DEF f
    <3>1. copy = [b \in Actors |-> [file |-> copy[b].file, history |-> copy[b].history]]
      BY DEF JobTypes
    <3>2. copy'[a] = [copy[a] EXCEPT !.file = f]  BY <2>1, <3>1
    <3> QED  BY <3>1, <3>2
  <2>3. at' = [at EXCEPT ![a] = IF Completes(f, c) THEN "history" ELSE "truncate"]
        /\ change' = [change EXCEPT ![a] = c] /\ file' = file /\ history' = history
    BY DEF Reads, Goes
  <2> HIDE DEF f
  <2> QED  BY <2>2, <2>3 DEF JobTypes
<1>2. f = Result(ideal', change'[a], a)  BY <1>1
<1> HIDE DEF f
<1> QED  BY <1>1, <1>2 DEF Progress, Recorded, Completes

LEMMA CommandProgress ==
  ASSUME JobTypes, NEW a \in Actors, Progress(a), ideal' = ideal, recorded' = recorded,
         ReadHistory(a) \/ TruncateHistory(a) \/ WriteHistory(a) \/ Truncate(a)
  PROVE  Progress(a)'
<1> DEFINE f == Result(ideal, change[a], a)
           new == Recorded(f, change[a])
<1>0. change' = change  BY DEF ReadHistory, TruncateHistory, WriteHistory, Truncate
<1>1. f = Result(ideal', change'[a], a)  BY <1>0
<1>2. new = recorded' \cup (IF Completes(f, change'[a]) THEN {f.run} ELSE {})
  BY <1>0 DEF Recorded
<1>3. /\ copy[a].file = f
      /\ at[a] \in {"history", "historyTruncate", "historyWrite"} =>
           Completes(f, change[a]) /\ file = ideal
      /\ at[a] = "history" => history = recorded
      /\ at[a] \in {"historyTruncate", "historyWrite"} => copy[a].history = new
      /\ at[a] = "truncate" => file = ideal /\ history = new
      /\ at[a] = "write" => file = Garbage /\ history = new
  BY DEF Progress
<1>4. SUFFICES
        /\ copy'[a].file = f
        /\ at'[a] \in {"history", "historyTruncate", "historyWrite"} =>
             Completes(f, change[a]) /\ file' = ideal
        /\ at'[a] = "history" => history' = recorded
        /\ at'[a] \in {"historyTruncate", "historyWrite"} => copy'[a].history = new
        /\ at'[a] = "truncate" => file' = ideal /\ history' = new
        /\ at'[a] = "write" => file' = Garbage /\ history' = new
  BY <1>0, <1>1, <1>2 DEF Progress, Recorded, Completes
<1>5. new = IF Completes(f, change[a]) THEN recorded \cup {f.run} ELSE recorded
  BY DEF Recorded
<1> HIDE DEF f, new
<1>6. CASE ReadHistory(a)
  <2>1. at[a] = "history" /\ file' = file /\ history' = history
    BY <1>6 DEF ReadHistory
  <2>2. at'[a] = "historyTruncate"  BY <1>6 DEF ReadHistory, Goes, JobTypes
  <2>3. history # Garbage  BY <1>3, <2>1, RunsAssumption DEF JobTypes
  <2>4. copy' = [copy EXCEPT ![a].history = history \cup {copy[a].file.run}]
    BY <1>6, <2>3 DEF ReadHistory
  <2>5. copy'[a].file = copy[a].file /\ copy'[a].history = history \cup {copy[a].file.run}
    BY <2>4 DEF JobTypes
  <2> QED  BY <1>3, <1>5, <2>1, <2>2, <2>5
<1>7. CASE TruncateHistory(a)
  BY <1>3, <1>7 DEF TruncateHistory, Goes, JobTypes
<1>8. CASE WriteHistory(a)
  BY <1>3, <1>8 DEF WriteHistory, Goes, JobTypes
<1>9. CASE Truncate(a)
  BY <1>3, <1>9 DEF Truncate, Goes, JobTypes
<1> QED  BY <1>6, <1>7, <1>8, <1>9

(* A command that ends makes its call count, all at once. *)
LEMMA WriteAtWork ==
  ASSUME JobTypes, Staged, Orderly, NEW a \in Actors, Write(a), ideal' = Result(ideal, change[a], a)
  PROVE  AtWorkIsRunning'
<1> USE JobsAreNotRuns
<1>1. /\ Inside(a) /\ Progress(a) /\ change[a] \in CallsOf(a)
      /\ \A b \in Actors : at'[b] = IF b = a THEN After(a) ELSE at[b]
  BY DEF Write, Goes, Orderly, Inside, JobTypes
<1>2. CASE a \in Runs
  <2>1. \A k \in Jobs : at'[k] # "audit"
    BY <1>1, <1>2, NoScriptBesideRun DEF Orderly, Live
  <2> QED  BY <2>1 DEF AtWorkIsRunning
<1>3. ASSUME a \in Jobs, NEW k \in Jobs, at'[k] = "audit", ideal' \notin Unreadable,
             DeptOf[k] \in DOMAIN ideal'.jobs
      PROVE  ideal'.jobs[DeptOf[k]] = "running" /\ ideal'.status = "running"
  <2>1. Live(a)  BY <1>1 DEF Inside, Live
  <2>2. k # a => at[k] = "audit" /\ DeptOf[k] # DeptOf[a]
    BY <1>1, <1>3, <2>1 DEF Orderly, SameDept, Live
  <2>3. k # a /\ ideal \notin Unreadable /\ DeptOf[k] \in DOMAIN ideal.jobs =>
          ideal.jobs[DeptOf[k]] = "running" /\ ideal.status = "running"
    BY <2>2 DEF Orderly, AtWorkIsRunning
  <2>4. ideal \in Unreadable \/ IsFile(ideal)  BY DEF JobTypes
  <2>5. CASE change[a] = "start"
    <3>1. ideal' = Started(ideal, a)  BY <2>5 DEF Result
    <3>2. CASE ideal \in Unreadable
      <4>1. ideal' = [run |-> RunOf[a], status |-> "running", jobs |-> [d \in {DeptOf[a]} |-> "running"]]
        BY <1>3, <2>4, <3>1, <3>2, StartedIs
      <4> QED  BY <1>3, <4>1
    <3>3. CASE ideal \notin Unreadable
      <4>1. ideal' = [run |-> ideal.run, status |-> "running", jobs |-> With(ideal.jobs, DeptOf[a], "running")]
        BY <1>3, <2>4, <3>1, <3>3, StartedIs
      <4>2. DeptOf[k] \in DOMAIN With(ideal.jobs, DeptOf[a], "running")
        BY <1>3, <4>1
      <4>3. DeptOf[k] = DeptOf[a] \/ DeptOf[k] \in DOMAIN ideal.jobs
        BY <4>2 DEF With
      <4>4. With(ideal.jobs, DeptOf[a], "running")[DeptOf[k]] = "running"
        BY <2>2, <2>3, <3>3, <4>3 DEF With
      <4> QED  BY <4>1, <4>4
    <3> QED  BY <3>2, <3>3
  <2>6. CASE change[a] = "finish"
    <3>1. ideal' = Finished(ideal, a)  BY <2>6 DEF Result
    <3>2. ideal \notin Unreadable
      BY <1>3, <2>4, <3>1, FinishedIs DEF Unreadable
    <3> DEFINE jobs == With(ideal.jobs, DeptOf[a], "done")
    <3>3. ideal' = [run |-> ideal.run,
                    status |-> IF AllDone(jobs) THEN "done" ELSE ideal.status, jobs |-> jobs]
      BY <1>3, <2>4, <3>1, <3>2, FinishedIs
    <3>4. k # a  BY <1>1, <1>3, <2>6 DEF After
    <3>5. DeptOf[k] \in DOMAIN jobs
      <4> HIDE DEF jobs
      <4> QED  BY <1>3, <3>3
    <3>6. DeptOf[k] \in DOMAIN ideal.jobs  BY <2>2, <3>4, <3>5 DEF With
    <3>7. jobs[DeptOf[k]] = "running"  BY <2>2, <2>3, <3>2, <3>4, <3>6 DEF With
    <3>8. ~AllDone(jobs)  BY <3>5, <3>7 DEF AllDone
    <3> HIDE DEF jobs
    <3> QED  BY <2>3, <3>2, <3>3, <3>4, <3>6, <3>7, <3>8
  <2> QED  BY <1>1, <1>3, <2>5, <2>6 DEF CallsOf
<1> QED  BY <1>2, <1>3 DEF AtWorkIsRunning

(* A step that reads and writes neither file. *)
LEMMA ElsewhereOrderly ==
  ASSUME Orderly, Unchanged, ~disturbed', ~Crowded', ~SameDept', UNCHANGED <<file, history>>,
         \A a \in Actors : Inside(a)' => Inside(a),
         \A a \in Actors : Inside(a) =>
           at'[a] = at[a] /\ change'[a] = change[a] /\ copy'[a] = copy[a],
         \A j \in Jobs : Inside(j) => lock' = lock,
         \A j \in Jobs : at'[j] = "audit" => at[j] = "audit"
  PROVE  Orderly'
<1> USE JobsAreNotRuns
<1>1. ideal' = ideal /\ recorded' = recorded  BY DEF Unchanged
<1>2. \A a \in Actors : Inside(a) => Inside(a)'  BY DEF Inside
<1>3. ASSUME NEW a \in Actors, Inside(a)'  PROVE Progress(a)'
  <2>1. Progress(a)  BY <1>3 DEF Orderly
  <2>2. at'[a] = at[a] /\ change'[a] = change[a] /\ copy'[a] = copy[a]  BY <1>3
  <2>3. Result(ideal', change'[a], a) = Result(ideal, change[a], a)  BY <1>1, <2>2
  <2> QED  BY <1>1, <2>1, <2>2, <2>3 DEF Progress, Recorded, Completes
<1>4. AtWorkIsRunning'  BY <1>1 DEF Orderly, AtWorkIsRunning
<1> QED  BY <1>1, <1>2, <1>3, <1>4 DEF Orderly

(* A command that begins where none is executed. *)
LEMMA ReadsOrderly ==
  ASSUME JobTypes, Orderly, Unchanged, ~disturbed', ~Crowded', ~SameDept',
         \A b \in Actors : ~Inside(b),
         NEW a \in Actors, NEW c, Reads(a, c), a \in Jobs => lock' = a
  PROVE  Orderly'
<1> USE JobsAreNotRuns
<1>1. ideal' = ideal /\ recorded' = recorded  BY DEF Unchanged
<1>2. file = ideal /\ history = recorded  BY DEF Orderly
<1>3. PICK s \in {"history", "truncate"} : at' = [at EXCEPT ![a] = s]  BY DEF Reads, Goes
<1>4. \A b \in Actors : at'[b] = IF b = a THEN s ELSE at[b]  BY <1>3 DEF JobTypes
<1>5. \A b \in Actors : Inside(b)' <=> b = a  BY <1>4 DEF Inside
<1>6. Progress(a)'  BY <1>1, <1>2, ReadsProgress
<1>7. AtWorkIsRunning'
  <2>1. \A k \in Jobs : at'[k] = "audit" => at[k] = "audit"  BY <1>4
  <2> QED  BY <1>1, <2>1 DEF Orderly, AtWorkIsRunning
<1> QED  BY <1>5, <1>6, <1>7 DEF Orderly

LEMMA OrderlyStep ==
  ASSUME JobTypes, Staged, Known, ~disturbed, Orderly, [Next]_vars, ~disturbed'
  PROVE  Orderly'
<1> USE JobsAreNotRuns
<1>0. /\ \A j \in Jobs : Inside(j) => lock = j
      /\ \A a \in Actors : Inside(a) => Progress(a)
  BY DEF Orderly
<1>q. Quietly => Unchanged /\ ~Crowded' /\ ~SameDept'
  BY DEF Quietly, Disturbs
<1>1. ASSUME NEW a \in Actors, ReadHistory(a) \/ TruncateHistory(a) \/ WriteHistory(a) \/ Truncate(a)
      PROVE  Orderly'
  <2>1. PICK s \in InsideSteps : at' = [at EXCEPT ![a] = s]
    BY <1>1 DEF ReadHistory, TruncateHistory, WriteHistory, Truncate, Goes, InsideSteps
  <2>2. Quietly /\ UNCHANGED <<lock, change>>
    BY <1>1 DEF ReadHistory, TruncateHistory, WriteHistory, Truncate
  <2>3. Inside(a)
    BY <1>1 DEF ReadHistory, TruncateHistory, WriteHistory, Truncate, Inside
  <2>4. \A b \in Actors : at'[b] = IF b = a THEN s ELSE at[b]  BY <2>1 DEF JobTypes
  <2>5. \A b \in Actors : Inside(b)' <=> Inside(b)
    BY <2>3, <2>4 DEF Inside, InsideSteps
  <2>6. \A b \in Actors : Inside(b) => b = a  BY <2>3, OneCommand
  <2>7. ideal' = ideal /\ recorded' = recorded  BY <1>q, <2>2 DEF Unchanged
  <2>8. Progress(a)'  BY <1>0, <1>1, <2>3, <2>7, CommandProgress
  <2>9. AtWorkIsRunning'
    <3>1. \A k \in Jobs : at'[k] = "audit" => at[k] = "audit"  BY <2>4 DEF InsideSteps
    <3> QED  BY <2>7, <3>1 DEF Orderly, AtWorkIsRunning
  <2>10. Inside(a)'  BY <2>3, <2>5
  <2>11. \A j \in Jobs : Inside(j)' => lock' = j  BY <1>0, <2>2, <2>5
  <2>12. \A b \in Actors : Inside(b)' => Progress(b)'  BY <2>5, <2>6, <2>8
  <2> QED  BY <1>q, <2>2, <2>9, <2>10, <2>11, <2>12 DEF Orderly
<1>2. ASSUME NEW a \in Actors, Write(a)  PROVE Orderly'
  <2>1. /\ Inside(a) /\ file' = copy[a].file /\ history' = history
        /\ at[a] = "write" /\ change[a] \in CallsOf(a)
        /\ \A b \in Actors : at'[b] = IF b = a THEN After(a) ELSE at[b]
    BY <1>2 DEF Write, Goes, Inside, JobTypes
  <2>2. After(a) \notin InsideSteps  BY <2>1 DEF After, CallsOf, InsideSteps
  <2>3. \A b \in Actors : Inside(b) => b = a  BY <2>1, OneCommand
  <2>4. \A b \in Actors : ~Inside(b)'  BY <2>1, <2>2, <2>3 DEF Inside, InsideSteps
  <2>5. /\ ideal' = Result(ideal, change[a], a)
        /\ recorded' = Recorded(Result(ideal, change[a], a), change[a])
        /\ ~Crowded' /\ ~SameDept'
    BY <1>2 DEF Write, Disturbs, Recorded
  <2>6. file' = ideal' /\ history' = recorded'
    BY <1>0, <2>1, <2>5 DEF Progress
  <2>7. AtWorkIsRunning'  BY <1>2, <2>5, WriteAtWork
  <2> QED  BY <2>4, <2>5, <2>6, <2>7 DEF Orderly
<1>3. ASSUME NEW j \in Jobs, JobStart(j) \/ JobFinish(j)  PROVE Orderly'
  <2>1. PICK c : Reads(j, c) /\ Locks(j) /\ Unchanged
    BY <1>3 DEF JobStart, JobFinish
  <2>2. TakesLock(j)  BY <2>1 DEF Locks, GivesUp, Disturbs
  <2>3. lock = None /\ lock' = j /\ ~Crowded' /\ ~SameDept'
    BY <2>2 DEF TakesLock, Disturbs
  <2>4. Live(j)  BY <1>3 DEF JobStart, JobFinish, Live
  <2>5. \A b \in Actors : ~Inside(b)
    BY <1>0, <2>3, <2>4, NoScriptBesideRun DEF Orderly
  <2> QED  BY <2>1, <2>3, <2>5, ReadsOrderly
<1>4. ASSUME NEW r \in Runs, Finalize(r)  PROVE Orderly'
  <2>1. Reads(r, "finalize") /\ Quietly /\ at[r] = "launch" /\ Held(r)
    BY <1>4 DEF Finalize
  <2>2. \A q \in Runs : ~Inside(q)
    <3>1. Active(r)  BY <2>1 DEF Active
    <3>2. ~Inside(r)  BY <2>1 DEF Inside
    <3> QED  BY <3>1, <3>2 DEF Orderly, Crowded
  <2>3. \A j \in Jobs : ~Inside(j)
    <3>1. PICK s \in {"history", "truncate"} : at' = [at EXCEPT ![r] = s]
      BY <2>1 DEF Reads, Goes
    <3>2. Inside(r)' /\ \A j \in Jobs : at'[j] = at[j]  BY <3>1 DEF JobTypes, Inside
    <3>3. \A j \in Jobs : Live(j) => RunOf[j] = r
      BY <1>q, <2>1, <3>2 DEF Crowded, Active, Live, JobsOf
    <3>4. \A j \in JobsOf(r) : ~Live(j)  BY <1>4, RunMovesIs, <3>2, <2>1 DEF RunMoves, Reads, JobTypes
    <3> QED  BY <3>3, <3>4 DEF JobsOf, Inside, Live
  <2> QED  BY <1>q, <2>1, <2>2, <2>3, ReadsOrderly
<1>5. ASSUME NEW r \in Runs, JobInit(r)  PROVE Orderly'
  <2>1. /\ at[r] = "init" /\ file' = Garbage /\ history' = history /\ Quietly
        /\ at' = [at EXCEPT ![r] = "write"] /\ change' = [change EXCEPT ![r] = "init"]
        /\ copy' = [copy EXCEPT ![r].file = Fresh(r)]
    BY <1>5 DEF JobInit, Goes
  <2>2. \A b \in Actors : ~Inside(b)
    <3>1. \A q \in Runs : Inside(q) => Active(q) /\ q # r  BY <2>1 DEF Inside, Active
    <3>2. \A j \in Jobs : Inside(j) => Active(RunOf[j])  BY DEF Inside, Live, Active, JobsOf
    <3>3. \A j \in Jobs : Inside(j) => RunOf[j] # r
      BY <2>1 DEF Staged, JobsOf, Inside
    <3> QED  BY <2>1, <3>1, <3>2, <3>3 DEF Orderly, Crowded
  <2>3. file = ideal /\ history = recorded /\ ideal' = ideal /\ recorded' = recorded
    BY <1>q, <2>1, <2>2 DEF Orderly, Unchanged
  <2>4. \A b \in Actors : at'[b] = IF b = r THEN "write" ELSE at[b]  BY <2>1 DEF JobTypes
  <2>5. \A b \in Actors : Inside(b)' <=> b = r  BY <2>2, <2>4 DEF Inside
  <2>6. copy'[r].file = Fresh(r)
    <3>1. copy = [b \in Actors |-> [file |-> copy[b].file, history |-> copy[b].history]]
      BY DEF JobTypes
    <3>2. copy'[r] = [copy[r] EXCEPT !.file = Fresh(r)]  BY <2>1, <3>1
    <3> QED  BY <3>1, <3>2
  <2>7. Progress(r)'
    <3>1. change'[r] = "init"  BY <2>1 DEF JobTypes
    <3>2. Result(ideal', change'[r], r) = Fresh(r)  BY <3>1 DEF Result
    <3>3. ~Completes(Fresh(r), change'[r])  BY <3>1 DEF Completes
    <3>4. at'[r] = "write"  BY <2>4
    <3> QED  BY <2>1, <2>3, <2>6, <3>2, <3>3, <3>4 DEF Progress, Recorded, Completes
  <2>8. AtWorkIsRunning'
    <3>1. \A k \in Jobs : at'[k] = "audit" => at[k] = "audit"  BY <2>4
    <3> QED  BY <2>3, <3>1 DEF Orderly, AtWorkIsRunning
  <2> QED  BY <1>q, <2>1, <2>5, <2>7, <2>8 DEF Orderly
<1>6. ASSUME NEW j \in Jobs, ScriptEnds(j)  PROVE Orderly'
  <2>1. Quietly /\ UNCHANGED store /\ at[j] = "leaving" /\ at' = [at EXCEPT ![j] = "ended"]
    BY <1>6 DEF ScriptEnds, Goes
  <2>2. \A b \in Actors : at'[b] = IF b = j THEN "ended" ELSE at[b]  BY <2>1 DEF JobTypes
  <2>3. \A b \in Actors : Inside(b)' => Inside(b)  BY <2>2 DEF Inside
  <2>4. \A b \in Actors : Inside(b) => b # j  BY <2>1 DEF Inside
  <2> QED  BY <1>q, <2>1, <2>2, <2>3, <2>4, ElsewhereOrderly DEF store
<1>7. ASSUME NEW j \in Jobs, Killed(j)  PROVE Orderly'
  <2>1. /\ Unchanged /\ ~Inside(j) /\ ~Crowded' /\ ~SameDept' /\ UNCHANGED <<file, history>>
        /\ at' = [at EXCEPT ![j] = "killed"] /\ change' = [change EXCEPT ![j] = "none"]
        /\ copy' = [copy EXCEPT ![j] = [file |-> Absent, history |-> {}]]
        /\ lock' = Released(j)
    BY <1>7 DEF Killed, Goes, Disturbs
  <2>2. \A b \in Actors : at'[b] = IF b = j THEN "killed" ELSE at[b]  BY <2>1 DEF JobTypes
  <2>3. \A b \in Actors : Inside(b)' => Inside(b)  BY <2>2 DEF Inside
  <2>4. \A b \in Actors : b # j => change'[b] = change[b] /\ copy'[b] = copy[b]
    BY <2>1 DEF JobTypes
  <2>5. \A k \in Jobs : Inside(k) => k # j /\ lock' = lock
    BY <1>0, <2>1 DEF Released
  <2> QED  BY <2>1, <2>2, <2>3, <2>4, <2>5, ElsewhereOrderly
<1>8. ASSUME NEW r \in Runs, BeginBatch(r) \/ BeginScan(r) \/ Look(r) \/ Await(r) \/ LaunchedAll(r)
      PROVE  Orderly'
  <2>1. PICK s \in {"init", "look", "launch", "ended"} : at' = [at EXCEPT ![r] = s]
    BY <1>8 DEF BeginBatch, BeginScan, Look, Await, LaunchedAll, Goes
  <2>2. Quietly /\ UNCHANGED store /\ at[r] \in {"idle", "look", "await", "launch"}
    BY <1>8 DEF BeginBatch, BeginScan, MayBegin, Look, Await, LaunchedAll
  <2>3. \A b \in Actors : at'[b] = IF b = r THEN s ELSE at[b]  BY <2>1 DEF JobTypes
  <2>4. \A b \in Actors : Inside(b)' => Inside(b)  BY <2>3 DEF Inside
  <2>5. \A b \in Actors : Inside(b) => b # r  BY <2>2 DEF Inside
  <2> QED  BY <1>q, <2>2, <2>3, <2>4, <2>5, ElsewhereOrderly DEF store
<1>9. ASSUME NEW r \in Runs, Launch(r)  PROVE Orderly'
  <2>1. PICK j \in JobsOf(r) :
          /\ at[r] = "launch" /\ at'[r] \in {"await", "launch"}
          /\ at[j] = "idle" /\ at'[j] \in {"skipped", "start"}
          /\ \A a \in Actors \ {r, j} : at'[a] = at[a]
          /\ UNCHANGED store
    BY <1>9, LaunchIs
  <2>2. Quietly  BY <1>9 DEF Launch
  <2>3. j \in Jobs  BY DEF JobsOf
  <2>4. \A b \in Actors : Inside(b)' => Inside(b)  BY <2>1, <2>3 DEF Inside
  <2>5. \A b \in Actors : Inside(b) => b \notin {r, j}  BY <2>1 DEF Inside
  <2>6. \A k \in Jobs : at'[k] = "audit" => at[k] = "audit"  BY <2>1, <2>3
  <2> QED  BY <1>q, <2>1, <2>2, <2>4, <2>5, <2>6, ElsewhereOrderly DEF store
<1>10. CASE ServerDies
  <2>1. Quietly /\ UNCHANGED <<store, at>>  BY <1>10 DEF ServerDies
  <2> QED  BY <1>q, <2>1, ElsewhereOrderly DEF store, Inside
<1>11. CASE UNCHANGED vars
  BY <1>11 DEF vars, store, observed, server, Orderly, Crowded, SameDept, Active, Held, JobsOf, Live,
       Inside, Progress, Recorded, Completes, AtWorkIsRunning
<1> QED
  BY <1>1, <1>2, <1>3, <1>4, <1>5, <1>6, <1>7, <1>8, <1>9, <1>10, <1>11
     DEF Next, Work, RunStep, JobStep, Command

-----------------------------------------------------------------------------
(* The theorems. *)

LEMMA JobsInvInit == Init => JobsInv
<1> SUFFICES ASSUME Init  PROVE JobsInv  OBVIOUS
<1> USE JobsAreNotRuns
<1>1. JobTypes  BY DEF Init, JobTypes, Inside, RunSteps, JobSteps, Unreadable
<1>2. Staged /\ Known  BY DEF Init, Staged, Known, Inside, Live, JobsOf
<1>3. Orderly
  BY DEF Init, Orderly, Crowded, SameDept, Inside, Live, JobsOf, AtWorkIsRunning
<1> QED  BY <1>1, <1>2, <1>3 DEF JobsInv

LEMMA JobsInvStep == JobsInv /\ [Next]_vars => JobsInv'
<1> SUFFICES ASSUME JobsInv, [Next]_vars  PROVE JobsInv'  OBVIOUS
<1>1. JobTypes' /\ Staged' /\ Known'
  BY TypesStep, StagedStep, KnownStep DEF JobsInv
<1>2. ~disturbed' => ~disturbed
  BY DEF Next, Work, RunStep, JobStep, Command, ReadHistory, TruncateHistory, WriteHistory, Truncate,
       Write, JobStart, JobFinish, Locks, TakesLock, GivesUp, ScriptEnds, Killed, BeginBatch, BeginScan,
       Look, JobInit, Launch, Await, LaunchedAll, Finalize, ServerDies, Quietly, Disturbs, vars, observed
<1> QED  BY <1>1, <1>2, OrderlyStep DEF JobsInv

(* Whatever the interleaving of the commands of the runs and of the agent   *)
(* scripts: nobody executes a command beside another unless disturbed, and  *)
(* what has been copied so far is what the calls make of the file.          *)
THEOREM JobsInvariant == Spec => []JobsInv
<1>1. JobsInv /\ UNCHANGED vars => JobsInv'  BY JobsInvStep
<1> QED  BY JobsInvInit, JobsInvStep, PTL DEF Spec

(* Between commands the file and the history are what the calls of          *)
(* job_init, job_start, job_finish and finalize make of them one at a time. *)
THEOREM CallsCount == Spec => []EveryCallCounts
<1>1. JobsInv => EveryCallCounts  BY DEF JobsInv, Orderly, EveryCallCounts
<1> QED  BY <1>1, JobsInvariant, PTL

(* No run is complete in the file while an agent it lists is at work. *)
THEOREM CompleteIsDone == Spec => []CompleteMeansDone
<1>1. ASSUME JobsInv, ~disturbed, file \notin Unreadable, file.status = "done",
             NEW j \in Jobs, at[j] = "audit"
      PROVE  DeptOf[j] \notin DOMAIN file.jobs
  <2>1. Orderly /\ Staged /\ JobTypes  BY <1>1 DEF JobsInv
  <2>2. \A a \in Actors : Inside(a) => file = ideal \/ file = Garbage
    BY <2>1 DEF Orderly, Progress, Inside
  <2>3. file = ideal  BY <1>1, <2>1, <2>2 DEF Orderly, Unreadable
  <2>4. DeptOf[j] \in DOMAIN ideal.jobs => ideal.status = "running"
    BY <1>1, <2>1, <2>3 DEF Orderly, AtWorkIsRunning
  <2> QED  BY <1>1, <2>3, <2>4
<1>2. JobsInv => CompleteMeansDone  BY <1>1 DEF CompleteMeansDone
<1> QED  BY <1>2, JobsInvariant, PTL

(* One server never has two scripts of a department at work. *)
THEOREM OneJobEach == Spec => []OneJobPerDepartment
<1>1. JobsInv => OneJobPerDepartment  BY DEF JobsInv, Known, OneJobPerDepartment
<1> QED  BY <1>1, JobsInvariant, PTL

-----------------------------------------------------------------------------
(* Nobody waits for ever. *)

(* The flock is held by a job that executes a command, and the server keeps the
   threads of jobs that are at work. *)
Waits ==
  /\ lock \in Jobs \cup {None} /\ (lock # None => Inside(lock))
  /\ \A j \in running : Live(j)

LEMMA LockStep ==
  ASSUME JobTypes, Waits, NEW j \in Jobs, JobMoves(j)
  PROVE  lock' \in Jobs \cup {None} /\ (lock' # None => Inside(lock)')
<1> USE JobsAreNotRuns
<1>1. \A a \in Actors : a # j => at'[a] = at[a]  BY JobMovesIs
<1>2. /\ lock' = None \/ lock' = j \/ lock' = lock
      /\ lock' = j => Inside(j)' \/ j = None
  <2>1. CASE ReadHistory(j) \/ TruncateHistory(j) \/ WriteHistory(j) \/ Truncate(j)
    <3>1. lock' = lock /\ \E s \in InsideSteps : at' = [at EXCEPT ![j] = s]
      BY <2>1 DEF ReadHistory, TruncateHistory, WriteHistory, Truncate, Goes, InsideSteps
    <3> QED  BY <3>1 DEF JobTypes, Inside, InsideSteps
  <2>2. CASE Write(j) \/ Killed(j)
    BY <2>2 DEF Write, Killed, Released
  <2>3. CASE JobStart(j) \/ JobFinish(j)
    <3>1. /\ lock' = lock \/ lock' = j
          /\ \E s \in {"history", "truncate"} : at' = [at EXCEPT ![j] = s]
      BY <2>3 DEF JobStart, JobFinish, Reads, Goes, Locks, TakesLock, GivesUp
    <3> QED  BY <3>1 DEF JobTypes, Inside
  <2>4. CASE ScriptEnds(j)
    <3>1. lock' = lock /\ at[j] = "leaving"  BY <2>4 DEF ScriptEnds, store
    <3> QED  BY <3>1 DEF Waits, Inside
  <2> QED  BY <2>1, <2>2, <2>3, <2>4 DEF JobMoves, Command
<1>3. lock \in Actors \cup {None}  BY DEF Waits, Actors
<1>4. lock' # None /\ lock' # j => Inside(lock)'
  BY <1>1, <1>2, <1>3 DEF Waits, Inside
<1> QED  BY <1>2, <1>4 DEF Waits

(* A job that has moved is at work, or the server has forgotten it. *)
LEMMA AtWorkOrForgotten ==
  ASSUME JobTypes, NEW j \in Jobs, JobMoves(j)
  PROVE  Live(j)' \/ j \notin running'
<1> USE JobsAreNotRuns
<1>1. CASE ReadHistory(j) \/ TruncateHistory(j) \/ WriteHistory(j) \/ Truncate(j)
  <2>1. \E s \in InsideSteps : at' = [at EXCEPT ![j] = s]
    BY <1>1 DEF ReadHistory, TruncateHistory, WriteHistory, Truncate, Goes, InsideSteps
  <2> QED  BY <2>1 DEF JobTypes, Live, InsideSteps
<1>2. CASE Write(j)
  <2>1. Inside(j) /\ at' = [at EXCEPT ![j] = After(j)]  BY <1>2 DEF Write, Goes, Inside
  <2>2. change[j] \in {"start", "finish"}  BY <2>1 DEF JobTypes, CallsOf
  <2>3. After(j) \in {"audit", "leaving"}  BY <2>2 DEF After
  <2> QED  BY <2>1, <2>3 DEF JobTypes, Live
<1>3. CASE JobStart(j) \/ JobFinish(j)
  <2>1. \E s \in {"history", "truncate"} : at' = [at EXCEPT ![j] = s]
    BY <1>3 DEF JobStart, JobFinish, Reads, Goes
  <2> QED  BY <2>1 DEF JobTypes, Live
<1>4. CASE ScriptEnds(j) \/ Killed(j)
  BY <1>4 DEF ScriptEnds, Killed, Forgotten
<1> QED  BY <1>1, <1>2, <1>3, <1>4 DEF JobMoves, Command

LEMMA WaitsStep ==
  ASSUME JobTypes, Staged, Known, Waits, [Next]_vars
  PROVE  Waits'
<1> USE JobsAreNotRuns
<1>1. CASE \E j \in Jobs : JobMoves(j)
  <2>1. PICK j \in Jobs : JobMoves(j)  BY <1>1
  <2>2. /\ \A a \in Actors : a # j => at'[a] = at[a]
        /\ running' \subseteq running
        /\ Live(j)' \/ j \notin running'
    BY <2>1, JobMovesIs, AtWorkOrForgotten
  <2>3. \A k \in running' : Live(k)'  BY <2>2 DEF Waits, Live, JobTypes
  <2> QED  BY <2>1, <2>3, LockStep DEF Waits
<1>2. ASSUME NEW r \in Runs, RunMoves(r)
      PROVE  Waits'
  <2>1. (\A a \in Actors : a # r => at'[a] = at[a]) /\ UNCHANGED running
    BY <1>2, RunMovesIs
  <2>2. lock' = lock
    BY <1>2 DEF RunMoves, Command, ReadHistory, TruncateHistory, WriteHistory, Truncate, Write,
       Released, BeginBatch, BeginScan, Look, JobInit, Await, LaunchedAll, Finalize, store, Waits
  <2>3. \A k \in Jobs : at'[k] = at[k]  BY <2>1
  <2> QED  BY <2>1, <2>2, <2>3 DEF Waits, Inside, Live, JobTypes
<1>3. ASSUME NEW r \in Runs, Launch(r)
      PROVE  Waits'
  <2>1. PICK j \in JobsOf(r) :
          /\ at[j] = "idle"
          /\ \A a \in Actors \ {r, j} : at'[a] = at[a]
          /\ lock' = lock
    BY <1>3, LaunchIs DEF store
  <2>2. PICK k \in ToLaunch(r) :
          /\ at' = [at EXCEPT ![k] = IF Refused(r, k) THEN "skipped" ELSE "start",
                              ![r] = IF r \in Sequential THEN "await" ELSE "launch"]
          /\ running' = IF r \in Server /\ ~Refused(r, k) THEN running \cup {k} ELSE running
    BY <1>3 DEF Launch
  <2>3. k \in Jobs /\ at[k] = "idle" /\ \A i \in Jobs : i # k => at'[i] = at[i]
    BY <2>2 DEF ToLaunch, JobsOf, JobTypes
  <2>4. k \in running' => Live(k)'
    <3>1. k \notin running  BY <2>3 DEF Waits, Live
    <3>2. k \in running' => at'[k] = "start"  BY <2>2, <2>3, <3>1 DEF JobTypes
    <3> QED  BY <3>2 DEF Live
  <2>5. \A i \in running' : Live(i)'  BY <2>2, <2>3, <2>4 DEF Waits, Live, JobTypes
  <2>6. lock' # None => Inside(lock)'  BY <2>1, <2>3 DEF Waits, Inside
  <2> QED  BY <2>1, <2>5, <2>6 DEF Waits
<1>4. CASE ServerDies
  BY <1>4 DEF ServerDies, Waits, store, Inside
<1>5. CASE UNCHANGED vars
  BY <1>5 DEF vars, store, server, Waits, Inside, Live
<1> QED  BY <1>1, <1>2, <1>3, <1>4, <1>5, Moves

(* A run that is begun always has a next step, of its own or of one of its     *)
(* jobs or of the job that it waits for, until it is over: neither a script    *)
(* that is killed nor a server that dies leaves the flock taken, or a thread   *)
(* waiting for a department.  No step of it depends on a wait being given up.  *)
THEOREM SomebodyCanWork == Spec => []((\E r \in Runs : Active(r)) => CanWork)
<1>1. Init => Waits  BY DEF Init, Waits
<1>2. JobsInv /\ Waits /\ [Next]_vars => Waits'  BY WaitsStep DEF JobsInv
<1>3. ASSUME JobsInv, Waits, NEW r \in Runs, Active(r)
      PROVE  CanWork
  <2>1. CASE \E j \in Jobs : Live(j)
    <3>1. PICK j \in Jobs : Live(j)  BY <2>1
    <3>2. Inside(j) \/ at[j] = "leaving" \/ at[j] \in {"start", "audit"}
      BY <1>3, <3>1 DEF JobsInv, JobTypes, JobSteps, InsideSteps, Live, Inside
    <3>3. JobCanMove(j) \/ (lock \in Jobs /\ JobCanMove(lock))
      BY <1>3, <3>2 DEF Waits, JobCanMove
    <3> QED  BY <3>3 DEF CanWork
  <2>2. CASE \A j \in Jobs : ~Live(j)
    <3>1. at[r] \notin {"idle", "ended"} /\ (Held(r) \/ Inside(r))
      BY <1>3, <2>2 DEF Active, JobsOf
    <3>2. Inside(r) \/ at[r] \in {"look", "init", "launch", "await"}
      BY <1>3, <3>1 DEF JobsInv, JobTypes, RunSteps, InsideSteps, Inside
    <3>3. running = {}  BY <1>3, <2>2 DEF Waits, JobsInv, JobTypes
    <3>4. RunCanMove(r)
      BY <2>2, <3>1, <3>2, <3>3 DEF RunCanMove, DeptsRunning, JobsOf
    <3> QED  BY <3>4 DEF CanWork
  <2> QED  BY <2>1, <2>2
<1>4. JobsInv /\ Waits => ((\E r \in Runs : Active(r)) => CanWork)  BY <1>3
<1> QED  BY <1>1, <1>2, <1>4, JobsInvariant, PTL DEF Spec

-----------------------------------------------------------------------------
(* Work comes to an end. *)

(* How many steps a command has left, and at most how many a job and a run have,
   which launches its jobs one by one and waits after each. *)
StepsLeft(label) ==
  CASE label = "history" -> 5 [] label = "historyTruncate" -> 4 [] label = "historyWrite" -> 3
    [] label = "truncate" -> 2 [] label = "write" -> 1

JobLeft(j) ==
  CASE at[j] = "idle"    -> 14
    [] at[j] = "start"   -> 13
    [] Inside(j)         -> StepsLeft(at[j]) + (IF change[j] = "start" THEN 7 ELSE 1)
    [] at[j] = "audit"   -> 7
    [] at[j] = "leaving" -> 1
    [] OTHER             -> 0

RunLeft(r) ==
  LET jobs == 2 * Cardinality(ToLaunch(r)) IN
  CASE at[r] = "idle"   -> 15 + jobs
    [] at[r] = "look"   -> 14 + jobs
    [] at[r] = "init"   -> 13 + jobs
    [] at[r] = "await"  -> 7 + jobs
    [] at[r] = "launch" -> 6 + jobs
    [] Inside(r)        -> StepsLeft(at[r]) + (IF change[r] = "init" THEN 7 + jobs ELSE 0)
    [] OTHER            -> 0

Counted ==
  /\ \A j \in Jobs : JobLeft(j) \in Nat
  /\ \A r \in Runs : Cardinality(ToLaunch(r)) \in Nat /\ RunLeft(r) \in Nat

Closer ==
  /\ \A j \in Jobs : JobLeft(j)' <= JobLeft(j)
  /\ \A r \in Runs : RunLeft(r)' <= RunLeft(r)
  /\ (\E j \in Jobs : JobLeft(j)' < JobLeft(j)) \/ (\E r \in Runs : RunLeft(r)' < RunLeft(r))

LEMMA LeftIsNat ==
  ASSUME JobTypes
  PROVE  Counted
<1>1. ASSUME NEW a, Inside(a)  PROVE StepsLeft(at[a]) \in Nat
  BY <1>1 DEF Inside, StepsLeft
<1>2. \A j \in Jobs : JobLeft(j) \in Nat  BY <1>1 DEF JobLeft
<1>3. ASSUME NEW r \in Runs  PROVE Cardinality(ToLaunch(r)) \in Nat
  <2>1. IsFiniteSet(ToLaunch(r))  BY RunsAssumption, FS_Subset DEF ToLaunch, JobsOf
  <2> QED  BY <2>1, FS_CardinalityType
<1>4. ASSUME NEW r \in Runs  PROVE RunLeft(r) \in Nat
  BY <1>1, <1>3 DEF RunLeft
<1> QED  BY <1>2, <1>3, <1>4 DEF Counted

(* A step of a job, by the label and the call it goes on with. *)
LEMMA JobCloser ==
  ASSUME JobTypes, NEW j \in Jobs, JobStep(j) \/ Command(j)
  PROVE  /\ JobLeft(j)' < JobLeft(j) /\ at[j] # "idle" /\ at'[j] # "idle"
         /\ \A a \in Actors : a # j => at'[a] = at[a] /\ change'[a] = change[a]
<1> USE JobsAreNotRuns
<1>0. /\ \A a \in Actors : a # j => at'[a] = at[a] /\ change'[a] = change[a]
      /\ Live(j)
  BY JobMovesIs DEF JobMoves, JobStep
<1>1. Inside(j) => change[j] \in {"start", "finish"}  BY DEF JobTypes, CallsOf
<1>2. CASE ReadHistory(j) \/ TruncateHistory(j) \/ WriteHistory(j) \/ Truncate(j)
  <2>1. /\ change'[j] = change[j]
        /\ \/ at[j] = "history" /\ at'[j] = "historyTruncate"
           \/ at[j] = "historyTruncate" /\ at'[j] = "historyWrite"
           \/ at[j] = "historyWrite" /\ at'[j] = "truncate"
           \/ at[j] = "truncate" /\ at'[j] = "write"
    BY <1>2 DEF ReadHistory, TruncateHistory, WriteHistory, Truncate, Goes, JobTypes
  <2> QED  BY <1>0, <2>1 DEF JobLeft, StepsLeft, Inside
<1>3. CASE Write(j)
  <2>1. /\ at[j] = "write" /\ at'[j] = After(j)
    BY <1>3 DEF Write, Goes, JobTypes
  <2>2. \/ change[j] = "start" /\ After(j) \in {"leaving", "audit"}
        \/ change[j] = "finish" /\ After(j) = "leaving"
    BY <1>1, <2>1 DEF After, Inside
  <2> QED  BY <1>0, <2>1, <2>2 DEF JobLeft, StepsLeft, Inside
<1>4. CASE JobStart(j) \/ JobFinish(j)
  <2>1. /\ at'[j] \in {"history", "truncate"}
        /\ (at[j] = "start" /\ change'[j] = "start") \/ (at[j] = "audit" /\ change'[j] = "finish")
    BY <1>4 DEF JobStart, JobFinish, Reads, Goes, JobTypes
  <2> QED  BY <1>0, <2>1 DEF JobLeft, StepsLeft, Inside
<1>5. CASE ScriptEnds(j)
  <2>1. at[j] = "leaving" /\ at'[j] = "ended"  BY <1>5 DEF ScriptEnds, Goes, JobTypes
  <2> QED  BY <1>0, <2>1 DEF JobLeft, Inside
<1> QED  BY <1>2, <1>3, <1>4, <1>5 DEF JobStep, Command

(* A step of a run that launches nothing. *)
LEMMA RunCloser ==
  ASSUME JobTypes, NEW r \in Runs,
         Command(r) \/ Look(r) \/ JobInit(r) \/ Await(r) \/ LaunchedAll(r) \/ Finalize(r)
  PROVE  /\ RunLeft(r)' < RunLeft(r)
         /\ \A a \in Actors : a # r => at'[a] = at[a] /\ change'[a] = change[a]
<1> USE JobsAreNotRuns
<1>1. Inside(r) => change[r] \in {"init", "finalize"}  BY DEF JobTypes, CallsOf
<1>2. /\ \A a \in Actors : a # r => at'[a] = at[a] /\ change'[a] = change[a]
      /\ \/ change'[r] = change[r] /\ at[r] = "history" /\ at'[r] = "historyTruncate"
         \/ change'[r] = change[r] /\ at[r] = "historyTruncate" /\ at'[r] = "historyWrite"
         \/ change'[r] = change[r] /\ at[r] = "historyWrite" /\ at'[r] = "truncate"
         \/ change'[r] = change[r] /\ at[r] = "truncate" /\ at'[r] = "write"
         \/ at[r] = "write" /\ change[r] = "init" /\ at'[r] = "launch"
         \/ at[r] = "write" /\ at'[r] = "ended"
         \/ at[r] = "look" /\ at'[r] \in {"init", "launch"}
         \/ at[r] = "init" /\ at'[r] = "write" /\ change'[r] = "init"
         \/ at[r] = "await" /\ at'[r] = "launch"
         \/ at[r] = "launch" /\ at'[r] = "ended"
         \/ at[r] = "launch" /\ at'[r] \in {"history", "truncate"} /\ change'[r] = "finalize"
  <2>1. CASE ReadHistory(r) \/ TruncateHistory(r) \/ WriteHistory(r) \/ Truncate(r)
    BY <2>1 DEF ReadHistory, TruncateHistory, WriteHistory, Truncate, Goes, JobTypes
  <2>2. CASE Write(r)
    <3>1. /\ at[r] = "write" /\ at' = [at EXCEPT ![r] = After(r)]
          /\ change' = [change EXCEPT ![r] = "none"]
      BY <2>2 DEF Write, Goes
    <3>2. \/ change[r] = "init" /\ After(r) = "launch"
          \/ change[r] = "finalize" /\ After(r) = "ended"
      BY <1>1, <3>1 DEF After, Inside
    <3> QED  BY <3>1, <3>2 DEF JobTypes
  <2>3. CASE Look(r) \/ Await(r) \/ LaunchedAll(r)
    BY <2>3 DEF Look, Await, LaunchedAll, Goes, store, JobTypes
  <2>4. CASE JobInit(r)  BY <2>4 DEF JobInit, Goes, JobTypes
  <2>5. CASE Finalize(r)  BY <2>5 DEF Finalize, Reads, Goes, JobTypes
  <2> QED  BY <2>1, <2>2, <2>3, <2>4, <2>5 DEF Command
<1>3. PICK n \in Nat : n = Cardinality(ToLaunch(r))  BY LeftIsNat DEF Counted
<1>4. ToLaunch(r)' = ToLaunch(r)  BY <1>2 DEF ToLaunch, JobsOf
<1>5. Cardinality(ToLaunch(r))' = n  BY <1>3, <1>4
<1>6. RunLeft(r)' < RunLeft(r)
  BY <1>2, <1>3, <1>5 DEF RunLeft, StepsLeft, Inside
<1> QED  BY <1>2, <1>6

LEMMA LaunchCloser ==
  ASSUME JobTypes, Staged, Known, NEW r \in Runs, Launch(r)
  PROVE  /\ RunLeft(r)' < RunLeft(r)
         /\ \E j \in JobsOf(r) :
              /\ JobLeft(j)' < JobLeft(j)
              /\ \A a \in Actors \ {r, j} : at'[a] = at[a] /\ change'[a] = change[a]
<1> USE JobsAreNotRuns
<1>1. PICK j \in JobsOf(r) :
        /\ at[r] = "launch" /\ at'[r] \in {"await", "launch"}
        /\ at[j] = "idle" /\ at'[j] \in {"skipped", "start"}
        /\ \A a \in Actors \ {r, j} : at'[a] = at[a]
        /\ UNCHANGED change
  BY LaunchIs DEF store
<1>2. j \in ToLaunch(r) /\ j \in Jobs /\ ToLaunch(r)' = ToLaunch(r) \ {j}
  BY <1>1 DEF ToLaunch, JobsOf
<1>3. IsFiniteSet(ToLaunch(r))  BY RunsAssumption, FS_Subset DEF ToLaunch, JobsOf
<1>4. PICK n \in Nat : n = Cardinality(ToLaunch(r))  BY LeftIsNat DEF Counted
<1>5. Cardinality(ToLaunch(r))' = n - 1 /\ n - 1 \in Nat
  <2>1. Cardinality(ToLaunch(r) \ {j}) = n - 1
    BY <1>2, <1>3, <1>4, FS_RemoveElement
  <2>2. Cardinality(ToLaunch(r) \ {j}) \in Nat
    BY <1>3, FS_Subset, FS_CardinalityType
  <2> QED  BY <1>2, <2>1, <2>2
<1>6. RunLeft(r)' < RunLeft(r)
  <2>1. RunLeft(r) = 6 + 2 * n  BY <1>1, <1>4 DEF RunLeft, Inside
  <2>2. CASE at'[r] = "await"
    <3>1. RunLeft(r)' = 7 + 2 * (n - 1)  BY <1>5, <2>2 DEF RunLeft, Inside
    <3> QED  BY <2>1, <3>1
  <2>3. CASE at'[r] = "launch"
    <3>1. RunLeft(r)' = 6 + 2 * (n - 1)  BY <1>5, <2>3 DEF RunLeft, Inside
    <3> QED  BY <2>1, <3>1
  <2> QED  BY <1>1, <2>2, <2>3
<1>7. JobLeft(j)' < JobLeft(j)  BY <1>1 DEF JobLeft, Inside
<1> QED  BY <1>1, <1>6, <1>7

LEMMA WorkCloser ==
  ASSUME JobTypes, Staged, Known, Counted, Counted', Work
  PROVE  Closer
<1> USE JobsAreNotRuns
<1>1. ASSUME NEW j \in Jobs, JobStep(j) \/ Command(j)
      PROVE  Closer
  <2>1. /\ JobLeft(j)' < JobLeft(j) /\ at[j] # "idle" /\ at'[j] # "idle"
        /\ \A a \in Actors : a # j => at'[a] = at[a] /\ change'[a] = change[a]
    BY <1>1, JobCloser
  <2>2. ASSUME NEW k \in Jobs  PROVE JobLeft(k)' <= JobLeft(k)
    <3>1. CASE k = j  BY <2>1, <3>1 DEF Counted
    <3>2. CASE k # j
      <4>1. JobLeft(k)' = JobLeft(k)  BY <2>1, <3>2 DEF JobLeft, Inside
      <4> QED  BY <4>1 DEF Counted
    <3> QED  BY <3>1, <3>2
  <2>3. ASSUME NEW q \in Runs  PROVE RunLeft(q)' <= RunLeft(q)
    <3>1. ToLaunch(q)' = ToLaunch(q)  BY <2>1 DEF ToLaunch, JobsOf
    <3>2. RunLeft(q)' = RunLeft(q)  BY <2>1, <3>1 DEF RunLeft, Inside
    <3> QED  BY <3>2 DEF Counted
  <2> QED  BY <2>1, <2>2, <2>3 DEF Closer
<1>2. ASSUME NEW r \in Runs,
             Command(r) \/ Look(r) \/ JobInit(r) \/ Await(r) \/ LaunchedAll(r) \/ Finalize(r)
      PROVE  Closer
  <2>1. /\ RunLeft(r)' < RunLeft(r)
        /\ \A a \in Actors : a # r => at'[a] = at[a] /\ change'[a] = change[a]
    BY <1>2, RunCloser
  <2>2. ASSUME NEW k \in Jobs  PROVE JobLeft(k)' <= JobLeft(k)
    <3>1. JobLeft(k)' = JobLeft(k)  BY <2>1 DEF JobLeft, Inside
    <3> QED  BY <3>1 DEF Counted
  <2>3. ASSUME NEW q \in Runs  PROVE RunLeft(q)' <= RunLeft(q)
    <3>1. CASE q = r  BY <2>1, <3>1 DEF Counted
    <3>2. CASE q # r
      <4>1. ToLaunch(q)' = ToLaunch(q)  BY <2>1 DEF ToLaunch, JobsOf
      <4>2. RunLeft(q)' = RunLeft(q)  BY <2>1, <3>2, <4>1 DEF RunLeft, Inside
      <4> QED  BY <4>2 DEF Counted
    <3> QED  BY <3>1, <3>2
  <2> QED  BY <2>1, <2>2, <2>3 DEF Closer
<1>3. ASSUME NEW r \in Runs, Launch(r)
      PROVE  Closer
  <2>1. PICK j \in JobsOf(r) :
          /\ RunLeft(r)' < RunLeft(r) /\ JobLeft(j)' < JobLeft(j)
          /\ \A a \in Actors \ {r, j} : at'[a] = at[a] /\ change'[a] = change[a]
    BY <1>3, LaunchCloser
  <2>2. j \in Jobs /\ RunOf[j] = r  BY DEF JobsOf
  <2>3. ASSUME NEW k \in Jobs  PROVE JobLeft(k)' <= JobLeft(k)
    <3>1. CASE k = j  BY <2>1, <3>1 DEF Counted
    <3>2. CASE k # j
      <4>1. JobLeft(k)' = JobLeft(k)  BY <2>1, <3>2 DEF JobLeft, Inside
      <4> QED  BY <4>1 DEF Counted
    <3> QED  BY <3>1, <3>2
  <2>4. ASSUME NEW q \in Runs  PROVE RunLeft(q)' <= RunLeft(q)
    <3>1. CASE q = r  BY <2>1, <3>1 DEF Counted
    <3>2. CASE q # r
      <4>1. ToLaunch(q)' = ToLaunch(q)  BY <2>1, <2>2, <3>2 DEF ToLaunch, JobsOf
      <4>2. RunLeft(q)' = RunLeft(q)  BY <2>1, <2>2, <3>2, <4>1 DEF RunLeft, Inside
      <4> QED  BY <4>2 DEF Counted
    <3> QED  BY <3>1, <3>2
  <2> QED  BY <2>1, <2>3, <2>4 DEF Closer
<1> QED  BY <1>1, <1>2, <1>3 DEF Work, RunStep

(* Every step of Work brings a run or a job closer to its end and none away    *)
(* from it: a number that is bounded by the jobs at hand goes down.  With      *)
(* SomebodyCanWork, the runs that are begun do end, if what can work goes on.  *)
THEOREM WorkEnds == Spec => [][Work => Closer]_vars
<1>1. JobsInv => Counted  BY LeftIsNat DEF JobsInv
<1>2. JobsInv /\ Counted /\ Counted' => (Work => Closer)  BY WorkCloser DEF JobsInv
<1> QED  BY <1>1, <1>2, JobsInvariant, PTL

=============================================================================

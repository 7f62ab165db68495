-------------------------- MODULE RegressionRunner ---------------------------
(***************************************************************************)
(* The portfolio regression (backoffice/regression.py): for one target     *)
(* after the other coverage is tried, the test command is run and a record *)
(* is made of both; then the run is written to a directory named after the *)
(* second it began in, and to the dashboard.  Two may run at a time, each  *)
(* may be killed, and one whose target directory is missing raises.  Both  *)
(* files are rewritten in place: opening one for writing empties it.       *)
(*                                                                         *)
(* A report is the run that wrote it, 0 when there is none.                *)
(***************************************************************************)
EXTENDS Naturals, Sequences, SequencesExt

CONSTANTS
  Suites,         \* sequence of the targets
  Incomplete,     \* those without a name, path or test command
  CoverageKind,   \* target -> "command", "python", "typescript" or "other"
  Workers,        \* processes that run regressions
  MaxRuns,        \* bound on the regressions
  MaxSecond       \* bound on the clock

ASSUME RegressionBoundsAssumption == MaxRuns \in Nat /\ MaxSecond \in Nat \ {0}

VARIABLES
  stamp,          \* the second that names the runs
  runCount,       \* regressions begun
  suiteReport,    \* target -> the coverage report in its directory
  runReport,      \* <<run directory, target>> -> the report in the run's directory
  archive,        \* run directory -> the summary in it
  latest,         \* the summary on the dashboard
  regressing,     \* process -> its regression
  outcome,        \* run -> target -> exit code of its test command (history)
  clashed,        \* two regressions had the same directory (history)
  whole           \* the last to open the dashboard's file wrote it, alone, to its end (history)

regressionVars == <<stamp, runCount, suiteReport, runReport, archive, latest, regressing, outcome,
                    clashed, whole>>

NoRun == [run |-> 0]

(* What is made of a file that is absent, empty or does not parse. *)
NoSummary == [run |-> 0, records |-> [t \in {} |-> 0]]

Complete == Range(Suites) \ Incomplete

Writing == {"archiving", "archived", "publishing"}

(* A target without a name is incomplete; no target has the name of a stage. *)
ASSUME SuitesAssumption == Complete \cap ({""} \cup Writing) = {}

RegressionInit ==
  /\ stamp = 1 /\ runCount = 0
  /\ suiteReport = [t \in Range(Suites) |-> 0]
  /\ runReport = [x \in (1 .. MaxSecond) \X Range(Suites) |-> 0]
  /\ archive = [s \in 1 .. MaxSecond |-> NoSummary]
  /\ latest = NoSummary
  /\ regressing = [w \in Workers |-> NoRun]
  /\ outcome = [n \in 1 .. MaxRuns |-> [t \in Range(Suites) |-> "none"]]
  /\ clashed = FALSE /\ whole = FALSE

-----------------------------------------------------------------------------
(* main with the targets of --only; without any, nothing is done. *)
StartRegression(w, only) ==
  /\ regressing[w] = NoRun /\ runCount < MaxRuns
  /\ runCount' = runCount + 1
  /\ regressing' = [regressing EXCEPT ![w] =
       [run |-> runCount + 1, dir |-> stamp, left |-> SelectSeq(Suites, LAMBDA t : t \in only \ Incomplete),
        at |-> "", coverage |-> 0, records |-> NoSummary.records, alone |-> TRUE]]
  /\ clashed' = \/ clashed
                \/ \E v \in Workers : regressing[v] # NoRun /\ regressing[v].dir = stamp
                \/ archive[stamp] # NoSummary
                \/ \E t \in Range(Suites) : runReport[<<stamp, t>>] # 0
  /\ UNCHANGED <<stamp, suiteReport, runReport, archive, latest, outcome, whole>>

(* Mutant: the report of a python target goes to its directory, too. *)
InRunDirNever(t) == FALSE

InRunDir(t) == CoverageKind[t] = "python"

(* best_effort_coverage: a command that succeeds may not have written the report that is
   read then; one that fails, or times out, leaves the target without coverage. *)
TryCoverage(w, t) ==
  LET r == regressing[w] IN
  /\ r # NoRun /\ r.at = "" /\ r.left # <<>> /\ t = Head(r.left)
  /\ \E wrote \in (IF CoverageKind[t] = "other" THEN {FALSE} ELSE BOOLEAN),
        ok \in (IF CoverageKind[t] = "other" THEN {FALSE} ELSE BOOLEAN) :
       /\ suiteReport' = IF wrote /\ ~InRunDir(t) THEN [suiteReport EXCEPT ![t] = r.run] ELSE suiteReport
       /\ runReport' = IF wrote /\ InRunDir(t) THEN [runReport EXCEPT ![<<r.dir, t>>] = r.run] ELSE runReport
       /\ regressing' = [regressing EXCEPT ![w].at = t, ![w].coverage =
            IF ~ok THEN 0 ELSE IF InRunDir(t) THEN runReport'[<<r.dir, t>>] ELSE suiteReport'[t]]
  /\ UNCHANGED <<stamp, runCount, archive, latest, outcome, clashed, whole>>

(* The test command is the source of truth: 0, or another exit code (124 for a timeout). *)
RunTests(w) ==
  LET r == regressing[w]
      t == r.at
  IN  /\ r # NoRun /\ r.at \in Complete
      /\ \E code \in {"0", "1"} :
           /\ outcome' = [outcome EXCEPT ![r.run][t] = code]
           /\ regressing' = [regressing EXCEPT ![w] =
                [r EXCEPT !.left = Tail(@), !.at = "", !.coverage = 0,
                          !.records = [x \in DOMAIN @ \cup {t} |->
                             IF x = t THEN [passed |-> code = "0", coverage |-> r.coverage] ELSE @[x]]]]
      /\ UNCHANGED <<stamp, runCount, suiteReport, runReport, archive, latest, clashed, whole>>

Summary(r) == [run |-> r.run, records |-> r.records]

(* The others that have the file open that w writes at this stage. *)
WriteToo(w, stage) ==
  {v \in Workers \ {w} :
     /\ regressing[v] # NoRun /\ regressing[v].at = stage
     /\ stage = "archiving" => regressing[v].dir = regressing[w].dir}

(* open("w") empties the file, whoever is filling it. *)
OpensFile(w, stage) ==
  regressing' = [v \in Workers |->
                   IF v = w THEN [regressing[w] EXCEPT !.at = stage, !.alone = (WriteToo(w, stage) = {})]
                   ELSE IF v \in WriteToo(w, stage) THEN [regressing[v] EXCEPT !.alone = FALSE]
                   ELSE regressing[v]]

(* json.dump fills it; what two write at once may not parse. *)
Written(r) == IF r.alone THEN {Summary(r)} ELSE {Summary(r), NoSummary}

(* regression.json of the run, then the payload of the dashboard; the exit code is 1 if
   a test has failed. *)
TruncateArchive(w) ==
  LET r == regressing[w] IN
  /\ r # NoRun /\ r.at = "" /\ r.left = <<>>
  /\ archive' = [archive EXCEPT ![r.dir] = NoSummary]
  /\ OpensFile(w, "archiving")
  /\ UNCHANGED <<stamp, runCount, suiteReport, runReport, latest, outcome, clashed, whole>>

FillArchive(w) ==
  LET r == regressing[w] IN
  /\ r # NoRun /\ r.at = "archiving"
  /\ \E s \in Written(r) : archive' = [archive EXCEPT ![r.dir] = s]
  /\ regressing' = [regressing EXCEPT ![w].at = "archived"]
  /\ UNCHANGED <<stamp, runCount, suiteReport, runReport, latest, outcome, clashed, whole>>

TruncateLatest(w) ==
  LET r == regressing[w] IN
  /\ r # NoRun /\ r.at = "archived"
  /\ latest' = NoSummary
  /\ OpensFile(w, "publishing")
  /\ UNCHANGED <<stamp, runCount, suiteReport, runReport, archive, outcome, clashed, whole>>

FillLatest(w) ==
  LET r == regressing[w] IN
  /\ r # NoRun /\ r.at = "publishing"
  /\ latest' \in Written(r)
  /\ whole' = r.alone
  /\ regressing' = [regressing EXCEPT ![w] = NoRun]
  /\ UNCHANGED <<stamp, runCount, suiteReport, runReport, archive, outcome, clashed>>

(* Killed, or a directory that is not there: a file that is open stays as it is. *)
RegressionAborts(w) ==
  LET r == regressing[w] IN
  /\ r # NoRun
  /\ whole' = (whole /\ r.at # "publishing")
  /\ regressing' = [regressing EXCEPT ![w] = NoRun]
  /\ UNCHANGED <<stamp, runCount, suiteReport, runReport, archive, latest, outcome, clashed>>

NextSecond ==
  /\ stamp < MaxSecond
  /\ stamp' = stamp + 1
  /\ UNCHANGED <<runCount, suiteReport, runReport, archive, latest, regressing, outcome, clashed,
                 whole>>

RegressionNext ==
  \/ NextSecond
  \/ \E w \in Workers :
       \/ \E only \in SUBSET Range(Suites) \ {{}} : StartRegression(w, only)
       \/ \E t \in Complete : TryCoverage(w, t)
       \/ RunTests(w) \/ TruncateArchive(w) \/ FillArchive(w)
       \/ TruncateLatest(w) \/ FillLatest(w) \/ RegressionAborts(w)

-----------------------------------------------------------------------------
Publishing == \E w \in Workers : regressing[w] # NoRun /\ regressing[w].at = "publishing"

(* What the dashboard shows, if it parses, is one regression, and the one its directory
   holds unless two began in the same second: a target is shown as passed if and only if
   its test command exited with 0 in that regression, whatever its coverage command did,
   and the coverage of a python target was measured by that regression.  It does parse
   once the last regression to write it did so alone and was not killed as it did. *)
LatestIsHonest ==
  /\ \A t \in DOMAIN latest.records :
       /\ latest.records[t].passed = (outcome[latest.run][t] = "0")
       /\ CoverageKind[t] = "python" /\ ~clashed => latest.records[t].coverage \in {0, latest.run}
  /\ latest # NoSummary /\ ~clashed => latest \in {archive[s] : s \in DOMAIN archive}
  /\ whole => latest # NoSummary \/ Publishing

=============================================================================

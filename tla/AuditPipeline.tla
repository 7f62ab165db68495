---------------------------- MODULE AuditPipeline ----------------------------
(***************************************************************************)
(* From the audits of the targets to the dashboard: the workflow commands  *)
(* (backoffice/workflow.py), the aggregation of the findings files         *)
(* (aggregate.py) and the backlog (backlog.py).  run-target and run-all    *)
(* hold the run lock, scan, and refresh the dashboard when every target    *)
(* succeeded; refresh takes no lock.  A refresh is one stage after the     *)
(* other, each of which reads the results and writes its payload; a        *)
(* finding it cannot normalise ends it.  Payloads and the backlog are      *)
(* rewritten in place: opening a file for writing empties it, and a        *)
(* command may die before it has filled it again.                          *)
(*                                                                         *)
(* A findings file is [scan, found]: the number of the scan that wrote it  *)
(* and how often it lists each hash of what Aggregate makes of it.         *)
(***************************************************************************)
EXTENDS Naturals, Sequences, FiniteSets, SequencesExt

CONSTANTS
  Commands,     \* processes that run a workflow command
  Audited,      \* the targets
  Depts,        \* sequence of departments a run audits
  Findings,     \* hashes of findings
  Listings,     \* what a findings file may hold: hash -> how often it is listed
  Refused,      \* those normalize_finding raises on
  MaxScans,     \* bound on the department scans
  MaxCount,     \* bound on what a merge finds counted in the backlog
  MaxOverlaps   \* bound on the refreshes that begin during another

ASSUME DeptsAssumption == Depts \in Seq(STRING) /\ Depts # <<>>
ASSUME ListingsAssumption == Listings \subseteq [Findings -> Nat]

VARIABLES
  results,      \* <<repo, department>> -> findings file
  board,        \* stage -> repo -> the newest scan its payload shows
  backlog,      \* hash -> audit_count
  command,      \* process -> where it is
  runLock,      \* the process that holds the run lock, or "none"
  scans,        \* how many department scans there have been
  owed,         \* stage -> repo -> the scan a command that returned 0 refreshed (history)
  cut,          \* payloads that a command died writing, and none has written since (history)
  merged,       \* <<repo, department, hash>> -> how often it was listed in a merge, since a
                \* command last died writing the backlog (history)
  crossed       \* how many refreshes began during another (history)

pipelineVars == <<results, board, backlog, command, runLock, scans, owed, cut, merged, crossed>>

-----------------------------------------------------------------------------
(* The stages of a refresh, in order: one payload for each department (privacy is made
   of the compliance findings in the same way), the backlog, and what is made of all
   the results: delivery data and the audit log, one after the other. *)
Stages == Depts \o <<"backlog", "audit log">>

Payloads == Range(Stages) \ {"backlog"}

SourceOf(stage) == IF stage \in Range(Depts) THEN {stage} ELSE Range(Depts)

NoFile == [scan |-> 0, found |-> [h \in Findings |-> 0]]

Entries == Audited \X Range(Depts) \X Findings

(* What is made of a file that is absent, empty or does not parse. *)
EmptyBoard == [r \in Audited |-> 0]
EmptyBacklog == [e \in {} |-> 0]

NotRunning == [step |-> "none"]

PipelineInit ==
  /\ results = [f \in Audited \X Range(Depts) |-> NoFile]
  /\ board = [s \in Payloads |-> EmptyBoard]
  /\ backlog = EmptyBacklog
  /\ command = [c \in Commands |-> NotRunning]
  /\ runLock = "none"
  /\ scans = 0
  /\ owed = board
  /\ cut = {}
  /\ merged = [e \in Entries |-> 0]
  /\ crossed = 0

-----------------------------------------------------------------------------
(* The newest scan that a stage read of a repository. *)
NewestScan(r, stage) ==
  LET read == {results[<<r, d>>].scan : d \in SourceOf(stage)}
  IN  CHOOSE s \in read : \A t \in read : t <= s

Running(c) == command[c].step # "none"

Refreshing(c) == command[c].step \in {"read", "write", "fill"}

(* found: what it will merge; alone: no other has the file it fills open; due: what the
   results held when it began. *)
RefreshStep == [step |-> "read", at |-> 1, found |-> [e \in Entries |-> 0], buffer |-> <<>>,
                alone |-> TRUE, due |-> [s \in Payloads |-> [r \in Audited |-> NewestScan(r, s)]]]

(* A refresh begins, alone or during another. *)
BeginsRefresh(c) ==
  /\ command' = [command EXCEPT ![c] = RefreshStep]
  /\ IF \E x \in Commands \ {c} : Refreshing(x)
     THEN crossed < MaxOverlaps /\ crossed' = crossed + 1
     ELSE UNCHANGED crossed

(* run-target and run-all: the lock is taken or the command fails; the departments of a
   target run one after the other, the targets of run-all in threads. *)
StartRun(c, targets) ==
  /\ ~Running(c) /\ runLock = "none"
  /\ runLock' = c
  /\ command' = [command EXCEPT ![c] = [step |-> "scan", left |-> [r \in targets |-> Depts],
                                        failed |-> FALSE]]
  /\ UNCHANGED <<results, board, backlog, scans, owed, cut, merged, crossed>>

(* What the script of a department leaves, through a command or started by the dashboard
   server, which takes no lock: a findings file. *)
Scans(f) ==
  /\ scans < MaxScans
  /\ \E found \in Listings : results' = [results EXCEPT ![f] = [scan |-> scans + 1, found |-> found]]
  /\ scans' = scans + 1

ServerScans(f) ==
  /\ Scans(f)
  /\ UNCHANGED <<board, backlog, command, runLock, owed, cut, merged, crossed>>

(* The script writes the file, or fails, which is the end of its target. *)
RunDepartment(c, r) ==
  /\ command[c].step = "scan" /\ r \in DOMAIN command[c].left /\ command[c].left[r] # <<>>
  /\ \/ /\ Scans(<<r, Head(command[c].left[r])>>)
        /\ command' = [command EXCEPT ![c].left[r] = Tail(@)]
     \/ /\ command' = [command EXCEPT ![c].left[r] = <<>>, ![c].failed = TRUE]
        /\ UNCHANGED <<results, scans>>
  /\ UNCHANGED <<board, backlog, runLock, owed, cut, merged, crossed>>

TargetsDone(run) == \A r \in DOMAIN run.left : run.left[r] = <<>>

(* With a failed target there is no refresh. *)
EndScans(c) ==
  /\ command[c].step = "scan" /\ TargetsDone(command[c])
  /\ IF command[c].failed
     THEN command' = [command EXCEPT ![c] = NotRunning] /\ runLock' = "none" /\ UNCHANGED crossed
     ELSE BeginsRefresh(c) /\ UNCHANGED runLock
  /\ UNCHANGED <<results, board, backlog, scans, owed, cut, merged>>

StartRefresh(c) ==
  /\ ~Running(c)
  /\ BeginsRefresh(c)
  /\ UNCHANGED <<results, board, backlog, runLock, scans, owed, cut, merged>>

Released(c) == runLock' = IF runLock = c THEN "none" ELSE runLock

(* Mutant: the error is logged, and the command goes on to return 0. *)
SwallowsError(run) == [run EXCEPT !.at = Len(Stages) + 1]

(* What an error in a stage comes to: it ends the command. *)
EndsInError(run) == NotRunning

(* A payload: every repository is read, and nothing is written if one cannot be
   normalised; the later stages take the findings as they are. *)
ReadPayload(c) ==
  LET run == command[c]
      stage == Stages[run.at]
      Listed(e) == results[<<e[1], e[2]>>].found[e[3]]
  IN  /\ run.step = "read" /\ run.at <= Len(Stages) /\ stage # "backlog"
      /\ IF \E e \in Entries : e[2] = stage /\ e[3] \in Refused /\ Listed(e) > 0
         THEN command' = [command EXCEPT ![c] = EndsInError(run)] /\ Released(c)
         ELSE /\ command' = [command EXCEPT ![c] =
                   [run EXCEPT !.step = "write", !.buffer = [r \in Audited |-> NewestScan(r, stage)],
                               !.found = [e \in Entries |-> IF e[2] = stage THEN Listed(e) ELSE @[e]]]]
              /\ UNCHANGED runLock
      /\ UNCHANGED <<results, board, backlog, scans, owed, cut, merged, crossed>>

(* Mutant: only what was found this time is kept. *)
UpsertCurrent(old, found) ==
  [e \in {x \in Entries : found[x] > 0} |-> (IF e \in DOMAIN old THEN old[e] ELSE 0) + found[e]]

(* merge_backlog: every listing counts, of what is known and of what is new, and what is
   not in the scans stays. *)
Upsert(old, found) ==
  [e \in DOMAIN old \cup {x \in Entries : found[x] > 0} |->
     (IF e \in DOMAIN old THEN old[e] ELSE 0) + found[e]]

ReadBacklog(c) ==
  LET run == command[c] IN
  /\ run.step = "read" /\ run.at <= Len(Stages) /\ Stages[run.at] = "backlog"
  /\ \A e \in DOMAIN backlog : backlog[e] < MaxCount
  /\ command' = [command EXCEPT ![c] =
                   [run EXCEPT !.step = "write", !.buffer = Upsert(backlog, run.found)]]
  /\ UNCHANGED <<results, board, backlog, runLock, scans, owed, cut, merged, crossed>>

(* The others that have the file open that c writes. *)
FillToo(c) == {x \in Commands \ {c} : command[x].step = "fill" /\ command[x].at = command[c].at}

(* open("w") empties the file, whoever is filling it. *)
Truncate(c) ==
  LET run == command[c] IN
  /\ run.step = "write"
  /\ command' = [x \in Commands |->
                   IF x = c THEN [run EXCEPT !.step = "fill", !.alone = (FillToo(c) = {})]
                   ELSE IF x \in FillToo(c) THEN [command[x] EXCEPT !.alone = FALSE]
                   ELSE command[x]]
  /\ IF Stages[run.at] = "backlog"
     THEN backlog' = EmptyBacklog /\ UNCHANGED board
     ELSE board' = [board EXCEPT ![Stages[run.at]] = EmptyBoard] /\ UNCHANGED backlog
  /\ UNCHANGED <<results, runLock, scans, owed, cut, merged, crossed>>

(* json.dump fills the file; what two write at once may not parse. *)
Lands(run, empty) == IF run.alone THEN {run.buffer} ELSE {run.buffer, empty}

NextStage(run) == [run EXCEPT !.step = "read", !.at = @ + 1, !.buffer = <<>>, !.alone = TRUE]

FillPayload(c) ==
  LET run == command[c] IN
  /\ run.step = "fill" /\ Stages[run.at] # "backlog"
  /\ \E payload \in Lands(run, EmptyBoard) : board' = [board EXCEPT ![Stages[run.at]] = payload]
  /\ cut' = cut \ {Stages[run.at]}
  /\ command' = [command EXCEPT ![c] = NextStage(run)]
  /\ UNCHANGED <<results, backlog, runLock, scans, owed, merged, crossed>>

FillBacklog(c) ==
  LET run == command[c] IN
  /\ run.step = "fill" /\ Stages[run.at] = "backlog"
  /\ backlog' \in Lands(run, EmptyBacklog)
  /\ merged' = [e \in Entries |-> merged[e] + run.found[e]]
  /\ command' = [command EXCEPT ![c] = NextStage(run)]
  /\ UNCHANGED <<results, board, runLock, scans, owed, cut, crossed>>

(* The command returns 0. *)
EndRefresh(c) ==
  LET run == command[c] IN
  /\ run.step = "read" /\ run.at > Len(Stages)
  /\ command' = [command EXCEPT ![c] = NotRunning]
  /\ Released(c)
  /\ owed' = run.due
  /\ UNCHANGED <<results, board, backlog, scans, cut, merged, crossed>>

(* A file that is being written stays empty, or half filled, which parses no better. *)
CommandDies(c) ==
  LET run == command[c]
      file == IF run.step = "fill" THEN {Stages[run.at]} ELSE {}
  IN  /\ Running(c)
      /\ command' = [command EXCEPT ![c] = NotRunning]
      /\ Released(c)
      /\ cut' = cut \cup (file \ {"backlog"})
      /\ merged' = IF "backlog" \in file THEN [e \in Entries |-> 0] ELSE merged
      /\ UNCHANGED <<results, board, backlog, scans, owed, crossed>>

PipelineNext ==
  \/ \E f \in Audited \X Range(Depts) : ServerScans(f)
  \/ \E c \in Commands :
       \/ \E targets \in SUBSET Audited \ {{}} : StartRun(c, targets)
       \/ \E r \in Audited : RunDepartment(c, r)
       \/ EndScans(c) \/ StartRefresh(c)
       \/ ReadPayload(c) \/ ReadBacklog(c)
       \/ Truncate(c) \/ FillPayload(c) \/ FillBacklog(c)
       \/ EndRefresh(c) \/ CommandDies(c)

-----------------------------------------------------------------------------
Filling(stage) == \E c \in Commands : command[c].step = "fill" /\ Stages[command[c].at] = stage

(* When a command has returned 0 every payload shows the scans that preceded its
   refresh or later ones.  No later command that fails takes that back, and one that is
   killed does so only of the payload it was writing, until the next command writes it;
   unless refreshes overlapped, of which the one that read first may write last. *)
BoardKeepsUp ==
  crossed = 0 =>
    \A s \in Payloads \ cut : Filling(s) \/ \A r \in Audited : board[s][r] >= owed[s][r]

(* A finding that was merged into the backlog stays there, and its count is that of its
   listings in the refreshes, through scans that no longer list it, failed refreshes and
   killed ones: what loses it is a command that dies between emptying the file and
   filling it, from which on all counts begin again, or two refreshes at once. *)
BacklogKeepsHistory ==
  crossed = 0 =>
    \/ Filling("backlog")
    \/ /\ DOMAIN backlog = {e \in Entries : merged[e] > 0}
       /\ \A e \in DOMAIN backlog : backlog[e] = merged[e]

=============================================================================

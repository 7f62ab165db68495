----------------------------- MODULE SafeApply ------------------------------
(***************************************************************************)
(* The safe-apply framework (backoffice/apply/) on one target repository.  *)
(* An invocation (the apply command, or the dashboard's apply-fix handler  *)
(* for one finding) selects findings and attempts them one after the       *)
(* other: a worktree on a branch of its own, a verification, the fix, a    *)
(* second verification, then a commit, a rollback or nothing, and an audit *)
(* event.  Invocations are processes of their own and take no lock; the    *)
(* operator works in the target repository meanwhile.                      *)
(***************************************************************************)
EXTENDS Policy, FiniteSets, Naturals, Sequences

CONSTANTS
  Trunk,       \* the target's default branch
  Runs,        \* invocations
  Args,        \* invocation -> its possible requests: [apply, dry, only, tool, floor, max]
  Autonomies,  \* autonomy records the target may be configured with
  AiFile,      \* findings.json, a sequence of findings
  ToolFile,    \* qa-deterministic-findings.json
  Commands,    \* the checks the target configures, of "lint" and "tests"
  None,        \* no value
  MaxFaults    \* bound on deaths, refusals of git and failures of the audit log

ASSUME CommandsAssumption == Commands \subseteq {"lint", "tests"}
ASSUME FaultBoundAssumption == MaxFaults \in Nat

(* rank is the place of the severity in the order of severities. *)
ASSUME FilesAssumption ==
  {AiFile, ToolFile} \subseteq
    Seq([id : STRING, tool : STRING, fixable : BOOLEAN, rank : Nat, category : STRING])

(* No negative --max-changes, which would count from the end of the batch. *)
ASSUME RequestsAssumption ==
  /\ \A r \in Runs : \A args \in Args[r] : args.max \in Nat
  /\ \A a \in Autonomies : a.max_changes_per_cycle \in Nat

-----------------------------------------------------------------------------
(* Findings: the AI audit's, then the tools', without the ids seen before. *)

AllFindings == AiFile \o ToolFile

(* The elements of S in the order that before, a set of pairs, puts them in: each
   after as many as are before it. *)
InOrder(S, before) ==
  [k \in 1 .. Cardinality(S) |->
     CHOOSE i \in S : Cardinality({j \in S : <<j, i>> \in before}) = k - 1]

Earlier == {p \in (1 .. Len(AllFindings)) \X (1 .. Len(AllFindings)) : p[1] < p[2]}

Fresh ==
  {i \in 1 .. Len(AllFindings) :
     AllFindings[i].id = "" \/ \A j \in 1 .. i - 1 : AllFindings[j].id # AllFindings[i].id}

Loaded == [k \in 1 .. Cardinality(Fresh) |-> AllFindings[InOrder(Fresh, Earlier)[k]]]

Findings == DOMAIN Loaded

Matches(i, args) ==
  /\ args.tool = "" \/ Loaded[i].tool = args.tool
  /\ Loaded[i].rank <= args.floor
  /\ Loaded[i].category # "scanner-status"

Cut(s, n) == SubSeq(s, 1, IF Len(s) < n THEN Len(s) ELSE n)

(* The most severe first, in file order within a severity. *)
BySeverity ==
  {p \in Findings \X Findings :
     \/ Loaded[p[1]].rank < Loaded[p[2]].rank
     \/ Loaded[p[1]].rank = Loaded[p[2]].rank /\ p[1] < p[2]}

(* max_changes: the command line's, else the autonomy's, else 3; 0 is no value. *)
Cap(args, a) ==
  IF args.max # 0 THEN args.max
  ELSE IF a.max_changes_per_cycle # 0 THEN a.max_changes_per_cycle ELSE 3

(* Mutant: every matching finding is attempted. *)
SelectUncut(args, a) == InOrder({i \in Findings : Matches(i, args)}, BySeverity)

Select(args, a) ==
  IF args.only # ""
  THEN InOrder({i \in Findings : Loaded[i].id = args.only}, Earlier)
  ELSE Cut(InOrder({i \in Findings : Matches(i, args)}, BySeverity), Cap(args, a))

Deterministic == {"ruff", "npm-audit", "semgrep"}

Strategy(f) ==
  IF ~f.fixable THEN "manual"
  ELSE IF f.tool \in Deterministic THEN f.tool ELSE "ai-delegate"

-----------------------------------------------------------------------------
Attempts == Runs \X Findings

Kept == {"applied", "applied-uncommitted"}

ASSUME NamesAssumption ==
  /\ \A a \in Attempts : a # Trunk
  /\ None \notin Kept \cup {"skipped", "dry-run", "rolled-back", "failed"}

VARIABLES
  autonomy,   \* the target's policy
  head,       \* the branch the operator has checked out there
  refs,       \* existing branch -> the fixes committed on it; an attempt names its branch
  worktrees,  \* attempts whose worktree is registered with git
  run,        \* invocation -> its progress
  log,        \* audit events: <<attempt, status>>
  outcome,    \* attempt -> the status apply_finding returned, or None (history)
  regressions,\* attempts whose second verification found a regression (history)
  stranded,   \* attempts cut off by a death, or whose removal git refused (history)
  faults

repoVars == <<head, refs, worktrees>>
history == <<outcome, regressions, stranded>>
vars == <<autonomy, head, refs, worktrees, run, log, outcome, regressions, stranded, faults>>

(* status, passed, base, where: of the current attempt, the status it will return,
   the checks that passed before the fix, the branch that was checked out when it
   began, and the clause of apply_finding's try statement it is in. *)
NotStarted == [pc |-> "new", args |-> None, todo |-> <<>>,
               status |-> None, passed |-> {}, base |-> Trunk, where |-> "outside"]

Init ==
  /\ autonomy \in Autonomies
  /\ head = Trunk
  /\ refs = [b \in {Trunk} |-> {}]
  /\ worktrees = {}
  /\ run = [r \in Runs |-> NotStarted]
  /\ log = {}
  /\ outcome = [a \in Attempts |-> None]
  /\ regressions = {}
  /\ stranded = {}
  /\ faults = 0

-----------------------------------------------------------------------------
Attempt(r) == <<r, Head(run[r].todo)>>

Active(r) == run[r].pc \notin {"new", "done", "dead"}

At(r, pc) == run[r].pc = pc

Goto(r, pc) == run' = [run EXCEPT ![r].pc = pc]

Ends(r, pc, status) == run' = [run EXCEPT ![r].pc = pc, ![r].status = status]

Real(args) == args.apply /\ ~args.dry

Fault == /\ faults < MaxFaults
         /\ faults' = faults + 1

NoFault == UNCHANGED faults

Without(f, b) == [x \in DOMAIN f \ {b} |-> f[x]]

(* handle_apply_cli, and the apply-fix handler, which asks for one finding.  The gate
   looks at the operator's uncommitted changes once, and stops a real run only;
   --dry-run wins over --apply. *)
Start(r, args, clean) ==
  /\ At(r, "new")
  /\ LET todo   == Select(args, autonomy)
         denied == Real(args) /\ ~FixGate(autonomy, clean)
     IN  run' = [run EXCEPT ![r] =
                   [NotStarted EXCEPT !.args = args,
                                      !.todo = todo,
                                      !.pc = IF denied \/ todo = <<>> THEN "done" ELSE "resolve"]]
  /\ UNCHANGED <<autonomy, repoVars, log, history, faults>>

(* The strategy: a manual one is skipped, and so is delegation to an agent, which is
   refused by the budget or else not implemented. *)
Resolve(r) ==
  /\ At(r, "resolve")
  /\ LET s == Strategy(Loaded[Head(run[r].todo)])
     IN  IF s \in Deterministic
         THEN run' = [run EXCEPT ![r].pc = "make", ![r].base = head]
         ELSE Ends(r, "record", "skipped")
  /\ UNCHANGED <<autonomy, repoVars, log, history, faults>>

(* git worktree add -b.  Should it fail, the branch may have been made already. *)
MakeWorktree(r) ==
  LET a == Attempt(r)
      Branched == refs' = [b \in DOMAIN refs \cup {a} |->
                             IF b = a THEN refs[run[r].base] ELSE refs[b]]
      based == run[r].base \in DOMAIN refs
  IN /\ At(r, "make")
     /\ \/ /\ based
           /\ Branched
           /\ worktrees' = worktrees \cup {a}
           /\ run' = [run EXCEPT ![r].pc = "before", ![r].where = "try"]
           /\ NoFault
           /\ UNCHANGED stranded
        \/ /\ based /\ Fault /\ Branched /\ stranded' = stranded \cup {a}
           /\ Ends(r, "record", "failed")
           /\ UNCHANGED worktrees
        \/ /\ IF based THEN Fault ELSE NoFault
           /\ Ends(r, "record", "failed")
           /\ UNCHANGED <<refs, worktrees, stranded>>
     /\ UNCHANGED <<autonomy, head, log, outcome, regressions>>

(* verify: a check that is not configured is None, one that cannot run or takes
   more than 600 s is False. *)
VerifyBefore(r) ==
  /\ At(r, "before")
  /\ \E passed \in SUBSET Commands :
       run' = [run EXCEPT ![r].pc = "apply", ![r].passed = passed]
  /\ UNCHANGED <<autonomy, repoVars, log, history, faults>>

(* The strategy changes files, or it fails or changes none. *)
ApplyFix(r) ==
  /\ At(r, "apply")
  /\ Goto(r, "after") \/ Ends(r, "remove", "failed")
  /\ UNCHANGED <<autonomy, repoVars, log, history, faults>>

(* Mutant: the tests are not compared. *)
RegressedLintOnly(before, after) == "lint" \in before \ after

Regressed(before, after) == before \ after # {}

(* The second verification, and what apply_finding makes of it. *)
VerifyAfter(r) ==
  /\ At(r, "after")
  /\ \E passed \in SUBSET Commands :
       LET worse == Regressed(run[r].passed, passed)
       IN  /\ regressions' = IF run[r].passed \subseteq passed THEN regressions
                             ELSE regressions \cup {Attempt(r)}
           /\ IF ~Real(run[r].args) THEN Ends(r, "remove", "dry-run")
              ELSE IF worse THEN Ends(r, "remove", "rolled-back")
              ELSE IF ~CommitGate(autonomy) THEN Ends(r, "record", "applied-uncommitted")
              ELSE Goto(r, "commit")
  /\ UNCHANGED <<autonomy, repoVars, log, outcome, stranded, faults>>

(* git add -A and git commit, which a hook may refuse. *)
Commit(r) ==
  /\ At(r, "commit")
  /\ \/ /\ refs' = [refs EXCEPT ![Attempt(r)] = @ \cup {Attempt(r)}]
        /\ Ends(r, "remove", "applied")
     \/ Ends(r, "remove", "rolled-back") /\ UNCHANGED refs
  /\ UNCHANGED <<autonomy, head, worktrees, log, history, faults>>

(* Mutant: the branch is kept whatever the outcome. *)
DeletesNever(r) == FALSE

(* The branch outlives its worktree only when the fix is committed on it. *)
DeletesBranch(r) == run[r].status # "applied"

(* git worktree remove --force, then rmtree.  What git refused stays registered. *)
RemoveWorktree(r) ==
  /\ At(r, "remove")
  /\ \/ worktrees' = worktrees \ {Attempt(r)} /\ NoFault /\ UNCHANGED stranded
     \/ Fault /\ stranded' = stranded \cup {Attempt(r)} /\ UNCHANGED worktrees
  /\ Goto(r, IF DeletesBranch(r) THEN "delete" ELSE "record")
  /\ UNCHANGED <<autonomy, head, refs, log, outcome, regressions>>

(* git branch -D spares a branch that is checked out anywhere. *)

CheckedOut(a) == a = head \/ a \in worktrees

DeleteBranch(r) ==
  LET a == Attempt(r)
  IN /\ At(r, "delete")
     /\ refs' = IF CheckedOut(a) THEN refs ELSE Without(refs, a)
     /\ stranded' = IF CheckedOut(a) THEN stranded \cup {a} ELSE stranded
     /\ Goto(r, "record")
     /\ UNCHANGED <<autonomy, head, worktrees, log, outcome, regressions, faults>>

-----------------------------------------------------------------------------
(* The attempt returns its outcome and the loop goes on; after the last finding
   the summary of the run is written. *)
NextFinding(r) ==
  /\ outcome' = [outcome EXCEPT ![Attempt(r)] = run[r].status]
  /\ LET rest == Tail(run[r].todo)
     IN  run' = [run EXCEPT ![r].todo = rest, ![r].status = None, ![r].passed = {},
                            ![r].where = "outside", ![r].base = Trunk,
                            ![r].pc = IF rest = <<>> THEN "done" ELSE "resolve"]

(* _record: the event is appended, or dropped when the append fails. *)
Record(r) ==
  /\ At(r, "record")
  /\ \/ log' = log \cup {<<Attempt(r), run[r].status>>} /\ NoFault
     \/ Fault /\ UNCHANGED log
  /\ NextFinding(r)
  /\ UNCHANGED <<autonomy, repoVars, regressions, stranded>>

(* An exception in the try clause, which the rotation of the log in _record can
   raise too: the worktree and the branch are removed, whatever is on it. *)
Raise(r) ==
  /\ run[r].where = "try"
  /\ run[r].pc \in {"before", "apply", "after", "commit", "record"}
  /\ Fault
  /\ run' = [run EXCEPT ![r].pc = "remove", ![r].status = "failed", ![r].where = "except"]
  /\ UNCHANGED <<autonomy, repoVars, log, history>>

(* An exception in _record outside of it ends the invocation. *)
RecordRaises(r) ==
  /\ At(r, "record")
  /\ run[r].where # "try"
  /\ Fault
  /\ run' = [run EXCEPT ![r] = [NotStarted EXCEPT !.pc = "done", !.args = run[r].args]]
  /\ UNCHANGED <<autonomy, repoVars, log, history>>

Dies(r) ==
  /\ Active(r)
  /\ Fault
  /\ stranded' = stranded \cup {Attempt(r)}
  /\ run' = [run EXCEPT ![r] = [NotStarted EXCEPT !.pc = "dead", !.args = run[r].args]]
  /\ UNCHANGED <<autonomy, repoVars, log, outcome, regressions>>

-----------------------------------------------------------------------------
(* The operator, in the target repository: git refuses to check out a branch
   that is checked out in a worktree. *)
OperatorChecksOut(b) ==
  /\ b \in DOMAIN refs \ (worktrees \cup {head})
  /\ head' = b
  /\ UNCHANGED <<autonomy, refs, worktrees, run, log, history, faults>>

Step(r) ==
  \/ Resolve(r) \/ MakeWorktree(r) \/ VerifyBefore(r) \/ ApplyFix(r) \/ VerifyAfter(r)
  \/ Commit(r) \/ RemoveWorktree(r) \/ DeleteBranch(r) \/ Record(r)
  \/ Raise(r) \/ RecordRaises(r)

Next ==
  \/ \E r \in Runs : Step(r) \/ Dies(r)
  \/ \E r \in Runs : \E args \in Args[r], clean \in {"true", "false"} : Start(r, args, clean)
  \/ \E b \in Attempts \cup {Trunk} : OperatorChecksOut(b)

Spec == Init /\ [][Next]_vars

-----------------------------------------------------------------------------
UnderWay == {Attempt(r) : r \in {x \in Runs : Active(x)}}

(* Whatever an attempt ran into, once it is over the target repository holds a
   branch for it only if it returned applied or applied-uncommitted, and a
   worktree only in the second case; a death in the middle, or a removal git
   refuses, is the one excuse. *)
NothingLeftBehind ==
  \A a \in Attempts \ (UnderWay \cup stranded) :
    /\ a \in DOMAIN refs <=> outcome[a] \in Kept
    /\ a \in worktrees <=> outcome[a] = "applied-uncommitted"

(* A fix that is reported as applied, to the caller or in the audit log, is
   committed on a branch that still exists, worsened no check, and was made by a
   real run of a target that allows fixes and commits. *)
AppliedIsCommitted ==
  \A a \in Attempts :
    (outcome[a] = "applied" \/ <<a, "applied">> \in log) =>
      /\ a \in DOMAIN refs
      /\ a \in refs[a]
      /\ a \notin regressions
      /\ Real(run[a[1]].args) /\ autonomy.allow_fix /\ autonomy.allow_auto_commit

Attempted(r) == {i \in Findings : outcome[<<r, i>>] # None}

(* A batch leaves at most as many fixes as the command line or the policy allows,
   of findings the command asked for, and never attempts a finding while a more
   severe one that was asked for is passed over. *)
BatchKeepsToRequest ==
  \A r \in Runs :
    (Attempted(r) # {} /\ run[r].args.only = "") =>
      LET asked == {i \in Findings : Matches(i, run[r].args)}
      IN  /\ Attempted(r) \subseteq asked
          /\ Cardinality(Attempted(r)) <= Cap(run[r].args, autonomy)
          /\ \A i \in Attempted(r), j \in asked \ Attempted(r) : Loaded[i].rank <= Loaded[j].rank

-----------------------------------------------------------------------------
(* What shows of the attempts: all but those under way and those broken off. *)
Shown(S) == S \ ({Trunk} \cup UnderWay \cup stranded)

(* The fixes a run may leave, of all that it asks for and the policy allows. *)
Admitted(r) ==
  IF run[r].pc = "new" \/ ~Real(run[r].args) \/ ~autonomy.allow_fix THEN {}
  ELSE IF CommitGate(autonomy) THEN {"applied"} ELSE {"applied-uncommitted"}

Promise == INSTANCE ApplyPromise WITH
             grant <- [r \in Runs |-> Admitted(r)],
             report <- outcome,
             events <- log,
             branches <- Shown(DOMAIN refs),
             committed <- Shown({a \in DOMAIN refs : a \in refs[a]}),
             trees <- Shown(worktrees),
             mainline <- refs[Trunk],
             excused <- stranded

(* apply_finding keeps the promise of ApplyPromise: however invocations, exceptions,
   refusals of git and the operator interleave, an attempt shows in the target all at
   once or not at all, as it reports and as the policy admits, what it left is never
   taken away or moved by another attempt, and nothing is committed on the default
   branch.  Only attempts cut off by a death or a refusal of git are excused. *)
ImplementsPromise == Promise!PromiseSpec

=============================================================================

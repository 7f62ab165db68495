---------------------------- MODULE ApplyPromise -----------------------------
(***************************************************************************)
(* What safe-apply promises of each attempt to fix a finding, with no      *)
(* worktrees on the way, no verification and no exceptions: an attempt     *)
(* shows in the target repository once, in the step in which it is over,   *)
(* and as it then reports: a branch with the fix committed on it, a branch *)
(* and a working tree with the fix uncommitted, or nothing.  What is left  *)
(* stays, the default branch is never committed to, and only an attempt    *)
(* that was broken off is excused.                                         *)
(***************************************************************************)
CONSTANTS Runs, Findings, None   \* None is no report

Attempts == Runs \X Findings

Leaving == {"applied", "applied-uncommitted"}
Reports == Leaving \cup {"skipped", "dry-run", "rolled-back", "failed"}

VARIABLES
  grant,     \* invocation -> the reports of Leaving that its request and the policy admit
  report,    \* attempt -> its report, or None
  events,    \* the reports the audit log has: <<attempt, report>>
  branches,  \* attempts of which there is a branch
  committed, \* attempts whose fix is committed on their branch
  trees,     \* attempts of which there is a working tree
  mainline,  \* the fixes on the default branch
  excused    \* attempts that were broken off: what they left is not looked at

promiseVars == <<grant, report, events, branches, committed, trees, mainline, excused>>

PromiseInit ==
  /\ grant = [r \in Runs |-> {}]
  /\ report = [a \in Attempts |-> None]
  /\ events = {} /\ mainline = {} /\ excused = {}
  /\ branches = {} /\ committed = {} /\ trees = {}

(* An invocation is asked for, which may leave fixes of one kind. *)
Request(r) ==
  /\ grant[r] = {} /\ grant'[r] # {}
  /\ \E kind \in Leaving : grant' = [grant EXCEPT ![r] = {kind}]
  /\ \A i \in Findings : report[<<r, i>>] = None
  /\ UNCHANGED <<report, events, branches, committed, trees, mainline, excused>>

(* With this step the attempt a is over. *)
Over(a, s) ==
  /\ report[a] = None
  /\ report' = [report EXCEPT ![a] = s]
  /\ s \in Leaving => s \in grant[a[1]]
  /\ events' = events \/ events' = events \cup {<<a, s>>}
  /\ LET Gains(S, kinds) == IF s \in kinds /\ a \notin excused THEN S \cup {a} ELSE S
     IN  /\ branches' = Gains(branches, Leaving)
         /\ committed' = Gains(committed, {"applied"})
         /\ trees' = Gains(trees, {"applied-uncommitted"})
  /\ UNCHANGED <<grant, mainline, excused>>

(* A death or a refusal of git, before the attempt is over. *)
BreakOff(a) ==
  /\ excused' = excused \cup {a}
  /\ report[a] = None
  /\ UNCHANGED <<grant, report, events, branches, committed, trees, mainline>>

PromiseNext ==
  \/ \E r \in Runs : Request(r)
  \/ \E a \in Attempts : report'[a] # report[a] /\ \E s \in Reports : Over(a, s)
  \/ \E a \in Attempts \ excused : a \in excused' /\ BreakOff(a)

PromiseSpec == PromiseInit /\ [][PromiseNext]_promiseVars

=============================================================================

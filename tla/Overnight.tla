------------------------------ MODULE Overnight ------------------------------
(***************************************************************************)
(* The autonomous loop of scripts/overnight.sh: per cycle it tags every    *)
(* target, lets the Product Owner agent plan, runs the planned fixes on    *)
(* whatever branch is checked out and the planned features on branches of  *)
(* their own, tests what was modified, deploys what passed and reports.    *)
(* Items of one target run one after the other, targets side by side; a    *)
(* phase begins when the one before is over for all targets.  The loop may *)
(* be stopped between phases or killed anywhere; repositories stay as they *)
(* are, everything else but the history is lost, and the history too when  *)
(* the kill comes as it is rewritten.                                      *)
(***************************************************************************)
EXTENDS GitRepo, OvernightState, FiniteSets

CONSTANTS
  Targets,      \* names of the configured targets
  Fixes,        \* fixes the Product Owner may plan
  Features,     \* features it may plan; each also names its branch
  TargetOf,     \* item -> the target it is for
  Texts,        \* what is in MODIFIED_REPOS: target names, and what sed leaves of one
  NamesIn,      \* text -> targets whose name is a word of it
  Strike,       \* <<target, text>> -> the text without that name
  AutoDeploy,   \* targets that policy and command let the loop deploy
  Default, Wip, \* the default branch, and one somebody works on
  None,
  MaxCycles,    \* bound on the cycles
  MaxStops      \* bound on stops and kills

Items == Fixes \cup Features

ASSUME ItemsAssumption ==
  /\ TargetOf \in [Items -> Targets]
  /\ Fixes \cap Features = {}
  /\ {Default, Wip, None} \cap Items = {} /\ Default # Wip
ASSUME NamesAssumption ==
  /\ Targets \subseteq Texts
  /\ NamesIn \in [Texts -> SUBSET Targets] /\ \A t \in Targets : t \in NamesIn[t]
  /\ Strike \in [Targets \X Texts -> Texts]
  /\ \A t \in Targets, x \in Texts : NamesIn[Strike[<<t, x>>]] \subseteq NamesIn[x] \ {t}
ASSUME PolicyAssumption == AutoDeploy \subseteq Targets
ASSUME LoopBoundsAssumption == MaxCycles \in Nat /\ MaxStops \in Nat

VARIABLES
  repo,      \* target -> its repository
  tag,       \* target -> the commit this cycle's snapshot tag names
  phase,     \* what the loop is doing
  cycle,     \* cycles begun
  plan,      \* items of the plan not yet taken up
  doing,     \* target -> the item its background job is at, or NoItem
  toVisit,   \* targets the loop of the phase has yet to come to
  modified,  \* MODIFIED_REPOS
  failed,    \* FAILED_ITEMS_JSON
  rolled,    \* ROLLBACK_REPOS_JSON
  history,   \* results/overnight-history.json
  draft,     \* what append_history has in memory
  autoMerge, \* targets with allow_auto_merge
  cleared,   \* targets named in results/quarantine-clear.json
  stops,
  before,    \* target -> its default branch at the snapshot (history)
  strayed,   \* targets ever tagged with another branch checked out (history)
  verified,  \* target -> what VERIFY passed in this cycle, or None (history)
  shipped,   \* targets deployed in this cycle (history)
             \* Since the history was last lost (history):
  lastFail,  \* item -> the last cycle that reported it failed, or 0
  streak,    \* target -> consecutive reports of a rollback, up to the threshold
  due        \* target -> for how many reports its quarantine is to last

local == <<plan, doing, toVisit, modified, failed, rolled>>
memory == <<lastFail, streak, due>>
ghosts == <<before, strayed, verified, shipped, memory>>
files == <<history, draft, autoMerge, cleared>>
vars == <<repo, tag, phase, cycle, local, files, stops, ghosts>>

-----------------------------------------------------------------------------
NoItem == [item |-> None, step |-> "idle"]

(* One change per item and cycle. *)
Made(i) == <<i, cycle>>

Changes == {<<Default, 0>>, <<Wip, 0>>} \cup (Items \X (1..MaxCycles))

Branches == {Default, Wip} \cup Features

Tree(t) == [tip |-> Tip(repo[t]), dirty |-> repo[t].dirty]

Quarantined(t) == Flagged(history, t) /\ t \notin cleared

(* grep -qw "$name": the name as a word of the list. *)
Listed(t) == \E x \in modified : t \in NamesIn[x]

(* sed "s/\b$name\b//g": the rest of a longer name stays, and may hold another. *)
Struck(t) == {Strike[<<t, x>>] : x \in modified}

(* git reset --hard "$TAG_NAME" || true: for want of the tag, or for another reason, it
   may do nothing. *)
RolledBack(t) == ResetHard(repo[t], tag[t]) \cup {repo[t]}

(* Two branches that have diverged, and no uncommitted changes. *)
FreshRepo(b) ==
  [refs |-> [x \in {Default, Wip} |-> {<<x, 0>>}], head |-> b, dirty |-> FALSE]

Init ==
  /\ repo \in [Targets -> {FreshRepo(b) : b \in {Default, Wip}}]
  /\ tag = [t \in Targets |-> {}]
  /\ phase = "snapshot"
  /\ cycle = 0
  /\ plan = {} /\ toVisit = {} /\ modified = {} /\ failed = {} /\ rolled = {}
  /\ doing = [t \in Targets |-> NoItem]
  /\ history = << >> /\ draft = << >>
  /\ autoMerge \in SUBSET {TargetOf[i] : i \in Features}
  /\ cleared = {}
  /\ stops = 0
  /\ before = [t \in Targets |-> {}]
  /\ strayed = {} /\ shipped = {}
  /\ verified = [t \in Targets |-> None]
  /\ lastFail = [i \in Items |-> 0]
  /\ streak = [t \in Targets |-> 0] /\ due = [t \in Targets |-> 0]

-----------------------------------------------------------------------------
(* Phases 1 to 3. *)

(* Mutant: the tag of an earlier cycle is kept. *)
SnapshotOnce ==
  /\ phase = "snapshot"
  /\ cycle < MaxCycles
  /\ cycle' = cycle + 1
  /\ tag' = [t \in Targets |-> IF cycle = 0 THEN Tip(repo[t]) ELSE tag[t]]
  /\ before' = [t \in Targets |-> repo[t].refs[Default]]
  /\ strayed' = strayed \cup {t \in Targets : repo[t].head # Default}
  /\ phase' = "decide"
  /\ UNCHANGED <<repo, local, files, stops, verified, shipped, memory>>

Snapshot ==
  /\ phase = "snapshot"
  /\ cycle < MaxCycles
  /\ cycle' = cycle + 1
  /\ tag' = [t \in Targets |-> Tip(repo[t])]
  /\ before' = [t \in Targets |-> repo[t].refs[Default]]
  /\ strayed' = strayed \cup {t \in Targets : repo[t].head # Default}
  /\ phase' = "decide"
  /\ UNCHANGED <<repo, local, files, stops, verified, shipped, memory>>

(* Audits and the Product Owner write reports and a plan.  In a dry run, or
   when the plan is not valid, the cycle goes on to its report. *)
Decide ==
  /\ phase = "decide"
  /\ \/ plan' \in SUBSET Items /\ phase' = "fix"
     \/ plan' = {} /\ phase' = "report"
  /\ UNCHANGED <<repo, tag, cycle, doing, toVisit, modified, failed, rolled,
                 files, stops, ghosts>>

-----------------------------------------------------------------------------
(* Phases 4 and 5, per target.  What a job writes to its result file is read
   only after all jobs have ended; a kill loses it either way. *)

Takes(t, i) == doing' = [doing EXCEPT ![t] = [item |-> i, step |-> "agent"]]

Leaves(t) == doing' = [doing EXCEPT ![t] = NoItem]

Reports(t, i, fails, rolls, modifies) ==
  /\ failed' = IF fails THEN failed \cup {i} ELSE failed
  /\ rolled' = IF rolls THEN rolled \cup {t} ELSE rolled
  /\ modified' = IF modifies THEN modified \cup {t} ELSE modified

ReportsFail(t, i) == Reports(t, i, TRUE, FALSE, FALSE)
ReportsRollback(t, i) == Reports(t, i, TRUE, TRUE, FALSE)
ReportsModified(t, i) == Reports(t, i, FALSE, FALSE, TRUE)
ReportsNothing == UNCHANGED <<failed, rolled, modified>>

Turn(t, i) == doing[t] = NoItem /\ i \in plan /\ TargetOf[i] = t

(* Quarantined, recently failed, or a dirty worktree. *)
Barred(t, i) == Quarantined(t) \/ RecentlyFailed(history, i) \/ repo[t].dirty

Skip(t, i) ==
  /\ phase = IF i \in Fixes THEN "fix" ELSE "build"
  /\ Turn(t, i)
  /\ Barred(t, i)
  /\ plan' = plan \ {i}
  /\ UNCHANGED <<repo, tag, phase, cycle, doing, toVisit, modified, failed, rolled,
                 files, stops, ghosts>>

StartFix(t, i) ==
  /\ phase = "fix" /\ i \in Fixes
  /\ Turn(t, i)
  /\ ~Barred(t, i)
  /\ plan' = plan \ {i}
  /\ Takes(t, i)
  /\ UNCHANGED <<repo, tag, phase, cycle, toVisit, modified, failed, rolled,
                 files, stops, ghosts>>

(* What an agent leaves: a commit on the branch checked out, edits, neither. *)
AgentLeaves(t, i) ==
  {repo[t], Edited(repo[t])} \cup Commit(repo[t], Made(i))

FixAgentFails(t, i) ==
  /\ doing[t] = [item |-> i, step |-> "agent"] /\ i \in Fixes
  /\ \E r \in AgentLeaves(t, i) : repo' = [repo EXCEPT ![t] = r]
  /\ ReportsFail(t, i)
  /\ Leaves(t)
  /\ UNCHANGED <<tag, phase, cycle, plan, toVisit, files, stops, ghosts>>

AgentSucceeds(t, i) ==
  /\ doing[t] = [item |-> i, step |-> "agent"]
  /\ \E r \in AgentLeaves(t, i) : repo' = [repo EXCEPT ![t] = r]
  /\ doing' = [doing EXCEPT ![t].step = "judge"]
  /\ UNCHANGED <<tag, phase, cycle, plan, toVisit, modified, failed, rolled,
                 files, stops, ghosts>>

(* Tests pass and coverage stays, or the policy asks for neither. *)
FixOk(t, i) ==
  /\ doing[t] = [item |-> i, step |-> "judge"] /\ i \in Fixes
  /\ ReportsModified(t, i)
  /\ Leaves(t)
  /\ UNCHANGED <<repo, tag, phase, cycle, plan, toVisit, files, stops, ghosts>>

FixRolledBack(t, i) ==
  /\ doing[t] = [item |-> i, step |-> "judge"] /\ i \in Fixes
  /\ \E r \in RolledBack(t) : repo' = [repo EXCEPT ![t] = r]
  /\ ReportsRollback(t, i)
  /\ Leaves(t)
  /\ UNCHANGED <<tag, phase, cycle, plan, toVisit, files, stops, ghosts>>

(* git checkout default && git checkout -b feature *)
OnNewBranch(r, i) ==
  UNION {IF o.ok THEN CheckoutNew(o.repo, i) ELSE {o} : o \in Checkout(r, Default)}

(* Mutant: the feature branch is not asked whether it is there. *)
StartFeatureAnyway(t, i) ==
  /\ phase = "build" /\ i \in Features
  /\ Turn(t, i)
  /\ ~Barred(t, i)
  /\ plan' = plan \ {i}
  /\ \E o \in OnNewBranch(repo[t], i) : repo' = [repo EXCEPT ![t] = o.repo]
  /\ Takes(t, i)
  /\ UNCHANGED <<tag, phase, cycle, toVisit, modified, failed, rolled, files, stops, ghosts>>

StartFeature(t, i) ==
  /\ phase = "build" /\ i \in Features
  /\ Turn(t, i)
  /\ ~Barred(t, i)
  /\ plan' = plan \ {i}
  /\ \E o \in OnNewBranch(repo[t], i) :
       /\ repo' = [repo EXCEPT ![t] = o.repo]
       /\ IF o.ok THEN Takes(t, i) /\ ReportsNothing
                  ELSE ReportsFail(t, i) /\ UNCHANGED doing
  /\ UNCHANGED <<tag, phase, cycle, toVisit, files, stops, ghosts>>

(* git checkout default; git branch -D feature, whether or not each works *)
Dropped(r, i) ==
  UNION {{d.repo : d \in DeleteBranch(o.repo, i)} : o \in Checkout(r, Default)}

(* The merge into the default branch: on it, without the feature's branch. *)
Merged(r, i) ==
  UNION {IF o.ok THEN Merge(o.repo, i) ELSE {o} : o \in Checkout(r, Default)}

FeatureMerged(t, i) ==
  /\ doing[t] = [item |-> i, step |-> "judge"] /\ i \in Features
  /\ t \in autoMerge
  /\ \E o \in Merged(repo[t], i) :
       IF o.ok
       THEN /\ \E d \in DeleteBranch(o.repo, i) : repo' = [repo EXCEPT ![t] = d.repo]
            /\ ReportsModified(t, i)
       ELSE /\ \E r \in Dropped(o.repo, i) : repo' = [repo EXCEPT ![t] = r]
            /\ ReportsFail(t, i)
  /\ Leaves(t)
  /\ UNCHANGED <<tag, phase, cycle, plan, toVisit, files, stops, ghosts>>

(* The feature waits on its branch; git checkout default || true *)
FeatureParked(t, i) ==
  /\ doing[t] = [item |-> i, step |-> "judge"] /\ i \in Features
  /\ t \notin autoMerge
  /\ \E o \in Checkout(repo[t], Default) : repo' = [repo EXCEPT ![t] = o.repo]
  /\ ReportsNothing
  /\ Leaves(t)
  /\ UNCHANGED <<tag, phase, cycle, plan, toVisit, files, stops, ghosts>>

(* The agent or the tests failed. *)
FeatureRolledBack(t, i) ==
  /\ doing[t].item = i /\ i \in Features
  /\ \E r \in IF doing[t].step = "agent" THEN AgentLeaves(t, i) ELSE {repo[t]} :
       \E d \in Dropped(r, i) : repo' = [repo EXCEPT ![t] = d]
  /\ ReportsRollback(t, i)
  /\ Leaves(t)
  /\ UNCHANGED <<tag, phase, cycle, plan, toVisit, files, stops, ghosts>>

JobsDone(items) == plan \cap items = {} /\ \A t \in Targets : doing[t] = NoItem

EndFix ==
  /\ phase = "fix" /\ JobsDone(Fixes)
  /\ phase' = "build"
  /\ UNCHANGED <<repo, tag, cycle, local, files, stops, ghosts>>

EndBuild ==
  /\ phase = "build" /\ JobsDone(Features)
  /\ phase' = "verify"
  /\ toVisit' = Targets
  /\ UNCHANGED <<repo, tag, cycle, plan, doing, modified, failed, rolled,
                 files, stops, ghosts>>

-----------------------------------------------------------------------------
(* Phases 6 to 8. *)

Visits(p, t) == phase = p /\ t \in toVisit /\ toVisit' = toVisit \ {t}

VerifySkips(t) ==
  /\ Visits("verify", t)
  /\ ~Listed(t)
  /\ UNCHANGED <<repo, tag, phase, cycle, plan, doing, modified, failed, rolled,
                 files, stops, ghosts>>

VerifyPasses(t) ==
  /\ Visits("verify", t)
  /\ Listed(t)
  /\ verified' = [verified EXCEPT ![t] = Tree(t)]
  /\ UNCHANGED <<repo, tag, phase, cycle, plan, doing, modified, failed, rolled,
                 files, stops, before, strayed, shipped, memory>>

(* Mutant: a target that was rolled back stays in the list. *)
VerifyFailsUnlisted(t) ==
  /\ Visits("verify", t)
  /\ Listed(t)
  /\ \E r \in RolledBack(t) : repo' = [repo EXCEPT ![t] = r]
  /\ rolled' = rolled \cup {t}
  /\ UNCHANGED <<tag, phase, cycle, plan, doing, modified, failed, files, stops, ghosts>>

VerifyFails(t) ==
  /\ Visits("verify", t)
  /\ Listed(t)
  /\ \E r \in RolledBack(t) : repo' = [repo EXCEPT ![t] = r]
  /\ rolled' = rolled \cup {t}
  /\ modified' = Struck(t)
  /\ UNCHANGED <<tag, phase, cycle, plan, doing, failed, files, stops, ghosts>>

EndVerify ==
  /\ phase = "verify" /\ toVisit = {}
  /\ phase' = "deploy"
  /\ toVisit' = Targets
  /\ UNCHANGED <<repo, tag, cycle, plan, doing, modified, failed, rolled,
                 files, stops, ghosts>>

Deploy(t) ==
  /\ Visits("deploy", t)
  /\ shipped' = IF Listed(t) /\ t \in AutoDeploy THEN shipped \cup {t} ELSE shipped
  /\ UNCHANGED <<repo, tag, phase, cycle, plan, doing, modified, failed, rolled,
                 files, stops, before, strayed, verified, memory>>

EndDeploy ==
  /\ phase = "deploy" /\ toVisit = {}
  /\ phase' = "report"
  /\ UNCHANGED <<repo, tag, cycle, local, files, stops, ghosts>>

(* The counters start from nothing in the next cycle, or the next loop. *)
Forget ==
  /\ plan' = {} /\ toVisit' = {} /\ modified' = {} /\ failed' = {} /\ rolled' = {}
  /\ doing' = [t \in Targets |-> NoItem]
  /\ verified' = [t \in Targets |-> None]
  /\ shipped' = {}

(* Mutant: the file is opened for writing before it is read. *)
ReportOnEmptied ==
  /\ phase = "report"
  /\ draft' = Remember(<< >>, [failed |-> failed, rolledBack |-> rolled])
  /\ history' = << >>
  /\ phase' = "rewrite"
  /\ UNCHANGED <<repo, tag, cycle, local, autoMerge, cleared, stops, ghosts>>

(* append_history: what is there is read, then open("w") empties the file.  An empty or
   half-written file does not parse, and one that does not is read as no reports. *)
Report ==
  /\ phase = "report"
  /\ draft' = Remember(history, [failed |-> failed, rolledBack |-> rolled])
  /\ history' = << >>
  /\ phase' = "rewrite"
  /\ UNCHANGED <<repo, tag, cycle, local, autoMerge, cleared, stops, ghosts>>

(* Once more rolled back, or not. *)
Streak(t) ==
  IF t \notin rolled THEN 0
  ELSE IF streak[t] = QuarantineThreshold THEN streak[t] ELSE streak[t] + 1

(* A streak is in the history until its first report drops out of it. *)
DueFor(t) ==
  IF Streak(t) = QuarantineThreshold
  THEN IF HistoryKeep < QuarantineThreshold THEN 0 ELSE HistoryKeep - QuarantineThreshold + 1
  ELSE IF due[t] = 0 THEN 0 ELSE due[t] - 1

(* json.dump fills it. *)
FillHistory ==
  /\ phase = "rewrite"
  /\ history' = draft /\ draft' = << >>
  /\ lastFail' = [i \in Items |-> IF i \in failed THEN cycle ELSE lastFail[i]]
  /\ streak' = [t \in Targets |-> Streak(t)]
  /\ due' = [t \in Targets |-> DueFor(t)]
  /\ phase' = "snapshot"
  /\ Forget
  /\ UNCHANGED <<repo, tag, cycle, autoMerge, cleared, stops, before, strayed>>

-----------------------------------------------------------------------------
(* The stop file is looked at between phases; a kill, or a crash of the
   machine, may come at any point.  The next loop starts with a snapshot. *)
Stop ==
  /\ stops < MaxStops
  /\ phase # "snapshot"
  /\ stops' = stops + 1
  /\ phase' = "snapshot"
  /\ draft' = << >>
  /\ IF phase = "rewrite"
     THEN /\ lastFail' = [i \in Items |-> 0]
          /\ streak' = [t \in Targets |-> 0] /\ due' = [t \in Targets |-> 0]
     ELSE UNCHANGED memory
  /\ Forget
  /\ UNCHANGED <<repo, tag, cycle, history, autoMerge, cleared, before, strayed>>

(* Between cycles an operator may clean a worktree or lift a quarantine. *)
CleanUp(t) ==
  /\ phase = "snapshot"
  /\ repo[t].dirty
  /\ repo' = [repo EXCEPT ![t] = Cleaned(@)]
  /\ UNCHANGED <<tag, phase, cycle, local, files, stops, ghosts>>

Clear(t) ==
  /\ phase = "snapshot"
  /\ Quarantined(t)
  /\ cleared' = cleared \cup {t}
  /\ UNCHANGED <<repo, tag, phase, cycle, local, history, draft, autoMerge, stops, ghosts>>

Job(t, i) ==
  \/ Skip(t, i)
  \/ StartFix(t, i)
  \/ FixAgentFails(t, i)
  \/ AgentSucceeds(t, i)
  \/ FixOk(t, i)
  \/ FixRolledBack(t, i)
  \/ StartFeature(t, i)
  \/ FeatureMerged(t, i)
  \/ FeatureParked(t, i)
  \/ FeatureRolledBack(t, i)

Loop ==
  \/ Snapshot
  \/ Decide
  \/ EndFix
  \/ EndBuild
  \/ EndVerify
  \/ EndDeploy
  \/ Report
  \/ FillHistory

Next ==
  \/ Loop
  \/ \E t \in Targets, i \in Items : Job(t, i)
  \/ \E t \in Targets : VerifySkips(t) \/ VerifyPasses(t) \/ VerifyFails(t) \/ Deploy(t)
  \/ Stop
  \/ \E t \in Targets : CleanUp(t) \/ Clear(t)

Spec == Init /\ [][Next]_vars

-----------------------------------------------------------------------------
(* Properties. *)

(* Rollback to the snapshot tag never costs the default branch a commit it had
   when the cycle began, as long as every snapshot of the target was taken with
   the default branch checked out: neither a rollback of a fix, of a feature or
   after VERIFY, nor a loop that was killed and started again. *)
DefaultKeepsCommits ==
  \A t \in Targets \ strayed : before[t] \subseteq repo[t].refs[Default]

(* Under the same condition, the default branch never gets somebody's work in
   progress, a feature of a target without allow_auto_merge, or a feature that
   failed in this cycle. *)
FeaturesGated ==
  \A t \in Targets \ strayed :
    /\ <<Wip, 0>> \notin repo[t].refs[Default]
    /\ \A i \in Features, n \in 1..MaxCycles :
         <<i, n>> \in repo[t].refs[Default] =>
           t \in autoMerge /\ ~(n = cycle /\ i \in failed)

(* "Only deploy repos that were modified and survived verification": what is
   deployed is exactly what the tests of VERIFY passed on, in this cycle,
   whatever names the list is searched for. *)
ShippedWasVerified == \A t \in shipped : verified[t] = Tree(t)

(* "skip items that failed last 2 cycles": an item a report names as failed
   is left alone for FailureWindow cycles, over stops and restarts too, save a
   kill in the middle of writing a later report, which loses the history. *)
RetryWaits ==
  \A t \in Targets : doing[t] # NoItem =>
    LET last == lastFail[doing[t].item] IN last = 0 \/ cycle > last + FailureWindow

(* "the loop must skip all work against it until an operator clears the
   flag": a target rolled back in as many consecutive reports as the threshold
   says is left alone, whatever later reports say and over restarts, until its
   streak drops out of the history, or a kill in the middle of writing a report
   loses the history. *)
QuarantineLasts ==
  \A t \in Targets : due[t] > 0 /\ t \notin cleared => doing[t] = NoItem

=============================================================================

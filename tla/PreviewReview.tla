---------------------------- MODULE PreviewReview ----------------------------
(***************************************************************************)
(* Fix jobs and the review of their previews, on one target repository.    *)
(* The API server (backoffice/api_server.py) starts agents/fix-bugs.sh in  *)
(* the background, one job per target, and answers approve and discard     *)
(* (backoffice/review.py) itself, one request at a time.  A preview job    *)
(* checks out a branch of its own, lets an agent commit on it, publishes   *)
(* preview-<job>.json and checks the base out again; approve fast-forwards *)
(* the base, deletes the branch and removes the file.  All of them work in *)
(* the one working tree, and nothing keeps a decision and a job apart.     *)
(***************************************************************************)
EXTENDS GitRepo, FiniteSets, Naturals

CONSTANTS
  Trunk,       \* the default branch
  Jobs,        \* job ids; a job id also names the job's preview branch
  Changes,     \* changes agents may commit (bound on the commits made)
  None,        \* no job
  MaxCrashes   \* bound on the deaths of jobs and of the server

ASSUME BranchNamesAssumption == Trunk \notin Jobs
ASSUME NoJobAssumption == None \notin Jobs \cup {Trunk}
ASSUME CrashBoundAssumption == MaxCrashes \in Nat
ASSUME JobsAssumption == IsFiniteSet(Jobs)

VARIABLES
  repo,       \* the target repository
  author,     \* change -> the job whose agent committed it, or None (history)
  jpc,        \* job -> the next step of its script
  preview,    \* jobs started with --preview
  base,       \* preview job -> PREVIEW_BASE_REF
  onDisk,     \* jobs whose preview-<job>.json exists
  shown,      \* published job -> the base_ref and head_sha its file records
  running,    \* running_fix of the server, for this target
  srv,        \* the decision the server is making
  approved,   \* jobs whose approve got through the merge (history)
  overlapped, \* whether two of {live jobs, decision} were ever under way at once (history)
  crashes

vars == <<repo, author, jpc, preview, base, onDisk, shown, running, srv,
          approved, overlapped, crashes>>

jobVars == <<author, jpc, preview, base, onDisk, shown, running>>
reviewVars == <<srv, approved>>

-----------------------------------------------------------------------------
Live == {j \in Jobs : jpc[j] \in {"setup", "branch", "agent", "publish", "return"}}

NoDecision == [op |-> "none", step |-> "idle", job |-> None]

Deciding == srv # NoDecision

Branches == {Trunk} \cup Jobs

Overlap == Cardinality(Live) + (IF Deciding THEN 1 ELSE 0) > 1

Unwritten == {ch \in Changes : author[ch] = None}

Init ==
  /\ repo \in {[refs |-> [b \in {Trunk} |-> {}], head |-> Trunk, dirty |-> d] : d \in BOOLEAN}
  /\ author = [ch \in Changes |-> None]
  /\ jpc = [j \in Jobs |-> "new"]
  /\ preview = {}
  /\ base = [j \in Jobs |-> Trunk]
  /\ onDisk = {}
  /\ shown = [j \in Jobs |-> [base |-> Trunk, head |-> {}]]
  /\ running = {}
  /\ srv = NoDecision
  /\ approved = {}
  /\ overlapped = FALSE
  /\ crashes = 0

-----------------------------------------------------------------------------
(* Mutant: the registry of running jobs is not consulted. *)
RunFixUnchecked(j, isPreview) ==
  /\ jpc[j] = "new"
  /\ ~Deciding
  /\ running' = running \cup {j}
  /\ preview' = IF isPreview THEN preview \cup {j} ELSE preview
  /\ jpc' = [jpc EXCEPT ![j] = IF isPreview THEN "setup" ELSE "agent"]
  /\ UNCHANGED <<repo, author, base, onDisk, shown, reviewVars, crashes>>

(* POST /api/run-fix.  A second job for the target is a 409. *)
RunFix(j, isPreview) ==
  /\ jpc[j] = "new"
  /\ ~Deciding
  /\ running = {}
  /\ running' = {j}
  /\ preview' = IF isPreview THEN preview \cup {j} ELSE preview
  /\ jpc' = [jpc EXCEPT ![j] = IF isPreview THEN "setup" ELSE "agent"]
  /\ UNCHANGED <<repo, author, base, onDisk, shown, reviewVars, crashes>>

-----------------------------------------------------------------------------
(* fix-bugs.sh.  set -e ends the script at the first command that fails.   *)

GoesTo(j, label) == jpc' = [jpc EXCEPT ![j] = label] /\ UNCHANGED running

Ends(j) == jpc' = [jpc EXCEPT ![j] = "over"] /\ running' = running \ {j}

(* PREVIEW_BASE_REF is the branch that happens to be checked out. *)
ReadBase(j) ==
  /\ jpc[j] = "setup"
  /\ base' = [base EXCEPT ![j] = repo.head]
  /\ IF repo.dirty THEN Ends(j) ELSE GoesTo(j, "branch")
  /\ UNCHANGED <<repo, author, preview, onDisk, shown, reviewVars, crashes>>

(* Mutant: the fixes land on the branch that is checked out. *)
StayOnBase(j) ==
  /\ jpc[j] = "branch"
  /\ \E o \in CheckoutNew(repo, j) : repo' = [o.repo EXCEPT !.head = repo.head]
  /\ GoesTo(j, "agent")
  /\ UNCHANGED <<author, preview, base, onDisk, shown, reviewVars, crashes>>

CreateBranch(j) ==
  /\ jpc[j] = "branch"
  /\ \E o \in CheckoutNew(repo, j) : o.ok /\ repo' = o.repo
  /\ GoesTo(j, "agent")
  /\ UNCHANGED <<author, preview, base, onDisk, shown, reviewVars, crashes>>

(* The agent commits to the branch that is checked out at that moment. *)
AgentCommits(j) ==
  /\ jpc[j] = "agent"
  /\ \E ch \in Unwritten :
       /\ repo' \in Commit(repo, ch)
       /\ author' = [author EXCEPT ![ch] = j]
  /\ UNCHANGED <<jpc, preview, base, onDisk, shown, running, reviewVars, crashes>>

AgentEdits(j) ==
  /\ jpc[j] = "agent"
  /\ repo' = Edited(repo)
  /\ UNCHANGED <<jobVars, reviewVars, crashes>>

(* The agent exits 0; without --preview the job is over. *)
AgentSucceeds(j) ==
  /\ jpc[j] = "agent"
  /\ IF j \in preview THEN GoesTo(j, "publish") ELSE Ends(j)
  /\ UNCHANGED <<repo, author, preview, base, onDisk, shown, reviewVars, crashes>>

(* The script leaves with the agent's exit status, on the preview branch. *)
AgentFails(j) ==
  /\ jpc[j] = "agent"
  /\ Ends(j)
  /\ UNCHANGED <<repo, author, preview, base, onDisk, shown, reviewVars, crashes>>

(* What the preview file says: the base by its name, and HEAD. *)
BuildPreview(j) == [base |-> base[j], head |-> Tip(repo)]

(* build_preview fails when the base is gone. *)
Publish(j) ==
  /\ jpc[j] = "publish"
  /\ IF Exists(repo, base[j])
     THEN /\ onDisk' = onDisk \cup {j}
          /\ shown' = [shown EXCEPT ![j] = BuildPreview(j)]
          /\ GoesTo(j, "return")
     ELSE Ends(j) /\ UNCHANGED <<onDisk, shown>>
  /\ UNCHANGED <<repo, author, preview, base, reviewVars, crashes>>

(* git checkout base || true *)
ReturnToBase(j) ==
  /\ jpc[j] = "return"
  /\ \E o \in Checkout(repo, base[j]) : repo' = o.repo
  /\ Ends(j)
  /\ UNCHANGED <<author, preview, base, onDisk, shown, reviewVars, crashes>>

-----------------------------------------------------------------------------
(* review.approve and review.discard.  A ReviewError is a 404 or 409.      *)

Proceed(step) == srv' = [srv EXCEPT !.step = step]

Conclude == srv' = NoDecision /\ UNCHANGED approved

(* Both refs exist and the working tree is clean; else nothing happens. *)
BeginApprove(j) ==
  /\ ~Deciding
  /\ j \in onDisk
  /\ ~repo.dirty
  /\ Exists(repo, j) /\ Exists(repo, shown[j].base)
  /\ srv' = [op |-> "approve", step |-> "checkout", job |-> j]
  /\ UNCHANGED <<repo, jobVars, approved, crashes>>

(* The branch is left first when it is the one checked out. *)
BeginDiscard(j) ==
  /\ ~Deciding
  /\ j \in onDisk
  /\ srv' = [op |-> "discard", step |-> IF repo.head = j THEN "checkout" ELSE "delete", job |-> j]
  /\ UNCHANGED <<repo, jobVars, approved, crashes>>

CheckoutBase ==
  /\ srv.step = "checkout"
  /\ \E o \in Checkout(repo, shown[srv.job].base) :
       /\ repo' = o.repo
       /\ IF o.ok
          THEN Proceed(IF srv.op = "approve" THEN "merge" ELSE "delete") /\ UNCHANGED approved
          ELSE Conclude
  /\ UNCHANGED <<jobVars, crashes>>

Merged == Proceed("delete") /\ approved' = approved \cup {srv.job}

(* Mutant: the outcome of the merge is not looked at. *)
MergeUnchecked ==
  /\ srv.step = "merge"
  /\ \E o \in FastForward(repo, srv.job) : repo' = o.repo
  /\ Merged
  /\ UNCHANGED <<jobVars, crashes>>

(* Mutant: a merge that is refused takes the branch away as well. *)
DropOnConflict ==
  /\ srv.step = "merge"
  /\ \E o \in FastForward(repo, srv.job) :
       IF o.ok THEN repo' = o.repo /\ Merged
       ELSE Conclude /\ \E d \in DeleteBranch(repo, srv.job) : repo' = d.repo
  /\ UNCHANGED <<jobVars, crashes>>

MergeBranch ==
  /\ srv.step = "merge"
  /\ \E o \in FastForward(repo, srv.job) :
       repo' = o.repo /\ IF o.ok THEN Merged ELSE Conclude
  /\ UNCHANGED <<jobVars, crashes>>

DropBranch ==
  /\ srv.step = "delete"
  /\ \E o \in DeleteBranch(repo, srv.job) :
       /\ repo' = o.repo
       /\ IF o.ok THEN Proceed("unlink") /\ UNCHANGED approved ELSE Conclude
  /\ UNCHANGED <<jobVars, crashes>>

Unlink ==
  /\ srv.step = "unlink"
  /\ onDisk' = onDisk \ {srv.job}
  /\ Conclude
  /\ UNCHANGED <<repo, author, jpc, preview, base, shown, running, crashes>>

-----------------------------------------------------------------------------
(* Someone cleans the working tree, as a refused approve asks them to. *)
CleanUp ==
  /\ repo.dirty
  /\ repo' = Cleaned(repo)
  /\ UNCHANGED <<jobVars, reviewVars, crashes>>

(* A job is killed; the working tree stays as it is. *)
JobDies(j) ==
  /\ j \in Live
  /\ crashes < MaxCrashes
  /\ crashes' = crashes + 1
  /\ Ends(j)
  /\ UNCHANGED <<repo, author, preview, base, onDisk, shown, reviewVars>>

(* The server restarts: its decision ends half-way and running_fix is empty,
   while a job it started runs on. *)
ServerDies ==
  /\ crashes < MaxCrashes
  /\ crashes' = crashes + 1
  /\ running' = {}
  /\ srv' = NoDecision
  /\ UNCHANGED <<repo, author, jpc, preview, base, onDisk, shown, approved>>

JobStep(j) ==
  \/ ReadBase(j)
  \/ CreateBranch(j)
  \/ AgentCommits(j)
  \/ AgentEdits(j)
  \/ AgentSucceeds(j)
  \/ AgentFails(j)
  \/ Publish(j)
  \/ ReturnToBase(j)

Review ==
  \/ \E j \in Jobs : BeginApprove(j) \/ BeginDiscard(j)
  \/ CheckoutBase
  \/ MergeBranch
  \/ DropBranch
  \/ Unlink

Next ==
  /\ \/ \E j \in Jobs, p \in BOOLEAN : RunFix(j, p)
     \/ \E j \in Jobs : JobStep(j)
     \/ Review
     \/ CleanUp
     \/ \E j \in Jobs : JobDies(j)
     \/ ServerDies
  /\ overlapped' = (overlapped \/ Overlap')

Spec == Init /\ [][Next]_vars

-----------------------------------------------------------------------------
(* Properties. *)

(* fix-bugs.sh: "--preview  Land fixes on isolated back-office/preview/<job-id>
   branch".  What a preview agent committed reaches the default branch only
   with the approval of its job. *)
PreviewIsolated ==
  \A ch \in repo.refs[Trunk] : author[ch] \in preview => author[ch] \in approved

(* It holds as long as no two of the jobs and decisions were under way at
   once. *)
PreviewIsolatedUnlessOverlap == ~overlapped => PreviewIsolated

(* running_fix keeps a second fix away from a target whose first one is at
   work; what it cannot know of is a job of the server before a restart. *)
OneFixAtATime == crashes = 0 => Cardinality(Live) <= 1

(* What the reviewer was shown and approved is in the base and stays there,
   though the branch is deleted and other previews are merged or discarded. *)
ApprovedStays ==
  ~overlapped =>
    \A j \in approved : shown[j].base = Trunk => shown[j].head \subseteq repo.refs[Trunk]

(* A preview nobody has decided on still has its branch, and the branch still
   has everything the preview file shows, whatever was approved, refused or
   discarded meanwhile. *)
UndecidedIsIntact ==
  crashes = 0 /\ ~overlapped =>
    \A j \in onDisk \ {srv.job} : Exists(repo, j) /\ shown[j].head \subseteq repo.refs[j]

=============================================================================

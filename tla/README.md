# Back Office: a TLA+ development

Back Office keeps a queue of engineering tasks for a set of repositories. People
approve tasks in a dashboard or on the command line; agents claim them over HTTP,
work on them in runs, and hand them back for review. The queue is a YAML file with
two JSON mirrors, runs are one JSON file each, and every change is to be told in an
append-only audit log. Scans of the repositories become findings, a backlog and a
dashboard, which is published; fix jobs and safe apply let programs commit in a target
repository, and an overnight loop fixes, builds, tests and deploys by itself. Several
processes work on these files and repositories at once. This directory models that
machinery, checks it with TLC on small instances, and proves the main properties with
TLAPS for instances of every size.

Contents: [inventory](#inventory) · [modules](#modules) · [runs](#runs) ·
[bounds, symmetry and views](#bounds-symmetry-and-views) · [fairness](#fairness) ·
[proofs](#proofs) · [what the code does differently from its
documentation](#findings) · [not modelled](#not-modelled) · [plan](#plan)

## Inventory

Paths are relative to `src/`. "Correct when" is what the component is trusted for.

| Component | State | Operations | Correct when |
|---|---|---|---|
| State machines (`backoffice/domain/state_machines.py`) | none | tables of legal task, run and approval moves | every writer consults them |
| Locked task store (`backoffice/store/`) | `config/task-queue.yaml`, mirrors in `results/` and `dashboard/`, `results/runs/*.json`, `results/audit-events.jsonl`, flock sidecar | `checkout_task`, `transition_task`, `create_run`, `get_run`, queue fan-out | one agent wins a task; pointers name runs; mirrors and audit log follow the queue |
| Agent API (`backoffice/agent_api.py`) | none of its own | checkout, ready-for-review, cancel, log, cost, approvals | an ended run stays ended; a claim ends before the next begins |
| Dashboard task handlers (`backoffice/server.py`) | a copy of the queue per request | approve, cancel, request-pr, product approve/suggest, queue-finding, mentor plan, apply-fix | same promises as the store, without its lock |
| Task commands (`backoffice/tasks.py`) | a copy of the queue per command | start, block, review, complete, cancel, create, seed, sync, list | same |
| Audit log (`backoffice/audit_rotation.py`, store) | the log, rotated logs, rotation state | append, rotate | no event is lost or duplicated |
| Routines (`backoffice/routines.py`) | `results/routines/<id>.json` | sync from configuration, run, pause, resume, run due | a due routine fires once; a pause lasts |
| Budgets (`backoffice/budgets.py`) | cost events (append only), policies | record, evaluate, gate | spend over a hard limit stops new work |
| Agents and tokens (`backoffice/agents.py`, `auth.py`) | one file per agent, one file of token hashes | register, update, pause, retire; issue, revoke, authenticate | retirements and revocations last |
| Fix jobs (`backoffice/api_server.py`, `agents/fix-bugs.sh`) | `running_fix` in memory; the target's working tree | run-fix, with and without `--preview` | one fix per target; preview fixes stay on their branch |
| Preview and review (`backoffice/preview.py`, `review.py`) | `preview-<job>.json`, preview branches | publish, approve, discard | a decision is all or nothing; nothing approved or undecided is lost |
| Safe apply (`backoffice/apply/`) | worktree and branch per fix | verify, apply, verify, commit or roll back | rolled-back fixes leave nothing behind; committed ones passed |
| Workspaces (`backoffice/workspaces.py`) | worktrees and their records | create, keep, remove | every worktree has an owner |
| Policy (`backoffice/policy.py`) | none | gates on autonomy, deploy, merge | no gate is skipped |
| Scan jobs (`server.py`, `api_server.py`, `scripts/job-status.sh`) | running maps, `.jobs.json` | run one, run all, init, start, finish, finalize | the status file tells what ran |
| Overnight loop (`scripts/overnight.sh`, `overnight_state.py`, `backlog.py`) | snapshot tags, plan, history, failure memory, quarantine, backlog | audit, decide, fix, build, verify, deploy, report | a failed fix is rolled back and nothing else is; a failing target is quarantined |
| Domain records (`backoffice/domain/models.py`) | none | `from_dict`, `to_dict` of every class | reading and rewriting a record settles |
| Scanners (`backoffice/scanners/`) | output files, `scan-state.json`, a lock per department | run the tools found, normalise, cut, skip | a skipped scan is answered for the commit checked out; a cut report keeps the worst |
| Workflow (`workflow.py`, `aggregate.py`, `backlog.py`) | findings files, payloads, backlog, audit log, run lock | run-target, run-all, refresh in stages, merge | a command that succeeds leaves a board as new as its scans; the backlog keeps history; all figures agree |
| Regression (`regression.py`) | a directory per run, the dashboard's payload | coverage, tests, record, write | what is shown as passed passed in that run |
| Adapters and router (`adapters/`, `backends/`, `router.py`) | statuses and health in memory | invoke, status, cancel; refresh, assign | no command starts unapproved; no success is invented, whoever asks again; a task goes to who can do it |
| Sync engine (`sync/`) | storage zones and caches | full and quick sync, upload with retries, purge | exit code 0 means everything is out, and visitors get it |
| Portable bundles, plans, setup, deployment control, dashboard | see `PROJECT.json` | | |

**Interactions.** The agent API calls the store; the dashboard handlers and task
commands read and write the same queue file directly; apply-fix calls safe apply in
between its load and its save; request-pr calls GitHub in between. The API server
starts the fix script as a child process and answers approve and discard itself, in
the same working tree. The overnight loop runs the same agents on the same
repositories as a separate process.

**Hard behaviours.** (1) Read-modify-write of whole files by processes that do or do
not take the lock. (2) A handler that writes three to five files dies in between.
(3) State read outside the lock and used inside it, or written back minutes later.
(4) One working tree shared by background jobs and review decisions, with `git
checkout` as the hidden shared variable. (5) In-memory registries (`running_fix`,
`running_jobs`) that a restart forgets while the scripts go on. (6) Sequences of
legal calls that end in a state no call accepts. (7) JSON records that any command reads,
changes and writes back as a whole. (8) Chains of stages that may stop in the middle:
refresh, sync, apply. (9) Names made of the second. (10) Answers kept in memory or in a
cache and trusted later. The complete list, each at its line, is `hazards` in
`PROJECT.json`.

## Modules

| Module | What it is |
|---|---|
| `StateMachines` | the task and run tables, as sets and functions from the source's dictionaries |
| `TaskClaim` | abstract specification: tasks with a status and at most one holder; `Claim`, `EndClaim`, `Move` |
| `TaskStore` | the locked store and the agent API over it, one step per file operation |
| `TaskStoreProofs` | inductive invariant and theorems about `TaskStore` |
| `TaskQueueSystem` | `TaskStore` composed with the dashboard handlers and task commands that take no lock |
| `GitRepo` | external: a repository as a record of branches, checked-out branch and dirtiness, and one operator per git command that gives its possible outcomes |
| `PreviewReview` | fix jobs, previews, approve and discard on one repository |
| `OvernightState` | the loop's history: truncation, failure memory, quarantine |
| `Overnight` | the cycle of the overnight loop on one repository per target |
| `JobStatus` | the job status file, the scripts that report to it, and the requests that start them |
| `ApplyPromise` | abstract specification: an attempt to fix a finding shows in the target all at once, as it reports, or not at all |
| `Policy`, `SafeApply` | the fix and commit gates; apply of findings in worktrees, on one repository |
| `Routines`, `AgentRegistry`, `AgentTokens` | JSON records read, changed and written back by several commands |
| `AuditLog` | appends and rotation as file-system calls |
| `Budgets`, `BudgetGate` | the budget decision; checkouts behind it and runs that cost |
| `Adapters`, `Router` | starting an agent and asking how it ended; choosing a backend |
| `Scanners`, `ScanRunner` | what the tools' results become; the scan lock and the incremental state |
| `Aggregate`, `AuditPipeline` | the figures of the dashboard; the commands that produce it, stage by stage |
| `RegressionRunner`, `SyncEngine` | the portfolio regression; publication |
| `DomainRecords`, `Figures` | reading and writing stored records; every input of the computations that have no state |
| `BackOffice` | the twelve parts that share no state, side by side |
| `QueueSystemProofs` | inductive invariant and theorems about `TaskQueueSystem`, on top of `TaskStoreProofs` |
| `GitProofs`, `PreviewProofs`, `OvernightProofs` | what the git commands do to a well-formed repository; theorems about `PreviewReview` and about `Overnight` with its memory |
| `JobStatusProofs`, `SafeApplyProofs` | theorems about `JobStatus`; about `SafeApply`, with its refinement of `ApplyPromise` |
| `PartsProofs` | theorems about the twelve parts of `BackOffice` |
| `MCTaskStore`, `MCTaskQueueSystem`, `MCPreviewReview`, `MCOvernight`, `MCJobStatus`, `MCSafeApply`, `MCBackOffice` | instances for TLC |

**TaskStore.** `queue`, `mirrors`, `runs` are files; `lock` is the flock; `pc[c]` is
the next file operation of the handler process `c` executes and `req[c]`, `snap[c]`
its arguments and the queue it has in memory. `tempfile + os.replace` makes one file
change in one step; a handler takes a step per file and others run in between. A
checkout is `BeginCheckout`, `AcquireLock`, `LoadQueue`, one of
`CheckoutRefused`/`CheckoutResumed`/`CheckoutFresh`, and after the last `CreateRun`,
`WriteQueue`, `WriteResultsMirror`, `WriteDashboardMirror`, `AppendAudit`, `Return`;
this is the order of the calls in `checkout_task` and `_write_raw_queue`. A
transition shares everything but the decision and the run. Ready-for-review reads
the run without the lock, writes it back from that copy, looks the task up without
the lock and then makes a transition. `Crash(c)` may happen at any step; the kernel
drops the flock, the files stay. `granted`, `writes`, `logged` and `crashes` count
what happened and are read only by properties and bounds, except that agents name
only runs a checkout returned to them.

**TaskQueueSystem.** The unlocked handlers add `opc`, `change` and `copy`:
`OpenQueue` is `load_context` plus the checks made on the loaded copy, then an
optional long operation (`apply`, `pr`), then `SaveQueue`, two mirrors and, for
handlers that emit one, the audit event. A refused request is not a step. `list` and
`sync` save what they loaded (`Touch`), as `load_context` callers do. Each server
runs one handler at a time (`HTTPServer` is single-threaded) and answers the agent
API too. `clobbered` records whether any write replaced a queue other than the one
its writer had read; `silent` counts moves by product approval, which emits no event.

**PreviewReview.** A commit is the set of changes reachable from it, so ancestry is
inclusion and a fast-forward is a union. `jpc[j]` follows the script; the agent
(`AgentCommits`, `AgentEdits`) commits to whatever branch is checked out, as git
does. Approve and discard are `BeginApprove`/`BeginDiscard`, `CheckoutBase`, `MergeBranch`,
`DropBranch`, `Unlink`, a step per git command, any of which may fail as git makes it
fail; jobs and decisions interleave. `ServerDies` empties `running_fix` and lets the
script go on. `author`, `approved` and `overlapped` are history variables.

**Overnight.** `phase` is the phase of the cycle, `doing[t]` the item the background job
of target `t` is at, `tag[t]` the commit of the cycle's snapshot tag. FIX and BUILD run
one job per target, side by side; within a target an item is skipped or started, then
the agent leaves what it leaves, then tests and coverage judge. Every rollback is
`git reset --hard` of whatever branch is checked out then. VERIFY and DEPLOY visit the
targets one by one in any order (the configuration's is one of them). `MODIFIED_REPOS`
is a string searched with `grep -w` and edited with `sed \b`: `modified` is a set of
texts, `NamesIn` says which targets' names are words of a text, and `Strike` what is left
of it, as `-app` of `web-app` without `web`, in which `app` is found again. A rollback in
VERIFY or of a fix is `git reset --hard ... || true` and may do nothing (`RolledBack`).
`Report` reads the history and empties it as `open('w')` does, `FillHistory` writes it and
forgets the cycle; a kill between the two leaves a file that is read as no reports. `Stop`
is the stop file as well as a kill, and forgets the cycle. The rest of a job's result file
reaches the shell's variables when all jobs have ended; here at once, since nothing reads
it earlier and a kill loses it in both cases. `before`, `strayed`, `verified`, `shipped`,
`lastFail`, `streak` and `due` are history variables; the last three start again when the
history is lost.

**JobStatus.** `file` and `history` are `results/.jobs.json` and
`results/.jobs-history.json` (the copies under `dashboard/` are written right after
them and read by no command). An actor is a run (a request of the server, a `make`
command) or a job (an execution of an agent script); `at[a]` is what it does next,
`change[a]` and `copy[a]` the command it executes and what that has computed. `cp`
truncates and then writes: `Truncate` and `Write`, with `Garbage` in between; a command
that cannot parse what it reads writes `Garbage`, because its output is empty, and a
script that started on it exits (`set -e`). `JobStart` and `JobFinish` take the flock or
give up on it (`flock -w 5 ... || true`); `JobInit` and `Finalize` take none. `running`
is `running_jobs`, `served` the requests the live server is busy with or keeps a thread
for: `ServerDies` empties both and the scripts and subprocesses go on. The order in
which a batch launches is left open (the code has a fixed one). `ideal` and `recorded`
are what the calls made one at a time would have left; `disturbed` says that something
happened that takes the promise away: an init or a finalize while another run is at
work, two live jobs of one department, a wait given up, a kill between read and write.

**SafeApply.** `run[r]` is an invocation: the command on a batch, or the dashboard on
one finding. An attempt is a step per git command and per verification, in the order of
`apply_finding`, then an event. Exceptions go where the `try` sends them (`Raise`,
`RecordRaises`); git may refuse a worktree, a commit or a removal, a hook may refuse,
a log may not be writable, and a process may die between any two steps. The operator
checks branches out in the target meanwhile. Findings are positions of what
`_load_findings` makes of the two files; a verification is the set of checks that pass.
`ApplyPromise` has neither worktrees nor stages nor exceptions: of an attempt it knows the
report, the event, and whether it has a branch, a commit on it and a working tree. `Promise`
maps to these what shows of the attempts that are over (`Shown`); an attempt cut off by a
death or by git refusing to clean up is excused, and stays excused.

**BackOffice.** `focus` names the part that a behaviour exercises; the others rest.
The parts touch different files, so that every reachable state of each part is reached
without their product. What two parts have in common is modelled in the part where it
matters: the audit log is one of `AuditLog` alone (`TaskStore` counts its events), the
cost log is in `BudgetGate`.

* `Routines`, `AgentRegistry`, `AgentTokens`: an operation is the step that reads and
  the step that writes the copy back; a firing keeps its copy while the budget gate and
  the handler run. `overwrote`, `clobbered` and `exposed` note that another operation
  had its copy at the time, which the code does nothing about.
* `AuditLog`: names point to inodes. An append opens, and then writes to the inode it
  opened; a rotation looks at the size, and then renames, to a name made of the second.
* `BudgetGate`: the gate reads the log before `checkout_task` claims; a run reports its
  cost in as many events as it likes. `Budgets` is `evaluate` with its periods (hours)
  and the events whose time does not parse.
* `Adapters`: a caller loads the agent (`LoadsAgent`) and invokes later, with what it has;
  several may invoke one run. A handle is the adapter, the run and how it went; statuses
  are in memory, which `HostRestarts` empties.
* `ScanRunner`: the lock covers the tools only; the file, the second look at HEAD and
  the record come after it, each a step. `AuditPipeline`: the run lock covers scans and
  refresh of run-target and run-all; a plain refresh and the dashboard's scans take none. Payloads and backlog are emptied (`Truncate`) and
  filled (`FillPayload`, `FillBacklog`) in two steps, between which a command may die or
  another one open the file; `Lands` is what two that fill one file at once may leave. A
  findings file lists a hash any number of times, and the backlog counts each. Files that
  one stage writes one after the other with the same content are one payload.
* `RegressionRunner`: a report is the number of the run that wrote it, so that a stale
  one can be told; the summary of the run and the dashboard's are emptied and filled in
  two steps each. `SyncEngine`: files have versions, and each of the storage zone and
  the caches the version it has; a file that is read as a producer rewrites it may be cut
  short and goes under its new version.
* `Figures`: a behaviour is one input of `Scanners`, `Aggregate`, `Budgets` or
  `DomainRecords`, and the invariant `EveryInputAddsUp` is the conjunction of what must
  hold of the result: a cut report has the worst findings (`PayloadKeepsWorst`), totals,
  lists, backlog and audit log agree (`BoardAddsUp`, `AuditLogAgrees`), a second
  rewriting of a record changes nothing (`RecordsSettle`), longer windows cost no less
  and costs only tighten a decision (`WindowsNest`, `CostsOnlyTighten`).

## Runs

| Run | Expectation | What it shows |
|---|---|---|
| `task_store` | pass | two processes, two agents, two tasks: claims are exclusive (`SingleHolder`), pointers name runs and no task is checked out without one (`PointersAgree`), the audit log lags by at most the writers under way and the deaths (`AuditLossBounded`), mirrors agree when nobody writes (`MirrorsSettle`), ended runs stay ended (`RunsNeverRevived`), and the whole implements `TaskClaim` |
| `task_store_live` | pass | the lock is always given back (`LockReleased`) |
| `queue_system` | pass | with the unlocked writers added, a claim is lost or an illegal move written only after a lost update (`HoldersUnlessClobbered`, `MovesLegalUnlessClobbered`); the audit count holds even then (`EventsMatchWrites`) |
| `preview_review` | pass | as long as no two of {fix jobs, decision} are under way at once, preview fixes reach the default branch only by approval, approved work stays there and undecided previews keep their commits (`PreviewIsolatedUnlessOverlap`, `ApprovedStays`, `UndecidedIsIntact`); without a death there is one fix job at a time (`OneFixAtATime`) |
| `overnight` | pass | two cycles over three targets: provided every snapshot of a target was taken on its default branch, no rollback, kill or restart costs that branch a commit it had at the snapshot (`DefaultKeepsCommits`), and neither work in progress nor an ungated or failed feature gets there (`FeaturesGated`); what is deployed is the very tree VERIFY passed (`ShippedWasVerified`), even for names that are words of each other, or of what a rollback leaves of one |
| `overnight_memory` | pass | six cycles over one target: a reported failure holds its item back for the window (`RetryWaits`), two reported rollbacks in a row hold the target back until it is cleared or the history has dropped the first of them (`QuarantineLasts`), over stops, kills and restarts; what ends both is a kill while the history is rewritten |
| `jobs` | pass | two of a sequential batch and a scan of the server and a parallel `make` batch, in every interleaving, with one fault: while undisturbed, every call leaves its mark (`EveryCallCounts`) and no run is called complete while an agent it lists works (`CompleteMeansDone`); one server never runs two scripts of a department (`OneJobPerDepartment`); no run gets stuck on the flock or on a batch's thread, killed and aborted scripts included (`NoRunIsStuck`) |
| `safe_apply` | pass | two invocations beside an operator, one fault anywhere: the whole implements `ApplyPromise` (`ImplementsPromise`): an attempt shows in the repository once, as it reports and as the policy admits, and what it left stays; what is reported applied is committed, broke no check and was allowed (`AppliedIsCommitted`), a batch keeps to its filters, cap and order (`BatchKeepsToRequest`) |
| `back_office` | pass | each part with its concurrent users, deaths and faults: `RoutinesObeyDecisions`, `StatusIsTheOperators`, `TokensKeepDecisions`, `RotationKeepsEvents` (no event is lost unless two writers rotate within a second), `OverrunIsBounded` (an agent overruns its hard limit by what was let through before), `SuccessIsReal` (no handle answers with success for a run of which no command succeeded), `AssignedCanDoIt`, `UndisturbedSkipIsCurrent`, `BoardKeepsUp` and `BacklogKeepsHistory` (but for the file a command dies rewriting, and for refreshes that overlap), `LatestIsHonest`, `SyncedIsServed`, and `EveryInputAddsUp` for the pure computations |
| `stale_checkout`, `lost_update`, `apply_fix` | violation | the findings below |

Each property of a passing run has a mutant, an operator of the same module that
changes one definition the way a plausible bug would (a flock that does not wait, a
queue written before its run, a merge whose outcome is ignored, a HEAD recorded before
the file is written); with it the run fails on that property.

## Bounds, symmetry and views

`MaxWrites` bounds status changes, `MaxCrashes` deaths, `RunIds` the runs, `Changes`
the commits. Bounds are in guards of actions that start something, so what has
started always finishes.

* `task_store`: 2 processes, 2 agents, 2 tasks, 3 runs, 4 writes, 1 death. Races are
  between pairs of processes over one file; a claim, a return to ready, a second
  claim and an end of run take three or four writes; the second task shows that a
  write of the whole queue carries the others along. The theorems remove the bounds.
* `queue_system`: one server, one command, 1 task, 2 runs, 3 writes, 1 death: a lost
  update needs two writers, a doubled claim two runs and three writes.
* `preview_review`: 2 jobs, 3 changes, 2 deaths: two previews of one base (the second
  no longer fast-forwards), one stacked on the other, a direct fix next to a preview,
  an orphan next to a new job, and both deaths around one decision.
* `overnight`: 3 targets, 1 fix and 1 feature of one of them, 2 cycles, 1 stop. What a
  kill or a rollback leaves is met by the next cycle's snapshot, so two cycles suffice; a
  feature parked in the first is in the way in the second. The targets without items are
  there for the word search: their names are the two words of the first one's. A history
  of 1 makes the truncation happen.
* `overnight_memory`: 1 target, 1 fix, 6 cycles, 1 stop, a history of 4, window and
  threshold 2: two rollbacks, the skipped cycles after them until the first of the two
  drops out of the history, and one more; with the stop in the middle of a report, too.
* `jobs`: 3 runs of which 2 are made, 2 departments, 1 fault (a wait given up, a kill or
  a death of the server). Two scripts contend for the flock in a parallel batch; a scan
  joins a batch, replaces its file or is refused; the batch waits for the scan's job.
  One fault is enough to leave each kind of debris for all that follows. Outcomes are
  "done" for complete and error alike: no property tells them apart.
* `safe_apply`: 2 invocations, 1 fault, 3 policies, 6 findings in two files of which one
  is in both: a batch of a cap of two with a more severe finding behind a less severe
  one, the dashboard on the same finding at the same time, a dry run of each.
* `back_office`: routines 2 callers, 4 declarations of which one is invalid, time up to 4;
  agents 2 callers, 3 roles of which one is unknown; tokens 2 of one agent, 2 callers;
  audit 3 writers, 6 events, 2 seconds, so that two rotations meet in one second; gate 3
  sessions of 2 agents, a soft and a hard limit, costs up to 7; adapters 2 callers, 5 runs, one
  for each way of being admitted or not; router 2 backends, 4 changes of health; scans 2
  scanners, 3 commits; pipeline 2 commands, 1 target, 1 department, 2 findings, one that
  may be listed twice and one that cannot be normalised, 2 scans, counts up to 3 before a
  merge (`MaxCount`) and 1 refresh that begins during another (`MaxOverlaps`); regression 3
  targets of 2 kinds, one incomplete, 2 workers, 2 runs, 2 seconds; sync 3 targets, two of
  them on one path, with and without opt-in, cache and repository, 2 kinds of sync, 2 tries, 2 versions of a file; figures about
  50,000 inputs: every way a tool can fail or report up to two items, findings files of
  up to two of five findings (`MostFindings`), cost logs of up to three events
  (`MostCosts`) under four lists of budgets at three times, every class, field and kind of value of a stored record.
* `task_store_live`: as `task_store` with 1 task and 3 writes, no symmetry.

Processes, agents and runs (jobs and changes; the callers of `back_office`) are symmetric:
nothing compares them.
`queue_system` uses the view `WithoutMirrors`: mirrors are written and never read, so
states that differ only in them have the same future, and none of its properties
mentions them. Deadlock checking is off because a bounded system stops when its
bounds are spent.

## Fairness

Safety runs assume none. `FairSpec` has weak fairness of `Step(c)` for each process: a
handler under way keeps going, since each of its steps is a file operation that
returns. Nothing is assumed of who gets a contended flock, of arriving requests or of
deaths. `LockReleased` needs only that the holder goes on. That a waiting process is
served eventually is not claimed: `flock` promises no order.

`NoRunIsStuck` needs no fairness: it says that a step is possible as long as a run is
under way. Runs then end because each step of `Work` brings its actor closer to its end,
which is the theorem `WorkEnds`.

## Proofs

`TaskStoreProofs` proves, for every value of the constants that satisfies the
assumptions of `TaskStore`, all safety properties of `task_store`:

| Theorem | Property |
|---|---|
| `Inductive` | `IndInv` |
| `TypeCorrect`, `ClaimIsExclusive`, `PointersStayConsistent`, `MirrorsFollow`, `AuditLossIsBounded` | `TypeOK`, `SingleHolder`, `PointersAgree`, `MirrorsSettle`, `AuditLossBounded` |
| `NoRunIsRevived` | `RunsNeverRevived` |
| `StoreImplementsClaims` | `ImplementsTaskClaim` |

The inductive invariant is needed because the properties speak of files and the
reason they hold is in the memory of the processes:

* `LockOwner`: who holds the lock is exactly who is at a label inside it;
* `CopyIsCurrent`: past the load, the copy in memory is the queue on disk;
* `RequestShape`: what each label says about the request (operation, ids, states);
* `RunIsReserved`: the run id of a checkout under way is nobody else's, and its file
  is absent or the checkout's own;
* `DecisionStands`: what the decision found (a checkoutable status, no live run, a
  legal move) is still so when the write happens, although runs change outside the
  lock: they can only end;
* `GrantedIsPointed`: a granted run that is alive is the one its task points to. This
  is why a task that went back to ready with a live run cannot be claimed by
  another agent, and it gives `SingleHolder`;
* `PointersAgree`, and the bookkeeping of mirrors and events
  (`MirrorLag`, `AuditLag`).

There is one lemma per action; the answers share `AnswerShape`, the ends of runs
`EndedRunInv`. The refinement maps the holder of a task to the agent of the live run
its pointer names; `WriteQueue` of a checkout is `Claim`, that of a transition `Move`,
`FinishRun` and `CancelRun` are `EndClaim` or a stutter, all else is a stutter.

Assumptions: `InitialStatusesAssumption` (no task is born checked out; `create
--status checked_out` would break `PointersAgree`), `TransitionTargetsAssumption`
(only checkout moves a task to checked_out, which the callers in the repository
respect), `NoneIsNew`, `BoundsAssumption`.

`QueueSystemProofs` proves the three properties of `queue_system`, for any servers,
commands, agents, tasks and runs (`QueueInvariant`, `HoldersUnlessLost`, `EventsMatch`,
`MovesStayLegal`, the last an action property). With writers that take no lock, most of
`IndInv` is false: a copy past the load need not be the queue on disk. What is left is
`SysInv`:

* `LockOwner`, `RequestShape` (from `TaskStoreProofs`) and `OneHandlerEach`: who is where;
* `Files`: whatever has been overwritten, the run of a checkout under way is its own
  (`RunIsOwn`), each pointer on disk or in the memory of a handler names a run of its task
  (`PointersHold`), and what was decided holds of the copy that will be written (`Decided`);
* `ChangeIsDue`: an unlocked handler that will emit an event moves a task its copy holds,
  along the table;
* `EventsCounted`: `EventsMatchWrites` with the finite set of handlers that owe an event;
* `NothingLost`, only as long as no write replaced a queue its writer had not read: the
  pointers of a copy loaded under the lock are those on disk, and a live run an agent holds
  is the one its task points to.

The assumptions are those of `TaskStore`, with `ProcessesAssumption` and
`CommandsAssumption` (no command sets checked_out).

`PreviewProofs` proves the four properties of `preview_review` for any finite set of
jobs, any changes and any number of deaths (`PreviewInductive`, `FixesAreAlone`,
`PreviewsStayIsolated`, `ApprovalsLast`, `UndecidedKeepTheirBranch`). It rests on
`GitProofs`, where each git command of `GitRepo` is described once: what a well-formed
repository is afterwards, which branches moved and where to. Two of the properties speak
of histories in which no two jobs and decisions overlapped; why they hold then is in
`PreviewInv`:

* `Stages`: who is at which step of the script or of a decision, and what that step
  left: the base it read, its branch, its artifact, what is checked out;
* `Registered`: what `running_fix` says of the jobs that are alive, as long as the server
  never died;
* `Apart`, while nothing overlapped: at most one of {live job, decision} exists, the
  branch it works on is the one checked out, and what is on the base and on each preview
  branch was made by those who could.

Assumptions: a branch name is neither the default branch nor "no job", the set of jobs
is finite, the bound on deaths is a number.

`PartsProofs` proves the thirteen properties of `back_office`, each for any number of
callers, tokens, runs, scanners, commits, targets, files or findings, and for the whole
`Spec`: a part either steps or rests.

| Theorem | Property | Invariant |
|---|---|---|
| `RoutinesObey` | `RoutinesObeyDecisions` | while no two operations overlapped, the record has the time of the last run, and a scheduled firing was due on the copy it holds |
| `RegistryObeysOperator` | `StatusIsTheOperators` | while no two operations overlapped, the copy of whoever is about to write is the record, and the write carries the status of the last decision |
| `TokensKeep` | `TokensKeepDecisions` | for tokens no other operation had loaded, every copy in memory agrees with the file |
| `SuccessesAreReal` | `SuccessIsReal` | only a dry run or a clean exit is remembered as a success, and the handle of a dry run is no other's; a restart forgets, and adds nothing |
| `UndisturbedSkips` | `UndisturbedSkipIsCurrent` | while undisturbed at most one scan is under way, and what is recorded, or about to be, is the commit of the file |
| `AssignmentsAreAble` | `AssignedCanDoIt` | the property itself: an assignment reads the cache and says what it saw |
| `LatestIsTrue` | `LatestIsHonest` | every summary in the making has what its tests returned; while no two regressions met in a second, each has its directory to itself and the reports in it are its own; who has a file open to itself writes it whole (`RegressionInv`) |
| `BoardsKeepUp`, `BacklogStays` | `BoardKeepsUp`, `BacklogKeepsHistory` | while refreshes did not overlap, one is under way at most and has the file it fills to itself, the stages behind it show what is due, the backlog is the history of merges or is being written from a copy that is (`PipelineInv`) |
| `SyncIsServed` | `SyncedIsServed` | the storage zone has what was promised, no cache has less, and what a run has seen of a file is in the storage zone or still on the run's list (`SyncInv`) |
| `RotationLosesNothing` | `RotationKeepsEvents` | while no two rotations met in a second, the inode of each open append has a name and the named ones have all events (`AuditInv`) |
| `OverrunsAreBounded` | `OverrunIsBounded` | what an agent has cost and may still cost together is below its hard limit and what was at risk when a session of it was last let through (`GateInv`) |
| `EverythingAddsUp`, from `ScansReportWorst`, `FilesAddUp`, `RecordsAllSettle`, `SpendingTightens` | `EveryInputAddsUp` | the input is of the kinds the constants name (`FiguresInv`); the rest is lemmas about the operators |

In `AuditInv` a count does the work: used inodes are at most the events, the appends under
way and the current log, so that one is always free for a new log and never one in use.
`GateInv` is about two sums: the events of the cost log, and what each session may still
report. The models add up with `MapThenSumSet`, a fold in the order `CHOOSE` happens to take
the elements; `SumOver` is that fold, and `SumsExist`, `SumFnAdds` and `SumOfRest` show that
any element may be taken out first. That needs an induction over the subsets, made by a
least counterexample (`FromNull`) because the library's induction theorems cannot be
instantiated here. With them a step is arithmetic: an event more is a unit more (`SpentAfter`)
and one owed less (`GateBooks`), and the gate counts at least what the agent's own events
cost, whatever else falls under its budget (`GateCounts`).

`EveryInputAddsUp` is about computations, and its proof is one lemma for each of them, for
results, files, logs and records of any size:

* `PayloadDoesKeep`: a finding is at a place, <<which tool, which of its findings>>, and
  places are ordered. The findings ahead of a kept one are finitely many and less than
  those ahead of a dropped one behind it (`Ahead`), so the cap cuts from the end. Each tool
  keeps to `SoundResult`: it ends well, raised, or left a note.
* `BoardHolds` and `AuditHolds`: `MergedOf` says what a merge makes, the agent's findings in
  front and each new hash of the tools' once. The totals are the classes of one partition of
  the rows by severity, and so are the trust classes; the hashes of the backlog and those
  of the merge correspond one to one unless a file is blank.
* `RecordsDoSettle`: each way of reading a key settles on the values it returns, and a class
  is a list of ways.
* `WindowsDoNest` and `CostsTighten`: a window within another has a subset of its events, so
  that its sum is no larger; a longer log has the shorter one's events and one more.

The folds and sorts of the code are stated by what they select, as sets of places or
indices and their order, because what a fold computes for every input is an induction
that the provers cannot instantiate here. The proof showed one hypothesis that the small
instance does not need: the audit log and the score history agree on the score only if the
summary has no score of another department's (`OwnScore`); each agent is asked for its own.

`SyncedIsServed` is about remote files with one source (`OneSource`): two targets of one
path but different repositories overwrite each other, and what visitors then get depends on
the order of the configuration.

Assumptions: `DeclaredAssumption` (a declaration has a kind of trigger and action and a
natural interval), `RolesAssumption`, `OwnersAssumption`, `BackendsAssumption` (no backend
has the empty name, which stands for none), `SuitesAssumption`,
`RegressionBoundsAssumption`, `DeptsAssumption` (there is a department), `SyncAssumption`,
`AuditBoundsAssumption` and `GateAssumption` (types and finiteness), `MonthsAssumption` of
`Budgets` (months begin at midnight), and `FiguresAssumption` (the kinds of the inputs:
costs, limits, caps and times are natural, a tool's items are a list, the tools of a scene
exist).

`JobStatusProofs` proves the three safety properties of `jobs` for any runs, jobs, faults
and deaths of the server (`JobsInvariant`, `CallsCount`, `CompleteIsDone`, `OneJobEach`).
Of `JobsInv`, three parts hold always: `JobTypes`; `Staged`, a run launches its jobs between
its two commands; `Known`, what the server that is up knows of its jobs, with the job a
sequential batch waits for. The fourth, `Orderly`, holds until something disturbs the file:
who is inside a command of a job has the flock, what it has computed is what its call makes
of the ideal file, and which of `file` and `history` already have that depends on the step
(`Progress`). `RunsAssumption` says how jobs and runs belong together, that there are
finitely many jobs, and that `Garbage` is no set of runs.

`NoRunIsStuck` says `ENABLED`, which the provers do not know. What it rests on is proved:
`SomebodyCanWork`, that while a run is under way somebody's guard holds (`CanWork` writes the
guards out), and `WorkEnds`, that every step of `Work` takes its actor closer to its end and
none away from it. The first needs `Waits`: who has the flock is inside a command, and what
the server keeps a thread for is alive, so that whoever waits waits for somebody who can move.
The second has a number for each actor (`JobLeft`, `RunLeft`): the steps that are left to it,
and for a run two for each job it has yet to launch. That a guard that holds makes the step
possible is left to TLC, which checks both conjuncts side by side.

`SafeApplyProofs` proves the three properties of `safe_apply` for any findings, invocations,
policies and faults (`SafeInvariant`, `AppliedCommitted`, `BatchInBounds` and, last,
`ApplyKeepsPromise`), and `NothingLeft`, that an attempt leaves a branch only for an applied
fix and a worktree only for an uncommitted one.
`SafeInv` says of each invocation which part of its batch is done (`InTurn`) and of the
attempt under way what its stage promises (`Stage`: past the checks, committed, or about
to be removed) and has in the repository unless stranded (`Holding`); of the others, that
what is recorded as applied is committed and that no check was worsened before the attempt
began. A batch is the first `max` of a sorted selection. The order is stated as a relation
(`InOrder`) that exactly one sequence satisfies, which is what a stable sort by severity
returns; that it lists each finding once is a pigeonhole argument on the number of
findings before each (`InOrderIs`).

The refinement (`ApplyKeepsPromise`) needs `PromiseInv` besides: git has no branches and
worktrees but those of attempts, nobody commits to the default branch, no branch has a fix
that is not made, and an uncommitted fix comes from a request and a policy that admit it.
The two together give `ShowsAsReported`: what the refinement mapping shows is exactly what
the attempts that are over report. A step then maps to a step of `ApplyPromise` by what it
does to reports, events and excuses alone: the step that records an outcome is `Over`, the
start of an invocation `Request`; a death, an exception while recording or a removal that
git refuses is `BreakOff`, or nothing if the attempt was excused already; and the
rest, with all that happens in worktrees, changes nothing that shows.
`FilesAssumption` types the findings. `RequestsAssumption` keeps `--max-changes` natural:
the code takes a negative one as a Python slice from the end, which is outside the model.

`OvernightProofs` proves, for any number of targets, items, cycles, stops and kills, that
no rollback costs a target's default branch a commit of the snapshot, that the default
branch gets nobody's work in progress and no feature that may not be merged or that failed,
and that what is deployed is what VERIFY passed (`LoopInductive`, `DefaultIsKept`,
`FeaturesStayGated`, `ShippedIsVerified`). It rests on `GitProofs` and on the assumptions
`ItemsAssumption` (items, branches and `None` are distinct, a fix is no feature) and
`LoopBoundsAssumption`. The properties are not inductive: they speak of the default branch,
while a merge brings in whatever is on a feature's branch and a rollback whatever the tag
names. The invariant `LoopInv` therefore says of every branch what it may hold:

* `LoopTypes`: the types, every repository well formed with its default branch in it;
* `TakenOnce`: an item at work is in its phase, at its target, no longer in the plan and
  not among the failed ones; a feature at work has its own branch checked out;
* `Verified`: from VERIFY's visit on, a target that is still listed as modified is as the
  tests saw it. It needs of `Struck` that a target that was rolled back is in no text any
  more, and that no text names a target it did not name before (`NamesAssumption`);
* `Untouched`, for the targets never tagged with another branch checked out: the tag is
  the default branch as it was at the snapshot (`TagApart`); no branch but the one somebody
  works on holds their commits; a feature's commits are on its own branch or, where merging
  is allowed and the feature of this cycle has been decided, on any (`MayHold`).

A step changes one repository and decides at most one item: `UntouchedMoves`, `ApartMoved`,
`ApartAgent`, `ApartReset` and `ApartMerged` say what that leaves of the third and fourth
part, once per kind of git command, and each action's lemma cites them.

The two properties of `overnight_memory` (`MemoryInductive`, `FailedItemsWait`,
`QuarantineHolds`) speak of what really happened in earlier cycles (`lastFail`, `streak`,
`due`), the code of what the history has of it. `MemoryInv` ties the two, for the file or,
while that is rewritten, for the copy in memory (`Drafted`):

* `FailuresAreIn`: a failed item is in a report no further from the end of the
  history than there were cycles since, or these were as many as it is remembered for.
  A cycle that is stopped leaves no report, so the distance can be smaller;
* `StreaksAreIn`: the last reports have the streak of each target, as far as the history
  goes back, and a full one is somewhere in it, with as many reports before its first as
  its quarantine is still to last.

`LastOfHistory` and `RememberKeeps` say where an entry is after a report is appended and
old ones are cut off. `HistoryAssumption` asks for a history at least as long as the window
(the code has 50 and 2).

Only model-checked: `LockReleased` (liveness) and, of `NoRunIsStuck`, that the guards make
the steps possible (ENABLED). What the violation runs refute is false.

## Findings

What the code does and a text of the repository says otherwise, each shown by a
violation run (quoted in `PROJECT.json`):

* `stale_checkout`: cancel of a run leaves its task checked out, and no later checkout
  accepts it, although the documentation says the next one proceeds.
* `lost_update`: a task command saves a queue it loaded before a checkout; the claim is
  gone and a second agent gets a live run of the task.
* `apply_fix`: apply-fix admits only ready tasks and then asks for a move to
  ready_for_review, which ready does not allow: 409, fix on its branch, task still
  ready.

Seen and not given a run of their own, by part.

*Queue and loop.* Approval of a suggested product sets its status
without the transition table and emits no event (`MovesLegalUnlessClobbered` and
`EventsMatchWrites` set it apart), while docs/task-lifecycle.md:5 promises both for every
change; a fix agent that fails after a commit is not rolled back; the rollback of one fix
takes earlier good ones of the cycle along; the history is cut to the last 50 reports
and cycles that skip a quarantined target report too, so the flag is gone after about 50
cycles, though `overnight_state.py:16` has it last until an operator clears it. The
history is rewritten in place and read as empty when it does not parse (`overnight.sh:278`,
`289`), so that a kill as a report is written forgets every failure and lifts every
quarantine, though the ledger and the summaries of the cycles stay. With another
branch checked out at the snapshot, a feature leaves the default branch checked out and
the rollback of VERIFY resets it to the other branch's commit (`scripts/overnight.sh:1055`,
against line 27; `DefaultKeepsCommits` excludes such targets).

*Scan jobs.* `_write_jobs` is commented as an
atomic write (`job-status.sh:24`) but copies over the file, so that run-scan may read it
truncated and, instead of merging (`api_server.py:381`), initialise it over the run in
progress; a run whose script was killed is finalized as complete.

*Previews.* Approve checks the base out under a running preview job, whose next commits
land on the default branch unreviewed (`review.py:134`, against the "isolated" branch of
`agents/fix-bugs.sh:11`; `PreviewIsolatedUnlessOverlap` excludes it). A refused fast-forward
leaves the repository on the base (`review.py:117` says it stays on its current
branch); a failed return to the base stacks the next preview on this one, and
discarding this one leaves the other undecidable.

*Control plane.* `budgets.evaluate` filters the events by the caller's context before it
sums, so that at the gate a global budget is one per agent, which docs/budgets.md:36 does
not say. The docstring of `compat.py` has the latest matching entry of the history where
the first is taken; that of `models.py` claims that every model keeps unknown fields, which
CostEvent, Workspace, AdapterConfig, Agent, Actor and AuditEvent do not; that of
`portable.py` that a redacted value leaves the existing one alone, which becomes "".
A resumed agent is active even if it had been retired. Nothing but plugins, a smoke test and tests uses
the adapters, which ask the agent they are given, not the record, whether it is active;
two invocations of one run share a handle, and the answer is that of the later end; a status is forgotten at a restart and then reads failed, cancel cancels
nothing (the noop adapter says it did), a backend's timeout is reported as failed. The
router keeps the health it first saw until somebody asks it to look again.

*Scans and figures.* The lock of a scan is given back before its output is written
(`scanners/runner.py:7` has the whole scan under it), and a scan that a commit interrupts,
or one with `--tools` or `--out`, is recorded like any other, so that later ones are
skipped though `scan_state.py:6` has commits landed (`SkipsOnlyUnchanged` in `ScanRunner`
states it and is not checked). A tool that times out leaves no status finding; the status
finding that `dept_tools.py` promises for monetization and product is not made. The
monetization agent's findings carry "value", and count as info. A bad trust class or a
missing id ends aggregation in the middle, with old and new payloads side by side.
`audit_count` counts listings, two of them when one refresh finds a title and file listed
twice. A
department's score of 0 is left out of the score history. The audit log ignores tool
findings and the overall score, and gives a clean repository 100 where the board has none.
The score history takes the first of any department's scores that a summary has, the audit
log the department's own.
The hash of the merge and that of the backlog differ for a finding with an empty file and a
location. Backlog, score history and all payloads are rewritten in place: a command killed at it
leaves an empty file, and takes back what one that succeeded had published there
(`BoardKeepsUp` and `BacklogKeepsHistory` say how far that goes).

*Regression and sync.* Incomplete targets count neither way, so a regression of nothing
exits with 0; a stale coverage report is taken when the coverage command succeeds without
writing one; a directory that is missing ends the run without a summary; a regression
killed as it writes the dashboard's payload leaves none, not the one before. A purge that
fails leaves the exit code at 0, and the caches with what they have. Previews of all
repositories are published to the targets of one; nothing is ever deleted from the storage
zone; uploads set no cache control, whatever the manifest says.

## Not modelled

In the modelled parts: the log endpoint (it appends a line), unreadable YAML and disk
errors (the handler raises before it writes, or is a death), GitHub's side of request-pr,
the completion gates of `complete`, colliding task ids, `create --status checked_out`;
in `PreviewReview` fix scripts started by hand,
`--deploy`, a detached HEAD, untracked files apart from edits, and agents that switch
branches themselves.

In `Overnight`: policies (an item or a deployment a policy forbids is one the plan or
`AutoDeploy` does not have; `require_clean_worktree` is taken at its default), audits,
ledger and coverage tool, agents that switch branches, operators at work in the targets
during a cycle, targets outside `--targets` (no tag, no VERIFY), the date in the names of
feature branches (cycles of one day share them, which is the case modelled).

In `JobStatus`: the same handlers in the dashboard server (a second server, with a
`running_jobs` of its own), commands that run the departments of a target one by one
(`audit-all`, `run_target`), the two waves of `audit-all-parallel` (one is modelled),
fix and feature scripts (they report like the others), kills of init and finalize,
scores, timestamps, findings files and the limit of 50 runs in the history.

In `SafeApply`: what a strategy edits, and targets that are no git repositories. In
`BackOffice`: two syncs at once, the deletion of remote files (the code calls it nowhere),
triage by a model service, the parsers of single tools below the fields that become
findings, delivery and dashboard data (their content; their place among the stages of a
refresh is modelled), the weights of scores, the reconciliation of agents that a refresh
does at its end (`AgentRegistry` has it as an operation), the legacy conversions of
`compat.py`.

Other parts: listed in `PROJECT.json` with the reason. Backends, deployment control and
the dashboard are calls to outside services or presentation; setup, plans and bundles
compute files from files with nothing concurrent.

## Plan

1. Done: the task queue (`StateMachines`, `TaskClaim`, `TaskStore`, `TaskQueueSystem`),
   the repositories (`GitRepo`, `PreviewReview`, `SafeApply` with `Policy`), the loops
   (`OvernightState`, `Overnight`, `JobStatus`) and the parts of `BackOffice`.
2. Done: the proofs of `TaskStoreProofs`, `QueueSystemProofs`, `PreviewProofs`,
   `OvernightProofs`, `JobStatusProofs`, `SafeApplyProofs` and `PartsProofs`, that is of all
   safety properties but the ENABLED half of `NoRunIsStuck`, and of both refinements.
3. Next models: approvals, and portable bundles (import of an export settles);
   `TaskQueueSystem` with `ApplyPromise` in place of the outcome of apply that it takes as
   an input.
4. Next proofs: an abstract specification of the preview decisions (all or nothing unless
   git refuses) that `PreviewReview` implements.

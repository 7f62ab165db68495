--------------------------- MODULE TaskQueueSystem ---------------------------
(***************************************************************************)
(* The whole task queue: the locked store of TaskStore together with the   *)
(* handlers that never moved onto it.  The dashboard server                *)
(* (backoffice/server.py) and the task commands (backoffice/tasks.py) load *)
(* the queue with load_context, change one task and write the whole queue  *)
(* back with save_payload, and none of them takes the task-queue lock.     *)
(* Each process runs one handler at a time (HTTPServer is single-threaded, *)
(* a command is a process of its own); the server also answers the agent   *)
(* API.                                                                    *)
(***************************************************************************)
EXTENDS TaskStore

CONSTANTS
  Servers,        \* clients that are dashboard servers
  Commands,       \* clients that run task commands
  CommandTargets, \* statuses the task commands set
  NewStatuses     \* statuses the task commands give a new task

ASSUME ProcessesAssumption ==
  /\ Clients = Servers \cup Commands
  /\ Servers \cap Commands = {}

(* start, block, review, complete and cancel set one of five statuses.
   seed-etheos creates ready and proposed tasks; create takes any --status
   unchecked, and the operator is assumed not to write "checked_out". *)
ASSUME CommandsAssumption ==
  /\ CommandTargets \subseteq {"in_progress", "blocked", "ready_for_review", "done", "cancelled"}
  /\ NewStatuses \subseteq TaskStates \ {"checked_out"}

VARIABLES
  kind,      \* task -> whether it is a finding_fix, carries a suggested product, or neither
  opc,       \* process -> the next step of the unlocked handler it runs
  change,    \* process -> the change that handler makes
  copy,      \* process -> the queue that handler loaded
  branches,  \* tasks whose fix apply_finding has left on a branch
  silent,    \* status changes written by handlers that emit no event
  clobbered  \* whether a write has discarded a change it had not seen

unlockedVars == <<kind, opc, change, copy, branches, silent, clobbered>>
sysVars == <<vars, unlockedVars>>

-----------------------------------------------------------------------------
Kinds == {"finding", "suggestion", "other"}

(* A change names no task when the queue is written back as it was read. *)
Changes == [task : Tasks \cup {None}, to : TaskStatuses, audited : BOOLEAN]

NoChange == [task |-> None, to |-> "absent", audited |-> FALSE]

ChangeTo(t, s) == [task |-> t, to |-> s, audited |-> TRUE]

SilentChangeTo(t, s) == [ChangeTo(t, s) EXCEPT !.audited = FALSE]

Idle(c) == pc[c] = "idle" /\ opc[c] = "idle"

(* Bound: as MayWrite, with the unlocked handlers counted in. *)
MayChange ==
  writes + Cardinality(Pending)
         + Cardinality({c \in Clients : opc[c] \in {"apply", "pr", "save"}}) < MaxWrites

SysInit ==
  /\ Init
  /\ kind \in [Tasks -> Kinds]
  /\ opc = [c \in Clients |-> "idle"]
  /\ change = [c \in Clients |-> NoChange]
  /\ copy = [c \in Clients |-> EmptyQueue]
  /\ branches = {}
  /\ silent = 0
  /\ clobbered = FALSE

-----------------------------------------------------------------------------
(* load_context and the handler's checks.  A request that is refused (404, *)
(* 409, exit status 2) writes nothing and is not a step.                   *)

OpenQueue(c, label, ch) ==
  /\ Idle(c)
  /\ MayChange
  /\ opc' = [opc EXCEPT ![c] = label]
  /\ change' = [change EXCEPT ![c] = ch]
  /\ copy' = [copy EXCEPT ![c] = queue]
  /\ UNCHANGED <<vars, kind, branches, silent, clobbered>>

(* Mutant: the dashboard does not check the transition. *)
ApproveUnguarded(c, t) ==
  /\ queue[t].status # "absent"
  /\ OpenQueue(c, "save", ChangeTo(t, "ready"))

Approve(c, t) ==
  /\ IsLegalTaskTransition(queue[t].status, "ready")
  /\ OpenQueue(c, "save", ChangeTo(t, "ready"))

CancelTask(c, t) ==
  /\ IsLegalTaskTransition(queue[t].status, "cancelled")
  /\ OpenQueue(c, "save", ChangeTo(t, "cancelled"))

RequestPr(c, t) ==
  /\ IsLegalTaskTransition(queue[t].status, "pr_open")
  /\ OpenQueue(c, "pr", ChangeTo(t, "pr_open"))

(* _handle_ops_product_approve looks at the payload and not at the status. *)
ApproveProduct(c, t) ==
  /\ kind[t] = "suggestion"
  /\ queue[t].status # "absent"
  /\ OpenQueue(c, "save", SilentChangeTo(t, "approved"))

(* queue-finding, product suggestion, mentor plan: a new task awaits
   approval; a finding that is queued already is saved back as it is. *)
QueueNew(c, t) ==
  \/ /\ queue[t].status = "absent"
     /\ OpenQueue(c, "save", SilentChangeTo(t, "pending_approval"))
  \/ /\ queue[t].status # "absent" /\ kind[t] = "finding"
     /\ OpenQueue(c, "save", NoChange)

ApplyFix(c, t) ==
  /\ kind[t] = "finding"
  /\ queue[t].status = "ready"
  /\ OpenQueue(c, "apply", ChangeTo(t, "ready"))

(* start, block, review, complete, cancel *)
UpdateStatus(c, t, s) ==
  /\ IsLegalTaskTransition(queue[t].status, s)
  /\ OpenQueue(c, "save", ChangeTo(t, s))

(* create, seed-etheos *)
CreateTask(c, t, s) ==
  /\ kind[t] = "other"
  /\ queue[t].status = "absent"
  /\ OpenQueue(c, "save", SilentChangeTo(t, s))

(* sync and list save what they loaded. *)
Touch(c) == OpenQueue(c, "save", NoChange)

-----------------------------------------------------------------------------
(* Long operations between the load and the save. *)

Proceed(c, label, ch) ==
  /\ opc' = [opc EXCEPT ![c] = label]
  /\ change' = [change EXCEPT ![c] = ch]
  /\ UNCHANGED <<vars, kind, copy, silent, clobbered>>

Finish(c) ==
  /\ opc' = [opc EXCEPT ![c] = "idle"]
  /\ change' = [change EXCEPT ![c] = NoChange]
  /\ copy' = [copy EXCEPT ![c] = EmptyQueue]

(* apply_finding left the fix on a branch, committed or (auto_commit off) in
   its worktree.  The move to ready_for_review is checked only now. *)
FixApplied(c) ==
  LET t == change[c].task
  IN  /\ opc[c] = "apply"
      /\ branches' = branches \cup {t}
      /\ \/ /\ IsLegalTaskTransition(copy[c][t].status, "ready_for_review")
            /\ Proceed(c, "save", ChangeTo(t, "ready_for_review"))
         \/ /\ ~IsLegalTaskTransition(copy[c][t].status, "ready_for_review")
            /\ Finish(c)
            /\ UNCHANGED <<vars, kind, silent, clobbered>>

(* Rolled back or failed. *)
FixFailed(c) ==
  LET t == change[c].task
  IN  /\ opc[c] = "apply"
      /\ IsLegalTaskTransition(copy[c][t].status, "blocked")
      /\ Proceed(c, "save", ChangeTo(t, "blocked"))
      /\ UNCHANGED branches

(* A dry run, or skipped: only the record of the run is added. *)
FixRecorded(c) ==
  /\ opc[c] = "apply"
  /\ Proceed(c, "save", NoChange)
  /\ UNCHANGED branches

PrOpened(c) ==
  /\ opc[c] = "pr"
  /\ Proceed(c, "save", change[c])
  /\ UNCHANGED branches

(* apply_finding raised, or gh failed or timed out: a 500, nothing saved. *)
Abandoned(c) ==
  /\ opc[c] \in {"apply", "pr"}
  /\ Finish(c)
  /\ UNCHANGED <<vars, kind, branches, silent, clobbered>>

-----------------------------------------------------------------------------
(* save_payload, then the audit event. *)

(* Mutant: ensure_task_defaults resets the pointer of the saved task. *)
ChangedWithoutPointer(c) ==
  IF change[c].task = None THEN copy[c]
  ELSE [copy[c] EXCEPT ![change[c].task] = [status |-> change[c].to, run |-> None]]

Changed(c) ==
  IF change[c].task = None THEN copy[c]
  ELSE [copy[c] EXCEPT ![change[c].task].status = change[c].to]

(* Whether the change is one the audit rules speak of: a task that was
   there before moves to another status. *)
Moves(c) == change[c].task # None /\ copy[c][change[c].task].status # "absent"

SaveQueue(c) ==
  /\ opc[c] = "save"
  /\ queue' = Changed(c)
  /\ copy' = [copy EXCEPT ![c] = Changed(c)]
  /\ clobbered' = (clobbered \/ copy[c] # queue)
  /\ writes' = IF Moves(c) THEN writes + 1 ELSE writes
  /\ silent' = IF Moves(c) /\ ~change[c].audited THEN silent + 1 ELSE silent
  /\ opc' = [opc EXCEPT ![c] = "results"]
  /\ UNCHANGED <<mirrors, runs, lock, pc, req, snap, granted, logged, crashes,
                 kind, change, branches>>

SaveResultsMirror(c) ==
  /\ opc[c] = "results"
  /\ mirrors' = [mirrors EXCEPT !["results"] = copy[c]]
  /\ opc' = [opc EXCEPT ![c] = "dashboard"]
  /\ UNCHANGED <<queue, runs, lock, pc, req, snap, granted, writes, logged, crashes,
                 kind, change, copy, branches, silent, clobbered>>

SaveDashboardMirror(c) ==
  /\ opc[c] = "dashboard"
  /\ mirrors' = [mirrors EXCEPT !["dashboard"] = copy[c]]
  /\ IF change[c].audited
     THEN opc' = [opc EXCEPT ![c] = "audit"] /\ UNCHANGED <<change, copy>>
     ELSE Finish(c)
  /\ UNCHANGED <<queue, runs, lock, pc, req, snap, granted, writes, logged, crashes,
                 kind, branches, silent, clobbered>>

(* Mutant: the handler answers without its event. *)
EmitNothing(c) ==
  /\ opc[c] = "audit"
  /\ Finish(c)
  /\ UNCHANGED <<vars, kind, branches, silent, clobbered>>

EmitAudit(c) ==
  /\ opc[c] = "audit"
  /\ logged' = logged + 1
  /\ Finish(c)
  /\ UNCHANGED <<queue, mirrors, runs, lock, pc, req, snap, granted, writes, crashes,
                 kind, branches, silent, clobbered>>

-----------------------------------------------------------------------------
(* The agent API, served by the same processes. *)
AgentRequest(c) ==
  /\ opc[c] = "idle"
  /\ Begin(c)
  /\ UNCHANGED unlockedVars

AgentStep(c) ==
  /\ Step(c)
  /\ clobbered' = (clobbered \/ (pc[c] = "write" /\ snap[c] # queue))
  /\ UNCHANGED <<kind, opc, change, copy, branches, silent>>

Die(c) ==
  \/ Crash(c) /\ UNCHANGED unlockedVars
  \/ /\ opc[c] # "idle"
     /\ crashes < MaxCrashes
     /\ crashes' = crashes + 1
     /\ Finish(c)
     /\ UNCHANGED <<queue, mirrors, runs, lock, pc, req, snap, granted, writes, logged,
                    kind, branches, silent, clobbered>>

Dashboard(c) ==
  \E t \in Tasks :
    \/ Approve(c, t)
    \/ CancelTask(c, t)
    \/ RequestPr(c, t)
    \/ ApproveProduct(c, t)
    \/ QueueNew(c, t)
    \/ ApplyFix(c, t)

Command(c) ==
  \/ \E t \in Tasks, s \in CommandTargets : UpdateStatus(c, t, s)
  \/ \E t \in Tasks, s \in NewStatuses : CreateTask(c, t, s)
  \/ Touch(c)

UnlockedStep(c) ==
  \/ FixApplied(c)
  \/ FixFailed(c)
  \/ FixRecorded(c)
  \/ PrOpened(c)
  \/ Abandoned(c)
  \/ SaveQueue(c)
  \/ SaveResultsMirror(c)
  \/ SaveDashboardMirror(c)
  \/ EmitAudit(c)

SysNext ==
  \/ \E c \in Servers : AgentRequest(c) \/ Dashboard(c)
  \/ \E c \in Commands : Command(c)
  \/ \E c \in Clients : AgentStep(c) \/ UnlockedStep(c) \/ Die(c)

SysSpec == SysInit /\ [][SysNext]_sysVars

-----------------------------------------------------------------------------
(* Properties. *)

(* Two live runs of one task are in agents' hands only after some handler
   has written back a queue it had read before another one changed it: the
   unlocked read-modify-write is the only way to lose a claim.  Without one,
   no dashboard action or command can, not even one that takes a claimed
   task back to ready. *)
HoldersUnlessClobbered == ~clobbered => SingleHolder

(* As long as nothing is lost, and product approval aside, a task on disk
   only moves along the table, although every handler checks a copy it read
   earlier. *)
MovesLegalUnlessClobbered ==
  [][\A t \in Tasks :
       /\ queue'[t].status # queue[t].status
       /\ queue[t].status # "absent"
       /\ silent' = silent
       /\ ~clobbered'
       => IsLegalTaskTransition(queue[t].status, queue'[t].status)]_sysVars

(* The audit log has an event for each change of status written, except
   those under way, one per death, and the product approvals; it never has
   an event for a change that was not written.  Lost updates do not affect
   it: the log then tells of both changes. *)
EventsMatchWrites ==
  LET unlogged == {c \in Clients : \/ pc[c] \in {"results", "dashboard", "audit"}
                                   \/ opc[c] \in {"results", "dashboard", "audit"}
                                      /\ change[c].audited}
  IN  /\ logged + silent + Cardinality(unlogged) <= writes
      /\ writes <= logged + silent + Cardinality(unlogged) + crashes

(* _handle_task_apply_fix: "Real apply: task transitions to ready_for_review
   (success)". *)
AppliedFixGoesToReview ==
  [][\A c \in Clients :
       opc[c] = "apply" /\ branches' # branches
       => opc'[c] = "save" /\ change'[c].to = "ready_for_review"]_sysVars

=============================================================================

------------------------------ MODULE TaskStore ------------------------------
(***************************************************************************)
(* FileStore (backoffice/store/file_store.py) and the agent API handlers   *)
(* that call it (backoffice/agent_api.py), as run by a set of processes    *)
(* that share one results directory.                                       *)
(*                                                                         *)
(* Shared files: the authoritative queue (config/task-queue.yaml), its two *)
(* JSON mirrors, one file per run, the audit log, and the flock sidecar    *)
(* results/.locks/task-queue.lock.  Every write is tempfile + os.replace,  *)
(* so a single file changes in one step; a handler that writes several     *)
(* files takes one step per file, and other processes run between them.    *)
(* Run files and the unlocked reads are outside the lock.  A process may   *)
(* die at any step: the kernel drops its flock, the files stay.            *)
(***************************************************************************)
EXTENDS Naturals, FiniteSets, StateMachines

CONSTANTS
  Clients,           \* processes that open the store
  Agents,            \* authenticated agent ids
  Tasks,             \* task ids, in the queue or not
  RunIds,            \* run ids uuid4 may produce (bound on the runs created)
  None,              \* no run, no task, no agent, no lock holder
  InitialStatuses,   \* statuses the queue may hold at the start
  TransitionTargets, \* to_state values callers pass to transition_task
  MaxWrites,         \* bound on the status changes of a behaviour
  MaxCrashes         \* bound on the process deaths of a behaviour

(* No task is born checked out. *)
ASSUME InitialStatusesAssumption ==
  InitialStatuses \subseteq (TaskStates \cup {"absent"}) \ {"checked_out"}

(* Only checkout_task moves a task to "checked_out": no caller of
   transition_task asks for it. *)
ASSUME TransitionTargetsAssumption ==
  TransitionTargets \subseteq TaskStates \ {"checked_out"}

ASSUME BoundsAssumption == MaxWrites \in Nat /\ MaxCrashes \in Nat

VARIABLES
  queue,    \* task -> status and current_run_id in task-queue.yaml
  mirrors,  \* the two JSON mirrors of the queue
  runs,     \* run id -> the run file, or None
  lock,     \* the process that holds the task-queue flock, or None
  pc,       \* process -> the next step of the handler it runs
  req,      \* process -> the arguments and locals of that handler
  snap,     \* process -> the raw queue it holds in memory
  granted,  \* run ids a successful checkout has returned to an agent
  writes,   \* status changes written to the queue so far
  logged,   \* task.transition events appended to the audit log so far
  crashes   \* process deaths so far

vars == <<queue, mirrors, runs, lock, pc, req, snap, granted,
          writes, logged, crashes>>

-----------------------------------------------------------------------------
(* Data.  "absent" stands for a task id the queue has no entry for. *)

TaskStatuses == TaskStates \cup {"absent"}
TaskRecord   == [status : TaskStatuses, run : RunIds \cup {None}]
Queue        == [Tasks -> TaskRecord]
RunRecord    == [state : RunStates, task : Tasks, agent : Agents]
MirrorFiles  == {"results", "dashboard"}

ASSUME NoneIsNew ==
  None \notin Clients \cup Agents \cup Tasks \cup RunIds \cup RunRecord

ActiveRunStates     == {"created", "queued", "starting", "running"}
CheckoutableStates  == {"ready", "queued"}

Labels == { "idle",
            "lock", "load", "decide", "create", "write",       \* read-modify-write
            "results", "dashboard", "audit", "unlock",
            "finish", "lookup",                                \* ready-for-review
            "cancel" }                                         \* run cancel

LockedLabels == {"load", "decide", "create", "write",
                 "results", "dashboard", "audit", "unlock"}

Request == [op    : {"none", "checkout", "transition", "ready", "cancel"},
            agent : Agents \cup {None},
            task  : Tasks \cup {None},
            to    : TaskStatuses,
            run   : RunIds \cup {None},
            seen  : RunStates]

NoRequest == [op |-> "none", agent |-> None, task |-> None, to |-> "absent",
              run |-> None, seen |-> "created"]

EmptyQueue == [t \in Tasks |-> [status |-> "absent", run |-> None]]

-----------------------------------------------------------------------------
(* Predicates. *)

(* get_run found a run in one of the states that still hold the task. *)
Active(r) == r # None /\ runs[r] # None /\ runs[r].state \in ActiveRunStates

(* A uuid no run file has and no checkout under way has drawn. *)
Unused(r) == runs[r] = None /\ \A c \in Clients : req[c].run # r

(* Processes between reading a request and writing the status it asks for. *)
Pending == {c \in Clients :
              /\ req[c].op \in {"checkout", "transition", "ready"}
              /\ pc[c] \in {"lock", "load", "decide", "create", "write", "finish", "lookup"}}

(* Bound: no request that may change a status once MaxWrites are in sight. *)
MayWrite == writes + Cardinality(Pending) < MaxWrites

(* Return to the caller; the with-block releases the lock if it is held. *)
Answer(c) ==
  /\ lock' = IF lock = c THEN None ELSE lock
  /\ pc'   = [pc EXCEPT ![c] = "idle"]
  /\ req'  = [req EXCEPT ![c] = NoRequest]
  /\ snap' = [snap EXCEPT ![c] = EmptyQueue]

-----------------------------------------------------------------------------
Init ==
  /\ queue \in [Tasks -> [status : InitialStatuses, run : {None}]]
  /\ mirrors = [f \in MirrorFiles |-> queue]
  /\ runs = [r \in RunIds |-> None]
  /\ lock = None
  /\ pc = [c \in Clients |-> "idle"]
  /\ req = [c \in Clients |-> NoRequest]
  /\ snap = [c \in Clients |-> EmptyQueue]
  /\ granted = {}
  /\ writes = 0
  /\ logged = 0
  /\ crashes = 0

-----------------------------------------------------------------------------
(* Requests.  handle_checkout calls checkout_task; the run id uuid4 will    *)
(* produce is drawn here, which nobody can observe before create_run.       *)

BeginCheckout(c, a, t, r) ==
  /\ pc[c] = "idle"
  /\ MayWrite
  /\ Unused(r)
  /\ req' = [req EXCEPT ![c] = [NoRequest EXCEPT !.op = "checkout", !.agent = a,
                                                 !.task = t, !.run = r]]
  /\ pc'  = [pc EXCEPT ![c] = "lock"]
  /\ UNCHANGED <<queue, mirrors, runs, lock, snap, granted, writes, logged, crashes>>

(* Any caller of the public transition_task.  Inside the repository the one
   caller is the ready-for-review handler below; the store's tests, and the
   handlers the source means to move onto it, call it with other targets. *)
BeginTransition(c, t, s) ==
  /\ pc[c] = "idle"
  /\ MayWrite
  /\ req' = [req EXCEPT ![c] = [NoRequest EXCEPT !.op = "transition", !.task = t,
                                                 !.to = s]]
  /\ pc'  = [pc EXCEPT ![c] = "lock"]
  /\ UNCHANGED <<queue, mirrors, runs, lock, snap, granted, writes, logged, crashes>>

-----------------------------------------------------------------------------
(* The locked read-modify-write of checkout_task and transition_task. *)

(* Mutant: the flock call does not wait. *)
AcquireLockWithoutWaiting(c) ==
  /\ pc[c] = "lock"
  /\ lock' = c
  /\ pc' = [pc EXCEPT ![c] = "load"]
  /\ UNCHANGED <<queue, mirrors, runs, req, snap, granted, writes, logged, crashes>>

AcquireLock(c) ==
  /\ pc[c] = "lock"
  /\ lock = None
  /\ lock' = c
  /\ pc' = [pc EXCEPT ![c] = "load"]
  /\ UNCHANGED <<queue, mirrors, runs, req, snap, granted, writes, logged, crashes>>

LoadQueue(c) ==
  /\ pc[c] = "load"
  /\ snap' = [snap EXCEPT ![c] = queue]
  /\ pc' = [pc EXCEPT ![c] = "decide"]
  /\ UNCHANGED <<queue, mirrors, runs, lock, req, granted, writes, logged, crashes>>

(* The task as the queue in c's memory has it. *)
Loaded(c) == snap[c][req[c].task]

(* The conflict answers of checkout_task; none writes anything. *)
CheckoutNotFound(c) == Loaded(c).status = "absent"

CheckoutAlreadyRunning(c) ==
  /\ Loaded(c).status # "absent"
  /\ Active(Loaded(c).run)
  /\ runs[Loaded(c).run].agent # req[c].agent

CheckoutWrongState(c) ==
  /\ Loaded(c).status # "absent"
  /\ ~Active(Loaded(c).run)
  /\ Loaded(c).status \notin CheckoutableStates

CheckoutConflict(c) ==
  CheckoutNotFound(c) \/ CheckoutAlreadyRunning(c) \/ CheckoutWrongState(c)

(* Mutant: the early return skips the release. *)
CheckoutRefusedUnderLock(c) ==
  /\ pc[c] = "decide" /\ req[c].op = "checkout"
  /\ CheckoutConflict(c)
  /\ pc' = [pc EXCEPT ![c] = "idle"]
  /\ req' = [req EXCEPT ![c] = NoRequest]
  /\ snap' = [snap EXCEPT ![c] = EmptyQueue]
  /\ UNCHANGED <<queue, mirrors, runs, lock, granted, writes, logged, crashes>>

CheckoutRefused(c) ==
  /\ pc[c] = "decide" /\ req[c].op = "checkout"
  /\ CheckoutConflict(c)
  /\ Answer(c)
  /\ UNCHANGED <<queue, mirrors, runs, granted, writes, logged, crashes>>

(* Mutant: the holder gets its finished run back, reopened. *)
CheckoutReopened(c) ==
  /\ pc[c] = "decide" /\ req[c].op = "checkout"
  /\ Loaded(c).run # None
  /\ runs[Loaded(c).run].agent = req[c].agent
  /\ runs' = [runs EXCEPT ![Loaded(c).run].state = "created"]
  /\ granted' = granted \cup {Loaded(c).run}
  /\ Answer(c)
  /\ UNCHANGED <<queue, mirrors, writes, logged, crashes>>

(* The agent that holds the live run gets it again. *)
CheckoutResumed(c) ==
  /\ pc[c] = "decide" /\ req[c].op = "checkout"
  /\ Loaded(c).status # "absent"
  /\ Active(Loaded(c).run)
  /\ runs[Loaded(c).run].agent = req[c].agent
  /\ granted' = granted \cup {Loaded(c).run}
  /\ Answer(c)
  /\ UNCHANGED <<queue, mirrors, runs, writes, logged, crashes>>

(* Mutant: a checkout that looks at the status and not at the run. *)
CheckoutByStatusAlone(c) ==
  /\ pc[c] = "decide" /\ req[c].op = "checkout"
  /\ Loaded(c).status \in CheckoutableStates
  /\ pc' = [pc EXCEPT ![c] = "create"]
  /\ UNCHANGED <<queue, mirrors, runs, lock, req, snap, granted, writes, logged, crashes>>

(* Mutant: the queue is written before the run it points to. *)
CheckoutQueueFirst(c) ==
  /\ pc[c] = "decide" /\ req[c].op = "checkout"
  /\ ~Active(Loaded(c).run)
  /\ Loaded(c).status \in CheckoutableStates
  /\ pc' = [pc EXCEPT ![c] = "write"]
  /\ UNCHANGED <<queue, mirrors, runs, lock, req, snap, granted, writes, logged, crashes>>

(* No pointer, or a stale one, and a checkoutable status. *)
CheckoutFresh(c) ==
  /\ pc[c] = "decide" /\ req[c].op = "checkout"
  /\ ~Active(Loaded(c).run)
  /\ Loaded(c).status \in CheckoutableStates
  /\ IsLegalTaskTransition(Loaded(c).status, "checked_out")
  /\ pc' = [pc EXCEPT ![c] = "create"]
  /\ UNCHANGED <<queue, mirrors, runs, lock, req, snap, granted, writes, logged, crashes>>

(* create_run: the run file is on disk before the queue points to it. *)
CreateRun(c) ==
  /\ pc[c] = "create"
  /\ runs' = [runs EXCEPT ![req[c].run] =
                [state |-> "created", task |-> req[c].task, agent |-> req[c].agent]]
  /\ pc' = [pc EXCEPT ![c] = "write"]
  /\ UNCHANGED <<queue, mirrors, lock, req, snap, granted, writes, logged, crashes>>

(* TaskNotFound or IllegalTransition is raised; nothing is written. *)
TransitionRefused(c) ==
  /\ pc[c] = "decide" /\ req[c].op \in {"transition", "ready"}
  /\ ~IsLegalTaskTransition(Loaded(c).status, req[c].to)
  /\ Answer(c)
  /\ UNCHANGED <<queue, mirrors, runs, granted, writes, logged, crashes>>

TransitionAccepted(c) ==
  /\ pc[c] = "decide" /\ req[c].op \in {"transition", "ready"}
  /\ IsLegalTaskTransition(Loaded(c).status, req[c].to)
  /\ pc' = [pc EXCEPT ![c] = "write"]
  /\ UNCHANGED <<queue, mirrors, runs, lock, req, snap, granted, writes, logged, crashes>>

(* The task dict as the handler mutates it.  transition_task keeps the
   pointer it finds. *)
UpdatedTask(c) ==
  IF req[c].op = "checkout"
  THEN [status |-> "checked_out", run |-> req[c].run]
  ELSE [Loaded(c) EXCEPT !.status = req[c].to]

(* _write_raw_queue: the whole loaded queue, with the one task changed,
   replaces the YAML; the mirrors follow, one file at a time. *)
WriteQueue(c) ==
  /\ pc[c] = "write"
  /\ queue' = [snap[c] EXCEPT ![req[c].task] = UpdatedTask(c)]
  /\ snap'  = [snap EXCEPT ![c] = [snap[c] EXCEPT ![req[c].task] = UpdatedTask(c)]]
  /\ writes' = writes + 1
  /\ pc' = [pc EXCEPT ![c] = "results"]
  /\ UNCHANGED <<mirrors, runs, lock, req, granted, logged, crashes>>

WriteResultsMirror(c) ==
  /\ pc[c] = "results"
  /\ mirrors' = [mirrors EXCEPT !["results"] = snap[c]]
  /\ pc' = [pc EXCEPT ![c] = "dashboard"]
  /\ UNCHANGED <<queue, runs, lock, req, snap, granted, writes, logged, crashes>>

(* Mutant: the fan-out stops after the first mirror. *)
SkipDashboardMirror(c) ==
  /\ pc[c] = "dashboard"
  /\ pc' = [pc EXCEPT ![c] = "audit"]
  /\ UNCHANGED <<queue, mirrors, runs, lock, req, snap, granted, writes, logged, crashes>>

(* Mutant: the handler returns after the last mirror, before the audit. *)
SkipAudit(c) ==
  /\ pc[c] = "dashboard"
  /\ mirrors' = [mirrors EXCEPT !["dashboard"] = snap[c]]
  /\ pc' = [pc EXCEPT ![c] = "unlock"]
  /\ UNCHANGED <<queue, runs, lock, req, snap, granted, writes, logged, crashes>>

WriteDashboardMirror(c) ==
  /\ pc[c] = "dashboard"
  /\ mirrors' = [mirrors EXCEPT !["dashboard"] = snap[c]]
  /\ pc' = [pc EXCEPT ![c] = "audit"]
  /\ UNCHANGED <<queue, runs, lock, req, snap, granted, writes, logged, crashes>>

(* The task.transition event; a checkout writes run.created just before. *)
AppendAudit(c) ==
  /\ pc[c] = "audit"
  /\ logged' = logged + 1
  /\ pc' = [pc EXCEPT ![c] = "unlock"]
  /\ UNCHANGED <<queue, mirrors, runs, lock, req, snap, granted, writes, crashes>>

(* Leave the with-block; a checkout hands its run to the agent. *)
Return(c) ==
  /\ pc[c] = "unlock"
  /\ granted' = IF req[c].op = "checkout" THEN granted \cup {req[c].run} ELSE granted
  /\ Answer(c)
  /\ UNCHANGED <<queue, mirrors, runs, writes, logged, crashes>>

-----------------------------------------------------------------------------
(* The run endpoints of agent_api.  An agent calls them with a run id a     *)
(* checkout returned to it; authorize() admits only the run's own agent.    *)
(* get_run and create_run take no lock.                                     *)

(* handle_run_ready_for_review: get_run. *)
BeginReady(c, r) ==
  /\ pc[c] = "idle"
  /\ MayWrite
  /\ r \in granted
  /\ req' = [req EXCEPT ![c] = [NoRequest EXCEPT !.op = "ready", !.run = r,
                                                 !.task = runs[r].task,
                                                 !.to = "ready_for_review",
                                                 !.seen = runs[r].state]]
  /\ pc' = [pc EXCEPT ![c] = "finish"]
  /\ UNCHANGED <<queue, mirrors, runs, lock, snap, granted, writes, logged, crashes>>

(* Mutant: the run is given the task's state. *)
FinishRunWithTaskState(c) ==
  /\ pc[c] = "finish"
  /\ runs' = [runs EXCEPT ![req[c].run].state = req[c].to]
  /\ pc' = [pc EXCEPT ![c] = "lookup"]
  /\ UNCHANGED <<queue, mirrors, lock, req, snap, granted, writes, logged, crashes>>

(* The run read before is written back, succeeded if that is legal from the
   state it was read in and as it was read otherwise, over whatever the file
   holds now. *)
FinishRun(c) ==
  /\ pc[c] = "finish"
  /\ runs' = [runs EXCEPT ![req[c].run].state =
                IF IsLegalRunTransition(req[c].seen, "succeeded")
                THEN "succeeded" ELSE req[c].seen]
  /\ pc' = [pc EXCEPT ![c] = "lookup"]
  /\ UNCHANGED <<queue, mirrors, lock, req, snap, granted, writes, logged, crashes>>

(* get_task, unlocked; 404 or 409 when the task is gone or cannot move. *)
ReadyRefused(c) ==
  /\ pc[c] = "lookup"
  /\ ~IsLegalTaskTransition(queue[req[c].task].status, req[c].to)
  /\ Answer(c)
  /\ UNCHANGED <<queue, mirrors, runs, granted, writes, logged, crashes>>

(* ... and transition_task otherwise, which looks at the status again. *)
ReadyAccepted(c) ==
  /\ pc[c] = "lookup"
  /\ IsLegalTaskTransition(queue[req[c].task].status, req[c].to)
  /\ pc' = [pc EXCEPT ![c] = "lock"]
  /\ UNCHANGED <<queue, mirrors, runs, lock, req, snap, granted, writes, logged, crashes>>

(* handle_run_cancel: get_run; a terminal run is a 409 and changes nothing. *)
BeginCancel(c, r) ==
  /\ pc[c] = "idle"
  /\ r \in granted
  /\ IsLegalRunTransition(runs[r].state, "cancelled")
  /\ req' = [req EXCEPT ![c] = [NoRequest EXCEPT !.op = "cancel", !.run = r,
                                                 !.seen = runs[r].state]]
  /\ pc' = [pc EXCEPT ![c] = "cancel"]
  /\ UNCHANGED <<queue, mirrors, runs, lock, snap, granted, writes, logged, crashes>>

(* create_run overwrites the file; the task is not touched. *)
CancelRun(c) ==
  /\ pc[c] = "cancel"
  /\ runs' = [runs EXCEPT ![req[c].run].state = "cancelled"]
  /\ Answer(c)
  /\ UNCHANGED <<queue, mirrors, granted, writes, logged, crashes>>

-----------------------------------------------------------------------------
(* The process dies.  The kernel releases its flock. *)
Crash(c) ==
  /\ pc[c] # "idle"
  /\ crashes < MaxCrashes
  /\ crashes' = crashes + 1
  /\ Answer(c)
  /\ UNCHANGED <<queue, mirrors, runs, granted, writes, logged>>

(* A request arrives at an idle process. *)
Begin(c) ==
  \/ \E a \in Agents, t \in Tasks, r \in RunIds : BeginCheckout(c, a, t, r)
  \/ \E t \in Tasks, s \in TransitionTargets : BeginTransition(c, t, s)
  \/ \E r \in RunIds : BeginReady(c, r)
  \/ \E r \in RunIds : BeginCancel(c, r)

(* One step of the handler c runs. *)
Step(c) ==
  \/ AcquireLock(c)
  \/ LoadQueue(c)
  \/ CheckoutRefused(c)
  \/ CheckoutResumed(c)
  \/ CheckoutFresh(c)
  \/ CreateRun(c)
  \/ TransitionRefused(c)
  \/ TransitionAccepted(c)
  \/ WriteQueue(c)
  \/ WriteResultsMirror(c)
  \/ WriteDashboardMirror(c)
  \/ AppendAudit(c)
  \/ Return(c)
  \/ FinishRun(c)
  \/ ReadyRefused(c)
  \/ ReadyAccepted(c)
  \/ CancelRun(c)

Next == \E c \in Clients : Begin(c) \/ Step(c) \/ Crash(c)

Spec == Init /\ [][Next]_vars

(* A process that is running a handler keeps running it: every step after
   the lock is a file operation that returns.  Nothing is assumed of the
   arrival of requests, of crashes, or of who gets a contended flock. *)
FairSpec == Spec /\ \A c \in Clients : WF_vars(Step(c))

-----------------------------------------------------------------------------
(* Properties. *)

TypeOK ==
  /\ queue \in Queue
  /\ mirrors \in [MirrorFiles -> Queue]
  /\ runs \in [RunIds -> RunRecord \cup {None}]
  /\ lock \in Clients \cup {None}
  /\ pc \in [Clients -> Labels]
  /\ req \in [Clients -> Request]
  /\ snap \in [Clients -> Queue]
  /\ granted \subseteq RunIds
  /\ writes \in Nat
  /\ logged \in Nat
  /\ crashes \in Nat

(* At most one live run per task has been handed to an agent, whatever the
   interleaving of checkouts, resumes, transitions, ends of runs and deaths
   of processes: "exactly one of N parallel agents wins" (README), also
   against a checkout that comes much later, after the task went back to
   ready with its run still alive. *)
SingleHolder ==
  \A r1, r2 \in granted :
    /\ Active(r1) /\ Active(r2)
    /\ runs[r1].task = runs[r2].task
    => r1 = r2

(* current_run_id names a run file that exists and belongs to the task, in
   every state a crash can leave: the run is written before the queue. *)
PointerNamesRun ==
  \A t \in Tasks :
    queue[t].run # None =>
      runs[queue[t].run] # None /\ runs[queue[t].run].task = t

(* No task is wedged in checked_out with no run behind it. *)
CheckedOutHasRun ==
  \A t \in Tasks :
    queue[t].status = "checked_out" => queue[t].run # None

(* The queue and the run files agree, wherever a process dies. *)
PointersAgree == PointerNamesRun /\ CheckedOutHasRun

(* The audit log never has an event for a change that was not written, and
   only a process death loses one: each loses at most one. *)
AuditLossBounded ==
  LET unlogged == {c \in Clients : pc[c] \in {"results", "dashboard", "audit"}}
  IN  /\ logged + Cardinality(unlogged) <= writes
      /\ writes <= logged + Cardinality(unlogged) + crashes

(* With nobody inside the lock and no death so far, both mirrors show the
   queue: the fan-out of one writer never interleaves with another's. *)
MirrorsSettle ==
  lock = None /\ crashes = 0 => \A f \in MirrorFiles : mirrors[f] = queue

(* A run that reached a terminal state never becomes live again, although
   create_run overwrites the file with a copy read earlier. *)
RunsNeverRevived ==
  [][\A r \in RunIds :
       runs[r] # None /\ ~Active(r) => runs'[r] # None /\ ~(Active(r)')]_vars

(* The agent whose live run the queue points to. *)
Holder == [t \in Tasks |-> IF Active(queue[t].run) THEN runs[queue[t].run].agent ELSE None]

Claims == INSTANCE TaskClaim WITH status <- [t \in Tasks |-> queue[t].status],
                                  holder <- Holder

(* The store implements the claim discipline of TaskClaim: a claim and the
   move to checked_out are one step from an unheld ready or queued task, no
   claim passes from one agent to another without ending, and each change of
   status is legal from the status the queue holds at that moment. *)
ImplementsTaskClaim == Claims!ClaimSpec

(* The lock is always given back: by every answer, refusal and death. *)
LockReleased == \A c \in Clients : lock = c ~> lock # c

(* What docs/task-lifecycle.md "Recovery" says of a pointer to a finished
   run: the next checkout proceeds with a fresh run. *)
StaleCheckoutProceeds ==
  [][\A c \in Clients :
       /\ pc[c] = "decide" /\ req[c].op = "checkout"
       /\ Loaded(c).status = "checked_out"
       /\ Loaded(c).run # None /\ ~Active(Loaded(c).run)
       /\ pc'[c] # pc[c] /\ crashes' = crashes
       => pc'[c] = "create"]_vars

=============================================================================

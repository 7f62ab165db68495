------------------------------ MODULE Routines ------------------------------
(***************************************************************************)
(* Routines (backoffice/routines.py): one JSON record, which pause,        *)
(* resume, a reload of the configuration and every firing read, change and *)
(* write back as a whole, without a lock.  A firing keeps its copy while   *)
(* the action handler runs.                                                *)
(***************************************************************************)
EXTENDS Naturals

CONSTANTS
  RoutineCallers,  \* processes that call the scheduler
  Declared,        \* declarations the configuration may hold
  MaxTime          \* bound on the clock (time 0 is "never ran")

ASSUME DeclaredAssumption ==
  \A d \in Declared : d.interval \in Nat /\ d.budget \in BOOLEAN /\ d.paused \in BOOLEAN

VARIABLES
  routine,   \* the record, or NoRoutine
  caller,    \* caller -> the operation it is in, with the copy it has read
  clock,
  decided,   \* whether the last decision to take effect was to pause (history)
  lastRun,   \* when a run last succeeded, since the last reload (history)
  overwrote, \* a record was written over one that had changed meanwhile (history)
  tooSoon    \* a scheduled run began on a current copy within the interval (history)

routineVars == <<routine, caller, clock, decided, lastRun, overwrote, tooSoon>>

NoRoutine == [kind |-> "none"]

(* __post_init__ rejects any other kind. *)
TriggerKinds == {"manual", "cron", "on_task_created", "on_approval_granted", "webhook"}
ActionKinds == {"enqueue_audit", "enqueue_task", "run_agent", "sync_dashboard", "noop"}

(* The handlers a scheduler has unless its caller registers more. *)
Handlers == {"noop"}

Free == [op |-> "none"]

RoutinesInit ==
  /\ routine = NoRoutine
  /\ caller = [c \in RoutineCallers |-> Free]
  /\ clock = 1
  /\ decided = FALSE
  /\ lastRun = 0
  /\ overwrote = FALSE
  /\ tooSoon = FALSE

-----------------------------------------------------------------------------
Stored == routine # NoRoutine

(* atomic_write_json of a record derived from a copy read earlier. *)
WriteOver(copy, new) ==
  /\ routine' = new
  /\ overwrote' = (overwrote \/ copy # routine)

(* from_config: a declaration that is not valid is skipped, and the rest of the
   record is lost, last_run_at with it. *)
Reload(d) ==
  /\ d.trigger \in TriggerKinds /\ d.action \in ActionKinds
  /\ routine' = [kind |-> "routine", trigger |-> d.trigger, interval |-> d.interval,
                 action |-> d.action, budget |-> d.budget, paused |-> d.paused, last |-> 0]
  /\ decided' = d.paused
  /\ lastRun' = 0
  /\ UNCHANGED <<caller, clock, overwrote, tooSoon>>

(* pause and resume return early when there is nothing to change. *)
Toggle(c, paused) ==
  /\ caller[c] = Free
  /\ Stored /\ routine.paused # paused
  /\ caller' = [caller EXCEPT ![c] = [op |-> "toggle", copy |-> routine, to |-> paused]]
  /\ UNCHANGED <<routine, clock, decided, lastRun, overwrote, tooSoon>>

Toggled(c) ==
  /\ caller[c].op = "toggle"
  /\ WriteOver(caller[c].copy, [caller[c].copy EXCEPT !.paused = caller[c].to])
  /\ decided' = caller[c].to
  /\ caller' = [caller EXCEPT ![c] = Free]
  /\ UNCHANGED <<clock, lastRun, tooSoon>>

(* Mutant: the interval is not compared. *)
DueAlways(r) == r.trigger = "cron" /\ r.interval > 0

Due(r) ==
  /\ r.trigger = "cron"
  /\ r.interval > 0
  /\ r.last = 0 \/ clock - r.last >= r.interval

(* run_now and run_due_now read the record; a paused one is not fired. *)
FireBegins(c, scheduled) ==
  /\ caller[c] = Free
  /\ Stored /\ ~routine.paused
  /\ scheduled => Due(routine)
  /\ caller' = [caller EXCEPT ![c] = [op |-> "gate", copy |-> routine, scheduled |-> scheduled]]
  /\ UNCHANGED <<routine, clock, decided, lastRun, overwrote, tooSoon>>

(* The budget gate, where there is one, and the handler, where there is one. *)
FireGate(c) ==
  /\ caller[c].op = "gate"
  /\ \E blocked \in BOOLEAN :
       /\ blocked => caller[c].copy.budget
       /\ caller' = [caller EXCEPT ![c] =
                       IF blocked \/ caller[c].copy.action \notin Handlers THEN Free
                       ELSE [@ EXCEPT !.op = "handler"]]
       /\ tooSoon' = (tooSoon \/
                        /\ caller'[c] # Free /\ caller[c].scheduled /\ caller[c].copy = routine
                        /\ lastRun # 0 /\ clock - lastRun < caller[c].copy.interval)
  /\ UNCHANGED <<routine, clock, decided, lastRun, overwrote>>

(* The handler raises: nothing is written, so that the routine stays due. *)
HandlerFails(c) ==
  /\ caller[c].op = "handler"
  /\ caller' = [caller EXCEPT ![c] = Free]
  /\ UNCHANGED <<routine, clock, decided, lastRun, overwrote, tooSoon>>

Fired(copy) == [copy EXCEPT !.last = clock]

HandlerReturns(c) ==
  /\ caller[c].op = "handler"
  /\ WriteOver(caller[c].copy, Fired(caller[c].copy))
  /\ lastRun' = clock
  /\ caller' = [caller EXCEPT ![c] = Free]
  /\ UNCHANGED <<clock, decided, tooSoon>>

Tick ==
  /\ clock < MaxTime
  /\ clock' = clock + 1
  /\ UNCHANGED <<routine, caller, decided, lastRun, overwrote, tooSoon>>

RoutinesNext ==
  \/ \E d \in Declared : Reload(d)
  \/ \E c \in RoutineCallers :
       \/ \E paused \in BOOLEAN : Toggle(c, paused)
       \/ Toggled(c)
       \/ \E scheduled \in BOOLEAN : FireBegins(c, scheduled)
       \/ FireGate(c) \/ HandlerFails(c) \/ HandlerReturns(c)
  \/ Tick

-----------------------------------------------------------------------------
(* As long as no two operations overlapped, a routine is paused exactly when the
   last decision on it said so, through firings that fail, succeed or are blocked;
   and a schedule never runs twice within its interval. *)
RoutinesObeyDecisions ==
  ~overwrote => /\ Stored => routine.paused = decided
                /\ ~tooSoon

=============================================================================

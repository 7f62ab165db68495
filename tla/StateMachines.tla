---------------------------- MODULE StateMachines ----------------------------
(***************************************************************************)
(* The transition tables of backoffice/domain/state_machines.py.  Each     *)
(* table is a record from a state to the set of its legal successors, as   *)
(* the source keeps it: data, not branches.                                *)
(***************************************************************************)

TaskTransitions ==
  [ proposed         |-> {"pending_approval", "approved", "ready", "in_progress", "cancelled"},
    pending_approval |-> {"approved", "ready", "cancelled"},
    approved         |-> {"ready", "queued", "cancelled"},
    ready            |-> {"queued", "checked_out", "in_progress", "blocked", "cancelled"},
    queued           |-> {"checked_out", "in_progress", "ready", "cancelled"},
    checked_out      |-> {"in_progress", "ready", "ready_for_review", "failed", "cancelled"},
    in_progress      |-> {"blocked", "ready_for_review", "failed", "cancelled"},
    blocked          |-> {"in_progress", "ready_for_review", "cancelled"},
    ready_for_review |-> {"pr_open", "in_progress", "done", "failed", "cancelled"},
    pr_open          |-> {"done", "failed", "cancelled"},
    done             |-> {},
    failed           |-> {"queued", "ready", "cancelled"},
    cancelled        |-> {} ]

RunTransitions ==
  [ created   |-> {"queued", "starting", "running", "succeeded", "failed", "cancelled"},
    queued    |-> {"starting", "running", "succeeded", "failed", "cancelled"},
    starting  |-> {"running", "succeeded", "failed", "cancelled"},
    running   |-> {"succeeded", "failed", "cancelled", "timed_out"},
    succeeded |-> {},
    failed    |-> {},
    cancelled |-> {},
    timed_out |-> {} ]

TaskStates == DOMAIN TaskTransitions
RunStates  == DOMAIN RunTransitions

(* is_legal_task_transition: an unknown state has no legal move. *)
IsLegalTaskTransition(from, to) ==
  /\ from \in TaskStates
  /\ to \in TaskTransitions[from]

IsLegalRunTransition(from, to) ==
  /\ from \in RunStates
  /\ to \in RunTransitions[from]

=============================================================================

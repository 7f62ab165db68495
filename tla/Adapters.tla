------------------------------ MODULE Adapters -------------------------------
(***************************************************************************)
(* Starting an agent (backoffice/adapters).  A caller has loaded the agent *)
(* and the run, and may be late with them; an adapter runs its command     *)
(* inside invoke and remembers how it ended under the handle that it       *)
(* returns, in the memory of the process; status looks it up.  Several     *)
(* callers may invoke one run, at once or again.                           *)
(*                                                                         *)
(* A handle is <<adapter, how, run>>, how being "", "dryrun", "timeout" or *)
(* "error" as in the handle's text.                                        *)
(***************************************************************************)
CONSTANTS
  AdapterCallers, \* threads of the process that hosts the adapters
  AdapterRuns,    \* runs that are invoked
  Approved,       \* those with an approval_id
  Protected,      \* those whose target a refuse_against entry is a prefix of
  AdapterOf       \* run -> the type of the adapter of its agent

VARIABLES
  agentActive,    \* the agent's status is "active"
  answers,        \* handle -> the status that its adapter has in memory
  calling,        \* caller -> what it has loaded or invoked, or Idle
  exited          \* <<adapter, run>> of which a command has exited with 0 (history)

adapterVars == <<agentActive, answers, calling, exited>>

Idle == [step |-> "none"]

NoStatuses == [h \in {} |-> ""]

AdaptersInit ==
  /\ agentActive = TRUE
  /\ answers = NoStatuses
  /\ calling = [c \in AdapterCallers |-> Idle]
  /\ exited = {}

-----------------------------------------------------------------------------
LoadsAgent(c, r) ==
  /\ calling[c] = Idle
  /\ calling' = [calling EXCEPT ![c] = [step |-> "loaded", run |-> r, active |-> agentActive]]
  /\ UNCHANGED <<agentActive, answers, exited>>

Adapter(call) == AdapterOf[call.run]

(* What invoke asks of what it was given, before anything else. *)
Admitted(call) ==
  /\ call.active
  /\ Adapter(call) = "claude_code" => call.run \in Approved \ Protected

Leaves(c) == calling' = [calling EXCEPT ![c] = Idle]

Remembered(handle, status) ==
  answers' = [h \in DOMAIN answers \cup {handle} |-> IF h = handle THEN status ELSE answers[h]]

(* Mutant: a dry run has the handle of the run. *)
RunHandle(adapter, r) == <<adapter, "", r>>

DryHandle(adapter, r) == <<adapter, "dryrun", r>>

(* Denied, or noop, which does nothing and remembers nothing. *)
InvokeInVain(c) ==
  LET call == calling[c] IN
  /\ call.step = "loaded" /\ (Admitted(call) => Adapter(call) = "noop")
  /\ Leaves(c)
  /\ UNCHANGED <<agentActive, answers, exited>>

(* A dry run succeeds at once. *)
InvokeDry(c) ==
  LET call == calling[c] IN
  /\ call.step = "loaded" /\ Adapter(call) # "noop" /\ Admitted(call)
  /\ Remembered(DryHandle(Adapter(call), call.run), "succeeded")
  /\ Leaves(c)
  /\ UNCHANGED <<agentActive, exited>>

Invoke(c) ==
  LET call == calling[c] IN
  /\ call.step = "loaded" /\ Adapter(call) # "noop" /\ Admitted(call)
  /\ calling' = [calling EXCEPT ![c].step = "running"]
  /\ UNCHANGED <<agentActive, answers, exited>>

(* The command exits, is stopped by the timeout, or could not be launched; a backend
   makes one failure of all that is not a clean exit. *)
Outcomes(adapter) ==
  {<<"", "succeeded">>, <<"", "failed">>}
    \cup IF adapter = "legacy_backend" THEN {} ELSE {<<"timeout", "timed_out">>, <<"error", "failed">>}

InvocationEnds(c) ==
  LET call == calling[c]
      adapter == Adapter(call)
  IN  /\ call.step = "running"
      /\ \E o \in Outcomes(adapter) :
           /\ Remembered(<<adapter, o[1], call.run>>, o[2])
           /\ exited' = IF o[2] = "succeeded" THEN exited \cup {<<adapter, call.run>>} ELSE exited
      /\ Leaves(c)
      /\ UNCHANGED agentActive

(* The process that hosts the adapters is restarted. *)
HostRestarts ==
  /\ answers' = NoStatuses
  /\ calling' = [c \in AdapterCallers |-> Idle]
  /\ UNCHANGED <<agentActive, exited>>

PauseOrResume ==
  /\ agentActive' = ~agentActive
  /\ UNCHANGED <<answers, calling, exited>>

(* status: what is not remembered has failed.  Nothing can be cancelled: by the time
   cancel is called the command has ended. *)
AdapterStatus(handle) ==
  IF handle[1] = "noop" THEN "succeeded"
  ELSE IF handle \in DOMAIN answers THEN answers[handle] ELSE "failed"

AdaptersNext ==
  \/ \E c \in AdapterCallers :
       \/ \E r \in AdapterRuns : LoadsAgent(c, r)
       \/ InvokeInVain(c) \/ InvokeDry(c) \/ Invoke(c) \/ InvocationEnds(c)
  \/ HostRestarts \/ PauseOrResume

-----------------------------------------------------------------------------
(* Handles are made of the run, so that callers of one run share them and a later end
   replaces an earlier one: a call that failed may be answered with the success of
   another.  But whatever is tried again, at once, dry or after a restart, a success is
   reported only of a run of which a command has exited with 0, or for a dry run. *)
SuccessIsReal ==
  \A adapter \in {AdapterOf[r] : r \in AdapterRuns} \ {"noop"}, r \in AdapterRuns,
     how \in {"", "timeout", "error"} :
    AdapterStatus(<<adapter, how, r>>) = "succeeded" => <<adapter, r>> \in exited

=============================================================================

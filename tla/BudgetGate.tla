----------------------------- MODULE BudgetGate ------------------------------
(***************************************************************************)
(* Checkouts behind the budget gate (handle_checkout, handle_run_cost and  *)
(* handle_checkout's caller in backoffice/agent_api.py).  The gate reads   *)
(* the cost log without a lock and before the task is claimed, and a run   *)
(* reports what it costs while and after it runs, in as many events as it  *)
(* likes.  An agent may have several tasks: each is a session here.        *)
(***************************************************************************)
EXTENDS Budgets

CONSTANTS
  Sessions,      \* checkouts that may be under way at the same time
  SessionAgent,  \* session -> its agent
  AgentBudgets,  \* the budgets the gate is given
  RunCost,       \* what a run costs at most, one unit an event
  MaxCost        \* bound on the length of the cost log

ASSUME GateAssumption ==
  /\ IsFiniteSet(Sessions) /\ RunCost \in Nat
  /\ \A k \in DOMAIN AgentBudgets :
       AgentBudgets[k].period \in Periods /\ AgentBudgets[k].hard \in Nat \cup {NoLimit}

VARIABLES
  costs,     \* the cost log
  gated,     \* sessions that were let through and have not claimed their task yet
  unspent,   \* session -> what its run may still report
  atRisk     \* agent -> what was unspent when a session was last let through (history)

gateVars == <<costs, gated, unspent, atRisk>>

GateAgents == {SessionAgent[s] : s \in Sessions}

SessionsOf(a) == {s \in Sessions : SessionAgent[s] = a}

GateInit ==
  /\ costs = <<>>
  /\ gated = {}
  /\ unspent = [s \in Sessions |-> 0]
  /\ atRisk = [a \in GateAgents |-> 0]

-----------------------------------------------------------------------------
AgentContext(a) == [target |-> "", agent |-> a, task |-> "", run |-> "", department |-> ""]

(* Mutant: the decision is made and not looked at. *)
GateNeverBlocks(a) == Evaluate(AgentBudgets, costs, AgentContext(a), 0) \in {"allow", "warn", "block"}

GatePasses(a) ==
  AgentBudgets = <<>> \/ Evaluate(AgentBudgets, costs, AgentContext(a), 0) # "block"

(* What runs of the agent may still cost, those that were let through included. *)
Outstanding(a) ==
  MapThenSumSet(LAMBDA s : IF s \in gated THEN RunCost ELSE unspent[s], SessionsOf(a))

Gate(s) ==
  LET a == SessionAgent[s] IN
  /\ s \notin gated /\ unspent[s] = 0
  /\ GatePasses(a)
  /\ gated' = gated \cup {s}
  /\ atRisk' = [atRisk EXCEPT ![a] = Outstanding(a) + RunCost]
  /\ UNCHANGED <<costs, unspent>>

(* checkout_task, which another agent's claim may make fail. *)
Claims(s) ==
  /\ s \in gated
  /\ gated' = gated \ {s}
  /\ \E ok \in BOOLEAN : unspent' = IF ok THEN [unspent EXCEPT ![s] = RunCost] ELSE unspent
  /\ UNCHANGED <<costs, atRisk>>

(* The event is booked on the agent of the run, whatever the state of the run. *)
ReportsCost(s) ==
  /\ unspent[s] > 0 /\ Len(costs) < MaxCost
  /\ costs' = Append(costs, [agent |-> SessionAgent[s], target |-> "", task |-> "",
                             run |-> "run", usd |-> 1, at |-> 0])
  /\ unspent' = [unspent EXCEPT ![s] = @ - 1]
  /\ UNCHANGED <<gated, atRisk>>

(* A run may cost less than it could. *)
EndsCheaply(s) ==
  /\ unspent[s] > 0
  /\ unspent' = [unspent EXCEPT ![s] = 0]
  /\ UNCHANGED <<costs, gated, atRisk>>

GateNext == \E s \in Sessions : Gate(s) \/ Claims(s) \/ ReportsCost(s) \/ EndsCheaply(s)

-----------------------------------------------------------------------------
(* An agent overruns the hard limit of its own budget by what the runs let through
   until then had left to report and by no more: the gate does not count them, so
   that sessions let through at the same time overrun it together.  A limit of 0
   lets nothing through. *)
OverrunIsBounded ==
  \A k \in DOMAIN AgentBudgets, a \in GateAgents :
    LET b == AgentBudgets[k] IN
    (b.scope = "agent" /\ b.scope_id = a /\ b.hard # NoLimit) =>
      LET spent == SpentBy(costs, "agent", a) IN spent = 0 \/ spent < b.hard + atRisk[a]

=============================================================================

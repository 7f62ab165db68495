------------------------------- MODULE Budgets -------------------------------
(***************************************************************************)
(* Cost events and budgets (backoffice/budgets.py, budget_check.py), and   *)
(* the gate in front of a checkout (agent_api.py): the gate reads the cost *)
(* log without a lock before the task is claimed, and the cost of the run  *)
(* is recorded after it.                                                   *)
(*                                                                         *)
(* Times are hours; hour 0 is midnight of a Monday.  A cost event is a     *)
(* record [agent, target, task, run, usd, at]; "" stands for an absent     *)
(* field and at = Unparsable for a timestamp that cannot be read.  A limit *)
(* that is not set is NoLimit.                                             *)
(***************************************************************************)
EXTENDS Naturals, FiniteSets, FiniteSetsExt, Sequences

CONSTANTS
  NoLimit,      \* an absent limit
  Unparsable,   \* a timestamp that cannot be parsed
  MonthStarts   \* the hours at which a month begins, 0 among them

ASSUME MonthsAssumption ==
  0 \in MonthStarts /\ MonthStarts \subseteq Nat /\ \A s \in MonthStarts : s % 24 = 0

BudgetScopes == {"global", "target", "department", "agent", "task", "run"}
Periods == {"daily", "weekly", "monthly", "rolling_24h", "lifetime"}

(* A declaration that __post_init__ accepts; from_config drops the others. *)
ValidBudget(b) ==
  /\ b.scope \in BudgetScopes
  /\ b.period \in Periods
  /\ b.scope # "global" => b.scope_id # ""

ConfiguredBudgets(declarations) ==
  Restrict(declarations, {k \in DOMAIN declarations : ValidBudget(declarations[k])})

(* The context of a decision: [target, agent, task, run, department]. *)
InScope(b, ctx) ==
  \/ b.scope = "global"
  \/ b.scope \in BudgetScopes \ {"global"} /\ b.scope_id = ctx[b.scope]

(* Events that belong to the context: a field counts only if both have it. *)
Agrees(x, y) == x = "" \/ y = "" \/ x = y

Belongs(e, ctx) ==
  /\ Agrees(ctx.target, e.target) /\ Agrees(ctx.agent, e.agent)
  /\ Agrees(ctx.task, e.task)     /\ Agrees(ctx.run, e.run)

Later(x, hours) == IF x < hours THEN 0 ELSE x - hours

MonthOf(now) == CHOOSE s \in MonthStarts :
                  s <= now /\ \A u \in MonthStarts : u <= now => u <= s

WindowStart(period, now) ==
  CASE period = "lifetime"    -> 0
    [] period = "rolling_24h" -> Later(now, 24)
    [] period = "daily"       -> now - (now % 24)
    [] period = "weekly"      -> now - (now % 168)
    [] period = "monthly"     -> MonthOf(now)

InWindow(e, period, now) == e.at = Unparsable \/ e.at >= WindowStart(period, now)

(* events: the cost log, a function from positions to events. *)
TotalCost(events, S) == MapThenSumSet(LAMBDA i : events[i].usd, S)

Spent(b, events, ctx, now) ==
  TotalCost(events, {i \in DOMAIN events : Belongs(events[i], ctx)
                                           /\ InWindow(events[i], b.period, now)})

Exceeds(limit, spent) == limit # NoLimit /\ spent >= limit

Blocks(b, events, ctx, now) == InScope(b, ctx) /\ Exceeds(b.hard, Spent(b, events, ctx, now))
Warns(b, events, ctx, now)  == InScope(b, ctx) /\ Exceeds(b.soft, Spent(b, events, ctx, now))

(* evaluate: the most restrictive of the budgets in scope. *)
Evaluate(budgets, events, ctx, now) ==
  IF \E k \in DOMAIN budgets : Blocks(budgets[k], events, ctx, now) THEN "block"
  ELSE IF \E k \in DOMAIN budgets : Warns(budgets[k], events, ctx, now) THEN "warn"
  ELSE "allow"

(* budget_check.check, for the scans and safe-apply: whatever cannot be read is allowed. *)
BudgetCheck(readable, declarations, events, target, department, now) ==
  LET budgets == ConfiguredBudgets(declarations)
      ctx == [target |-> target, agent |-> "", task |-> "", run |-> "", department |-> department]
  IN  IF ~readable \/ DOMAIN budgets = {} THEN "allow" ELSE Evaluate(budgets, events, ctx, now)

(* cost_breakdown, by one of the fields. *)
SpentBy(events, field, value) ==
  IF value = "" THEN 0
  ELSE TotalCost(events, {i \in DOMAIN events : events[i][field] = value})

-----------------------------------------------------------------------------
(* A day lies within its week, its month and the last 24 hours (_period_window_start),
   and what has no readable time counts in each of them. *)
WindowsNest(events, ctx, now) ==
  LET spent(p) == Spent([period |-> p], events, ctx, now) IN
  \A p \in {"weekly", "monthly", "rolling_24h"} :
    spent("daily") <= spent(p) /\ spent(p) <= spent("lifetime")

(* evaluate: one more cost never opens a gate that was closed, nor lifts a warning. *)
CostsOnlyTighten(declarations, events, target, department, now) ==
  LET answer(es) == BudgetCheck(TRUE, declarations, es, target, department, now)
      before == answer(SubSeq(events, 1, Len(events) - 1))
  IN  events # <<>> => /\ before = "block" => answer(events) = "block"
                       /\ before = "warn" => answer(events) # "allow"

=============================================================================

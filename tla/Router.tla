------------------------------- MODULE Router --------------------------------
(***************************************************************************)
(* Choosing the backend for a task (backoffice/router.py and the backends  *)
(* in backoffice/backends).  The router keeps the health of the backends   *)
(* as it first saw it; a policy names the backends to prefer.              *)
(***************************************************************************)
EXTENDS Naturals, Sequences, SequencesExt

CONSTANTS
  Backends,       \* the enabled backends, in the order of the configuration
  Preferences,    \* the sequences of backends that a policy may name for a task type
  MaxFlips        \* bound on the changes of a backend's health

ASSUME BackendsAssumption ==
  /\ Backends \in Seq(STRING) /\ Preferences \subseteq Seq(STRING)
  /\ "" \notin Range(Backends)

VARIABLES
  installed,      \* backend -> whether its command is on the PATH
  limits,         \* the router's cache: backend -> status; empty before the first look
  assigned,       \* the router's last assignment, the backends that were there (up), and
                  \* whether the router knew (fresh)
  flips           \* number of changes of installed

routerVars == <<installed, limits, assigned, flips>>

NotLooked == [b \in {} |-> ""]

NotAssigned == [type |-> "none"]

RouterInit ==
  /\ installed = [b \in Range(Backends) |-> TRUE]
  /\ limits = NotLooked
  /\ assigned = NotAssigned
  /\ flips = 0

-----------------------------------------------------------------------------
TaskTypes ==
  [prioritize_backlog |-> {"long_context_reasoning"},
   audit_repo         |-> {"read_files", "search_code", "run_shell"},
   fix_finding        |-> {"read_files", "edit_files", "run_shell", "commit_changes"},
   implement_feature  |-> {"read_files", "write_files", "edit_files", "run_shell", "commit_changes"},
   verify_changes     |-> {"run_shell"},
   summarize_cycle    |-> {"structured_output"}]

Capabilities ==
  LET common == {"read_files", "search_code", "edit_files", "write_files", "run_shell",
                 "structured_output", "commit_changes"}
  IN  [codex |-> common,
       claude |-> common \cup {"multi_file_refactor", "long_context_reasoning", "subagents"}]

Health == [b \in Range(Backends) |-> IF installed[b] THEN "healthy" ELSE "unavailable"]

(* Mutant: any cached state will do. *)
CanHandleUnchecked(b, type, cache) == b \in DOMAIN cache /\ TaskTypes[type] \subseteq Capabilities[b]

CanHandle(b, type, cache) ==
  /\ b \in DOMAIN cache /\ cache[b] # "unavailable"
  /\ TaskTypes[type] \subseteq Capabilities[b]

RefreshLimits ==
  /\ limits' = Health
  /\ UNCHANGED <<installed, assigned, flips>>

(* The first of a sequence that is in S, or "". *)
FirstOf(order, S) ==
  IF S \cap Range(order) = {} THEN ""
  ELSE order[CHOOSE i \in DOMAIN order : order[i] \in S /\ \A j \in 1 .. i - 1 : order[j] \notin S]

(* assign: looks at the health when it never has. *)
Assign(type, preferred) ==
  LET cache == IF limits = NotLooked THEN Health ELSE limits
      order == IF preferred = <<>> THEN Backends ELSE preferred
      able == {b \in Range(order) : CanHandle(b, type, cache)}
      first == FirstOf(order, able)
  IN  /\ limits' = cache
      /\ assigned' = [type |-> type, order |-> order, fresh |-> cache = Health,
                      up |-> {b \in Range(Backends) : installed[b]},
                      backend |-> first, fallback |-> FirstOf(order, able \ {first})]
      /\ UNCHANGED <<installed, flips>>

BackendFlips(b) ==
  /\ flips < MaxFlips
  /\ flips' = flips + 1
  /\ installed' = [installed EXCEPT ![b] = ~@]
  /\ UNCHANGED <<limits, assigned>>

(* The process is restarted. *)
RouterRestarts ==
  /\ limits' = NotLooked
  /\ assigned' = NotAssigned
  /\ UNCHANGED <<installed, flips>>

RouterNext ==
  \/ RefreshLimits \/ RouterRestarts
  \/ \E type \in DOMAIN TaskTypes, preferred \in Preferences : Assign(type, preferred)
  \/ \E b \in Range(Backends) : BackendFlips(b)

-----------------------------------------------------------------------------
(* A task went to a backend that was there and can do it, and to none only when there was
   none, unless the health of a backend had changed since the router looked: nothing
   but a restart or refresh_limits makes it look again. *)
AssignedCanDoIt ==
  LET a == assigned
      able(b) == b \in a.up /\ TaskTypes[a.type] \subseteq Capabilities[b]
  IN  a.type # "none" /\ a.fresh =>
        IF a.backend = "" THEN \A b \in Range(a.order) : ~able(b)
        ELSE able(a.backend) /\ (a.fallback # "" => a.fallback # a.backend /\ able(a.fallback))

=============================================================================

---------------------------- MODULE AgentRegistry ----------------------------
(***************************************************************************)
(* The agent registry (backoffice/agents.py): one JSON record per agent,   *)
(* created, paused, resumed and retired by the operator and reconciled     *)
(* with the configuration.  Every operation reads the record, changes a    *)
(* copy and writes the copy back, without a lock.                          *)
(***************************************************************************)
EXTENDS Naturals

CONSTANTS
  RegistryCallers,  \* processes that use the registry
  Roles,            \* roles a command or the configuration may name
  KnownRoles        \* AGENT_ROLES

ASSUME RolesAssumption == KnownRoles \subseteq Roles

VARIABLES
  agent,        \* the record of one agent, or NoAgent
  registering,  \* caller -> the operation it is in, with the copy it has read
  standing,     \* the status of the last audited decision, or "none" (history)
  clobbered     \* a record was written over one that had changed meanwhile (history)

registryVars == <<agent, registering, standing, clobbered>>

NoAgent == [status |-> "none"]

Waiting == [op |-> "none"]

RegistryInit ==
  /\ agent = NoAgent
  /\ registering = [c \in RegistryCallers |-> Waiting]
  /\ standing = "none"
  /\ clobbered = FALSE

-----------------------------------------------------------------------------
Registered == agent # NoAgent

NewAgent(role) == [status |-> "active", role |-> role, paused_at |-> FALSE]

(* What each operation makes of its copy. *)
Paused(a)  == [a EXCEPT !.status = "paused", !.paused_at = TRUE]
Resumed(a) == [a EXCEPT !.status = "active", !.paused_at = FALSE]
Retired(a) == [a EXCEPT !.status = "retired"]

(* Mutant: the agent is made anew from its declaration. *)
SyncedAfresh(a, role) == NewAgent(role)

(* sync_from_config takes over the declared fields; the status is not one of them. *)
Synced(a, role) == [a EXCEPT !.role = role]

(* Operations that return before they write: pausing what is paused, resuming what
   is active; an agent that is not there is an error. *)
Begins(c, op, new, status) ==
  /\ registering[c] = Waiting
  /\ registering' = [registering EXCEPT ![c] =
                       [op |-> op, copy |-> agent, new |-> new, status |-> status]]
  /\ UNCHANGED <<agent, standing, clobbered>>

Create(c, role) ==
  /\ ~Registered /\ role \in KnownRoles
  /\ Begins(c, "create", NewAgent(role), "active")

Pause(c)  == Registered /\ agent.status # "paused" /\ Begins(c, "pause", Paused(agent), "paused")
Resume(c) == Registered /\ agent.status # "active" /\ Begins(c, "resume", Resumed(agent), "active")
Retire(c) == Registered /\ Begins(c, "retire", Retired(agent), "retired")

(* A declaration of an agent that exists is not checked for its role. *)
SyncFromConfig(c, role) ==
  IF Registered
  THEN Begins(c, "sync", Synced(agent, role), agent.status)
  ELSE Create(c, role)

(* The write, and the audit event that follows it. *)
RegistryWrites(c) ==
  /\ registering[c] # Waiting
  /\ agent' = registering[c].new
  /\ clobbered' = (clobbered \/ registering[c].copy # agent)
  /\ standing' = IF registering[c].op = "sync" THEN standing ELSE registering[c].status
  /\ registering' = [registering EXCEPT ![c] = Waiting]

RegistryNext ==
  \E c \in RegistryCallers :
    \/ \E role \in Roles : Create(c, role) \/ SyncFromConfig(c, role)
    \/ Pause(c) \/ Resume(c) \/ Retire(c)
    \/ RegistryWrites(c)

-----------------------------------------------------------------------------
(* As long as no two operations overlapped, an agent's status is the one the last
   decision of the operator gave it, however often the configuration is
   reconciled; an active agent is not marked as paused. *)
StatusIsTheOperators ==
  (Registered /\ ~clobbered) =>
    /\ agent.status = standing
    /\ agent.status = "active" => ~agent.paused_at

=============================================================================

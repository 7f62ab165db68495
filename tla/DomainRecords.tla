---------------------------- MODULE DomainRecords -----------------------------
(***************************************************************************)
(* How the domain records are read from and written to the stored YAML and *)
(* JSON (from_dict and to_dict in backoffice/domain/models.py).            *)
(*                                                                         *)
(* A stored value is one of a few, named as Python writes it; absent is a  *)
(* key that is not there, error the exception that reading raises.  "[e]"  *)
(* is a list with a history entry of four texts, "[e+]" one with an entry  *)
(* that has more keys or values that are no texts.                         *)
(***************************************************************************)
EXTENDS Naturals

Texts      == {"''", "'text'", "'7'", "'None'", "'default'"}
Falsy      == {"None", "''", "0", "False", "[]", "{}"}
Lists      == {"[]", "[text]", "[e]", "[e+]"}
Dicts      == {"{}", "{text}"}
Values     == Texts \cup Falsy \cup Lists \cup Dicts \cup {"1", "7", "True"}

-----------------------------------------------------------------------------
(* The conversions, each with what it takes for an absent key. *)

(* str(): None and containers become their spelling. *)
AsText(v) ==
  CASE v \in Texts          -> v
    [] v = "None"           -> "'None'"
    [] v = "7"              -> "'7'"
    [] OTHER                -> "'text'"

Truth(v) == IF v \in Falsy THEN "False" ELSE "True"

(* int(v or 0); float in the same way. *)
AsNumber(v) ==
  CASE v \in Falsy -> "0" [] v \in {"7", "'7'"} -> "7" [] v \in {"1", "True"} -> "1" [] OTHER -> "error"

(* list(v or []): a text falls apart into its letters, a dict into its keys. *)
AsList(v) ==
  CASE v \in Falsy -> "[]" [] v \in Lists -> v [] v \in Texts \cup Dicts -> "[text]" [] OTHER -> "error"

(* dict(v or {}). *)
AsDict(v) == CASE v \in Falsy -> "{}" [] v \in Dicts -> v [] OTHER -> "error"

(* Task.history: what is no list is dropped, and so is an entry that is no dict; an
   entry keeps four keys, as texts. *)
AsHistory(v) == IF v \in {"[e]", "[e+]"} THEN "[e]" ELSE "[]"

(* raw.get: as it is. *)
Kept(v) == v

Converted(kind, v) ==
  CASE kind = "text"     -> AsText(v)
    [] kind = "optional" -> Kept(v)
    [] kind = "bool"     -> Truth(v)
    [] kind = "number"   -> AsNumber(v)
    [] kind = "list"     -> AsList(v)
    [] kind = "dict"     -> AsDict(v)
    [] kind = "history"  -> AsHistory(v)

(* What an absent key is read as, where the class does not say otherwise. *)
Absent(kind) ==
  CASE kind = "text" -> "''" [] kind = "optional" -> "None" [] kind = "bool" -> "False"
    [] kind = "number" -> "0" [] kind = "dict" -> "{}" [] OTHER -> "[]"

-----------------------------------------------------------------------------
(* The classes: the kinds of the fields, the fields with a default of their own (named
   'default' here, or True), and whether unknown keys are kept as extras. *)
Class(text, optional, list, dict, own, extras) ==
  [kinds |-> [f \in text \cup optional \cup list \cup dict |->
                IF f \in text THEN "text" ELSE IF f \in optional THEN "optional"
                ELSE IF f \in list THEN "list" ELSE "dict"],
   own |-> own, extras |-> extras]

AndFields(class, kind, fields) ==
  [class EXCEPT !.kinds = [f \in DOMAIN class.kinds \cup fields |->
                             IF f \in fields THEN kind ELSE class.kinds[f]]]

TaskClass ==
  LET plain ==
        Class({"id", "repo", "title", "status", "priority", "category", "task_type", "owner", "created_by",
               "created_at", "updated_at", "notes", "product_key", "target_path",
               "verification_command", "repo_handoff_path", "current_run_id"},
              {}, {"acceptance_criteria", "audits_required"}, {"approval", "source_finding", "pr"},
              {"status", "priority", "category", "task_type", "handoff_required"}, TRUE)
  IN  AndFields(AndFields(plain, "bool", {"handoff_required"}), "history", {"history"})

RunClass ==
  Class({"id", "task_id", "agent_id", "adapter_type", "state", "started_at", "ended_at",
         "output_summary", "error"},
        {"adapter_handle", "workspace_id", "approval_id", "exit_code", "duration_ms", "prompt_ref"},
        {"artifacts"}, {"cost", "metadata"}, {"state"}, TRUE)

ApprovalClass ==
  Class({"id", "task_id", "scope", "state", "requested_by", "requested_at", "decided_by", "decided_at",
         "reason", "expires_at", "policy_basis", "audit_event_id"},
        {}, {}, {}, {"scope", "state"}, TRUE)

CostEventClass ==
  LET plain == Class({"id", "provider", "model", "source", "timestamp"},
                     {"run_id", "task_id", "agent_id", "target"}, {}, {}, {"source"}, FALSE)
      counts == {"input_tokens", "output_tokens", "total_tokens", "estimated_cost_usd"}
  IN  AndFields(AndFields(plain, "number", counts), "bool", {"verified"})

WorkspaceClass ==
  Class({"id", "task_id", "repo", "kind", "branch", "base_ref", "base_sha", "head_sha", "worktree_path",
         "created_at", "updated_at", "retired_at", "test_results_ref"},
        {}, {}, {"metadata"}, {"kind"}, FALSE)

AdapterConfigClass ==
  LET plain == Class({"agent_id", "adapter_type", "command", "cwd_strategy", "prompt_template"},
                     {}, {"args", "env_allowlist"}, {"metadata"}, {"cwd_strategy"}, FALSE)
  IN  AndFields(AndFields(plain, "number", {"timeout_seconds"}), "bool", {"dry_run_default"})

AgentClass ==
  Class({"id", "name", "role", "description", "adapter_type", "status", "paused_at", "budget_id",
         "created_at", "updated_at"}, {}, {}, {"adapter_config", "metadata"}, {"role", "status"}, FALSE)

ActorClass == Class({"id", "kind", "display_name", "agent_id"}, {}, {}, {}, {"kind"}, FALSE)

AuditEventClass ==
  Class({"id", "at", "actor_id", "action", "subject_kind", "subject_id", "reason"},
        {"before", "after"}, {}, {"metadata"}, {}, FALSE)

Classes ==
  [Task |-> TaskClass, Run |-> RunClass, Approval |-> ApprovalClass, CostEvent |-> CostEventClass,
   Workspace |-> WorkspaceClass, AdapterConfig |-> AdapterConfigClass, Agent |-> AgentClass,
   Actor |-> ActorClass, AuditEvent |-> AuditEventClass]

DefaultOf(class, f) ==
  LET kind == class.kinds[f] IN
  IF f \notin class.own THEN Absent(kind) ELSE IF kind = "bool" THEN "True" ELSE "'default'"

(* from_dict. *)
FromDict(class, raw) ==
  [fields |-> [f \in DOMAIN class.kinds |->
                 IF f \in DOMAIN raw THEN Converted(class.kinds[f], raw[f]) ELSE DefaultOf(class, f)],
   extras |-> [f \in (IF class.extras THEN DOMAIN raw \ DOMAIN class.kinds ELSE {}) |-> raw[f]]]

Raises(record) == \E f \in DOMAIN record.fields : record.fields[f] = "error"

(* to_dict: a task that no run holds does without current_run_id. *)
ToDict(record) ==
  LET kept == {f \in DOMAIN record.fields : f # "current_run_id" \/ record.fields[f] # "''"}
  IN  [f \in kept \cup DOMAIN record.extras |->
         IF f \in kept THEN record.fields[f] ELSE record.extras[f]]

-----------------------------------------------------------------------------
WellTyped(kind, v) ==
  CASE kind = "text" -> v \in Texts [] kind = "optional" -> TRUE [] kind = "bool" -> v \in {"True", "False"}
    [] kind = "number" -> v \in {"0", "1", "7"} [] kind = "list" -> v \in Lists [] kind = "dict" -> v \in Dicts
    [] OTHER -> v \in {"[]", "[e]"}

(* A record that can be read at all is the same after any number of rewrites, keeps
   every value of the right type, and a task, a run and an approval also the keys that
   the class does not know. *)
RecordsSettle(class, raw) ==
  LET read == FromDict(class, raw)
      stored == ToDict(read)
  IN  ~Raises(read) =>
        /\ FromDict(class, stored) = read
        /\ ToDict(FromDict(class, stored)) = stored
        /\ \A f \in DOMAIN raw \cap DOMAIN class.kinds :
             WellTyped(class.kinds[f], raw[f]) =>
               \/ f \in DOMAIN stored /\ stored[f] = raw[f]
               \/ f = "current_run_id" /\ raw[f] = "''"
        /\ class.extras => \A f \in DOMAIN raw \ DOMAIN class.kinds : f \in DOMAIN stored /\ stored[f] = raw[f]

=============================================================================

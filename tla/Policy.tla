------------------------------- MODULE Policy --------------------------------
(***************************************************************************)
(* The per-target autonomy policy (backoffice/policy.py).  An autonomy     *)
(* record a holds the switches of backoffice.yaml; a gate maps it and a    *)
(* context to whether the operation is allowed.  The only context key any  *)
(* gate reads is worktree_clean, which a caller may also leave out.  Only  *)
(* the gates of the safe apply are here.                                   *)
(***************************************************************************)

(* A dirty tree blocks only when the caller says that it is dirty. *)
TreeAccepted(a, clean) == ~(a.require_clean_worktree /\ clean = "false")

FixGate(a, clean) == a.allow_fix /\ TreeAccepted(a, clean)

CommitGate(a) == a.allow_auto_commit

=============================================================================

----------------------------- MODULE MCSafeApply -----------------------------
(* An instance of SafeApply for TLC: findings of every kind, two of which can be
   fixed in a worktree, and one that both files hold. *)
EXTENDS SafeApply, TLC

CONSTANTS r1, r2

Finding(id, tool, fixable, rank) ==
  [id |-> id, tool |-> tool, fixable |-> fixable, rank |-> rank, category |-> "code"]

MCAiFile == <<Finding("style", "ruff", TRUE, 2), Finding("design", "", TRUE, 2)>>

MCToolFile ==
  <<Finding("style", "ruff", TRUE, 2), Finding("dependency", "npm-audit", TRUE, 0),
    [Finding("", "semgrep", FALSE, 0) EXCEPT !.category = "scanner-status"],
    Finding("", "gitleaks", FALSE, 4)>>

Line(apply, dry, only, tool, max) ==
  [apply |-> apply, dry |-> dry, only |-> only, tool |-> tool, floor |-> 2, max |-> max]

(* r1 is a command on a batch, r2 the dashboard on one finding. *)
MCArgs ==
  (r1 :> {Line(TRUE, FALSE, "", "", 0), Line(TRUE, TRUE, "", "ruff", 1)})
  @@ (r2 :> {Line(TRUE, FALSE, "style", "", 0), Line(FALSE, TRUE, "design", "", 0)})

Policies ==
  {[allow_fix |-> TRUE, allow_auto_commit |-> commit, require_clean_worktree |-> TRUE,
    max_changes_per_cycle |-> 2] : commit \in BOOLEAN}

MCAutonomies ==
  Policies \cup {[p EXCEPT !.allow_fix = FALSE] : p \in {q \in Policies : q.allow_auto_commit}}

=============================================================================

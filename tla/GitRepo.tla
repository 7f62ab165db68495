------------------------------- MODULE GitRepo -------------------------------
(***************************************************************************)
(* A target repository, as far as the programs that work in it can tell:   *)
(* the local branches, the branch that is checked out, and whether the     *)
(* working tree has uncommitted changes.  Git is external; each operator   *)
(* is one command as the callers in this repository use it.                *)
(*                                                                         *)
(* A commit is the set of changes reachable from it, itself included, so   *)
(* ancestry is set inclusion.  A command that may fail is the set of its   *)
(* outcomes: whether it exits 0, and the repository it leaves.             *)
(***************************************************************************)

(* r.refs: existing branch -> its commit; r.head: the branch checked out. *)
Exists(r, b) == b \in DOMAIN r.refs

Tip(r) == r.refs[r.head]

Success(r) == {[ok |-> TRUE, repo |-> r]}
Failure(r) == {[ok |-> FALSE, repo |-> r]}

(* git checkout b.  Uncommitted changes come along, unless the checkout would
   overwrite one of them. *)
Checkout(r, b) ==
  IF Exists(r, b)
  THEN Success([r EXCEPT !.head = b])
       \cup (IF r.dirty /\ b # r.head THEN Failure(r) ELSE {})
  ELSE Failure(r)

(* git checkout -b b *)
CheckoutNew(r, b) ==
  IF Exists(r, b)
  THEN Failure(r)
  ELSE Success([refs  |-> [x \in DOMAIN r.refs \cup {b} |-> IF x = b THEN Tip(r) ELSE r.refs[x]],
                head  |-> b,
                dirty |-> r.dirty])

(* git commit on whatever is checked out; some edits may stay uncommitted. *)
Commit(r, ch) == {[r EXCEPT !.refs[r.head] = @ \cup {ch}, !.dirty = d] : d \in BOOLEAN}

Edited(r) == [r EXCEPT !.dirty = TRUE]

(* git stash, git restore *)
Cleaned(r) == [r EXCEPT !.dirty = FALSE]

(* git merge --ff-only b; nothing to do when b is an ancestor. *)
FastForwards(r, b) ==
  Exists(r, b) /\ (r.refs[b] \subseteq Tip(r) \/ Tip(r) \subseteq r.refs[b])

FastForward(r, b) ==
  IF FastForwards(r, b)
  THEN Success([r EXCEPT !.refs[r.head] = @ \cup r.refs[b]])
       \cup (IF r.dirty THEN Failure(r) ELSE {})
  ELSE Failure(r)

(* git merge --no-ff b, aborted when it conflicts. *)
Merge(r, b) ==
  Success([r EXCEPT !.refs[r.head] = @ \cup r.refs[b]])
  \cup (IF r.dirty \/ ~(Tip(r) \subseteq r.refs[b]) THEN Failure(r) ELSE {})

(* git branch -D b *)
DeleteBranch(r, b) ==
  IF Exists(r, b) /\ b # r.head
  THEN Success([r EXCEPT !.refs = [x \in DOMAIN r.refs \ {b} |-> r.refs[x]]])
  ELSE Failure(r)

(* git reset --hard c: the branch that is checked out moves to c; untracked files stay. *)
ResetHard(r, c) == {[r EXCEPT !.refs[r.head] = c, !.dirty = d] : d \in {FALSE, r.dirty}}

=============================================================================

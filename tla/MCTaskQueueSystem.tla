-------------------------- MODULE MCTaskQueueSystem --------------------------
EXTENDS TaskQueueSystem, TLC

CONSTANTS srv, cmd, a1, a2, r1, r2, t1

Symmetric == Permutations({a1, a2}) \cup Permutations({r1, r2})

(* The mirrors are written and never read: states that differ only in them
   have the same future, and no property of the runs with this view speaks
   of them. *)
WithoutMirrors == <<queue, runs, lock, pc, req, snap, granted, writes, logged, crashes,
                    unlockedVars>>

=============================================================================

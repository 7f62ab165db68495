-------------------------- MODULE MCPreviewReview ---------------------------
(* Instances of PreviewReview for TLC. *)
EXTENDS PreviewReview, TLC

CONSTANTS trunk, j1, j2, c1, c2, c3

TwoJobs == {j1, j2}
ThreeChanges == {c1, c2, c3}

(* Job ids and changes are interchangeable: nothing orders them. *)
Symmetry == Permutations(Jobs) \cup Permutations(Changes)

=============================================================================

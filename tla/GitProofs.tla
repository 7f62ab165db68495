------------------------------ MODULE GitProofs -------------------------------
(***************************************************************************)
(* What the git commands of GitRepo do to a repository whose branches name *)
(* commits made of the changes C.                                          *)
(***************************************************************************)
EXTENDS GitRepo, TLAPS

WellFormed(r, C) ==
  /\ r = [refs |-> r.refs, head |-> r.head, dirty |-> r.dirty]
  /\ r.refs \in [DOMAIN r.refs -> SUBSET C]
  /\ r.head \in DOMAIN r.refs

LEMMA CheckoutEffect ==
  ASSUME NEW C, NEW r, WellFormed(r, C), NEW b, NEW o \in Checkout(r, b)
  PROVE  /\ WellFormed(o.repo, C) /\ o.repo.refs = r.refs /\ o.ok \in BOOLEAN
         /\ o.ok => o.repo.head = b
         /\ ~o.ok => o.repo = r
<1>1. CASE o = [ok |-> FALSE, repo |-> r]
  BY <1>1
<1>2. CASE o # [ok |-> FALSE, repo |-> r]
  <2>1. b \in DOMAIN r.refs /\ o = [ok |-> TRUE, repo |-> [r EXCEPT !.head = b]]
    BY <1>2 DEF Checkout, Success, Failure, Exists
  <2>2. o.repo = [refs |-> r.refs, head |-> b, dirty |-> r.dirty]
    BY <2>1 DEF WellFormed
  <2> QED
    BY <2>1, <2>2 DEF WellFormed
<1> QED
  BY <1>1, <1>2

LEMMA CheckoutNewEffect ==
  ASSUME NEW C, NEW r, WellFormed(r, C), NEW b, NEW o \in CheckoutNew(r, b), o.ok
  PROVE  /\ WellFormed(o.repo, C) /\ o.repo.head = b
         /\ b \notin DOMAIN r.refs /\ DOMAIN o.repo.refs = DOMAIN r.refs \cup {b}
         /\ o.repo.refs[b] = r.refs[r.head]
         /\ \A x \in DOMAIN r.refs : o.repo.refs[x] = r.refs[x]
<1>1. ~Exists(r, b)
  BY DEF CheckoutNew, Failure
<1>2. o.repo = [refs  |-> [x \in DOMAIN r.refs \cup {b} |-> IF x = b THEN Tip(r) ELSE r.refs[x]],
                head  |-> b,
                dirty |-> r.dirty]
  BY <1>1 DEF CheckoutNew, Success
<1> QED
  BY <1>1, <1>2 DEF WellFormed, Exists, Tip

LEMMA CommitEffect ==
  ASSUME NEW C, NEW r, WellFormed(r, C), NEW ch \in C, NEW p \in Commit(r, ch)
  PROVE  /\ WellFormed(p, C) /\ p.head = r.head /\ DOMAIN p.refs = DOMAIN r.refs
         /\ p.refs[r.head] = r.refs[r.head] \cup {ch}
         /\ \A x \in DOMAIN r.refs : x # r.head => p.refs[x] = r.refs[x]
<1>1. PICK d \in BOOLEAN : p = [r EXCEPT !.refs[r.head] = @ \cup {ch}, !.dirty = d]
  BY DEF Commit
<1>2. p = [refs |-> [r.refs EXCEPT ![r.head] = @ \cup {ch}], head |-> r.head, dirty |-> d]
  BY <1>1 DEF WellFormed
<1> QED
  BY <1>2 DEF WellFormed

LEMMA FastForwardEffect ==
  ASSUME NEW C, NEW r, WellFormed(r, C), NEW b, NEW o \in FastForward(r, b)
  PROVE  /\ WellFormed(o.repo, C) /\ o.repo.head = r.head /\ DOMAIN o.repo.refs = DOMAIN r.refs
         /\ o.ok \in BOOLEAN /\ (~o.ok => o.repo = r)
         /\ o.ok => b \in DOMAIN r.refs /\ o.repo.refs[r.head] = r.refs[r.head] \cup r.refs[b]
         /\ \A x \in DOMAIN r.refs : x # r.head => o.repo.refs[x] = r.refs[x]
<1>1. CASE o = [ok |-> FALSE, repo |-> r]
  BY <1>1
<1>2. CASE o # [ok |-> FALSE, repo |-> r]
  <2>1. /\ b \in DOMAIN r.refs
        /\ o = [ok |-> TRUE, repo |-> [r EXCEPT !.refs[r.head] = @ \cup r.refs[b]]]
    BY <1>2 DEF FastForward, FastForwards, Success, Failure, Exists
  <2>2. o.repo = [refs |-> [r.refs EXCEPT ![r.head] = @ \cup r.refs[b]],
                  head |-> r.head, dirty |-> r.dirty]
    BY <2>1 DEF WellFormed
  <2> QED
    BY <2>1, <2>2 DEF WellFormed
<1> QED
  BY <1>1, <1>2

LEMMA DeleteBranchEffect ==
  ASSUME NEW C, NEW r, WellFormed(r, C), NEW b, NEW o \in DeleteBranch(r, b)
  PROVE  /\ WellFormed(o.repo, C) /\ o.repo.head = r.head
         /\ o.ok \in BOOLEAN /\ (~o.ok => o.repo = r)
         /\ o.ok => DOMAIN o.repo.refs = DOMAIN r.refs \ {b} /\ b # r.head
         /\ \A x \in DOMAIN o.repo.refs : o.repo.refs[x] = r.refs[x]
<1>1. CASE o = [ok |-> FALSE, repo |-> r]
  BY <1>1
<1>2. CASE o # [ok |-> FALSE, repo |-> r]
  <2>1. /\ b # r.head
        /\ o = [ok |-> TRUE, repo |-> [r EXCEPT !.refs = [x \in DOMAIN r.refs \ {b} |-> r.refs[x]]]]
    BY <1>2 DEF DeleteBranch, Success, Failure, Exists
  <2>2. o.repo = [refs |-> [x \in DOMAIN r.refs \ {b} |-> r.refs[x]],
                  head |-> r.head, dirty |-> r.dirty]
    BY <2>1 DEF WellFormed
  <2> QED
    BY <2>1, <2>2 DEF WellFormed
<1> QED
  BY <1>1, <1>2

LEMMA EditEffect ==
  ASSUME NEW C, NEW r, WellFormed(r, C), NEW p \in {Edited(r), Cleaned(r)}
  PROVE  WellFormed(p, C) /\ p.refs = r.refs /\ p.head = r.head
BY DEF WellFormed, Edited, Cleaned

LEMMA ResetEffect ==
  ASSUME NEW C, NEW r, WellFormed(r, C), NEW c \in SUBSET C, NEW p \in ResetHard(r, c)
  PROVE  /\ WellFormed(p, C) /\ p.head = r.head /\ DOMAIN p.refs = DOMAIN r.refs
         /\ p.refs[r.head] = c
         /\ \A x \in DOMAIN r.refs : x # r.head => p.refs[x] = r.refs[x]
<1>1. PICK d : p = [r EXCEPT !.refs[r.head] = c, !.dirty = d]
  BY DEF ResetHard
<1>2. p = [refs |-> [r.refs EXCEPT ![r.head] = c], head |-> r.head, dirty |-> d]
  BY <1>1 DEF WellFormed
<1> QED
  BY <1>2 DEF WellFormed

LEMMA MergeEffect ==
  ASSUME NEW C, NEW r, WellFormed(r, C), NEW b \in DOMAIN r.refs, NEW o \in Merge(r, b)
  PROVE  /\ WellFormed(o.repo, C) /\ o.repo.head = r.head /\ DOMAIN o.repo.refs = DOMAIN r.refs
         /\ o.ok \in BOOLEAN /\ (~o.ok => o.repo = r)
         /\ o.ok => o.repo.refs[r.head] = r.refs[r.head] \cup r.refs[b]
         /\ \A x \in DOMAIN r.refs : x # r.head => o.repo.refs[x] = r.refs[x]
<1>1. CASE o = [ok |-> FALSE, repo |-> r]
  BY <1>1
<1>2. CASE o # [ok |-> FALSE, repo |-> r]
  <2>1. o = [ok |-> TRUE, repo |-> [r EXCEPT !.refs[r.head] = @ \cup r.refs[b]]]
    BY <1>2 DEF Merge, Success, Failure
  <2>2. o.repo = [refs |-> [r.refs EXCEPT ![r.head] = @ \cup r.refs[b]],
                  head |-> r.head, dirty |-> r.dirty]
    BY <2>1 DEF WellFormed
  <2> QED
    BY <2>1, <2>2 DEF WellFormed
<1> QED
  BY <1>1, <1>2

=============================================================================

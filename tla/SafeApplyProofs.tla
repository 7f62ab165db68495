--------------------------- MODULE SafeApplyProofs ----------------------------
(***************************************************************************)
(* Proofs about SafeApply, for any findings, invocations, policies and     *)
(* faults: what a batch is, an inductive invariant, the safety properties  *)
(* of the run safe_apply, and the refinement of ApplyPromise.              *)
(***************************************************************************)
EXTENDS SafeApply, FunctionTheorems, FiniteSetTheorems, SequenceTheorems, TLAPS

-----------------------------------------------------------------------------
(* The inductive invariant. *)

Statuses == Kept \cup {"skipped", "dry-run", "rolled-back", "failed"}

Beginning == {"resolve", "make"}

Trying == {"before", "apply", "after", "commit"}

Ending == {"remove", "delete", "record"}

Batch(r) == Select(run[r].args, autonomy)

IsRun(x) ==
  x = [pc |-> x.pc, args |-> x.args, todo |-> x.todo, status |-> x.status,
       passed |-> x.passed, base |-> x.base, where |-> x.where]

SafeTypes ==
  /\ autonomy \in Autonomies
  /\ refs = [b \in DOMAIN refs |-> refs[b]]
  /\ outcome = [a \in Attempts |-> outcome[a]]
  /\ \A a \in Attempts : outcome[a] \in Statuses \cup {None}
  /\ run = [r \in Runs |-> run[r]] /\ \A r \in Runs : IsRun(run[r])
  /\ \A r \in Runs : run[r].pc \in {"new", "done", "dead"} \cup Beginning \cup Trying \cup Ending

(* An invocation has attempted the head of its batch, and its rest is to do. *)
InTurn(r) ==
  IF run[r].pc = "new" THEN Attempted(r) = {}
  ELSE /\ run[r].args \in Args[r]
       /\ \E n \in 0 .. Len(Batch(r)) :
            /\ Attempted(r) = {Batch(r)[k] : k \in 1 .. n}
            /\ Active(r) =>
                 /\ n < Len(Batch(r))
                 /\ run[r].todo = SubSeq(Batch(r), n + 1, Len(Batch(r)))

Allowed(args) == Real(args) /\ autonomy.allow_fix /\ autonomy.allow_auto_commit

Committed(a) ==
  a \in DOMAIN refs /\ a \in refs[a] /\ a \notin regressions /\ Allowed(run[a[1]].args)

(* Where an attempt under way has come. *)
Stage(r) ==
  LET a == Attempt(r)
      pc == run[r].pc
      status == run[r].status
  IN  /\ Real(run[r].args) => autonomy.allow_fix
      /\ pc \in Beginning \cup Trying => a \notin regressions
      /\ pc \in Beginning => run[r].where = "outside"
      /\ pc \in Trying => run[r].where = "try" /\ a \in DOMAIN refs /\ a \in worktrees
      /\ pc = "commit" => Allowed(run[r].args)
      /\ pc \in Ending =>
           /\ status \in Statuses
           /\ status = "applied" => Committed(a)
           /\ run[r].where # "try" => status \in {"skipped", "failed"}
      /\ pc = "remove" => status # "applied-uncommitted"
      /\ pc = "delete" => status \notin Kept

(* And what it has in the repository, unless something was stranded there. *)
Holding(r) ==
  LET a == Attempt(r)
      pc == run[r].pc
      status == run[r].status
  IN  /\ pc \in Beginning => a \notin DOMAIN refs /\ a \notin worktrees
      /\ pc = "delete" => a \notin worktrees
      /\ pc = "record" => /\ a \in DOMAIN refs <=> status \in Kept
                          /\ a \in worktrees <=> status = "applied-uncommitted"

(* An attempt that is not begun has worsened no check. *)
Unbegun ==
  \A r \in Runs, i \in Findings :
    /\ outcome[<<r, i>>] = None /\ run[r].pc \notin {"done", "dead"} /\ <<r, i>> \notin UnderWay
    => <<r, i>> \notin regressions

Logged == \A e \in log : e[1] \in Attempts /\ outcome[e[1]] = e[2] /\ e[2] # None

SafeInv ==
  /\ SafeTypes
  /\ \A r \in Runs : InTurn(r) /\ (Active(r) => Stage(r))
  /\ \A r \in Runs : Active(r) /\ Attempt(r) \notin stranded => Holding(r)
  /\ \A a \in Attempts : outcome[a] = "applied" => Committed(a)
  /\ Unbegun /\ Logged
  /\ NothingLeftBehind

-----------------------------------------------------------------------------
(* What a batch is. *)

IsOrder(S, before) ==
  /\ \A i \in S : <<i, i>> \notin before
  /\ \A i, j, k \in S : <<i, j>> \in before /\ <<j, k>> \in before => <<i, k>> \in before
  /\ \A i, j \in S : i # j => <<i, j>> \in before \/ <<j, i>> \in before

(* InOrder lists a finite set, each element once, in the order of before: the   *)
(* numbers of elements before each are distinct, so each number below occurs.   *)
LEMMA InOrderIs ==
  ASSUME NEW S, IsFiniteSet(S), NEW before, IsOrder(S, before)
  PROVE  /\ Cardinality(S) \in Nat
         /\ InOrder(S, before) \in [1 .. Cardinality(S) -> S]
         /\ \A i \in S : \E k \in 1 .. Cardinality(S) : InOrder(S, before)[k] = i
         /\ \A k, l \in 1 .. Cardinality(S) :
              k < l => <<InOrder(S, before)[k], InOrder(S, before)[l]>> \in before
<1> DEFINE n == Cardinality(S)
           Below(i) == {j \in S : <<j, i>> \in before}
           place == [i \in S |-> Cardinality(Below(i)) + 1]
<1>1. n \in Nat  BY FS_CardinalityType
<1>2. ASSUME NEW i \in S
      PROVE  IsFiniteSet(Below(i)) /\ Cardinality(Below(i)) \in Nat /\ Cardinality(Below(i)) < n
  <2>1. Below(i) \in SUBSET S /\ Below(i) # S  BY DEF IsOrder
  <2>2. IsFiniteSet(Below(i)) /\ Cardinality(Below(i)) <= n /\ Cardinality(Below(i)) # n
    BY <2>1, FS_Subset
  <2>3. Cardinality(Below(i)) \in Nat  BY <2>2, FS_CardinalityType
  <2> QED  BY <1>1, <2>2, <2>3
<1>3. ASSUME NEW i \in S, NEW j \in S, <<i, j>> \in before
      PROVE  place[i] < place[j]
  <2>1. Below(i) \in SUBSET Below(j) /\ Below(i) # Below(j)  BY <1>3 DEF IsOrder
  <2>2. Cardinality(Below(i)) <= Cardinality(Below(j)) /\ Cardinality(Below(i)) # Cardinality(Below(j))
    BY <1>2, <2>1, FS_Subset
  <2> HIDE DEF Below
  <2> QED  BY <1>2, <2>2
<1>4. place \in [S -> 1 .. n]
  <2> HIDE DEF Below, n
  <2> QED  BY <1>1, <1>2
<1>5. \A i, j \in S : place[i] = place[j] => i = j
  <2> SUFFICES ASSUME NEW i \in S, NEW j \in S, i # j  PROVE place[i] # place[j]  OBVIOUS
  <2>1. place[i] \in 1 .. n /\ place[j] \in 1 .. n  BY <1>4
  <2>2. place[i] < place[j] \/ place[j] < place[i]
    <3> HIDE DEF place
    <3> QED  BY <1>3 DEF IsOrder
  <2> HIDE DEF place, n
  <2> QED  BY <1>1, <2>1, <2>2
<1>6. place \in Injection(S, 1 .. n)  BY <1>4, <1>5 DEF Injection, IsInjective
<1>7. IsFiniteSet(1 .. n) /\ Cardinality(1 .. n) = n
  <2> HIDE DEF n
  <2> QED  BY <1>1, FS_Interval
<1>8. place \in Surjection(S, 1 .. n)
  <2> HIDE DEF place
  <2> QED  BY <1>6, <1>7, FS_Injection
<1>9. \A k \in 1 .. n : \E i \in S : place[i] = k  BY <1>8 DEF Surjection
<1> DEFINE s == InOrder(S, before)
<1>10. ASSUME NEW k \in 1 .. n  PROVE s[k] \in S /\ place[s[k]] = k
  <2>1. s[k] = CHOOSE i \in S : Cardinality(Below(i)) = k - 1  BY DEF InOrder
  <2>2. \E i \in S : Cardinality(Below(i)) = k - 1
    <3>1. PICK i \in S : place[i] = k  BY <1>9
    <3>2. Cardinality(Below(i)) + 1 = k  BY <3>1
    <3> HIDE DEF Below, place, n
    <3> QED  BY <1>1, <1>2, <3>2
  <2>3. s[k] \in S /\ Cardinality(Below(s[k])) = k - 1
    <3> HIDE DEF Below
    <3> QED  BY <2>1, <2>2
  <2>4. place[s[k]] = (k - 1) + 1  BY <2>3
  <2> HIDE DEF Below, place, n, s
  <2> QED  BY <1>1, <2>3, <2>4
<1>11. s \in [1 .. n -> S]
  <2> DEFINE F(k) == CHOOSE i \in S : Cardinality(Below(i)) = k - 1
  <2>0. s = [k \in 1 .. n |-> F(k)]  BY DEF InOrder
  <2>1. s = [k \in 1 .. n |-> s[k]]
    <3> HIDE DEF F, s, n
    <3> QED  BY <2>0
  <2> HIDE DEF s, n, place
  <2> QED  BY <1>10, <2>1
<1>12. \A i \in S : \E k \in 1 .. n : s[k] = i
  <2> HIDE DEF s, n, place
  <2> QED  BY <1>4, <1>5, <1>10
<1>13. \A k, l \in 1 .. n : k < l => <<s[k], s[l]>> \in before
  <2> SUFFICES ASSUME NEW k \in 1 .. n, NEW l \in 1 .. n, k < l  PROVE <<s[k], s[l]>> \in before
    OBVIOUS
  <2>1. s[k] \in S /\ s[l] \in S /\ place[s[k]] = k /\ place[s[l]] = l  BY <1>10
  <2>2. s[k] # s[l]
    <3> HIDE DEF s, n, place
    <3> QED  BY <1>1, <2>1
  <2>3. ~(<<s[l], s[k]>> \in before)
    <3>1. <<s[l], s[k]>> \in before => place[s[l]] < place[s[k]]
      <4> HIDE DEF s, n, place
      <4> QED  BY <1>3, <2>1
    <3> HIDE DEF s, n, place
    <3> QED  BY <1>1, <2>1, <3>1
  <2> HIDE DEF s, n, place
  <2> QED  BY <2>1, <2>2, <2>3 DEF IsOrder
<1> QED  BY <1>1, <1>11, <1>12, <1>13

LEMMA SubsetsAreFinite ==
  ASSUME NEW n \in Nat, NEW S, S \subseteq 1 .. n
  PROVE  IsFiniteSet(S) /\ Cardinality(S) \in Nat /\ Cardinality(S) <= n
<1>1. IsFiniteSet(1 .. n) /\ Cardinality(1 .. n) = n  BY FS_Interval
<1>2. IsFiniteSet(S) /\ Cardinality(S) <= n  BY <1>1, FS_Subset
<1> QED  BY <1>2, FS_CardinalityType

LEMMA FilesAre ==
  /\ Len(AllFindings) \in Nat
  /\ \A i \in 1 .. Len(AllFindings) : AllFindings[i].rank \in Nat
<1> DEFINE F == [id : STRING, tool : STRING, fixable : BOOLEAN, rank : Nat, category : STRING]
<1>1. AiFile \in Seq(F) /\ ToolFile \in Seq(F)  BY FilesAssumption
<1> HIDE DEF F
<1>2. AllFindings \in Seq(F)  BY <1>1, ConcatProperties DEF AllFindings
<1>3. Len(AllFindings) \in Nat /\ \A i \in 1 .. Len(AllFindings) : AllFindings[i] \in F
  BY <1>2, LenProperties
<1> QED  BY <1>3 DEF F

(* The indices are those of the findings whose id is new. *)
LEMMA FindingsAre ==
  /\ \E n \in Nat : Findings = 1 .. n /\ n <= Len(AllFindings)
  /\ \A i \in Findings : Loaded[i].rank \in Nat
<1> DEFINE n == Cardinality(Fresh)
           s == InOrder(Fresh, Earlier)
<1>1. Len(AllFindings) \in Nat  BY FilesAre
<1>2. Fresh \subseteq 1 .. Len(AllFindings)  BY DEF Fresh
<1>3. IsFiniteSet(Fresh) /\ n \in Nat /\ n <= Len(AllFindings)
  BY <1>1, <1>2, SubsetsAreFinite
<1>4. IsOrder(Fresh, Earlier)
  BY <1>1, <1>2 DEF IsOrder, Earlier
<1>5. s \in [1 .. n -> Fresh]  BY <1>3, <1>4, InOrderIs
<1>6. Loaded = [k \in 1 .. n |-> AllFindings[s[k]]]  BY DEF Loaded
<1> HIDE DEF n, s
<1>7. Findings = 1 .. n  BY <1>6 DEF Findings
<1>8. \A i \in Findings : Loaded[i].rank \in Nat
  BY <1>2, <1>5, <1>6, <1>7, FilesAre
<1> QED  BY <1>3, <1>7, <1>8

(* A batch is a sequence of distinct findings, and one that no single finding   *)
(* was asked for is the head of the matching ones in order.                     *)
LEMMA SelectIs ==
  ASSUME NEW args, NEW a, args.max \in Nat, a.max_changes_per_cycle \in Nat
  PROVE  LET b == Select(args, a)
         IN  /\ b \in Seq(Findings) /\ Len(b) \in Nat /\ b \in [1 .. Len(b) -> Findings]
             /\ \A k, l \in 1 .. Len(b) : b[k] = b[l] => k = l
             /\ args.only = "" =>
                  /\ Cap(args, a) \in Nat /\ Len(b) <= Cap(args, a)
                  /\ \A k \in 1 .. Len(b) : Matches(b[k], args)
                  /\ \A n \in 0 .. Len(b) : \A k \in 1 .. n, j \in Findings :
                       Matches(j, args) /\ (\A l \in 1 .. n : b[l] # j)
                       => Loaded[b[k]].rank <= Loaded[j].rank
<1> DEFINE b == Select(args, a)
<1>1. PICK m \in Nat : Findings = 1 .. m /\ m <= Len(AllFindings)  BY FindingsAre
<1>2. \A T \in SUBSET Findings : IsFiniteSet(T) /\ Cardinality(T) \in Nat /\ Cardinality(T) <= m
  BY <1>1, SubsetsAreFinite
<1>3. \A T \in SUBSET Findings : IsOrder(T, Earlier)
  BY <1>1, FilesAre DEF IsOrder, Earlier
<1>4. \A T \in SUBSET Findings : IsOrder(T, BySeverity)
  <2>1. \A i, j \in Findings :
          <<i, j>> \in BySeverity <=>
            (Loaded[i].rank < Loaded[j].rank \/ (Loaded[i].rank = Loaded[j].rank /\ i < j))
    BY DEF BySeverity
  <2>2. \A i \in Findings : i \in Nat /\ Loaded[i].rank \in Nat
    BY <1>1, FindingsAre
  <2>3. /\ \A i \in Findings : <<i, i>> \notin BySeverity
        /\ \A i, j \in Findings : i # j => <<i, j>> \in BySeverity \/ <<j, i>> \in BySeverity
    BY <2>1, <2>2
  <2>4. ASSUME NEW i \in Findings, NEW j \in Findings, NEW k \in Findings,
               <<i, j>> \in BySeverity, <<j, k>> \in BySeverity
        PROVE  <<i, k>> \in BySeverity
    <3>1. /\ Loaded[i].rank < Loaded[j].rank \/ (Loaded[i].rank = Loaded[j].rank /\ i < j)
          /\ Loaded[j].rank < Loaded[k].rank \/ (Loaded[j].rank = Loaded[k].rank /\ j < k)
      BY <2>1, <2>4
    <3>2. Loaded[i].rank < Loaded[k].rank \/ (Loaded[i].rank = Loaded[k].rank /\ i < k)
      BY <2>2, <3>1
    <3> QED  BY <2>1, <3>2
  <2> QED  BY <2>3, <2>4 DEF IsOrder
<1>5. ASSUME NEW T \in SUBSET Findings, NEW before, IsOrder(T, before)
      PROVE  LET s == InOrder(T, before)
             IN  /\ s \in Seq(Findings) /\ Len(s) = Cardinality(T) /\ s \in [1 .. Len(s) -> T]
                 /\ \A k, l \in 1 .. Len(s) : s[k] = s[l] => k = l
                 /\ \A i \in T : \E k \in 1 .. Len(s) : s[k] = i
                 /\ \A k, l \in 1 .. Len(s) : k < l => <<s[k], s[l]>> \in before
  <2> DEFINE s == InOrder(T, before)
             n == Cardinality(T)
  <2>1. /\ n \in Nat /\ s \in [1 .. n -> T]
        /\ \A i \in T : \E k \in 1 .. n : s[k] = i
        /\ \A k, l \in 1 .. n : k < l => <<s[k], s[l]>> \in before
    BY <1>2, <1>5, InOrderIs
  <2> HIDE DEF s, n
  <2>2. s \in [1 .. n -> Findings]  BY <2>1
  <2>3. s \in Seq(Findings)  BY <2>1, <2>2, SeqDef
  <2>4. Len(s) = n  BY <2>1, <2>2, <2>3, LenProperties
  <2>5. \A k, l \in 1 .. n : s[k] = s[l] => k = l
    <3> SUFFICES ASSUME NEW k \in 1 .. n, NEW l \in 1 .. n, k # l  PROVE s[k] # s[l]  OBVIOUS
    <3>1. k < l \/ l < k  BY <2>1
    <3>2. s[k] \in T /\ <<s[k], s[k]>> \notin before  BY <1>5, <2>1 DEF IsOrder
    <3> QED  BY <2>1, <3>1, <3>2
  <2>6. /\ s \in Seq(Findings) /\ Len(s) = Cardinality(T) /\ s \in [1 .. Len(s) -> T]
        /\ \A k, l \in 1 .. Len(s) : s[k] = s[l] => k = l
        /\ \A i \in T : \E k \in 1 .. Len(s) : s[k] = i
        /\ \A k, l \in 1 .. Len(s) : k < l => <<s[k], s[l]>> \in before
    BY <2>1, <2>3, <2>4, <2>5 DEF n
  <2> QED  BY <2>6 DEF s
<1>6. CASE args.only # ""
  <2> DEFINE T == {i \in Findings : Loaded[i].id = args.only}
  <2>1. b = InOrder(T, Earlier)  BY <1>6 DEF Select
  <2>2. T \in SUBSET Findings /\ IsOrder(T, Earlier)  BY <1>3
  <2>3. /\ b \in Seq(Findings) /\ Len(b) = Cardinality(T) /\ b \in [1 .. Len(b) -> T]
        /\ \A k, l \in 1 .. Len(b) : b[k] = b[l] => k = l
    <3> HIDE DEF b, T
    <3> QED  BY <1>5, <2>1, <2>2
  <2>4. Cardinality(T) \in Nat  BY <1>2, <2>2
  <2> HIDE DEF b, T
  <2>5. b \in [1 .. Len(b) -> Findings]  BY <2>2, <2>3
  <2> QED  BY <1>6, <2>3, <2>4, <2>5 DEF b
<1>7. CASE args.only = ""
  <2> DEFINE T == {i \in Findings : Matches(i, args)}
             s == InOrder(T, BySeverity)
             c == IF Len(s) < Cap(args, a) THEN Len(s) ELSE Cap(args, a)
  <2>1. T \in SUBSET Findings /\ IsOrder(T, BySeverity)  BY <1>4
  <2>2. /\ s \in Seq(Findings) /\ Len(s) = Cardinality(T) /\ s \in [1 .. Len(s) -> T]
        /\ \A k, l \in 1 .. Len(s) : s[k] = s[l] => k = l
        /\ \A i \in T : \E k \in 1 .. Len(s) : s[k] = i
        /\ \A k, l \in 1 .. Len(s) : k < l => <<s[k], s[l]>> \in BySeverity
    BY <1>5, <2>1
  <2>3. b = SubSeq(s, 1, c)  BY <1>7 DEF Select, Cut
  <2>4. Cap(args, a) \in Nat  BY DEF Cap
  <2>5. Len(s) \in Nat  BY <2>2, LenProperties
  <2> HIDE DEF b, s, T
  <2>6. c \in Nat /\ c <= Len(s) /\ c <= Cap(args, a)  BY <2>4, <2>5
  <2> HIDE DEF c
  <2>7. b \in Seq(T) /\ Len(b) = c /\ \A k \in 1 .. c : b[k] = s[k]
    <3>1. \A k \in 1 .. c : s[k] \in T  BY <2>2, <2>5, <2>6
    <3>2. b \in Seq(T) /\ Len(b) = (IF 1 <= c THEN c - 1 + 1 ELSE 0)
          /\ \A k \in 1 .. c - 1 + 1 : b[k] = s[1 + k - 1]
      BY <2>3, <2>6, <3>1, SubSeqProperties
    <3> QED  BY <2>6, <3>2
  <2>8. b \in Seq(Findings)  BY <2>1, <2>7, SeqMonotonic
  <2>9. \A k, l \in 1 .. Len(b) : b[k] = b[l] => k = l  BY <2>2, <2>5, <2>6, <2>7
  <2>10. b \in [1 .. Len(b) -> Findings]  BY <2>8, LenProperties
  <2>11. \A k \in 1 .. Len(b) : Matches(b[k], args)
    <3>1. \A k \in 1 .. Len(b) : b[k] \in T  BY <2>2, <2>5, <2>6, <2>7
    <3> QED  BY <3>1 DEF T
  <2>12. ASSUME NEW n \in 0 .. Len(b), NEW k \in 1 .. n, NEW j \in Findings,
                Matches(j, args), \A l \in 1 .. n : b[l] # j
         PROVE  Loaded[b[k]].rank <= Loaded[j].rank
    <3>1. j \in T  BY <2>12 DEF T
    <3>2. PICK l \in 1 .. Len(s) : s[l] = j  BY <2>2, <3>1
    <3>3. k \in 1 .. Len(s) /\ b[k] = s[k]  BY <2>5, <2>6, <2>7
    <3>4. ~(l <= n)  BY <2>5, <2>6, <2>7, <2>12, <3>2
    <3>5. k < l  BY <2>5, <2>6, <2>7, <3>4
    <3>6. <<b[k], j>> \in BySeverity  BY <2>2, <3>2, <3>3, <3>5
    <3>7. b[k] \in Findings /\ Loaded[b[k]].rank \in Nat /\ Loaded[j].rank \in Nat
      BY <2>6, <2>7, <2>10, FindingsAre
    <3> QED  BY <3>6, <3>7 DEF BySeverity
  <2> QED  BY <2>4, <2>6, <2>7, <2>8, <2>9, <2>10, <2>11, <2>12 DEF b
<1> QED  BY <1>6, <1>7

-----------------------------------------------------------------------------
(* What each step makes of the invocation that takes it. *)

(* The invocation goes to pc with that status, in that clause of the try. *)
Becomes(r, pc, status, where) ==
  /\ run' = [q \in Runs |-> run'[q]] /\ IsRun(run'[r])
  /\ \A q \in Runs : q # r => run'[q] = run[q]
  /\ run'[r].pc = pc /\ run'[r].status = status /\ run'[r].where = where
  /\ run'[r].args = run[r].args

Onwards(r) == run'[r].todo = run[r].todo

LEMMA FieldUpdates ==
  ASSUME SafeTypes, NEW r \in Runs, NEW p, NEW s, NEW v
  PROVE  /\ run' = [run EXCEPT ![r].pc = p] =>
              Becomes(r, p, run[r].status, run[r].where) /\ Onwards(r)
         /\ run' = [run EXCEPT ![r].pc = p, ![r].status = s] =>
              Becomes(r, p, s, run[r].where) /\ Onwards(r)
         /\ run' = [run EXCEPT ![r].pc = p, ![r].base = v] =>
              Becomes(r, p, run[r].status, run[r].where) /\ Onwards(r)
         /\ run' = [run EXCEPT ![r].pc = p, ![r].passed = v] =>
              Becomes(r, p, run[r].status, run[r].where) /\ Onwards(r) /\ run'[r].passed = v
         /\ run' = [run EXCEPT ![r].pc = p, ![r].where = v] =>
              Becomes(r, p, run[r].status, v) /\ Onwards(r)
         /\ run' = [run EXCEPT ![r].pc = p, ![r].status = s, ![r].where = v] =>
              Becomes(r, p, s, v) /\ Onwards(r)
<1>0. IsRun(run[r]) /\ run = [q \in Runs |-> run[q]]  BY DEF SafeTypes
<1>1. ASSUME run' = [run EXCEPT ![r].pc = p]
      PROVE  Becomes(r, p, run[r].status, run[r].where) /\ Onwards(r)
  BY <1>0, <1>1 DEF Becomes, Onwards, IsRun
<1>2. ASSUME run' = [run EXCEPT ![r].pc = p, ![r].status = s]
      PROVE  Becomes(r, p, s, run[r].where) /\ Onwards(r)
  BY <1>0, <1>2 DEF Becomes, Onwards, IsRun
<1>3. ASSUME run' = [run EXCEPT ![r].pc = p, ![r].base = v]
      PROVE  Becomes(r, p, run[r].status, run[r].where) /\ Onwards(r)
  BY <1>0, <1>3 DEF Becomes, Onwards, IsRun
<1>4. ASSUME run' = [run EXCEPT ![r].pc = p, ![r].passed = v]
      PROVE  Becomes(r, p, run[r].status, run[r].where) /\ Onwards(r) /\ run'[r].passed = v
  BY <1>0, <1>4 DEF Becomes, Onwards, IsRun
<1>5. ASSUME run' = [run EXCEPT ![r].pc = p, ![r].where = v]
      PROVE  Becomes(r, p, run[r].status, v) /\ Onwards(r)
  BY <1>0, <1>5 DEF Becomes, Onwards, IsRun
<1>6. ASSUME run' = [run EXCEPT ![r].pc = p, ![r].status = s, ![r].where = v]
      PROVE  Becomes(r, p, s, v) /\ Onwards(r)
  BY <1>0, <1>6 DEF Becomes, Onwards, IsRun
<1> QED  BY <1>1, <1>2, <1>3, <1>4, <1>5, <1>6

LEMMA BatchIs ==
  ASSUME SafeTypes, NEW r \in Runs, InTurn(r), run[r].pc # "new"
  PROVE  LET b == Batch(r)
         IN  /\ b \in Seq(Findings) /\ Len(b) \in Nat /\ b \in [1 .. Len(b) -> Findings]
             /\ \A k, l \in 1 .. Len(b) : b[k] = b[l] => k = l
<1>1. run[r].args.max \in Nat /\ autonomy.max_changes_per_cycle \in Nat
  BY RequestsAssumption DEF SafeTypes, InTurn
<1> QED  BY <1>1, SelectIs DEF Batch

(* The attempt under way is the next of the batch, and has no outcome yet. *)
LEMMA Turn ==
  ASSUME SafeTypes, NEW r \in Runs, InTurn(r), Active(r)
  PROVE  LET b == Batch(r)
         IN  /\ Attempt(r) \in Attempts /\ Attempt(r)[1] = r /\ outcome[Attempt(r)] = None
             /\ \E n \in 0 .. Len(b) - 1 :
                  /\ Attempt(r) = <<r, b[n + 1]>> /\ b[n + 1] \in Findings
                  /\ Attempted(r) = {b[k] : k \in 1 .. n}
                  /\ Tail(run[r].todo) = SubSeq(b, n + 2, Len(b))
<1> DEFINE b == Batch(r)
<1>0. run[r].pc # "new"  BY DEF Active
<1>1. /\ b \in Seq(Findings) /\ Len(b) \in Nat /\ b \in [1 .. Len(b) -> Findings]
      /\ \A k, l \in 1 .. Len(b) : b[k] = b[l] => k = l
  BY <1>0, BatchIs
<1>2. PICK n \in 0 .. Len(b) :
        /\ Attempted(r) = {b[k] : k \in 1 .. n}
        /\ n < Len(b) /\ run[r].todo = SubSeq(b, n + 1, Len(b))
  BY <1>0 DEF InTurn
<1> HIDE DEF b
<1>3. n + 1 \in 1 .. Len(b) /\ Len(b) \in n + 1 .. Len(b)  BY <1>1, <1>2
<1>4. Head(run[r].todo) = b[n + 1] /\ Tail(run[r].todo) = SubSeq(b, (n + 1) + 1, Len(b))
  BY <1>1, <1>2, <1>3, HeadTailOfSubSeq
<1>5. (n + 1) + 1 = n + 2  BY <1>2
<1>6. b[n + 1] \in Findings /\ b[n + 1] \notin Attempted(r)
  <2>1. \A k \in 1 .. n : k \in 1 .. Len(b) /\ k # n + 1  BY <1>1, <1>2
  <2> QED  BY <1>1, <1>2, <1>3, <2>1
<1>7. Attempt(r) = <<r, b[n + 1]>>  BY <1>4 DEF Attempt
<1>8. outcome[Attempt(r)] = None  BY <1>6, <1>7 DEF Attempted
<1>9. n \in 0 .. Len(b) - 1  BY <1>1, <1>2
<1>10. Attempt(r) \in Attempts /\ Attempt(r)[1] = r  BY <1>6, <1>7 DEF Attempts
<1>11. Tail(run[r].todo) = SubSeq(b, n + 2, Len(b))  BY <1>4, <1>5
<1>12. \E m \in 0 .. Len(b) - 1 :
         /\ Attempt(r) = <<r, b[m + 1]>> /\ b[m + 1] \in Findings
         /\ Attempted(r) = {b[k] : k \in 1 .. m}
         /\ Tail(run[r].todo) = SubSeq(b, m + 2, Len(b))
  BY <1>2, <1>6, <1>7, <1>9, <1>11
<1> QED  BY <1>8, <1>10, <1>12 DEF b

(* A step on the attempt under way, which is not over. *)
Stays(r) ==
  /\ \E pc \in Beginning \cup Trying \cup Ending : \E status, where : Becomes(r, pc, status, where)
  /\ Onwards(r) /\ Active(r)
  /\ UNCHANGED <<autonomy, log, outcome>>
  /\ refs' = [b \in DOMAIN refs' |-> refs'[b]]
  /\ \A b \in Attempts : b # Attempt(r) =>
       /\ b \in DOMAIN refs' <=> b \in DOMAIN refs
       /\ b \in DOMAIN refs => refs'[b] = refs[b]
       /\ b \in worktrees' <=> b \in worktrees
       /\ b \in regressions' <=> b \in regressions
  /\ stranded \subseteq stranded'

LEMMA StaysInv ==
  ASSUME SafeInv, NEW r \in Runs, Stays(r),
         Stage(r)', Attempt(r) \notin stranded' => Holding(r)'
  PROVE  SafeInv'
<1>1. /\ run' = [q \in Runs |-> run'[q]] /\ IsRun(run'[r])
      /\ \A q \in Runs : q # r => run'[q] = run[q]
      /\ run'[r].pc \in Beginning \cup Trying \cup Ending
      /\ run'[r].args = run[r].args /\ run'[r].todo = run[r].todo
      /\ UNCHANGED <<autonomy, log, outcome>>
  BY DEF Stays, Becomes, Onwards
<1>2. \A q \in Runs : run'[q].args = run[q].args /\ run'[q].todo = run[q].todo
                      /\ Attempt(q)' = Attempt(q)
  BY <1>1 DEF Attempt
<1>3. \A q \in Runs : (Active(q)' <=> Active(q)) /\ (run'[q].pc = "new" <=> run[q].pc = "new")
                      /\ (run'[q].pc \in {"done", "dead"} <=> run[q].pc \in {"done", "dead"})
  BY <1>1 DEF Stays, Active, Beginning, Trying, Ending
<1>4. SafeTypes'
  BY <1>1 DEF SafeInv, SafeTypes, Stays
<1>5. \A q \in Runs : InTurn(q)'
  BY <1>1, <1>2, <1>3 DEF SafeInv, InTurn, Attempted, Batch
<1>6. \A q \in Runs : Active(q) => Attempt(q) \in Attempts /\ Attempt(q)[1] = q /\ outcome[Attempt(q)] = None
  BY Turn DEF SafeInv
<1>7. ASSUME NEW a \in Attempts, a # Attempt(r), Committed(a)
      PROVE  Committed(a)'
  <2>1. a[1] \in Runs  BY DEF Attempts
  <2> QED  BY <1>1, <1>2, <1>7, <2>1 DEF Committed, Allowed, Stays
<1>8. ASSUME NEW q \in Runs, Active(q)'
      PROVE  Stage(q)' /\ (Attempt(q) \notin stranded' => Holding(q)')
  <2>1. CASE q = r  BY <2>1
  <2>2. CASE q # r
    <3>1. /\ Attempt(q) \in Attempts /\ Attempt(q) # Attempt(r) /\ run'[q] = run[q]
          /\ Active(q) /\ Attempt(q)' = Attempt(q) /\ Active(r)
      BY <1>1, <1>2, <1>3, <1>6, <1>8, <2>2 DEF Stays
    <3>2. Stage(q) /\ (Attempt(q) \notin stranded' => Holding(q))
      BY <3>1 DEF SafeInv, Stays
    <3>3. Stage(q)'
      BY <1>1, <1>7, <3>1, <3>2 DEF Stage, Allowed, Stays
    <3>4. Attempt(q) \notin stranded' => Holding(q)'
      BY <3>1, <3>2 DEF Holding, Stays
    <3> QED  BY <3>3, <3>4
  <2> QED  BY <2>1, <2>2
<1>9. \A a \in Attempts : outcome'[a] = "applied" => Committed(a)'
  <2>1. "applied" # None  BY NamesAssumption DEF Kept
  <2> QED  BY <1>1, <1>6, <1>7, <2>1 DEF SafeInv, Stays
<1>10. UnderWay' = UnderWay  BY <1>2, <1>3 DEF UnderWay
<1>11. Attempt(r) \in UnderWay  BY DEF UnderWay, Stays
<1>12. Unbegun'
  BY <1>1, <1>3, <1>10, <1>11 DEF SafeInv, Unbegun, Stays, Attempts
<1>13. Logged'  BY <1>1 DEF SafeInv, Logged
<1>14. NothingLeftBehind'
  BY <1>1, <1>10, <1>11 DEF SafeInv, NothingLeftBehind, Stays
<1> QED  BY <1>2, <1>4, <1>5, <1>8, <1>9, <1>12, <1>13, <1>14 DEF SafeInv

LEMMA ActiveIs ==
  ASSUME SafeInv, NEW r \in Runs, run[r].pc \in Beginning \cup Trying \cup Ending
  PROVE  /\ Active(r) /\ Stage(r) /\ (Attempt(r) \notin stranded => Holding(r))
         /\ SafeTypes /\ Attempt(r) \in Attempts
         /\ Onwards(r) => Attempt(r)' = Attempt(r)
<1>1. Active(r)  BY DEF Active, Beginning, Trying, Ending
<1>2. Attempt(r) \in Attempts  BY <1>1, Turn DEF SafeInv
<1> QED  BY <1>1, <1>2 DEF SafeInv, Onwards, Attempt

(* A step that goes on in the attempt and changes nothing else of its own. *)
LEMMA ResolveInv ==
  ASSUME SafeInv, NEW r \in Runs, Resolve(r)
  PROVE  SafeInv'
<1>1. /\ Active(r) /\ Stage(r) /\ (Attempt(r) \notin stranded => Holding(r)) /\ SafeTypes
      /\ Onwards(r) => Attempt(r)' = Attempt(r)
  BY ActiveIs DEF Resolve, At, Beginning
<1>2. /\ run[r].pc = "resolve"
      /\ UNCHANGED <<autonomy, head, refs, worktrees, log, outcome, regressions, stranded>>
  BY DEF Resolve, At, repoVars, history
<1>3. /\ Onwards(r)
      /\ \/ Becomes(r, "make", run[r].status, run[r].where)
         \/ Becomes(r, "record", "skipped", run[r].where)
  BY <1>1, FieldUpdates DEF Resolve, Ends
<1>4. Stays(r)
  BY <1>1, <1>2, <1>3 DEF Stays, Beginning, Ending, SafeTypes
<1>5. Stage(r)'
  BY <1>1, <1>2, <1>3 DEF Stage, Becomes, Beginning, Trying, Ending, Statuses
<1>6. Attempt(r) \notin stranded => Holding(r)'
  BY <1>1, <1>2, <1>3 DEF Holding, Becomes, Beginning, Kept
<1> QED  BY <1>1, <1>2, <1>3, <1>4, <1>5, <1>6, StaysInv

LEMMA MakeWorktreeInv ==
  ASSUME SafeInv, NEW r \in Runs, MakeWorktree(r)
  PROVE  SafeInv'
<1> DEFINE a == Attempt(r)
<1>1. /\ Active(r) /\ Stage(r) /\ (a \notin stranded => Holding(r)) /\ SafeTypes /\ a \in Attempts
      /\ Onwards(r) => Attempt(r)' = a
  BY ActiveIs DEF MakeWorktree, At, Beginning
<1>2. run[r].pc = "make" /\ UNCHANGED <<autonomy, head, log, outcome, regressions>>
  BY DEF MakeWorktree, At
<1> DEFINE Branched ==
      refs' = [b \in DOMAIN refs \cup {a} |-> IF b = a THEN refs[run[r].base] ELSE refs[b]]
<1>3. \/ /\ Branched /\ worktrees' = worktrees \cup {a} /\ UNCHANGED stranded
         /\ Becomes(r, "before", run[r].status, "try") /\ Onwards(r)
      \/ /\ Branched /\ stranded' = stranded \cup {a} /\ UNCHANGED worktrees
         /\ Becomes(r, "record", "failed", run[r].where) /\ Onwards(r)
      \/ /\ UNCHANGED <<refs, worktrees, stranded>>
         /\ Becomes(r, "record", "failed", run[r].where) /\ Onwards(r)
  BY <1>1, FieldUpdates DEF MakeWorktree, Ends
<1>4. Stays(r)
  <2>1. /\ refs' = [b \in DOMAIN refs' |-> refs'[b]]
        /\ \A b \in Attempts : b # a =>
             /\ b \in DOMAIN refs' <=> b \in DOMAIN refs
             /\ b \in DOMAIN refs => refs'[b] = refs[b]
             /\ b \in worktrees' <=> b \in worktrees
        /\ stranded \subseteq stranded'
    BY <1>1, <1>3 DEF SafeTypes
  <2> QED  BY <1>1, <1>2, <1>3, <2>1 DEF Stays, Trying, Ending
<1>5. Stage(r)'
  <2>1. \/ /\ run'[r].pc = "before" /\ run'[r].where = "try"
           /\ a \in DOMAIN refs' /\ a \in worktrees'
        \/ /\ run'[r].pc = "record" /\ run'[r].where = "outside" /\ run'[r].status = "failed"
    BY <1>1, <1>2, <1>3 DEF Becomes, Stage, Beginning
  <2>2. Attempt(r)' = a /\ run'[r].args = run[r].args  BY <1>1, <1>3 DEF Becomes
  <2>3. a \notin regressions /\ (Real(run[r].args) => autonomy.allow_fix)
    BY <1>1, <1>2 DEF Stage, Beginning
  <2> HIDE DEF a
  <2> QED  BY <1>2, <2>1, <2>2, <2>3 DEF Stage, Beginning, Trying, Ending, Statuses
<1>6. a \notin stranded' => Holding(r)'
  BY <1>1, <1>2, <1>3 DEF Holding, Becomes, Beginning, Kept
<1> QED  BY <1>1, <1>3, <1>4, <1>5, <1>6, StaysInv

LEMMA VerifyBeforeInv ==
  ASSUME SafeInv, NEW r \in Runs, VerifyBefore(r) \/ ApplyFix(r)
  PROVE  SafeInv'
<1>1. /\ Active(r) /\ Stage(r) /\ (Attempt(r) \notin stranded => Holding(r)) /\ SafeTypes
      /\ Onwards(r) => Attempt(r)' = Attempt(r)
  BY ActiveIs DEF VerifyBefore, ApplyFix, At, Trying
<1>2. /\ run[r].pc \in {"before", "apply"}
      /\ UNCHANGED <<autonomy, head, refs, worktrees, log, outcome, regressions, stranded>>
  BY DEF VerifyBefore, ApplyFix, At, repoVars, history
<1>3. /\ Onwards(r)
      /\ \/ \E pc \in {"apply", "after"} : Becomes(r, pc, run[r].status, run[r].where)
         \/ Becomes(r, "remove", "failed", run[r].where)
  BY <1>1, FieldUpdates DEF VerifyBefore, ApplyFix, Goto, Ends
<1>4. Stays(r)
  BY <1>1, <1>2, <1>3 DEF Stays, Trying, Ending, SafeTypes
<1>5. Stage(r)'
  BY <1>1, <1>2, <1>3 DEF Stage, Becomes, Beginning, Trying, Ending, Statuses, Kept
<1>6. Holding(r)'
  BY <1>3 DEF Holding, Becomes, Beginning
<1> QED  BY <1>4, <1>5, <1>6, StaysInv

LEMMA VerifyAfterInv ==
  ASSUME SafeInv, NEW r \in Runs, VerifyAfter(r)
  PROVE  SafeInv'
<1> DEFINE a == Attempt(r)
<1>1. /\ Active(r) /\ Stage(r) /\ (a \notin stranded => Holding(r)) /\ SafeTypes /\ a \in Attempts
      /\ Onwards(r) => Attempt(r)' = a
  BY ActiveIs DEF VerifyAfter, At, Trying
<1>2. /\ run[r].pc = "after"
      /\ UNCHANGED <<autonomy, head, refs, worktrees, log, outcome, stranded>>
  BY DEF VerifyAfter, At, repoVars
<1>3. PICK passed \in SUBSET Commands :
        /\ regressions' = IF run[r].passed \subseteq passed THEN regressions
                          ELSE regressions \cup {a}
        /\ IF ~Real(run[r].args) THEN Ends(r, "remove", "dry-run")
           ELSE IF Regressed(run[r].passed, passed) THEN Ends(r, "remove", "rolled-back")
           ELSE IF ~CommitGate(autonomy) THEN Ends(r, "record", "applied-uncommitted")
           ELSE Goto(r, "commit")
  BY DEF VerifyAfter
<1>4. ~Regressed(run[r].passed, passed) => regressions' = regressions
  BY <1>3 DEF Regressed
<1>5. /\ Onwards(r)
      /\ \/ \E s \in {"dry-run", "rolled-back"} : Becomes(r, "remove", s, run[r].where)
         \/ Becomes(r, "record", "applied-uncommitted", run[r].where) /\ regressions' = regressions
         \/ /\ Becomes(r, "commit", run[r].status, run[r].where) /\ regressions' = regressions
            /\ Real(run[r].args) /\ CommitGate(autonomy)
  BY <1>1, <1>3, <1>4, FieldUpdates DEF Goto, Ends
<1>6. Stays(r)
  BY <1>1, <1>2, <1>3, <1>5 DEF Stays, Trying, Ending, SafeTypes
<1>7. Stage(r)'
  <2>1. /\ a \in DOMAIN refs /\ a \in worktrees /\ a \notin regressions /\ run[r].where = "try"
        /\ Real(run[r].args) => autonomy.allow_fix
    BY <1>1, <1>2 DEF Stage, Trying
  <2>2. Attempt(r)' = a /\ run'[r].args = run[r].args  BY <1>1, <1>5 DEF Becomes
  <2> HIDE DEF a
  <2> QED  BY <1>2, <1>5, <2>1, <2>2
           DEF Stage, Becomes, Beginning, Trying, Ending, Statuses, Kept, Allowed, CommitGate
<1>8. Holding(r)'
  <2>1. a \in DOMAIN refs /\ a \in worktrees  BY <1>1, <1>2 DEF Stage, Trying
  <2> QED  BY <1>1, <1>2, <1>5, <2>1 DEF Holding, Becomes, Beginning, Kept
<1> QED  BY <1>6, <1>7, <1>8, StaysInv

LEMMA CommitInv ==
  ASSUME SafeInv, NEW r \in Runs, Commit(r)
  PROVE  SafeInv'
<1>0. PICK a \in Attempts : a = Attempt(r)
  BY ActiveIs DEF Commit, At, Trying
<1>1. Active(r) /\ Stage(r) /\ SafeTypes /\ (Onwards(r) => Attempt(r)' = a)
  BY <1>0, ActiveIs DEF Commit, At, Trying
<1>2. /\ run[r].pc = "commit"
      /\ UNCHANGED <<autonomy, head, worktrees, log, outcome, regressions, stranded>>
  BY DEF Commit, At, history
<1>3. /\ a \in DOMAIN refs /\ a \notin regressions /\ run[r].where = "try" /\ Allowed(run[r].args)
      /\ Real(run[r].args) => autonomy.allow_fix
  BY <1>0, <1>1, <1>2 DEF Stage, Trying
<1>4. /\ Onwards(r)
      /\ \/ refs' = [refs EXCEPT ![a] = @ \cup {a}] /\ Becomes(r, "remove", "applied", run[r].where)
         \/ UNCHANGED refs /\ Becomes(r, "remove", "rolled-back", run[r].where)
  BY <1>0, <1>1, FieldUpdates DEF Commit, Ends
<1>5. /\ refs' = [b \in DOMAIN refs' |-> refs'[b]]
      /\ DOMAIN refs' = DOMAIN refs
      /\ \A b \in DOMAIN refs : b # a => refs'[b] = refs[b]
  BY <1>1, <1>3, <1>4 DEF SafeTypes
<1>6. Stays(r)
  BY <1>0, <1>1, <1>2, <1>4, <1>5 DEF Stays, Ending
<1>7. Stage(r)'
  <2>1. Attempt(r)' = a /\ run'[r].args = run[r].args /\ a[1] = r
    BY <1>0, <1>1, <1>4 DEF Becomes, Attempt
  <2>2. run'[r].status = "applied" => a \in DOMAIN refs' /\ a \in refs'[a]
    BY <1>1, <1>3, <1>4 DEF Becomes, SafeTypes
  <2>3. /\ run'[r].pc = "remove" /\ run'[r].status \in {"applied", "rolled-back"}
        /\ run'[r].where = "try"
    BY <1>3, <1>4 DEF Becomes
  <2>4. run'[r].status = "applied" => Committed(a)'
    BY <1>2, <1>3, <2>1, <2>2 DEF Committed, Allowed
  <2> QED  BY <1>2, <1>3, <2>1, <2>3, <2>4
           DEF Stage, Beginning, Trying, Ending, Statuses, Kept
<1>8. Holding(r)'
  BY <1>4 DEF Holding, Becomes, Beginning
<1> QED  BY <1>6, <1>7, <1>8, StaysInv

LEMMA RemoveWorktreeInv ==
  ASSUME SafeInv, NEW r \in Runs, RemoveWorktree(r)
  PROVE  SafeInv'
<1>0. PICK a \in Attempts : a = Attempt(r)
  BY ActiveIs DEF RemoveWorktree, At, Ending
<1>1. /\ Active(r) /\ Stage(r) /\ SafeTypes /\ a[1] = r
      /\ Onwards(r) => Attempt(r)' = a
  BY <1>0, ActiveIs DEF RemoveWorktree, At, Ending, Attempt
<1>2. run[r].pc = "remove" /\ UNCHANGED <<autonomy, head, refs, log, outcome, regressions>>
  BY DEF RemoveWorktree, At
<1>3. /\ run[r].status \in Statuses /\ run[r].status # "applied-uncommitted"
      /\ run[r].status = "applied" => Committed(a)
      /\ run[r].where # "try" => run[r].status \in {"skipped", "failed"}
      /\ Real(run[r].args) => autonomy.allow_fix
  BY <1>0, <1>1, <1>2 DEF Stage, Ending
<1>4. /\ Onwards(r)
      /\ Becomes(r, IF run[r].status # "applied" THEN "delete" ELSE "record", run[r].status, run[r].where)
      /\ \/ worktrees' = worktrees \ {a} /\ UNCHANGED stranded
         \/ stranded' = stranded \cup {a} /\ UNCHANGED worktrees
  BY <1>0, <1>1, FieldUpdates DEF RemoveWorktree, Goto, DeletesBranch
<1>5. Stays(r)
  BY <1>0, <1>1, <1>2, <1>4 DEF Stays, Ending, SafeTypes
<1>6. Stage(r)'
  <2>1. run[r].status = "applied" => Committed(a)'
    BY <1>1, <1>2, <1>3, <1>4 DEF Committed, Allowed, Becomes
  <2> QED  BY <1>1, <1>2, <1>3, <1>4, <2>1 DEF Stage, Becomes, Beginning, Trying, Ending, Kept
<1>7. a \notin stranded' => Holding(r)'
  BY <1>1, <1>2, <1>3, <1>4 DEF Holding, Becomes, Beginning, Kept, Committed
<1> QED  BY <1>0, <1>5, <1>6, <1>7, StaysInv

LEMMA DeleteBranchInv ==
  ASSUME SafeInv, NEW r \in Runs, DeleteBranch(r)
  PROVE  SafeInv'
<1>0. PICK a \in Attempts : a = Attempt(r)
  BY ActiveIs DEF DeleteBranch, At, Ending
<1>1. /\ Active(r) /\ Stage(r) /\ SafeTypes
      /\ Onwards(r) => Attempt(r)' = a
  BY <1>0, ActiveIs DEF DeleteBranch, At, Ending
<1>2. run[r].pc = "delete" /\ UNCHANGED <<autonomy, head, worktrees, log, outcome, regressions>>
  BY DEF DeleteBranch, At
<1>3. /\ run[r].status \in Statuses /\ run[r].status \notin Kept
      /\ run[r].where # "try" => run[r].status \in {"skipped", "failed"}
      /\ Real(run[r].args) => autonomy.allow_fix
  BY <1>0, <1>1, <1>2 DEF Stage, Ending
<1>4. /\ Onwards(r) /\ Becomes(r, "record", run[r].status, run[r].where)
      /\ IF CheckedOut(a) THEN refs' = refs /\ stranded' = stranded \cup {a}
         ELSE refs' = [b \in DOMAIN refs \ {a} |-> refs[b]] /\ stranded' = stranded
  BY <1>0, <1>1, FieldUpdates DEF DeleteBranch, Goto, Without
<1>5. Stays(r)
  <2>1. /\ refs' = [b \in DOMAIN refs' |-> refs'[b]]
        /\ \A b \in Attempts : b # a =>
             /\ b \in DOMAIN refs' <=> b \in DOMAIN refs
             /\ b \in DOMAIN refs => refs'[b] = refs[b]
        /\ stranded \subseteq stranded'
    BY <1>1, <1>4 DEF SafeTypes
  <2> QED  BY <1>0, <1>1, <1>2, <1>4, <2>1 DEF Stays, Ending
<1>6. Stage(r)'
  BY <1>1, <1>2, <1>3, <1>4 DEF Stage, Becomes, Beginning, Trying, Ending, Kept
<1>7. a \notin stranded' => Holding(r)'
  <2>1. a \notin stranded' => a \notin DOMAIN refs' /\ a \notin worktrees'
    BY <1>2, <1>4 DEF CheckedOut
  <2> QED  BY <1>1, <1>3, <1>4, <2>1 DEF Holding, Becomes, Beginning, Kept
<1> QED  BY <1>0, <1>5, <1>6, <1>7, StaysInv

LEMMA RaiseInv ==
  ASSUME SafeInv, NEW r \in Runs, Raise(r)
  PROVE  SafeInv'
<1>1. /\ Active(r) /\ Stage(r) /\ SafeTypes
      /\ Onwards(r) => Attempt(r)' = Attempt(r)
  BY ActiveIs DEF Raise, Trying, Ending
<1>2. UNCHANGED <<autonomy, head, refs, worktrees, log, outcome, regressions, stranded>>
  BY DEF Raise, repoVars, history
<1>3. Onwards(r) /\ Becomes(r, "remove", "failed", "except")
  BY <1>1, FieldUpdates DEF Raise
<1>4. Stays(r)
  BY <1>1, <1>2, <1>3 DEF Stays, Ending, SafeTypes
<1>5. Stage(r)'
  BY <1>1, <1>2, <1>3 DEF Stage, Becomes, Beginning, Trying, Ending, Statuses
<1>6. Holding(r)'
  BY <1>3 DEF Holding, Becomes, Beginning
<1> QED  BY <1>4, <1>5, <1>6, StaysInv

(* A step that ends the attempt under way with the outcome s, or without one. *)
LEMMA LeavesInv ==
  ASSUME SafeInv, NEW r \in Runs, NEW a \in Attempts, NEW s \in Statuses \cup {None},
         Active(r), a = Attempt(r),
         UNCHANGED <<autonomy, refs, worktrees, regressions>>, stranded \subseteq stranded',
         run' = [q \in Runs |-> run'[q]], \A q \in Runs : q # r => run'[q] = run[q],
         IsRun(run'[r]), run'[r].args = run[r].args, run'[r].pc \in {"done", "dead", "resolve"},
         s = None => run'[r].pc # "resolve",
         outcome' = [outcome EXCEPT ![a] = s], log' = log \/ (s # None /\ log' = log \cup {<<a, s>>}),
         InTurn(r)', Active(r)' => Stage(r)' /\ (Attempt(r)' \notin stranded' => Holding(r)'),
         s = "applied" => Committed(a),
         a \notin stranded' => /\ a \in DOMAIN refs <=> s \in Kept
                               /\ a \in worktrees <=> s = "applied-uncommitted"
  PROVE  SafeInv'
<1>0. \A q \in Runs : Active(q) => Attempt(q) \in Attempts /\ Attempt(q)[1] = q /\ outcome[Attempt(q)] = None
  BY Turn DEF SafeInv
<1>1. a[1] = r /\ outcome[a] = None  BY <1>0
<1>2. \A b \in Attempts : outcome'[b] = IF b = a THEN s ELSE outcome[b]
  BY DEF SafeInv, SafeTypes
<1>3. SafeTypes'
  <2>1. outcome' = [b \in Attempts |-> outcome'[b]]  BY DEF SafeInv, SafeTypes
  <2> QED  BY <1>2, <2>1 DEF SafeInv, SafeTypes, Beginning
<1>4. \A q \in Runs : q # r =>
        /\ Attempt(q)' = Attempt(q) /\ (Active(q)' <=> Active(q))
        /\ \A i \in Findings : <<q, i>> # a
  BY <1>1 DEF Attempt, Active
<1>5. \A q \in Runs : InTurn(q)'
  <2>1. \A q \in Runs : q # r => Attempted(q)' = Attempted(q)
    BY <1>2, <1>4 DEF Attempted, Attempts
  <2>2. ASSUME NEW q \in Runs, q # r
        PROVE  InTurn(q)'
    <3>1. /\ run'[q] = run[q] /\ (Active(q)' <=> Active(q)) /\ Batch(q)' = Batch(q)
          /\ Attempted(q)' = Attempted(q)
      BY <1>4, <2>1, <2>2 DEF Batch
    <3>2. InTurn(q)  BY DEF SafeInv
    <3> QED  BY <3>1, <3>2 DEF InTurn
  <2> QED  BY <2>2
<1>6. ASSUME NEW b \in Attempts, Committed(b)
      PROVE  Committed(b)'
  <2>1. b[1] \in Runs  BY DEF Attempts
  <2> QED  BY <1>6, <2>1 DEF Committed, Allowed
<1>7. ASSUME NEW q \in Runs, Active(q)'
      PROVE  Stage(q)' /\ (Attempt(q)' \notin stranded' => Holding(q)')
  <2>1. CASE q = r  BY <1>7, <2>1
  <2>2. CASE q # r
    <3>1. Attempt(q) \in Attempts /\ run'[q] = run[q] /\ Active(q) /\ Attempt(q)' = Attempt(q)
      BY <1>0, <1>4, <1>7, <2>2
    <3>2. Stage(q) /\ (Attempt(q) \notin stranded => Holding(q))
      BY <3>1 DEF SafeInv
    <3>3. Stage(q)'  BY <1>6, <3>1, <3>2 DEF Stage, Allowed
    <3>4. Attempt(q)' \notin stranded' => Holding(q)'  BY <3>1, <3>2 DEF Holding
    <3> QED  BY <3>3, <3>4
  <2> QED  BY <2>1, <2>2
<1>8. \A b \in Attempts : outcome'[b] = "applied" => Committed(b)'
  BY <1>2, <1>6 DEF SafeInv
<1>9. \A b \in Attempts : b # a /\ b \in UnderWay => b \in UnderWay'
  BY <1>4 DEF UnderWay
<1>10. Unbegun'
  <2> SUFFICES ASSUME NEW q \in Runs, NEW i \in Findings, outcome'[<<q, i>>] = None,
                      run'[q].pc \notin {"done", "dead"}, <<q, i>> \notin UnderWay'
               PROVE  <<q, i>> \notin regressions'
    BY DEF Unbegun
  <2>1. <<q, i>> \in Attempts  BY DEF Attempts
  <2>2. <<q, i>> # a  BY <1>2, <1>4, <2>1
  <2>3. run[q].pc \notin {"done", "dead"}  BY DEF Active
  <2> QED  BY <1>2, <1>9, <2>1, <2>2, <2>3 DEF SafeInv, Unbegun
<1>11. Logged'  BY <1>1, <1>2 DEF SafeInv, Logged
<1>12. NothingLeftBehind'
  BY <1>2, <1>9 DEF SafeInv, NothingLeftBehind
<1> QED  BY <1>3, <1>5, <1>7, <1>8, <1>10, <1>11, <1>12 DEF SafeInv

LEMMA RecordInv ==
  ASSUME SafeInv, NEW r \in Runs, Record(r)
  PROVE  SafeInv'
<1> DEFINE b == Batch(r)
<1>0. PICK a \in Attempts : a = Attempt(r)
  BY ActiveIs DEF Record, At, Ending
<1>1. Active(r) /\ Stage(r) /\ SafeTypes /\ InTurn(r) /\ (a \notin stranded => Holding(r))
  BY <1>0, ActiveIs DEF Record, At, Ending, SafeInv
<1>2. /\ run[r].pc = "record"
      /\ UNCHANGED <<autonomy, head, refs, worktrees, regressions, stranded>>
      /\ log' = log \/ log' = log \cup {<<a, run[r].status>>}
  BY <1>0 DEF Record, At, repoVars
<1> DEFINE s == run[r].status
           rest == Tail(run[r].todo)
<1>3. /\ s \in Statuses
      /\ s = "applied" => Committed(a)
      /\ Real(run[r].args) => autonomy.allow_fix
  BY <1>0, <1>1, <1>2 DEF Stage, Ending
<1>4. s # None  BY <1>3, NamesAssumption DEF Statuses
<1>5. a \notin stranded => /\ a \in DOMAIN refs <=> s \in Kept
                           /\ a \in worktrees <=> s = "applied-uncommitted"
  BY <1>0, <1>1, <1>2 DEF Holding
<1>6. outcome' = [outcome EXCEPT ![a] = s]  BY <1>0 DEF Record, NextFinding
<1>7. /\ run' = [q \in Runs |-> run'[q]] /\ IsRun(run'[r])
      /\ \A q \in Runs : q # r => run'[q] = run[q]
      /\ run'[r].args = run[r].args /\ run'[r].todo = rest
      /\ run'[r].where = "outside"
      /\ run'[r].pc = IF rest = <<>> THEN "done" ELSE "resolve"
  <2>1. run' = [run EXCEPT ![r].todo = rest, ![r].status = None, ![r].passed = {},
                           ![r].where = "outside", ![r].base = Trunk,
                           ![r].pc = IF rest = <<>> THEN "done" ELSE "resolve"]
    BY DEF Record, NextFinding
  <2>2. IsRun(run[r]) /\ run = [q \in Runs |-> run[q]]  BY <1>1 DEF SafeTypes
  <2> HIDE DEF rest
  <2> QED  BY <2>1, <2>2 DEF IsRun
<1>8. /\ b \in Seq(Findings) /\ Len(b) \in Nat /\ b \in [1 .. Len(b) -> Findings]
      /\ \A k, l \in 1 .. Len(b) : b[k] = b[l] => k = l
  <2>1. run[r].pc # "new"  BY <1>2
  <2> QED  BY <1>1, <2>1, BatchIs
<1>9. PICK n \in 0 .. Len(b) - 1 :
        /\ a = <<r, b[n + 1]>> /\ b[n + 1] \in Findings
        /\ Attempted(r) = {b[k] : k \in 1 .. n}
        /\ rest = SubSeq(b, n + 2, Len(b))
  BY <1>0, <1>1, Turn
<1>10. Batch(r)' = b  BY <1>2, <1>7 DEF Batch
<1> HIDE DEF b, s, rest
<1>11. n \in Nat /\ n + 1 \in 0 .. Len(b) /\ n + 1 \in 1 .. Len(b) /\ (n + 1) + 1 = n + 2
  BY <1>8, <1>9
<1>12. rest # <<>> => n + 1 < Len(b)
  <2>1. Len(b) < n + 2 => rest = <<>>  BY <1>8, <1>9, <1>11, SubSeqEmpty
  <2> QED  BY <1>8, <1>11, <2>1
<1>13. Attempted(r)' = {b[k] : k \in 1 .. n + 1}
  <2>1. \A i \in Findings : outcome'[<<r, i>>] = IF i = b[n + 1] THEN s ELSE outcome[<<r, i>>]
    BY <1>1, <1>6, <1>9 DEF SafeTypes, Attempts
  <2>2. Attempted(r)' = Attempted(r) \cup {b[n + 1]}
    BY <1>4, <1>9, <2>1 DEF Attempted
  <2>3. {b[k] : k \in 1 .. n} \cup {b[n + 1]} = {b[k] : k \in 1 .. n + 1}
    BY <1>11
  <2> QED  BY <1>9, <2>2, <2>3
<1>14. InTurn(r)'
  <2>1. run'[r].pc # "new" /\ run'[r].args \in Args[r]
    BY <1>1, <1>2, <1>7 DEF InTurn
  <2>2. Active(r)' => n + 1 < Len(b) /\ run'[r].todo = SubSeq(b, (n + 1) + 1, Len(b))
    BY <1>7, <1>9, <1>11, <1>12 DEF Active
  <2> QED  BY <1>10, <1>11, <1>13, <2>1, <2>2 DEF InTurn
<1>15. ASSUME Active(r)'
       PROVE  Stage(r)' /\ (Attempt(r)' \notin stranded' => Holding(r)')
  <2>1. rest # <<>> /\ run'[r].pc = "resolve"  BY <1>7, <1>15 DEF Active
  <2>2. n + 2 \in 1 .. Len(b) /\ Len(b) \in n + 2 .. Len(b)  BY <1>8, <1>11, <1>12, <2>1
  <2>3. Head(rest) = b[n + 2]  BY <1>8, <1>9, <2>2, HeadTailOfSubSeq
  <2>4. Attempt(r)' = <<r, b[n + 2]>>  BY <1>7, <2>3 DEF Attempt
  <2>5. b[n + 2] \in Findings /\ b[n + 2] # b[n + 1] /\ b[n + 2] \notin Attempted(r)
    <3>1. \A k \in 1 .. n : k \in 1 .. Len(b) /\ k # n + 2  BY <1>8, <1>11
    <3>2. n + 2 # n + 1  BY <1>11
    <3> QED  BY <1>8, <1>9, <1>11, <2>2, <3>1, <3>2
  <2> DEFINE c == <<r, b[n + 2]>>
  <2>6. outcome[c] = None /\ c \in Attempts  BY <2>5 DEF Attempted, Attempts
  <2>7. c \notin UnderWay
    <3>1. \A q \in Runs : Active(q) /\ Attempt(q) = c => q = r
      BY Turn DEF SafeInv
    <3>2. c # a  BY <1>9, <2>5
    <3>3. Attempt(r) # c  BY <1>0, <3>2
    <3> HIDE DEF c
    <3> QED  BY <3>1, <3>3 DEF UnderWay
  <2>8. c \notin regressions
    <3>1. run[r].pc \notin {"done", "dead"}  BY <1>2
    <3> QED  BY <2>5, <2>6, <2>7, <3>1 DEF SafeInv, Unbegun
  <2>9. None \notin Kept /\ None # "applied-uncommitted"  BY NamesAssumption DEF Kept
  <2>10. c \notin stranded => c \notin DOMAIN refs /\ c \notin worktrees
    BY <2>6, <2>7, <2>9 DEF SafeInv, NothingLeftBehind
  <2>11. Stage(r)'
    BY <1>2, <1>3, <1>7, <2>1, <2>4, <2>8 DEF Stage, Beginning, Trying, Ending
  <2>12. Attempt(r)' \notin stranded' => Holding(r)'
    BY <1>2, <2>1, <2>4, <2>10 DEF Holding
  <2> QED  BY <2>11, <2>12
<1>16. run'[r].pc \in {"done", "dead", "resolve"}  BY <1>7
<1>17. log' = log \/ (s # None /\ log' = log \cup {<<a, s>>})  BY <1>2, <1>4 DEF s
<1> QED  BY <1>0, <1>1, <1>2, <1>3, <1>4, <1>5, <1>6, <1>7, <1>14, <1>15, <1>16, <1>17, LeavesInv

(* The invocation ends without an outcome for the attempt under way.            *)
LEMMA StopsInv ==
  ASSUME SafeInv, NEW r \in Runs, NEW p \in {"done", "dead"}, Active(r),
         run' = [run EXCEPT ![r] = [NotStarted EXCEPT !.pc = p, !.args = run[r].args]],
         UNCHANGED <<autonomy, head, refs, worktrees, log, outcome, regressions>>,
         stranded \subseteq stranded',
         Attempt(r) \notin stranded' => Attempt(r) \notin DOMAIN refs /\ Attempt(r) \notin worktrees
  PROVE  SafeInv'
<1>0. PICK a \in Attempts : a = Attempt(r) /\ outcome[a] = None
  BY Turn DEF SafeInv
<1>1. SafeTypes /\ InTurn(r) /\ run[r].pc # "new"  BY DEF SafeInv, Active
<1>2. outcome' = [outcome EXCEPT ![a] = None]  BY <1>0, <1>1 DEF SafeTypes
<1>3. /\ run' = [q \in Runs |-> run'[q]] /\ IsRun(run'[r])
      /\ \A q \in Runs : q # r => run'[q] = run[q]
      /\ run'[r].args = run[r].args /\ run'[r].pc = p
  BY <1>1 DEF SafeTypes, IsRun, NotStarted
<1>4. ~Active(r)'  BY <1>3 DEF Active
<1>5. InTurn(r)'
  <2>1. Attempted(r)' = Attempted(r) /\ Batch(r)' = Batch(r)  BY <1>3 DEF Attempted, Batch
  <2>2. /\ run[r].args \in Args[r]
        /\ \E n \in 0 .. Len(Batch(r)) : Attempted(r) = {Batch(r)[k] : k \in 1 .. n}
    BY <1>1 DEF InTurn
  <2>3. run'[r].pc # "new" /\ run'[r].args \in Args[r]  BY <1>3, <2>2
  <2>4. \E n \in 0 .. Len(Batch(r)') :
          /\ Attempted(r)' = {Batch(r)'[k] : k \in 1 .. n}
          /\ Active(r)' => /\ n < Len(Batch(r)')
                           /\ run'[r].todo = SubSeq(Batch(r)', n + 1, Len(Batch(r)'))
    BY <1>4, <2>1, <2>2
  <2> QED  BY <2>3, <2>4 DEF InTurn
<1>6. None # "applied" /\ None \notin Kept /\ None # "applied-uncommitted"
  BY NamesAssumption DEF Kept
<1>7. a \notin stranded' => /\ a \in DOMAIN refs <=> None \in Kept
                            /\ a \in worktrees <=> None = "applied-uncommitted"
  BY <1>0, <1>6
<1>8. log' = log \/ (None # None /\ log' = log \cup {<<a, None>>})  OBVIOUS
<1>9. run'[r].pc \in {"done", "dead", "resolve"} /\ (None = None => run'[r].pc # "resolve")
  BY <1>3
<1>10. Active(r)' => Stage(r)' /\ (Attempt(r)' \notin stranded' => Holding(r)')  BY <1>4
<1>11. None \in Statuses \cup {None} /\ (None = "applied" => Committed(a))  BY <1>6
<1> QED  BY <1>0, <1>2, <1>3, <1>5, <1>7, <1>8, <1>9, <1>10, <1>11, LeavesInv

LEMMA RecordRaisesInv ==
  ASSUME SafeInv, NEW r \in Runs, RecordRaises(r)
  PROVE  SafeInv'
<1>1. /\ Active(r) /\ Stage(r) /\ (Attempt(r) \notin stranded => Holding(r))
      /\ run[r].pc = "record" /\ run[r].where # "try"
  BY ActiveIs DEF RecordRaises, At, Ending
<1>2. run[r].status \in {"skipped", "failed"}  BY <1>1 DEF Stage, Ending
<1>3. Attempt(r) \notin stranded => Attempt(r) \notin DOMAIN refs /\ Attempt(r) \notin worktrees
  BY <1>1, <1>2 DEF Holding, Kept
<1>4. /\ UNCHANGED <<autonomy, head, refs, worktrees, log, outcome, regressions, stranded>>
      /\ run' = [run EXCEPT ![r] = [NotStarted EXCEPT !.pc = "done", !.args = run[r].args]]
  BY DEF RecordRaises, repoVars, history
<1> QED  BY <1>1, <1>3, <1>4, StopsInv

LEMMA DiesInv ==
  ASSUME SafeInv, NEW r \in Runs, Dies(r)
  PROVE  SafeInv'
<1>1. /\ Active(r) /\ stranded' = stranded \cup {Attempt(r)}
      /\ UNCHANGED <<autonomy, head, refs, worktrees, log, outcome, regressions>>
      /\ run' = [run EXCEPT ![r] = [NotStarted EXCEPT !.pc = "dead", !.args = run[r].args]]
  BY DEF Dies, repoVars
<1> QED  BY <1>1, StopsInv

(* An invocation that begins holds nothing yet, for any finding.                *)
LEMMA StartInv ==
  ASSUME SafeInv, NEW r \in Runs, NEW args \in Args[r], NEW clean, Start(r, args, clean)
  PROVE  SafeInv'
<1> DEFINE b == Select(args, autonomy)
           p == IF (Real(args) /\ ~FixGate(autonomy, clean)) \/ b = <<>> THEN "done" ELSE "resolve"
<1>1. SafeTypes /\ InTurn(r) /\ run[r].pc = "new" /\ ~Active(r)
  BY DEF SafeInv, Start, At, Active
<1>2. /\ UNCHANGED <<autonomy, head, refs, worktrees, log, outcome, regressions, stranded>>
      /\ run' = [run EXCEPT ![r] = [NotStarted EXCEPT !.args = args, !.todo = b, !.pc = p]]
  BY DEF Start, repoVars, history
<1>3. /\ b \in Seq(Findings) /\ Len(b) \in Nat /\ b \in [1 .. Len(b) -> Findings]
  <2>1. args.max \in Nat /\ autonomy.max_changes_per_cycle \in Nat
    BY <1>1, RequestsAssumption DEF SafeTypes
  <2> QED  BY <2>1, SelectIs
<1>4. Attempted(r) = {}  BY <1>1 DEF InTurn
<1>5. \A i \in Findings : outcome[<<r, i>>] = None  BY <1>4 DEF Attempted
<1> HIDE DEF b
<1>6. /\ run' = [q \in Runs |-> run'[q]] /\ IsRun(run'[r])
      /\ \A q \in Runs : q # r => run'[q] = run[q]
      /\ run'[r].args = args /\ run'[r].pc = p /\ run'[r].todo = b /\ run'[r].where = "outside"
  <2> HIDE DEF p
  <2> QED  BY <1>1, <1>2 DEF SafeTypes, IsRun, NotStarted
<1>7. /\ p \in {"done", "resolve"}
      /\ p = "resolve" => b # <<>> /\ (Real(args) => FixGate(autonomy, clean))
  OBVIOUS
<1> HIDE DEF p
<1>8. Batch(r)' = b  BY <1>2, <1>6 DEF Batch, b
<1>9. SafeTypes'  BY <1>1, <1>2, <1>6, <1>7 DEF SafeTypes, Beginning
<1>10. \A q \in Runs : q # r => Attempt(q)' = Attempt(q) /\ (Active(q)' <=> Active(q))
  BY <1>6 DEF Attempt, Active
<1>11. p = "resolve" => Len(b) > 0 /\ Attempt(r)' = <<r, b[1]>> /\ b[1] \in Findings
  BY <1>3, <1>6, <1>7, EmptySeq DEF Attempt
<1>12. \A q \in Runs : InTurn(q)'
  <2>1. Attempted(r)' = {} /\ run'[r].pc # "new"  BY <1>2, <1>4, <1>6, <1>7 DEF Attempted
  <2>2. {b[k] : k \in 1 .. 0} = {}  OBVIOUS
  <2>3. Active(r)' => 0 < Len(b) /\ run'[r].todo = SubSeq(b, 0 + 1, Len(b))
    <3>1. SubSeq(b, 1, Len(b)) = b  BY <1>3, SubSeqFull
    <3> QED  BY <1>3, <1>6, <1>7, <1>11, <3>1 DEF Active
  <2>4. 0 \in 0 .. Len(b)  BY <1>3
  <2>5. InTurn(r)'  BY <1>6, <1>8, <2>1, <2>2, <2>3, <2>4 DEF InTurn
  <2>6. ASSUME NEW q \in Runs, q # r
        PROVE  InTurn(q)'
    <3>1. /\ run'[q] = run[q] /\ (Active(q)' <=> Active(q)) /\ Batch(q)' = Batch(q)
          /\ Attempted(q)' = Attempted(q)
      BY <1>2, <1>6, <1>10, <2>6 DEF Batch, Attempted
    <3>2. InTurn(q)  BY DEF SafeInv
    <3> QED  BY <3>1, <3>2 DEF InTurn
  <2> QED  BY <2>5, <2>6
<1>13. ASSUME NEW a \in Attempts, a[1] # r, Committed(a)
       PROVE  Committed(a)'
  <2>1. a[1] \in Runs  BY DEF Attempts
  <2> QED  BY <1>2, <1>6, <1>13, <2>1 DEF Committed, Allowed
<1>14. \A q \in Runs : Active(q) => Attempt(q) \in Attempts /\ Attempt(q)[1] = q
  BY Turn DEF SafeInv
<1>15. \A i \in Findings : <<r, i>> \notin UnderWay /\ <<r, i>> \in Attempts
  BY <1>1, <1>14 DEF UnderWay, Attempts
<1>16. UnderWay \subseteq UnderWay'
  BY <1>1, <1>10 DEF UnderWay
<1>17. ASSUME NEW q \in Runs, Active(q)'
       PROVE  Stage(q)' /\ (Attempt(q)' \notin stranded' => Holding(q)')
  <2>1. CASE q = r
    <3>1. p = "resolve"  BY <1>6, <1>7, <1>17, <2>1 DEF Active
    <3> DEFINE c == <<r, b[1]>>
    <3>2. Attempt(r)' = c /\ c \in Attempts /\ c \notin UnderWay /\ outcome[c] = None
      BY <1>5, <1>11, <1>15, <3>1
    <3>3. c \notin regressions
      BY <1>1, <1>5, <1>11, <1>15, <3>1 DEF SafeInv, Unbegun
    <3>4. c \notin stranded => c \notin DOMAIN refs /\ c \notin worktrees
      <4>1. None \notin Kept /\ None # "applied-uncommitted"  BY NamesAssumption DEF Kept
      <4> QED  BY <3>2, <4>1 DEF SafeInv, NothingLeftBehind
    <3>5. Real(args) => autonomy.allow_fix  BY <1>7, <3>1 DEF FixGate
    <3> HIDE DEF c
    <3>6. Stage(r)'
      BY <1>2, <1>6, <3>1, <3>2, <3>3, <3>5 DEF Stage, Beginning, Trying, Ending
    <3>7. Attempt(r)' \notin stranded' => Holding(r)'
      BY <1>2, <1>6, <3>1, <3>2, <3>4 DEF Holding
    <3> QED  BY <2>1, <3>6, <3>7
  <2>2. CASE q # r
    <3>1. /\ Attempt(q) \in Attempts /\ Attempt(q)[1] # r /\ run'[q] = run[q]
          /\ Active(q) /\ Attempt(q)' = Attempt(q)
      BY <1>6, <1>10, <1>14, <1>17, <2>2
    <3>2. Stage(q) /\ (Attempt(q) \notin stranded => Holding(q))
      BY <3>1 DEF SafeInv
    <3>3. Stage(q)'  BY <1>2, <1>13, <3>1, <3>2 DEF Stage, Allowed
    <3>4. Attempt(q)' \notin stranded' => Holding(q)'  BY <1>2, <3>1, <3>2 DEF Holding
    <3> QED  BY <3>3, <3>4
  <2> QED  BY <2>1, <2>2
<1>18. \A a \in Attempts : outcome'[a] = "applied" => Committed(a)'
  <2>1. \A a \in Attempts : a[1] = r => outcome[a] = None  BY <1>5 DEF Attempts
  <2>2. None # "applied"  BY NamesAssumption DEF Kept
  <2> QED  BY <1>2, <1>13, <2>1, <2>2 DEF SafeInv
<1>19. Unbegun'
  <2> SUFFICES ASSUME NEW q \in Runs, NEW i \in Findings, outcome'[<<q, i>>] = None,
                      run'[q].pc \notin {"done", "dead"}, <<q, i>> \notin UnderWay'
               PROVE  <<q, i>> \notin regressions'
    BY DEF Unbegun
  <2>1. run[q].pc \notin {"done", "dead"}  BY <1>1, <1>6
  <2> QED  BY <1>2, <1>16, <2>1 DEF SafeInv, Unbegun
<1>20. Logged'  BY <1>2 DEF SafeInv, Logged
<1>21. NothingLeftBehind'  BY <1>2, <1>16 DEF SafeInv, NothingLeftBehind
<1> QED  BY <1>9, <1>12, <1>17, <1>18, <1>19, <1>20, <1>21 DEF SafeInv

LEMMA OperatorInv ==
  ASSUME SafeInv,
         UNCHANGED <<autonomy, refs, worktrees, run, log, outcome, regressions, stranded>>
  PROVE  SafeInv'
<1>1. \A r \in Runs : Attempt(r)' = Attempt(r) /\ (Active(r)' <=> Active(r))
                      /\ Attempted(r)' = Attempted(r) /\ Batch(r)' = Batch(r)
  BY DEF Attempt, Active, Attempted, Batch
<1>2. UnderWay' = UnderWay  BY <1>1 DEF UnderWay
<1>3. \A a : Committed(a)' <=> Committed(a)  BY DEF Committed, Allowed
<1>4. SafeTypes'  BY DEF SafeInv, SafeTypes
<1>5. \A r \in Runs : InTurn(r)'
  <2> SUFFICES ASSUME NEW r \in Runs  PROVE InTurn(r)'  OBVIOUS
  <2>1. InTurn(r)  BY DEF SafeInv
  <2> QED  BY <1>1, <2>1 DEF InTurn
<1>6. \A r \in Runs : Active(r)' => Stage(r)' /\ (Attempt(r)' \notin stranded' => Holding(r)')
  <2> SUFFICES ASSUME NEW r \in Runs, Active(r)'
               PROVE  Stage(r)' /\ (Attempt(r)' \notin stranded' => Holding(r)')
    OBVIOUS
  <2>1. Stage(r) /\ (Attempt(r) \notin stranded => Holding(r))  BY <1>1 DEF SafeInv
  <2>2. Stage(r)'  BY <1>1, <1>3, <2>1 DEF Stage, Allowed
  <2>3. Attempt(r)' \notin stranded' => Holding(r)'  BY <1>1, <2>1 DEF Holding
  <2> QED  BY <2>2, <2>3
<1>7. \A a \in Attempts : outcome'[a] = "applied" => Committed(a)'  BY <1>3 DEF SafeInv
<1>8. Unbegun' /\ Logged' /\ NothingLeftBehind'
  BY <1>2 DEF SafeInv, Unbegun, Logged, NothingLeftBehind
<1> QED  BY <1>4, <1>5, <1>6, <1>7, <1>8 DEF SafeInv

LEMMA SafeInvInit ==
  ASSUME Init
  PROVE  SafeInv
<1>1. \A r \in Runs : run[r] = NotStarted /\ ~Active(r)  BY DEF Init, Active, NotStarted
<1>2. \A a \in Attempts : outcome[a] = None /\ a \notin DOMAIN refs /\ a \notin worktrees
                          /\ a \notin regressions
  BY NamesAssumption DEF Init
<1>3. SafeTypes
  BY <1>1 DEF Init, SafeTypes, IsRun, NotStarted
<1>4. \A r \in Runs : InTurn(r)
  BY <1>1, <1>2 DEF InTurn, Attempted, Attempts, NotStarted
<1>5. None \notin Kept /\ None # "applied" /\ None # "applied-uncommitted"
  BY NamesAssumption DEF Kept
<1>6. Unbegun /\ NothingLeftBehind
  BY <1>2, <1>5 DEF Unbegun, NothingLeftBehind, Attempts
<1>7. Logged  BY DEF Init, Logged
<1> QED  BY <1>1, <1>2, <1>3, <1>4, <1>5, <1>6, <1>7 DEF SafeInv

LEMMA SafeInvStep ==
  ASSUME SafeInv, [Next]_vars
  PROVE  SafeInv'
<1>1. CASE UNCHANGED vars  BY <1>1, OperatorInv DEF vars
<1>2. ASSUME NEW r \in Runs, Step(r) \/ Dies(r)
      PROVE  SafeInv'
  BY <1>2, ResolveInv, MakeWorktreeInv, VerifyBeforeInv, VerifyAfterInv, CommitInv,
     RemoveWorktreeInv, DeleteBranchInv, RecordInv, RaiseInv, RecordRaisesInv, DiesInv DEF Step
<1>3. ASSUME NEW r \in Runs, NEW args \in Args[r], NEW clean, Start(r, args, clean)
      PROVE  SafeInv'
  BY <1>3, StartInv
<1>4. ASSUME NEW b, OperatorChecksOut(b)
      PROVE  SafeInv'
  BY <1>4, OperatorInv DEF OperatorChecksOut, history
<1> QED  BY <1>1, <1>2, <1>3, <1>4 DEF Next

-----------------------------------------------------------------------------
(* The theorems. *)

(* In every state that invocations of apply, interleaved with each other and   *)
(* the operator, can reach: each has attempted the head of its batch, and      *)
(* where an attempt has come says what it has in the repository.               *)
THEOREM SafeInvariant == Spec => []SafeInv
<1>1. Init => SafeInv  BY SafeInvInit
<1>2. SafeInv /\ [Next]_vars => SafeInv'  BY SafeInvStep
<1> QED  BY <1>1, <1>2, PTL DEF Spec

(* Whatever apply_finding ran into, once it is over the target holds the       *)
(* branch of the attempt only if it returned applied or applied-uncommitted,   *)
(* and its worktree only in the second case.                                   *)
THEOREM NothingLeft == Spec => []NothingLeftBehind
<1>1. SafeInv => NothingLeftBehind  BY DEF SafeInv
<1> QED  BY <1>1, SafeInvariant, PTL

(* A fix returned or logged as applied is committed on a branch that exists,   *)
(* worsened no check, and was allowed by the policy and asked for.             *)
THEOREM AppliedCommitted == Spec => []AppliedIsCommitted
<1>1. SafeInv => AppliedIsCommitted
  <2> SUFFICES ASSUME SafeInv, NEW a \in Attempts,
                      outcome[a] = "applied" \/ <<a, "applied">> \in log
               PROVE  Committed(a)
    BY DEF AppliedIsCommitted, Committed, Allowed
  <2>1. outcome[a] = "applied"  BY DEF SafeInv, Logged
  <2> QED  BY <2>1 DEF SafeInv
<1> QED  BY <1>1, SafeInvariant, PTL

(* A batch attempts at most as many findings as the command line or the policy *)
(* allows, all asked for, and none while a more severe one is passed over.     *)
THEOREM BatchInBounds == Spec => []BatchKeepsToRequest
<1>1. SafeInv => BatchKeepsToRequest
  <2> DEFINE Any(args) == args.only = ""
  <2> SUFFICES ASSUME SafeInv, NEW r \in Runs, Attempted(r) # {}, Any(run[r].args)
               PROVE  LET asked == {i \in Findings : Matches(i, run[r].args)}
                      IN  /\ Attempted(r) \subseteq asked
                          /\ Cardinality(Attempted(r)) <= Cap(run[r].args, autonomy)
                          /\ \A i \in Attempted(r), j \in asked \ Attempted(r) :
                               Loaded[i].rank <= Loaded[j].rank
    BY DEF BatchKeepsToRequest
  <2> DEFINE b == Batch(r)
             cap == Cap(run[r].args, autonomy)
  <2>1. SafeTypes /\ InTurn(r) /\ run[r].pc # "new"  BY DEF SafeInv, InTurn
  <2>2. run[r].args.max \in Nat /\ autonomy.max_changes_per_cycle \in Nat
    BY <2>1, RequestsAssumption DEF SafeTypes, InTurn
  <2>3. /\ Len(b) \in Nat /\ b \in [1 .. Len(b) -> Findings]
        /\ cap \in Nat /\ Len(b) <= cap
        /\ \A k \in 1 .. Len(b) : Matches(b[k], run[r].args)
        /\ \A n \in 0 .. Len(b) : \A k \in 1 .. n, j \in Findings :
             Matches(j, run[r].args) /\ (\A l \in 1 .. n : b[l] # j)
             => Loaded[b[k]].rank <= Loaded[j].rank
    BY <2>2, SelectIs DEF Batch
  <2>4. PICK n \in 0 .. Len(b) : Attempted(r) = {b[k] : k \in 1 .. n}
    BY <2>1 DEF InTurn
  <2> HIDE DEF b, cap, Any
  <2>5. n \in Nat /\ n <= cap /\ cap \in Nat /\ \A k \in 1 .. n : k \in 1 .. Len(b)
    <3>1. Len(b) \in Nat /\ cap \in Nat /\ Len(b) <= cap  BY <2>3
    <3> QED  BY <3>1
  <2>6. Cardinality(Attempted(r)) <= cap
    <3> DEFINE f == [k \in 1 .. n |-> b[k]]
    <3>1. f \in Surjection(1 .. n, Attempted(r))  BY <2>4 DEF Surjection
    <3>2. IsFiniteSet(1 .. n) /\ Cardinality(1 .. n) = n
      <4> HIDE DEF f
      <4> QED  BY <2>5, FS_Interval
    <3> HIDE DEF f
    <3>3. IsFiniteSet(Attempted(r)) /\ Cardinality(Attempted(r)) <= Cardinality(1 .. n)
      BY <3>1, <3>2, FS_Surjection
    <3>4. Cardinality(Attempted(r)) \in Nat  BY <3>3, FS_CardinalityType
    <3> QED  BY <2>5, <3>2, <3>3, <3>4
  <2>7. \A i \in Attempted(r) : i \in Findings /\ Matches(i, run[r].args)
    BY <2>3, <2>4, <2>5
  <2>8. ASSUME NEW i \in Attempted(r), NEW j \in Findings \ Attempted(r), Matches(j, run[r].args)
        PROVE  Loaded[i].rank <= Loaded[j].rank
    BY <2>3, <2>4, <2>8
  <2> QED  BY <2>6, <2>7, <2>8 DEF cap
<1> QED  BY <1>1, SafeInvariant, PTL

-----------------------------------------------------------------------------
(* The refinement of ApplyPromise. *)

(* The fix of an attempt exists: it is over and did not leave it uncommitted, it was
   cut off, or it is at its end. *)
Made(a) ==
  LET r == a[1]
  IN  \/ outcome[a] \notin {None, "applied-uncommitted"}
      \/ outcome[a] = None /\ run[r].pc \in {"done", "dead"}
      \/ /\ Active(r) /\ a = Attempt(r)
         /\ run[r].pc \in Ending /\ run[r].status # "applied-uncommitted"

(* What the refinement needs beyond SafeInv: git has only the branches and worktrees
   of attempts, the default branch is as it was, no branch has a fix that is not
   made, and an uncommitted fix comes from a real run of a target that does not commit. *)
PromiseInv ==
  /\ Trunk \in DOMAIN refs /\ refs[Trunk] = {}
  /\ DOMAIN refs \subseteq Attempts \cup {Trunk}
  /\ worktrees \subseteq Attempts
  /\ \A b \in DOMAIN refs, a \in Attempts : a \in refs[b] => Made(a)
  /\ \A r \in Runs :
       run[r].pc = "record" /\ run[r].status = "applied-uncommitted"
       => Real(run[r].args) /\ ~CommitGate(autonomy)

(* A step within the attempt under way: what it does to refs, and to whether the fix
   of the attempt is made. *)
Within(r) ==
  LET a == Attempt(r)
  IN  /\ UNCHANGED <<autonomy, log, outcome>> /\ Onwards(r)
      /\ stranded' = stranded \/ stranded' = stranded \cup {a}
      /\ worktrees' \subseteq worktrees \cup {a}
      /\ \E pc \in Beginning \cup Trying \cup Ending : \E status, where :
           /\ Becomes(r, pc, status, where)
           /\ run[r].pc \in Ending /\ run[r].status # "applied-uncommitted"
                => pc \in Ending /\ status # "applied-uncommitted"
           /\ pc = "record" /\ status = "applied-uncommitted"
                => Real(run[r].args) /\ ~CommitGate(autonomy)
           /\ \/ refs' = refs
              \/ refs' = Without(refs, a)
              \/ /\ run[r].base \in DOMAIN refs
                 /\ refs' = [b \in DOMAIN refs \cup {a} |->
                               IF b = a THEN refs[run[r].base] ELSE refs[b]]
              \/ /\ refs' = [refs EXCEPT ![a] = @ \cup {a}]
                 /\ pc \in Ending /\ status = "applied"

LEMMA WithinInv ==
  ASSUME SafeInv, PromiseInv, NEW r \in Runs, Active(r), Within(r)
  PROVE  PromiseInv'
<1>0. PICK a \in Attempts : a = Attempt(r) /\ a[1] = r /\ outcome[a] = None /\ a # Trunk
  BY Turn, NamesAssumption DEF SafeInv
<1>1. PICK pc \in Beginning \cup Trying \cup Ending : \E status, where :
        /\ Becomes(r, pc, status, where)
        /\ run[r].pc \in Ending /\ run[r].status # "applied-uncommitted"
             => pc \in Ending /\ status # "applied-uncommitted"
        /\ pc = "record" /\ status = "applied-uncommitted"
             => Real(run[r].args) /\ ~CommitGate(autonomy)
        /\ \/ refs' = refs
           \/ refs' = Without(refs, a)
           \/ /\ run[r].base \in DOMAIN refs
              /\ refs' = [b \in DOMAIN refs \cup {a} |->
                            IF b = a THEN refs[run[r].base] ELSE refs[b]]
           \/ /\ refs' = [refs EXCEPT ![a] = @ \cup {a}]
              /\ pc \in Ending /\ status = "applied"
  BY <1>0 DEF Within
<1>2. /\ UNCHANGED <<autonomy, outcome>> /\ worktrees' \subseteq worktrees \cup {a}
      /\ run'[r].pc = pc /\ run'[r].args = run[r].args /\ Attempt(r)' = a
      /\ \A q \in Runs : q # r => run'[q] = run[q]
      /\ run[r].pc \in Ending /\ run[r].status # "applied-uncommitted"
             => run'[r].pc \in Ending /\ run'[r].status # "applied-uncommitted"
      /\ run'[r].pc = "record" /\ run'[r].status = "applied-uncommitted"
             => Real(run[r].args) /\ ~CommitGate(autonomy)
      /\ Active(r)'
  BY <1>0, <1>1 DEF Within, Becomes, Onwards, Attempt, Active, Beginning, Trying, Ending
<1>3. \/ refs' = refs
      \/ refs' = [b \in DOMAIN refs \ {a} |-> refs[b]]
      \/ /\ run[r].base \in DOMAIN refs
         /\ refs' = [b \in DOMAIN refs \cup {a} |->
                       IF b = a THEN refs[run[r].base] ELSE refs[b]]
      \/ /\ refs' = [refs EXCEPT ![a] = @ \cup {a}]
         /\ run'[r].pc \in Ending /\ run'[r].status # "applied-uncommitted"
  BY <1>1 DEF Without, Becomes
<1>4. \A q \in Runs : q # r => Attempt(q)' = Attempt(q) /\ (Active(q)' <=> Active(q))
  BY <1>2 DEF Attempt, Active
<1>5. ASSUME NEW c \in Attempts, Made(c)
      PROVE  Made(c)'
  <2>1. c[1] \in Runs  BY DEF Attempts
  <2>2. CASE c[1] # r  BY <1>2, <1>4, <1>5, <2>1, <2>2 DEF Made
  <2>3. CASE c[1] = r
    <3>1. run[r].pc \notin {"done", "dead"}  BY DEF Active
    <3> QED  BY <1>0, <1>2, <1>5, <2>3, <3>1 DEF Made
  <2> QED  BY <2>2, <2>3
<1>6. /\ Trunk \in DOMAIN refs' /\ refs'[Trunk] = {}
      /\ DOMAIN refs' \subseteq Attempts \cup {Trunk}
  BY <1>0, <1>3 DEF PromiseInv
<1>7. ASSUME NEW b \in DOMAIN refs', NEW c \in Attempts, c \in refs'[b]
      PROVE  Made(c)'
  <2>1. (\E d \in DOMAIN refs : c \in refs[d]) \/ (c = a /\ run'[r].pc \in Ending
                                                   /\ run'[r].status # "applied-uncommitted")
    BY <1>3, <1>7
  <2>2. CASE c = a /\ run'[r].pc \in Ending /\ run'[r].status # "applied-uncommitted"
    BY <1>0, <1>2, <2>2 DEF Made
  <2> QED  BY <1>5, <2>1, <2>2 DEF PromiseInv
<1>8. worktrees' \subseteq Attempts  BY <1>0, <1>2 DEF PromiseInv
<1>9. \A q \in Runs :
        run'[q].pc = "record" /\ run'[q].status = "applied-uncommitted"
        => Real(run'[q].args) /\ ~CommitGate(autonomy')
  BY <1>2 DEF PromiseInv
<1> QED  BY <1>6, <1>7, <1>8, <1>9 DEF PromiseInv

(* Resolve, MakeWorktree, VerifyBefore, ApplyFix, VerifyAfter, Commit, RemoveWorktree,
   DeleteBranch and Raise are such steps. *)
LEMMA StepsWithin ==
  ASSUME SafeInv, NEW r \in Runs, Step(r), ~Record(r), ~RecordRaises(r)
  PROVE  Active(r) /\ Within(r)
<1> DEFINE a == Attempt(r)
<1>1. CASE Resolve(r)
  <2>1. Active(r) /\ SafeTypes  BY <1>1, ActiveIs DEF Resolve, At, Beginning
  <2>2. /\ Onwards(r) /\ run[r].pc = "resolve"
        /\ \/ Becomes(r, "make", run[r].status, run[r].where)
           \/ Becomes(r, "record", "skipped", run[r].where)
    BY <1>1, <2>1, FieldUpdates DEF Resolve, Ends, At
  <2>3. UNCHANGED <<autonomy, refs, worktrees, log, outcome, stranded>>
    BY <1>1 DEF Resolve, repoVars, history
  <2> QED  BY <2>1, <2>2, <2>3 DEF Within, Beginning, Ending
<1>2. CASE MakeWorktree(r)
  <2>1. Active(r) /\ SafeTypes  BY <1>2, ActiveIs DEF MakeWorktree, At, Beginning
  <2> DEFINE Branched ==
        /\ run[r].base \in DOMAIN refs
        /\ refs' = [b \in DOMAIN refs \cup {a} |-> IF b = a THEN refs[run[r].base] ELSE refs[b]]
  <2>2. /\ run[r].pc = "make" /\ Onwards(r)
        /\ \/ /\ Branched /\ worktrees' = worktrees \cup {a} /\ UNCHANGED stranded
              /\ Becomes(r, "before", run[r].status, "try")
           \/ /\ Branched /\ stranded' = stranded \cup {a} /\ UNCHANGED worktrees
              /\ Becomes(r, "record", "failed", run[r].where)
           \/ /\ UNCHANGED <<refs, worktrees, stranded>>
              /\ Becomes(r, "record", "failed", run[r].where)
    BY <1>2, <2>1, FieldUpdates DEF MakeWorktree, Ends, At
  <2>3. UNCHANGED <<autonomy, log, outcome>>  BY <1>2 DEF MakeWorktree
  <2> HIDE DEF a
  <2>4. (refs' = refs \/ Branched) /\ worktrees' \subseteq worktrees \cup {a}
        /\ (stranded' = stranded \/ stranded' = stranded \cup {a})
    BY <2>2
  <2>5. \E pc \in {"before", "record"} : \E status \in {run[r].status, "failed"} : \E where :
          Becomes(r, pc, status, where) /\ (pc = "record" => status = "failed")
    BY <2>2
  <2> QED  BY <2>1, <2>2, <2>3, <2>4, <2>5 DEF Within, Beginning, Trying, Ending, a
<1>3. CASE VerifyBefore(r) \/ ApplyFix(r)
  <2>1. Active(r) /\ SafeTypes  BY <1>3, ActiveIs DEF VerifyBefore, ApplyFix, At, Trying
  <2>2. /\ Onwards(r) /\ run[r].pc \in {"before", "apply"}
        /\ \/ \E pc \in {"apply", "after"} : Becomes(r, pc, run[r].status, run[r].where)
           \/ Becomes(r, "remove", "failed", run[r].where)
    BY <1>3, <2>1, FieldUpdates DEF VerifyBefore, ApplyFix, Goto, Ends, At
  <2>3. UNCHANGED <<autonomy, refs, worktrees, log, outcome, stranded>>
    BY <1>3 DEF VerifyBefore, ApplyFix, repoVars, history
  <2> QED  BY <2>1, <2>2, <2>3 DEF Within, Trying, Ending
<1>4. CASE VerifyAfter(r)
  <2>1. Active(r) /\ SafeTypes  BY <1>4, ActiveIs DEF VerifyAfter, At, Trying
  <2>2. /\ Onwards(r) /\ run[r].pc = "after"
        /\ \/ \E s \in {"dry-run", "rolled-back"} : Becomes(r, "remove", s, run[r].where)
           \/ /\ Becomes(r, "record", "applied-uncommitted", run[r].where)
              /\ Real(run[r].args) /\ ~CommitGate(autonomy)
           \/ Becomes(r, "commit", run[r].status, run[r].where)
    BY <1>4, <2>1, FieldUpdates DEF VerifyAfter, Goto, Ends, At
  <2>3. UNCHANGED <<autonomy, refs, worktrees, log, outcome, stranded>>
    BY <1>4 DEF VerifyAfter, repoVars
  <2>4. \E pc \in {"remove", "record", "commit"} : \E status, where :
          /\ Becomes(r, pc, status, where)
          /\ pc = "record" /\ status = "applied-uncommitted"
               => Real(run[r].args) /\ ~CommitGate(autonomy)
    BY <2>2
  <2> QED  BY <2>1, <2>2, <2>3, <2>4 DEF Within, Trying, Ending
<1>5. CASE Commit(r)
  <2>1. Active(r) /\ SafeTypes  BY <1>5, ActiveIs DEF Commit, At, Trying
  <2>2. /\ Onwards(r) /\ run[r].pc = "commit"
        /\ \/ /\ refs' = [refs EXCEPT ![a] = @ \cup {a}]
              /\ Becomes(r, "remove", "applied", run[r].where)
           \/ UNCHANGED refs /\ Becomes(r, "remove", "rolled-back", run[r].where)
    BY <1>5, <2>1, FieldUpdates DEF Commit, Ends, At
  <2>3. UNCHANGED <<autonomy, worktrees, log, outcome, stranded>>
    BY <1>5 DEF Commit, history
  <2> QED  BY <2>1, <2>2, <2>3 DEF Within, Trying, Ending
<1>6. CASE RemoveWorktree(r)
  <2>1. Active(r) /\ SafeTypes /\ Stage(r)  BY <1>6, ActiveIs DEF RemoveWorktree, At, Ending
  <2>2. /\ Onwards(r) /\ run[r].pc = "remove"
        /\ \E pc \in {"delete", "record"} : Becomes(r, pc, run[r].status, run[r].where)
        /\ \/ worktrees' = worktrees \ {a} /\ UNCHANGED stranded
           \/ stranded' = stranded \cup {a} /\ UNCHANGED worktrees
    BY <1>6, <2>1, FieldUpdates DEF RemoveWorktree, Goto, At
  <2>3. UNCHANGED <<autonomy, refs, log, outcome>>  BY <1>6 DEF RemoveWorktree
  <2>4. run[r].status # "applied-uncommitted"  BY <2>1, <2>2 DEF Stage
  <2> QED  BY <2>1, <2>2, <2>3, <2>4 DEF Within, Ending
<1>7. CASE DeleteBranch(r)
  <2>1. Active(r) /\ SafeTypes /\ Stage(r)  BY <1>7, ActiveIs DEF DeleteBranch, At, Ending
  <2>2. /\ Onwards(r) /\ run[r].pc = "delete"
        /\ Becomes(r, "record", run[r].status, run[r].where)
        /\ refs' = refs \/ refs' = Without(refs, a)
        /\ stranded' = stranded \/ stranded' = stranded \cup {a}
    BY <1>7, <2>1, FieldUpdates DEF DeleteBranch, Goto, At
  <2>3. UNCHANGED <<autonomy, worktrees, log, outcome>>  BY <1>7 DEF DeleteBranch
  <2>4. run[r].status # "applied-uncommitted"  BY <2>1, <2>2 DEF Stage, Kept
  <2> QED  BY <2>1, <2>2, <2>3, <2>4 DEF Within, Ending
<1>8. CASE Raise(r)
  <2>1. Active(r) /\ SafeTypes  BY <1>8, ActiveIs DEF Raise, Trying, Ending
  <2>2. Onwards(r) /\ Becomes(r, "remove", "failed", "except")
    BY <1>8, <2>1, FieldUpdates DEF Raise
  <2>3. UNCHANGED <<autonomy, refs, worktrees, log, outcome, stranded>>
    BY <1>8 DEF Raise, repoVars, history
  <2> QED  BY <2>1, <2>2, <2>3 DEF Within, Ending
<1> QED  BY <1>1, <1>2, <1>3, <1>4, <1>5, <1>6, <1>7, <1>8 DEF Step

(* A step that ends the attempt under way, with an outcome or without. *)
Ended(r) ==
  /\ Active(r)
  /\ UNCHANGED <<autonomy, refs, worktrees>>
  /\ \A q \in Runs : q # r => run'[q] = run[q]
  /\ run'[r].args = run[r].args
  /\ \/ /\ outcome' = [outcome EXCEPT ![Attempt(r)] = run[r].status]
        /\ log' = log \/ log' = log \cup {<<Attempt(r), run[r].status>>}
        /\ run[r].pc = "record" /\ run'[r].pc \in {"done", "resolve"} /\ stranded' = stranded
     \/ /\ UNCHANGED <<outcome, log>> /\ run'[r].pc \in {"done", "dead"}
        /\ stranded' = stranded \/ stranded' = stranded \cup {Attempt(r)}

LEMMA StepsEnd ==
  ASSUME SafeInv, NEW r \in Runs, Record(r) \/ RecordRaises(r) \/ Dies(r)
  PROVE  Ended(r)
<1>0. SafeTypes /\ IsRun(run[r]) /\ run = [q \in Runs |-> run[q]]  BY DEF SafeInv, SafeTypes
<1>1. CASE Record(r)
  <2> DEFINE rest == Tail(run[r].todo)
  <2>1. Active(r) /\ run[r].pc = "record"  BY <1>1 DEF Record, At, Active
  <2>2. run' = [run EXCEPT ![r].todo = rest, ![r].status = None, ![r].passed = {},
                           ![r].where = "outside", ![r].base = Trunk,
                           ![r].pc = IF rest = <<>> THEN "done" ELSE "resolve"]
    BY <1>1 DEF Record, NextFinding
  <2> HIDE DEF rest
  <2>3. /\ \A q \in Runs : q # r => run'[q] = run[q]
        /\ run'[r].args = run[r].args /\ run'[r].pc \in {"done", "resolve"}
    BY <1>0, <2>2 DEF IsRun
  <2>4. /\ outcome' = [outcome EXCEPT ![Attempt(r)] = run[r].status]
        /\ log' = log \/ log' = log \cup {<<Attempt(r), run[r].status>>}
        /\ UNCHANGED <<autonomy, refs, worktrees, stranded>>
    BY <1>1 DEF Record, NextFinding, repoVars
  <2> QED  BY <2>1, <2>3, <2>4 DEF Ended
<1>2. CASE RecordRaises(r) \/ Dies(r)
  <2>1. PICK p \in {"done", "dead"} :
          run' = [run EXCEPT ![r] = [NotStarted EXCEPT !.pc = p, !.args = run[r].args]]
    BY <1>2 DEF RecordRaises, Dies
  <2>2. /\ \A q \in Runs : q # r => run'[q] = run[q]
        /\ run'[r].args = run[r].args /\ run'[r].pc \in {"done", "dead"}
    BY <1>0, <2>1 DEF NotStarted
  <2>3. Active(r)  BY <1>2 DEF RecordRaises, Dies, At, Active
  <2>4. /\ UNCHANGED <<autonomy, refs, worktrees, outcome, log>>
        /\ stranded' = stranded \/ stranded' = stranded \cup {Attempt(r)}
    BY <1>2 DEF RecordRaises, Dies, repoVars, history
  <2> QED  BY <2>2, <2>3, <2>4 DEF Ended
<1> QED  BY <1>1, <1>2

LEMMA EndedInv ==
  ASSUME SafeInv, PromiseInv, NEW r \in Runs, Ended(r)
  PROVE  PromiseInv'
<1>0. PICK a \in Attempts : a = Attempt(r) /\ a[1] = r /\ outcome[a] = None
  BY Turn DEF SafeInv, Ended
<1>1. /\ UNCHANGED <<autonomy, refs, worktrees>>
      /\ \A q \in Runs : q # r => run'[q] = run[q]
      /\ run'[r].args = run[r].args /\ run'[r].pc \in {"done", "dead", "resolve"}
  BY DEF Ended
<1>2. \A q \in Runs : q # r => Attempt(q)' = Attempt(q) /\ (Active(q)' <=> Active(q))
  BY <1>1 DEF Attempt, Active
<1>3. /\ \A c \in Attempts : c # a => outcome'[c] = outcome[c]
      /\ \/ outcome'[a] = run[r].status /\ run[r].pc = "record"
         \/ outcome'[a] = None /\ run'[r].pc \in {"done", "dead"}
  BY <1>0 DEF Ended, SafeInv, SafeTypes
<1>4. run[r].pc = "record" => run[r].status # None
  <2>1. Stage(r)  BY DEF SafeInv, Ended
  <2> QED  BY <2>1, NamesAssumption DEF Stage, Ending, Statuses
<1>5. ASSUME NEW c \in Attempts, Made(c)
      PROVE  Made(c)'
  <2>1. c[1] \in Runs  BY DEF Attempts
  <2>2. run[r].pc \notin {"done", "dead"}  BY DEF Active, Ended
  <2>3. CASE c[1] # r  BY <1>0, <1>1, <1>2, <1>3, <1>5, <2>1, <2>3 DEF Made
  <2>4. CASE c[1] = r /\ c # a  BY <1>0, <1>3, <1>5, <2>2, <2>4 DEF Made
  <2>5. CASE c = a
    <3>1. run[r].status # "applied-uncommitted" \/ run[r].pc # "record"
      BY <1>0, <1>5, <2>2, <2>5 DEF Made
    <3>2. \/ outcome'[a] \notin {None, "applied-uncommitted"}
          \/ outcome'[a] = None /\ run'[r].pc \in {"done", "dead"}
      BY <1>3, <1>4, <3>1
    <3> QED  BY <1>0, <2>5, <3>2 DEF Made
  <2> QED  BY <2>3, <2>4, <2>5
<1>6. \A b \in DOMAIN refs', c \in Attempts : c \in refs'[b] => Made(c)'
  BY <1>1, <1>5 DEF PromiseInv
<1>7. \A q \in Runs :
        run'[q].pc = "record" /\ run'[q].status = "applied-uncommitted"
        => Real(run'[q].args) /\ ~CommitGate(autonomy')
  BY <1>1 DEF PromiseInv
<1> QED  BY <1>1, <1>6, <1>7 DEF PromiseInv

LEMMA StartPromise ==
  ASSUME SafeInv, PromiseInv, NEW r \in Runs, NEW args \in Args[r], NEW clean,
         Start(r, args, clean)
  PROVE  /\ PromiseInv'
         /\ UNCHANGED <<autonomy, refs, worktrees, log, outcome, stranded>>
         /\ run[r].pc = "new" /\ run'[r].pc # "new" /\ \A i \in Findings : outcome[<<r, i>>] = None
         /\ \A q \in Runs : q # r => run'[q] = run[q]
<1>1. /\ run[r].pc = "new" /\ ~Active(r) /\ run = [q \in Runs |-> run[q]]
      /\ \A i \in Findings : outcome[<<r, i>>] = None
  BY DEF Start, At, Active, SafeInv, SafeTypes, InTurn, Attempted
<1>2. UNCHANGED <<autonomy, refs, worktrees, log, outcome, stranded>>
  BY DEF Start, repoVars, history
<1>3. /\ \A q \in Runs : q # r => run'[q] = run[q]
      /\ run'[r].pc \in {"done", "resolve"}
  BY <1>1 DEF Start, NotStarted
<1>4. \A q \in Runs : q # r => Attempt(q)' = Attempt(q) /\ (Active(q)' <=> Active(q))
  BY <1>3 DEF Attempt, Active
<1>5. ASSUME NEW c \in Attempts, Made(c)
      PROVE  Made(c)'
  <2>1. c[1] \in Runs  BY DEF Attempts
  <2>2. CASE c[1] # r  BY <1>2, <1>3, <1>4, <1>5, <2>1, <2>2 DEF Made
  <2>3. CASE c[1] = r  BY <1>1, <1>2, <1>5, <2>3 DEF Made
  <2> QED  BY <2>2, <2>3
<1>6. \A b \in DOMAIN refs', c \in Attempts : c \in refs'[b] => Made(c)'
  BY <1>2, <1>5 DEF PromiseInv
<1>7. \A q \in Runs :
        run'[q].pc = "record" /\ run'[q].status = "applied-uncommitted"
        => Real(run'[q].args) /\ ~CommitGate(autonomy')
  BY <1>2, <1>3 DEF PromiseInv
<1>8. PromiseInv'  BY <1>2, <1>6, <1>7 DEF PromiseInv
<1> QED  BY <1>1, <1>2, <1>3, <1>8

LEMMA OperatorPromise ==
  ASSUME PromiseInv, UNCHANGED <<autonomy, refs, worktrees, run, outcome>>
  PROVE  PromiseInv'
<1>1. \A r : Attempt(r)' = Attempt(r) /\ (Active(r)' <=> Active(r))  BY DEF Attempt, Active
<1>2. \A a \in Attempts : Made(a)' <=> Made(a)  BY <1>1 DEF Made
<1> QED  BY <1>2 DEF PromiseInv

LEMMA PromiseInvInit ==
  ASSUME Init
  PROVE  PromiseInv
<1>1. \A r \in Runs : run[r].pc = "new"  BY DEF Init, NotStarted
<1> QED  BY <1>1 DEF Init, PromiseInv

LEMMA PromiseInvStep ==
  ASSUME SafeInv, PromiseInv, [Next]_vars
  PROVE  PromiseInv'
<1>1. CASE UNCHANGED vars  BY <1>1, OperatorPromise DEF vars
<1>2. ASSUME NEW r \in Runs, Step(r) \/ Dies(r)
      PROVE  PromiseInv'
  <2>1. CASE Record(r) \/ RecordRaises(r) \/ Dies(r)  BY <2>1, StepsEnd, EndedInv
  <2>2. CASE Step(r) /\ ~Record(r) /\ ~RecordRaises(r)  BY <2>2, StepsWithin, WithinInv
  <2> QED  BY <1>2, <2>1, <2>2
<1>3. ASSUME NEW r \in Runs, NEW args \in Args[r], NEW clean, Start(r, args, clean)
      PROVE  PromiseInv'
  BY <1>3, StartPromise
<1>4. ASSUME NEW b, OperatorChecksOut(b)
      PROVE  PromiseInv'
  BY <1>4, OperatorPromise DEF OperatorChecksOut, history
<1> QED  BY <1>1, <1>2, <1>3, <1>4 DEF Next

(* What shows of the attempts is what those that are over report, but for the
   stranded ones. *)
Left(kinds) == {a \in Attempts : a \notin stranded /\ outcome[a] \in kinds}

ShowsAsReported ==
  /\ Shown(DOMAIN refs) = Left(Kept)
  /\ Shown({a \in DOMAIN refs : a \in refs[a]}) = Left({"applied"})
  /\ Shown(worktrees) = Left({"applied-uncommitted"})

LEMMA ShownIs ==
  ASSUME SafeInv, PromiseInv
  PROVE  ShowsAsReported
<1>1. \A a \in UnderWay : a \in Attempts /\ outcome[a] = None
  BY Turn DEF SafeInv, UnderWay
<1>2. None \notin Kept  BY NamesAssumption
<1>3. ASSUME NEW a \in Attempts, a \notin UnderWay, a \notin stranded
      PROVE  /\ a \in DOMAIN refs <=> outcome[a] \in Kept
             /\ a \in worktrees <=> outcome[a] = "applied-uncommitted"
             /\ a \in DOMAIN refs /\ a \in refs[a] <=> outcome[a] = "applied"
  <2>1. /\ a \in DOMAIN refs <=> outcome[a] \in Kept
        /\ a \in worktrees <=> outcome[a] = "applied-uncommitted"
    BY <1>3 DEF SafeInv, NothingLeftBehind
  <2>2. outcome[a] = "applied" => a \in DOMAIN refs /\ a \in refs[a]
    BY DEF SafeInv, Committed
  <2>3. ASSUME a \in DOMAIN refs, a \in refs[a]
        PROVE  outcome[a] = "applied"
    <3>1. Made(a)  BY <2>3 DEF PromiseInv
    <3>2. outcome[a] \in Kept  BY <2>1, <2>3
    <3>3. a[1] \in Runs  BY DEF Attempts
    <3>4. ~(Active(a[1]) /\ a = Attempt(a[1]))  BY <1>3, <3>3 DEF UnderWay
    <3> QED  BY <1>2, <3>1, <3>2, <3>4 DEF Made, Kept
  <2> QED  BY <2>1, <2>2, <2>3
<1>4. /\ Trunk \notin Attempts /\ DOMAIN refs \subseteq Attempts \cup {Trunk}
      /\ worktrees \subseteq Attempts
  BY NamesAssumption DEF PromiseInv
<1>5. Shown(DOMAIN refs) = Left(Kept)
  BY <1>1, <1>2, <1>3, <1>4 DEF Shown, Left
<1>6. Shown(worktrees) = Left({"applied-uncommitted"})
  BY <1>1, <1>2, <1>3, <1>4 DEF Shown, Left, Kept
<1>7. Shown({a \in DOMAIN refs : a \in refs[a]}) = Left({"applied"})
  BY <1>1, <1>2, <1>3, <1>4 DEF Shown, Left, Kept
<1> QED  BY <1>5, <1>6, <1>7 DEF ShowsAsReported

LEMMA InitPromise == Init => Promise!PromiseInit
<1> SUFFICES ASSUME Init  PROVE Promise!PromiseInit  OBVIOUS
<1>1. ShowsAsReported  BY SafeInvInit, PromiseInvInit, ShownIs
<1>2. \A a \in Attempts : outcome[a] = None  BY DEF Init
<1>3. None \notin Kept  BY NamesAssumption
<1>4. Left(Kept) = {} /\ Left({"applied"}) = {} /\ Left({"applied-uncommitted"}) = {}
  BY <1>2, <1>3 DEF Left, Kept
<1>5. \A r \in Runs : Admitted(r) = {}  BY DEF Init, NotStarted, Admitted
<1>6. outcome = [a \in Promise!Attempts |-> None]
  BY DEF Init, Promise!Attempts, Attempts
<1>7. log = {} /\ stranded = {} /\ refs[Trunk] = {}  BY DEF Init
<1> QED  BY <1>1, <1>4, <1>5, <1>6, <1>7 DEF Promise!PromiseInit, ShowsAsReported

(* An invocation that goes on keeps its grant, and so do all the others. *)
LEMMA GrantStays ==
  ASSUME NEW r \in Runs, UNCHANGED autonomy, run'[r].args = run[r].args,
         run[r].pc = "new" <=> run'[r].pc = "new",
         \A q \in Runs : q # r => run'[q] = run[q]
  PROVE  UNCHANGED [q \in Runs |-> Admitted(q)]
<1>1. \A q \in Runs : Admitted(q)' = Admitted(q)  BY DEF Admitted
<1> QED  BY <1>1

(* What steps show at most: they strand an attempt that is not over. *)
LEMMA StrandsPromise ==
  ASSUME ShowsAsReported, ShowsAsReported', NEW a \in Attempts, outcome[a] = None,
         stranded' = stranded \/ stranded' = stranded \cup {a},
         UNCHANGED <<log, outcome>>, refs'[Trunk] = refs[Trunk],
         UNCHANGED [q \in Runs |-> Admitted(q)]
  PROVE  [Promise!PromiseNext]_(Promise!promiseVars)
<1>1. None \notin Kept  BY NamesAssumption
<1>2. Left(Kept)' = Left(Kept) /\ Left({"applied"})' = Left({"applied"})
      /\ Left({"applied-uncommitted"})' = Left({"applied-uncommitted"})
  BY <1>1 DEF Left, Kept
<1>3. UNCHANGED <<Shown(DOMAIN refs), Shown({b \in DOMAIN refs : b \in refs[b]}), Shown(worktrees)>>
  BY <1>2 DEF ShowsAsReported
<1>4. CASE stranded' = stranded  BY <1>3, <1>4 DEF Promise!promiseVars
<1>5. CASE stranded' # stranded
  <2>1. a \in Promise!Attempts \ stranded /\ a \in stranded'
    BY <1>5 DEF Promise!Attempts, Attempts
  <2>2. Promise!BreakOff(a)  BY <1>3, <1>5 DEF Promise!BreakOff
  <2> QED  BY <2>1, <2>2 DEF Promise!PromiseNext
<1> QED  BY <1>4, <1>5

(* An attempt that is over shows at once, as it reports and as the policy admits. *)
LEMMA RecordPromise ==
  ASSUME SafeInv, PromiseInv, ShowsAsReported, ShowsAsReported', NEW r \in Runs, Record(r)
  PROVE  Promise!PromiseNext
<1>0. PICK a \in Attempts : a = Attempt(r) /\ a[1] = r /\ outcome[a] = None
  <2>1. Active(r)  BY DEF Record, At, Active
  <2> QED  BY <2>1, Turn DEF SafeInv
<1>1. Active(r) /\ Stage(r) /\ run[r].pc = "record"
  BY ActiveIs DEF Record, At, Ending
<1>2. PICK s \in Statuses : s = run[r].status  BY <1>1 DEF Stage, Ending
<1>3. s # None  BY NamesAssumption DEF Statuses
<1>4. /\ outcome' = [outcome EXCEPT ![a] = s]
      /\ log' = log \/ log' = log \cup {<<a, s>>}
      /\ UNCHANGED <<autonomy, refs, worktrees, stranded>>
  BY <1>0, <1>2 DEF Record, NextFinding, repoVars
<1>5. \A c \in Attempts : outcome'[c] = IF c = a THEN s ELSE outcome[c]
  BY <1>4 DEF SafeInv, SafeTypes
<1>6. s \in Kept => Admitted(r) = {s}
  <2>1. CASE s = "applied"
    <3>1. Allowed(run[r].args)  BY <1>0, <1>1, <1>2, <2>1 DEF Stage, Ending, Committed
    <3> QED  BY <1>1, <2>1, <3>1 DEF Allowed, Admitted, CommitGate
  <2>2. CASE s = "applied-uncommitted"
    <3>1. Real(run[r].args) /\ ~CommitGate(autonomy)
      BY <1>1, <1>2, <2>2 DEF PromiseInv
    <3>2. autonomy.allow_fix  BY <1>1, <3>1 DEF Stage
    <3> QED  BY <1>1, <2>2, <3>1, <3>2 DEF Admitted
  <2> QED  BY <2>1, <2>2 DEF Kept
<1>7. ASSUME NEW kinds \in SUBSET Statuses, None \notin kinds
      PROVE  Left(kinds)' = IF s \in kinds /\ a \notin stranded
                            THEN Left(kinds) \cup {a} ELSE Left(kinds)
  <2>1. Left(kinds)' = {c \in Attempts : c \notin stranded /\ outcome'[c] \in kinds}
    BY <1>4 DEF Left
  <2>2. a \notin Left(kinds)  BY <1>0, <1>7 DEF Left
  <2> QED  BY <1>5, <2>1, <2>2 DEF Left
<1>8. /\ Kept \in SUBSET Statuses /\ {"applied"} \in SUBSET Statuses
      /\ {"applied-uncommitted"} \in SUBSET Statuses
      /\ None \notin Kept /\ None \notin {"applied"} /\ None \notin {"applied-uncommitted"}
  BY NamesAssumption DEF Statuses, Kept
<1>9. UNCHANGED [q \in Runs |-> Admitted(q)]
  <2>1. Ended(r)  BY StepsEnd
  <2>2. /\ UNCHANGED autonomy /\ run'[r].args = run[r].args /\ run'[r].pc # "new"
        /\ \A q \in Runs : q # r => run'[q] = run[q]
    BY <2>1 DEF Ended
  <2> QED  BY <1>1, <2>2, GrantStays
<1>10. Promise!Over(a, s)
  <2>1. s \in Promise!Leaving => s \in [q \in Runs |-> Admitted(q)][a[1]]
    BY <1>0, <1>6 DEF Promise!Leaving, Kept
  <2>2. /\ Shown(DOMAIN refs)' = IF s \in Kept /\ a \notin stranded
                                 THEN Shown(DOMAIN refs) \cup {a} ELSE Shown(DOMAIN refs)
        /\ Shown({c \in DOMAIN refs : c \in refs[c]})' =
             IF s \in {"applied"} /\ a \notin stranded
             THEN Shown({c \in DOMAIN refs : c \in refs[c]}) \cup {a}
             ELSE Shown({c \in DOMAIN refs : c \in refs[c]})
        /\ Shown(worktrees)' = IF s \in {"applied-uncommitted"} /\ a \notin stranded
                               THEN Shown(worktrees) \cup {a} ELSE Shown(worktrees)
    BY <1>7, <1>8 DEF ShowsAsReported
  <2> QED  BY <1>0, <1>4, <1>9, <2>1, <2>2 DEF Promise!Over, Promise!Leaving, Kept
<1>11. a \in Promise!Attempts /\ s \in Promise!Reports /\ outcome'[a] # outcome[a]
  BY <1>0, <1>3, <1>5
     DEF Promise!Attempts, Attempts, Promise!Reports, Promise!Leaving, Statuses, Kept
<1> QED  BY <1>10, <1>11 DEF Promise!PromiseNext

(* An invocation that is started is granted what it asks for and the policy admits. *)
LEMMA StartGrants ==
  ASSUME SafeInv, PromiseInv, ShowsAsReported, ShowsAsReported',
         NEW r \in Runs, NEW args \in Args[r], NEW clean, Start(r, args, clean)
  PROVE  [Promise!PromiseNext]_(Promise!promiseVars)
<1>1. /\ UNCHANGED <<autonomy, refs, worktrees, log, outcome, stranded>>
      /\ run[r].pc = "new" /\ run'[r].pc # "new" /\ \A i \in Findings : outcome[<<r, i>>] = None
      /\ \A q \in Runs : q # r => run'[q] = run[q]
  BY StartPromise
<1> DEFINE grant == [q \in Runs |-> Admitted(q)]
<1>2. /\ \A q \in Runs : q # r => Admitted(q)' = Admitted(q)
      /\ Admitted(r) = {} /\ Admitted(r)' \in {{}, {"applied"}, {"applied-uncommitted"}}
  BY <1>1 DEF Admitted
<1>3. UNCHANGED <<Shown(DOMAIN refs), Shown({b \in DOMAIN refs : b \in refs[b]}), Shown(worktrees)>>
  <2>1. \A kinds : Left(kinds)' = Left(kinds)  BY <1>1 DEF Left
  <2> QED  BY <2>1 DEF ShowsAsReported
<1>4. CASE Admitted(r)' = {}
  <2>1. grant' = grant  BY <1>2, <1>4
  <2> QED  BY <1>1, <1>3, <2>1 DEF Promise!promiseVars
<1>5. CASE Admitted(r)' # {}
  <2>1. grant[r] = {} /\ grant'[r] # {}  BY <1>2, <1>5
  <2>2. \E kind \in Promise!Leaving : grant' = [grant EXCEPT ![r] = {kind}]
    BY <1>2, <1>5 DEF Promise!Leaving
  <2>3. Promise!Request(r)
    BY <1>1, <1>3, <2>1, <2>2 DEF Promise!Request
  <2> QED  BY <2>3 DEF Promise!PromiseNext
<1> QED  BY <1>4, <1>5

LEMMA StepPromise ==
  SafeInv /\ PromiseInv /\ PromiseInv' /\ ShowsAsReported /\ ShowsAsReported' /\ [Next]_vars
  => [Promise!PromiseNext]_(Promise!promiseVars)
<1> SUFFICES ASSUME SafeInv, PromiseInv, PromiseInv', ShowsAsReported, ShowsAsReported',
                    [Next]_vars
             PROVE  [Promise!PromiseNext]_(Promise!promiseVars)
  OBVIOUS
<1>0. refs'[Trunk] = refs[Trunk]  BY DEF PromiseInv
<1>1. ASSUME UNCHANGED <<autonomy, refs, worktrees, run, log, outcome, stranded>>
      PROVE  [Promise!PromiseNext]_(Promise!promiseVars)
  <2>1. \A kinds : Left(kinds)' = Left(kinds)  BY <1>1 DEF Left
  <2>2. \A q \in Runs : Admitted(q)' = Admitted(q)  BY <1>1 DEF Admitted
  <2>3. UNCHANGED [q \in Runs |-> Admitted(q)]  BY <2>2
  <2> QED  BY <1>1, <2>1, <2>3 DEF ShowsAsReported, Promise!promiseVars
<1>2. ASSUME NEW r \in Runs, Step(r) \/ Dies(r)
      PROVE  [Promise!PromiseNext]_(Promise!promiseVars)
  <2>1. CASE Record(r)  BY <2>1, RecordPromise
  <2>2. CASE RecordRaises(r) \/ Dies(r)
    <3>1. Active(r) /\ Ended(r)  BY <2>2, StepsEnd DEF Ended
    <3>2. Attempt(r) \in Attempts /\ outcome[Attempt(r)] = None  BY <3>1, Turn DEF SafeInv
    <3>3. UNCHANGED <<log, outcome>>
      BY <2>2 DEF RecordRaises, Dies, history
    <3>4. stranded' = stranded \/ stranded' = stranded \cup {Attempt(r)}
      BY <3>1 DEF Ended
    <3>5. UNCHANGED [q \in Runs |-> Admitted(q)]
      <4>1. /\ UNCHANGED autonomy /\ run'[r].args = run[r].args
            /\ run[r].pc # "new" /\ run'[r].pc # "new"
            /\ \A q \in Runs : q # r => run'[q] = run[q]
        BY <3>1 DEF Ended, Active
      <4> QED  BY <4>1, GrantStays
    <3> QED  BY <1>0, <3>2, <3>3, <3>4, <3>5, StrandsPromise
  <2>3. CASE Step(r) /\ ~Record(r) /\ ~RecordRaises(r)
    <3>1. Active(r) /\ Within(r)  BY <2>3, StepsWithin
    <3>2. Attempt(r) \in Attempts /\ outcome[Attempt(r)] = None  BY <3>1, Turn DEF SafeInv
    <3>3. /\ UNCHANGED <<log, outcome>>
          /\ stranded' = stranded \/ stranded' = stranded \cup {Attempt(r)}
      BY <3>1 DEF Within
    <3>4. UNCHANGED [q \in Runs |-> Admitted(q)]
      <4>1. /\ UNCHANGED autonomy /\ run'[r].args = run[r].args
            /\ run[r].pc # "new" /\ run'[r].pc # "new"
            /\ \A q \in Runs : q # r => run'[q] = run[q]
        BY <3>1 DEF Within, Becomes, Active, Beginning, Trying, Ending
      <4> QED  BY <4>1, GrantStays
    <3> QED  BY <1>0, <3>2, <3>3, <3>4, StrandsPromise
  <2> QED  BY <1>2, <2>1, <2>2, <2>3
<1>3. ASSUME NEW r \in Runs, NEW args \in Args[r], NEW clean, Start(r, args, clean)
      PROVE  [Promise!PromiseNext]_(Promise!promiseVars)
  BY <1>3, StartGrants
<1>4. ASSUME NEW b, OperatorChecksOut(b)
      PROVE  [Promise!PromiseNext]_(Promise!promiseVars)
  BY <1>1, <1>4 DEF OperatorChecksOut, history
<1>5. CASE UNCHANGED vars  BY <1>1, <1>5 DEF vars
<1> QED  BY <1>2, <1>3, <1>4, <1>5 DEF Next

(* However invocations, exceptions, deaths, refusals of git and the operator   *)
(* interleave, apply_finding implements the promise of ApplyPromise: an        *)
(* attempt shows in the target repository in the one step in which it is over, *)
(* as it reports and as the policy admits, and nothing later takes it away.    *)
THEOREM ApplyKeepsPromise == Spec => ImplementsPromise
<1>1. Init => PromiseInv  BY PromiseInvInit
<1>2. SafeInv /\ PromiseInv /\ [Next]_vars => PromiseInv'  BY PromiseInvStep
<1>3. SafeInv /\ PromiseInv => ShowsAsReported  BY ShownIs
<1> QED
  BY <1>1, <1>2, <1>3, SafeInvariant, InitPromise, StepPromise, PTL
     DEF Spec, ImplementsPromise, Promise!PromiseSpec

=============================================================================

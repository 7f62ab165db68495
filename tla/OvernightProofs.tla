--------------------------- MODULE OvernightProofs ---------------------------
(***************************************************************************)
(* Proofs about Overnight, for any number of targets, items, cycles and    *)
(* stops: an inductive invariant of what a cycle does and the safety       *)
(* properties of the run overnight; then one of what the loop remembers of *)
(* its cycles and the properties of the run overnight_memory.              *)
(***************************************************************************)
EXTENDS Overnight, GitProofs, SequenceTheorems, TLAPS

-----------------------------------------------------------------------------
(* The inductive invariant. *)

GoodRepo(r) ==
  WellFormed(r, Changes) /\ DOMAIN r.refs \subseteq Branches /\ Default \in DOMAIN r.refs

Phases == {"snapshot", "decide", "fix", "build", "verify", "deploy", "report", "rewrite"}

LoopTypes ==
  /\ repo = [t \in Targets |-> repo[t]] /\ \A t \in Targets : GoodRepo(repo[t])
  /\ tag \in [Targets -> SUBSET Changes] /\ before \in [Targets -> SUBSET Changes]
  /\ phase \in Phases
  /\ cycle \in 0 .. MaxCycles
  /\ plan \subseteq Items
  /\ doing \in [Targets -> {NoItem} \cup [item : Items, step : {"agent", "judge"}]]
  /\ toVisit \subseteq Targets /\ modified \subseteq Texts /\ shipped \subseteq Targets
  /\ failed \subseteq Items
  /\ verified = [t \in Targets |-> verified[t]]

(* An item is taken up once in a cycle, by its target, in its phase. *)
TakenOnce ==
  /\ phase # "snapshot" => cycle > 0
  /\ phase = "snapshot" => plan = {}
  /\ phase \in {"snapshot", "decide"} => failed = {}
  /\ plan \cap failed = {}
  /\ \A t \in Targets : doing[t] # NoItem =>
       /\ phase = IF doing[t].item \in Fixes THEN "fix" ELSE "build"
       /\ TargetOf[doing[t].item] = t
       /\ doing[t].item \notin plan \cup failed
       /\ doing[t].item \in Features => repo[t].head = doing[t].item

(* What VERIFY passed is as it was, from there to the report. *)
Verified ==
  /\ phase = "verify" =>
       \A t \in Targets \ toVisit : Listed(t) => verified[t] = Tree(t)
  /\ phase = "deploy" => \A t \in Targets : Listed(t) => verified[t] = Tree(t)
  /\ shipped # {} => phase \in {"deploy", "report", "rewrite"}
  /\ ShippedWasVerified

(* What branch b of target t may hold: nobody's work in progress unless it is theirs,
   and features on their own branches or, where they may be merged, anywhere, save
   those of this cycle that are not yet decided. *)
Pending(i) == i \in plan \/ i \in failed \/ doing[TargetOf[i]].item = i

MayHold(t, b, S) ==
  /\ b # Wip => <<Wip, 0>> \notin S
  /\ \A i \in Features, n \in Nat : <<i, n>> \in S =>
       /\ n <= cycle
       /\ phase = "decide" => n < cycle
       /\ b = i \/ (t \in autoMerge /\ ~(n = cycle /\ Pending(i)))

RepoApart(t, r) ==
  /\ before[t] \subseteq r.refs[Default]
  /\ cycle > 0 => r.head # Wip
  /\ \A b \in DOMAIN r.refs : MayHold(t, b, r.refs[b])

(* The tag is the default branch as it was. *)
TagApart(t) ==
  /\ tag[t] = before[t]
  /\ <<Wip, 0>> \notin tag[t]
  /\ \A i \in Features, n \in Nat : <<i, n>> \in tag[t] => n < cycle /\ t \in autoMerge

(* Of a target whose snapshots were all taken on the default branch. *)
Untouched == \A t \in Targets \ strayed : TagApart(t) /\ RepoApart(t, repo[t])

LoopInv == LoopTypes /\ TakenOnce /\ Verified /\ Untouched

-----------------------------------------------------------------------------
(* What the commands of a job leave of a good repository. *)

LEMMA NamesApart ==
  /\ Default # Wip /\ NoItem.item \notin Items
  /\ \A i \in Items : i # Default /\ i # Wip /\ ~(i \in Fixes /\ i \in Features)
  /\ Features \subseteq Branches /\ Features \subseteq Items
BY ItemsAssumption DEF Items, Branches, NoItem

LEMMA AgentLeavesEffect ==
  ASSUME NEW t \in Targets, NEW i \in Items, GoodRepo(repo[t]), cycle \in 1 .. MaxCycles,
         NEW r \in AgentLeaves(t, i)
  PROVE  /\ GoodRepo(r) /\ r.head = repo[t].head /\ DOMAIN r.refs = DOMAIN repo[t].refs
         /\ \A b \in DOMAIN r.refs :
              /\ repo[t].refs[b] \subseteq r.refs[b]
              /\ \A ch \in r.refs[b] : ch \in repo[t].refs[b] \/ (b = r.head /\ ch = Made(i))
<1>1. WellFormed(repo[t], Changes) /\ Made(i) \in Changes
  BY DEF GoodRepo, Made, Changes
<1>2. CASE r = repo[t]
  BY <1>2
<1>3. CASE r = Edited(repo[t])
  <2>1. WellFormed(r, Changes) /\ r.refs = repo[t].refs /\ r.head = repo[t].head
    BY <1>1, <1>3, EditEffect
  <2> QED
    BY <2>1 DEF GoodRepo
<1>4. CASE r \in Commit(repo[t], Made(i))
  <2>1. /\ WellFormed(r, Changes) /\ r.head = repo[t].head /\ DOMAIN r.refs = DOMAIN repo[t].refs
        /\ r.refs[repo[t].head] = repo[t].refs[repo[t].head] \cup {Made(i)}
        /\ \A x \in DOMAIN repo[t].refs : x # repo[t].head => r.refs[x] = repo[t].refs[x]
    BY <1>1, <1>4, CommitEffect
  <2> QED
    BY <2>1 DEF GoodRepo
<1> QED
  BY <1>2, <1>3, <1>4 DEF AgentLeaves

LEMMA OnNewBranchEffect ==
  ASSUME NEW r, GoodRepo(r), NEW i \in Features, NEW o \in OnNewBranch(r, i)
  PROVE  /\ GoodRepo(o.repo) /\ o.ok \in BOOLEAN /\ (o.ok => o.repo.head = i)
         /\ o.repo.head \in {r.head, Default, i}
         /\ \A b \in DOMAIN r.refs : b \in DOMAIN o.repo.refs /\ o.repo.refs[b] = r.refs[b]
         /\ \A b \in DOMAIN o.repo.refs \ DOMAIN r.refs :
              b = i /\ o.repo.refs[b] = r.refs[Default]
<1>1. PICK c \in Checkout(r, Default) : o \in (IF c.ok THEN CheckoutNew(c.repo, i) ELSE {c})
  BY DEF OnNewBranch
<1>2. WellFormed(r, Changes)
  BY DEF GoodRepo
<1>3. /\ WellFormed(c.repo, Changes) /\ c.repo.refs = r.refs /\ c.ok \in BOOLEAN
      /\ c.ok => c.repo.head = Default
      /\ ~c.ok => c.repo = r
  BY <1>2, CheckoutEffect
<1>4. CASE ~c.ok
  BY <1>1, <1>3, <1>4
<1>5. CASE c.ok
  <2>1. o \in CheckoutNew(c.repo, i)
    BY <1>1, <1>5
  <2>2. CASE o.ok
    <3>1. /\ WellFormed(o.repo, Changes) /\ o.repo.head = i
          /\ i \notin DOMAIN c.repo.refs /\ DOMAIN o.repo.refs = DOMAIN c.repo.refs \cup {i}
          /\ o.repo.refs[i] = c.repo.refs[c.repo.head]
          /\ \A x \in DOMAIN c.repo.refs : o.repo.refs[x] = c.repo.refs[x]
      BY <1>3, <2>1, <2>2, CheckoutNewEffect
    <3>2. o.ok = TRUE
      BY <2>1, <2>2 DEF CheckoutNew, Success, Failure
    <3> QED
      BY <1>3, <1>5, <3>1, <3>2, NamesApart DEF GoodRepo
  <2>3. CASE ~o.ok
    <3>1. o = [ok |-> FALSE, repo |-> c.repo]
      BY <2>1, <2>3 DEF CheckoutNew, Success, Failure
    <3> QED
      BY <1>3, <1>5, <3>1 DEF GoodRepo
  <2> QED
    BY <2>2, <2>3
<1> QED
  BY <1>3, <1>4, <1>5

LEMMA DroppedEffect ==
  ASSUME NEW r, GoodRepo(r), NEW i \in Features, NEW d \in Dropped(r, i)
  PROVE  /\ GoodRepo(d) /\ d.head \in {r.head, Default} /\ DOMAIN d.refs \subseteq DOMAIN r.refs
         /\ \A b \in DOMAIN d.refs : d.refs[b] = r.refs[b]
<1>0. PICK c \in Checkout(r, Default) : d \in {o.repo : o \in DeleteBranch(c.repo, i)}
  BY DEF Dropped
<1>1. PICK o \in DeleteBranch(c.repo, i) : d = o.repo
  BY <1>0
<1>2. WellFormed(r, Changes)
  BY DEF GoodRepo
<1>3. /\ WellFormed(c.repo, Changes) /\ c.repo.refs = r.refs /\ c.ok \in BOOLEAN
      /\ c.ok => c.repo.head = Default
      /\ ~c.ok => c.repo = r
  BY <1>2, CheckoutEffect
<1>4. /\ WellFormed(o.repo, Changes) /\ o.repo.head = c.repo.head
      /\ o.ok \in BOOLEAN /\ (~o.ok => o.repo = c.repo)
      /\ o.ok => DOMAIN o.repo.refs = DOMAIN c.repo.refs \ {i} /\ i # c.repo.head
      /\ \A x \in DOMAIN o.repo.refs : o.repo.refs[x] = c.repo.refs[x]
  BY <1>1, <1>3, DeleteBranchEffect
<1> QED
  BY <1>1, <1>3, <1>4, NamesApart DEF GoodRepo

LEMMA MergedEffect ==
  ASSUME NEW r, GoodRepo(r), NEW i \in Features, i \in DOMAIN r.refs, NEW o \in Merged(r, i)
  PROVE  /\ GoodRepo(o.repo) /\ o.ok \in BOOLEAN /\ o.repo.head \in {r.head, Default}
         /\ DOMAIN o.repo.refs = DOMAIN r.refs
         /\ ~o.ok => o.repo.refs = r.refs
         /\ o.ok => o.repo.refs[Default] = r.refs[Default] \cup r.refs[i]
         /\ \A b \in DOMAIN r.refs : b # Default => o.repo.refs[b] = r.refs[b]
<1>1. PICK c \in Checkout(r, Default) : o \in (IF c.ok THEN Merge(c.repo, i) ELSE {c})
  BY DEF Merged
<1>2. WellFormed(r, Changes)
  BY DEF GoodRepo
<1>3. /\ WellFormed(c.repo, Changes) /\ c.repo.refs = r.refs /\ c.ok \in BOOLEAN
      /\ c.ok => c.repo.head = Default
      /\ ~c.ok => c.repo = r
  BY <1>2, CheckoutEffect
<1>4. CASE ~c.ok
  BY <1>1, <1>3, <1>4 DEF GoodRepo
<1>5. CASE c.ok
  <2>1. o \in Merge(c.repo, i)
    BY <1>1, <1>5
  <2>2. /\ WellFormed(o.repo, Changes) /\ o.repo.head = c.repo.head
        /\ DOMAIN o.repo.refs = DOMAIN c.repo.refs
        /\ o.ok \in BOOLEAN /\ (~o.ok => o.repo = c.repo)
        /\ o.ok => o.repo.refs[c.repo.head] = c.repo.refs[c.repo.head] \cup c.repo.refs[i]
        /\ \A x \in DOMAIN c.repo.refs : x # c.repo.head => o.repo.refs[x] = c.repo.refs[x]
    BY <1>3, <2>1, MergeEffect
  <2> QED
    BY <1>3, <1>5, <2>2 DEF GoodRepo
<1> QED
  BY <1>3, <1>4, <1>5

-----------------------------------------------------------------------------
(* How Untouched is kept: what a branch may hold, a branch holds after a step that
   leaves the features undecided or decides them. *)

LEMMA Begins == Init => LoopInv
<1> SUFFICES ASSUME Init PROVE LoopInv
  OBVIOUS
<1>1. ASSUME NEW t \in Targets
      PROVE  \E b \in {Default, Wip} : repo[t] = FreshRepo(b)
  BY <1>1 DEF Init
<1>2. ASSUME NEW t \in Targets PROVE GoodRepo(repo[t])
  <2>1. PICK b \in {Default, Wip} : repo[t] = FreshRepo(b)
    BY <1>1
  <2> QED
    BY <2>1 DEF GoodRepo, WellFormed, FreshRepo, Branches, Changes
<1>3. LoopTypes
  BY <1>2, LoopBoundsAssumption DEF Init, LoopTypes, Phases
<1>4. TakenOnce /\ Verified
  BY DEF Init, TakenOnce, Verified, ShippedWasVerified
<1>5. ASSUME NEW t \in Targets PROVE TagApart(t) /\ RepoApart(t, repo[t])
  <2>1. PICK b \in {Default, Wip} : repo[t] = FreshRepo(b)
    BY <1>1
  <2>2. /\ DOMAIN repo[t].refs = {Default, Wip}
        /\ \A x \in DOMAIN repo[t].refs : repo[t].refs[x] = {<<x, 0>>}
    BY <2>1 DEF FreshRepo
  <2>3. /\ tag[t] = {} /\ before[t] = {} /\ cycle = 0
    BY DEF Init
  <2>4. ASSUME NEW x \in {Default, Wip} PROVE MayHold(t, x, {<<x, 0>>})
    BY NamesApart DEF MayHold, Items
  <2>5. ASSUME NEW x \in DOMAIN repo[t].refs PROVE MayHold(t, x, repo[t].refs[x])
    <3>1. x \in {Default, Wip} /\ repo[t].refs[x] = {<<x, 0>>}
      BY <2>2
    <3> QED
      BY <2>4, <3>1
  <2>6. TagApart(t)
    BY <2>3 DEF TagApart
  <2> QED
    BY <2>3, <2>5, <2>6 DEF RepoApart
<1> QED
  BY <1>3, <1>4, <1>5 DEF LoopInv, Untouched

(* Nothing that decides the features the other way, and no new cycle. *)
Settles ==
  /\ UNCHANGED <<tag, before, strayed, autoMerge, cycle>>
  /\ phase' # "decide"
  /\ \A i \in Features : Pending(i)' => Pending(i)

LEMMA MayHoldStays ==
  ASSUME Settles, NEW t, NEW b, NEW S, MayHold(t, b, S)
  PROVE  MayHold(t, b, S)'
BY DEF Settles, MayHold

LEMMA RepoApartStays ==
  ASSUME Settles, NEW t, NEW r, RepoApart(t, r)
  PROVE  RepoApart(t, r)'
BY MayHoldStays DEF Settles, RepoApart

LEMMA TagApartStays ==
  ASSUME Settles, NEW t, TagApart(t)
  PROVE  TagApart(t)'
BY DEF Settles, TagApart

(* Where no repository changes. *)
LEMMA UntouchedRests ==
  ASSUME Untouched, Settles, repo' = repo
  PROVE  Untouched'
<1> SUFFICES ASSUME NEW t \in Targets \ strayed' PROVE (TagApart(t) /\ RepoApart(t, repo[t]))'
  BY DEF Untouched
<1>1. TagApart(t) /\ RepoApart(t, repo[t])
  BY DEF Untouched, Settles
<1>2. PICK r : r = repo[t]
  OBVIOUS
<1>3. RepoApart(t, r)'
  BY <1>1, <1>2, RepoApartStays
<1>4. repo'[t] = r
  BY <1>2
<1> QED
  BY <1>1, <1>3, <1>4, TagApartStays

(* Where one changes. *)
LEMMA UntouchedMoves ==
  ASSUME LoopTypes, Untouched, Settles, NEW t \in Targets, NEW r,
         repo' = [repo EXCEPT ![t] = r],
         t \notin strayed => RepoApart(t, r)'
  PROVE  Untouched'
<1> SUFFICES ASSUME NEW u \in Targets \ strayed' PROVE (TagApart(u) /\ RepoApart(u, repo[u]))'
  BY DEF Untouched
<1>1. TagApart(u) /\ RepoApart(u, repo[u]) /\ u \notin strayed
  BY DEF Untouched, Settles
<1>2. CASE u = t
  <2>1. repo'[u] = r
    BY <1>2 DEF LoopTypes
  <2> QED
    BY <1>1, <1>2, <2>1, TagApartStays
<1>3. CASE u # t
  <2>1. PICK q : q = repo[u]
    OBVIOUS
  <2>2. RepoApart(u, q)'
    BY <1>1, <2>1, RepoApartStays
  <2>3. repo'[u] = q
    BY <1>3, <2>1 DEF LoopTypes
  <2> QED
    BY <1>1, <2>2, <2>3, TagApartStays
<1> QED
  BY <1>2, <1>3

-----------------------------------------------------------------------------
(* What each kind of change does to a repository that is apart. *)

(* Checkouts, new branches and deleted ones. *)
LEMMA ApartMoved ==
  ASSUME NEW t, NEW q, NEW r, GoodRepo(q), GoodRepo(r), RepoApart(t, q),
         r.head \in {q.head, Default} \cup Features,
         \A b \in DOMAIN r.refs :
           \/ b \in DOMAIN q.refs /\ r.refs[b] = q.refs[b]
           \/ b \in Features /\ r.refs[b] = q.refs[Default]
  PROVE  RepoApart(t, r)
<1>1. Default \in DOMAIN q.refs /\ Default \in DOMAIN r.refs
  BY DEF GoodRepo
<1>2. r.refs[Default] = q.refs[Default]
  BY <1>1, NamesApart
<1>3. cycle > 0 => r.head # Wip
  BY NamesApart DEF RepoApart
<1>4. ASSUME NEW b \in DOMAIN r.refs PROVE MayHold(t, b, r.refs[b])
  <2>1. CASE b \in DOMAIN q.refs /\ r.refs[b] = q.refs[b]
    BY <2>1 DEF RepoApart
  <2>2. CASE b \in Features /\ r.refs[b] = q.refs[Default]
    <3>1. MayHold(t, Default, q.refs[Default])
      BY <1>1 DEF RepoApart
    <3>2. MayHold(t, b, q.refs[Default])
      BY <2>2, <3>1, NamesApart DEF MayHold
    <3> QED
      BY <2>2, <3>2
  <2> QED
    BY <2>1, <2>2, <1>4
<1> QED
  BY <1>2, <1>3, <1>4 DEF RepoApart

LEMMA ApartReset ==
  ASSUME NEW t, NEW q, GoodRepo(q), RepoApart(t, q), TagApart(t), tag[t] \in SUBSET Changes,
         cycle \in Nat, NEW r \in ResetHard(q, tag[t])
  PROVE  GoodRepo(r) /\ RepoApart(t, r)
<1>2. WellFormed(q, Changes)
  BY DEF GoodRepo
<1>3. /\ WellFormed(r, Changes) /\ r.head = q.head /\ DOMAIN r.refs = DOMAIN q.refs
      /\ r.refs[q.head] = tag[t]
      /\ \A x \in DOMAIN q.refs : x # q.head => r.refs[x] = q.refs[x]
  BY <1>2, ResetEffect
<1>4. GoodRepo(r)
  BY <1>3 DEF GoodRepo
<1>5. ASSUME NEW b \in DOMAIN r.refs PROVE MayHold(t, b, r.refs[b])
  <2>1. MayHold(t, b, tag[t])
    BY DEF MayHold, TagApart
  <2> QED
    BY <1>3, <2>1 DEF RepoApart
<1>6. before[t] \subseteq r.refs[Default]
  BY <1>3 DEF RepoApart, TagApart, GoodRepo
<1> QED
  BY <1>3, <1>4, <1>5, <1>6 DEF RepoApart

(* What git reset --hard leaves, whether or not it works. *)
LEMMA ApartRolledBack ==
  ASSUME LoopTypes, Untouched, NEW t \in Targets, NEW r \in RolledBack(t)
  PROVE  GoodRepo(r) /\ (t \notin strayed => RepoApart(t, r))
<1>1. GoodRepo(repo[t]) /\ tag[t] \in SUBSET Changes /\ cycle \in Nat
  BY LoopBoundsAssumption DEF LoopTypes
<1>2. t \notin strayed => TagApart(t) /\ RepoApart(t, repo[t])
  BY DEF Untouched
<1>3. CASE r = repo[t]
  BY <1>1, <1>2, <1>3
<1>4. CASE r \in ResetHard(repo[t], tag[t])
  <2>1. /\ WellFormed(r, Changes) /\ DOMAIN r.refs = DOMAIN repo[t].refs
    BY <1>1, <1>4, ResetEffect DEF GoodRepo
  <2>2. t \notin strayed => RepoApart(t, r)
    BY <1>1, <1>2, <1>4, ApartReset
  <2> QED
    BY <1>1, <2>1, <2>2 DEF GoodRepo
<1> QED
  BY <1>3, <1>4 DEF RolledBack

LEMMA ApartAgent ==
  ASSUME LoopTypes, TakenOnce, NEW t \in Targets, NEW i \in Items, doing[t].item = i,
         NEW r \in AgentLeaves(t, i)
  PROVE  GoodRepo(r) /\ r.head = repo[t].head /\ (RepoApart(t, repo[t]) => RepoApart(t, r))
<1>1. doing[t] # NoItem
  BY NamesApart
<1>2. /\ phase \in {"fix", "build"} /\ cycle \in 1 .. MaxCycles
      /\ i \in Features => repo[t].head = i
  BY <1>1 DEF TakenOnce, LoopTypes
<1>3. /\ GoodRepo(r) /\ r.head = repo[t].head /\ DOMAIN r.refs = DOMAIN repo[t].refs
      /\ \A b \in DOMAIN r.refs :
           /\ repo[t].refs[b] \subseteq r.refs[b]
           /\ \A ch \in r.refs[b] : ch \in repo[t].refs[b] \/ (b = r.head /\ ch = Made(i))
  BY <1>2, AgentLeavesEffect DEF LoopTypes
<1>4. ASSUME RepoApart(t, repo[t]), NEW b \in DOMAIN r.refs PROVE MayHold(t, b, r.refs[b])
  <2>1. MayHold(t, b, repo[t].refs[b])
    BY <1>3, <1>4 DEF RepoApart
  <2>2. <<Wip, 0>> # Made(i)
    BY NamesApart DEF Made
  <2>3. ASSUME NEW j \in Features, NEW n \in Nat, <<j, n>> = Made(i), b = r.head
        PROVE  n = cycle /\ b = j
    BY <1>2, <1>3, <2>3 DEF Made
  <2> QED
    BY <1>2, <1>3, <2>1, <2>2, <2>3 DEF MayHold
<1> QED
  BY <1>3, <1>4 DEF RepoApart, GoodRepo

-----------------------------------------------------------------------------
(* The snapshot and the plan. *)

LEMMA SnapshotStep == LoopInv /\ Snapshot => LoopInv'
<1> SUFFICES ASSUME LoopInv, Snapshot PROVE LoopInv'
  OBVIOUS
<1> USE DEF LoopInv
<1>1. /\ phase = "snapshot" /\ phase' = "decide" /\ cycle \in Nat /\ cycle' = cycle + 1
      /\ cycle' \in 1 .. MaxCycles
      /\ UNCHANGED <<repo, plan, doing, toVisit, modified, failed, autoMerge, verified, shipped>>
  BY LoopBoundsAssumption DEF Snapshot, local, files, LoopTypes
<1>2. ASSUME NEW t \in Targets
      PROVE  /\ tag'[t] = Tip(repo[t]) /\ before'[t] = repo[t].refs[Default]
             /\ tag'[t] \in SUBSET Changes /\ before'[t] \in SUBSET Changes
  BY <1>2 DEF Snapshot, LoopTypes, GoodRepo, WellFormed, Tip
<1>3. LoopTypes'
  <2>1. tag' \in [Targets -> SUBSET Changes] /\ before' \in [Targets -> SUBSET Changes]
    BY <1>2 DEF Snapshot
  <2> QED
    BY <1>1, <2>1 DEF LoopTypes, Phases
<1>4. \A t \in Targets : doing[t] = NoItem
  BY <1>1 DEF TakenOnce
<1>5. TakenOnce'
  BY <1>1, <1>4 DEF TakenOnce
<1>6. Verified'
  BY <1>1 DEF Verified, ShippedWasVerified, Tree, Listed
<1>7. ASSUME NEW t \in Targets \ strayed' PROVE TagApart(t)' /\ RepoApart(t, repo[t])'
  <2>1. t \notin strayed /\ repo[t].head = Default
    BY <1>7 DEF Snapshot
  <2>2. RepoApart(t, repo[t]) /\ GoodRepo(repo[t])
    BY <2>1 DEF Untouched, LoopTypes
  <2>3. MayHold(t, Default, repo[t].refs[Default])
    BY <2>2 DEF RepoApart, GoodRepo
  <2>4. TagApart(t)'
    BY <1>1, <1>2, <2>1, <2>3, NamesApart DEF TagApart, MayHold, Tip
  <2>5. ASSUME NEW b \in DOMAIN repo[t].refs PROVE MayHold(t, b, repo[t].refs[b])'
    <3>1. MayHold(t, b, repo[t].refs[b])
      BY <2>2 DEF RepoApart
    <3> QED
      BY <1>1, <3>1 DEF MayHold
  <2>6. before'[t] \subseteq repo[t].refs[Default]
    BY <1>2
  <2> QED
    BY <1>1, <2>1, <2>4, <2>5, <2>6, NamesApart DEF RepoApart
<1> QED
  BY <1>3, <1>5, <1>6, <1>7 DEF Untouched

LEMMA DecideStep == LoopInv /\ Decide => LoopInv'
<1> SUFFICES ASSUME LoopInv, Decide PROVE LoopInv'
  OBVIOUS
<1> USE DEF LoopInv
<1>1. /\ phase = "decide" /\ phase' \in {"fix", "report"} /\ plan' \subseteq Items
      /\ UNCHANGED <<repo, tag, cycle, doing, toVisit, modified, failed, autoMerge, before,
                     strayed, verified, shipped>>
  BY DEF Decide, files, ghosts
<1>2. LoopTypes'
  BY <1>1 DEF LoopTypes, Phases
<1>3. failed = {} /\ cycle > 0 /\ \A t \in Targets : doing[t] = NoItem
  BY <1>1 DEF TakenOnce
<1>4. TakenOnce'
  BY <1>1, <1>3 DEF TakenOnce
<1>5. Verified'
  BY <1>1 DEF Verified, ShippedWasVerified, Tree, Listed
<1>6. ASSUME NEW t \in Targets \ strayed' PROVE TagApart(t)' /\ RepoApart(t, repo[t])'
  <2>1. TagApart(t) /\ RepoApart(t, repo[t])
    BY <1>1, <1>6 DEF Untouched
  <2>2. ASSUME NEW b \in DOMAIN repo[t].refs PROVE MayHold(t, b, repo[t].refs[b])'
    <3>1. MayHold(t, b, repo[t].refs[b])
      BY <2>1 DEF RepoApart
    <3> QED
      BY <1>1, <3>1 DEF MayHold, LoopTypes
  <2> QED
    BY <1>1, <2>1, <2>2 DEF TagApart, RepoApart
<1> QED
  BY <1>2, <1>4, <1>5, <1>6 DEF Untouched

-----------------------------------------------------------------------------
(* Items taken up and left. *)

LEMMA SkipStep ==
  ASSUME LoopInv, NEW t \in Targets, NEW i \in Items, Skip(t, i)
  PROVE  LoopInv'
<1> USE DEF LoopInv
<1>1. /\ phase \in {"fix", "build"} /\ plan' = plan \ {i} /\ phase' = phase
      /\ UNCHANGED <<repo, tag, cycle, doing, toVisit, modified, failed, autoMerge, before,
                     strayed, verified, shipped>>
  BY DEF Skip, files, ghosts
<1>2. LoopTypes' /\ TakenOnce'
  BY <1>1 DEF LoopTypes, TakenOnce
<1>3. Verified'
  BY <1>1 DEF Verified, ShippedWasVerified, Tree, Listed
<1>4. Settles
  BY <1>1 DEF Settles, Pending
<1> QED
  BY <1>1, <1>2, <1>3, <1>4, UntouchedRests

LEMMA StartFixStep ==
  ASSUME LoopInv, NEW t \in Targets, NEW i \in Items, StartFix(t, i)
  PROVE  LoopInv'
<1> USE DEF LoopInv
<1>1. /\ phase = "fix" /\ i \in Fixes /\ plan' = plan \ {i} /\ phase' = phase
      /\ TargetOf[i] = t /\ i \in plan /\ doing[t] = NoItem
      /\ doing' = [doing EXCEPT ![t] = [item |-> i, step |-> "agent"]]
      /\ UNCHANGED <<repo, tag, cycle, toVisit, modified, failed, autoMerge, before,
                     strayed, verified, shipped>>
  BY DEF StartFix, Turn, Takes, files, ghosts
<1>2. LoopTypes'
  BY <1>1 DEF LoopTypes
<1>3. \A u \in Targets : doing'[u] = IF u = t THEN [item |-> i, step |-> "agent"] ELSE doing[u]
  BY <1>1 DEF LoopTypes
<1>4. TakenOnce'
  BY <1>1, <1>3, NamesApart DEF TakenOnce
<1>5. Verified'
  BY <1>1 DEF Verified, ShippedWasVerified, Tree, Listed
<1>6. \A j \in Features : Pending(j)' => Pending(j)
  BY <1>1, <1>3, NamesApart, ItemsAssumption DEF Pending
<1>7. Settles
  BY <1>1, <1>6 DEF Settles
<1> QED
  BY <1>1, <1>2, <1>4, <1>5, <1>7, UntouchedRests

(* A job that is done with its item, whatever becomes of that. *)
Done(t, i) ==
  /\ doing[t].item = i /\ Leaves(t)
  /\ failed' \in {failed, failed \cup {i}}
  /\ modified' \in {modified, modified \cup {t}}
  /\ UNCHANGED <<tag, phase, cycle, plan, toVisit, files, stops, ghosts>>

LEMMA DoneSettles ==
  ASSUME LoopInv, NEW t \in Targets, NEW i \in Items, Done(t, i)
  PROVE  /\ doing[t] # NoItem /\ TargetOf[i] = t /\ cycle > 0
         /\ phase = IF i \in Fixes THEN "fix" ELSE "build"
         /\ i \in Features => repo[t].head = i
         /\ Settles /\ (i \notin failed' => ~Pending(i)')
<1> USE DEF LoopInv
<1>1. doing[t] # NoItem /\ doing[t].item = i
  BY NamesApart DEF Done
<1>2. /\ TargetOf[i] = t /\ i \notin plan \cup failed
      /\ phase = (IF i \in Fixes THEN "fix" ELSE "build") /\ cycle > 0
      /\ i \in Features => repo[t].head = i
  BY <1>1 DEF TakenOnce
<1>3. \A u \in Targets : doing'[u] = IF u = t THEN NoItem ELSE doing[u]
  BY DEF Done, Leaves, LoopTypes
<1>4. failed' \in {failed, failed \cup {i}} /\ plan' = plan
  BY DEF Done
<1>5. \A j \in Features : Pending(j)' => Pending(j)
  BY <1>1, <1>2, <1>3, <1>4, NamesApart, ItemsAssumption DEF Pending
<1>6. i \notin failed' => ~Pending(i)'
  BY <1>2, <1>3, <1>4, NamesApart DEF Pending
<1>7. Settles
  BY <1>2, <1>5 DEF Done, Settles, files, ghosts
<1> QED
  BY <1>1, <1>2, <1>6, <1>7

LEMMA DoneStep ==
  ASSUME LoopInv, NEW t \in Targets, NEW i \in Items, Done(t, i),
         NEW r, GoodRepo(r), repo' = [repo EXCEPT ![t] = r],
         t \notin strayed => RepoApart(t, r)'
  PROVE  LoopInv'
<1> USE DEF LoopInv
<1>1. /\ TargetOf[i] = t /\ doing[t] # NoItem /\ phase \in {"fix", "build"} /\ Settles
  BY DoneSettles
<1>2. \A u \in Targets : doing'[u] = IF u = t THEN NoItem ELSE doing[u]
  BY DEF Done, Leaves, LoopTypes
<1>3. \A u \in Targets : repo'[u] = IF u = t THEN r ELSE repo[u]
  BY DEF LoopTypes
<1>4. /\ failed' \in {failed, failed \cup {i}} /\ modified' \in {modified, modified \cup {t}}
      /\ doing[t].item = i
      /\ UNCHANGED <<tag, phase, cycle, plan, toVisit, before, verified, shipped>>
  BY DEF Done, ghosts
<1>5. LoopTypes'
  <2>1. repo' = [u \in Targets |-> repo'[u]] /\ \A u \in Targets : GoodRepo(repo'[u])
    BY <1>3 DEF LoopTypes
  <2>2. doing' \in [Targets -> {NoItem} \cup [item : Items, step : {"agent", "judge"}]]
    BY DEF Done, Leaves, LoopTypes
  <2>3. failed' \subseteq Items /\ modified' \subseteq Texts
    BY <1>4, NamesAssumption DEF LoopTypes
  <2> QED
    BY <1>4, <2>1, <2>2, <2>3 DEF LoopTypes
<1>6. TakenOnce'
  <2>1. i \notin plan
    BY <1>1, <1>4 DEF TakenOnce
  <2>2. ASSUME NEW u \in Targets, doing'[u] # NoItem
        PROVE  /\ u # t /\ doing'[u] = doing[u] /\ repo'[u] = repo[u]
               /\ TargetOf[doing[u].item] = u /\ doing[u].item # i
    BY <1>1, <1>2, <1>3, <2>2 DEF TakenOnce
  <2> QED
    BY <1>1, <1>4, <2>1, <2>2 DEF TakenOnce
<1>7. Verified'
  BY <1>1, <1>4 DEF Verified, ShippedWasVerified
<1> QED
  BY <1>1, <1>5, <1>6, <1>7, UntouchedMoves

LEMMA FixAgentFailsStep ==
  ASSUME LoopInv, NEW t \in Targets, NEW i \in Items, FixAgentFails(t, i)
  PROVE  LoopInv'
<1>1. PICK r \in AgentLeaves(t, i) : repo' = [repo EXCEPT ![t] = r]
  BY DEF FixAgentFails
<1>2. Done(t, i)
  BY DEF FixAgentFails, ReportsFail, Reports, Done
<1>3. GoodRepo(r) /\ (RepoApart(t, repo[t]) => RepoApart(t, r))
  BY <1>2, ApartAgent DEF LoopInv, Done
<1>4. t \notin strayed => RepoApart(t, r)'
  BY <1>2, <1>3, DoneSettles, RepoApartStays DEF LoopInv, Untouched
<1> QED
  BY <1>1, <1>2, <1>3, <1>4, DoneStep

LEMMA FixOkStep ==
  ASSUME LoopInv, NEW t \in Targets, NEW i \in Items, FixOk(t, i)
  PROVE  LoopInv'
<1>1. PICK r : r = repo[t]
  OBVIOUS
<1>2. GoodRepo(r) /\ repo' = [repo EXCEPT ![t] = r]
  BY <1>1 DEF FixOk, LoopInv, LoopTypes
<1>3. Done(t, i)
  BY DEF FixOk, ReportsModified, Reports, Done
<1>4. t \notin strayed => RepoApart(t, r)'
  BY <1>1, <1>3, DoneSettles, RepoApartStays DEF LoopInv, Untouched
<1> QED
  BY <1>2, <1>3, <1>4, DoneStep

LEMMA FixRolledBackStep ==
  ASSUME LoopInv, NEW t \in Targets, NEW i \in Items, FixRolledBack(t, i)
  PROVE  LoopInv'
<1>1. PICK r \in RolledBack(t) : repo' = [repo EXCEPT ![t] = r]
  BY DEF FixRolledBack
<1>2. Done(t, i)
  BY DEF FixRolledBack, ReportsRollback, Reports, Done
<1>3. GoodRepo(r) /\ (t \notin strayed => RepoApart(t, r))
  BY <1>1, ApartRolledBack DEF LoopInv
<1>4. t \notin strayed => RepoApart(t, r)'
  BY <1>2, <1>3, DoneSettles, RepoApartStays DEF LoopInv
<1> QED
  BY <1>1, <1>2, <1>3, <1>4, DoneStep

LEMMA FeatureParkedStep ==
  ASSUME LoopInv, NEW t \in Targets, NEW i \in Items, FeatureParked(t, i)
  PROVE  LoopInv'
<1>1. PICK o \in Checkout(repo[t], Default) : repo' = [repo EXCEPT ![t] = o.repo]
  BY DEF FeatureParked
<1>2. Done(t, i)
  BY DEF FeatureParked, ReportsNothing, Done
<1>3. GoodRepo(repo[t])
  BY DEF LoopInv, LoopTypes
<1>4. /\ WellFormed(o.repo, Changes) /\ o.repo.refs = repo[t].refs
      /\ o.repo.head \in {repo[t].head, Default}
  BY <1>1, <1>3, CheckoutEffect DEF GoodRepo
<1>5. GoodRepo(o.repo)
  BY <1>3, <1>4 DEF GoodRepo
<1>6. ASSUME t \notin strayed PROVE RepoApart(t, o.repo)'
  <2>1. RepoApart(t, repo[t])
    BY <1>6 DEF LoopInv, Untouched
  <2>2. RepoApart(t, o.repo)
    BY <1>3, <1>4, <1>5, <2>1, ApartMoved
  <2> QED
    BY <1>2, <2>2, DoneSettles, RepoApartStays
<1> QED
  BY <1>1, <1>2, <1>5, <1>6, DoneStep

LEMMA FeatureRolledBackStep ==
  ASSUME LoopInv, NEW t \in Targets, NEW i \in Items, FeatureRolledBack(t, i)
  PROVE  LoopInv'
<1>1. PICK r \in (IF doing[t].step = "agent" THEN AgentLeaves(t, i) ELSE {repo[t]}) :
        \E d \in Dropped(r, i) : repo' = [repo EXCEPT ![t] = d]
  BY DEF FeatureRolledBack
<1>2. PICK d \in Dropped(r, i) : repo' = [repo EXCEPT ![t] = d]
  BY <1>1
<1>3. Done(t, i) /\ i \in Features /\ doing[t].item = i
  BY DEF FeatureRolledBack, ReportsRollback, Reports, Done
<1>4. GoodRepo(r) /\ r.head = repo[t].head /\ (RepoApart(t, repo[t]) => RepoApart(t, r))
  <2>1. CASE doing[t].step = "agent"
    BY <1>1, <1>3, <2>1, ApartAgent DEF LoopInv
  <2>2. CASE doing[t].step # "agent"
    BY <1>1, <2>2 DEF LoopInv, LoopTypes
  <2> QED
    BY <2>1, <2>2
<1>5. /\ GoodRepo(d) /\ d.head \in {r.head, Default} /\ DOMAIN d.refs \subseteq DOMAIN r.refs
      /\ \A b \in DOMAIN d.refs : d.refs[b] = r.refs[b]
  BY <1>2, <1>3, <1>4, DroppedEffect
<1>6. ASSUME t \notin strayed PROVE RepoApart(t, d)'
  <2>1. RepoApart(t, r)
    BY <1>4, <1>6 DEF LoopInv, Untouched
  <2>2. RepoApart(t, d)
    BY <1>4, <1>5, <2>1, ApartMoved
  <2> QED
    BY <1>3, <2>2, DoneSettles, RepoApartStays
<1> QED
  BY <1>2, <1>3, <1>5, <1>6, DoneStep


(* The merge decides the feature: from then on any branch may hold it. *)
LEMMA ApartMerged ==
  ASSUME NEW t, NEW q, GoodRepo(q), RepoApart(t, q), Settles, t \in autoMerge,
         NEW i \in Features, i \in DOMAIN q.refs, ~Pending(i)',
         NEW o \in Merged(q, i), o.ok
  PROVE  RepoApart(t, o.repo)'
<1>1. /\ GoodRepo(o.repo) /\ o.repo.head \in {q.head, Default}
      /\ DOMAIN o.repo.refs = DOMAIN q.refs
      /\ o.repo.refs[Default] = q.refs[Default] \cup q.refs[i]
      /\ \A b \in DOMAIN q.refs : b # Default => o.repo.refs[b] = q.refs[b]
  BY MergedEffect
<1>2. MayHold(t, i, q.refs[i])' /\ MayHold(t, Default, q.refs[Default])'
  BY MayHoldStays DEF RepoApart, GoodRepo
<1>3. MayHold(t, Default, q.refs[Default] \cup q.refs[i])'
  <2>1. t \in autoMerge' /\ i # Wip
    BY NamesApart DEF Settles
  <2> QED
    BY <1>2, <2>1 DEF MayHold
<1>4. ASSUME NEW b \in DOMAIN q.refs, b # Default PROVE MayHold(t, b, q.refs[b])'
  BY <1>4, MayHoldStays DEF RepoApart
<1>5. before' = before /\ cycle' = cycle
  BY DEF Settles
<1>6. before'[t] \subseteq o.repo.refs[Default] /\ (cycle' > 0 => o.repo.head # Wip)
  BY <1>1, <1>5, NamesApart DEF RepoApart
<1>7. ASSUME NEW b \in DOMAIN o.repo.refs PROVE MayHold(t, b, o.repo.refs[b])'
  BY <1>1, <1>3, <1>4
<1> QED
  BY <1>6, <1>7 DEF RepoApart

LEMMA FeatureMergedStep ==
  ASSUME LoopInv, NEW t \in Targets, NEW i \in Items, FeatureMerged(t, i)
  PROVE  LoopInv'
<1>1. PICK o \in Merged(repo[t], i) :
        IF o.ok
        THEN /\ \E d \in DeleteBranch(o.repo, i) : repo' = [repo EXCEPT ![t] = d.repo]
             /\ ReportsModified(t, i)
        ELSE /\ \E r \in Dropped(o.repo, i) : repo' = [repo EXCEPT ![t] = r]
             /\ ReportsFail(t, i)
  BY DEF FeatureMerged
<1>2. Done(t, i) /\ i \in Features /\ t \in autoMerge
  BY <1>1 DEF FeatureMerged, ReportsModified, ReportsFail, Reports, Done
<1>3. GoodRepo(repo[t]) /\ i \in DOMAIN repo[t].refs
  BY <1>2, DoneSettles DEF LoopInv, LoopTypes, GoodRepo, WellFormed
<1>4. Settles /\ (i \notin failed' => ~Pending(i)')
  BY <1>2, DoneSettles
<1>5. /\ GoodRepo(o.repo) /\ o.ok \in BOOLEAN /\ o.repo.head \in {repo[t].head, Default}
      /\ DOMAIN o.repo.refs = DOMAIN repo[t].refs
      /\ ~o.ok => o.repo.refs = repo[t].refs
  BY <1>2, <1>3, MergedEffect
<1>6. t \notin strayed => RepoApart(t, repo[t])
  BY DEF LoopInv, Untouched
<1>7. CASE o.ok
  <2>1. PICK d \in DeleteBranch(o.repo, i) : repo' = [repo EXCEPT ![t] = d.repo]
    BY <1>1, <1>7
  <2>2. /\ WellFormed(d.repo, Changes) /\ d.repo.head = o.repo.head
        /\ d.ok \in BOOLEAN /\ (~d.ok => d.repo = o.repo)
        /\ d.ok => DOMAIN d.repo.refs = DOMAIN o.repo.refs \ {i}
        /\ \A x \in DOMAIN d.repo.refs : d.repo.refs[x] = o.repo.refs[x]
    BY <1>5, <2>1, DeleteBranchEffect DEF GoodRepo
  <2>3. GoodRepo(d.repo) /\ DOMAIN d.repo.refs \subseteq DOMAIN o.repo.refs
    BY <1>2, <1>5, <2>2, NamesApart DEF GoodRepo
  <2>4. doing[t] # NoItem /\ failed' = failed /\ doing[t].item = i
    BY <1>1, <1>2, <1>7, DoneSettles DEF ReportsModified, Reports, Done
  <2>5. i \notin failed'
    BY <2>4 DEF LoopInv, TakenOnce
  <2>6. ASSUME t \notin strayed PROVE RepoApart(t, d.repo)'
    <3>1. RepoApart(t, o.repo)'
      BY <1>2, <1>3, <1>4, <1>6, <1>7, <2>5, <2>6, ApartMerged
    <3> QED
      BY <2>2, <2>3, <3>1 DEF RepoApart, GoodRepo
  <2> QED
    BY <1>2, <2>1, <2>3, <2>6, DoneStep
<1>8. CASE ~o.ok
  <2>1. PICK d \in Dropped(o.repo, i) : repo' = [repo EXCEPT ![t] = d]
    BY <1>1, <1>8
  <2>2. /\ GoodRepo(d) /\ d.head \in {o.repo.head, Default}
        /\ DOMAIN d.refs \subseteq DOMAIN o.repo.refs
        /\ \A b \in DOMAIN d.refs : d.refs[b] = o.repo.refs[b]
    BY <1>2, <1>5, <2>1, DroppedEffect
  <2>3. ASSUME t \notin strayed PROVE RepoApart(t, d)'
    <3>1. RepoApart(t, d)
      BY <1>3, <1>5, <1>6, <1>8, <2>2, <2>3, ApartMoved
    <3> QED
      BY <1>4, <3>1, RepoApartStays
  <2> QED
    BY <1>2, <2>1, <2>2, <2>3, DoneStep
<1> QED
  BY <1>5, <1>7, <1>8

LEMMA AgentSucceedsStep ==
  ASSUME LoopInv, NEW t \in Targets, NEW i \in Items, AgentSucceeds(t, i)
  PROVE  LoopInv'
<1> USE DEF LoopInv
<1>1. PICK r \in AgentLeaves(t, i) : repo' = [repo EXCEPT ![t] = r]
  BY DEF AgentSucceeds
<1>2. /\ doing[t] = [item |-> i, step |-> "agent"] /\ doing[t].item = i /\ doing[t] # NoItem
      /\ doing' = [doing EXCEPT ![t].step = "judge"]
      /\ UNCHANGED <<tag, phase, cycle, plan, toVisit, modified, failed, autoMerge, before,
                     strayed, verified, shipped>>
  BY DEF AgentSucceeds, NoItem, files, ghosts
<1>3. GoodRepo(r) /\ r.head = repo[t].head /\ (RepoApart(t, repo[t]) => RepoApart(t, r))
  BY <1>1, <1>2, ApartAgent
<1>4. /\ doing'[t] = [item |-> i, step |-> "judge"]
      /\ \A u \in Targets : u # t => doing'[u] = doing[u]
      /\ doing' \in [Targets -> {NoItem} \cup [item : Items, step : {"agent", "judge"}]]
  BY <1>2 DEF LoopTypes
<1>5. \A u \in Targets : doing'[u].item = doing[u].item
  BY <1>2, <1>4
<1>6. \A u \in Targets : repo'[u] = IF u = t THEN r ELSE repo[u]
  BY <1>1 DEF LoopTypes
<1>7. LoopTypes'
  <2>1. repo' = [u \in Targets |-> repo'[u]] /\ \A u \in Targets : GoodRepo(repo'[u])
    BY <1>1, <1>3, <1>6 DEF LoopTypes
  <2> QED
    BY <1>2, <1>4, <2>1 DEF LoopTypes
<1>8. phase \in {"fix", "build"} /\ cycle > 0
  BY <1>2 DEF TakenOnce
<1>9. TakenOnce'
  <2>1. ASSUME NEW u \in Targets, doing'[u] # NoItem PROVE doing[u] # NoItem
    BY <1>2, <1>4, <2>1
  <2>2. \A u \in Targets : repo'[u].head = repo[u].head
    BY <1>3, <1>6
  <2> QED
    BY <1>2, <1>5, <1>8, <2>1, <2>2 DEF TakenOnce
<1>10. Verified'
  BY <1>2, <1>8 DEF Verified, ShippedWasVerified
<1>11. Settles
  <2>1. \A j \in Features : TargetOf[j] \in Targets
    BY ItemsAssumption DEF Items
  <2> QED
    BY <1>2, <1>5, <1>8, <2>1 DEF Settles, Pending
<1>12. t \notin strayed => RepoApart(t, r)'
  BY <1>3, <1>11, RepoApartStays DEF Untouched
<1> QED
  BY <1>1, <1>7, <1>9, <1>10, <1>11, <1>12, UntouchedMoves

LEMMA StartFeatureStep ==
  ASSUME LoopInv, NEW t \in Targets, NEW i \in Items, StartFeature(t, i)
  PROVE  LoopInv'
<1> USE DEF LoopInv
<1>1. PICK o \in OnNewBranch(repo[t], i) :
        /\ repo' = [repo EXCEPT ![t] = o.repo]
        /\ IF o.ok THEN Takes(t, i) /\ ReportsNothing
                   ELSE ReportsFail(t, i) /\ UNCHANGED doing
  BY DEF StartFeature
<1>2. /\ phase = "build" /\ i \in Features /\ doing[t] = NoItem /\ i \in plan /\ TargetOf[i] = t
      /\ plan' = plan \ {i}
      /\ UNCHANGED <<tag, phase, cycle, toVisit, autoMerge, before, strayed, verified, shipped>>
  BY DEF StartFeature, Turn, files, ghosts
<1>3. /\ GoodRepo(o.repo) /\ o.ok \in BOOLEAN /\ (o.ok => o.repo.head = i)
      /\ o.repo.head \in {repo[t].head, Default, i}
      /\ \A b \in DOMAIN repo[t].refs : b \in DOMAIN o.repo.refs /\ o.repo.refs[b] = repo[t].refs[b]
      /\ \A b \in DOMAIN o.repo.refs \ DOMAIN repo[t].refs :
           b = i /\ o.repo.refs[b] = repo[t].refs[Default]
  BY <1>2, OnNewBranchEffect DEF LoopTypes
<1>4. \/ /\ o.ok /\ failed' = failed
         /\ doing' = [doing EXCEPT ![t] = [item |-> i, step |-> "agent"]]
      \/ ~o.ok /\ failed' = failed \cup {i} /\ doing' = doing
  BY <1>1, <1>3 DEF Takes, ReportsNothing, ReportsFail, Reports
<1>5. modified' = modified
  BY <1>1, <1>3 DEF ReportsNothing, ReportsFail, Reports
<1>6. \A u \in Targets : repo'[u] = IF u = t THEN o.repo ELSE repo[u]
  BY <1>1 DEF LoopTypes
<1>7. \A u \in Targets : doing'[u] = doing[u] \/
        (u = t /\ o.ok /\ doing'[u] = [item |-> i, step |-> "agent"])
  BY <1>4 DEF LoopTypes
<1>8. LoopTypes'
  <2>1. repo' = [u \in Targets |-> repo'[u]] /\ \A u \in Targets : GoodRepo(repo'[u])
    BY <1>1, <1>3, <1>6 DEF LoopTypes
  <2>2. doing' \in [Targets -> {NoItem} \cup [item : Items, step : {"agent", "judge"}]]
    BY <1>4 DEF LoopTypes
  <2>3. plan' \subseteq Items /\ failed' \subseteq Items
    BY <1>2, <1>4 DEF LoopTypes
  <2> QED
    BY <1>2, <1>5, <2>1, <2>2, <2>3 DEF LoopTypes
<1>9. TakenOnce'
  <2>1. phase' # "snapshot" /\ cycle' > 0 /\ phase' \notin {"snapshot", "decide"}
    BY <1>2 DEF TakenOnce
  <2>2. plan' \cap failed' = {}
    BY <1>2, <1>4 DEF TakenOnce
  <2>3. ASSUME NEW u \in Targets, doing'[u] # NoItem
        PROVE  /\ phase' = IF doing'[u].item \in Fixes THEN "fix" ELSE "build"
               /\ TargetOf[doing'[u].item] = u
               /\ doing'[u].item \notin plan' \cup failed'
               /\ doing'[u].item \in Features => repo'[u].head = doing'[u].item
    <3>1. CASE doing'[u] = doing[u]
      <4>1. u # t /\ doing[u] # NoItem
        BY <1>2, <2>3, <3>1
      <4>2. doing[u].item # i
        BY <1>2, <4>1 DEF TakenOnce
      <4> QED
        BY <1>2, <1>4, <1>6, <3>1, <4>1, <4>2 DEF TakenOnce
    <3>2. CASE u = t /\ o.ok /\ doing'[u] = [item |-> i, step |-> "agent"]
      BY <1>2, <1>3, <1>4, <1>6, <3>2, NamesApart DEF TakenOnce
    <3> QED
      BY <1>7, <3>1, <3>2
  <2> QED
    BY <2>1, <2>2, <2>3 DEF TakenOnce
<1>10. Verified'
  BY <1>2 DEF Verified, ShippedWasVerified
<1>11. \A j \in Features : Pending(j)' => Pending(j)
  BY <1>2, <1>4, <1>7, NamesApart, ItemsAssumption DEF Pending
<1>12. Settles
  BY <1>2, <1>11 DEF Settles
<1>13. ASSUME t \notin strayed PROVE RepoApart(t, o.repo)'
  <2>1. GoodRepo(repo[t]) /\ RepoApart(t, repo[t])
    BY <1>13 DEF Untouched, LoopTypes
  <2>2. RepoApart(t, o.repo)
    BY <1>2, <1>3, <2>1, ApartMoved
  <2> QED
    BY <1>12, <2>2, RepoApartStays
<1> QED
  BY <1>1, <1>8, <1>9, <1>10, <1>12, <1>13, UntouchedMoves


-----------------------------------------------------------------------------
(* The loop from phase to phase. *)

LEMMA NobodyAtWork ==
  ASSUME LoopInv, phase \notin {"fix", "build"}
  PROVE  \A t \in Targets : doing[t] = NoItem
BY DEF LoopInv, TakenOnce

LEMMA EndFixStep == LoopInv /\ EndFix => LoopInv'
<1> SUFFICES ASSUME LoopInv, EndFix PROVE LoopInv'
  OBVIOUS
<1> USE DEF LoopInv
<1>1. /\ phase = "fix" /\ phase' = "build" /\ \A t \in Targets : doing[t] = NoItem
      /\ UNCHANGED <<repo, tag, cycle, plan, doing, toVisit, modified, failed, autoMerge, before,
                     strayed, verified, shipped>>
  BY DEF EndFix, JobsDone, local, files, ghosts
<1>2. LoopTypes' /\ TakenOnce'
  BY <1>1 DEF LoopTypes, Phases, TakenOnce
<1>3. Verified'
  BY <1>1 DEF Verified, ShippedWasVerified, Tree, Listed
<1>4. Settles
  BY <1>1 DEF Settles, Pending
<1> QED
  BY <1>1, <1>2, <1>3, <1>4, UntouchedRests

LEMMA EndBuildStep == LoopInv /\ EndBuild => LoopInv'
<1> SUFFICES ASSUME LoopInv, EndBuild PROVE LoopInv'
  OBVIOUS
<1> USE DEF LoopInv
<1>1. /\ phase = "build" /\ phase' = "verify" /\ \A t \in Targets : doing[t] = NoItem
      /\ toVisit' = Targets
      /\ UNCHANGED <<repo, tag, cycle, plan, doing, modified, failed, autoMerge, before,
                     strayed, verified, shipped>>
  BY DEF EndBuild, JobsDone, files, ghosts
<1>2. LoopTypes' /\ TakenOnce'
  BY <1>1 DEF LoopTypes, Phases, TakenOnce
<1>3. Verified'
  BY <1>1 DEF Verified, ShippedWasVerified, Tree
<1>4. Settles
  BY <1>1 DEF Settles, Pending
<1> QED
  BY <1>1, <1>2, <1>3, <1>4, UntouchedRests

LEMMA VerifySkipsStep ==
  ASSUME LoopInv, NEW t \in Targets, VerifySkips(t)
  PROVE  LoopInv'
<1> USE DEF LoopInv
<1>1. /\ phase = "verify" /\ phase' = "verify" /\ toVisit' = toVisit \ {t} /\ ~Listed(t)
      /\ UNCHANGED <<repo, tag, cycle, plan, doing, modified, failed, autoMerge, before,
                     strayed, verified, shipped>>
  BY DEF VerifySkips, Visits, files, ghosts
<1>2. LoopTypes' /\ TakenOnce'
  BY <1>1, NobodyAtWork DEF LoopTypes, TakenOnce
<1>3. Verified'
  <2>1. ASSUME NEW u \in Targets \ toVisit', Listed(u)' PROVE verified'[u] = Tree(u)'
    BY <1>1, <2>1 DEF Verified, Tree, Listed
  <2> QED
    BY <1>1, <2>1 DEF Verified, ShippedWasVerified
<1>4. Settles
  BY <1>1 DEF Settles, Pending
<1> QED
  BY <1>1, <1>2, <1>3, <1>4, UntouchedRests

LEMMA VerifyPassesStep ==
  ASSUME LoopInv, NEW t \in Targets, VerifyPasses(t)
  PROVE  LoopInv'
<1> USE DEF LoopInv
<1>1. /\ phase = "verify" /\ phase' = "verify" /\ toVisit' = toVisit \ {t}
      /\ verified' = [verified EXCEPT ![t] = Tree(t)]
      /\ UNCHANGED <<repo, tag, cycle, plan, doing, modified, failed, autoMerge, before,
                     strayed, shipped>>
  BY DEF VerifyPasses, Visits, files
<1>2. LoopTypes' /\ TakenOnce'
  BY <1>1, NobodyAtWork DEF LoopTypes, TakenOnce
<1>3. Verified'
  <2>1. \A u \in Targets : verified'[u] = IF u = t THEN Tree(t) ELSE verified[u]
    BY <1>1 DEF LoopTypes
  <2>2. ASSUME NEW u \in Targets \ toVisit', Listed(u)' PROVE verified'[u] = Tree(u)'
    BY <1>1, <2>1, <2>2 DEF Verified, Tree, Listed
  <2> QED
    BY <1>1, <2>2 DEF Verified, ShippedWasVerified
<1>4. Settles
  BY <1>1 DEF Settles, Pending
<1> QED
  BY <1>1, <1>2, <1>3, <1>4, UntouchedRests

LEMMA VerifyFailsStep ==
  ASSUME LoopInv, NEW t \in Targets, VerifyFails(t)
  PROVE  LoopInv'
<1> USE DEF LoopInv
<1>0. PICK r \in RolledBack(t) : repo' = [repo EXCEPT ![t] = r]
  BY DEF VerifyFails
<1>1. /\ phase = "verify" /\ phase' = "verify" /\ toVisit' = toVisit \ {t}
      /\ repo' = [repo EXCEPT ![t] = r] /\ modified' = Struck(t)
      /\ UNCHANGED <<tag, cycle, plan, doing, failed, autoMerge, before,
                     strayed, verified, shipped>>
  BY <1>0 DEF VerifyFails, Visits, files, ghosts
<1>2. \A u \in Targets : repo'[u] = IF u = t THEN r ELSE repo[u]
  BY <1>1 DEF LoopTypes
<1>3. GoodRepo(r) /\ (t \notin strayed => RepoApart(t, r))
  BY <1>0, ApartRolledBack
<1>4. \A x \in modified : Strike[<<t, x>>] \in Texts /\ NamesIn[Strike[<<t, x>>]] \subseteq NamesIn[x] \ {t}
  BY NamesAssumption DEF LoopTypes
<1>5. LoopTypes'
  <2>1. repo' = [u \in Targets |-> repo'[u]] /\ \A u \in Targets : GoodRepo(repo'[u])
    BY <1>1, <1>2, <1>3 DEF LoopTypes
  <2>2. modified' \subseteq Texts
    BY <1>1, <1>4 DEF Struck
  <2> QED
    BY <1>1, <2>1, <2>2 DEF LoopTypes
<1>6. TakenOnce'
  BY <1>1, NobodyAtWork DEF TakenOnce
<1>7. Verified'
  <2>1. ASSUME NEW u \in Targets \ toVisit', Listed(u)' PROVE verified'[u] = Tree(u)'
    <3>1. PICK x \in modified : u \in NamesIn[Strike[<<t, x>>]]
      BY <1>1, <2>1 DEF Listed, Struck
    <3>2. u # t /\ u \in Targets \ toVisit /\ Listed(u)
      BY <1>1, <1>4, <2>1, <3>1 DEF Listed
    <3> QED
      BY <1>1, <1>2, <3>2 DEF Verified, Tree
  <2>2. shipped' = {}
    BY <1>1 DEF Verified
  <2> QED
    BY <1>1, <2>1, <2>2 DEF Verified, ShippedWasVerified
<1>8. Settles
  BY <1>1 DEF Settles, Pending
<1>9. t \notin strayed => RepoApart(t, r)'
  BY <1>3, <1>8, RepoApartStays
<1> QED
  BY <1>1, <1>5, <1>6, <1>7, <1>8, <1>9, UntouchedMoves

LEMMA EndVerifyStep == LoopInv /\ EndVerify => LoopInv'
<1> SUFFICES ASSUME LoopInv, EndVerify PROVE LoopInv'
  OBVIOUS
<1> USE DEF LoopInv
<1>1. /\ phase = "verify" /\ phase' = "deploy" /\ toVisit = {} /\ toVisit' = Targets
      /\ UNCHANGED <<repo, tag, cycle, plan, doing, modified, failed, autoMerge, before,
                     strayed, verified, shipped>>
  BY DEF EndVerify, files, ghosts
<1>2. LoopTypes' /\ TakenOnce'
  BY <1>1, NobodyAtWork DEF LoopTypes, Phases, TakenOnce
<1>3. Verified'
  BY <1>1 DEF Verified, ShippedWasVerified, Tree, Listed
<1>4. Settles
  BY <1>1 DEF Settles, Pending
<1> QED
  BY <1>1, <1>2, <1>3, <1>4, UntouchedRests

LEMMA DeployStep ==
  ASSUME LoopInv, NEW t \in Targets, Deploy(t)
  PROVE  LoopInv'
<1> USE DEF LoopInv
<1>1. /\ phase = "deploy" /\ phase' = "deploy" /\ toVisit' = toVisit \ {t}
      /\ shipped' = shipped \/ (Listed(t) /\ shipped' = shipped \cup {t})
      /\ UNCHANGED <<repo, tag, cycle, plan, doing, modified, failed, autoMerge, before,
                     strayed, verified>>
  BY DEF Deploy, Visits, files
<1>2. LoopTypes' /\ TakenOnce'
  BY <1>1, NobodyAtWork DEF LoopTypes, TakenOnce
<1>3. Verified'
  BY <1>1 DEF Verified, ShippedWasVerified, Tree, Listed
<1>4. Settles
  BY <1>1 DEF Settles, Pending
<1> QED
  BY <1>1, <1>2, <1>3, <1>4, UntouchedRests

LEMMA EndDeployStep == LoopInv /\ EndDeploy => LoopInv'
<1> SUFFICES ASSUME LoopInv, EndDeploy PROVE LoopInv'
  OBVIOUS
<1> USE DEF LoopInv
<1>1. /\ phase = "deploy" /\ phase' = "report"
      /\ UNCHANGED <<repo, tag, cycle, plan, doing, toVisit, modified, failed, autoMerge, before,
                     strayed, verified, shipped>>
  BY DEF EndDeploy, local, files, ghosts
<1>2. LoopTypes' /\ TakenOnce'
  BY <1>1, NobodyAtWork DEF LoopTypes, Phases, TakenOnce
<1>3. Verified'
  BY <1>1 DEF Verified, ShippedWasVerified, Tree, Listed
<1>4. Settles
  BY <1>1 DEF Settles, Pending
<1> QED
  BY <1>1, <1>2, <1>3, <1>4, UntouchedRests

LEMMA ReportStep == LoopInv /\ Report => LoopInv'
<1> SUFFICES ASSUME LoopInv, Report PROVE LoopInv'
  OBVIOUS
<1> USE DEF LoopInv
<1>1. /\ phase = "report" /\ phase' = "rewrite"
      /\ UNCHANGED <<repo, tag, cycle, plan, doing, toVisit, modified, failed, autoMerge, before,
                     strayed, verified, shipped>>
  BY DEF Report, local, ghosts
<1>2. LoopTypes' /\ TakenOnce'
  BY <1>1, NobodyAtWork DEF LoopTypes, Phases, TakenOnce
<1>3. Verified'
  BY <1>1 DEF Verified, ShippedWasVerified, Tree, Listed
<1>4. Settles
  BY <1>1 DEF Settles, Pending
<1> QED
  BY <1>1, <1>2, <1>3, <1>4, UntouchedRests

(* A cycle that is over, or cut short. *)
LEMMA ForgetStep ==
  ASSUME LoopInv, Forget, phase' = "snapshot",
         UNCHANGED <<repo, tag, cycle, autoMerge, before, strayed>>
  PROVE  LoopInv'
<1> USE DEF LoopInv
<1>1. \A t \in Targets : doing'[t] = NoItem
  BY DEF Forget
<1>2. LoopTypes' /\ TakenOnce'
  BY <1>1 DEF LoopTypes, Phases, TakenOnce, Forget
<1>3. Verified'
  BY DEF Verified, ShippedWasVerified, Forget
<1>4. \A i \in Features : ~Pending(i)'
  BY <1>1, NamesApart, ItemsAssumption DEF Pending, Forget
<1>5. Settles
  BY <1>4 DEF Settles
<1> QED
  BY <1>2, <1>3, <1>5, UntouchedRests

LEMMA CleanUpStep ==
  ASSUME LoopInv, NEW t \in Targets, CleanUp(t)
  PROVE  LoopInv'
<1> USE DEF LoopInv
<1>0. PICK r : r = Cleaned(repo[t])
  OBVIOUS
<1>1. /\ phase = "snapshot" /\ phase' = "snapshot" /\ repo' = [repo EXCEPT ![t] = r]
      /\ UNCHANGED <<tag, cycle, plan, doing, toVisit, modified, failed, autoMerge, before,
                     strayed, verified, shipped>>
  BY <1>0 DEF CleanUp, local, files, ghosts
<1>2. GoodRepo(repo[t])
  BY DEF LoopTypes
<1>3. WellFormed(r, Changes) /\ r.refs = repo[t].refs /\ r.head = repo[t].head
  BY <1>0, <1>2, EditEffect DEF GoodRepo
<1>4. LoopTypes'
  <2>1. GoodRepo(r)
    BY <1>2, <1>3 DEF GoodRepo
  <2>2. repo' = [u \in Targets |-> repo'[u]] /\ \A u \in Targets : GoodRepo(repo'[u])
    BY <1>1, <2>1 DEF LoopTypes
  <2> QED
    BY <1>1, <2>2 DEF LoopTypes
<1>5. TakenOnce'
  BY <1>1, NobodyAtWork DEF TakenOnce
<1>6. Verified'
  BY <1>1 DEF Verified, ShippedWasVerified
<1>7. Settles
  BY <1>1 DEF Settles, Pending
<1>8. ASSUME t \notin strayed PROVE RepoApart(t, r)'
  <2>1. RepoApart(t, r)
    BY <1>3, <1>8 DEF Untouched, RepoApart
  <2> QED
    BY <1>7, <2>1, RepoApartStays
<1> QED
  BY <1>1, <1>4, <1>5, <1>6, <1>7, <1>8, UntouchedMoves

LEMMA ClearStep ==
  ASSUME LoopInv, NEW t \in Targets, Clear(t)
  PROVE  LoopInv'
<1> USE DEF LoopInv
<1>1. /\ phase = "snapshot" /\ phase' = "snapshot"
      /\ UNCHANGED <<repo, tag, cycle, plan, doing, toVisit, modified, failed, autoMerge, before,
                     strayed, verified, shipped>>
  BY DEF Clear, local, ghosts
<1>2. LoopTypes' /\ TakenOnce'
  BY <1>1 DEF LoopTypes, TakenOnce
<1>3. Verified'
  BY <1>1 DEF Verified, ShippedWasVerified, Tree, Listed
<1>4. Settles
  BY <1>1 DEF Settles, Pending
<1> QED
  BY <1>1, <1>2, <1>3, <1>4, UntouchedRests

-----------------------------------------------------------------------------
(* The invariant is inductive, and what it gives. *)

LEMMA StandsStill == LoopInv /\ UNCHANGED vars => LoopInv'
<1> SUFFICES ASSUME LoopInv, UNCHANGED vars PROVE LoopInv'
  OBVIOUS
<1> USE DEF LoopInv
<1>1. UNCHANGED <<repo, tag, phase, cycle, plan, doing, toVisit, modified, failed, autoMerge,
                  before, strayed, verified, shipped>>
  BY DEF vars, local, files, ghosts
<1>2. LoopTypes' /\ TakenOnce'
  BY <1>1 DEF LoopTypes, TakenOnce
<1>3. Verified'
  BY <1>1 DEF Verified, ShippedWasVerified, Tree, Listed
<1>4. Untouched'
  BY <1>1 DEF Untouched, TagApart, RepoApart, MayHold, Pending
<1> QED
  BY <1>2, <1>3, <1>4

(* One step of scripts/overnight.sh, of any of its jobs, of an operator, or none. *)
LEMMA EveryStep == LoopInv /\ [Next]_vars => LoopInv'
<1> SUFFICES ASSUME LoopInv, [Next]_vars PROVE LoopInv'
  OBVIOUS
<1>1. CASE Loop
  <2>1. CASE FillHistory
    BY <2>1, ForgetStep DEF FillHistory
  <2> QED
    BY <1>1, <2>1, SnapshotStep, DecideStep, EndFixStep, EndBuildStep, EndVerifyStep,
       EndDeployStep, ReportStep DEF Loop
<1>2. ASSUME NEW t \in Targets, NEW i \in Items, Job(t, i) PROVE LoopInv'
  BY <1>2, SkipStep, StartFixStep, FixAgentFailsStep, AgentSucceedsStep, FixOkStep,
     FixRolledBackStep, StartFeatureStep, FeatureMergedStep, FeatureParkedStep,
     FeatureRolledBackStep DEF Job
<1>3. ASSUME NEW t \in Targets, VerifySkips(t) \/ VerifyPasses(t) \/ VerifyFails(t) \/ Deploy(t)
      PROVE  LoopInv'
  BY <1>3, VerifySkipsStep, VerifyPassesStep, VerifyFailsStep, DeployStep
<1>4. CASE Stop
  BY <1>4, ForgetStep DEF Stop
<1>5. ASSUME NEW t \in Targets, CleanUp(t) \/ Clear(t) PROVE LoopInv'
  BY <1>5, CleanUpStep, ClearStep
<1>6. CASE UNCHANGED vars
  BY <1>6, StandsStill
<1> QED
  BY <1>1, <1>2, <1>3, <1>4, <1>5, <1>6 DEF Next

(* The invariant of the overnight loop holds in every state of every run of it,
   stops and kills of scripts/overnight.sh included. *)
THEOREM LoopInductive == Spec => []LoopInv
<1>1. LoopInv /\ [Next]_vars => LoopInv'
  BY EveryStep
<1> QED
  BY Begins, <1>1, PTL DEF Spec

(* Of the targets whose snapshots were, in every cycle so far, taken with the default
   branch checked out: no rollback, of a fix, of a feature or after VERIFY, costs that
   branch a commit it had at the snapshot of the cycle.  Of the others nothing is said:
   a tag on another branch does cost it commits. *)
THEOREM DefaultIsKept == Spec => []DefaultKeepsCommits
<1>1. LoopInv => DefaultKeepsCommits
  BY DEF LoopInv, Untouched, RepoApart, DefaultKeepsCommits
<1> QED
  BY LoopInductive, <1>1, PTL

(* Of the same targets only: the default branch never gets somebody's work in progress,
   a feature its policy does not let the loop merge, or one that failed in this cycle. *)
THEOREM FeaturesStayGated == Spec => []FeaturesGated
<1>1. ASSUME LoopInv PROVE FeaturesGated
  <2>1. ASSUME NEW t \in Targets \ strayed
        PROVE  MayHold(t, Default, repo[t].refs[Default])
    BY <1>1 DEF LoopInv, LoopTypes, Untouched, RepoApart, GoodRepo
  <2> QED
    BY <2>1, NamesApart DEF FeaturesGated, MayHold, Pending
<1> QED
  BY LoopInductive, <1>1, PTL

(* What is deployed is what the tests of VERIFY passed on in the same cycle, and
   nothing has touched its repository between the two. *)
THEOREM ShippedIsVerified == Spec => []ShippedWasVerified
<1>1. LoopInv => ShippedWasVerified
  BY DEF LoopInv, Verified
<1> QED
  BY LoopInductive, <1>1, PTL

-----------------------------------------------------------------------------
(* What the loop remembers. *)

(* The last cycle that may have been reported. *)
CyclesDone == IF phase = "snapshot" THEN cycle ELSE cycle - 1

HistoryReports == [failed : SUBSET Items, rolledBack : SUBSET Targets]

MemoryTypes ==
  /\ rolled \subseteq Targets
  /\ lastFail \in [Items -> Nat] /\ streak \in [Targets -> 0 .. QuarantineThreshold]
  /\ due \in [Targets -> Nat]

(* A failure is in history h, as far from its end as there were cycles since, or they
   were as many as it is remembered for. *)
InWindow(h, i, since) == \E p \in 1 .. Len(h) : i \in h[p].failed /\ Len(h) - p <= since

FailuresAreIn(h) ==
  \A i \in Items : lastFail[i] # 0 =>
    /\ lastFail[i] <= CyclesDone
    /\ CyclesDone - lastFail[i] >= FailureWindow \/ InWindow(h, i, CyclesDone - lastFail[i])

(* The last n reports of h rolled t back. *)
RolledLast(h, t, n) == n <= Len(h) /\ \A p \in Len(h) - n + 1 .. Len(h) : t \in h[p].rolledBack

(* Those from f to the threshold did, and they stay for n reports more. *)
StreakFrom(h, t, f, n) ==
  /\ f + QuarantineThreshold <= Len(h) + 1 /\ n + Len(h) <= f + HistoryKeep
  /\ \A p \in f .. f + QuarantineThreshold - 1 : t \in h[p].rolledBack

StreaksAreIn(h) ==
  \A t \in Targets :
    /\ streak[t] <= HistoryKeep => RolledLast(h, t, streak[t])
    /\ due[t] > 0 => \E f \in 1 .. Len(h) : StreakFrom(h, t, f, due[t])

Remembers(h) ==
  /\ h \in Seq(HistoryReports) /\ Len(h) <= HistoryKeep
  /\ FailuresAreIn(h) /\ StreaksAreIn(h)

(* While the file is rewritten, what is remembered is in memory only. *)
Drafted(h) == Remembers(h) /\ draft = Remember(h, [failed |-> failed, rolledBack |-> rolled])

MemoryInv ==
  /\ MemoryTypes
  /\ IF phase = "rewrite" THEN history = << >> /\ \E h : Drafted(h) ELSE Remembers(history)
  /\ RetryWaits /\ QuarantineLasts

(* k reports are older than the last n. *)
Older(h, n, k) == (Len(h) > n /\ k = Len(h) - n) \/ (Len(h) <= n /\ k = 0)

LEMMA LastOfHistory ==
  ASSUME NEW S, NEW h \in Seq(S), NEW n \in Nat,
         NEW k \in Nat, Older(h, n, k)
  PROVE  /\ LastOf(h, n) \in Seq(S) /\ Len(LastOf(h, n)) = Len(h) - k
         /\ \A p \in 1 .. Len(h) - k : LastOf(h, n)[p] = h[p + k]
<1>1. LastOf(h, n) = SubSeq(h, 1 + k, Len(h))
  <2>1. CASE Len(h) > n /\ k = Len(h) - n
    <3>1. (IF Len(h) > n THEN Len(h) - n ELSE 0) = k
      BY <2>1
    <3> QED
      BY <3>1, Zenon DEF LastOf
  <2>2. CASE Len(h) <= n /\ k = 0
    <3>1. (IF Len(h) > n THEN Len(h) - n ELSE 0) = k
      BY <2>2
    <3> QED
      BY <3>1, Zenon DEF LastOf
  <2> QED
    BY <2>1, <2>2 DEF Older
<1>2. k <= Len(h) /\ Len(h) \in Nat /\ 1 + k \in 1 .. Len(h) + 1
  BY DEF Older
<1>3. PICK m, l : m = 1 + k /\ l = Len(h)
  OBVIOUS
<1>4. m \in 1 .. l + 1 /\ l \in Nat /\ l - m + 1 = Len(h) - k
  BY <1>2, <1>3
<1>5. /\ SubSeq(h, m, l) \in Seq(S) /\ Len(SubSeq(h, m, l)) = l - m + 1
      /\ \A p \in 1 .. l - m + 1 : SubSeq(h, m, l)[p] = h[m + p - 1]
  <2>1. m \in Int /\ l \in Int /\ \A i \in m .. l : h[i] \in S
    BY <1>2, <1>3, <1>4
  <2>2. /\ SubSeq(h, m, l) \in Seq(S) /\ Len(SubSeq(h, m, l)) = (IF m <= l THEN l - m + 1 ELSE 0)
        /\ \A p \in 1 .. l - m + 1 : SubSeq(h, m, l)[p] = h[m + p - 1]
    BY <2>1, SubSeqProperties
  <2>3. (IF m <= l THEN l - m + 1 ELSE 0) = l - m + 1
    BY <1>4
  <2> QED
    BY <2>2, <2>3
<1>6. \A p \in 1 .. Len(h) - k : m + p - 1 = p + k
  BY <1>2, <1>3
<1> QED
  BY <1>1, <1>2, <1>3, <1>4, <1>5, <1>6

LEMMA RecentIsInWindow ==
  ASSUME NEW h \in Seq(HistoryReports), NEW i, NEW since \in Nat, since < FailureWindow, InWindow(h, i, since)
  PROVE  RecentlyFailed(h, i)
<1>1. PICK p \in 1 .. Len(h) : i \in h[p].failed /\ Len(h) - p <= since
  BY DEF InWindow
<1>2. FailureWindow \in Nat
  BY HistoryAssumption
<1>3. PICK k \in Nat : Older(h, FailureWindow, k)
  <2>1. Len(h) \in Nat
    OBVIOUS
  <2>2. Len(h) > FailureWindow => Len(h) - FailureWindow \in Nat
    BY <1>2, <2>1
  <2> QED
    BY <1>2, <2>1, <2>2 DEF Older
<1>4. PICK last : last = LastOf(h, FailureWindow)
  OBVIOUS
<1>5. /\ last \in Seq(HistoryReports) /\ Len(last) = Len(h) - k
      /\ \A q \in 1 .. Len(h) - k : last[q] = h[q + k]
  BY <1>2, <1>3, <1>4, LastOfHistory
<1>6. p - k \in 1 .. Len(h) - k /\ (p - k) + k = p
  <2>1. Len(h) \in Nat /\ p \in 1 .. Len(h)
    BY <1>1
  <2>2. k <= Len(h) - FailureWindow \/ k = 0
    BY <1>2, <1>3, <2>1 DEF Older
  <2> QED
    BY <1>1, <1>2, <1>3, <2>1, <2>2
<1>7. p - k \in DOMAIN last /\ i \in last[p - k].failed
  BY <1>1, <1>5, <1>6
<1> QED
  BY <1>4, <1>7 DEF RecentlyFailed, ToSet

LEMMA RememberKeeps ==
  ASSUME NEW h \in Seq(HistoryReports), NEW r \in HistoryReports, Len(h) <= HistoryKeep
  PROVE  LET after == Remember(h, r) IN
         /\ after \in Seq(HistoryReports) /\ Len(after) <= HistoryKeep
         /\ \E k \in {0, 1} :
              /\ k = 1 => Len(h) = HistoryKeep
              /\ Len(after) = Len(h) + 1 - k
              /\ \A p \in 1 .. Len(h) : p - k >= 1 => after[p - k] = h[p]
         /\ HistoryKeep > 0 => Len(after) > 0 /\ after[Len(after)] = r
         /\ \A i : i \in r.failed /\ HistoryKeep > 0 => InWindow(after, i, 0)
         /\ \A i, n : n \in Nat /\ n + 1 < HistoryKeep /\ InWindow(h, i, n) => InWindow(after, i, n + 1)
<1>1. PICK g : g = Append(h, r)
  OBVIOUS
<1>2. /\ g \in Seq(HistoryReports) /\ Len(g) = Len(h) + 1 /\ g[Len(h) + 1] = r
      /\ \A p \in 1 .. Len(h) : g[p] = h[p]
  BY <1>1
<1>3. HistoryKeep \in Nat
  BY HistoryAssumption
<1>4. PICK k \in Nat : Older(g, HistoryKeep, k)
  <2>1. Len(g) \in Nat
    BY <1>2
  <2>2. CASE Len(g) > HistoryKeep
    <3>0. Len(g) - HistoryKeep \in Nat
      BY <1>3, <2>1, <2>2
    <3>1. PICK k \in Nat : k = Len(g) - HistoryKeep
      BY <3>0, Zenon
    <3> QED
      BY <2>2, <3>1, Zenon DEF Older
  <2>3. CASE Len(g) <= HistoryKeep
    <3>1. PICK k \in Nat : k = 0
      OBVIOUS
    <3> QED
      BY <2>3, <3>1, Zenon DEF Older
  <2> QED
    BY <1>3, <2>1, <2>2, <2>3
<1>5. PICK after : after = Remember(h, r)
  OBVIOUS
<1>6. /\ after \in Seq(HistoryReports) /\ Len(after) = Len(g) - k
      /\ \A p \in 1 .. Len(g) - k : after[p] = g[p + k]
  <2>1. after = LastOf(g, HistoryKeep)
    BY <1>1, <1>5, Zenon DEF Remember
  <2>2. PICK S : S = HistoryReports
    OBVIOUS
  <2>3. g \in Seq(S)
    BY <1>2, <2>2
  <2>4. /\ LastOf(g, HistoryKeep) \in Seq(S) /\ Len(LastOf(g, HistoryKeep)) = Len(g) - k
        /\ \A p \in 1 .. Len(g) - k : LastOf(g, HistoryKeep)[p] = g[p + k]
    BY <1>3, <1>4, <2>3, LastOfHistory
  <2> QED
    BY <2>1, <2>2, <2>4
<1>7. /\ k \in {0, 1} /\ (k = 1 => Len(h) = HistoryKeep) /\ Len(after) = Len(h) + 1 - k
      /\ Len(after) <= HistoryKeep /\ Len(h) \in Nat
  <2>1. Len(h) \in Nat /\ Len(g) = Len(h) + 1
    BY <1>2
  <2>2. k \in {0, 1} /\ (k = 1 => Len(h) = HistoryKeep) /\ Len(g) - k <= HistoryKeep
    BY <1>3, <1>4, <2>1 DEF Older
  <2> QED
    BY <1>6, <2>1, <2>2
<1>8. ASSUME HistoryKeep > 0
      PROVE  Len(after) > 0 /\ after[Len(after)] = r
  <2>1. Len(g) - k \in 1 .. Len(g) - k /\ (Len(g) - k) + k = Len(h) + 1
    BY <1>2, <1>3, <1>4, <1>8 DEF Older
  <2> QED
    BY <1>2, <1>6, <1>7, <2>1
<1>9. ASSUME NEW i, NEW n \in Nat, n + 1 < HistoryKeep, InWindow(h, i, n) PROVE InWindow(after, i, n + 1)
  <2>1. PICK p \in 1 .. Len(h) : i \in h[p].failed /\ Len(h) - p <= n
    BY <1>9 DEF InWindow
  <2>2. PICK q : q = p - k
    OBVIOUS
  <2>3. q \in 1 .. Len(g) - k /\ q + k = p
    BY <1>2, <1>3, <1>4, <1>9, <2>1, <2>2 DEF Older
  <2>4. after[q] = h[p] /\ q \in 1 .. Len(after) /\ Len(after) - q <= n + 1
    <3>1. after[q] = g[p] /\ g[p] = h[p]
      BY <1>2, <1>6, <2>1, <2>3
    <3>2. q = p - k /\ Len(after) = Len(h) + 1 - k /\ Len(h) \in Nat
      BY <1>2, <1>6, <2>2
    <3> QED
      BY <1>6, <2>1, <2>3, <3>1, <3>2
  <2> QED
    BY <2>1, <2>4 DEF InWindow
<1>10. ASSUME NEW p \in 1 .. Len(h), p - k >= 1 PROVE after[p - k] = h[p]
  <2>1. p - k \in 1 .. Len(g) - k /\ (p - k) + k = p
    BY <1>2, <1>7, <1>10
  <2> QED
    BY <1>2, <1>6, <2>1
<1>11. ASSUME NEW i, i \in r.failed, HistoryKeep > 0 PROVE InWindow(after, i, 0)
  <2>1. Len(after) \in 1 .. Len(after) /\ Len(after) - Len(after) <= 0
    BY <1>7, <1>8, <1>11
  <2> QED
    BY <1>8, <1>11, <2>1 DEF InWindow
<1>12. \E x \in {0, 1} : /\ x = 1 => Len(h) = HistoryKeep
                         /\ Len(after) = Len(h) + 1 - x
                         /\ \A p \in 1 .. Len(h) : p - x >= 1 => after[p - x] = h[p]
  BY <1>7, <1>10
<1> QED
  BY <1>5, <1>6, <1>7, <1>8, <1>9, <1>11, <1>12

LEMMA MemoryBegins == Init => MemoryInv
<1> SUFFICES ASSUME Init PROVE MemoryInv
  OBVIOUS
<1>1. /\ history = <<>> /\ rolled = {} /\ lastFail = [i \in Items |-> 0]
      /\ streak = [t \in Targets |-> 0] /\ due = [t \in Targets |-> 0]
      /\ phase = "snapshot" /\ \A t \in Targets : doing[t] = NoItem
  BY DEF Init
<1>2. MemoryTypes
  BY <1>1, HistoryAssumption DEF MemoryTypes
<1>3. Remembers(history)
  <2>1. history \in Seq(HistoryReports) /\ Len(history) = 0 /\ HistoryKeep \in Nat
    BY <1>1, HistoryAssumption
  <2> QED
    BY <1>1, <2>1 DEF Remembers, FailuresAreIn, StreaksAreIn, RolledLast
<1> QED
  BY <1>1, <1>2, <1>3 DEF MemoryInv, RetryWaits, QuarantineLasts

(* A step that reports nothing and takes up no item. *)
LEMMA MemoryRests ==
  ASSUME MemoryInv, LoopTypes, LoopTypes', phase # "rewrite", phase' # "rewrite",
         UNCHANGED <<history, lastFail, streak, due>>, rolled' \subseteq Targets,
         cleared \subseteq cleared', CyclesDone' \in {CyclesDone, CyclesDone + 1},
         \A t \in Targets : doing'[t] # NoItem =>
           doing[t] # NoItem /\ doing'[t].item = doing[t].item /\ cycle' = cycle
  PROVE  MemoryInv'
<1>1. /\ cycle \in Nat /\ cycle' \in Nat /\ CyclesDone \in Int /\ CyclesDone' \in Int /\ CyclesDone <= CyclesDone'
      /\ HistoryKeep \in Nat /\ FailureWindow \in Nat
  BY HistoryAssumption, LoopBoundsAssumption DEF LoopTypes, CyclesDone
<1>2. MemoryTypes' /\ Remembers(history)
  BY DEF MemoryInv, MemoryTypes
<1>3. FailuresAreIn(history)'
  <2>1. ASSUME NEW i \in Items, lastFail[i] # 0
        PROVE  /\ lastFail[i] <= CyclesDone'
               /\ CyclesDone' - lastFail[i] >= FailureWindow \/ InWindow(history, i, CyclesDone' - lastFail[i])
    <3>1. /\ lastFail[i] \in Nat /\ lastFail[i] <= CyclesDone
          /\ CyclesDone - lastFail[i] >= FailureWindow \/ InWindow(history, i, CyclesDone - lastFail[i])
      BY <1>2, <2>1 DEF MemoryInv, MemoryTypes, Remembers, FailuresAreIn
    <3>2. Len(history) \in Nat
      BY <1>2 DEF Remembers
    <3> QED
      BY <1>1, <3>1, <3>2 DEF InWindow
  <2> QED
    BY <2>1 DEF FailuresAreIn, InWindow
<1>4. StreaksAreIn(history)'
  BY <1>2 DEF Remembers, StreaksAreIn, RolledLast, StreakFrom
<1>5. RetryWaits'
  BY DEF MemoryInv, RetryWaits
<1>6. QuarantineLasts'
  BY DEF MemoryInv, QuarantineLasts
<1> QED
  BY <1>2, <1>3, <1>4, <1>5, <1>6 DEF MemoryInv, Remembers

(* An item is taken up: it did not fail lately, and its target is not flagged. *)
LEMMA MemoryTakes ==
  ASSUME MemoryInv, LoopTypes, NEW t \in Targets, NEW i \in Items, ~Barred(t, i), phase \in {"fix", "build"},
         doing' = [doing EXCEPT ![t] = [item |-> i, step |-> "agent"]],
         UNCHANGED <<history, lastFail, streak, due, cleared, phase, cycle>>, rolled' \subseteq Targets
  PROVE  MemoryInv'
<1>1. /\ cycle \in Nat /\ CyclesDone = cycle - 1 /\ CyclesDone' = CyclesDone /\ HistoryKeep \in Nat /\ FailureWindow \in Nat
      /\ QuarantineThreshold \in Nat \ {0}
  BY HistoryAssumption, LoopBoundsAssumption DEF LoopTypes, CyclesDone
<1>2. MemoryTypes' /\ Remembers(history)
  BY DEF MemoryInv, MemoryTypes
<1>3. Remembers(history)'
  BY <1>1, <1>2 DEF Remembers, FailuresAreIn, StreaksAreIn, InWindow, RolledLast, StreakFrom
<1>4. /\ doing'[t].item = i /\ \A u \in Targets : u # t => doing'[u] = doing[u]
  BY DEF LoopTypes
<1>5. lastFail[i] = 0 \/ cycle > lastFail[i] + FailureWindow
  <2>1. ~RecentlyFailed(history, i) /\ history \in Seq(HistoryReports) /\ lastFail[i] \in Nat
    BY <1>2 DEF Barred, MemoryInv, MemoryTypes, Remembers
  <2>2. CASE lastFail[i] # 0
    <3>1. /\ lastFail[i] <= CyclesDone
          /\ CyclesDone - lastFail[i] >= FailureWindow \/ InWindow(history, i, CyclesDone - lastFail[i])
      BY <1>2, <2>2 DEF Remembers, FailuresAreIn
    <3>2. CyclesDone - lastFail[i] >= FailureWindow
      <4>1. PICK since : since = CyclesDone - lastFail[i]
        OBVIOUS
      <4>2. since \in Nat /\ (since < FailureWindow => ~InWindow(history, i, since))
        BY <1>1, <2>1, <3>1, <4>1, RecentIsInWindow
      <4> QED
        BY <1>1, <3>1, <4>1, <4>2
    <3> QED
      BY <1>1, <2>1, <3>2
  <2> QED
    BY <2>2
<1>6. RetryWaits'
  BY <1>4, <1>5 DEF MemoryInv, RetryWaits
<1>7. t \notin cleared => ~(due[t] > 0)
  <2>1. ~Flagged(history, t) \/ t \in cleared
    BY DEF Barred, Quarantined
  <2>2. ASSUME due[t] > 0 PROVE Flagged(history, t)
    <3>1. PICK f \in 1 .. Len(history) : StreakFrom(history, t, f, due[t])
      BY <1>2, <2>2 DEF Remembers, StreaksAreIn
    <3>2. PICK last : last = f + QuarantineThreshold - 1
      OBVIOUS
    <3>3. /\ last \in QuarantineThreshold .. Len(history) /\ last - QuarantineThreshold + 1 = f
      BY <1>1, <1>2, <3>1, <3>2 DEF StreakFrom, Remembers
    <3> QED
      BY <3>1, <3>2, <3>3 DEF StreakFrom, Flagged
  <2> QED
    BY <2>1, <2>2
<1>8. QuarantineLasts'
  BY <1>4, <1>7 DEF MemoryInv, QuarantineLasts
<1> QED
  BY <1>2, <1>3, <1>6, <1>8 DEF MemoryInv

(* The history is emptied, and what will be in it is in memory. *)
LEMMA MemoryEmptied == ASSUME MemoryInv, LoopTypes, Report PROVE MemoryInv'
<1>1. /\ phase = "report" /\ phase' = "rewrite" /\ history' = << >> /\ CyclesDone' = CyclesDone
      /\ UNCHANGED <<cycle, doing, failed, rolled, cleared, lastFail, streak, due>>
      /\ draft' = Remember(history, [failed |-> failed, rolledBack |-> rolled])
  BY DEF Report, CyclesDone, local, ghosts, memory
<1>2. PICK h : h = history
  OBVIOUS
<1>3. Remembers(h)'
  BY <1>1, <1>2 DEF MemoryInv, Remembers, FailuresAreIn, StreaksAreIn
<1>4. Drafted(h)'
  BY <1>1, <1>2, <1>3 DEF Drafted
<1>5. MemoryTypes' /\ RetryWaits' /\ QuarantineLasts'
  BY <1>1 DEF MemoryInv, MemoryTypes, RetryWaits, QuarantineLasts
<1> QED
  BY <1>1, <1>4, <1>5 DEF MemoryInv

(* What the failures of a report become with the report at the end of the history. *)
LEMMA FailuresReported ==
  ASSUME MemoryInv, LoopTypes, FillHistory, NEW h, Drafted(h) PROVE FailuresAreIn(history)'
<1>1. /\ phase = "rewrite" /\ phase' = "snapshot" /\ cycle' = cycle
      /\ lastFail' = [i \in Items |-> IF i \in failed THEN cycle ELSE lastFail[i]]
      /\ lastFail \in [Items -> Nat] /\ h \in Seq(HistoryReports) /\ Len(h) <= HistoryKeep
  BY DEF FillHistory, MemoryInv, MemoryTypes, Drafted, Remembers
<1>2. /\ cycle \in Nat /\ CyclesDone = cycle - 1 /\ CyclesDone' = cycle /\ HistoryKeep \in Nat /\ FailureWindow \in Nat
      /\ FailureWindow <= HistoryKeep
  BY <1>1, HistoryAssumption, LoopBoundsAssumption DEF LoopTypes, CyclesDone
<1>3. PICK r : r = [failed |-> failed, rolledBack |-> rolled]
  OBVIOUS
<1>4. /\ r \in HistoryReports /\ r.failed = failed /\ history' = Remember(h, r)
  BY <1>3 DEF HistoryReports, LoopTypes, MemoryInv, MemoryTypes, FillHistory, Drafted
<1>5. /\ \A i : i \in r.failed /\ HistoryKeep > 0 => InWindow(history', i, 0)
      /\ \A i, n : n \in Nat /\ n + 1 < HistoryKeep /\ InWindow(h, i, n) => InWindow(history', i, n + 1)
  BY <1>1, <1>4, RememberKeeps
<1>6. ASSUME NEW i \in Items, lastFail'[i] # 0
      PROVE  /\ lastFail'[i] <= cycle
             /\ cycle - lastFail'[i] >= FailureWindow \/ InWindow(history', i, cycle - lastFail'[i])
  <2>1. CASE i \in failed
    <3>1. lastFail'[i] = cycle /\ cycle - lastFail'[i] = 0
      BY <1>1, <1>2, <2>1
    <3>2. HistoryKeep > 0 => InWindow(history', i, 0)
      BY <1>4, <1>5, <2>1
    <3> QED
      BY <1>2, <3>1, <3>2
  <2>2. CASE i \notin failed
    <3>1. lastFail'[i] = lastFail[i] /\ lastFail[i] \in Nat
      BY <1>1, <2>2
    <3>2. /\ lastFail[i] <= CyclesDone
          /\ CyclesDone - lastFail[i] >= FailureWindow \/ InWindow(h, i, CyclesDone - lastFail[i])
      BY <1>6, <3>1 DEF Drafted, Remembers, FailuresAreIn
    <3>3. PICK n : n = CyclesDone - lastFail[i]
      OBVIOUS
    <3>4. n \in Nat /\ cycle - lastFail'[i] = n + 1 /\ lastFail'[i] <= cycle
      BY <1>2, <3>1, <3>2, <3>3
    <3>5. n >= FailureWindow \/ InWindow(h, i, n)
      BY <3>2, <3>3
    <3>6. n + 1 >= FailureWindow \/ InWindow(history', i, n + 1)
      <4>1. CASE n + 1 < FailureWindow
        <5>1. n + 1 < HistoryKeep /\ ~(n >= FailureWindow)
          BY <1>2, <3>4, <4>1
        <5> QED
          BY <1>5, <3>4, <3>5, <5>1
      <4> QED
        BY <1>2, <3>4, <4>1
    <3> QED
      BY <3>4, <3>6
  <2> QED
    BY <2>1, <2>2
<1> QED
  BY <1>2, <1>6 DEF FailuresAreIn, InWindow

(* A streak is one report longer or over, and one that is complete stays in the history
   until as many reports were added as it has room for. *)
LEMMA StreaksReported ==
  ASSUME MemoryInv, LoopTypes, FillHistory, NEW h, Drafted(h) PROVE StreaksAreIn(history)'
<1>1. /\ streak \in [Targets -> 0 .. QuarantineThreshold] /\ due \in [Targets -> Nat]
      /\ streak' = [t \in Targets |-> Streak(t)] /\ due' = [t \in Targets |-> DueFor(t)]
      /\ h \in Seq(HistoryReports) /\ Len(h) <= HistoryKeep /\ Len(h) \in Nat
  BY DEF FillHistory, MemoryInv, MemoryTypes, Drafted, Remembers
<1>2. HistoryKeep \in Nat /\ QuarantineThreshold \in Nat \ {0}
  BY HistoryAssumption
<1>3. PICK r : r = [failed |-> failed, rolledBack |-> rolled]
  OBVIOUS
<1>4. /\ r \in HistoryReports /\ r.rolledBack = rolled /\ history' = Remember(h, r)
  BY <1>3 DEF HistoryReports, LoopTypes, MemoryInv, MemoryTypes, FillHistory, Drafted
<1>5. PICK after : after = Remember(h, r)
  OBVIOUS
<1>6. /\ after \in Seq(HistoryReports) /\ Len(after) <= HistoryKeep
      /\ HistoryKeep > 0 => Len(after) > 0 /\ after[Len(after)] = r
  BY <1>1, <1>4, <1>5, RememberKeeps
<1>7. PICK k \in {0, 1} :
        /\ k = 1 => Len(h) = HistoryKeep
        /\ Len(after) = Len(h) + 1 - k
        /\ \A p \in 1 .. Len(h) : p - k >= 1 => after[p - k] = h[p]
  BY <1>1, <1>4, <1>5, RememberKeeps
<1>8. ASSUME NEW t \in Targets
      PROVE  /\ streak'[t] <= HistoryKeep => RolledLast(after, t, streak'[t])
             /\ due'[t] > 0 => \E f \in 1 .. Len(after) : StreakFrom(after, t, f, due'[t])
  <2>1. PICK n \in 0 .. QuarantineThreshold : n = streak[t]
    BY <1>1
  <2>2. PICK m : m = streak'[t]
    OBVIOUS
  <2>3. m = Streak(t) /\ due'[t] = DueFor(t) /\ due[t] \in Nat
    BY <1>1, <2>2
  <2>4. m \in 0 .. QuarantineThreshold /\ (m > 0 => t \in rolled /\ m <= n + 1)
    BY <1>2, <2>1, <2>3 DEF Streak
  <2>5. n <= HistoryKeep => n <= Len(h) /\ \A p \in Len(h) - n + 1 .. Len(h) : t \in h[p].rolledBack
    BY <2>1 DEF Drafted, Remembers, StreaksAreIn, RolledLast
  <2>6. ASSUME m <= HistoryKeep
        PROVE  m <= Len(after) /\ \A p \in Len(after) - m + 1 .. Len(after) : t \in after[p].rolledBack
    <3>1. CASE m = 0
      <4>1. Len(after) \in Nat
        BY <1>6
      <4> QED
        BY <3>1, <4>1
    <3>2. CASE m # 0
      <4>1. /\ t \in rolled /\ m - 1 <= n /\ m - 1 <= Len(h) /\ HistoryKeep > 0 /\ m \in Nat
            /\ n <= HistoryKeep
        <5>1. t \in rolled /\ m \in Nat /\ m > 0 /\ m - 1 <= n
          BY <1>2, <2>1, <2>4, <3>2
        <5>2. HistoryKeep > 0
          BY <1>2, <2>6, <5>1
        <5>3. n <= HistoryKeep => m - 1 <= Len(h)
          BY <1>1, <2>1, <2>5, <5>1
        <5>4. n > HistoryKeep => FALSE
          <6>1. n = QuarantineThreshold \/ m = n + 1
            BY <2>1, <2>3, <5>1 DEF Streak
          <6>2. n = QuarantineThreshold => m = QuarantineThreshold
            BY <1>2, <2>1, <2>3, <5>1 DEF Streak
          <6> QED
            BY <1>2, <2>1, <2>6, <5>1, <6>1, <6>2
        <5> QED
          BY <1>2, <2>1, <5>1, <5>2, <5>3, <5>4
      <4>2. ASSUME NEW p \in Len(h) - (m - 1) + 1 .. Len(h) PROVE t \in h[p].rolledBack
        BY <1>1, <2>1, <2>5, <4>1, <4>2
      <4>3. m <= Len(after)
        BY <1>1, <1>2, <1>7, <2>6, <4>1
      <4>4. ASSUME NEW p \in Len(after) - m + 1 .. Len(after) PROVE t \in after[p].rolledBack
        <5>1. CASE p = Len(after)
          BY <1>4, <1>6, <4>1, <5>1
        <5>2. CASE p # Len(after)
          <6>1. PICK q : q = p + k
            OBVIOUS
          <6>2. /\ q \in 1 .. Len(h) /\ q - k = p /\ p >= 1
                /\ q \in Len(h) - (m - 1) + 1 .. Len(h)
            <7>1. /\ Len(h) \in Nat /\ m \in Nat /\ k \in {0, 1} /\ Len(after) = Len(h) + 1 - k
                  /\ p \in Int /\ p >= Len(after) - m + 1 /\ p < Len(after) /\ m <= Len(after)
              BY <1>1, <1>7, <4>1, <4>3, <4>4, <5>2
            <7> QED
              BY <6>1, <7>1
          <6> QED
            BY <1>7, <4>2, <6>2
        <5> QED
          BY <5>1, <5>2
      <4> QED
        BY <4>3, <4>4
    <3> QED
      BY <3>1, <3>2
  <2>7. ASSUME due'[t] > 0 PROVE \E f \in 1 .. Len(after) : StreakFrom(after, t, f, due'[t])
    <3>1. CASE m = QuarantineThreshold
      <4>1. /\ QuarantineThreshold <= HistoryKeep
            /\ due'[t] = HistoryKeep - QuarantineThreshold + 1
        BY <1>2, <2>3, <2>7, <3>1 DEF DueFor
      <4>2. PICK f : f = Len(after) - QuarantineThreshold + 1
        OBVIOUS
      <4>3. m <= Len(after) /\ \A p \in Len(after) - m + 1 .. Len(after) : t \in after[p].rolledBack
        BY <2>6, <3>1, <4>1
      <4>4. f \in 1 .. Len(after) /\ f + QuarantineThreshold - 1 = Len(after)
        BY <1>1, <1>2, <1>7, <3>1, <4>2, <4>3
      <4>5. /\ f + QuarantineThreshold <= Len(after) + 1 /\ due'[t] + Len(after) <= f + HistoryKeep
            /\ \A p \in f .. f + QuarantineThreshold - 1 : t \in after[p].rolledBack
        BY <1>1, <1>2, <1>7, <3>1, <4>1, <4>2, <4>3
      <4> QED
        BY <4>4, <4>5 DEF StreakFrom
    <3>2. CASE m # QuarantineThreshold
      <4>1. due[t] > 0 /\ due'[t] = due[t] - 1
        BY <2>3, <2>7, <3>2 DEF DueFor
      <4>2. PICK f \in 1 .. Len(h) : StreakFrom(h, t, f, due[t])
        BY <4>1 DEF Drafted, Remembers, StreaksAreIn
      <4>3. /\ f + QuarantineThreshold <= Len(h) + 1 /\ due[t] + Len(h) <= f + HistoryKeep
            /\ \A p \in f .. f + QuarantineThreshold - 1 : t \in h[p].rolledBack
        BY <4>2 DEF StreakFrom
      <4>4. PICK g : g = f - k
        OBVIOUS
      <4>5. g \in 1 .. Len(after) /\ f = g + k
        BY <1>1, <1>2, <1>7, <2>3, <2>7, <4>1, <4>2, <4>3, <4>4
      <4>6. g + QuarantineThreshold <= Len(after) + 1 /\ due'[t] + Len(after) <= g + HistoryKeep
        BY <1>1, <1>2, <1>7, <2>3, <4>1, <4>2, <4>3, <4>4
      <4>7. ASSUME NEW p \in g .. g + QuarantineThreshold - 1 PROVE t \in after[p].rolledBack
        <5>0. f \in 1 .. Len(h) /\ k \in {0, 1} /\ f = g + k /\ g >= 1 /\ f + QuarantineThreshold <= Len(h) + 1
          BY <1>6, <1>7, <4>2, <4>3, <4>5
        <5>1. PICK q : q = p + k
          OBVIOUS
        <5>2. /\ q \in f .. f + QuarantineThreshold - 1 /\ q \in 1 .. Len(h) /\ q - k = p /\ p >= 1
          <6>1. Len(h) \in Nat /\ QuarantineThreshold \in Nat /\ f \in Nat /\ k \in Nat /\ g \in Int /\ p \in Int
            BY <1>1, <1>2, <4>5, <4>7, <5>0
          <6>2. q \in Int /\ q >= f /\ q < f + QuarantineThreshold /\ p >= 1 /\ q - k = p
            BY <4>7, <5>0, <5>1, <6>1
          <6> QED
            BY <5>0, <6>1, <6>2
        <5> QED
          BY <1>7, <4>3, <5>2
      <4> QED
        BY <4>5, <4>6, <4>7 DEF StreakFrom
    <3> QED
      BY <3>1, <3>2
  <2> QED
    BY <2>2, <2>6, <2>7 DEF RolledLast
<1> QED
  BY <1>4, <1>5, <1>8 DEF StreaksAreIn, RolledLast, StreakFrom

LEMMA MemoryFilled == ASSUME MemoryInv, LoopTypes, FillHistory PROVE MemoryInv'
<1>1. /\ phase = "rewrite" /\ phase' = "snapshot" /\ rolled' = {} /\ cycle \in Nat
      /\ \A t \in Targets : doing'[t] = NoItem
  BY LoopBoundsAssumption DEF FillHistory, Forget, LoopTypes
<1>2. PICK h : Drafted(h)
  BY <1>1 DEF MemoryInv
<1>3. PICK r : r = [failed |-> failed, rolledBack |-> rolled]
  OBVIOUS
<1>4. /\ r \in HistoryReports /\ history' = Remember(h, r) /\ h \in Seq(HistoryReports) /\ Len(h) <= HistoryKeep
  BY <1>2, <1>3 DEF HistoryReports, LoopTypes, MemoryInv, MemoryTypes, FillHistory, Drafted, Remembers
<1>5. history' \in Seq(HistoryReports) /\ Len(history') <= HistoryKeep
  BY <1>4, RememberKeeps
<1>6. MemoryTypes'
  <2>1. /\ streak \in [Targets -> 0 .. QuarantineThreshold] /\ due \in [Targets -> Nat] /\ lastFail \in [Items -> Nat]
        /\ HistoryKeep \in Nat /\ QuarantineThreshold \in Nat \ {0}
    BY HistoryAssumption DEF MemoryInv, MemoryTypes
  <2>2. \A t \in Targets : Streak(t) \in 0 .. QuarantineThreshold
    BY <2>1 DEF Streak
  <2>3. \A t \in Targets : DueFor(t) \in Nat
    BY <2>1 DEF DueFor
  <2> QED
    BY <1>1, <2>1, <2>2, <2>3 DEF MemoryTypes, FillHistory
<1>7. FailuresAreIn(history)' /\ StreaksAreIn(history)'
  BY <1>2, FailuresReported, StreaksReported
<1> QED
  BY <1>1, <1>5, <1>6, <1>7 DEF MemoryInv, Remembers, RetryWaits, QuarantineLasts

(* A stop or a kill: of the history, all is there or nothing. *)
LEMMA MemoryStops == ASSUME MemoryInv, LoopTypes, LoopTypes', Stop PROVE MemoryInv'
<1>1. /\ UNCHANGED <<cycle, history, cleared>> /\ rolled' = {}
      /\ phase # "snapshot" /\ phase' = "snapshot" /\ \A t \in Targets : doing'[t] = NoItem
  BY DEF Stop, Forget
<1>2. CyclesDone' = CyclesDone + 1
  BY <1>1 DEF CyclesDone, LoopTypes
<1>3. CASE phase # "rewrite"
  <2>1. UNCHANGED <<lastFail, streak, due>>
    BY <1>3 DEF Stop, memory
  <2> QED
    BY <1>1, <1>2, <1>3, <2>1, MemoryRests
<1>4. CASE phase = "rewrite"
  <2>1. /\ lastFail' = [i \in Items |-> 0]
        /\ streak' = [t \in Targets |-> 0] /\ due' = [t \in Targets |-> 0]
    BY <1>4 DEF Stop
  <2>2. history' = <<>>
    BY <1>1, <1>4 DEF MemoryInv
  <2>3. MemoryTypes'
    BY <1>1, <2>1, HistoryAssumption DEF MemoryTypes
  <2>4. Remembers(history)'
    <3>1. history' \in Seq(HistoryReports) /\ Len(history') = 0 /\ HistoryKeep \in Nat
      BY <2>2, HistoryAssumption
    <3> QED
      BY <2>1, <3>1 DEF Remembers, FailuresAreIn, StreaksAreIn, RolledLast
  <2> QED
    BY <1>1, <2>3, <2>4 DEF MemoryInv, RetryWaits, QuarantineLasts
<1> QED
  BY <1>3, <1>4

(* A step of a cycle that is not over: no target takes up another item. *)
LEMMA MemoryGoesOn ==
  ASSUME MemoryInv, LoopTypes, LoopTypes',
         UNCHANGED <<history, lastFail, streak, due, cycle>>, cleared \subseteq cleared',
         phase # "rewrite", phase' # "rewrite",
         phase' = "snapshot" <=> phase = "snapshot", rolled' \subseteq Targets,
         \A t \in Targets : doing'[t] # NoItem => doing[t] # NoItem /\ doing'[t].item = doing[t].item
  PROVE  MemoryInv'
<1>1. CyclesDone' = CyclesDone
  BY DEF CyclesDone
<1> QED
  BY <1>1, MemoryRests

LEMMA MemoryOfEnds ==
  ASSUME MemoryInv, LoopTypes, LoopTypes', TakenOnce, NEW t \in Targets, NEW i \in Items,
         \/ FixAgentFails(t, i) \/ FixOk(t, i) \/ FixRolledBack(t, i)
         \/ FeatureMerged(t, i) \/ FeatureParked(t, i) \/ FeatureRolledBack(t, i)
  PROVE  MemoryInv'
<1>1. /\ Leaves(t) /\ UNCHANGED <<phase, cycle, history, cleared, lastFail, streak, due>>
      /\ rolled' = rolled \/ rolled' = rolled \cup {t}
  <2>1. CASE FixAgentFails(t, i)
    BY <2>1 DEF FixAgentFails, ReportsFail, Reports, files, ghosts, memory
  <2>2. CASE FixOk(t, i)
    BY <2>2 DEF FixOk, ReportsModified, Reports, files, ghosts, memory
  <2>3. CASE FixRolledBack(t, i)
    BY <2>3 DEF FixRolledBack, ReportsRollback, Reports, files, ghosts, memory
  <2>4. CASE FeatureMerged(t, i)
    <3>1. ReportsModified(t, i) \/ ReportsFail(t, i)
      BY <2>4 DEF FeatureMerged
    <3> QED
      BY <2>4, <3>1 DEF FeatureMerged, ReportsModified, ReportsFail, Reports, files, ghosts, memory
  <2>5. CASE FeatureParked(t, i)
    BY <2>5 DEF FeatureParked, ReportsNothing, files, ghosts, memory
  <2>6. CASE FeatureRolledBack(t, i)
    BY <2>6 DEF FeatureRolledBack, ReportsRollback, Reports, files, ghosts, memory
  <2> QED
    BY <2>1, <2>2, <2>3, <2>4, <2>5, <2>6
<1>2. rolled' \subseteq Targets
  BY <1>1 DEF MemoryInv, MemoryTypes
<1>3. \A u \in Targets : doing'[u] = NoItem \/ doing'[u] = doing[u]
  BY <1>1 DEF Leaves, LoopTypes
<1>4. doing[t] # NoItem
  BY NamesApart DEF FixAgentFails, FixOk, FixRolledBack, FeatureMerged, FeatureParked, FeatureRolledBack
<1>5. phase \in {"fix", "build"}
  BY <1>4 DEF TakenOnce
<1> QED
  BY <1>1, <1>2, <1>3, <1>5, MemoryGoesOn

LEMMA MemoryOfJobs ==
  ASSUME MemoryInv, LoopTypes, LoopTypes', TakenOnce, NEW t \in Targets, NEW i \in Items, Job(t, i)
  PROVE  MemoryInv'
<1>1. CASE Skip(t, i)
  <2>1. /\ phase \in {"fix", "build"}
        /\ UNCHANGED <<phase, cycle, doing, rolled, history, cleared, lastFail, streak, due>>
    BY <1>1 DEF Skip, files, ghosts, memory
  <2> QED
    BY <2>1, MemoryGoesOn DEF MemoryInv, MemoryTypes
<1>2. CASE StartFix(t, i)
  <2>1. /\ ~Barred(t, i) /\ phase = "fix" /\ doing' = [doing EXCEPT ![t] = [item |-> i, step |-> "agent"]]
        /\ UNCHANGED <<phase, cycle, rolled, history, cleared, lastFail, streak, due>>
    BY <1>2 DEF StartFix, Takes, files, ghosts, memory
  <2> QED
    BY <2>1, MemoryTakes DEF MemoryInv, MemoryTypes
<1>3. CASE StartFeature(t, i)
  <2>1. /\ ~Barred(t, i) /\ phase = "build"
        /\ UNCHANGED <<phase, cycle, history, cleared, lastFail, streak, due>>
        /\ \/ Takes(t, i) /\ ReportsNothing
           \/ ReportsFail(t, i) /\ UNCHANGED doing
    BY <1>3 DEF StartFeature, files, ghosts, memory
  <2>2. rolled' = rolled
    BY <2>1 DEF ReportsNothing, ReportsFail, Reports
  <2>3. CASE Takes(t, i)
    BY <2>1, <2>2, <2>3, MemoryTakes DEF Takes, MemoryInv, MemoryTypes
  <2>4. CASE UNCHANGED doing
    BY <2>1, <2>2, <2>4, MemoryGoesOn DEF MemoryInv, MemoryTypes
  <2> QED
    BY <2>1, <2>3, <2>4
<1>4. CASE AgentSucceeds(t, i)
  <2>1. /\ doing[t] = [item |-> i, step |-> "agent"] /\ doing' = [doing EXCEPT ![t].step = "judge"]
        /\ UNCHANGED <<phase, cycle, rolled, history, cleared, lastFail, streak, due>>
    BY <1>4 DEF AgentSucceeds, files, ghosts, memory
  <2>2. doing[t] # NoItem /\ doing'[t].item = doing[t].item
    <3>1. doing[t].item = i /\ NoItem.item # i
      BY <2>1, NamesApart
    <3> QED
      BY <2>1, <3>1 DEF LoopTypes
  <2>3. /\ \A u \in Targets : u # t => doing'[u] = doing[u]
        /\ phase \in {"fix", "build"}
    BY <2>1, <2>2 DEF LoopTypes, TakenOnce
  <2>4. rolled' \subseteq Targets
    BY <2>1 DEF MemoryInv, MemoryTypes
  <2> QED
    BY <2>1, <2>2, <2>3, <2>4, MemoryGoesOn
<1> QED
  BY <1>1, <1>2, <1>3, <1>4, MemoryOfEnds DEF Job

LEMMA MemorySteps ==
  ASSUME LoopInv, LoopTypes', MemoryInv, [Next]_vars PROVE MemoryInv'
<1> USE DEF LoopInv
<1>1. rolled \subseteq Targets
  BY DEF MemoryInv, MemoryTypes
<1>2. CASE Snapshot
  <2>1. /\ UNCHANGED <<doing, rolled, history, cleared, lastFail, streak, due>>
        /\ phase = "snapshot" /\ phase' = "decide" /\ cycle' = cycle + 1
    BY <1>2 DEF Snapshot, local, files, memory
  <2>2. \A t \in Targets : doing'[t] = NoItem
    BY <2>1, Zenon DEF TakenOnce
  <2>3. CyclesDone' = CyclesDone
    BY <2>1 DEF CyclesDone, LoopTypes
  <2> QED
    BY <1>1, <2>1, <2>2, <2>3, MemoryRests
<1>3. CASE Decide \/ EndFix \/ EndBuild \/ EndVerify \/ EndDeploy
  <2>1. /\ UNCHANGED <<cycle, doing, rolled, history, cleared, lastFail, streak, due>>
        /\ phase \notin {"snapshot", "rewrite"} /\ phase' \notin {"snapshot", "rewrite"}
    BY <1>3 DEF Decide, EndFix, EndBuild, EndVerify, EndDeploy, local, files, ghosts, memory
  <2> QED
    BY <1>1, <2>1, MemoryGoesOn
<1>4. CASE Report \/ FillHistory
  BY <1>4, MemoryEmptied, MemoryFilled
<1>5. ASSUME NEW t \in Targets, NEW i \in Items, Job(t, i) PROVE MemoryInv'
  BY <1>5, MemoryOfJobs
<1>6. ASSUME NEW t \in Targets, VerifySkips(t) \/ VerifyPasses(t) \/ VerifyFails(t) \/ Deploy(t)
      PROVE  MemoryInv'
  <2>1. /\ UNCHANGED <<phase, cycle, doing, history, cleared, lastFail, streak, due>>
        /\ phase \in {"verify", "deploy"}
        /\ rolled' = rolled \/ rolled' = rolled \cup {t}
    BY <1>6 DEF VerifySkips, VerifyPasses, VerifyFails, Deploy, Visits, files, ghosts, memory
  <2> QED
    BY <1>1, <2>1, MemoryGoesOn
<1>7. CASE Stop
  BY <1>7, MemoryStops
<1>8. ASSUME NEW t \in Targets, CleanUp(t) \/ Clear(t) PROVE MemoryInv'
  <2>1. /\ UNCHANGED <<phase, cycle, doing, rolled, history, lastFail, streak, due>>
        /\ cleared \subseteq cleared' /\ phase = "snapshot"
    BY <1>8 DEF CleanUp, Clear, local, files, ghosts, memory
  <2> QED
    BY <1>1, <2>1, MemoryGoesOn
<1>9. CASE UNCHANGED vars
  <2>1. UNCHANGED <<phase, cycle, doing, failed, rolled, history, draft, cleared, lastFail, streak, due>>
    BY <1>9 DEF vars, local, files, ghosts, memory
  <2>2. CASE phase = "rewrite"
    <3>1. PICK h : Drafted(h)
      BY <2>2 DEF MemoryInv
    <3>2. Drafted(h)'
      BY <2>1, <3>1 DEF Drafted, Remembers, FailuresAreIn, StreaksAreIn, CyclesDone
    <3> QED
      BY <2>1, <2>2, <3>2 DEF MemoryInv, MemoryTypes, RetryWaits, QuarantineLasts
  <2>3. CASE phase # "rewrite"
    BY <1>1, <2>1, <2>3, MemoryGoesOn
  <2> QED
    BY <2>2, <2>3
<1> QED
  BY <1>2, <1>3, <1>4, <1>5, <1>6, <1>7, <1>8, <1>9 DEF Next, Loop

(* The history has every failure that still counts and every streak that has not
   dropped out of it, in every state of every run of the loop; while a report is
   written, what is about to be written has. *)
THEOREM MemoryInductive == Spec => []MemoryInv
<1>1. LoopInv /\ LoopInv' /\ MemoryInv /\ [Next]_vars => MemoryInv'
  BY MemorySteps DEF LoopInv
<1> QED
  BY MemoryBegins, LoopInductive, <1>1, PTL DEF Spec

(* An item that a report of scripts/overnight.sh names as failed is not taken up in the
   cycles the failure is remembered for, over any stops, kills and restarts, as long as
   none of them comes while append_history rewrites the file (that one loses all it has). *)
THEOREM FailedItemsWait == Spec => []RetryWaits
<1>1. MemoryInv => RetryWaits
  BY DEF MemoryInv
<1> QED
  BY MemoryInductive, <1>1, PTL

(* A target rolled back in as many reports in a row as the quarantine asks for is left
   alone, whatever later reports say, until an operator clears it, its streak is no
   longer among the reports kept, or a kill while the file is rewritten loses it. *)
THEOREM QuarantineHolds == Spec => []QuarantineLasts
<1>1. MemoryInv => QuarantineLasts
  BY DEF MemoryInv
<1> QED
  BY MemoryInductive, <1>1, PTL

=============================================================================

---------------------------- MODULE PreviewProofs -----------------------------
(***************************************************************************)
(* Proofs about PreviewReview, for any number of jobs, changes and deaths: *)
(* an inductive invariant, then the four safety properties of the runs.    *)
(***************************************************************************)
EXTENDS PreviewReview, GitProofs, FiniteSetTheorems, TLAPS

-----------------------------------------------------------------------------
(* The inductive invariant. *)

GoodRepo(r) ==
  WellFormed(r, Changes) /\ DOMAIN r.refs \subseteq Branches /\ Trunk \in DOMAIN r.refs

Labels == {"new", "setup", "branch", "agent", "publish", "return", "over"}

Decisions ==
  [op : {"approve", "discard"}, step : {"checkout", "merge", "delete", "unlink"}, job : Jobs]

PreviewTypes ==
  /\ GoodRepo(repo)
  /\ author \in [Changes -> Jobs \cup {None}]
  /\ jpc \in [Jobs -> Labels]
  /\ preview \subseteq Jobs
  /\ base \in [Jobs -> Branches]
  /\ onDisk \subseteq Jobs
  /\ shown \in [Jobs -> [base : Branches, head : SUBSET Changes]]
  /\ running \subseteq Jobs
  /\ srv \in {NoDecision} \cup Decisions
  /\ approved \subseteq Jobs
  /\ overlapped \in BOOLEAN
  /\ crashes \in Nat

(* Before its branch step a job has left no trace, before Publish no file. *)
NoTrace(j) ==
  /\ ~Exists(repo, j)
  /\ \A k \in Jobs : base[k] # j
  /\ \A ch \in Changes : author[ch] # j

Unpublished(j) == shown[j].head = {} /\ j \notin onDisk /\ j \notin approved

Stages ==
  /\ \A j \in Jobs :
       /\ jpc[j] \in {"new", "setup", "branch"} => NoTrace(j)
       /\ jpc[j] \notin {"return", "over"} => Unpublished(j)
       /\ jpc[j] = "new" => j \notin preview
       /\ jpc[j] \in {"setup", "branch", "publish"} => j \in preview
       /\ j \in onDisk => shown[j].base = base[j]
  /\ Deciding => srv.job \in onDisk
  /\ \A b \in DOMAIN repo.refs : \A ch \in repo.refs[b] : author[ch] # None

(* One at a time, so that what a job or decision has checked out stays so. *)
Alone ==
  /\ \A i, j \in Live : i = j
  /\ Deciding => Live = {}
  /\ \A j \in Jobs : jpc[j] = "branch" => repo.head = base[j]
  /\ \A j \in preview : jpc[j] \in {"agent", "publish"} => repo.head = j
  /\ srv.step = "merge" => repo.head = shown[srv.job].base

(* What a preview branch has beyond its base is the job's own, approved or
   not of a preview. *)
May(ch, j) == author[ch] = j \/ author[ch] \in approved \/ author[ch] \notin preview

OwnWork ==
  \A j \in Jobs : Exists(repo, j) /\ Exists(repo, base[j]) =>
    \A ch \in repo.refs[j] : ch \in repo.refs[base[j]] \/ May(ch, j)

ShownIsThere == \A j \in Jobs : Exists(repo, j) => shown[j].head \subseteq repo.refs[j]

ApprovedIsThere ==
  \A j \in approved : shown[j].base = Trunk => shown[j].head \subseteq repo.refs[Trunk]

HasBranch ==
  crashes = 0 =>
    \A j \in onDisk : Exists(repo, j) \/ (srv.job = j /\ srv.step = "unlink")

Apart == Alone /\ OwnWork /\ ShownIsThere /\ PreviewIsolated /\ ApprovedIsThere /\ HasBranch

Registered == crashes = 0 => Live \subseteq running /\ \A i, j \in running : i = j

PreviewInv == PreviewTypes /\ Stages /\ Registered /\ (~overlapped => Apart)

-----------------------------------------------------------------------------
(* Without an overlap there is one job at most, and none beside a decision. *)
LEMMA AtMostOne ==
  ASSUME NEW S \in SUBSET Jobs, NEW d \in BOOLEAN,
         ~(Cardinality(S) + (IF d THEN 1 ELSE 0) > 1)
  PROVE  (\A i, j \in S : i = j) /\ (d => S = {})
<1>1. IsFiniteSet(S)
  BY JobsAssumption, FS_Subset
<1>2. Cardinality(S) \in Nat
  BY <1>1, FS_CardinalityType
<1>3. Cardinality(S) <= 1 /\ (d => Cardinality(S) = 0)
  BY <1>2
<1>4. ASSUME NEW i \in S PROVE S = {i}
  <2>1. {i} \in SUBSET S /\ Cardinality({i}) = 1
    BY FS_Singleton
  <2> QED
    BY <1>1, <1>2, <1>3, <2>1, FS_Subset
<1>5. d => S = {}
  BY <1>1, <1>3, FS_EmptySet
<1> QED
  BY <1>4, <1>5

Tracked == overlapped' = (overlapped \/ Overlap')

LEMMA StaysApart ==
  ASSUME PreviewInv, Tracked, ~overlapped'
  PROVE  /\ Apart
         /\ \A i, j \in Live' : i = j
         /\ Deciding' => Live' = {}
<1>1. ~overlapped /\ ~Overlap'
  BY DEF Tracked
<1>2. Live' \in SUBSET Jobs /\ Deciding' \in BOOLEAN
  BY DEF Live, Deciding
<1> QED
  BY <1>1, <1>2, AtMostOne DEF PreviewInv, Overlap

-----------------------------------------------------------------------------
(* The invariant, action by action. *)

LEMMA InvInit == Init => PreviewInv
<1> SUFFICES ASSUME Init PROVE PreviewInv
  OBVIOUS
<1> USE DEF Init
<1>1. PreviewTypes
  <2>1. GoodRepo(repo)
    BY DEF GoodRepo, WellFormed, Branches
  <2> QED
    BY <2>1 DEF PreviewTypes, Labels, Branches
<1>2. Stages
  BY BranchNamesAssumption, NoJobAssumption DEF Stages, NoTrace, Unpublished, Exists, Deciding
<1>3. Live = {}
  BY DEF Live
<1>4. Registered
  BY <1>3 DEF Registered
<1>5. Apart
  <2>1. Alone
    BY <1>3 DEF Alone, NoDecision
  <2>2. OwnWork /\ ShownIsThere /\ PreviewIsolated /\ ApprovedIsThere /\ HasBranch
    BY BranchNamesAssumption
       DEF OwnWork, ShownIsThere, PreviewIsolated, ApprovedIsThere, HasBranch, Exists
  <2> QED
    BY <2>1, <2>2 DEF Apart
<1> QED
  BY <1>1, <1>2, <1>4, <1>5 DEF PreviewInv

LEMMA InvRunFix ==
  ASSUME PreviewInv, Tracked, NEW j \in Jobs, NEW p \in BOOLEAN, RunFix(j, p)
  PROVE  PreviewInv'
<1> USE DEF PreviewInv, RunFix, reviewVars
<1>1. PreviewTypes'
  BY DEF PreviewTypes, Labels, Tracked, Overlap
<1>2. /\ jpc'[j] = IF p THEN "setup" ELSE "agent"
      /\ \A k \in Jobs \ {j} : jpc'[k] = jpc[k]
      /\ preview' = IF p THEN preview \cup {j} ELSE preview
  BY DEF PreviewTypes
<1>3. Stages'
  BY <1>2 DEF PreviewTypes, Stages, NoTrace, Unpublished, Exists, Deciding
<1>4. Registered'
  BY <1>2 DEF Registered, Live
<1>5. ASSUME ~overlapped' PROVE Apart'
  <2>1. Apart /\ (\A i, k \in Live' : i = k) /\ (Deciding' => Live' = {})
    BY <1>5, StaysApart
  <2>2. Alone'
    BY <1>2, <2>1 DEF PreviewTypes, Stages, Apart, Alone
  <2>3. \A ch \in Changes, k \in Jobs : May(ch, k) => May(ch, k)'
    BY <1>2 DEF Stages, NoTrace, May
  <2>4. OwnWork'
    BY <2>1, <2>3 DEF Apart, OwnWork, Exists, PreviewTypes, GoodRepo, WellFormed
  <2>5. PreviewIsolated'
    BY <1>2, <2>1 DEF Apart, PreviewIsolated, PreviewTypes, GoodRepo, WellFormed, Stages, NoTrace
  <2>6. ShownIsThere' /\ ApprovedIsThere' /\ HasBranch'
    BY <2>1 DEF Apart, ShownIsThere, ApprovedIsThere, HasBranch, Exists
  <2> QED
    BY <2>1, <2>2, <2>4, <2>5, <2>6 DEF Apart
<1> QED
  BY <1>1, <1>3, <1>4, <1>5

LEMMA InvReadBase ==
  ASSUME PreviewInv, Tracked, NEW j \in Jobs, ReadBase(j)
  PROVE  PreviewInv'
<1> USE DEF PreviewInv, ReadBase, reviewVars, Ends, GoesTo
<1>1. PreviewTypes'
  BY DEF PreviewTypes, Labels, Tracked, Overlap, GoodRepo, WellFormed
<1>2. /\ jpc[j] = "setup" /\ jpc'[j] \in {"branch", "over"} /\ (~repo.dirty => jpc'[j] = "branch")
      /\ \A k \in Jobs \ {j} : jpc'[k] = jpc[k]
      /\ base'[j] = repo.head
      /\ \A k \in Jobs \ {j} : base'[k] = base[k]
  BY DEF PreviewTypes
<1>3. Stages'
  BY <1>2 DEF PreviewTypes, GoodRepo, WellFormed, Stages, NoTrace, Unpublished, Exists, Deciding
<1>4. Registered'
  BY <1>2 DEF Registered, Live, PreviewTypes
<1>5. ASSUME ~overlapped' PROVE Apart'
  <2>1. Apart /\ (\A i, k \in Live' : i = k) /\ (Deciding' => Live' = {})
    BY <1>5, StaysApart
  <2>2. \A i, k \in Live : i = k
    BY <2>1 DEF Apart, Alone
  <2>3. Alone'
    BY <1>2, <2>1, <2>2 DEF PreviewTypes, Stages, Apart, Alone, Live
  <2>4. OwnWork'
    BY <1>2, <2>1 DEF Apart, OwnWork, Exists, Stages, NoTrace, May
  <2>5. ShownIsThere' /\ PreviewIsolated' /\ ApprovedIsThere' /\ HasBranch'
    BY <2>1 DEF Apart, ShownIsThere, PreviewIsolated, ApprovedIsThere, HasBranch, Exists
  <2> QED
    BY <2>1, <2>3, <2>4, <2>5 DEF Apart
<1> QED
  BY <1>1, <1>3, <1>4, <1>5

LEMMA InvCreateBranch ==
  ASSUME PreviewInv, Tracked, NEW j \in Jobs, CreateBranch(j)
  PROVE  PreviewInv'
<1> USE DEF PreviewInv, reviewVars, GoesTo
<1>1. /\ GoodRepo(repo') /\ repo'.head = j
      /\ j \notin DOMAIN repo.refs /\ DOMAIN repo'.refs = DOMAIN repo.refs \cup {j}
      /\ repo'.refs[j] = repo.refs[repo.head]
      /\ \A x \in DOMAIN repo.refs : repo'.refs[x] = repo.refs[x]
  BY CheckoutNewEffect DEF CreateBranch, PreviewTypes, GoodRepo, Branches
<1>2. /\ jpc[j] = "branch" /\ jpc'[j] = "agent"
      /\ \A k \in Jobs \ {j} : jpc'[k] = jpc[k]
      /\ UNCHANGED <<author, preview, base, onDisk, shown, running, srv, approved, crashes>>
  BY DEF CreateBranch, PreviewTypes
<1>3. PreviewTypes'
  BY <1>1 DEF CreateBranch, PreviewTypes, Labels, Tracked, Overlap
<1>4. Stages'
  BY <1>1, <1>2 DEF PreviewTypes, GoodRepo, WellFormed, Stages, NoTrace, Unpublished, Exists, Deciding
<1>5. Registered'
  BY <1>2 DEF Registered, Live, PreviewTypes
<1>6. ASSUME ~overlapped' PROVE Apart'
  <2>1. Apart /\ (\A i, k \in Live' : i = k) /\ (Deciding' => Live' = {})
    BY <1>6, StaysApart
  <2>2. j \in Live' /\ j \in preview /\ repo.head = base[j]
    BY <1>2, <2>1 DEF Live, Stages, Apart, Alone
  <2>3. Alone'
    BY <1>1, <1>2, <2>1, <2>2 DEF PreviewTypes, Stages, Apart, Alone, Live, Deciding, NoDecision
  <2>4. OwnWork'
    BY <1>1, <1>2, <2>1, <2>2, BranchNamesAssumption
       DEF Apart, OwnWork, Exists, Stages, NoTrace, May, PreviewTypes, GoodRepo, WellFormed, Branches
  <2>5. repo'.refs[Trunk] = repo.refs[Trunk]
    BY <1>1 DEF PreviewTypes, GoodRepo, WellFormed
  <2>6. ShownIsThere'
    BY <1>1, <1>2, <2>1 DEF Apart, ShownIsThere, Exists, Stages, Unpublished
  <2>7. PreviewIsolated' /\ ApprovedIsThere' /\ HasBranch'
    BY <1>1, <1>2, <2>1, <2>5 DEF Apart, PreviewIsolated, ApprovedIsThere, HasBranch, Exists
  <2> QED
    BY <2>1, <2>3, <2>4, <2>6, <2>7 DEF Apart
<1> QED
  BY <1>3, <1>4, <1>5, <1>6

LEMMA InvAgentCommits ==
  ASSUME PreviewInv, Tracked, NEW j \in Jobs, AgentCommits(j)
  PROVE  PreviewInv'
<1> USE DEF PreviewInv, reviewVars
<1>1. PICK ch \in Unwritten : repo' \in Commit(repo, ch) /\ author' = [author EXCEPT ![ch] = j]
  BY DEF AgentCommits
<1>2. /\ GoodRepo(repo') /\ repo'.head = repo.head /\ DOMAIN repo'.refs = DOMAIN repo.refs
      /\ repo'.refs[repo.head] = repo.refs[repo.head] \cup {ch}
      /\ \A x \in DOMAIN repo.refs : x # repo.head => repo'.refs[x] = repo.refs[x]
  <2>1. WellFormed(repo, Changes) /\ ch \in Changes
    BY DEF PreviewTypes, GoodRepo, Unwritten
  <2>2. /\ WellFormed(repo', Changes) /\ repo'.head = repo.head /\ DOMAIN repo'.refs = DOMAIN repo.refs
        /\ repo'.refs[repo.head] = repo.refs[repo.head] \cup {ch}
        /\ \A x \in DOMAIN repo.refs : x # repo.head => repo'.refs[x] = repo.refs[x]
    BY <1>1, <2>1, CommitEffect
  <2> QED
    BY <2>2 DEF PreviewTypes, GoodRepo
<1>3. /\ jpc[j] = "agent" /\ author[ch] = None /\ author'[ch] = j /\ ch \in Changes
      /\ \A x \in Changes \ {ch} : author'[x] = author[x]
      /\ UNCHANGED <<jpc, preview, base, onDisk, shown, running, srv, approved, crashes>>
  BY <1>1 DEF AgentCommits, PreviewTypes, Unwritten
<1>4. \A b \in DOMAIN repo.refs : \A x \in repo.refs[b] : x \in Changes \ {ch}
  BY <1>3 DEF Stages, PreviewTypes, GoodRepo, WellFormed
<1>5. PreviewTypes'
  BY <1>1, <1>2, <1>3 DEF PreviewTypes, Tracked, Overlap
<1>6. Stages'
  <2>1. \A b \in DOMAIN repo'.refs : \A x \in repo'.refs[b] : author'[x] # None
    BY <1>2, <1>3, <1>4, NoJobAssumption DEF Stages
  <2> QED
    BY <1>2, <1>3, <2>1 DEF Stages, NoTrace, Unpublished, Exists, Deciding
<1>7. Registered'
  BY <1>3 DEF Registered, Live
<1>8. ASSUME ~overlapped' PROVE Apart'
  <2>1. Apart /\ (\A i, k \in Live' : i = k) /\ (Deciding' => Live' = {})
    BY <1>8, StaysApart
  <2>2. Alone'
    BY <1>2, <1>3, <2>1 DEF Apart, Alone
  <2>3. j \in preview => repo.head = j
    BY <1>3, <2>1 DEF Apart, Alone
  <2>4. \A b \in DOMAIN repo.refs : \A x \in repo.refs[b] : \A k \in Jobs : May(x, k) => May(x, k)'
    BY <1>3, <1>4 DEF May
  <2>5. \A k \in Jobs : repo.head = k => May(ch, k)'
    BY <1>3, <2>3 DEF May
  <2>6. \A b \in DOMAIN repo.refs :
          /\ repo.refs[b] \subseteq repo'.refs[b]
          /\ \A x \in repo'.refs[b] : x \in repo.refs[b] \/ (x = ch /\ b = repo.head)
    BY <1>2
  <2>7. OwnWork'
    BY <1>2, <1>3, <2>1, <2>4, <2>5, <2>6 DEF Apart, OwnWork, Exists
  <2>8. ASSUME NEW x \in repo'.refs[Trunk], author'[x] \in preview PROVE author'[x] \in approved
    BY <1>3, <1>4, <2>1, <2>3, <2>6, <2>8, BranchNamesAssumption
       DEF Apart, PreviewIsolated, PreviewTypes, GoodRepo, WellFormed
  <2>9. PreviewIsolated'
    BY <1>3, <2>8 DEF PreviewIsolated
  <2>10. ShownIsThere' /\ ApprovedIsThere' /\ HasBranch'
    BY <1>2, <1>3, <2>1, <2>6
       DEF Apart, ShownIsThere, ApprovedIsThere, HasBranch, Exists, PreviewTypes, GoodRepo, WellFormed
  <2> QED
    BY <2>1, <2>2, <2>7, <2>9, <2>10 DEF Apart
<1> QED
  BY <1>5, <1>6, <1>7, <1>8

(* Steps that leave the branches and HEAD alone, and end at most the job. *)
LEMMA InvLabelOnly ==
  ASSUME PreviewInv, Tracked, NEW j,
         GoodRepo(repo'), repo'.refs = repo.refs, repo'.head = repo.head,
         \/ UNCHANGED <<jpc, running>>
         \/ j \in Live /\ Ends(j)
         \/ jpc[j] = "agent" /\ j \in preview /\ GoesTo(j, "publish"),
         UNCHANGED <<author, preview, base, onDisk, shown, srv, approved>>,
         crashes' \in Nat, crashes' = 0 => crashes = 0
  PROVE  PreviewInv'
<1> USE DEF PreviewInv, Ends, GoesTo
<1>1. PreviewTypes'
  BY DEF PreviewTypes, Labels, Tracked, Overlap
<1>2. /\ \A k \in Jobs \ {j} : jpc'[k] = jpc[k]
      /\ \/ jpc'[j] = jpc[j]
         \/ j \in Live /\ jpc'[j] = "over"
         \/ jpc[j] = "agent" /\ jpc'[j] = "publish" /\ j \in preview
  BY DEF PreviewTypes
<1>3. Stages'
  BY <1>2 DEF PreviewTypes, Stages, NoTrace, Unpublished, Exists, Deciding, Live
<1>4. Registered'
  BY <1>2 DEF Registered, Live, PreviewTypes
<1>5. ASSUME ~overlapped' PROVE Apart'
  <2>1. Apart /\ (\A i, k \in Live' : i = k) /\ (Deciding' => Live' = {})
    BY <1>5, StaysApart
  <2>2. Alone'
    BY <1>2, <2>1 DEF PreviewTypes, Apart, Alone
  <2>3. OwnWork' /\ ShownIsThere' /\ PreviewIsolated' /\ ApprovedIsThere' /\ HasBranch'
    BY <2>1 DEF Apart, OwnWork, ShownIsThere, PreviewIsolated, ApprovedIsThere, HasBranch, Exists, May
  <2> QED
    BY <2>1, <2>2, <2>3 DEF Apart
<1> QED
  BY <1>1, <1>3, <1>4, <1>5

LEMMA InvAgentEnds ==
  ASSUME PreviewInv, Tracked, NEW j \in Jobs, AgentSucceeds(j) \/ AgentFails(j) \/ JobDies(j)
  PROVE  PreviewInv'
<1>1. GoodRepo(repo') /\ repo' = repo
  BY DEF AgentSucceeds, AgentFails, JobDies, PreviewInv, PreviewTypes
<1>2. crashes' \in Nat /\ (crashes' = 0 => crashes = 0)
  BY DEF AgentSucceeds, AgentFails, JobDies, PreviewInv, PreviewTypes
<1>3. j \in Live
  BY DEF AgentSucceeds, AgentFails, JobDies, Live
<1> QED
  BY <1>1, <1>2, <1>3, InvLabelOnly DEF AgentSucceeds, AgentFails, JobDies, reviewVars

LEMMA InvEdits ==
  ASSUME PreviewInv, Tracked, NEW j, AgentEdits(j) \/ CleanUp
  PROVE  PreviewInv'
<1>1. repo' \in {Edited(repo), Cleaned(repo)}
  BY DEF AgentEdits, CleanUp
<1>2. GoodRepo(repo') /\ repo'.refs = repo.refs /\ repo'.head = repo.head
  <2>1. WellFormed(repo, Changes)
    BY DEF PreviewInv, PreviewTypes, GoodRepo
  <2>2. WellFormed(repo', Changes) /\ repo'.refs = repo.refs /\ repo'.head = repo.head
    BY <1>1, <2>1, EditEffect
  <2> QED
    BY <2>2 DEF PreviewInv, PreviewTypes, GoodRepo
<1>3. crashes \in Nat
  BY DEF PreviewInv, PreviewTypes
<1> QED
  BY <1>2, <1>3, InvLabelOnly DEF AgentEdits, CleanUp, jobVars, reviewVars

LEMMA InvPublish ==
  ASSUME PreviewInv, Tracked, NEW j \in Jobs, Publish(j)
  PROVE  PreviewInv'
<1> USE DEF PreviewInv, reviewVars
<1>1. CASE ~Exists(repo, base[j])
  <2>1. GoodRepo(repo') /\ repo' = repo /\ crashes \in Nat /\ j \in Live
    BY DEF Publish, PreviewTypes, Live
  <2> QED
    BY <1>1, <2>1, InvLabelOnly DEF Publish
<1>2. CASE Exists(repo, base[j])
  <2>1. /\ jpc[j] = "publish" /\ jpc'[j] = "return"
        /\ \A k \in Jobs \ {j} : jpc'[k] = jpc[k] /\ shown'[k] = shown[k]
        /\ shown'[j] = [base |-> base[j], head |-> repo.refs[repo.head]]
        /\ onDisk' = onDisk \cup {j}
        /\ UNCHANGED <<repo, author, preview, base, running, srv, approved, crashes>>
    BY <1>2 DEF Publish, GoesTo, BuildPreview, Tip, PreviewTypes
  <2>2. PreviewTypes'
    <3>1. repo.refs[repo.head] \in SUBSET Changes
      BY DEF PreviewTypes, GoodRepo, WellFormed
    <3>2. shown' \in [Jobs -> [base : Branches, head : SUBSET Changes]]
      BY <1>2, <3>1 DEF Publish, BuildPreview, Tip, PreviewTypes
    <3>3. jpc' \in [Jobs -> Labels]
      BY <1>2 DEF Publish, GoesTo, PreviewTypes, Labels
    <3> QED
      BY <2>1, <3>2, <3>3 DEF PreviewTypes, Tracked, Overlap
  <2>3. Stages'
    BY <2>1 DEF PreviewTypes, Stages, NoTrace, Unpublished, Exists, Deciding
  <2>4. Registered'
    BY <2>1 DEF Registered, Live
  <2>5. ASSUME ~overlapped' PROVE Apart'
    <3>1. Apart /\ (\A i, k \in Live' : i = k) /\ (Deciding' => Live' = {})
      BY <2>5, StaysApart
    <3>2. j \in Live' /\ j \in preview /\ repo.head = j /\ j \notin approved
      BY <2>1, <3>1 DEF Live, Stages, Unpublished, Apart, Alone
    <3>3. Alone'
      BY <2>1, <3>1, <3>2 DEF PreviewTypes, Apart, Alone, Deciding, NoDecision
    <3>4. OwnWork' /\ PreviewIsolated'
      BY <2>1, <3>1 DEF Apart, OwnWork, PreviewIsolated, Exists, May
    <3>5. ShownIsThere' /\ HasBranch'
      BY <2>1, <3>1, <3>2 DEF Apart, ShownIsThere, HasBranch, Exists, PreviewTypes, GoodRepo, WellFormed
    <3>6. ApprovedIsThere'
      BY <2>1, <3>1, <3>2 DEF Apart, ApprovedIsThere, PreviewTypes
    <3> QED
      BY <3>1, <3>3, <3>4, <3>5, <3>6 DEF Apart
  <2> QED
    BY <2>2, <2>3, <2>4, <2>5
<1> QED
  BY <1>1, <1>2

LEMMA InvReturnToBase ==
  ASSUME PreviewInv, Tracked, NEW j \in Jobs, ReturnToBase(j)
  PROVE  PreviewInv'
<1> USE DEF PreviewInv, reviewVars, Ends
<1>1. GoodRepo(repo') /\ repo'.refs = repo.refs
  BY CheckoutEffect DEF ReturnToBase, PreviewTypes, GoodRepo
<1>2. /\ jpc[j] = "return" /\ jpc'[j] = "over" /\ running' = running \ {j}
      /\ \A k \in Jobs \ {j} : jpc'[k] = jpc[k]
      /\ UNCHANGED <<author, preview, base, onDisk, shown, srv, approved, crashes>>
  BY DEF ReturnToBase, PreviewTypes
<1>3. PreviewTypes'
  BY <1>1 DEF ReturnToBase, PreviewTypes, Labels, Tracked, Overlap
<1>4. Stages'
  BY <1>1, <1>2 DEF PreviewTypes, Stages, NoTrace, Unpublished, Exists, Deciding
<1>5. Registered'
  BY <1>2 DEF Registered, Live, PreviewTypes
<1>6. ASSUME ~overlapped' PROVE Apart'
  <2>1. Apart /\ (\A i, k \in Live' : i = k) /\ (Deciding' => Live' = {})
    BY <1>6, StaysApart
  <2>2. j \in Live /\ ~Deciding /\ \A k \in Live : k = j
    BY <1>2, <2>1 DEF Live, Apart, Alone
  <2>3. Alone'
    BY <1>2, <2>1, <2>2 DEF PreviewTypes, Alone, Live, Deciding, NoDecision
  <2>4. OwnWork' /\ ShownIsThere' /\ PreviewIsolated' /\ ApprovedIsThere' /\ HasBranch'
    BY <1>1, <1>2, <2>1
       DEF Apart, OwnWork, ShownIsThere, PreviewIsolated, ApprovedIsThere, HasBranch, Exists, May
  <2> QED
    BY <2>1, <2>3, <2>4 DEF Apart
<1> QED
  BY <1>3, <1>4, <1>5, <1>6

(* Steps of the server that leave the branches alone. *)
LEMMA InvDecision ==
  ASSUME PreviewInv, Tracked,
         GoodRepo(repo'), repo'.refs = repo.refs,
         repo'.head # repo.head => srv.step = "checkout",
         srv' \in {NoDecision} \cup Decisions,
         srv'.step = "merge" => repo'.head = shown[srv'.job].base,
         srv.step = "unlink" => srv' = NoDecision /\ onDisk' = onDisk \ {srv.job},
         srv.step # "unlink" => onDisk' = onDisk,
         Deciding' => srv'.job \in onDisk',
         UNCHANGED <<author, jpc, preview, base, shown, running, approved, crashes>>
  PROVE  PreviewInv'
<1> USE DEF PreviewInv
<1>1. PreviewTypes'
  BY DEF PreviewTypes, Tracked, Overlap
<1>2. onDisk' \subseteq onDisk
  OBVIOUS
<1>3. Stages'
  BY <1>2 DEF Stages, NoTrace, Unpublished, Exists, Deciding
<1>4. Registered'
  BY DEF Registered, Live
<1>5. ASSUME ~overlapped' PROVE Apart'
  <2>1. Apart /\ (\A i, k \in Live' : i = k) /\ (Deciding' => Live' = {})
    BY <1>5, StaysApart
  <2>2. repo'.head # repo.head => Live = {}
    BY <2>1 DEF Apart, Alone, Deciding, NoDecision
  <2>3. Alone'
    BY <2>1, <2>2 DEF PreviewTypes, Apart, Alone, Live
  <2>4. HasBranch'
    BY <1>2, <2>1 DEF Apart, HasBranch, Exists, PreviewTypes, Deciding, NoDecision, Decisions
  <2>5. OwnWork' /\ ShownIsThere' /\ PreviewIsolated' /\ ApprovedIsThere'
    BY <2>1 DEF Apart, OwnWork, ShownIsThere, PreviewIsolated, ApprovedIsThere, Exists, May
  <2> QED
    BY <2>1, <2>3, <2>4, <2>5 DEF Apart
<1> QED
  BY <1>1, <1>3, <1>4, <1>5

LEMMA InvBegins ==
  ASSUME PreviewInv, Tracked, NEW j \in Jobs, BeginApprove(j) \/ BeginDiscard(j)
  PROVE  PreviewInv'
<1>1. GoodRepo(repo') /\ repo' = repo
  BY DEF BeginApprove, BeginDiscard, PreviewInv, PreviewTypes
<1>2. /\ srv' \in Decisions /\ srv'.step # "merge" /\ srv'.job \in onDisk
      /\ srv.step # "unlink"
  BY DEF BeginApprove, BeginDiscard, Decisions, Deciding, NoDecision
<1> QED
  BY <1>1, <1>2, InvDecision DEF BeginApprove, BeginDiscard, jobVars

LEMMA InvCheckoutBase ==
  ASSUME PreviewInv, Tracked, CheckoutBase
  PROVE  PreviewInv'
<1> USE DEF PreviewInv
<1>1. PICK o \in Checkout(repo, shown[srv.job].base) :
        /\ repo' = o.repo
        /\ IF o.ok
           THEN Proceed(IF srv.op = "approve" THEN "merge" ELSE "delete") /\ UNCHANGED approved
           ELSE Conclude
  BY DEF CheckoutBase
<1>2. /\ GoodRepo(repo') /\ repo'.refs = repo.refs
      /\ o.ok \in BOOLEAN /\ (o.ok => repo'.head = shown[srv.job].base)
  BY <1>1, CheckoutEffect DEF PreviewTypes, GoodRepo
<1>3. srv.step = "checkout" /\ srv \in Decisions /\ srv.job \in onDisk
  BY DEF CheckoutBase, PreviewTypes, NoDecision, Stages, Deciding
<1>4. CASE o.ok
  <2>1. srv' \in Decisions /\ srv'.job = srv.job
    BY <1>1, <1>3, <1>4 DEF Proceed, Decisions
  <2> QED
    BY <1>1, <1>2, <1>3, <1>4, <2>1, InvDecision DEF CheckoutBase, jobVars
<1>5. CASE ~o.ok
  BY <1>1, <1>2, <1>3, <1>5, InvDecision DEF CheckoutBase, jobVars, Conclude, NoDecision, Deciding
<1> QED
  BY <1>2, <1>4, <1>5

LEMMA InvUnlink ==
  ASSUME PreviewInv, Tracked, Unlink
  PROVE  PreviewInv'
<1>1. GoodRepo(repo') /\ repo' = repo
  BY DEF Unlink, PreviewInv, PreviewTypes
<1> QED
  BY <1>1, InvDecision DEF Unlink, Conclude, NoDecision, Deciding

LEMMA InvServerDies ==
  ASSUME PreviewInv, Tracked, ServerDies
  PROVE  PreviewInv'
<1> USE DEF PreviewInv, ServerDies
<1>1. crashes' > 0
  BY DEF PreviewTypes
<1>2. PreviewTypes'
  BY DEF PreviewTypes, Tracked, Overlap
<1>3. Stages'
  BY DEF Stages, NoTrace, Unpublished, Exists, Deciding
<1>4. Registered'
  BY <1>1 DEF Registered
<1>5. ASSUME ~overlapped' PROVE Apart'
  <2>1. Apart /\ (\A i, k \in Live' : i = k) /\ (Deciding' => Live' = {})
    BY <1>5, StaysApart
  <2>2. Alone'
    BY <2>1 DEF Apart, Alone, NoDecision, Deciding
  <2>3. OwnWork' /\ ShownIsThere' /\ PreviewIsolated' /\ ApprovedIsThere' /\ HasBranch'
    BY <1>1, <2>1
       DEF Apart, OwnWork, ShownIsThere, PreviewIsolated, ApprovedIsThere, HasBranch, Exists, May
  <2> QED
    BY <2>1, <2>2, <2>3 DEF Apart
<1> QED
  BY <1>2, <1>3, <1>4, <1>5

LEMMA InvMergeBranch ==
  ASSUME PreviewInv, Tracked, MergeBranch
  PROVE  PreviewInv'
<1> USE DEF PreviewInv
<1>1. PICK o \in FastForward(repo, srv.job) :
        repo' = o.repo /\ IF o.ok THEN Merged ELSE Conclude
  BY DEF MergeBranch
<1>2. /\ GoodRepo(repo') /\ repo'.head = repo.head /\ DOMAIN repo'.refs = DOMAIN repo.refs
      /\ o.ok \in BOOLEAN /\ (~o.ok => repo' = repo)
      /\ o.ok => srv.job \in DOMAIN repo.refs
                 /\ repo'.refs[repo.head] = repo.refs[repo.head] \cup repo.refs[srv.job]
      /\ \A x \in DOMAIN repo.refs : x # repo.head => repo'.refs[x] = repo.refs[x]
  <2>1. WellFormed(repo, Changes)
    BY DEF PreviewTypes, GoodRepo
  <2>2. /\ WellFormed(repo', Changes) /\ repo'.head = repo.head /\ DOMAIN repo'.refs = DOMAIN repo.refs
        /\ o.ok \in BOOLEAN /\ (~o.ok => repo' = repo)
        /\ o.ok => srv.job \in DOMAIN repo.refs
                   /\ repo'.refs[repo.head] = repo.refs[repo.head] \cup repo.refs[srv.job]
        /\ \A x \in DOMAIN repo.refs : x # repo.head => repo'.refs[x] = repo.refs[x]
    BY <1>1, <2>1, FastForwardEffect
  <2> QED
    BY <2>2 DEF PreviewTypes, GoodRepo
<1>3. srv.step = "merge" /\ srv \in Decisions /\ srv.job \in onDisk /\ srv.job \in Jobs
  BY DEF MergeBranch, PreviewTypes, NoDecision, Stages, Deciding, Decisions
<1>4. CASE ~o.ok
  BY <1>1, <1>2, <1>3, <1>4, InvDecision
     DEF MergeBranch, jobVars, Conclude, NoDecision, Deciding
<1>5. CASE o.ok
  <2>1. /\ srv' \in Decisions /\ srv'.job = srv.job /\ srv'.step = "delete"
        /\ approved' = approved \cup {srv.job}
        /\ UNCHANGED <<author, jpc, preview, base, onDisk, shown, running, crashes>>
    BY <1>1, <1>3, <1>5 DEF Merged, Proceed, Decisions, MergeBranch, jobVars
  <2>2. repo'.refs[repo.head] = repo.refs[repo.head] \cup repo.refs[srv.job]
    BY <1>2, <1>5
  <2>3. \A x \in DOMAIN repo.refs : repo.refs[x] \subseteq repo'.refs[x]
    BY <1>2, <2>2
  <2>4. PreviewTypes'
    BY <1>2, <1>3, <2>1 DEF PreviewTypes, Tracked, Overlap
  <2>5. jpc[srv.job] \in {"return", "over"} /\ shown[srv.job].base = base[srv.job]
    BY <1>3 DEF Stages, Unpublished
  <2>6. Stages'
    <3>1. \A x \in DOMAIN repo'.refs : \A ch \in repo'.refs[x] : author'[ch] # None
      BY <1>2, <1>5, <2>1 DEF Stages
    <3> QED
      BY <1>2, <1>3, <2>1, <2>5, <3>1 DEF Stages, NoTrace, Unpublished, Exists, Deciding
  <2>7. Registered'
    BY <2>1 DEF Registered, Live
  <2>8. ASSUME ~overlapped' PROVE Apart'
    <3>1. Apart /\ (\A i, k \in Live' : i = k) /\ (Deciding' => Live' = {})
      BY <2>8, StaysApart
    <3>2. repo.head = base[srv.job]
      BY <1>3, <2>5, <3>1 DEF Apart, Alone
    <3>3. Alone'
      BY <1>2, <2>1, <3>1 DEF Apart, Alone
    <3>4. \A ch, k : May(ch, k) => May(ch, k)'
      BY <2>1 DEF May
    <3>5. \A ch, k : May(ch, srv.job) => May(ch, k)'
      BY <2>1 DEF May
    <3>6. \A x \in DOMAIN repo.refs : \A ch \in repo'.refs[x] :
            ch \in repo.refs[x] \/ \A k \in Jobs : May(ch, k)'
      BY <1>2, <1>3, <1>5, <2>2, <3>1, <3>2, <3>5
         DEF Apart, OwnWork, Exists, PreviewTypes, GoodRepo, WellFormed
    <3>7. OwnWork'
      BY <1>2, <2>1, <2>3, <3>1, <3>4, <3>6 DEF Apart, OwnWork, Exists
    <3>8. PreviewIsolated'
      <4>1. ASSUME NEW ch \in repo'.refs[Trunk], author[ch] \in preview
            PROVE  author[ch] \in approved'
        <5>1. ch \in repo.refs[Trunk] \/ (Trunk = repo.head /\ ch \in repo.refs[srv.job])
          BY <1>2, <2>2, <4>1 DEF PreviewTypes, GoodRepo, WellFormed
        <5>2. CASE ch \in repo.refs[Trunk]
          BY <2>1, <3>1, <4>1, <5>2 DEF Apart, PreviewIsolated
        <5>3. CASE ch \notin repo.refs[Trunk]
          <6>1. May(ch, srv.job)
            BY <1>2, <1>3, <1>5, <3>1, <3>2, <5>1, <5>3
               DEF Apart, OwnWork, Exists, PreviewTypes, GoodRepo, WellFormed
          <6> QED
            BY <2>1, <4>1, <6>1 DEF May
        <5> QED
          BY <5>2, <5>3
      <4> QED
        BY <2>1, <4>1 DEF PreviewIsolated
    <3>9. ShownIsThere' /\ HasBranch'
      BY <1>2, <1>3, <2>1, <2>3, <3>1 DEF Apart, ShownIsThere, HasBranch, Exists
    <3>10. shown[srv.job].base = Trunk => shown[srv.job].head \subseteq repo'.refs[Trunk]
      BY <1>2, <1>3, <1>5, <2>2, <2>5, <3>1, <3>2 DEF Apart, ShownIsThere, Exists
    <3>11. ApprovedIsThere'
      BY <2>1, <2>3, <3>1, <3>10 DEF Apart, ApprovedIsThere, PreviewTypes, GoodRepo, WellFormed
    <3> QED
      BY <3>1, <3>3, <3>7, <3>8, <3>9, <3>11 DEF Apart
  <2> QED
    BY <2>4, <2>6, <2>7, <2>8
<1> QED
  BY <1>2, <1>4, <1>5

LEMMA InvDropBranch ==
  ASSUME PreviewInv, Tracked, DropBranch
  PROVE  PreviewInv'
<1> USE DEF PreviewInv
<1>1. PICK o \in DeleteBranch(repo, srv.job) :
        repo' = o.repo /\ IF o.ok THEN Proceed("unlink") /\ UNCHANGED approved ELSE Conclude
  BY DEF DropBranch
<1>2. srv.step = "delete" /\ srv \in Decisions /\ srv.job \in onDisk /\ srv.job \in Jobs
  BY DEF DropBranch, PreviewTypes, NoDecision, Stages, Deciding, Decisions
<1>3. /\ GoodRepo(repo') /\ repo'.head = repo.head
      /\ o.ok \in BOOLEAN /\ (~o.ok => repo' = repo)
      /\ o.ok => DOMAIN repo'.refs = DOMAIN repo.refs \ {srv.job}
      /\ \A x \in DOMAIN repo'.refs : repo'.refs[x] = repo.refs[x]
  BY <1>1, <1>2, DeleteBranchEffect, BranchNamesAssumption DEF PreviewTypes, GoodRepo
<1>4. CASE ~o.ok
  BY <1>1, <1>2, <1>3, <1>4, InvDecision DEF DropBranch, jobVars, Conclude, NoDecision, Deciding
<1>5. CASE o.ok
  <2>1. /\ srv' \in Decisions /\ srv'.job = srv.job /\ srv'.step = "unlink"
        /\ UNCHANGED <<author, jpc, preview, base, onDisk, shown, running, approved, crashes>>
    BY <1>1, <1>2, <1>5 DEF Proceed, Decisions, DropBranch, jobVars
  <2>2. PreviewTypes'
    BY <1>3, <2>1 DEF PreviewTypes, Tracked, Overlap
  <2>3. Stages'
    BY <1>2, <1>3, <1>5, <2>1 DEF Stages, NoTrace, Unpublished, Exists, Deciding
  <2>4. Registered'
    BY <2>1 DEF Registered, Live
  <2>5. ASSUME ~overlapped' PROVE Apart'
    <3>1. Apart /\ (\A i, k \in Live' : i = k) /\ (Deciding' => Live' = {})
      BY <2>5, StaysApart
    <3>2. Alone'
      BY <1>3, <2>1, <3>1 DEF Apart, Alone
    <3>3. OwnWork' /\ ShownIsThere'
      BY <1>3, <1>5, <2>1, <3>1 DEF Apart, OwnWork, ShownIsThere, Exists, May
    <3>4. Trunk \in DOMAIN repo'.refs
      BY <1>3 DEF GoodRepo, WellFormed
    <3>5. PreviewIsolated' /\ ApprovedIsThere'
      BY <1>3, <2>1, <3>1, <3>4 DEF Apart, PreviewIsolated, ApprovedIsThere
    <3>6. HasBranch'
      BY <1>2, <1>3, <1>5, <2>1, <3>1 DEF Apart, HasBranch, Exists
    <3> QED
      BY <3>1, <3>2, <3>3, <3>5, <3>6 DEF Apart
  <2> QED
    BY <2>2, <2>3, <2>4, <2>5
<1> QED
  BY <1>3, <1>4, <1>5

LEMMA InvNext == PreviewInv /\ [Next]_vars => PreviewInv'
<1> SUFFICES ASSUME PreviewInv, [Next]_vars PROVE PreviewInv'
  OBVIOUS
<1>1. CASE UNCHANGED vars
  BY <1>1 DEF vars, PreviewInv, PreviewTypes, Stages, Registered, Apart, Alone, OwnWork,
              ShownIsThere, PreviewIsolated, ApprovedIsThere, HasBranch, NoTrace,
              Unpublished, May, Live, Deciding, Exists
<1>2. CASE Next
  <2>1. Tracked
    BY <1>2 DEF Next, Tracked
  <2>2. ASSUME NEW j \in Jobs, NEW p \in BOOLEAN, RunFix(j, p) PROVE PreviewInv'
    BY <2>1, <2>2, InvRunFix
  <2>3. ASSUME NEW j \in Jobs, JobStep(j) PROVE PreviewInv'
    BY <2>1, <2>3, InvReadBase, InvCreateBranch, InvAgentCommits, InvEdits, InvAgentEnds,
       InvPublish, InvReturnToBase DEF JobStep
  <2>4. ASSUME Review PROVE PreviewInv'
    BY <2>1, <2>4, InvBegins, InvCheckoutBase, InvMergeBranch, InvDropBranch, InvUnlink DEF Review
  <2>5. CASE CleanUp
    BY <2>1, <2>5, InvEdits
  <2>6. ASSUME NEW j \in Jobs, JobDies(j) PROVE PreviewInv'
    BY <2>1, <2>6, InvAgentEnds
  <2>7. CASE ServerDies
    BY <2>1, <2>7, InvServerDies
  <2> QED
    BY <1>2, <2>2, <2>3, <2>4, <2>5, <2>6, <2>7 DEF Next
<1> QED
  BY <1>1, <1>2

(* Every reachable state satisfies the invariant. *)
THEOREM PreviewInductive == Spec => []PreviewInv
<1> QED
  BY InvInit, InvNext, PTL DEF Spec

-----------------------------------------------------------------------------
(* The properties, for any number of jobs, changes and deaths. *)

(* running_fix keeps a second fix away while the server lives: no two scripts of the
   target are at work, whatever the review decides meanwhile. *)
THEOREM FixesAreAlone == Spec => []OneFixAtATime
<1>1. PreviewInv => OneFixAtATime
  <2> SUFFICES ASSUME PreviewInv, crashes = 0 PROVE Cardinality(Live) <= 1
    BY DEF OneFixAtATime
  <2>1. \A i, j \in Live : i = j
    BY DEF PreviewInv, Registered
  <2>2. CASE Live = {}
    BY <2>2, FS_EmptySet
  <2>3. CASE Live # {}
    <3>1. PICK i \in Live : TRUE
      BY <2>3
    <3>2. Live = {i}
      BY <2>1, <3>1
    <3>3. Cardinality({i}) = 1
      BY FS_Singleton
    <3> QED
      BY <3>2, <3>3
  <2> QED
    BY <2>2, <2>3
<1> QED
  BY <1>1, PreviewInductive, PTL

(* Unless a fix and a decision, or two fixes after a restart, were under way at once, a
   preview agent's commits are on the default branch only after the approval of its job,
   however previews are stacked on each other. *)
THEOREM PreviewsStayIsolated == Spec => []PreviewIsolatedUnlessOverlap
<1>1. PreviewInv => PreviewIsolatedUnlessOverlap
  BY DEF PreviewInv, Apart, PreviewIsolatedUnlessOverlap
<1> QED
  BY <1>1, PreviewInductive, PTL

(* Unless they overlapped, what was shown and approved stays on the default branch. *)
THEOREM ApprovalsLast == Spec => []ApprovedStays
<1>1. PreviewInv => ApprovedStays
  BY DEF PreviewInv, Apart, ApprovedIsThere, ApprovedStays
<1> QED
  BY <1>1, PreviewInductive, PTL

(* Unless they overlapped or one died, a preview without a decision has its branch, with
   everything its file shows. *)
THEOREM UndecidedKeepTheirBranch == Spec => []UndecidedIsIntact
<1>1. PreviewInv => UndecidedIsIntact
  BY DEF PreviewInv, Apart, HasBranch, ShownIsThere, UndecidedIsIntact, PreviewTypes
<1> QED
  BY <1>1, PreviewInductive, PTL

=============================================================================

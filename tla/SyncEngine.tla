----------------------------- MODULE SyncEngine ------------------------------
(***************************************************************************)
(* Publishing the dashboard (backoffice/sync).  A run goes through the     *)
(* targets in order: it lists the files of the target, uploads them one    *)
(* after the other to the one storage zone under the target's path, and    *)
(* purges the target's pull zone.  An upload reads the file and sends it,  *)
(* several times at most.  Nothing is deleted from the storage zone.       *)
(*                                                                         *)
(* A local file is a pair <<directory, name>>, a remote one <<path, name>> *)
(* or, for a preview, <<path, repository, name>>; a file has a version, 0  *)
(* when it is not there.  Departments other than qa and self-audit are     *)
(* named like seo.                                                         *)
(***************************************************************************)
EXTENDS Naturals, Sequences, FiniteSets, SequencesExt

CONSTANTS
  SyncTargets,   \* the targets: sequence of [path, zone, repo, admin, public]
  SyncDepts,     \* departments a quick sync may be for, "" among them for a full one
  Previews,      \* local preview artifacts that may exist
  Produced,      \* local files that exist, or may come to exist (departments not run have none)
  MaxTries,      \* MAX_RETRIES
  MaxVersion     \* bound on the version of a file

ASSUME SyncAssumption ==
  /\ SyncTargets \in Seq([path : STRING, zone : STRING, repo : STRING, admin : BOOLEAN, public : BOOLEAN])
  /\ IsFiniteSet(Previews)
  /\ MaxVersion \in Nat \ {0}

VARIABLES
  disk,       \* local file -> version
  storage,    \* remote file -> version
  edge,       \* pull zone -> remote file -> the version it has cached, or 0
  sync,       \* the sync command: where it is (one runs at a time)
  promised    \* <<pull zone or "", remote file>> -> version a finished sync stands for (history)

syncVars == <<disk, storage, edge, sync, promised>>

-----------------------------------------------------------------------------
DashboardFiles == {<<"dashboard", "index.html">>}
SharedMeta     == {<<"dashboard", "task-queue.json">>}
JobFiles       == {<<"dashboard", ".jobs.json">>}
Regression     == {<<"regression", "log.json">>}

DeptData == [qa |-> <<"findings.json", "qa-data.json">>,
             seo |-> <<"seo-findings.json", "seo-data.json">>,
             selfaudit |-> <<"findings.json", "self-audit-data.json">>]

(* Aggregated file -> its remote name; the self-audit is not among them. *)
AggData == [src \in {"data.json", "seo-data.json"} |-> IF src = "data.json" THEN "qa-data.json" ELSE src]

Named(files, path) == {[local |-> f, remote |-> <<path, f[2]>>] : f \in files}

(* Raw findings of the repository of the target, or the aggregate. *)
DeptMappings(t, dept) ==
  LET name == DeptData[dept][2]
      sources == {src \in DOMAIN AggData : AggData[src] = name}
  IN  IF dept \notin DOMAIN DeptData THEN {}
      ELSE {[local |-> IF t.repo # "" THEN <<t.repo, DeptData[dept][1]>>
                       ELSE <<"dashboard", IF sources = {} THEN name ELSE CHOOSE s \in sources : TRUE>>,
             remote |-> <<t.path, name>>]}

AggMappings(t) ==
  {[local |-> <<"dashboard", src>>, remote |-> <<t.path, AggData[src]>>] : src \in DOMAIN AggData}

(* The artifacts of every repository, under its name, also for a target of one repository. *)
PreviewMappings(t) == {[local |-> p, remote |-> <<t.path, p[1], p[2]>>] : p \in Previews}

Mappings(t, dept) ==
  Named(SharedMeta \cup JobFiles, t.path) \cup
    IF dept # "" THEN DeptMappings(t, dept)
    ELSE Named(DashboardFiles, t.path) \cup PreviewMappings(t) \cup
           IF t.repo # "" THEN UNION {DeptMappings(t, d) : d \in DOMAIN DeptData} ELSE AggMappings(t)

Present(mappings) == {m \in mappings : m.local \in Produced /\ disk[m.local] # 0}

PassesGate(t) == t.admin \/ t.public

Zones == {SyncTargets[i].zone : i \in DOMAIN SyncTargets} \ {""}

(* All that any sync may ever upload, and where to. *)
MayUpload(t) ==
  Mappings(t, "") \cup Named(Regression, t.path) \cup UNION {Mappings(t, d) : d \in DOMAIN DeptData}

Uploads == UNION {{m \in MayUpload(SyncTargets[i]) : m.local \in Produced} : i \in DOMAIN SyncTargets}

RemoteFiles == {m.remote : m \in Uploads}

(* A remote file whose versions are those of one local file: of two targets of one path
   and different repositories, the last one uploaded is served. *)
OneSource(r) == \A m, n \in Uploads : m.remote = r /\ n.remote = r => m.local = n.local

(* No run: the last one was refused (no opt-in), was killed, or there was none. *)
NoSync == [step |-> "none", rc |-> 2]

Serviced == {i \in DOMAIN SyncTargets : PassesGate(SyncTargets[i])}

SyncInit ==
  /\ disk = [f \in Produced |-> 1]
  /\ storage = [r \in RemoteFiles |-> 0]
  /\ edge = [z \in Zones |-> [r \in RemoteFiles |-> 0]]
  /\ sync = NoSync
  /\ promised = [p \in (Zones \cup {""}) \X RemoteFiles |-> 0]

-----------------------------------------------------------------------------
(* A producer rewrites a file; a preview is discarded, or written again.  Files are
   rewritten in place: one that is read meanwhile may be cut short, and goes under its
   new version all the same. *)
LocalChange(f) ==
  /\ \/ disk[f] \in 1 .. MaxVersion - 1 /\ disk' = [disk EXCEPT ![f] = @ + 1]
     \/ f \in Previews /\ disk[f] = 1 /\ disk' = [disk EXCEPT ![f] = 0]
     \/ f \in Previews /\ disk[f] = 0 /\ disk' = [disk EXCEPT ![f] = MaxVersion]
  /\ UNCHANGED <<storage, edge, sync, promised>>

(* A visitor: what is not cached is fetched and cached (uploads set no cache control). *)
Visit(z, r) ==
  /\ edge[z][r] = 0 /\ storage[r] # 0
  /\ edge' = [edge EXCEPT ![z][r] = storage[r]]
  /\ UNCHANGED <<disk, storage, sync, promised>>

(* run: a dry run, and one without the opt-in, leave everything as it is. *)
StartSync(dept) ==
  /\ sync.step = "none"
  /\ sync' = [step |-> "target", dept |-> dept, at |-> 1, rc |-> 0, done |-> {}]
  /\ UNCHANGED <<disk, storage, edge, promised>>

NextTarget(run, rc) ==
  [step |-> "target", dept |-> run.dept, at |-> run.at + 1, rc |-> rc, done |-> run.done]

(* The next target: its list of files, those that are there, in a fixed order. *)
BeginTarget ==
  LET run == sync
      t == SyncTargets[run.at]
  IN  /\ run.step = "target"
      /\ sync' =
           IF run.at > Len(SyncTargets) THEN [step |-> "none", rc |-> run.rc, done |-> run.done]
           ELSE IF ~PassesGate(t) THEN NextTarget(run, run.rc)
           ELSE LET listed == Present(Mappings(t, run.dept)) IN
                [step |-> "upload", dept |-> run.dept, at |-> run.at, rc |-> run.rc, done |-> run.done,
                 left |-> SetToSeq(listed), logs |-> FALSE,
                 seen |-> {<<m.remote, disk[m.local]>> : m \in listed}, try |-> 1, data |-> 0]
      /\ UNCHANGED <<disk, storage, edge, promised>>

(* Mutant: the last failure is logged like the ones before. *)
GivesUpQuietly(run) == [run EXCEPT !.step = "upload", !.left = Tail(@), !.try = 1]

(* What the last failure of an upload comes to. *)
GivesUp(run) == NextTarget(run, 1)

(* An attempt has failed. *)
TriesAgain(run) ==
  IF run.try < MaxTries THEN [run EXCEPT !.step = "upload", !.try = @ + 1] ELSE GivesUp(run)

(* upload_file reads the file, for each attempt anew.  One that has gone fails the
   attempt, or if stat misses it before the first, the target. *)
ReadFile ==
  LET run == sync
      version == disk[run.left[1].local]
  IN  /\ run.step = "upload" /\ run.left # <<>>
      /\ \/ version # 0 /\ sync' = [run EXCEPT !.step = "put", !.data = version]
         \/ version = 0 /\ sync' = TriesAgain(run)
         \/ version = 0 /\ run.try = 1 /\ sync' = NextTarget(run, 1)
      /\ UNCHANGED <<disk, storage, edge, promised>>

(* The request, MAX_RETRIES times at most: stored, lost, or stored with the answer lost. *)
PutFile ==
  LET run == sync IN
  /\ run.step = "put"
  /\ \E stored, answered \in BOOLEAN :
       /\ answered => stored
       /\ storage' = IF stored THEN [storage EXCEPT ![run.left[1].remote] = run.data] ELSE storage
       /\ sync' =
            IF answered THEN [run EXCEPT !.step = "upload", !.left = Tail(@), !.try = 1]
            ELSE TriesAgain(run)
  /\ UNCHANGED <<disk, edge, promised>>

(* The order of the steps of a target: files, purge, and for a full sync the logs. *)
AfterFiles(run) == IF run.logs THEN NextTarget(run, run.rc)
                   ELSE [run EXCEPT !.step = "purge", !.done = @ \cup {run.at}]

FilesDone ==
  LET run == sync IN
  /\ run.step = "upload" /\ run.left = <<>>
  /\ sync' = AfterFiles(run)
  /\ promised' = [p \in DOMAIN promised |->
       IF p[1] = "" /\ \E v \in run.seen : v[1] = p[2]
       THEN (CHOOSE v \in run.seen : v[1] = p[2])[2] ELSE promised[p]]
  /\ UNCHANGED <<disk, storage, edge>>

AfterPurge(run, t) ==
  IF run.dept = "" THEN [run EXCEPT !.step = "upload", !.logs = TRUE, !.try = 1,
                                    !.left = SetToSeq(Present(Named(Regression, t.path)))]
  ELSE NextTarget(run, run.rc)

(* The whole zone is purged; a failure is logged, and the run is as good as before. *)
Purge ==
  LET run == sync
      t == SyncTargets[run.at]
  IN  /\ run.step = "purge"
      /\ \E purged \in BOOLEAN :
           /\ purged => t.zone # ""
           /\ edge' = IF purged THEN [edge EXCEPT ![t.zone] = [r \in RemoteFiles |-> 0]] ELSE edge
           /\ promised' = [p \in DOMAIN promised |->
                IF purged /\ p[1] = t.zone /\ \E v \in run.seen : v[1] = p[2]
                THEN (CHOOSE v \in run.seen : v[1] = p[2])[2] ELSE promised[p]]
      /\ sync' = AfterPurge(run, t)
      /\ UNCHANGED <<disk, storage>>

(* Killed by the operator, or the machine goes down. *)
SyncDies ==
  /\ sync.step # "none"
  /\ sync' = NoSync
  /\ UNCHANGED <<disk, storage, edge, promised>>

SyncNext ==
  \/ \E f \in Produced : LocalChange(f)
  \/ \E z \in Zones, r \in RemoteFiles : Visit(z, r)
  \/ \E dept \in SyncDepts : StartSync(dept)
  \/ BeginTarget \/ ReadFile \/ PutFile \/ FilesDone \/ Purge \/ SyncDies

-----------------------------------------------------------------------------
(* Exit code 0 means that the files of every target that may be published were. *)
ExitIsHonest == (sync.step = "none" /\ sync.rc = 0) => sync.done = Serviced

(* Once the files of a target are uploaded the storage zone has each of them in the
   version it had when the target began or a later one, and once its zone is purged visitors never get
   an older one, whatever they fetched and cached before or in between, and whatever
   a later sync fails at or dies of; and a sync that reports success has done so for
   every target. *)
SyncedIsServed ==
  /\ ExitIsHonest
  /\ \A r \in {x \in RemoteFiles : OneSource(x)} :
       /\ storage[r] >= promised[<<"", r>>]
       /\ \A z \in Zones : edge[z][r] = 0 \/ edge[z][r] >= promised[<<z, r>>]

=============================================================================

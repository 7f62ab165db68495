------------------------------- MODULE Figures -------------------------------
(***************************************************************************)
(* The computations without state of their own, on every input of a given  *)
(* set: what a deterministic scan reports, what the dashboard and the      *)
(* audit log make of a findings file, what the budgets of a target allow,  *)
(* and how stored records are read.                                        *)
(* A behaviour is one input.                                               *)
(***************************************************************************)
EXTENDS Scanners, Aggregate, DomainRecords, Budgets

CONSTANTS
  ScanScenes,    \* repositories: [dept, languages, files, first, second]
  ToolDeeds,     \* tool -> what it may do
  Minimums,      \* least severities
  Maximums,      \* caps
  BoardDepts,    \* departments
  RawFindings,   \* findings as an agent or a tool writes them
  MostFindings,  \* so many are in a file at most
  OwnSummaries,  \* department -> what its agent writes into the summary, besides the counts
  Overalls,      \* scores outside of the summary
  CostEvents,    \* events of the cost log
  MostCosts,     \* so many are in it at most
  Declarations,  \* lists of budgets
  Hours,         \* times a decision is made at
  FixLogs,       \* fixes.json: id -> status
  StoredValues   \* values of one key of a stored record, of the text spellings and other kinds

(* Inputs that there can be. *)
ASSUME FiguresAssumption ==
  /\ \A scene \in ScanScenes :
       /\ scene.dept \in {"qa"} \cup DOMAIN DeptTools
       /\ scene.languages \in Seq(STRING)
       /\ {scene.first, scene.second} \subseteq ScanTools
  /\ \A tool \in ScanTools : \A x \in ToolDeeds[tool] :
       "items" \in DOMAIN x /\ Len(x.items) \in Nat /\ DOMAIN x.items = 1 .. Len(x.items)
  /\ {MostFindings, MostCosts} \cup Maximums \subseteq Nat
  /\ \A e \in CostEvents : e.usd \in Nat /\ e.at \in Nat \cup {Unparsable}
  /\ \A list \in Declarations : \A k \in DOMAIN list : {list[k].soft, list[k].hard} \subseteq Nat \cup {NoLimit}
  /\ Hours \subseteq Nat
  /\ StoredValues \subseteq Values

VARIABLE figure  \* the input

NoFigure == [of |-> "nothing"]

(* The agent counts its findings in the summary, or not. *)
AgentFiles(dept) ==
  {NoFindings} \cup
    {[summary |-> IF counts THEN WithCounts(own, found) ELSE own, overall |-> overall, findings |-> found] :
       found \in BoundedSeq(RawFindings, MostFindings), own \in OwnSummaries[dept],
       counts \in BOOLEAN, overall \in Overalls}

ToolFiles ==
  {NoFindings} \cup {[EmptyFile EXCEPT !.findings = found] : found \in BoundedSeq(RawFindings, MostFindings)}

FiguresInit == figure = NoFigure

FiguresNext ==
  /\ figure = NoFigure
  /\ \/ \E scene \in ScanScenes :
          \E x \in ToolDeeds[scene.first], y \in ToolDeeds[scene.second], min \in Minimums, max \in Maximums :
            figure' = [of |-> "scan",
                       input |-> [scene |-> scene, first |-> x, second |-> y, min |-> min, max |-> max]]
     \/ \E dept \in BoardDepts : \E file \in AgentFiles(dept), tools \in ToolFiles, fixes \in FixLogs :
          figure' = [of |-> "board", input |-> [dept |-> dept, file |-> file, tools |-> tools, fixes |-> fixes]]
     \/ \E log \in BoundedSeq(CostEvents, MostCosts), budgets \in Declarations, now \in Hours :
          figure' = [of |-> "spending", input |-> [log |-> log, budgets |-> budgets, now |-> now]]
     \/ \E class \in DOMAIN Classes :
        \E key \in DOMAIN Classes[class].kinds \cup {"unknown"}, v \in StoredValues :
          figure' = [of |-> "record", input |-> [class |-> class, raw |-> [k \in {key} |-> v]]]

(* _run_all_tools, where two of the tools that are discovered are installed. *)
ToolResults(x) ==
  LET s == x.scene
      tools == IF s.dept = "qa" THEN DiscoverTools(s.languages, s.files) ELSE DeptTools[s.dept]
  IN  [i \in DOMAIN tools |->
         IF tools[i] = s.first THEN RunTool(tools[i], x.first)
         ELSE IF tools[i] = s.second THEN RunTool(tools[i], x.second) ELSE MissingTool(tools[i])]

-----------------------------------------------------------------------------
(* PayloadKeepsWorst of every scan: a report that is cut has the worst findings. *)
ScansKeepWorst ==
  figure.of = "scan" =>
    LET x == figure.input IN PayloadKeepsWorst(ToolResults(x), x.min, x.max)

(* BoardAddsUp and AuditLogAgrees of every findings file: totals, lists, backlog and
   audit log speak of the same findings. *)
FiguresAddUp ==
  figure.of = "board" =>
    LET x == figure.input IN
    BoardAddsUp(x.file, x.tools, x.dept, x.fixes) /\ AuditLogAgrees(x.file, x.dept)

(* RecordsSettle of every stored record: rewriting it changes nothing more. *)
StoredRecordsSettle ==
  figure.of = "record" =>
    LET x == figure.input IN RecordsSettle(Classes[x.class], x.raw)

(* WindowsNest and CostsOnlyTighten of every cost log, for the scans of a target. *)
SpendingOnlyTightens ==
  figure.of = "spending" =>
    LET x == figure.input
        ctx == [target |-> "r", agent |-> "", task |-> "", run |-> "", department |-> "qa"]
    IN  WindowsNest(x.log, ctx, x.now) /\ CostsOnlyTighten(x.budgets, x.log, "r", "qa", x.now)

(* The four together: no input makes two of the figures disagree. *)
EveryInputAddsUp == ScansKeepWorst /\ FiguresAddUp /\ StoredRecordsSettle /\ SpendingOnlyTightens

=============================================================================

------------------------------ MODULE Scanners -------------------------------
(***************************************************************************)
(* What a deterministic scan computes (backoffice/scanners): which tools   *)
(* run, what an adapter makes of a tool's exit and output, how severities  *)
(* are mapped, and how the findings are merged, filtered, capped and       *)
(* triaged.                                                                *)
(*                                                                         *)
(* A finding is [id, severity, status]: status marks the note of a tool    *)
(* that could not run; an id is [tool, place].  What a tool does is        *)
(* [installed, targets, normalExit, stdout, items]: whether the repository *)
(* has what it looks at, whether it exits with 0 or 1, "empty", "json" or  *)
(* "garbage" output (or "timeout"), and the items the output lists.        *)
(***************************************************************************)
EXTENDS Naturals, Sequences, FiniteSets, SequencesExt

SeverityOrder == <<"critical", "high", "medium", "low", "info">>
Levels == Range(SeverityOrder)

(* SEVERITY_RANK, and its default. *)
Rank(s) == IF s \in Levels THEN CHOOSE i \in 1 .. 5 : SeverityOrder[i] = s ELSE 99

MeetsMinSeverity(s, min) == Rank(s) <= Rank(min)

-----------------------------------------------------------------------------
(* The word of a tool in upper case: the words that have a lower-case form here. *)
Upper(raw) ==
  LET upper == [error |-> "ERROR", warning |-> "WARNING", critical |-> "CRITICAL", high |-> "HIGH",
                medium |-> "MEDIUM", low |-> "LOW", info |-> "INFO"]
  IN  IF raw \in DOMAIN upper THEN upper[raw] ELSE raw

(* Per-tool tables: the word as it is, then in upper case; what is not in a table gets
   its default. *)
CanonicalSeverity(raw, table, default) ==
  LET known == SelectSeq(<<raw, Upper(raw)>>, LAMBDA word : word \in DOMAIN table)
  IN  IF known = <<>> THEN default ELSE table[Head(known)]

SemgrepSeverity(raw) ==
  CanonicalSeverity(raw, [ERROR |-> "high", WARNING |-> "medium", INFO |-> "low", CRITICAL |-> "critical",
                          HIGH |-> "high", MEDIUM |-> "medium", LOW |-> "low"], "low")

NpmSeverity(raw) ==
  CanonicalSeverity(raw, [critical |-> "critical", high |-> "high", moderate |-> "medium",
                          low |-> "low", info |-> "info"], "info")

(* An item of bandit is [severity, sure]: high confidence lifts low to medium. *)
BanditSeverity(item) ==
  LET s == CanonicalSeverity(item.severity, [HIGH |-> "high", MEDIUM |-> "medium", LOW |-> "low"], "low")
  IN  IF s = "low" /\ item.sure THEN "medium" ELSE s

CloudSeverity(raw) ==
  CanonicalSeverity(raw, [CRITICAL |-> "critical", HIGH |-> "high", MEDIUM |-> "medium", LOW |-> "low"],
                    "medium")

AxeSeverity(raw) ==
  CanonicalSeverity(raw, [critical |-> "critical", serious |-> "high", moderate |-> "medium",
                          minor |-> "low"], "low")

(* A rule of ruff is given by its prefixes of length 3, 2 and 1: the first known one. *)
RuffTable == [S |-> "high", F |-> "medium", B |-> "medium", E9 |-> "high", E |-> "low", W |-> "low",
              C |-> "low", ANN |-> "info", D |-> "info", N |-> "info", I |-> "info", UP |-> "info"]

RuffSeverity(prefixes) ==
  LET known == SelectSeq(prefixes, LAMBDA p : p \in DOMAIN RuffTable)
  IN  IF known = <<>> THEN "info" ELSE RuffTable[Head(known)]

-----------------------------------------------------------------------------
(* Adapters: the status of the tool and its findings, of which a tool that is missing
   or has failed has one, the note that it did not run. *)
ToolResult(status, findings) == [status |-> status, findings |-> findings]

StatusFinding(tool) == [id |-> [tool |-> tool, place |-> "status"], severity |-> "info", status |-> TRUE]

MissingTool(tool) == ToolResult("skipped_missing_tool", <<StatusFinding(tool)>>)
FailedTool(tool)  == ToolResult("failed", <<StatusFinding(tool)>>)
NoTargets         == ToolResult("skipped_no_targets", <<>>)

(* _run raises, and so does the adapter: _run_all_tools makes up the result. *)
RaisedTool == ToolResult("failed", <<>>)

(* severities: of each item. *)
OkTool(tool, items, severities) ==
  ToolResult("ok", [i \in DOMAIN items |->
                      [id |-> [tool |-> tool, place |-> items[i].place], severity |-> severities[i],
                       status |-> FALSE]])

(* The output of a tool that was run, where failed says what an unusable one comes to. *)
Parsed(tool, o, failed, severities) ==
  IF o.stdout = "timeout" THEN RaisedTool
  ELSE IF failed \/ o.stdout = "garbage" THEN FailedTool(tool)
  ELSE OkTool(tool, IF o.stdout = "json" THEN o.items ELSE <<>>, severities)

NoOutputIsFailure(o) == o.stdout = "empty"
NoOutputOnBadExit(o) == o.stdout = "empty" /\ ~o.normalExit

RunRuff(o) ==
  IF ~o.installed THEN MissingTool("ruff")
  ELSE Parsed("ruff", o, NoOutputOnBadExit(o),
              [i \in DOMAIN o.items |-> RuffSeverity(o.items[i].raw.prefixes)])

RunBandit(o) ==
  IF ~o.installed THEN MissingTool("bandit")
  ELSE Parsed("bandit", o, NoOutputOnBadExit(o),
              [i \in DOMAIN o.items |-> BanditSeverity(o.items[i].raw)])

RunPipAudit(o) ==
  IF ~o.installed THEN MissingTool("pip-audit")
  ELSE IF ~o.targets THEN NoTargets
  ELSE Parsed("pip-audit", o, NoOutputOnBadExit(o), [i \in DOMAIN o.items |-> "high"])

RunNpmAudit(o) ==
  IF ~o.installed THEN MissingTool("npm-audit")
  ELSE IF ~o.targets THEN NoTargets
  ELSE Parsed("npm-audit", o, NoOutputIsFailure(o),
              [i \in DOMAIN o.items |-> NpmSeverity(o.items[i].raw.severity)])

RunSemgrep(o) ==
  IF ~o.installed THEN MissingTool("semgrep")
  ELSE Parsed("semgrep", o, NoOutputIsFailure(o),
              [i \in DOMAIN o.items |-> SemgrepSeverity(o.items[i].raw.severity)])

(* A bad exit is a failure whatever was printed. *)
RunGitleaks(o) ==
  IF ~o.installed THEN MissingTool("gitleaks")
  ELSE Parsed("gitleaks", o, ~o.normalExit, [i \in DOMAIN o.items |-> "critical"])

(* Nothing to look at until targets declare a URL. *)
RunLighthouse(o) == IF ~o.installed THEN MissingTool("lighthouse") ELSE NoTargets

RunHtmlValidate(o) ==
  IF ~o.installed THEN MissingTool("html-validate")
  ELSE IF ~o.targets THEN NoTargets
  ELSE Parsed("html-validate", o, NoOutputIsFailure(o),
              [i \in DOMAIN o.items |-> IF o.items[i].raw.severe THEN "high" ELSE "medium"])

RunAxeCore(o) ==
  IF ~o.installed THEN MissingTool("axe-core")
  ELSE IF ~o.targets THEN NoTargets
  ELSE Parsed("axe-core", o, NoOutputIsFailure(o),
              [i \in DOMAIN o.items |-> AxeSeverity(o.items[i].raw.severity)])

(* Packages under a licence of the restrictive families. *)
RunLicenseCheck(o) ==
  IF ~o.installed THEN MissingTool("license-checker")
  ELSE IF ~o.targets THEN NoTargets
  ELSE Parsed("license-checker", [o EXCEPT !.items = Restrict(@, {i \in DOMAIN @ : @[i].raw.severe})],
              NoOutputIsFailure(o), [i \in DOMAIN o.items |-> "high"])

RunCheckov(o) ==
  IF ~o.installed THEN MissingTool("checkov")
  ELSE Parsed("checkov", o, NoOutputIsFailure(o),
              [i \in DOMAIN o.items |-> CloudSeverity(o.items[i].raw.severity)])

(* No output means no terraform files. *)
RunTfsec(o) ==
  IF ~o.installed THEN MissingTool("tfsec")
  ELSE IF o.stdout = "empty" THEN NoTargets
  ELSE Parsed("tfsec", o, FALSE, [i \in DOMAIN o.items |-> CloudSeverity(o.items[i].raw.severity)])

RunTool(tool, o) ==
  CASE tool = "ruff"            -> RunRuff(o)
    [] tool = "bandit"          -> RunBandit(o)
    [] tool = "pip-audit"       -> RunPipAudit(o)
    [] tool = "npm-audit"       -> RunNpmAudit(o)
    [] tool = "semgrep"         -> RunSemgrep(o)
    [] tool = "gitleaks"        -> RunGitleaks(o)
    [] tool = "lighthouse"      -> RunLighthouse(o)
    [] tool = "html-validate"   -> RunHtmlValidate(o)
    [] tool = "axe-core"        -> RunAxeCore(o)
    [] tool = "license-checker" -> RunLicenseCheck(o)
    [] tool = "checkov"         -> RunCheckov(o)
    [] tool = "tfsec"           -> RunTfsec(o)

DeptTools == [seo |-> <<"lighthouse", "html-validate">>, ada |-> <<"axe-core">>,
              compliance |-> <<"license-checker", "gitleaks">>, cloudops |-> <<"checkov", "tfsec">>]

ScanTools == {"ruff", "bandit", "pip-audit", "npm-audit", "semgrep", "gitleaks"}
               \cup UNION {Range(DeptTools[d]) : d \in DOMAIN DeptTools}

-----------------------------------------------------------------------------
(* discover_tools for QA: the declared languages, or semgrep; what the markers in the
   repository add; gitleaks. *)
LanguageTools(l) ==
  CASE l = "python" -> <<"semgrep", "ruff", "bandit", "pip-audit">>
    [] l \in {"javascript", "typescript", "js", "ts", "node", "astro"} -> <<"semgrep", "npm-audit">>
    [] l \in {"terraform", "hcl", "go", "rust", "ruby", "java", "kotlin"} -> <<"semgrep">>
    [] OTHER -> <<>>

MarkerTools ==
  <<[marks |-> {"pyproject.toml", "setup.py", "setup.cfg"}, tool |-> "ruff"],
    [marks |-> {"pyproject.toml", "setup.py"}, tool |-> "bandit"],
    [marks |-> {"requirements.txt", "pyproject.toml", "setup.py", "Pipfile"}, tool |-> "pip-audit"],
    [marks |-> {"package.json"}, tool |-> "npm-audit"],
    [marks |-> {"main.tf"}, tool |-> "semgrep"]>>

(* Where something is, in a list of lists: <<which list, where in it>>. *)
PlacesIn(lists) == UNION {{i} \X DOMAIN lists[i] : i \in DOMAIN lists}
At(lists, p) == lists[p[1]][p[2]]
Precedes(p, q) == p[1] < q[1] \/ (p[1] = q[1] /\ p[2] < q[2])

FirstOfEach(lists) ==
  LET first == {p \in PlacesIn(lists) :
                  \A q \in PlacesIn(lists) : Precedes(q, p) => At(lists, q) # At(lists, p)}
  IN  [n \in 1 .. Cardinality(first) |->
         At(lists, CHOOSE p \in first : Cardinality({q \in first : Precedes(q, p)}) = n - 1)]

DiscoverTools(languages, files) ==
  LET declared == [i \in DOMAIN languages |-> LanguageTools(languages[i])]
      default == IF PlacesIn(declared) = {} THEN <<"semgrep">> ELSE <<>>
      marked == [m \in {m \in DOMAIN MarkerTools : MarkerTools[m].marks \cap files # {}} |->
                   MarkerTools[m].tool]
  IN  FirstOfEach(declared \o <<default, marked, <<"gitleaks">>>>)

-----------------------------------------------------------------------------
(* _build_payload. *)
Combined(results) == [i \in DOMAIN results |-> results[i].findings]
AllFindings(results) == UNION {Range(results[i].findings) : i \in DOMAIN results}

(* The findings of the least severity and up, the first with each id. *)
Merged(results, min) ==
  LET lists == Combined(results)
      real == {p \in PlacesIn(lists) :
                 ~At(lists, p).status /\ MeetsMinSeverity(At(lists, p).severity, min)}
      first == {p \in real : \A q \in real : Precedes(q, p) => At(lists, q).id # At(lists, p).id}
  IN  [p \in first |-> At(lists, p)]

(* A stable sort by severity, and the first max of it. *)
Ahead(found, p) ==
  {q \in DOMAIN found : \/ Rank(found[q].severity) < Rank(found[p].severity)
                        \/ Rank(found[q].severity) = Rank(found[p].severity) /\ Precedes(q, p)}

Capped(found, max) == {p \in DOMAIN found : Cardinality(Ahead(found, p)) < max}

Payload(results, min, max) ==
  LET found == Merged(results, min)
      kept == Capped(found, max)
  IN  [findings |-> {found[i] : i \in kept} \cup {f \in AllFindings(results) : f.status},
       total |-> Cardinality(kept),
       toolsRun |-> Cardinality({i \in DOMAIN results : results[i].status = "ok"}),
       toolsSkipped |-> Cardinality({i \in DOMAIN results : results[i].status # "ok"})]

(* triage_payload: the model may lower the severity, on findings that are not notes. *)
TriagedSeverity(f, proposed) ==
  IF ~f.status /\ proposed \in Levels
     /\ Rank(proposed) >= (IF f.severity \in Levels THEN Rank(f.severity) ELSE 5)
  THEN proposed ELSE f.severity

-----------------------------------------------------------------------------
(* Whatever the tools do, a scan reports what it found of the worst severities: no
   finding is dropped for the cap while a lesser one stays, no id comes twice, a tool
   that failed or is missing leaves a note unless it had to be stopped, and triage
   never makes a finding worse than its tool said. *)
PayloadKeepsWorst(results, min, max) ==
  LET p == Payload(results, min, max)
      real == {f \in p.findings : ~f.status}
      eligible == {f \in AllFindings(results) : ~f.status /\ MeetsMinSeverity(f.severity, min)}
  IN  /\ p.total <= max
      /\ \A f \in eligible, g \in real :
           \/ f \in real
           \/ Rank(f.severity) >= Rank(g.severity)
           \/ \E h \in eligible : h # f /\ h.id = f.id
      /\ \A f, g \in real : f.id = g.id => f = g
      /\ \A i \in DOMAIN results :
           \/ results[i].status \in {"ok", "skipped_no_targets"}
           \/ results[i] = RaisedTool
           \/ \E f \in p.findings : f.status /\ f \in Range(results[i].findings)
      /\ p.toolsRun + p.toolsSkipped = Len(results)
      /\ \A f \in real, s \in Levels : f.severity \in Levels => Rank(TriagedSeverity(f, s)) >= Rank(f.severity)

=============================================================================

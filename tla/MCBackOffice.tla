---------------------------- MODULE MCBackOffice -----------------------------
(* Instances of the parts of Back Office for TLC. *)
EXTENDS BackOffice

(* Callers of the records and commands, here the same two, are interchangeable: nothing
   orders them. *)
Callers == Permutations(Commands)

-----------------------------------------------------------------------------
(* The control plane. *)
MCDeclared ==
  {[trigger |-> "cron", interval |-> 2, action |-> "noop", budget |-> TRUE, paused |-> FALSE],
   [trigger |-> "cron", interval |-> 2, action |-> "run_agent", budget |-> FALSE, paused |-> TRUE],
   [trigger |-> "manual", interval |-> 0, action |-> "noop", budget |-> FALSE, paused |-> FALSE],
   [trigger |-> "yearly", interval |-> 1, action |-> "noop", budget |-> FALSE, paused |-> FALSE]}

MCTokens == {"t1", "t2"}
MCOwnerOf == [t \in MCTokens |-> "a"]

MCSessions == {"s1", "s2", "s3"}
MCSessionAgent == [s \in MCSessions |-> IF s = "s3" THEN "b" ELSE "a"]

AgentBudget(id, soft, hard) ==
  [scope |-> "agent", scope_id |-> id, period |-> "lifetime", soft |-> soft, hard |-> hard]

MCAgentBudgets == <<AgentBudget("a", 1, 2), AgentBudget("b", 1, NoLimit)>>

MCAdapterOf == [noop |-> "noop", backend |-> "legacy_backend", approved |-> "claude_code",
                unasked |-> "claude_code", protected |-> "claude_code"]

MCBackends == <<"codex", "claude">>
MCPreferences == {<<>>, <<"claude">>, <<"claude", "codex">>, <<"codex">>}

-----------------------------------------------------------------------------
(* From scans to the dashboard. *)
MCDepts == <<"compliance">>

MCFindings == {"f1", "f2"}
MCRefused == {"f2"}
MCListings == {[h \in MCFindings |-> 0], [f1 |-> 2, f2 |-> 0], [f1 |-> 0, f2 |-> 1]}

MCSuites == <<"p", "t", "n">>
MCCoverageKind == [p |-> "python", t |-> "other", n |-> "python"]

Target(path, zone, repo, admin, public) ==
  [path |-> path, zone |-> zone, repo |-> repo, admin |-> admin, public |-> public]

(* Two sites on one path, of one repository and of them all, and one without permission. *)
MCSyncTargets == <<Target("", "", "r", FALSE, TRUE), Target("", "z1", "", TRUE, FALSE),
                   Target("www", "", "r", FALSE, FALSE)>>
MCPreviews == {<<"r", "preview-1.json">>}
MCProduced == {<<"dashboard", "data.json">>, <<"r", "preview-1.json">>}

-----------------------------------------------------------------------------
(* What the tools of a scan may do. *)
Does(there, targets, normalExit, stdout, items) ==
  [installed |-> there, targets |-> targets, normalExit |-> normalExit, stdout |-> stdout, items |-> items]

Unusable ==
  {Does(FALSE, TRUE, TRUE, "empty", <<>>), Does(TRUE, FALSE, TRUE, "json", <<>>)}
    \cup {Does(TRUE, TRUE, normal, out, <<>>) : normal \in BOOLEAN, out \in {"empty", "garbage", "timeout"}}

Item(place, raw) == [place |-> place, raw |-> raw]

ItemLists(raws) ==
  {<<>>} \cup {<<Item("x", r)>> : r \in raws}
    \cup {<<Item("x", r), Item(p, q)>> : p \in {"x", "y"}, r, q \in raws}

Working(raws) == {Does(TRUE, TRUE, normal, "json", items) : normal \in BOOLEAN, items \in ItemLists(raws)}

Severities(names) == {[severity |-> s] : s \in names}
Severes == {[severe |-> b] : b \in BOOLEAN}

Raws ==
  [ruff |-> {[prefixes |-> <<"S10", "S1", "S">>], [prefixes |-> <<"XYZ", "XY", "X">>]},
   bandit |-> {[severity |-> "HIGH", sure |-> FALSE], [severity |-> "LOW", sure |-> TRUE]},
   semgrep |-> Severities({"error", "odd"}), gitleaks |-> Severities({"any"}),
   checkov |-> Severities({"CRITICAL", "odd"}), tfsec |-> Severities({"LOW", "HIGH"}), lighthouse |-> Severes]
  @@ "npm-audit" :> Severities({"moderate", "critical"}) @@ "pip-audit" :> Severities({"any"})
  @@ "html-validate" :> Severes @@ "axe-core" :> Severities({"serious", "minor"})
  @@ "license-checker" :> Severes

MCToolDeeds == [t \in ScanTools |-> Unusable \cup Working(Raws[t])]

Scene(dept, languages, files, tool, other) ==
  [dept |-> dept, languages |-> languages, files |-> files, first |-> tool, second |-> other]

MCScanScenes ==
  {Scene("qa", <<"python">>, {}, "ruff", "bandit"),
   Scene("qa", <<"typescript">>, {"setup.py"}, "npm-audit", "pip-audit"),
   Scene("qa", <<>>, {"main.tf", "package.json"}, "semgrep", "gitleaks"),
   Scene("seo", <<>>, {}, "lighthouse", "html-validate"),
   Scene("ada", <<>>, {}, "axe-core", "axe-core"),
   Scene("compliance", <<>>, {}, "license-checker", "gitleaks"),
   Scene("cloudops", <<>>, {}, "checkov", "tfsec")}

-----------------------------------------------------------------------------
(* Findings files. *)
Finding(id, text, loud, severity) ==
  [id |-> id, title |-> [text |-> text, loud |-> loud], severity |-> severity,
   effort |-> "low", private |-> loud]

MCRawFindings ==
  {Finding("1", "t1", FALSE, "high") @@ [file |-> "a"],
   Finding("2", "t1", TRUE, "High") @@ [location |-> "a"],
   Finding("3", "t2", TRUE, "critical") @@ [file |-> "", location |-> "a", trust_class |-> ""],
   Finding("4", "t2", FALSE, "low") @@ [file |-> "a", trust_class |-> "advisory"],
   Finding("5", "t3", FALSE, "low") @@ [file |-> "b", trust_class |-> "odd"]}

MCOwnSummaries ==
  LET none == [k \in {} |-> 0]
      stale == [total |-> 9, high |-> 3]
  IN  [qa |-> {none, stale},
       seo |-> {stale @@ [seo_score |-> 80], [seo_score |-> 0]},
       compliance |-> {[compliance_score |-> 70]},
       monetization |-> {[monetization_readiness_score |-> 60], [total_opportunities |-> 9, high_value |-> 3]}]

MCFixLogs == {[k \in {"1", "4"} |-> IF k = "1" THEN "fixed" ELSE "odd"]}

-----------------------------------------------------------------------------
(* Costs and budgets of a target: hour 744 is the first of the second month. *)
Cost(target, hour) == [agent |-> "a", target |-> target, task |-> "", run |-> "run", usd |-> 1, at |-> hour]
MCCostEvents == {Cost("r", h) : h \in {20, 180, 745, Unparsable}} \cup {Cost("other", 180)}

Budget(scope, id, period, soft, hard) ==
  [scope |-> scope, scope_id |-> id, period |-> period, soft |-> soft, hard |-> hard]

MCDeclarations ==
  {<<>>, <<Budget("target", "", "daily", 1, 1)>>,
   <<Budget("global", "", "weekly", 1, 2), Budget("department", "qa", "monthly", NoLimit, 1)>>,
   <<Budget("target", "r", "daily", 1, NoLimit), Budget("agent", "a", "lifetime", 1, 1)>>}

=============================================================================

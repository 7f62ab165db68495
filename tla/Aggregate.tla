------------------------------ MODULE Aggregate ------------------------------
(***************************************************************************)
(* What the dashboard shows of the findings files of a repository          *)
(* (backoffice/aggregate.py, the pure part of backlog.py) and what the     *)
(* audit log makes of the same files (summarize_department in workflow.py).*)
(*                                                                         *)
(* A raw finding is a dictionary: a record with the keys that its author   *)
(* wrote.  A title is [text, loud]: loud stands for case and blanks, which *)
(* an identity does not see.  A findings file is [summary, overall,        *)
(* findings]: summary has the keys that the agent wrote, overall is the    *)
(* score outside of it.  NoFindings is a file that is missing or not JSON. *)
(***************************************************************************)
EXTENDS Integers, Sequences, FiniteSets, SequencesExt

CONSTANTS NoFindings, NoScore

SeverityLevels == {"critical", "high", "medium", "low", "info"}

(* The first of the keys that is there, or the default. *)
GetFirst(d, keys, default) ==
  LET present == {n \in DOMAIN keys : keys[n] \in DOMAIN d}
  IN  IF present = {} THEN default ELSE d[keys[Min(present)]]

-----------------------------------------------------------------------------
(* backlog.py: the canonical form of a finding, and its identity. *)
TrustClasses == {"objective", "advisory"}

TrustClassFor(dept) ==
  IF dept \in {"qa", "ada", "compliance", "privacy", "cloud-ops"} THEN "objective" ELSE "advisory"

EffortMap ==
  [low |-> "easy", easy |-> "easy", trivial |-> "easy", tiny |-> "easy", small |-> "easy",
   medium |-> "moderate", moderate |-> "moderate",
   hard |-> "hard", complex |-> "hard", high |-> "hard", large |-> "hard"]

TrustOf(raw, dept) ==
  IF GetFirst(raw, <<"trust_class">>, "") = "" THEN TrustClassFor(dept) ELSE raw.trust_class

(* normalize_finding raises on any other trust class. *)
CanNormalize(raw, dept) == TrustOf(raw, dept) \in TrustClasses

NormalizeFinding(raw, dept) ==
  LET effort == GetFirst(raw, <<"effort", "implementation_effort">>, "")
  IN  [title |-> raw.title,
       file |-> GetFirst(raw, <<"file", "location">>, ""),
       severity |-> GetFirst(raw, <<"severity", "value", "legal_risk">>, ""),
       effort |-> IF effort \in DOMAIN EffortMap THEN EffortMap[effort] ELSE effort,
       fixable |-> GetFirst(raw, <<"fixable_by_agent", "fixable">>, FALSE),
       status |-> GetFirst(raw, <<"status">>, "open"),
       trust_class |-> TrustOf(raw, dept)]

(* finding_hash, of one department and repository: of the canonical form for the
   backlog, and with the first place that is not empty to merge two files. *)
FindingHash(title, place) == <<title.text, place>>

BacklogHash(f) == FindingHash(f.title, f.file)

MergeHash(raw) ==
  FindingHash(raw.title, IF GetFirst(raw, <<"file">>, "") # "" THEN raw.file
                         ELSE GetFirst(raw, <<"location">>, ""))

-----------------------------------------------------------------------------
(* aggregate.py: severities as the author wrote them, anything else counts as info. *)
CountedAs(raw) ==
  LET s == GetFirst(raw, <<"severity">>, "info") IN IF s \in SeverityLevels THEN s ELSE "info"

CountSeverities(findings) ==
  [s \in SeverityLevels |-> Cardinality({i \in DOMAIN findings : CountedAs(findings[i]) = s})]

Upon(d, over) == [k \in DOMAIN d \cup DOMAIN over |-> IF k \in DOMAIN over THEN over[k] ELSE d[k]]

WithCounts(summary, findings) ==
  Upon(Upon(summary, CountSeverities(findings)), [total |-> Len(findings)])

EmptyFile == [summary |-> [k \in {} |-> 0], overall |-> NoScore, findings |-> <<>>]

OrEmpty(file) == IF file = NoFindings THEN EmptyFile ELSE file

(* The numbers of a set, the smallest first. *)
InOrder(S) == [n \in 1 .. Cardinality(S) |-> CHOOSE i \in S : Cardinality({j \in S : j < i}) = n - 1]

(* Mutant: what was added does not become known. *)
MergeUnseen(agentFound, toolFound) ==
  agentFound \o SelectSeq(toolFound, LAMBDA f :
    ~\E i \in DOMAIN agentFound : MergeHash(agentFound[i]) = MergeHash(f))

(* The agent has the finding of the tools, or an earlier one of theirs is the same. *)
IsKnown(agentFound, toolFound, i) ==
  \/ \E j \in DOMAIN agentFound : MergeHash(agentFound[j]) = MergeHash(toolFound[i])
  \/ \E j \in DOMAIN toolFound : j < i /\ MergeHash(toolFound[j]) = MergeHash(toolFound[i])

(* The agent's findings as they are, and what is new of the tools'. *)
MergeFindings(agentFound, toolFound) ==
  LET new == InOrder({i \in DOMAIN toolFound : ~IsKnown(agentFound, toolFound, i)})
  IN  agentFound \o [k \in DOMAIN new |-> toolFound[new[k]]]

ScoreKey ==
  [dept \in {"seo", "monetization", "product", "cloud-ops"} |->
     CASE dept = "seo"          -> "seo_score"
       [] dept = "monetization" -> "monetization_readiness_score"
       [] dept = "product"      -> "product_readiness_score"
       [] dept = "cloud-ops"    -> "cloud_ops_score"]

(* normalize_precalculated_summary: counts anew, and a score that is a number. *)
NormalizeSummary(file, findings, dept) ==
  LET counted == WithCounts(file.summary, findings)
      key == ScoreKey[dept]
  IN  IF dept \notin DOMAIN ScoreKey \/ GetFirst(counted, <<key>>, NoScore) # NoScore
           \/ file.overall = NoScore
      THEN counted ELSE Upon(counted, [k \in {key} |-> file.overall])

(* QA keeps the agent's summary as long as no tool has looked. *)
SummaryOf(file, tools, findings, dept) ==
  IF dept # "qa" THEN NormalizeSummary(OrEmpty(file), findings, dept)
  ELSE IF tools = NoFindings THEN file.summary ELSE WithCounts(OrEmpty(file).summary, findings)

Older(s) == CASE s = "high" -> <<s, "high_value">> [] s = "medium" -> <<s, "medium_value">>
              [] s = "low" -> <<s, "low_value">> [] OTHER -> <<s>>

(* What a repository adds to the totals of the department. *)
Totals(summary, findings) ==
  [s \in SeverityLevels \cup {"total"} |->
     IF s = "total" THEN GetFirst(summary, <<"total", "total_opportunities">>, Len(findings))
     ELSE GetFirst(summary, Older(s), 0)]

CountByTrustClass(listed) ==
  [t \in TrustClasses |->
     Cardinality({i \in DOMAIN listed : (listed[i].trust_class = "objective") = (t = "objective")})]

FixStates == {"fixed", "failed", "skipped", "in-progress"}

(* fixes.json: what became of a finding, by id; only QA looks. *)
Enriched(f, raw, dept, fixes) ==
  IF dept # "qa" THEN f ELSE [f EXCEPT !.status = GetFirst(fixes, <<raw.id>>, "open")]

FixSummary(listed) ==
  LET count == [s \in FixStates |-> Cardinality({i \in DOMAIN listed : listed[i].status = s})]
  IN  Upon(count, [open |-> Len(listed) - count["fixed"] - count["failed"] - count["skipped"]
                              - count["in-progress"]])

(* The repository in the payload of the department. *)
RepoEntry(file, tools, dept, fixes) ==
  LET findings == MergeFindings(OrEmpty(file).findings, OrEmpty(tools).findings)
      listed == [i \in DOMAIN findings |->
                   Enriched(NormalizeFinding(findings[i], dept), findings[i], dept, fixes)]
      summary == SummaryOf(file, tools, findings, dept)
  IN  [raw |-> findings, listed |-> listed, summary |-> summary,
       totals |-> Totals(summary, findings),
       trust |-> CountByTrustClass(listed), fixes |-> FixSummary(listed)]

(* It is left out when it has no file; a finding that cannot be normalised is an error. *)
Listed(file, tools, dept) ==
  /\ {file, tools} # {NoFindings}
  /\ \A raw \in Range(OrEmpty(file).findings) \cup Range(OrEmpty(tools).findings) : CanNormalize(raw, dept)

Floored(n) == IF n < 0 THEN 0 ELSE n

(* aggregate_privacy: of the agent's compliance findings alone. *)
PrivacyScore(counts) ==
  Floored(100 - counts["critical"] * 18 - counts["high"] * 10 - counts["medium"] * 4
              - counts["low"] * 2 - counts["info"])

PrivacyEntry(file) ==
  LET findings == Restrict(file.findings, {i \in DOMAIN file.findings : file.findings[i].private})
      counts == CountSeverities(findings)
  IN  [raw |-> findings, counts |-> counts, total |-> Cardinality(DOMAIN findings),
       score |-> PrivacyScore(counts)]

-----------------------------------------------------------------------------
(* The score that goes to the history: 0 of a department is as good as none. *)
QaScore(summary) ==
  LET n(s) == GetFirst(summary, <<s>>, 0)
  IN  Floored(100 - n("critical") * 15 - n("high") * 8 - n("medium") * 3 - n("low"))

ScoreKeys == <<"seo_score", "compliance_score", "monetization_readiness_score",
               "product_readiness_score", "cloud_ops_score">>

HistoryScore(entry, dept) ==
  LET given == {n \in DOMAIN ScoreKeys :
                  GetFirst(entry.summary, <<ScoreKeys[n]>>, NoScore) \notin {NoScore, 0}}
  IN  IF dept = "qa"
      THEN IF GetFirst(entry.summary, <<"total">>, Len(entry.listed)) = 0 THEN NoScore
           ELSE QaScore(entry.summary)
      ELSE IF given = {} THEN GetFirst(entry.summary, <<"score">>, NoScore)
           ELSE entry.summary[ScoreKeys[Min(given)]]

(* The audit log: the agent's file as it is; its overall score is not looked at. *)
AuditTotal(file) == GetFirst(file.summary, <<"total", "total_findings">>, Len(file.findings))

AuditKey(dept) == IF dept \in DOMAIN ScoreKey THEN ScoreKey[dept] ELSE "compliance_score"

AuditScore(file, dept) ==
  IF dept = "qa" THEN QaScore(file.summary) ELSE GetFirst(file.summary, <<AuditKey(dept)>>, NoScore)

-----------------------------------------------------------------------------
SumOf(counts) == counts["critical"] + counts["high"] + counts["medium"] + counts["low"] + counts["info"]

Honest(file) ==
  \A k \in DOMAIN WithCounts([s \in {} |-> 0], file.findings) :
    k \in DOMAIN file.summary /\ file.summary[k] = WithCounts([s \in {} |-> 0], file.findings)[k]

SeverityGiven(raw) == GetFirst(raw, <<"severity">>, "") \in SeverityLevels
FileNotBlank(raw)  == GetFirst(raw, <<"file">>, "x") # ""

(* What BoardAddsUp says of the entry. *)
EntryAddsUp(e, file, tools, dept) ==
  LET hashes == {MergeHash(e.raw[i]) : i \in DOMAIN e.raw}
      agents == OrEmpty(file).findings
  IN  /\ (dept # "qa" \/ tools # NoFindings \/ Honest(file)) =>
           /\ e.totals["total"] = Len(e.listed) /\ SumOf(e.totals) = Len(e.listed)
           /\ (\A i \in DOMAIN e.raw : SeverityGiven(e.raw[i])) =>
                \A s \in SeverityLevels :
                  e.totals[s] = Cardinality({i \in DOMAIN e.listed : e.listed[i].severity = s})
      /\ e.trust["objective"] + e.trust["advisory"] = Len(e.listed)
      /\ \A s \in FixStates \cup {"open"} : e.fixes[s] >= 0
      /\ hashes = {MergeHash(f) : f \in Range(agents) \cup Range(OrEmpty(tools).findings)}
      /\ \A i, j \in DOMAIN e.raw : i < j /\ j > Len(agents) => MergeHash(e.raw[i]) # MergeHash(e.raw[j])
      /\ (\A i \in DOMAIN e.raw : FileNotBlank(e.raw[i])) =>
           Cardinality({BacklogHash(e.listed[i]) : i \in DOMAIN e.listed}) = Cardinality(hashes)
      /\ dept = "compliance" /\ file # NoFindings =>
           LET p == PrivacyEntry(file) IN
           p.total <= e.totals["total"] /\ \A s \in SeverityLevels : p.counts[s] <= e.totals[s]

(* The totals on the board, the findings listed under them and the backlog speak of the
   same findings: counted once by severity, trust class and fix, none of a tool's left
   out or listed twice, and one backlog entry for each unless the author gave an empty
   file beside a location.  QA takes this on trust where no tool has looked. *)
BoardAddsUp(file, tools, dept, fixes) ==
  Listed(file, tools, dept) => EntryAddsUp(RepoEntry(file, tools, dept, fixes), file, tools, dept)

(* The summary has no score but the one that the department is asked for. *)
OwnScore(file, dept) ==
  DOMAIN file.summary \cap (Range(ScoreKeys) \cup {"score"}) \subseteq {AuditKey(dept)}

(* What AuditLogAgrees says of the entry. *)
AuditEntryAgrees(e, file, dept) ==
  LET score == AuditScore(file, dept)
  IN  /\ AuditTotal(file) = e.totals["total"]
      /\ \/ score = HistoryScore(e, dept)
         \/ dept = "qa" /\ e.totals["total"] = 0
         \/ score = NoScore /\ file.overall # NoScore
         \/ score = 0

(* Where no tool has looked and the agent's summary is right and has no score of another
   department, the audit log and the dashboard agree on how much was found and on the
   score, but for a repository where nothing was found, a score outside of the summary,
   and the score 0. *)
AuditLogAgrees(file, dept) ==
  file # NoFindings /\ Listed(file, NoFindings, dept) /\ Honest(file) /\ OwnScore(file, dept) =>
    AuditEntryAgrees(RepoEntry(file, NoFindings, dept, [k \in {} |-> ""]), file, dept)

=============================================================================

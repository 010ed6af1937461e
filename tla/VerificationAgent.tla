-------------------------- MODULE VerificationAgent --------------------------
(* The verification stage: checks by rule, a review by a model, and the     *)
(* two merged into a status the pipeline acts on (app/agents/verification,  *)
(* app/diagnosis/stages.py).                                                *)
EXTENDS Naturals, SequencesExt, FiniteSetsExt

(* What the stages of one diagnosis hand to each other: the findings and   *)
(* results of the tools, and the draft the aggregator makes of them        *)
(* (app/schemas/schemas.py, app/pipeline/aggregator.py).                    *)
(*                                                                          *)
(* Texts are abstracted to what decisions are made of.  A claim stands for  *)
(* the content of a finding; the execution of a tool that made it (the tool *)
(* and the round, a tool runs once per round) stands for its fresh id.      *)

CONSTANTS
  ToolName,   \* the tools in the order of the enumeration
  AlwaysRun   \* ALWAYS_RUN_TOOLS of the selection agent

Tool == ToSet(ToolName)

ToolAssumption ==
  ToolName \in Seq(Tool) /\ IsInjective(ToolName) /\ ToolName # <<>> /\ AlwaysRun \subseteq Tool

(* determination, risk_level, the best of legal_sources, requirements.      *)
Definitive == {"required", "not_required", "not_applicable"}

Finding(t, round, claim) == [tool |-> t, made |-> round, claim |-> claim]

NoTool == "-"

(* A ToolResult.  The detail (result) is there when the tool answered, and   *)
(* of which tool it is (kind).                                              *)
Result(t, status, round, error, findings, actions, missing) ==
  [tool |-> t, status |-> status, selected |-> status # "skipped", round |-> round,
   error |-> error, detail |-> IF error \/ status = "skipped" THEN NoTool ELSE t,
   findings |-> findings, actions |-> actions, missing |-> missing]

Skipped(t, round) == Result(t, "skipped", round, FALSE, {}, {}, {})

Failed(t, round) == Result(t, "failed", round, TRUE, {}, {}, {})

Requirements(findings) == UNION {f.claim.requires : f \in findings}

(* What stands at some of the places of a sequence, the first one first.    *)
InOrder(places) ==
  CHOOSE p \in [1..Cardinality(places) -> places]:
    \A i, j \in 1..Cardinality(places): i < j => p[i] < p[j]

At(s, places) == LET p == InOrder(places) IN [k \in 1..Cardinality(places) |-> s[p[k]]]

InToolOrder(tools) == At(ToolName, {i \in DOMAIN ToolName: ToolName[i] \in tools})

ResultOf(results, t) == results[CHOOSE i \in DOMAIN results: results[i].tool = t]

-----------------------------------------------------------------------------
(* The aggregator adds no judgement of its own.                             *)

OverallStatus(results, findings, actions, missing) ==
  IF \E f \in findings: f.claim.risk = "high" THEN "high_risk"
  ELSE IF \/ actions # {}
          \/ \E f \in findings: \/ f.claim.determination \in {"required", "possibly_required"}
                                \/ f.claim.risk = "medium"
  THEN "action_required"
  ELSE IF \/ \E r \in results: r.selected /\ r.status # "success"
          \/ missing # {} \/ findings = {}
          \/ \E f \in findings: \/ f.claim.determination = "insufficient_information"
                                \/ f.claim.risk = "unknown"
  THEN "insufficient_information"
  ELSE "likely_compliant"

Aggregate(state) ==
  LET results  == ToSet(state.results)
      findings == UNION {r.findings : r \in results}
      actions  == UNION {r.actions : r \in results}
      missing  == UNION {r.missing : r \in results}
  IN [selected |-> state.selected, results |-> state.results, findings |-> findings,
      actions |-> actions, missing |-> missing,
      overall |-> OverallStatus(results, findings, actions, missing)]
-----------------------------------------------------------------------------

Issue(severity, kind, tool, related) ==
  [severity |-> severity, kind |-> kind, tool |-> tool, related |-> related]

-----------------------------------------------------------------------------
(* The rules.  A signal is a tool a feature of the product calls for, or,   *)
(* when not sure, may call for: an age is stated, for whom it is unknown.    *)

Incomplete(r) == r.selected /\ (r.status # "success" \/ r.detail = NoTool \/ r.findings = {})

ToolIssues(draft) ==
  LET records == ToSet(draft.results)
      contradictory == {r \in records:
                          \/ r.selected # (r.tool \in draft.selected)
                          \/ ~r.selected /\ (r.status # "skipped" \/ r.detail # NoTool \/ r.findings # {})
                          \/ r.detail \notin {NoTool, r.tool}}
      repeated == {r \in records: Cardinality({i \in DOMAIN draft.results:
                                                draft.results[i].tool = r.tool}) > 1}
  IN {Issue("critical", "tool_failure", r.tool, {}) : r \in {s \in records: Incomplete(s)}}
     \cup {Issue("critical", "contradiction", r.tool, {}) : r \in contradictory \cup repeated}
     \cup {Issue("critical", "missing_tool", t, {}) : t \in Tool \ {r.tool : r \in records}}

SignalIssues(draft, signals) ==
  LET unheeded == {s \in signals: s.tool \notin draft.selected}
  IN {Issue("warning", "missing_tool", s.tool, {}) : s \in {u \in unheeded: u.sure}}
     \cup {Issue("warning", "insufficient_product_data", NoTool, {}) : s \in {u \in unheeded: ~u.sure}}

FindingIssues(draft) ==
  LET original == UNION {r.findings : r \in ToSet(draft.results)}
      definitive == {f \in draft.findings: f.claim.determination \in Definitive}
  IN (IF draft.findings = {} THEN {Issue("critical", "missing_evidence", NoTool, {})} ELSE {})
     \cup {Issue("critical", "contradiction", f.tool, {f}) :
             f \in (original \cup draft.findings) \ (original \cap draft.findings)}
     \cup {Issue("critical", "missing_evidence", f.tool, {f}) :
             f \in {g \in definitive: g.claim.cites = "nothing"}}
     \cup {Issue("warning", "missing_evidence", NoTool, {f}) :
             f \in {g \in definitive: g.claim.cites = "mock"}}

(* Which of the issues name a tool to run (again).                          *)
CallsForTool(issue, draft) ==
  CASE issue.kind = "missing_tool" -> issue.severity = "warning" \/ issue.tool \in draft.selected
    [] issue.kind \in {"tool_failure", "missing_evidence"} -> issue.tool # NoTool
    [] OTHER -> FALSE

-----------------------------------------------------------------------------
Recoverable == {"tool_failure", "missing_evidence"}

(* Mutant: tools to run before questions to the user.                       *)
ToolsFirst(v) ==
  IF \E i \in v.issues: i.severity = "critical" /\ i.kind \notin Recoverable
  THEN "revision_required"
  ELSE IF v.tools # {} THEN "tools_required"
  ELSE IF \E q \in v.questions: q.required THEN "user_input_required"
  ELSE IF v.issues # {} \/ v.questions # {} THEN "approved_with_warnings"
  ELSE "approved"

(* A critical issue no tool can repair stops the run; then required         *)
(* questions, then tools to run.                                            *)
Status(v) ==
  IF \E i \in v.issues: i.severity = "critical" /\ i.kind \notin Recoverable
  THEN "revision_required"
  ELSE IF \E q \in v.questions: q.required THEN "user_input_required"
  ELSE IF v.tools # {} THEN "tools_required"
  ELSE IF \E i \in v.issues: i.severity = "critical" THEN "revision_required"
  ELSE IF v.issues # {} \/ v.questions # {} THEN "approved_with_warnings"
  ELSE "approved"

WithStatus(v) == [v EXCEPT !.status = Status(v)]

VerifyRules(draft, signals) ==
  LET issues == ToolIssues(draft) \cup SignalIssues(draft, signals) \cup FindingIssues(draft)
  IN WithStatus([status |-> "approved", issues |-> issues, questions |-> {}, checked |-> {},
                 tools |-> {i.tool : i \in {j \in issues: CallsForTool(j, draft)}}])

(* The model must have looked at every finding and name no other.           *)
ScopeHolds(review, draft) ==
  /\ review.checked = draft.findings
  /\ \A i \in review.issues: i.related \subseteq draft.findings

(* Two questions of one text are one, required if either is.                *)
MergedQuestions(asked) ==
  {q \in asked: q.required \/ ~\E p \in asked: p.text = q.text /\ p.required}

(* The model cannot take back what the rules found.                         *)
Merge(rules, review) ==
  WithStatus([status |-> "approved", issues |-> rules.issues \cup review.issues,
              questions |-> MergedQuestions(rules.questions \cup review.questions),
              checked |-> review.checked, tools |-> rules.tools \cup review.tools])

(* Mutant: what the rules approve is approved.                              *)
RulesAlone(rules) == rules

(* Without a review the rules decide alone, but cannot approve.             *)
RulesOnly(rules) ==
  IF rules.status \in {"approved", "approved_with_warnings"}
  THEN [rules EXCEPT !.status = "revision_required"] ELSE rules

NoReview == [failed |-> TRUE]

Verified(draft, signals, review) ==
  LET rules == VerifyRules(draft, signals)
  IN IF review # NoReview /\ ScopeHolds(review, draft) THEN Merge(rules, review)
     ELSE RulesOnly(rules)
=============================================================================

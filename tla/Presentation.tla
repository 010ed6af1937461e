----------------------------- MODULE Presentation -----------------------------
(* What of a diagnosis the user gets to see: one of three verdicts, a card for  *)
(* each field, what is left to do and what has not been looked at              *)
(* (app/results/status.py, presenter.py).  Texts are their lengths.            *)
EXTENDS Naturals, Sequences, FiniteSets, SequencesExt

CONSTANTS
  ToolOrder,     \* the fields in the order of the cards
  Excluded,      \* fields that are no matter of how a product is sold
  Diagnosis,     \* the diagnoses that may come
  SubjectMax, SourceMax,   \* columns of the backend
  None

Determinations ==
  {"required", "not_required", "possibly_required", "insufficient_information", "not_applicable"}

DiagnosisAssumption ==
  /\ None \notin Diagnosis
  /\ \A d \in Diagnosis: \A f \in d.findings: f.determination \in Determinations

VARIABLES
  diagnosis,     \* FinalAssessment
  assessment     \* PublicAssessmentDto

vars == <<diagnosis, assessment>>

Init == diagnosis = None /\ assessment = None

-----------------------------------------------------------------------------
(* status.py                                                                 *)
Completed(d) == d.verification \in {"verified", "verified_with_warnings"} /\ d.reason = "completed"

Regulated(d) == d.selected \ Excluded

ActionDeterminations == {"required", "possibly_required"}

Insufficient(finding) == finding.determination = "insufficient_information" \/ finding.risk = "unknown"

(* Mutant: a part of the answer is enough.                                    *)
NoAnswer(d) ==
  {t \in Regulated(d) : d.results[t] = None \/ d.results[t].status = "failed"}

Failed(d) ==
  {t \in Regulated(d) : d.results[t] = None \/ d.results[t].status # "success"}

Decision(status, reason, tools) == [status |-> status, reason |-> reason, tools |-> tools]

(* Mutant: fields nobody looks at come before what was found.                   *)
SignalsFirst(d) ==
  LET found == {f \in d.findings : f.tool \in Regulated(d)}
      certification == {f.tool : f \in {g \in found : g.determination \in ActionDeterminations}}
  IN CASE ~Completed(d) -> Decision("recheck", "incomplete", {})
       [] d.signals # {} -> Decision("recheck", "out_of_scope", {})
       [] certification # {} -> Decision("certification", "certification_required", certification)
       [] OTHER -> Decision("allowed", "no_requirement", Regulated(d))

Decide(d) ==
  LET found == {f \in d.findings : f.tool \in Regulated(d)}
      certification == {f.tool : f \in {g \in found : g.determination \in ActionDeterminations}}
      insufficient == {f.tool : f \in {g \in found : Insufficient(g)}}
  IN IF ~Completed(d) THEN Decision("recheck", "incomplete", {})
     ELSE IF certification # {} THEN Decision("certification", "certification_required", certification)
     ELSE IF d.signals # {} THEN Decision("recheck", "out_of_scope", {})
     ELSE IF Regulated(d) = {} THEN Decision("allowed", "no_regulated_tool", {})
     ELSE IF Failed(d) # {} THEN Decision("recheck", "tool_failed", Failed(d))
     ELSE IF insufficient # {} THEN Decision("recheck", "insufficient_information", insufficient)
     ELSE Decision("allowed", "no_requirement", Regulated(d))

-----------------------------------------------------------------------------
(* presenter.py                                                              *)
Clip(length, limit) == IF length <= limit THEN length ELSE limit

Or(length, other) == IF length > 0 THEN length ELSE other

PublicFinding(f) ==
  LET subject == Clip(f.subject, SubjectMax)
      says == Or(f.summary, subject)
  IN [subject |-> subject, summary |-> says, rationale |-> Or(f.rationale, says),
      sources |-> {Clip(s, SourceMax) : s \in f.sources \ {0}}]

WasSelected(d, tool) ==
  IF d.results[tool] = None THEN tool \in d.selected ELSE d.results[tool].selected

CardStatus(d, tool) ==
  CASE d.results[tool] = None -> "INCOMPLETE"
    [] d.results[tool].status = "success" -> "COMPLETED"
    [] d.results[tool].status = "skipped" -> "SKIPPED"
    [] OTHER -> "INCOMPLETE"

Card(d, tool) ==
  IF ~WasSelected(d, tool) THEN [tool |-> tool, status |-> "SKIPPED", findings |-> {}]
  ELSE [tool |-> tool, status |-> CardStatus(d, tool),
        findings |-> {PublicFinding(f) : f \in {g \in d.findings : g.tool = tool}}]

Unique(values) == FoldLeft(LAMBDA kept, v: IF v \in ToSet(kept) THEN kept ELSE Append(kept, v), <<>>, values)

ToolActions(d, tool) ==
  IF d.results[tool] # None /\ WasSelected(d, tool) THEN d.results[tool].actions ELSE <<>>

(* Mutant: what the aggregation added comes first.                             *)
AddedFirst(d) ==
  Unique(d.actions \o FlattenSeq([i \in DOMAIN ToolOrder |-> ToolActions(d, ToolOrder[i])]))

Actions(d) ==
  Unique(FlattenSeq([i \in DOMAIN ToolOrder |-> ToolActions(d, ToolOrder[i])]) \o d.actions)

IncompleteReasons ==
  {"retry_limit_exceeded", "no_progress", "revision_required", "cost_limit_exceeded",
   "question_limit_exceeded"}

Notices(d) ==
  (IF Completed(d) THEN {} ELSE {IF d.reason \in IncompleteReasons THEN d.reason ELSE "unverified"})
    \cup d.signals \cup d.missing \cup {"disclaimer"}
    \cup (IF Decide(d).status = "allowed" THEN {"scope"} ELSE {})

LabelAdNoted(d) ==
  /\ Decide(d).status = "allowed"
  /\ \E f \in d.findings: f.tool \in Excluded /\ f.determination \in ActionDeterminations

Diagnose ==
  /\ diagnosis = None
  /\ diagnosis' \in Diagnosis
  /\ UNCHANGED assessment

Present ==
  /\ diagnosis # None /\ assessment = None
  /\ assessment' =
       [completed |-> Completed(diagnosis), decision |-> Decide(diagnosis),
        cards |-> [i \in DOMAIN ToolOrder |-> Card(diagnosis, ToolOrder[i])],
        actions |-> Actions(diagnosis), notices |-> Notices(diagnosis),
        label_ad |-> LabelAdNoted(diagnosis)]
  /\ UNCHANGED diagnosis

Next == Diagnose \/ Present

Spec == Init /\ [][Next]_vars

-----------------------------------------------------------------------------
Concerns(d, tool) == {f \in d.findings : f.tool = tool /\ tool \in d.selected}

(* "May be sold" is said only of a diagnosis that came to its end, whose fields  *)
(* all answered without finding anything or lacking anything.  Of a diagnosis   *)
(* that came to its end, a duty that was found is told before anything else     *)
(* that went wrong: a failed field, an open question, a sign of other laws      *)
(* (status.py; one that did not come to its end is only to be looked at again). *)
AllowedIsEarned ==
  assessment # None =>
    LET d == diagnosis
        duties == {t \in d.selected \ Excluded : \E f \in Concerns(d, t): f.determination \in ActionDeterminations}
    IN /\ assessment.decision.status = "allowed" =>
            /\ assessment.completed /\ d.signals = {} /\ duties = {}
            /\ \A t \in d.selected \ Excluded:
                 /\ d.results[t] # None /\ d.results[t].status = "success"
                 /\ \A f \in Concerns(d, t): f.determination \in {"not_required", "not_applicable"} /\ f.risk # "unknown"
       /\ assessment.completed /\ duties # {} =>
            assessment.decision = Decision("certification", "certification_required", duties)

(* What a field found and what is to be done stands in the assessment, in the   *)
(* order of the fields; a verdict to look again says why, and no text is longer  *)
(* than the backend's column or empty (presenter.py).                           *)
AssessmentIsWhole ==
  assessment # None =>
    LET d == diagnosis
        rank(action) == {i \in DOMAIN ToolOrder : action \in ToSet(ToolActions(d, ToolOrder[i]))}
    IN /\ \A i \in DOMAIN ToolOrder:
            LET card == assessment.cards[i]
            IN /\ (card.status = "SKIPPED") = (ToolOrder[i] \notin d.selected)
               /\ Concerns(d, ToolOrder[i]) # {} => card.findings # {}
               /\ \A f \in card.findings:
                    f.subject \in 1..SubjectMax /\ f.summary > 0 /\ f.rationale > 0 /\ f.sources \subseteq 1..SourceMax
       /\ \A i, j \in DOMAIN assessment.actions:
            i < j /\ rank(assessment.actions[j]) # {} =>
              \E a \in rank(assessment.actions[i]): \E b \in rank(assessment.actions[j]): a <= b
       /\ UNION {rank(a) : a \in ToSet(assessment.actions)}
            = {i \in DOMAIN ToolOrder : ToolActions(d, ToolOrder[i]) # <<>>}
       /\ assessment.decision.status = "recheck" =>
            assessment.decision.tools # {} \/ d.signals # {} \/ assessment.notices \cap (IncompleteReasons \cup {"unverified"}) # {}
=============================================================================

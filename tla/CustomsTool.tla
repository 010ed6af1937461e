----------------------------- MODULE CustomsTool -----------------------------
(* Which laws the customs may ask for (app/tools/customs/tool.py, search.py,  *)
(* rules.py): decisions on similar goods are looked up, the model chooses the  *)
(* alike, and for the tariff codes (HS) of these the requirements are asked.   *)
EXTENDS EvidenceSearch

CONSTANTS
  CustomsFacts,     \* the facts a model may read out of a listing
  CaseQueries,      \* the words that are searched
  CustomsCases,     \* HsCase: the decisions
  CustomsLaws,      \* the laws a requirement may be of
  CustomsReviews    \* the selections a review may answer with

(* A code: its heading (4 digits); is it decided to 10 digits or only to 6?    *)
HsCode(heading, full) == [heading |-> heading, full |-> full]

HsCase(id, hs_codes) == [id |-> id, hs_codes |-> hs_codes]

(* A law: has the annex of the notice a row of it, is it excepted from the     *)
(* omission, and is it one of weapons only?                                  *)
CustomsLaw(name, row, excepted, weapons) ==
  [name |-> name, row |-> row, excepted |-> excepted, weapons |-> weapons]

QuestionFields == {"product_type", "material", "function"}

CaseIds(cases) == {c.id : c \in cases}

CasesOf(cases, ids) == {c \in cases: c.id \in ids}

Codes(cases) == UNION {c.hs_codes : c \in cases}

-----------------------------------------------------------------------------
Init == Idle

Start ==
  \E texts \in {{"t1"}, {"blank"}}, weapon_like \in {"yes", "no", "unknown"}:
    Begin("customs", [weapon_like |-> weapon_like, hs_codes |-> {}, required |-> {},
                      excluded |-> {}, unresolved |-> {}, empty |-> {}],
          texts, {"product_type"}, "extract")

Extract ==
  /\ stage = "extract"
  /\ \/ Fail
     \/ \E raw \in CustomsFacts:
          LET facts == Confirmed(raw, run.snippets)
              read  == [run EXCEPT !.facts = facts, !.missing = {"product_type"} \ Fields(facts),
                          !.notes = @ \cup (IF facts # raw THEN {"facts dropped"} ELSE {})]
          IN IF read.missing # {} THEN Conclude(read, {}) ELSE stage' = "search" /\ run' = read

WithCases(cases, failed) ==
  LET read == Note(run, IF failed # {} THEN {"words unanswered"} ELSE {})
  IN IF cases = {} THEN Conclude(Note(read, {"no case"}), {})
     ELSE stage' = "review" /\ run' = [read EXCEPT !.rows = cases]

(* DatabaseFirstCaseSearch: cases of the database that are close enough; if    *)
(* there are none, or the database fails, the service is asked word by word,   *)
(* at once; that fails only if every word does.                              *)
SearchDatabase ==
  /\ stage = "search"
  /\ \E near \in SUBSET CustomsCases \ {{}}: WithCases(near, {})

SearchService ==
  /\ stage = "search"
  /\ \E failed \in SUBSET CaseQueries:
       IF failed = CaseQueries THEN Fail
       ELSE \E found \in SUBSET CustomsCases: WithCases(found, failed)

-----------------------------------------------------------------------------
Headings(c) == {code.heading : code \in c.hs_codes}

(* How many cases bear the best of the headings of a case.                   *)
Support(cases, c) ==
  Max({0} \cup {Cardinality({d \in cases: h \in Headings(d)}) : h \in Headings(c)})

(* A choice of a heading that only one case has, beside one that several have: *)
(* it stays, and is said to need a check.                                     *)
LoneHeadings(chosen, cases) ==
  IF \A c \in chosen: Support(cases, c) <= 1 THEN {}
  ELSE {c \in chosen: Support(cases, c) <= 1}

Review ==
  /\ stage = "review"
  /\ \/ Fail
     \/ \E selections \in CustomsReviews:
          LET picked == Pick(selections, CaseIds(run.rows), Fields(run.facts), {})
              chosen == CasesOf(run.rows, {s.row : s \in ToSet(picked)})
              needs  == UNION {s.needs : s \in ToSet(picked)} \ Fields(run.facts)
              read == [run EXCEPT !.chosen = picked, !.own.hs_codes = Codes(chosen),
                         !.missing = @ \cup (needs \cap QuestionFields),
                         !.notes = @ \cup (IF LoneHeadings(chosen, run.rows) # {} THEN {"lone"} ELSE {})
                                     \cup (IF needs \subseteq QuestionFields THEN {} ELSE {"needs"})]
          IN IF Codes(chosen) # {} THEN stage' = "lookup" /\ run' = read
             ELSE Conclude(Note(read, {"no choice"}), {})

-----------------------------------------------------------------------------
(* Laws of weapons, for a thing that was read to be none; not knowing is not   *)
(* the same.                                                                 *)
ExcludedByProduct(law, r) == law.weapons /\ r.own.weapon_like = "no"

Kept(r) == {p \in r.own.required: ~ExcludedByProduct(p[2], r)}

ExcludedCodes(r) == {p[1] : p \in r.own.required \ Kept(r)}

(* Mutant: nothing is said of a code without a law if another has one.         *)
EmptyOverall(r) ==
  IF Kept(r) # {} THEN {} ELSE r.own.hs_codes \ (r.own.unresolved \cup ExcludedCodes(r))

(* Codes that were looked up and for which there is no requirement.            *)
EmptyCodes(r) ==
  r.own.hs_codes \ (r.own.unresolved \cup ExcludedCodes(r) \cup {p[1] : p \in Kept(r)})

(* The omission for private imports is only said of laws whose row is known.   *)
Omission(law, evidence) ==
  IF ~(evidence /\ law.row) THEN "unknown" ELSE IF law.excepted THEN "excepted" ELSE "omittable"

SaleActions(law, codes, evidence) ==
  {<<law.name, code, Omission(law, evidence)>> : code \in codes}

Act(evidence) == IF evidence THEN {"act"} ELSE {}

Sources(law, evidence) ==
  Act(evidence) \cup {"case"} \cup (IF evidence /\ law.row THEN {"annex 2", "article 7"} ELSE {})

LawFinding(r, law, evidence) ==
  LET codes == {p[1] : p \in {q \in Kept(r): q[2] = law}}
  IN Finding(law.name, "possibly_required", "medium", Fields(r.facts), Sources(law, evidence),
             SaleActions(law, codes, evidence))

(* "None is required" is only said with the article it is said by.            *)
NoLaw(r, evidence) ==
  Finding("no law", IF evidence THEN "not_required" ELSE "insufficient_information", "low",
          Fields(r.facts), Act(evidence) \cup {"case"}, {})

NotLookedUp(r) ==
  Finding("not looked up", "insufficient_information", "unknown", Fields(r.facts), {"case"}, {})

CustomsFindings(r, evidence) ==
  {LawFinding(r, law, evidence) : law \in {p[2] : p \in Kept(r)}}
    \cup (IF r.own.empty = {} THEN {} ELSE {NoLaw(r, evidence)})
    \cup (IF r.own.unresolved = {} THEN {} ELSE {NotLookedUp(r)})

(* Codes of 6 digits cannot be looked up, nor any without a key of the service. *)
Lookup ==
  /\ stage = "lookup"
  /\ \/ Fail
     \/ \E evidence, service \in BOOLEAN, answers \in SUBSET (run.own.hs_codes \X CustomsLaws):
          LET open == IF service THEN {c \in run.own.hs_codes: ~c.full} ELSE run.own.hs_codes
              got  == [run EXCEPT !.own.unresolved = open,
                         !.own.required = {p \in answers: p[1] \notin open},
                         !.notes = @ \cup (IF evidence THEN {} ELSE {"no evidence"})
                                     \cup (IF open # {} THEN {"codes open"} ELSE {})]
              kept == [got EXCEPT !.own.excluded = ExcludedCodes(got), !.own.empty = EmptyCodes(got),
                         !.notes = @ \cup (IF ExcludedCodes(got) # {} THEN {"excluded"} ELSE {})]
              findings == CustomsFindings(kept, evidence)
          IN Conclude([kept EXCEPT !.actions = UNION {f.requires : f \in findings}
                         \cup (IF open # {} THEN {<<"broker", c, "unknown">> : c \in open} ELSE {})],
                      findings)

Next == Start \/ Extract \/ SearchDatabase \/ SearchService \/ Review \/ Lookup

Spec == Init /\ [][Next]_vars

-----------------------------------------------------------------------------
Says(f, code) == \E a \in f.requires: a[2] = code

(* No tariff code of the decisions that were chosen gets lost: a law asks for  *)
(* it, or it is said that none does, that it could not be looked up, or that   *)
(* its laws were left out because of the product.                            *)
EveryCodeAnswered ==
  stage = "done" =>
    \A code \in run.own.hs_codes:
      \/ \E f \in run.findings: Says(f, code)
      \/ code \in run.own.empty /\ \E f \in run.findings: f.subject = "no law"
      \/ code \in run.own.unresolved /\ \E f \in run.findings: f.subject = "not looked up"
      \/ code \in run.own.excluded /\ "excluded" \in run.notes

(* That nothing is required is said of codes for which the service was asked   *)
(* and named no law at all: not of one it did not answer for, and not of one   *)
(* whose only law the product seems not to fall under.                        *)
NoLawMeansNone ==
  stage = "done" /\ (\E f \in run.findings: f.subject = "no law") =>
    /\ run.own.empty # {}
    /\ \A code \in run.own.empty: code.full /\ \A p \in run.own.required: p[1] # code
=============================================================================

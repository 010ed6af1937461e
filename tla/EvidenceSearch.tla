--------------------------- MODULE EvidenceSearch ---------------------------
(* What the five tools that search for evidence have in common              *)
(* (app/tools/base/evidence_search.py): facts the model reads out of the     *)
(* listing and the code compares with it, a lookup of rows, a choice the     *)
(* model makes among them and the code compares with the rows and the facts, *)
(* and a result.  The tools (RadioTool, ElectricalTool, ...) are machines    *)
(* over the variables of this module.                                        *)
(*                                                                          *)
(* A fact names the snippet it claims to quote; "verbatim" says whether the  *)
(* quote is in that snippet and the value in the quote.  Texts are left out: *)
(* a note stands for an assumption, an action for its line.                  *)
EXTENDS Naturals, FiniteSets, Sequences, SequencesExt, FiniteSetsExt

VARIABLES
  stage,   \* "start", then what the tool does next; "done" or "failed"
  run      \* ToolRun

vars == <<stage, run>>

Idle == stage = "start" /\ run = [tool |-> "none"]

Fact(field, value, snippet, verbatim) ==
  [field |-> field, value |-> value, snippet |-> snippet, verbatim |-> verbatim]

(* A selection of the review: a row, does it apply, by what fields, and what *)
(* else would have to be known.                                              *)
Selection(row, applies, cites, needs) ==
  [row |-> row, applies |-> applies, cites |-> cites, needs |-> needs]

SelectionsLimit == 3

(* own: what the run of a particular tool holds beside (RadioRun, ...), and   *)
(* what of the product matters to it.                                        *)
NewRun(tool, own, snippets) ==
  [tool |-> tool, own |-> own, snippets |-> snippets, facts |-> {}, missing |-> {},
   conflicted |-> {}, notes |-> {}, actions |-> {}, rows |-> {}, chosen |-> <<>>,
   findings |-> {}]

Finding(subject, determination, risk, used, sources, requires) ==
  [subject |-> subject, determination |-> determination, risk |-> risk, used |-> used,
   sources |-> sources, requires |-> requires]

Undecided == Finding("none", "insufficient_information", "unknown", {}, {}, {})

-----------------------------------------------------------------------------
(* Mutant: a quote is looked for in any snippet.                             *)
QuotedAnywhere(facts, snippets) == {f \in facts: f.verbatim}

Confirmed(facts, snippets) == {f \in facts: f.snippet \in snippets /\ f.verbatim}

Fields(facts) == {f.field : f \in facts}

Values(facts, field) == {f.value : f \in {g \in facts: g.field = field}}

(* product_snippets: of the texts of a listing, those that are not blank.    *)
ProductSnippets(texts) == texts \ {"blank"}

(* A run of a tool starts with what the listing says.  Without a text that   *)
(* can be quoted, no model is asked.                                         *)
Begin(tool, own, texts, emptyFields, first) ==
  LET snippets == ProductSnippets(texts)
  IN /\ stage = "start"
     /\ IF snippets # {}
        THEN /\ stage' = first
             /\ run' = [NewRun(tool, own, snippets) EXCEPT !.notes = {"scope"}]
        ELSE /\ stage' = "done"
             /\ run' = [NewRun(tool, own, {}) EXCEPT !.notes = {"no snippets"},
                          !.missing = emptyFields, !.findings = {Undecided}]

(* A lookup or a model call that fails ends the run of the tool; what the    *)
(* executor makes of that is in Pipeline.                                    *)
Fail == stage' = "failed" /\ UNCHANGED run

(* Mutant: a rule of the code excludes nothing.                              *)
PickBarred(selections, rows, fields, barred) ==
  LET Takes(chosen, s) == /\ s.applies /\ s.row \in rows /\ s.cites \cap fields # {}
                          /\ \A c \in ToSet(chosen): c.row # s.row
      Used(s) == [s EXCEPT !.cites = @ \cap fields]
  IN FoldLeft(LAMBDA chosen, s: IF Takes(chosen, s) THEN Append(chosen, Used(s)) ELSE chosen,
              <<>>, selections)


(* What of the model's choice counts: rows it was given, that no rule of the *)
(* code excludes, once each, and for a fact that was confirmed.              *)
PickAll(selections, rows, fields, barred) ==
  LET Takes(chosen, s) == /\ s.applies /\ s.row \in rows \ barred /\ s.cites \cap fields # {}
                          /\ \A c \in ToSet(chosen): c.row # s.row
      Used(s) == [s EXCEPT !.cites = @ \cap fields]
  IN FoldLeft(LAMBDA chosen, s: IF Takes(chosen, s) THEN Append(chosen, Used(s)) ELSE chosen,
              <<>>, selections)

(* The limit counts the choices that are left, so that one that does not     *)
(* count pushes out none that does.                                          *)
Pick(selections, rows, fields, barred) ==
  LET chosen == PickAll(selections, rows, fields, barred)
  IN SubSeq(chosen, 1, Min({SelectionsLimit, Len(chosen)}))

(* What an empty list of findings says: not enough is known.  It is never    *)
(* taken for a product that is not concerned.                                *)
Result(r, findings) ==
  [r EXCEPT !.findings = IF findings = {} THEN {Undecided} ELSE findings]

Note(r, notes) == [r EXCEPT !.notes = @ \cup notes]

Conclude(r, findings) == stage' = "done" /\ run' = Result(r, findings)

-----------------------------------------------------------------------------
(* What the results of all tools that search for evidence promise, whatever   *)
(* the model reads and chooses.                                              *)
Asked == stage = "done" /\ run.snippets # {}

Judgements == run.findings \ {Undecided}

(* Every judgement stands on facts that are quoted in the listing, and a       *)
(* definite one on an article as well; nothing the model made up gets into a   *)
(* result (confirm_facts, confirmed_selections).                             *)
Grounded ==
  Asked =>
    /\ \A f \in run.facts: f.verbatim /\ f.snippet \in run.snippets
    /\ \A f \in Judgements:
         /\ f.used \subseteq Fields(run.facts)
         /\ f.determination # "insufficient_information" => f.used # {}
    /\ \A f \in Judgements: f.determination = "not_required" => f.sources # {}

Disputed(field) == field \in run.conflicted \/ Cardinality(Values(run.facts, field)) > 1

(* The user is asked for what is open and only for that: not again for what    *)
(* the listing says, unless it contradicts itself; and a contradiction is      *)
(* always asked about, except of a thing that belongs to other laws anyway.    *)
AsksWhatIsOpen ==
  Asked =>
    /\ \A field \in run.missing \cap Fields(run.facts): Disputed(field)
    /\ "excluded_kind" \notin Fields(run.facts) => run.conflicted \subseteq run.missing

(* A tool never just says that it does not know: it asks something, or notes   *)
(* what it lacked.                                                           *)
SilenceExplained ==
  Asked /\ run.findings = {Undecided} /\ run.tool # "food_drug" =>
    run.missing # {} \/ run.notes # {"scope"}
=============================================================================

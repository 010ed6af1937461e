------------------------------ MODULE RadioTool ------------------------------
(* Which wireless equipment of the notice's annex 1 a product may be         *)
(* (app/tools/radio/tool.py, rules.py, search.py).                           *)
EXTENDS EvidenceSearch

CONSTANTS
  RadioTexts,     \* listings: sets of texts
  RadioFacts,     \* the facts a model may read out of them
  RadioItems,     \* RadioItem: the rows of the annex
  RadioReviews    \* the selections a review may answer with

(* An item: assessment are the kinds of conformity assessment of its row.    *)
RadioItem(id, assessment) == [id |-> id, assessment |-> assessment]

RequiredFields == {"product_type", "wireless_feature"}
QuestionFields == RequiredFields

Init == Idle

Start == \E texts \in RadioTexts: Begin("radio", {}, texts, RequiredFields, "prepare")

(* The catalog of names helps the model; without it facts are still read.    *)
Prepare ==
  /\ stage = "prepare"
  /\ \/ Fail
     \/ stage' = "extract" /\ UNCHANGED run

(* A frequency may stand in the value of the wireless feature.               *)
Bands(facts) == Values(facts, "frequency") \cup Values(facts, "wireless_feature")

HasBand(facts) == "band" \in Bands(facts)

Extract ==
  /\ stage = "extract"
  /\ \/ Fail
     \/ \E raw \in RadioFacts:
          LET facts == Confirmed(raw, run.snippets)
              read  == [run EXCEPT !.facts = facts, !.missing = RequiredFields \ Fields(facts),
                          !.notes = @ \cup (IF facts # raw THEN {"facts dropped"} ELSE {})
                                      \cup (IF HasBand(facts) THEN {} ELSE {"no frequency"})]
          IN IF read.missing = {} THEN stage' = "search" /\ run' = read
             ELSE Conclude(IF "wireless_feature" \in Fields(facts) THEN read
                           ELSE Note(read, {"no wireless feature"}), {})

(* No text of the law that can be trusted, or no row that resembles the      *)
(* product, does not make the product one that is not concerned.             *)
Search ==
  /\ stage = "search"
  /\ \/ Fail
     \/ Conclude(Note(run, {"no evidence"}), {})
     \/ \E rows \in SUBSET RadioItems:
          IF rows = {} THEN Conclude(Note(run, {"no row"}), {})
          ELSE stage' = "review" /\ run' = [run EXCEPT !.rows = rows]

(* What to do before a sale: one line for an import, one for a purchase on   *)
(* behalf of a buyer.                                                        *)
SaleActions(item) == {<<item.id, "import">>, <<item.id, "agent">>}

(* The row, the obligation of each of its assessments, and the exemption for *)
(* personal use.                                                             *)
Sources(item) == {"row"} \cup item.assessment \cup {"exemption"}

ItemOf(rows, id) == CHOOSE item \in rows: item.id = id

Candidate(item, selection) ==
  Finding(item.id, "possibly_required", "medium", selection.cites, Sources(item),
          SaleActions(item))

Ids(rows) == {row.id : row \in rows}

(* Mutant: what a selection wants to know is asked although it is known.     *)
AsksAll(selection, facts) == selection.needs \cap QuestionFields

Asks(selection, facts) == (selection.needs \cap QuestionFields) \ Fields(facts)

Review ==
  /\ stage = "review"
  /\ \/ Fail
     \/ \E selections \in RadioReviews:
          LET chosen   == Pick(selections, Ids(run.rows), Fields(run.facts), {})
              findings == {Candidate(ItemOf(run.rows, s.row), s) : s \in ToSet(chosen)}
          IN Conclude([run EXCEPT !.chosen = chosen,
                         !.missing = @ \cup UNION {Asks(s, run.facts) : s \in ToSet(chosen)},
                         !.actions = UNION {f.requires : f \in findings},
                         !.notes = @ \cup (IF findings = {} THEN {"no choice"} ELSE {})],
                      findings)

Next == Start \/ Prepare \/ Extract \/ Search \/ Review

Spec == Init /\ [][Next]_vars
=============================================================================

----------------------------- MODULE FoodDrugTool -----------------------------
(* Food utensils, food, cosmetics and medical devices                        *)
(* (app/tools/food_drug/tool.py, rules.py): three questions the model must    *)
(* answer and quote, a choice among the items of devices, and a rule per area.*)
EXTENDS EvidenceSearch

CONSTANTS
  FoodReadings,   \* what a model may read out of a listing
  DeviceItems,    \* DeviceItem: ids of the items of annex 1
  BannedRows,     \* BannedIngredient: the rows of the annex of ingredients
  FoodReviews     \* the selections a review may answer with

(* Reading: facts, with the answers to the three questions among them; does   *)
(* it name devices; the kinds of functional cosmetics it proposes.            *)
Reading(facts, device_terms, functional) ==
  [facts |-> facts, device_terms |-> device_terms, functional |-> functional]

BannedRow(name, conditional) == [name |-> name, conditional |-> conditional]

JudgedFields == {"food_contact", "edible", "skin_applied"}

(* Numbers of the rule that exist.                                           *)
FunctionalTypes == {1, 2}

ReadFacts(raw, snippets) ==
  {f \in Confirmed(raw, snippets): f.field \in JudgedFields => f.value \in {"yes", "no"}}

-----------------------------------------------------------------------------
Answers(r, field) == Values(r.facts, field)

Judged(r, field) ==
  IF Answers(r, field) = {"yes"} THEN "yes"
  ELSE IF Answers(r, field) = {"no"} THEN "no" ELSE "open"

(* Mutant: only answers that contradict one another are asked.               *)
DisputedOnly(r, field) == Answers(r, field) = {"yes", "no"}

(* Asked: contradictory answers; a "yes" whose quote is not in the listing;   *)
(* contact with food that only the extraction saw.                           *)
AskedAgain(r, field) ==
  \/ Answers(r, field) = {"yes", "no"}
  \/ Answers(r, field) = {} /\ field \in r.own.unverified
  \/ Answers(r, field) = {} /\ field = "food_contact" /\ r.own.food_contact

Explained(r, field) ==
  Answers(r, field) = {"yes", "no"} \/ (Answers(r, field) = {} /\ field \in r.own.unverified)

HealthClaims(r) == Values(r.facts, "health_claim")
BeautyClaims(r) == Values(r.facts, "beauty_claim")

IngestedOrApplied(r) == "yes" \in {Judged(r, "edible"), Judged(r, "skin_applied")}

(* Mutant: a claim alone looks no device up.                                 *)
NamedDevices(r) == ~IngestedOrApplied(r) /\ r.own.device_terms

(* A claim to heal, of something that is eaten or applied, is a matter of     *)
(* medicines; of anything else it may be a device.                           *)
DeviceConcerned(r) == ~IngestedOrApplied(r) /\ (HealthClaims(r) # {} \/ r.own.device_terms)

-----------------------------------------------------------------------------
(* Article sources can only be named if the law was read.                    *)
Articles(r, names) == IF r.own.evidence THEN names ELSE {}

Possibly(subject, risk, facts, sources, requires) ==
  Finding(subject, "possibly_required", risk, Fields(facts), sources, requires)

Business(kind) == {<<kind, "import">>, <<kind, "agent">>}

FoodContact(r) ==
  {Possibly("food utensil", "medium", r.facts, Articles(r, {"definition", "import"}),
            Business("utensil"))}

(* A claim about what is eaten is one of health food, whatever it promises.   *)
Food(r) ==
  LET claimed == HealthClaims(r) \cup BeautyClaims(r) # {}
  IN {Possibly("food", "medium", r.facts,
               Articles(r, {"definition", "import"} \cup (IF claimed THEN {"health food"} ELSE {})),
               Business("food") \cup (IF claimed THEN {<<"food", "health food">>} ELSE {}))}

Types(r) ==
  IF HealthClaims(r) \cup BeautyClaims(r) # {} /\ r.own.evidence
  THEN r.own.functional \cap FunctionalTypes ELSE {}

(* The names of ingredients are compared with the names of the annex.        *)
Banned(r) ==
  {row \in (IF r.own.evidence THEN BannedRows ELSE {}): row.name \in Values(r.facts, "ingredient")}

ClaimFacts(r)      == {f \in r.facts: f.field \in {"beauty_claim", "health_claim"}}
IngredientFacts(r, row) == {f \in r.facts: f.field = "ingredient" /\ f.value = row.name}

(* A row with a condition does not say that the ingredient is banned.         *)
Cosmetic(r) ==
  {Possibly("cosmetic", "medium", r.facts, Articles(r, {"definition", "business"}),
            Business("cosmetic"))}
  \cup (IF Types(r) = {} THEN {}
        ELSE {Possibly("functional cosmetic", "medium", ClaimFacts(r), {"scope", "review", "sale ban"},
                       {<<"cosmetic", "functional">>})})
  \cup {Possibly(row.name, IF row.conditional THEN "medium" ELSE "high", IngredientFacts(r, row),
                 {"annex 1", "sale ban"}, {<<"banned", row.name>>}) : row \in Banned(r)}

Areas(r) ==
  (IF Judged(r, "food_contact") = "yes" THEN FoodContact(r) ELSE {})
    \cup (IF Judged(r, "edible") = "yes" THEN Food(r) ELSE {})
    \cup (IF Judged(r, "skin_applied") = "yes" THEN Cosmetic(r) ELSE {})

(* No item of the annex was found: with a claim that is a finding of its own. *)
UnmatchedClaim(r) ==
  Finding("device unknown", "insufficient_information", "medium", Fields(r.facts),
          Articles(r, {"definition", "misleading"}), {<<"device", "claim">>})

Unmatched(r) == IF HealthClaims(r) # {} THEN {UnmatchedClaim(r)} ELSE {}

(* The findings of all areas, and the actions of each.                       *)
Ends(r, devices) ==
  LET findings == Areas(r) \cup devices
  IN Conclude([r EXCEPT !.actions = UNION {f.requires : f \in findings},
                 !.notes = @ \cup (IF DeviceConcerned(r) /\ devices = {} THEN {"no device"} ELSE {})],
              findings)

-----------------------------------------------------------------------------
Init == Idle

Start ==
  \E texts \in {{"t1"}, {"blank"}}, contact \in BOOLEAN:
    Begin("food_drug", [food_contact |-> contact, evidence |-> FALSE, device_terms |-> FALSE,
                        functional |-> {}, unverified |-> {}], texts, {}, "prepare")

(* Without a text of the law that can be trusted the tool goes on and names   *)
(* no article.                                                               *)
Prepare ==
  /\ stage = "prepare"
  /\ \/ Fail
     \/ stage' = "extract" /\ run' = Note(run, {"no evidence"})
     \/ stage' = "extract" /\ run' = [run EXCEPT !.own.evidence = TRUE]

Extract ==
  /\ stage = "extract"
  /\ \/ Fail
     \/ \E reading \in FoodReadings:
          LET facts == ReadFacts(reading.facts, run.snippets)
              read  == [run EXCEPT !.facts = facts, !.own.device_terms = reading.device_terms,
                          !.own.functional = reading.functional,
                          !.own.unverified =
                            Fields({f \in reading.facts \ facts: f.field \in JudgedFields /\ f.value = "yes"})]
              asked == [read EXCEPT !.missing = {f \in JudgedFields: AskedAgain(read, f)},
                          !.notes = @ \cup (IF facts # reading.facts THEN {"facts dropped"} ELSE {})
                            \cup (IF \E f \in JudgedFields: Explained(read, f) THEN {"undecided"} ELSE {})
                            \cup (IF IngestedOrApplied(read) /\ HealthClaims(read) # {}
                                  THEN {"misbranding"} ELSE {})]
          IN IF ~DeviceConcerned(asked) THEN Ends(asked, {})
             ELSE IF ~asked.own.evidence THEN Ends(asked, Unmatched(asked))
             ELSE stage' = "search" /\ run' = asked

SearchTerms(r) == r.own.device_terms \/ Fields(r.facts) \cap {"product_type", "intended_use"} # {}

Search ==
  /\ stage = "search"
  /\ \E rows \in SUBSET DeviceItems:
       IF SearchTerms(run) /\ rows # {}
       THEN stage' = "review" /\ run' = [run EXCEPT !.rows = rows]
       ELSE Ends(run, Unmatched(run))

Device(r, selection) ==
  Finding(selection.row, "possibly_required", "medium", selection.cites,
          {"definition", "annex 1", "import", "sale", "exemption"}, Business(selection.row))

Review ==
  /\ stage = "review"
  /\ \/ Fail
     \/ \E selections \in FoodReviews:
          LET chosen == Pick(selections, run.rows, Fields(run.facts), {})
              asks   == UNION {s.needs : s \in ToSet(chosen)} \ Fields(run.facts)
              read   == [run EXCEPT !.chosen = chosen, !.missing = @ \cup (asks \cap {"intended_use"})]
          IN Ends(read, IF chosen = <<>> THEN Unmatched(read)
                        ELSE {Device(read, s) : s \in ToSet(chosen)})

Next == Start \/ Prepare \/ Extract \/ Search \/ Review

Spec == Init /\ [][Next]_vars

-----------------------------------------------------------------------------
(* A claim to heal that stands in the listing is never passed over: either    *)
(* the result warns that it is one of medicines, or there is a finding about  *)
(* devices, found or not.                                                    *)
ClaimIsNeverDropped ==
  stage = "done" /\ run.snippets # {} /\ HealthClaims(run) # {} =>
    \/ "misbranding" \in run.notes
    \/ \E f \in run.findings: f.subject \in DeviceItems \cup {"device unknown"}

(* An answer "yes" that the listing does not bear out never just disappears:  *)
(* the question is asked again, or a quoted answer settles it.                *)
UnprovenYesIsAsked ==
  stage = "done" /\ run.snippets # {} =>
    \A field \in run.own.unverified: field \in run.missing \/ field \in Fields(run.facts)
=============================================================================

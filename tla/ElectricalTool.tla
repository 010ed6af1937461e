---------------------------- MODULE ElectricalTool ----------------------------
(* Which rows of the tables of electrical appliances a product may be        *)
(* (app/tools/electrical/tool.py, rules.py, search.py): the model reads and  *)
(* chooses, and the code applies the clear exclusions of the law.            *)
EXTENDS EvidenceSearch

CONSTANTS
  ElectricalTexts,     \* listings
  ElectricalFacts,     \* the facts a model may read out of them
  AnnexBlocks,         \* the rows of the tables
  ElectricalReviews    \* the selections a review may answer with

(* An AnnexBlock: its scheme, is it a component of an energy storage system,  *)
(* is it a battery or a supply, the currents for which its note says that it *)
(* includes low voltages, and its place in the list of annex 13.             *)
AnnexBlock(id, scheme, ess, supply, includesLow, listing) ==
  [id |-> id, scheme |-> scheme, ess |-> ess, supply |-> supply,
   includesLow |-> includesLow, listing |-> listing]

(* The value of a fact as the rules read it: a text, the current and the     *)
(* voltages in it.                                                           *)
Value(text, current, volts) == [text |-> text, current |-> current, volts |-> volts]

RequiredFields   == {"product_type"}
AskedFields      == {"power_source", "rated_voltage"}
ElectricalFields == AskedFields \cup {"rated_power", "battery_only", "adapter_included"}
QuestionFields   == RequiredFields \cup AskedFields \cup {"battery_only"}

-----------------------------------------------------------------------------
PowerValues(facts) == UNION {Values(facts, field) : field \in AskedFields}

Currents(facts) == {v.current : v \in PowerValues(facts)} \ {"none"}

Volts(facts) == UNION {v.volts : v \in PowerValues(facts)}

(* Article 3 of the notice: 30 V of alternating, 42 V of direct current.     *)
LowSides(facts, current) ==
  {volt <= (IF current = "AC" THEN 30 ELSE 42) : volt \in Volts(facts)}

TheCurrent(facts) ==
  IF Cardinality(Currents(facts)) = 1 THEN CHOOSE c \in Currents(facts): TRUE ELSE "none"

PowerConflicts(facts) ==
  IF Cardinality(Currents(facts)) > 1 THEN {"power_source"}
  ELSE IF TheCurrent(facts) # "none" /\ LowSides(facts, TheCurrent(facts)) = BOOLEAN
  THEN {"rated_voltage"} ELSE {}

LowVoltage(facts, conflicted) ==
  /\ conflicted \cap AskedFields = {}
  /\ TheCurrent(facts) # "none"
  /\ LowSides(facts, TheCurrent(facts)) = {TRUE}

ExcludedByLowVoltage(block, facts, conflicted) ==
  LowVoltage(facts, conflicted) /\ TheCurrent(facts) \notin block.includesLow

BatteryTexts(facts) == {v.text : v \in Values(facts, "battery_only")}

BatteryOnly(facts, conflicted) ==
  "battery_only" \notin conflicted /\ BatteryTexts(facts) = {"yes"}

BatteryUnknown(facts, conflicted) == "battery_only" \in conflicted \/ BatteryTexts(facts) = {}

MentionsBattery(r) ==
  \/ r.own.battery_included
  \/ \E v \in Values(r.facts, "power_source") \cup Values(r.facts, "product_type"):
       v.text = "battery"

Conflicts(facts) ==
  PowerConflicts(facts) \cup (IF Cardinality(BatteryTexts(facts)) > 1 THEN {"battery_only"} ELSE {})

(* The two answers battery_only may have; its value need not be in the quote. *)
ReadFacts(raw, snippets) ==
  {f \in Confirmed(raw, snippets): f.field = "battery_only" => f.value.text \in {"yes", "no"}}

MentionsStorage(facts) == \E f \in facts: f.value.text = "storage"

-----------------------------------------------------------------------------
Init == Idle

Start ==
  \E texts \in ElectricalTexts, included \in BOOLEAN:
    Begin("electrical", [battery_included |-> included], texts,
          RequiredFields \cup AskedFields, "extract")

Extract ==
  /\ stage = "extract"
  /\ \/ Fail
     \/ \E raw \in ElectricalFacts:
          LET facts     == ReadFacts(raw, run.snippets)
              conflicts == Conflicts(facts)
              read == [run EXCEPT !.facts = facts, !.conflicted = conflicts,
                         !.missing = ((RequiredFields \cup AskedFields) \ Fields(facts)) \cup conflicts,
                         !.notes = @ \cup (IF facts # raw THEN {"facts dropped"} ELSE {})
                                     \cup (IF conflicts # {} THEN {"conflicts"} ELSE {})]
          IN IF RequiredFields \subseteq Fields(facts) THEN stage' = "search" /\ run' = read
             ELSE Conclude(read, {})

(* A product of which nothing is electric is not asked about its voltage.    *)
SkipElectricalQuestions(r) ==
  IF Fields(r.facts) \cap ElectricalFields # {} THEN r
  ELSE [r EXCEPT !.missing = @ \ AskedFields, !.notes = @ \cup {"nothing electric"}]

(* Review of the rows, if any are left.                                      *)
WithRows(r, rows) ==
  IF rows = {} THEN Conclude(SkipElectricalQuestions(Note(r, {"no row"})), {})
  ELSE stage' = "review" /\ run' = [r EXCEPT !.rows = rows]

(* Rows of storage systems resemble any battery and are left out.            *)
Shortlisted(rows, facts) == {b \in rows: b.ess => MentionsStorage(facts)}

(* A product that runs on batteries alone is excluded by the common note: of  *)
(* the rows, batteries and supplies stay, and more of these are looked for.   *)
Search ==
  /\ stage = "search"
  /\ \/ Fail
     \/ Conclude(Note(run, {"no evidence"}), {})
     \/ \E rows \in SUBSET AnnexBlocks:
          LET short == Shortlisted(rows, run.facts)
          IN IF BatteryOnly(run.facts, run.conflicted)
             THEN stage' = "extra" /\ run' = [run EXCEPT !.rows = {b \in short: b.supply}]
             ELSE WithRows(run, short)

(* Mutant: the rows found for the battery are not looked over.               *)
KeptAsFound(rows, extra) == rows \cup extra

Kept(rows, extra) == rows \cup {b \in extra: b.supply /\ ~b.ess}

(* Here evidence that is not available is a failure.                         *)
SearchExtra ==
  /\ stage = "extra"
  /\ \/ Fail
     \/ \E extra \in SUBSET AnnexBlocks: WithRows(run, Kept(run.rows, extra))

(* Annex 13 lists what may be bought for a customer without a mark, for two   *)
(* of the schemes; the list may be missing.                                  *)
PurchaseAgentStatus(block, listKnown) ==
  IF listKnown /\ block.scheme # "supplier" THEN block.listing ELSE "unknown"

SaleActions(block, status) ==
  {<<block.id, status>>}
    \cup (IF status \in {"listed", "listed_with_exclusion", "unmatched"}
          THEN {<<block.id, "import">>} ELSE {})

(* The body of a product with a battery: does it run on the battery alone?   *)
AsksBattery(block, r) ==
  BatteryUnknown(r.facts, r.conflicted) /\ MentionsBattery(r) /\ ~block.supply

Sources(block, r, status) ==
  {"row"} \cup (IF LowVoltage(r.facts, r.conflicted) THEN {"scope"} ELSE {})
          \cup (IF AsksBattery(block, r) THEN {"common note"} ELSE {})
          \cup (IF status # "unknown" THEN {"annex 13"} ELSE {})

BlockOf(rows, id) == CHOOSE b \in rows: b.id = id

Candidate(block, r, selection, status) ==
  Finding(block.id, "possibly_required", "medium", selection.cites, Sources(block, r, status),
          SaleActions(block, status))

Asks(block, r, selection) ==
  ((selection.needs \cap QuestionFields) \ Fields(r.facts))
    \cup (IF AsksBattery(block, r) THEN {"battery_only"} ELSE {})

Excluded(r) == {b.id : b \in {c \in r.rows: ExcludedByLowVoltage(c, r.facts, r.conflicted)}}

Review ==
  /\ stage = "review"
  /\ \/ Fail
     \/ \E selections \in ElectricalReviews, listKnown \in BOOLEAN:
          LET chosen == ToSet(PickAll(selections, {b.id : b \in run.rows}, Fields(run.facts), Excluded(run)))
              block(s) == BlockOf(run.rows, s.row)
              findings == {Candidate(block(s), run, s, PurchaseAgentStatus(block(s), listKnown)) : s \in chosen}
              read == [run EXCEPT !.missing = @ \cup UNION {Asks(block(s), run, s) : s \in chosen},
                                  !.actions = UNION {f.requires : f \in findings}]
          IN IF findings # {} THEN Conclude(read, findings)
             ELSE Conclude(SkipElectricalQuestions(Note(read, {"no choice"})), {})

Next == Start \/ Extract \/ Search \/ SearchExtra \/ Review

Spec == Init /\ [][Next]_vars

-----------------------------------------------------------------------------
(* What the law excludes is never proposed, whatever the model chose and in    *)
(* whichever of the two searches the row was found: a product below the        *)
(* voltage limit of its one current, unless the note of the row includes it,   *)
(* and one on batteries alone, of which only batteries and supplies are.       *)
Below(facts, current, limit) ==
  Currents(facts) = {current} /\ Volts(facts) # {} /\ \A volt \in Volts(facts): volt <= limit

ExcludedStayOut ==
  stage = "done" =>
    \A f \in run.findings: f.determination = "possibly_required" =>
      LET block == BlockOf(AnnexBlocks, f.subject)
      IN /\ Below(run.facts, "AC", 30) => "AC" \in block.includesLow
         /\ Below(run.facts, "DC", 42) => "DC" \in block.includesLow
         /\ BatteryTexts(run.facts) = {"yes"} => block.supply
         /\ block.ess => MentionsStorage(run.facts)
=============================================================================

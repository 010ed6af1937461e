----------------------------- MODULE ChildrenTool -----------------------------
(* Which items of the children's product act a product may be                *)
(* (app/tools/children/tool.py, rules.py, search.py).                        *)
EXTENDS EvidenceSearch, Integers

CONSTANTS
  ChildrenProducts,   \* what the extraction said: for children, an age
  ChildrenFacts,      \* the facts a model may read out of the listing
  ChildrenItems,      \* the items of the rule's annexes
  ChildrenReviews     \* the selections a review may answer with

-----------------------------------------------------------------------------
(* Ages as the listings write them, read as months.  A text is a record of what *)
(* the patterns find in it: a ban of use, one age or a range, and the word behind. *)
ChildLimitMonths == 13 * 12 + 11

(* shape: "single", "range", "under", "plus" (a number and a +), "word" or    *)
(* "none".  A single age and a range have a word behind them (op).            *)
AgeText(shape, low, high, unit, op, ban) ==
  [shape |-> shape, low |-> low, high |-> high, unit |-> unit, op |-> op, ban |-> ban]

Months(number, unit) == IF unit = "month" THEN number ELSE number * 12

(* Mutant: a year ends with its first month.                                *)
NoRest(unit) == 0

(* The months of the last year that is still meant.                         *)
Rest(unit) == IF unit = "month" THEN 0 ELSE 11

(* -1: no bound.                                                            *)
AgeRange(min, max) == [min |-> min, max |-> max]

Unread == AgeRange(-2, -2)

(* "Not for children under three" is three and above; any other ban is not    *)
(* read.                                                                     *)
ParseBan(text) ==
  IF text.shape = "under" \/ (text.shape = "single" /\ text.op = "below")
  THEN AgeRange(Months(text.low, text.unit), -1) ELSE Unread

ParseSingle(text) ==
  LET months == Months(text.low, text.unit)
  IN CASE text.op = "from"  -> AgeRange(months, -1)
       [] text.op = "above" -> AgeRange(months + (IF text.unit = "month" THEN 1 ELSE 12), -1)
       [] text.op = "below" -> AgeRange(-1, months - 1)
       [] text.op = "to"    -> AgeRange(-1, months + Rest(text.unit))
       [] OTHER             -> AgeRange(months, months + Rest(text.unit))

ParseRange(text) ==
  AgeRange(Months(text.low, text.unit),
           Months(text.high, text.unit) + (IF text.op = "below" THEN -1 ELSE Rest(text.unit)))

ParseAge(text) ==
  IF text.ban THEN ParseBan(text)
  ELSE CASE text.shape = "under"  -> AgeRange(-1, Months(text.low, text.unit) - 1)
         [] text.shape = "range"  -> ParseRange(text)
         [] text.shape = "single" -> ParseSingle(text)
         [] text.shape = "plus"   -> AgeRange(text.low * 12, -1)
         [] OTHER                 -> Unread

(* For children of at most 13 years?  A number goes before a word.           *)
ChildState(text) ==
  LET age == ParseAge(text)
  IN IF age # Unread THEN (IF age.min <= ChildLimitMonths THEN "yes" ELSE "no")
     ELSE IF text.op = "child" THEN "yes" ELSE IF text.op = "adult" THEN "no" ELSE "unknown"

ReadStates(texts) == {ChildState(t) : t \in texts} \ {"unknown"}

(* Texts that disagree decide nothing.                                       *)
CombinedChildState(texts) ==
  IF Cardinality(ReadStates(texts)) = 1 THEN CHOOSE s \in ReadStates(texts): TRUE ELSE "unknown"

AgeConflict(texts) == Cardinality(ReadStates(texts)) > 1

(* What the words mean, of a child that is m months old.                    *)
Years(m) == m \div 12

Counted(m, unit) == IF unit = "month" THEN m ELSE Years(m)

Means(text, m) ==
  LET n == Counted(m, text.unit)
  IN CASE text.ban               -> n >= text.low
       [] text.shape = "under"   -> n < text.low
       [] text.shape = "plus"    -> Years(m) >= text.low
       [] text.shape = "range"   -> n >= text.low /\ (IF text.op = "below" THEN n < text.high
                                                                          ELSE n <= text.high)
       [] text.op = "from"       -> n >= text.low
       [] text.op = "above"      -> n > text.low
       [] text.op = "below"      -> n < text.low
       [] text.op = "to"         -> n <= text.low
       [] OTHER                  -> n = text.low

(* The months an age was read as are those its words mean, at their limits too. *)
ReadRight(text) ==
  LET age == ParseAge(text)
  IN age = Unread \/ \A m \in 0 .. 240:
       Means(text, m) = (m >= age.min /\ (age.max = -1 \/ m <= age.max))

-----------------------------------------------------------------------------
ChildrenItem(id, scheme) == [id |-> id, scheme |-> scheme]

(* A product: is it for children, and the age the extraction read, which may  *)
(* stand in the listing.                                                     *)
ChildrenProduct(for_children, age, in_listing) ==
  [for_children |-> for_children, target_age |-> age, in_listing |-> in_listing]

(* The value of an age, and the age its whole quote is about.                *)
AgeValue(said, quoted) == [said |-> said, quoted |-> quoted]

ExcludedKinds == {"medicine", "cosmetics", "food utensil"}

(* A value cut out of a ban means the opposite of it: the quote is read.      *)
AgeRead(value) == IF value.quoted.ban /\ ~value.said.ban THEN value.quoted ELSE value.said

ReadFacts(raw, snippets) ==
  {f \in Confirmed(raw, snippets): f.field = "excluded_kind" => f.value \in ExcludedKinds}

Ages(facts, product) ==
  LET read == {AgeRead(v) : v \in Values(facts, "target_age")}
  IN IF read # {} THEN read
     ELSE IF product.in_listing THEN {product.target_age} ELSE {}

(* The extraction says it is for children and the label that it is not.       *)
Contradicted(ages, product) == CombinedChildState(ages) = "no" /\ product.for_children

State(ages, product) ==
  IF Contradicted(ages, product) THEN "unknown" ELSE CombinedChildState(ages)

AgesConflict(ages, product) == AgeConflict(ages) \/ Contradicted(ages, product)

AgeState(r) == State(Ages(r.facts, r.own), r.own)

-----------------------------------------------------------------------------
Init == Idle

Start ==
  \E texts \in {{"t1"}, {"blank"}}, product \in ChildrenProducts:
    Begin("children", product, texts, {"product_type", "target_age"}, "prepare")

Prepare ==
  /\ stage = "prepare"
  /\ \/ Fail
     \/ stage' = "extract" /\ UNCHANGED run

Extract ==
  /\ stage = "extract"
  /\ \/ Fail
     \/ \E raw \in ChildrenFacts:
          LET facts    == ReadFacts(raw, run.snippets)
              ages     == Ages(facts, run.own)
              conflict == AgesConflict(ages, run.own)
          IN /\ stage' = "search"
             /\ run' = [run EXCEPT !.facts = facts,
                          !.conflicted = IF conflict THEN {"target_age"} ELSE {},
                          !.missing = ({"product_type"} \ Fields(facts))
                                      \cup (IF ages = {} \/ conflict THEN {"target_age"} ELSE {}),
                          !.notes = @ \cup (IF facts # raw THEN {"facts dropped"} ELSE {})
                                      \cup (IF conflict THEN {"conflicts"} ELSE {})]

Seems(subject) == Finding(subject, "insufficient_information", "unknown",
                          Fields(run.facts), {"article 2"}, {})

(* Things of other laws, and things that are not for children, are said so    *)
(* and not looked up.  Neither is certain.                                   *)
OtherLaw == Conclude([run EXCEPT !.missing = @ \ {"target_age"}], {Seems("excluded kind")})

NotForChildren == Conclude(run, {Seems("age")})

Designated == {i \in ChildrenItems: i.scheme # "supplier"}

(* Every item of the two stricter schemes is reviewed, ranked or not.        *)
ReviewItems(ranked) == ranked \cup Designated

Search ==
  /\ stage = "search"
  /\ \/ Fail
     \/ Conclude(Note(run, {"no evidence"}), {})
     \/ IF "excluded_kind" \in Fields(run.facts) THEN OtherLaw
        ELSE IF AgeState(run) = "no" THEN NotForChildren
        ELSE IF "product_type" \notin Fields(run.facts) THEN Conclude(run, {})
        ELSE \E ranked \in SUBSET ChildrenItems:
               stage' = "review" /\ run' = [run EXCEPT !.rows = ReviewItems(ranked)]

SaleAction(id) == <<id, "kc">>

Sources(item, state) == {item.scheme} \cup (IF state = "yes" THEN {"article 2"} ELSE {})

Candidate(item, state, selection) ==
  Finding(item.id, "possibly_required", "medium", selection.cites, Sources(item, state),
          {SaleAction(item.id)})

Fallback == "supplier item"

Supplier ==
  Finding(Fallback, "possibly_required", "medium", Fields(run.facts),
          {"article 2", "common standard"}, {SaleAction(Fallback)})

Dropped(selections, chosen) == \E s \in ToSet(selections): s.applies /\ s.row \notin {c.row : c \in ToSet(chosen)}

(* Mutant: a choice that could not be confirmed is as good as none.           *)
LoweredAnyway(chosen, selections) == chosen = <<>> /\ AgeState(run) = "yes"

(* A children's product with no item of its own is under the mildest scheme;  *)
(* not if a choice the model made had to be dropped.                         *)
Lowered(chosen, selections) ==
  chosen = <<>> /\ AgeState(run) = "yes" /\ ~Dropped(selections, chosen)

Why(chosen, selections) ==
  IF chosen # <<>> THEN {}
  ELSE IF Lowered(chosen, selections) THEN {"no item"}
  ELSE IF Dropped(selections, chosen) THEN {"not lowered"} ELSE {"no choice"}

ItemOf(rows, id) == CHOOSE i \in rows: i.id = id

Review ==
  /\ stage = "review"
  /\ \/ Fail
     \/ \E selections \in ChildrenReviews:
          LET chosen   == Pick(selections, {i.id : i \in run.rows}, Fields(run.facts), {})
              findings == {Candidate(ItemOf(run.rows, s.row), AgeState(run), s) : s \in ToSet(chosen)}
                            \cup (IF Lowered(chosen, selections) THEN {Supplier} ELSE {})
          IN Conclude([run EXCEPT !.chosen = selections,
                         !.missing = @ \cup (UNION {s.needs : s \in ToSet(chosen)} \ Fields(run.facts)),
                         !.actions = UNION {f.requires : f \in findings},
                         !.notes = @ \cup Why(chosen, selections)],
                      findings)

Next == Start \/ Prepare \/ Extract \/ Search \/ Review

Spec == Init /\ [][Next]_vars

-----------------------------------------------------------------------------
(* The mildest scheme is proposed only to a children's product of whose age   *)
(* every reading says so, after every item of the stricter schemes has been   *)
(* put before the model, and if the model chose none of them.                *)
NeverLoweredUnseen ==
  stage = "done" /\ (\E f \in run.findings: f.subject = Fallback) =>
    /\ Designated \subseteq run.rows
    /\ \A s \in ToSet(run.chosen): ~s.applies
    /\ Ages(run.facts, run.own) # {}
    /\ \A age \in Ages(run.facts, run.own): ChildState(age) # "no"

(* An age is read as its words mean it, whether years or months, one age or a  *)
(* range, and a ban as the opposite of what it names; to the month, for the    *)
(* limit of 13 years is compared with it.                                     *)
AgesMeanWhatTheySay ==
  stage = "done" => \A v \in Values(run.facts, "target_age"): ReadRight(AgeRead(v))

(* An age that the listing bans is never read as the age it is for: of a      *)
(* product that may not be used by children there is no candidate.            *)
BansAreRead ==
  stage = "done" /\ (\E f \in run.facts: f.field = "target_age" /\ f.value.quoted.ban
                                         /\ f.value.quoted.low * 12 > ChildLimitMonths)
    => \A f \in run.findings:
         f.determination = "possibly_required" =>
           AgesConflict(Ages(run.facts, run.own), run.own)
=============================================================================

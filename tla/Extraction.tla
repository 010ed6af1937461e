------------------------------ MODULE Extraction ------------------------------
(* What the model read out of a listing becomes a product: what the mall wrote *)
(* around the seller's text is cut off first, then what the model settled      *)
(* without ground, or against the seller's text, is taken back                *)
(* (app/agents/extraction).  A block of text is a sequence of lines; a line is *)
(* a landmark of the mall's page or text that says some facts, each a pair of  *)
(* what it is about and what is said of it.                                   *)
EXTENDS Naturals, Sequences, FiniteSets, FiniteSetsExt, SequencesExt

CONSTANTS
  Listing,   \* the listings that may come: blocks of text, and whether there are images
  Output,    \* what the model may make of one
  None       \* nothing is known

VARIABLES
  listing,
  output,    \* ProductAttributes, the model's
  product    \* what extraction makes of it

vars == <<listing, output, product>>

Line(kind, by, says) == [kind |-> kind, by |-> by, says |-> says]

Init == listing = None /\ output = None /\ product = None

-----------------------------------------------------------------------------
(* The seller's region of a page (seller_region.py).                           *)
IndexFrom(page, start, kinds) ==
  LET found == {i \in start..Len(page) : page[i].kind \in kinds} IN IF found = {} THEN 0 ELSE Min(found)

Cut(text, title) == [trimmed |-> TRUE, text |-> text, title |-> title]

Whole(page) == [trimmed |-> FALSE, text |-> page, title |-> None]

OrEnd(page, i) == IF i = 0 THEN Len(page) + 1 ELSE i

(* The title is below the cart of the head, or below logo and count of the cart. *)
AliTop(page) ==
  LET cart == IndexFrom(page, 1, {"cart"})
      logo == IndexFrom(page, 1, {"logo"})
  IN IF cart # 0 THEN cart + 1
     ELSE Min({i \in logo + 1..Len(page) : page[i].kind # "digits"} \cup {Len(page) + 1})

AliEnds == {"buyer_questions", "disclaimer", "seller", "promise"}

(* Mutant: what comes after the seller's shop is not cut off.                  *)
AliQuestionsEnd == {"buyer_questions", "disclaimer"}

AliEnd == AliEnds

(* The first "info" is a tab.                                                 *)
CutAliExpress(page) ==
  LET top   == AliTop(page)
      stop1 == IndexFrom(page, top, {"ai_summary", "related"})
      info  == {i \in DOMAIN page : page[i].kind = "info"}
      start2 == Min(info \ {Min(info)})
      stop2 == OrEnd(page, IndexFrom(page, start2, AliEnd))
  IN IF stop1 = 0 \/ Cardinality(info) < 2 THEN Whole(page)
     ELSE Cut(SubSeq(page, top, stop1 - 1) \o SubSeq(page, start2, stop2 - 1),
              IF top < stop1 THEN page[top] ELSE None)

(* The line that begins the box may end with the whole title.                  *)
FullTitle(page) ==
  LET boxes == {i \in DOMAIN page : page[i].kind = "box_title"}
  IN IF boxes = {} THEN None ELSE Line("title", "seller", page[Min(boxes)].says)

(* Rows between the quantity and the delivery, if there are any.               *)
BoxSpec(page, box) ==
  LET quantity == IndexFrom(page, box, {"quantity"})
      shipping == IndexFrom(page, quantity + 1, {"shipping"})
  IN IF quantity = 0 \/ shipping = 0 \/ \A i \in quantity + 1..shipping - 1: page[i].kind = "digits"
     THEN <<>> ELSE SubSeq(page, quantity, shipping - 1)

Length == [path |-> 0, cut_title |-> 1, notice |-> 2, title |-> 3]

Longest(lines) ==
  IF lines = <<>> THEN None
  ELSE lines[CHOOSE i \in DOMAIN lines : \A j \in DOMAIN lines :
                 Length[lines[i].kind] >= Length[lines[j].kind]]

(* Mutant: the longest line, whatever the box says.                            *)
LongestOnly(page, candidates) == Longest(candidates)

TemuTitle(page, candidates) ==
  IF FullTitle(page) # None /\ \E i \in DOMAIN candidates: candidates[i].kind = "cut_title"
  THEN FullTitle(page) ELSE Longest(candidates)

CutTemu(page) ==
  LET top    == IndexFrom(page, 1, {"category"}) + 1
      stop1  == IndexFrom(page, top, {"reviews"})
      start2 == IndexFrom(page, top, {"details"})
      stop2  == OrEnd(page, IndexFrom(page, start2, {"box", "box_title", "seller"}))
      head   == SubSeq(page, top, stop1 - 1)
  IN IF top = 1 \/ stop1 = 0 \/ start2 = 0 THEN Whole(page)
     ELSE Cut(head \o SubSeq(page, start2, stop2 - 1) \o BoxSpec(page, stop2), TemuTitle(page, head))

(* A page that is of no mall, or whose landmarks are not found, stays whole.    *)
Region(page) ==
  CASE \E i \in DOMAIN page : i <= 3 /\ page[i].kind = "logo" -> CutAliExpress(page)
    [] \E i \in DOMAIN page : page[i].kind = "temu_app" -> CutTemu(page)
    [] OTHER -> Whole(page)

Text == UNION {ToSet(Region(listing.blocks[i]).text) : i \in DOMAIN listing.blocks}

Titles == {Region(listing.blocks[i]).title : i \in DOMAIN listing.blocks} \ {None}

-----------------------------------------------------------------------------
About(lines, topic) ==
  {f[2] : f \in {g \in UNION {l.says : l \in lines} : g[1] = topic}}

TitleKinds == {"title", "cut_title"}

(* The table of the specification.  A line with the title is not part of it.    *)
Rows == {l \in Text : l.kind \notin TitleKinds}

Conflict(topic, said, against) == {<<topic, said, against>>}

(* The kinds of contradiction of title_spec_conflicts.py.                       *)
GenderConflicts(title) ==
  IF About({title}, "gender") \cap {"men", "women"} # {} /\ "unisex" \in About(Rows, "gender")
  THEN Conflict("gender", About({title}, "gender"), "unisex") ELSE {}

(* An age is a lower and an upper bound, 0 for none.                           *)
AgeConflicts(title) ==
  UNION {Conflict("age", a, b) :
           <<a, b>> \in {<<a, b>> \in About({title}, "age") \X About(Rows, "age") :
                           a[1] # b[1] \/ (a[2] # 0 /\ b[2] # 0 /\ a[2] # b[2])}}

(* A number is its unit, its digits, and where it stands: numbers that share   *)
(* their unit, as in 10000/20000mAh, are one expression.                       *)
OneDigitApart(a, b) ==
  Len(a) = Len(b) /\ \E k \in 2..Len(a) : {i \in DOMAIN a : a[i] # b[i]} = {k}

NumberConflicts(title) ==
  LET said == About({title}, "number")
      spec == About(Rows, "number")
      digits(S, unit) == {n.digits : n \in {m \in S : m.unit = unit}}
  IN UNION {Conflict("number", n, m) :
              <<n, m>> \in {<<n, m>> \in said \X said :
                 n.unit = m.unit /\ n.at < m.at /\ OneDigitApart(n.digits, m.digits)}}
     \cup UNION {Conflict("numbers", digits(said, u), digits(spec, u)) :
              u \in {u \in {n.unit : n \in said} :
                 digits(spec, u) # {} /\ digits(said, u) \cap digits(spec, u) = {}}}

SameMaterial(word) == IF word = "copper" THEN {"copper", "metal"} ELSE {word}

(* One material of the title that the table has speaks for all of them.         *)
MaterialConflicts(title) ==
  LET words == About({title}, "material") \cup About({title}, "part")
      table == About(Rows, "material")
  IN IF table = {} \/ \E w \in words: SameMaterial(w) \cap table # {} THEN {}
     ELSE UNION {Conflict("material", w, table) : w \in About({title}, "material")}

PowerConflicts ==
  IF "no" \in About(Rows, "electric") /\ "mains" \in About(Rows, "power")
  THEN Conflict("electric", "no", "mains") ELSE {}

TitlePowerConflicts(title) ==
  IF About({title}, "powered") # {} /\ "none" \in About(Rows, "power")
  THEN Conflict("power", "rechargeable", "none") ELSE {}

SeasonConflicts(title) ==
  UNION {Conflict("season", a, b) :
           <<a, b>> \in {<<a, b>> \in About({title}, "season") \X About(Rows, "season") : a # b}}

TitleSpecConflicts ==
  PowerConflicts \cup
  UNION {GenderConflicts(t) \cup AgeConflicts(t) \cup NumberConflicts(t) \cup MaterialConflicts(t)
           \cup TitlePowerConflicts(t) \cup SeasonConflicts(t) : t \in Titles}

(* A capacity and "battery not included" somewhere on the page, unless the      *)
(* battery is that of an accessory (rules.py).                                *)
BatteryConflict ==
  IF About(Text, "capacity") # {} /\ "not included" \in About(Text, "battery")
  THEN Conflict("battery", "capacity", "not included") ELSE {}

(* What a pattern finds: name and value.                                      *)
RuleAttributes == {f \in UNION {l.says : l \in Text} : f[1] \in {"voltage", "capacity"}}

-----------------------------------------------------------------------------
(* What is taken back (guessed_flags.py).  Each looks at the fields as those    *)
(* before it have left them.                                                 *)
GuessedFalse == {"food_contact", "skin_contact", "wireless_shield"}
ElectricOnly == {"heating"}
SaidToLack   == {"battery_included", "wireless_comm", "wireless_charging"}
BatteryFields == {"battery_included", "battery_is_the_product"}
Claims       == {"medical_claim", "cosmetic_claim"}

Cleared(fields, names) == [f \in DOMAIN fields |-> IF f \in names THEN None ELSE fields[f]]

Falses(fields, names) == {f \in names \cap DOMAIN fields : fields[f] = FALSE}

MayBeElectric(fields) == fields["electrical_powered"] # FALSE

DropConflictedPower(fields) ==
  IF PowerConflicts = {} THEN fields ELSE Cleared(fields, {"electrical_powered"})

DropGuessedFalse(fields) ==
  Cleared(fields, Falses(fields, GuessedFalse \cup IF MayBeElectric(fields) THEN ElectricOnly ELSE {}))

NonPlant == {"plastic", "metal", "copper", "glass"}
Plant    == {"cotton"}

DropUnsupportedFalse(fields) ==
  LET lacking == IF MayBeElectric(fields) THEN SaidToLack \ About(Text, "denies") ELSE {}
      plant == IF (About(Text, "material") \cup About(Text, "part")) \cap NonPlant = {}
               THEN {"plant_material"} ELSE {}
  IN Cleared(fields, Falses(fields, lacking \cup plant))

PlantContradiction(fields) ==
  IF fields["plant_material"] = FALSE /\ About(Rows, "material") \cap Plant # {}
  THEN Conflict("plant_material", FALSE, About(Rows, "material")) ELSE {}

(* Mutant: only the text that is left, not the titles found elsewhere.         *)
ClaimsOfText == About(Text, "claim")

ClaimsMade == About(Text \cup Titles, "claim")

ClaimContradictions(fields) ==
  UNION {Conflict(c, FALSE, "claims") : c \in Falses(fields, Claims \cap ClaimsMade)}

DropConflictedBattery(fields) ==
  IF BatteryConflict = {} THEN fields ELSE Cleared(fields, BatteryFields)

(* Mutant: the contradiction about power is looked at last.                    *)
PowerLast(fields) == DropConflictedPower(DropUnsupportedFalse(DropGuessedFalse(fields)))

(* What is open after the rules that ask for ground.                            *)
Doubted(fields) == DropUnsupportedFalse(DropGuessedFalse(DropConflictedPower(fields)))

Contradictions(fields) == PlantContradiction(Doubted(fields)) \cup ClaimContradictions(Doubted(fields))

Cleaned(fields) ==
  DropConflictedBattery(Cleared(Doubted(fields), {c[1] : c \in Contradictions(fields)}))

RuleConflicts(fields) == BatteryConflict \cup TitleSpecConflicts \cup Contradictions(fields)

KeepSellerTitles(listing_text) == listing_text \cup Titles

(* The model's attributes have several values each.                           *)
(* Mutant: a value the model has under any name is not added.                 *)
MergedByValue(attributes) ==
  attributes \cup {<<r[1], {r[2]}>> : r \in {r \in RuleAttributes : \A a \in attributes : r[2] \notin a[2]}}

MergeAttributes(attributes) ==
  attributes \cup {<<r[1], {r[2]}>> :
     r \in {r \in RuleAttributes : \A a \in attributes : ~(a[1] = r[1] /\ r[2] \in a[2])}}

-----------------------------------------------------------------------------
Receive ==
  /\ listing = None
  /\ listing' \in Listing
  /\ UNCHANGED <<output, product>>

(* The model answers and _finalize makes a product of it; of a listing with     *)
(* neither text nor images nothing is asked, it is an error.                   *)
Extract ==
  /\ listing # None /\ product = None
  /\ Text # {} \/ listing.images
  /\ \E o \in Output:
       /\ output' = o
       /\ product' = [fields |-> Cleaned(o.fields),
                      listing_text |-> KeepSellerTitles(o.listing_text),
                      attributes |-> MergeAttributes(o.attributes),
                      conflicts |-> RuleConflicts(o.fields)]
  /\ UNCHANGED listing

Next == Receive \/ Extract

-----------------------------------------------------------------------------
Pages == IF listing = None THEN {} ELSE ToSet(listing.blocks)

SellersLines == {l \in UNION {ToSet(p) : p \in Pages} : l.by = "seller"}

(* What the mall put on the page about others is cut off, what the seller wrote  *)
(* stays, and a title that is on the page is found (seller_region.py).           *)
RegionIsTheSellers ==
  \A p \in Pages: Region(p).trimmed =>
    /\ \A l \in ToSet(Region(p).text): l.by # "others"
    /\ \A l \in ToSet(p): l.by = "seller" /\ l.kind \in {"path", "row"} => l \in ToSet(Region(p).text)
    /\ \A l \in ToSet(p): l.kind \in {"title", "box_title"} => Region(p).title.kind = "title"

(* A "no" of the product has its ground in what the seller wrote, whatever the   *)
(* model says; a contradiction leaves the field open and is told, and no field  *)
(* is settled by a rule (agents/extraction/agent.py, guessed_flags.py).          *)
FalseHasGround ==
  product # None =>
    LET fields == product.fields
        electric == fields["electrical_powered"] # FALSE
    IN /\ Falses(fields, GuessedFalse \cup IF electric THEN ElectricOnly ELSE {}) = {}
       /\ electric => Falses(fields, SaidToLack) \subseteq About(SellersLines, "denies")
       /\ fields["plant_material"] = FALSE => "cotton" \notin About(SellersLines, "material")
       /\ Falses(fields, Claims) \cap About(SellersLines, "claim") = {}
       /\ \A f \in DOMAIN fields: fields[f] \in {output.fields[f], None}

ContradictionsStayOpen ==
  product # None =>
    LET settled(names) == \E f \in names: product.fields[f] # None
        told(topic) == \E c \in product.conflicts: c[1] = topic
    IN /\ "no" \in About(SellersLines, "electric") /\ "mains" \in About(SellersLines, "power")
            => ~settled({"electrical_powered"}) /\ told("electric")
       /\ "not included" \in About(SellersLines, "battery") /\ About(SellersLines, "capacity") # {}
            => ~settled(BatteryFields) /\ told("battery")

(* Titles reach the check of claims, values the rules found keep their names.     *)
FactsReachTheProduct ==
  product # None =>
    /\ \A p \in Pages: Region(p).trimmed /\ (\E l \in ToSet(p): l.kind = "title") => \E t \in product.listing_text: t.kind = "title"
    /\ \A f \in UNION {l.says : l \in SellersLines} : f[1] \in {"voltage", "capacity"} =>
         \E a \in product.attributes: a[1] = f[1] /\ f[2] \in a[2]
=============================================================================

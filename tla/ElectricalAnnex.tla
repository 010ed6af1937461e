---------------------------- MODULE ElectricalAnnex ----------------------------
(* How the annexes of the electrical notice are read (_parse_units and         *)
(* parse_annex of app/tools/electrical/evidence.py): a table drawn with lines,  *)
(* three columns wide (category, item, products), in which a remark may belong  *)
(* to one item or, where the columns are merged, to all items above it.        *)
(* A cell is known by the number of its line; names are left out.              *)
EXTENDS Naturals, Sequences, FiniteSetsExt, SequencesExt

CONSTANTS
  None,
  MaxRows     \* bound on the lines of the table

VARIABLES
  lines_read,
  table             \* what _parse_units keeps from line to line

annexVars == <<lines_read, table>>

(* body: the cells right of the category up to where a line is drawn; sep: the  *)
(* cell the line starts in, 0 for none; merges: the columns are merged below.  *)
Row(cat, body, sep, merges) == [cat |-> cat, body |-> body, sep |-> sep, merges |-> merges]

Unit(category, at, segment) ==
  [category |-> category, at |-> at, segment |-> segment, name |-> {at}, subs |-> {}, notes |-> <<>>]

(* labels and segments, for each segment and line read, are not in the code.   *)
Start ==
  [units |-> <<>>, category |-> 0, group_start |-> 1, segment_start |-> 1, group_note |-> <<>>,
   note_mode |-> "none", merged |-> FALSE, current |-> 0, segment |-> 1, labels |-> <<0>>,
   segments |-> <<>>, begun |-> {}]

Init == lines_read = 0 /\ table = None

-----------------------------------------------------------------------------
From(units, first, Change(_)) ==
  [i \in DOMAIN units |-> IF i >= first THEN Change(units[i]) ELSE units[i]]

(* close_group_note: the remark belongs to all items since the last one.       *)
CloseGroupNote(r) ==
  IF r.group_note = <<>> THEN r
  ELSE LET noted(u) == [u EXCEPT !.notes = Append(@, r.group_note)]
       IN [r EXCEPT !.units = From(r.units, r.group_start, noted), !.group_start = Len(r.units) + 1,
                    !.group_note = <<>>]

(* Mutant: a line across the table does not end the items of a remark.        *)
BorderGoesOn(r) ==
  LET c == CloseGroupNote(r)
      end == Len(c.units) + 1
  IN [c EXCEPT !.note_mode = "none", !.merged = FALSE, !.current = 0, !.segment_start = end,
               !.segment = @ + 1, !.labels = Append(@, 0), !.segments = Append(@, r.segment + 1)]

Border(r) ==
  LET c == CloseGroupNote(r)
      end == Len(c.units) + 1
  IN [c EXCEPT !.note_mode = "none", !.merged = FALSE, !.current = 0, !.group_start = end, !.segment_start = end,
               !.segment = @ + 1, !.labels = Append(@, 0), !.segments = Append(@, r.segment + 1)]

(* Mutant: the items above the name of a category stay in the one before.      *)
TakeFromHere(r, cat) ==
  IF cat = 0 \/ cat = r.category THEN r
  ELSE [CloseGroupNote(r) EXCEPT !.category = cat, !.group_start = r.segment_start, !.labels[r.segment] = cat]

(* take_category: the name may stand in the middle of its cell, below items    *)
(* that are in it already.                                                   *)
TakeCategory(r, cat) ==
  IF cat = 0 \/ cat = r.category THEN r
  ELSE LET c == CloseGroupNote(r)
           moved(u) == [u EXCEPT !.category = cat]
       IN [c EXCEPT !.category = cat, !.group_start = r.segment_start, !.labels[r.segment] = cat,
                    !.units = From(c.units, r.segment_start, moved)]

-----------------------------------------------------------------------------
NewUnit(r, at) ==
  [r EXCEPT !.units = Append(@, Unit(r.category, at, r.segment)), !.current = Len(r.units) + 1]

ToGroupNote(r, at) ==
  [r EXCEPT !.note_mode = "group", !.group_note = Append(@, at),
            !.begun = IF r.note_mode = "group" THEN @ ELSE @ \cup {at}]

(* add_unit_note: a remark of several lines is one.                            *)
AddUnitNote(r, cell, at) ==
  LET notes == r.units[r.current].notes
  IN [r EXCEPT !.note_mode = "unit",
               !.units[r.current].notes =
                 IF cell = "note" \/ notes = <<>> THEN Append(notes, <<at>>)
                 ELSE [notes EXCEPT ![Len(notes)] = Append(@, at)]]

(* The cell of the item, alone where the columns are merged.                   *)
MergedCell(r, cell, at) ==
  CASE cell = "note" \/ r.note_mode = "group" -> ToGroupNote(r, at)
    [] cell = "label" -> NewUnit(r, at)
    [] cell = "more" /\ r.current # 0 -> [r EXCEPT !.units[r.current].name = @ \cup {at}]
    [] OTHER -> r

ItemCell(r, cell, at) ==
  CASE cell = "label" \/ (cell = "more" /\ r.current = 0) -> NewUnit(r, at)
    [] cell = "more" -> [r EXCEPT !.units[r.current].name = @ \cup {at}]
    [] OTHER -> r

ProductCell(r, cell, at) ==
  IF cell = "blank" \/ r.current = 0 THEN r
  ELSE IF cell = "note" \/ r.note_mode = "unit" THEN AddUnitNote(r, cell, at)
  ELSE [r EXCEPT !.units[r.current].subs = @ \cup {at}]

TakeBody(r, body, at) ==
  IF body = <<>> THEN r
  ELSE IF r.merged /\ Len(body) = 1 THEN MergedCell(r, body[1], at)
  ELSE IF body[1] = "note" \/ r.note_mode = "group" THEN ToGroupNote(r, at)
  ELSE ProductCell(ItemCell(r, body[1], at), IF Len(body) > 1 THEN body[2] ELSE "blank", at)

(* A line drawn in the row ends a remark; below it the columns may be merged.  *)
Separate(r, row) ==
  IF row.sep = 0 THEN r
  ELSE LET c == IF r.note_mode = "group" THEN CloseGroupNote(r) ELSE r
       IN [c EXCEPT !.note_mode = "none",
                    !.merged = IF row.sep <= 2 THEN row.merges ELSE @,
                    !.current = IF row.sep <= 1 /\ ~row.merges THEN 0 ELSE @]

(* Above the first category nothing is read.                                  *)
TakeRow(r, row, at) ==
  LET c == [TakeCategory(r, row.cat) EXCEPT !.segments = Append(@, r.segment)]
  IN IF c.category = 0 THEN c ELSE Separate(TakeBody(c, row.body, at), row)

Rows(r) ==
  {Row(cat, body, 0, FALSE) :
     cat \in 0..2, body \in IF r.merged THEN {<<"note">>, <<"label">>, <<"more">>} ELSE {<<"label", "sub">>}}
  \cup (IF r.merged THEN {} ELSE {Row(0, body, 0, FALSE) : body \in {<<"note", "more">>, <<"more", "note">>, <<"blank", "sub">>}})
  \cup {Row(0, <<>>, 1, m) : m \in BOOLEAN} \cup {Row(0, <<"blank">>, 2, m) : m \in BOOLEAN}

Open == table = None /\ table' = Start /\ UNCHANGED lines_read

ReadBorder ==
  /\ table # None /\ lines_read \in 1..(MaxRows - 1)
  /\ table' = Border(table) /\ lines_read' = lines_read + 1

ReadRow(row) ==
  /\ lines_read < MaxRows
  /\ table' = TakeRow(table, row, lines_read + 1) /\ lines_read' = lines_read + 1

(* The end of the table closes it like a border.                              *)
End ==
  /\ table # None /\ lines_read = MaxRows
  /\ table' = Border(table) /\ lines_read' = lines_read + 1

Next == Open \/ ReadBorder \/ (table # None /\ \E row \in Rows(table): ReadRow(row)) \/ End

-----------------------------------------------------------------------------
NoteLines(u) == UNION {ToSet(u.notes[i]) : i \in DOMAIN u.notes}

(* parse_annex: an item is one block of evidence, which says whether its        *)
(* remarks take low voltage in.                                              *)
Block(u) == [category |-> u.category, items |-> u.name, includes_low |-> u.notes # <<>>]

Blocks == {Block(table.units[i]) : i \in DOMAIN table.units}

CategoryAbove(k) ==
  LET named == {j \in 1..k: table.labels[j] # 0}
  IN table.labels[Max(named)]

(* All items between two lines across the table are in one category: the one   *)
(* named last between them, however low its name stands, or else the one above. *)
ItemsInTheirCategory ==
  table # None => \A i \in DOMAIN table.units:
    LET u == table.units[i] IN u.category = CategoryAbove(u.segment)

(* A remark reaches the items it is about: those above it up to the line across *)
(* the table, and each of them has the first remark below it, if it is not the *)
(* remark of one item; so does the low voltage that a remark takes in.         *)
RemarksReachTheirItems ==
  table # None => \A i \in DOMAIN table.units:
    LET u == table.units[i]
        below == {n \in table.begun: n > u.at /\ table.segments[n] = u.segment}
    IN /\ \A n \in NoteLines(u): n >= u.at /\ table.segments[n] = u.segment
       /\ u.segment < table.segment /\ below # {} =>
            Min(below) \in NoteLines(u) /\ Block(u).includes_low
=============================================================================

------------------------------- MODULE AnnexRows -------------------------------
(* How the other annexes are read: tables whose rows are the lines between two *)
(* lines across (ingredients, laws, scopes: evidence.py of food_drug, customs   *)
(* and children), devices under their groups, and the scopes of the children's *)
(* notice linked to the items of the rule (link_scopes).                       *)
(* An annex is the sequence of the kinds of its lines.                        *)
(* A section of the radio notice (_section_rows of app/tools/radio/evidence.py) *)
(* has columns on the left that name the equipment, from the group to the kind,  *)
(* and a name stands for all rows to its right until the next one; the columns   *)
(* on the right say what each row requires.  A name is known by the line and the *)
(* column it begins in.                                                      *)
EXTENDS Naturals, Sequences, FiniteSets, FiniteSetsExt, SequencesExt

CONSTANTS
  None,
  MaxAnnex,        \* bound on the lines of an annex
  MaxSectionRows,  \* bound on the lines of a section
  Scopes, Items    \* numbers

VARIABLES
  annex,           \* the lines read so far
  closeness,       \* of each scope to each item, by their names
  lines_read,
  table            \* what is kept of a section from line to line

rowsVars == <<annex, closeness>>

sectionVars == <<lines_read, table>>

Init == annex = <<>> /\ closeness = None

(* A line across, cells that name something, that go on, that are struck out,  *)
(* the header, and a line drawn between two entries of one ingredient.         *)
LineKinds == {"border", "named", "more", "deleted", "header", "inner"}

ReadLine(kind) ==
  /\ closeness = None /\ Len(annex) < MaxAnnex
  /\ annex' = Append(annex, kind) /\ UNCHANGED closeness

-----------------------------------------------------------------------------
(* What a reader collects into a row, and of what lines it makes no row.       *)
Collected ==
  [banned       |-> LineKinds \ {"border"},
   confirmation |-> {"named", "more", "deleted"},
   scope        |-> LineKinds \ {"border"}]

Names == [banned |-> {"named", "deleted"}, confirmation |-> {"named"}, scope |-> {"named", "deleted"}]
Bars  == [banned |-> {}, confirmation |-> {"deleted"}, scope |-> {}]

IsRow(reader, lines) ==
  LET kinds == {annex[i] : i \in lines}
  IN kinds \cap Names[reader] # {} /\ kinds \cap Bars[reader] = {}

Reading(rows, open) == [rows |-> rows, open |-> open]

(* Mutant: what was collected is not cleared if it makes no row.               *)
FlushIfRow(reader, s) ==
  IF IsRow(reader, s.open) THEN Reading(Append(s.rows, s.open), {}) ELSE s

Flush(reader, s) ==
  IF IsRow(reader, s.open) THEN Reading(Append(s.rows, s.open), {}) ELSE Reading(s.rows, {})

Take(reader, s, i) ==
  IF annex[i] = "border" THEN Flush(reader, s)
  ELSE IF annex[i] \in Collected[reader] THEN Reading(s.rows, s.open \cup {i})
  ELSE s

(* parse_banned_ingredients, parse_confirmation_rows, parse_scope_annex.       *)
RowsOf(reader) ==
  Flush(reader, FoldLeft(LAMBDA s, i: Take(reader, s, i), Reading(<<>>, {}), [i \in DOMAIN annex |-> i])).rows

(* parse_device_items, with the header of a group as "header" and a device as   *)
(* "named": each device and the group it is in.                              *)
Devices ==
  FoldLeft(LAMBDA s, i: CASE annex[i] = "header" -> [s EXCEPT !.group = i]
                          [] annex[i] = "named" -> [s EXCEPT !.items = Append(@, [at |-> i, group |-> s.group])]
                          [] OTHER -> s,
           [group |-> 0, items |-> <<>>], [i \in DOMAIN annex |-> i]).items

(* parse_rule_annex: a numbered name begins an item, what follows goes on with   *)
(* it; an item that was struck out is read with its lines, and left out.       *)
RuleRows ==
  FoldLeft(LAMBDA rows, i: CASE annex[i] \in {"named", "deleted"} -> Append(rows, {i})
                             [] annex[i] = "more" /\ rows # <<>> -> [rows EXCEPT ![Len(rows)] = @ \cup {i}]
                             [] OTHER -> rows,
           <<>>, [i \in DOMAIN annex |-> i])

RuleItems == {r \in ToSet(RuleRows): \A i \in r: annex[i] # "deleted"}

-----------------------------------------------------------------------------
(* Names are the same, one contains the other, or they are alike by more or    *)
(* less, below the threshold not at all.                                     *)
Same == 4
Contained == 3
Threshold == 1

CompareNames(close) ==
  /\ closeness = None /\ annex = <<>>
  /\ closeness' = close /\ UNCHANGED annex

(* The item a scope names: the first of the same name, or the only one whose   *)
(* name contains it.                                                         *)
NamedBy(scope) ==
  LET exact     == {i \in Items: closeness[scope][i] = Same}
      contained == {i \in Items: closeness[scope][i] >= Contained}
  IN IF exact # {} THEN {Min(exact)}
     ELSE IF Cardinality(contained) = 1 THEN contained ELSE {}

Named == {s \in Scopes: NamedBy(s) # {}}

Remaining == Scopes \ Named

OpenItems == {i \in Items: \A s \in Named: i \notin NamedBy(s)}

Pair(scope, item) == [score |-> closeness[scope][item], scope |-> scope, item |-> item]

Before(p, q) ==
  \/ p.score > q.score
  \/ p.score = q.score /\ (p.scope > q.scope \/ (p.scope = q.scope /\ p.item > q.item))

(* Mutant: an item may be alike to several scopes.                             *)
JoinScopes(links, p) ==
  IF p.score < Threshold \/ (\E l \in links: l.scope = p.scope) THEN links
  ELSE links \cup {p}

Join(links, p) ==
  IF p.score < Threshold \/ (\E l \in links: l.scope = p.scope \/ l.item = p.item) THEN links
  ELSE links \cup {p}

(* What is left is paired by likeness, the closest first.                      *)
Alike ==
  FoldLeft(Join, {}, SetToSortSeq({Pair(s, i) : s \in Remaining, i \in OpenItems}, Before))

Linked == Alike \cup UNION {{Pair(s, i) : i \in NamedBy(s)} : s \in Named}

Unlinked == {s \in Scopes: \A l \in Linked: l.scope # s}

Next ==
  \/ \E kind \in LineKinds: ReadLine(kind)
  \/ \E close \in [Scopes -> [Items -> 0..Same]]: CompareNames(close)

-----------------------------------------------------------------------------
(* The rows of a table are what stands between two lines across it: nothing    *)
(* runs over into the next row, nothing that is named gets lost, and the order  *)
(* is kept; a device is in the group above it.                               *)
Between(a, b, reader) == {i \in (a + 1)..(b - 1): annex[i] \in Collected[reader]}

Borders == {0, Len(annex) + 1} \cup {i \in DOMAIN annex: annex[i] = "border"}

RowsAreBetweenBorders ==
  /\ \A reader \in DOMAIN Collected:
       LET expected == {Between(a, b, reader) : <<a, b>> \in
                          {x \in Borders \X Borders: x[1] < x[2] /\ ~\E c \in Borders: x[1] < c /\ c < x[2]}}
           rows == RowsOf(reader)
       IN /\ ToSet(rows) = {r \in expected: IsRow(reader, r)}
          /\ \A i, j \in DOMAIN rows: i < j => Max(rows[i]) < Min(rows[j])
  /\ \A r \in RuleItems: annex[Min(r)] = "named" /\ \A i \in r \ {Min(r)}:
       annex[i] = "more" /\ \A j \in Min(r)..i: annex[j] # "deleted"
  /\ \A d \in ToSet(Devices):
       d.group = Max({0} \cup {i \in 1..d.at: annex[i] = "header"})

(* Each scope is with one item or reported as linked to none; a name that says  *)
(* it goes before likeness; likeness joins pairs, and no scope is left alone or *)
(* with a worse item while a closer one has nothing (link_scopes).             *)
ScopesFindTheirItems ==
  closeness # None =>
    /\ \A s \in Scopes: Cardinality({l \in Linked: l.scope = s}) + (IF s \in Unlinked THEN 1 ELSE 0) = 1
    /\ \A s \in Scopes: (\E i \in Items: closeness[s][i] = Same) =>
         \E l \in Linked: l.scope = s /\ l.score = Same
    /\ \A k, l \in Alike: k.item = l.item => k = l
    /\ \A s \in Remaining, i \in OpenItems: closeness[s][i] >= Threshold =>
         \E l \in Alike: (l.scope = s \/ l.item = i) /\ l.score >= closeness[s][i]

-----------------------------------------------------------------------------
NoLabel == [at |-> 0, column |-> 0]

(* started and given, the names and lines read so far, are not in the code.     *)
SectionStart ==
  [labels |-> <<>>, block |-> <<>>, depth |-> 0, rows |-> <<>>, started |-> {}, given |-> {}]

(* Mutant: a new group keeps the names of the one before to its right.         *)
PutBeside(r, column, cell, at) ==
  LET padded == [i \in 1..Max({column, Len(r.labels)}) |-> IF i <= Len(r.labels) THEN r.labels[i] ELSE NoLabel]
      label == [at |-> at, column |-> column]
  IN IF cell = "blank" THEN r
     ELSE IF cell = "label" \/ padded[column] = NoLabel
     THEN [r EXCEPT !.labels = [padded EXCEPT ![column] = label], !.started = @ \cup {label}]
     ELSE r

(* put: a numbered name, or the first in its column, begins; any other text     *)
(* goes on with the name above.                                              *)
Put(r, column, cell, at) ==
  LET padded == [i \in 1..Max({column, Len(r.labels)}) |-> IF i <= Len(r.labels) THEN r.labels[i] ELSE NoLabel]
      label == [at |-> at, column |-> column]
  IN IF cell = "blank" THEN r
     ELSE IF cell = "label" \/ padded[column] = NoLabel
     THEN [r EXCEPT !.labels = Append(SubSeq(padded, 1, column - 1), label), !.started = @ \cup {label}]
     ELSE r

PutAll(r, cells, at) ==
  FoldLeft(LAMBDA s, column: Put(s, column, cells[column], at), r, [i \in DOMAIN cells |-> i])

(* flush: a row is the lines since the last one, under the names in force.      *)
FlushSection(r, at) ==
  LET path == SelectSeq(SubSeq(r.labels, 1, Min({r.depth, Len(r.labels)})), LAMBDA l: l # NoLabel)
  IN IF r.block = <<>> THEN r
     ELSE [r EXCEPT !.block = <<>>, !.rows = Append(@, [path |-> path, depth |-> r.depth, lines |-> r.block, at |-> at])]

Line(cells, ends) == [cells |-> cells, ends |-> ends]

(* A line that ends a row may go on with the names left of where it is drawn.   *)
(* Names begin at the top of their cells, not in such a line.                  *)
Lines ==
  {Line(<<>>, TRUE), Line(<<"more">>, TRUE), Line(<<"label">>, FALSE)}
    \cup {Line(<<a, b>>, FALSE) : a \in {"blank", "label", "more"}, b \in {"label", "more"}}

TakeLine(r, line, at) ==
  LET put == PutAll(IF r.block = <<>> /\ ~line.ends THEN [r EXCEPT !.depth = Len(line.cells)] ELSE r, line.cells, at)
  IN IF line.ends THEN FlushSection(put, at) ELSE [put EXCEPT !.block = Append(@, at), !.given = @ \cup {at}]

OpenSection == table = None /\ table' = SectionStart /\ UNCHANGED lines_read

ReadSectionLine(line) ==
  /\ table # None /\ lines_read < MaxSectionRows /\ (lines_read = 0 => ~line.ends)
  /\ lines_read' = lines_read + 1
  /\ table' = TakeLine(table, line, lines_read + 1)

EndSection ==
  /\ table # None /\ lines_read = MaxSectionRows /\ table.block # <<>>
  /\ table' = FlushSection(table, lines_read) /\ UNCHANGED lines_read

SectionNext == OpenSection \/ (\E line \in Lines: ReadSectionLine(line)) \/ EndSection

-----------------------------------------------------------------------------
LastIn(started, column, at) ==
  LET there == {l \in started: l.column = column /\ l.at <= at}
  IN IF there = {} THEN NoLabel ELSE CHOOSE l \in there: \A m \in there: m.at <= l.at

(* The names over a row: in each column the last that began, if none further    *)
(* left has begun since.                                                     *)
Over(row) ==
  LET last(c) == LastIn(table.started, c, row.at)
  IN {last(c) : c \in {d \in 1..row.depth: \A e \in 1..d: last(e).at <= last(d).at}} \ {NoLabel}

(* A row stands under the names that stand over it in the table, and under the  *)
(* name of no other group; every line belongs to one row.                      *)
RowsUnderTheirNames ==
  table # None =>
  /\ \A i \in DOMAIN table.rows: ToSet(table.rows[i].path) = Over(table.rows[i])
  /\ \A i, j \in DOMAIN table.rows: i # j => ToSet(table.rows[i].lines) \cap ToSet(table.rows[j].lines) = {}
  /\ UNION {ToSet(table.rows[i].lines) : i \in DOMAIN table.rows} \cup ToSet(table.block) = table.given
=============================================================================

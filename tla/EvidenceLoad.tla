------------------------------ MODULE EvidenceLoad ------------------------------
(* How a tool gets the evidence of a day: CachedLoader keeps what was loaded   *)
(* last (app/tools/common/law.py), and load_..._evidence of the tool reads its *)
(* documents one after the other and takes out the articles and annexes that   *)
(* its judgements stand on, all or none (evidence.py of each tool).           *)
(* What an article or an annex says is the set of its words that are looked    *)
(* for: a phrase, the rows of its table.  A document comes as it should be, or *)
(* with one edit.                                                            *)
EXTENDS Naturals, Sequences, FiniteSets, FiniteSetsExt, Functions

CONSTANTS
  None,
  LoadThread,    \* the tools of several runs
  FirstThread,
  AllThreads,    \* tools whose loads are several at a time
  Days,
  Ttl,
  LoadsEach,     \* bound on the loads of a thread
  LastTick       \* bound on the time

LoadAssumption == Ttl \in Nat \ {0} /\ None \notin LoadThread

VARIABLES
  evidenceOf,    \* the tool
  clock,
  lock,          \* of CachedLoader
  cached,        \* the one day whose evidence is kept
  loading,       \* thread -> its call of load
  served         \* thread -> what its last call was given

loadVars == <<evidenceOf, clock, lock, cached, loading, served>>

-----------------------------------------------------------------------------
(* What the tools need.  A need is met by the words of one place in a document.*)
Need(kind, doc, number, words) ==
  [kind |-> kind, doc |-> doc, number |-> number, branch |-> 0, words |-> words]

Articles(doc, numbers) == {Need("article", doc, n, {"from", "to"}) : n \in numbers}

ElectricalNeeds ==
  {Need("article", "rule", 3, {"1000 volts"}), Need("article", "notice", 3, {"low voltage"})}
    \cup {Need("annex", "notice", n, {"title", "text", "rows", "sub_items"}) : n \in 1..3}

RadioNeeds ==
  {[Need("paragraph", "law", 58, {"par1", "par2", "par3", "par4", "duty"}) EXCEPT !.branch = 2],
   Need("annex", "notice", 1, {"text", "all sections", "single codes"}),
   [Need("annex", "decree", 6, {"text", "one personal use"}) EXCEPT !.branch = 2]}

ChildrenNeeds ==
  {Need("item", "law", 2, {"item1", "item12", "age"}), Need("annex", "rule", 3, {"text", "rows", "common standard"})}
    \cup {Need("annex", "rule", n, {"text", "rows"}) : n \in 1..2}
    \cup {Need("annex", "notice", n, {"text"}) : n \in 3..5}

FoodDrugNeeds ==
  Articles("food", {2}) \cup Articles("imported", {14, 15, 20, 2}) \cup Articles("decree", {2})
    \cup Articles("device", {2, 15, 17, 26}) \cup Articles("device rule", {32}) \cup Articles("health", {3})
    \cup Articles("cosmetics", {2, 3, 4, 8, 15}) \cup Articles("cosmetics rule", {2})
    \cup {Need("annex", doc, 1, {"title", "text", "rows"}) : doc \in {"device notice", "cosmetics notice"}}
    \cup Articles("cosmetics notice", {3})

CustomsNeeds ==
  {Need("article", "act", 226, {"duty"}), Need("article", "decree", 19, {"not for trade"}),
   Need("article", "notice", 7, {"omission"}), Need("annex", "notice", 2, {"text", "rows"})}

Needs ==
  [electrical |-> ElectricalNeeds, radio |-> RadioNeeds, children |-> ChildrenNeeds,
   food_drug |-> FoodDrugNeeds, customs |-> CustomsNeeds]

(* Goods bought by proxy, and the list of laws whose check is never omitted,   *)
(* are left out if they cannot be read, and nothing else is.                  *)
Extras ==
  [electrical |-> {Need("annex", "rule", 13, {"title", "text", "parts"})}, radio |-> {}, children |-> {},
   food_drug |-> {}, customs |-> {Need("article", "notice", 7, {"provisos"})}]

Documents ==
  [electrical |-> <<"rule", "notice">>, radio |-> <<"law", "decree", "notice">>,
   children |-> <<"law", "rule", "notice">>,
   food_drug |-> <<"food", "imported", "decree", "device", "device rule", "device notice", "health",
                   "cosmetics", "cosmetics rule", "cosmetics notice">>,
   customs |-> <<"act", "decree", "notice">>]

-----------------------------------------------------------------------------
(* A document as it was received: its pieces as they are looked for, one of    *)
(* them missing, twice, without its number, next to one with a branch, or      *)
(* worded differently.                                                       *)
Whole == [place |-> None, what |-> "nothing"]

Wanted(tool, doc) == {n \in Needs[tool] \cup Extras[tool]: n.doc = doc}

Place(n) == <<n.kind, n.number, n.branch>>

Places(tool, doc) == {Place(n) : n \in Wanted(tool, doc)}

PieceAt(tool, doc, place) ==
  [kind |-> place[1], number |-> place[2], branch |-> place[3], head |-> place[2], copy |-> 1,
   words |-> UNION {n.words : n \in {m \in Wanted(tool, doc): Place(m) = place}}]

Changes == {"missing", "twice", "no number", "branch beside", "other words"}

Edits(tool, doc) == {Whole} \cup {[place |-> p, what |-> w] : p \in Places(tool, doc), w \in Changes}

Edited(piece, what) ==
  CASE what = "missing"       -> {}
    [] what = "twice"         -> {piece, [piece EXCEPT !.copy = 2]}
    [] what = "no number"     -> {[piece EXCEPT !.number = 0]}
    [] what = "branch beside" -> {piece, [piece EXCEPT !.branch = 9, !.head = 0, !.words = {"other"}]}
    [] what = "other words"   -> {[piece EXCEPT !.words = {"text", "title"}]}
    [] OTHER                  -> {piece}

Body(tool, doc, edit) ==
  UNION {Edited(PieceAt(tool, doc, p), IF p = edit.place THEN edit.what ELSE "nothing") : p \in Places(tool, doc)}

-----------------------------------------------------------------------------
(* Looking up a piece.  The set of pieces that answer to it: one, or it is not  *)
(* told apart and the evidence is unavailable.                                *)
ArticleText(body, n) ==
  LET numbered == {p \in body: p.kind = n.kind /\ p.number = n.number /\ p.branch = 0}
      headed   == {p \in body: p.kind = n.kind /\ p.head = n.number}
  IN IF numbered # {} THEN numbered ELSE headed

LawParagraph(body, n) == {p \in body: p.kind = n.kind /\ p.number = n.number /\ p.branch = n.branch}

(* The first of the articles with that number that has the item.              *)
LawItem(body, n) ==
  LET found == {p \in body: p.kind = n.kind /\ p.number = n.number /\ p.branch = 0 /\ n.words \subseteq p.words}
  IN {p \in found: p.copy = Min({q.copy : q \in found})}

AnnexText(body, n) ==
  {p \in body: p.kind = n.kind /\ p.number = n.number /\ p.branch = n.branch
                 /\ n.words \cap {"title"} \subseteq p.words}

Found(body, n) ==
  CASE n.kind = "article"   -> ArticleText(body, n)
    [] n.kind = "paragraph" -> LawParagraph(body, n)
    [] n.kind = "item"      -> LawItem(body, n)
    [] n.kind = "annex"     -> AnnexText(body, n)

(* Mutant: of two pieces any one will do.                                     *)
MetByAny(body, n) == \E p \in Found(body, n): n.words \subseteq p.words

Met(body, n) ==
  /\ Cardinality(Found(body, n)) = 1
  /\ \A p \in Found(body, n): n.words \subseteq p.words

Received(source, doc) == Body(source.tool, doc, IF doc = source.doc THEN source.edit ELSE Whole)

Available(source) == \A n \in Needs[source.tool]: Met(Received(source, n.doc), n)

Lacks(source) == {n \in Extras[source.tool]: ~Met(Received(source, n.doc), n)}

-----------------------------------------------------------------------------
Idle == [at |-> "idle", as_of |-> 0, read |-> 0, calls |-> 0]

Nothing == [what |-> "nothing", as_of |-> 0, stored |-> 0, lacks |-> {}, asked |-> 0, at |-> 0]

Unknown == [tool |-> None, doc |-> None, edit |-> Whole]

Init ==
  /\ evidenceOf = Unknown
  /\ clock = 0
  /\ lock = None
  /\ cached = Nothing
  /\ loading = [t \in LoadThread |-> Idle]
  /\ served = [t \in LoadThread |-> Nothing]

(* Each tool has a loader of its own; a behaviour is about one, and about the  *)
(* documents as they are at the time.                                        *)
Choose(tool, doc, edit) ==
  /\ evidenceOf = Unknown
  /\ evidenceOf' = [tool |-> tool, doc |-> doc, edit |-> edit]
  /\ UNCHANGED <<clock, lock, cached, loading, served>>

(* Bound: most edits are read by one thread, on one day.                       *)
Crowded == evidenceOf.tool \in AllThreads /\ evidenceOf.edit.what \in {"nothing", "missing"}

Tick == Crowded /\ clock < LastTick /\ clock' = clock + 1 /\ UNCHANGED <<evidenceOf, lock, cached, loading, served>>

Call(t, day) ==
  /\ evidenceOf # Unknown /\ (Crowded \/ (t = FirstThread /\ day = Min(Days)))
  /\ loading[t].at = "idle" /\ loading[t].calls < LoadsEach
  /\ loading' = [loading EXCEPT ![t] = [at |-> "waits", as_of |-> day, read |-> 0, calls |-> @.calls + 1]]
  /\ UNCHANGED <<evidenceOf, clock, lock, cached, served>>

(* Mutant: the only evidence that is kept is served for any day.              *)
FreshForAnyDay(day) == cached.what = "evidence" /\ clock - cached.stored < Ttl

Fresh(day) == cached.what = "evidence" /\ cached.as_of = day /\ clock - cached.stored < Ttl

Back(t, answer) ==
  /\ lock' = None
  /\ loading' = [loading EXCEPT ![t].at = "idle", ![t].read = 0]
  /\ served' = [served EXCEPT ![t] = [answer EXCEPT !.asked = loading[t].as_of, !.at = clock]]

TakeLock(t) ==
  /\ loading[t].at = "waits" /\ lock = None
  /\ IF Fresh(loading[t].as_of)
     THEN Back(t, cached)
     ELSE lock' = t /\ loading' = [loading EXCEPT ![t].at = "reads"] /\ UNCHANGED served
  /\ UNCHANGED <<evidenceOf, clock, cached>>

Unread(t) == Len(Documents[evidenceOf.tool]) - loading[t].read

(* load_law, load_admrul: search, version in force, text, and the text is that *)
(* of the law that was searched for.                                         *)
ReadDocument(t) ==
  /\ loading[t].at = "reads" /\ Unread(t) > 0
  /\ loading' = [loading EXCEPT ![t].read = @ + 1]
  /\ UNCHANGED <<evidenceOf, clock, lock, cached, served>>

(* The ministry does not answer as agreed (LawLookupError), or no version is   *)
(* in force, or the text is another law's (EvidenceUnavailable).              *)
ReadFails(t, how) ==
  /\ loading[t].at = "reads" /\ Unread(t) > 0
  /\ Back(t, [Nothing EXCEPT !.what = how])
  /\ UNCHANGED <<evidenceOf, clock, cached>>

Built(t) ==
  IF Available(evidenceOf)
  THEN [Nothing EXCEPT !.what = "evidence", !.as_of = loading[t].as_of, !.stored = clock, !.lacks = Lacks(evidenceOf)]
  ELSE [Nothing EXCEPT !.what = "unavailable"]

(* A failure leaves what was kept, stale as it is.                            *)
Kept(value) == IF value.what = "evidence" THEN value ELSE cached

BuildEvidence(t) ==
  /\ loading[t].at = "reads" /\ Unread(t) = 0
  /\ cached' = Kept(Built(t))
  /\ Back(t, Built(t))
  /\ UNCHANGED <<evidenceOf, clock>>

Next ==
  \/ \E tool \in DOMAIN Needs: \E doc \in Range(Documents[tool]): \E edit \in Edits(tool, doc): Choose(tool, doc, edit)
  \/ Tick
  \/ \E t \in LoadThread:
       \/ \E day \in Days: Call(t, day)
       \/ TakeLock(t)
       \/ ReadDocument(t)
       \/ \E how \in {"lookup failed", "unavailable"}: ReadFails(t, how)
       \/ BuildEvidence(t)

Spec == Init /\ [][Next]_loadVars

-----------------------------------------------------------------------------
(* Whoever loads evidence gets that of the day it asked for, not older than    *)
(* Ttl, loaded under the lock by one thread at a time, or is told that there is *)
(* none; a failure is not served to the next one (CachedLoader.load).         *)
EvidenceIsOfItsDay ==
  /\ \A t \in LoadThread: served[t].what = "evidence" =>
       served[t].as_of = served[t].asked /\ served[t].at - served[t].stored < Ttl
  /\ cached.what \in {"nothing", "evidence"}
  /\ \A t \in LoadThread: loading[t].at = "reads" => lock = t

(* Evidence stands on pieces that are there once, with the words the judgement *)
(* relies on: what a tool quotes is the article and not one that stands beside *)
(* it; a document that was changed in a piece that is needed serves for no     *)
(* judgement, unless the piece can still be told by its head or its items     *)
(* (article_text, law_paragraph, annex_text, _law_item, _article).            *)
EvidenceIsWhole ==
  (\E t \in LoadThread: served[t].what = "evidence") =>
    \A n \in Needs[evidenceOf.tool]:
      LET edit == IF n.doc = evidenceOf.doc /\ Place(n) = evidenceOf.edit.place THEN evidenceOf.edit.what ELSE "nothing"
      IN \/ edit \in {"nothing", "branch beside"}
         \/ edit = "no number" /\ n.kind = "article"
         \/ edit = "twice" /\ n.kind = "item"
         \/ edit = "other words" /\ n.words \subseteq {"text", "title"}
=============================================================================

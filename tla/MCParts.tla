------------------------------- MODULE MCParts -------------------------------
(* Instances for TLC of the components that run on their own: part says which  *)
(* of them a behaviour is about, the others stay as they are.                 *)
EXTENDS CallbackStream, FiniteSets

CONSTANT None

VARIABLES
  part,
  \* Pipeline
  pipeline_stage, round, signals, pool, state, draft, verification, reviewed, previous, reason,
  \* DiagnosisJob
  status, question_round, questions, answers, result, shown,
  \* LawLibrary
  day, ministry, dbUp, stored, bodies, check, checked, reader, used, reported, announced,
  \* the tools
  stage, run,
  \* AgentCalls
  at, call, copy, gave, standing, sinks, summary,
  files, lines, broke,
  \* TraceRecorder
  opened, trace, info, calls, flying, raised, failure, finish, origin, aliases, counter,
  \* Metrics
  now, runs, teller, stages, series, entered, listening, publishing, registry, gauges, heard, told_of,
  \* MockServer
  markers, known, attempts, mock_runs,
  \* EvidenceLoad
  evidenceOf, clock, lock, cached, loading, served,
  \* ElectricalAnnex
  lines_read, table,
  \* AnnexRows
  annex, closeness,
  \* CaseIngest
  published, withdrawn, cases, ingest,
  \* Extraction
  listing, output, product,
  \* Presentation
  diagnosis, assessment,
  \* Intake
  request, verdict, taken, ending,
  \* TokenRotation
  valid, issued_tokens, cookie, calls_out, strays, loggedIn, waiting, leaving, fate,
  \* FileStore
  file_rows, aged, bucket, uploads, on_way, arrived, diagnosed, removals, refused, cleaner

callbackVars == <<builder, sent>>
pipelineVars == <<pipeline_stage, round, signals, pool, state, draft, verification, reviewed,
                  previous, reason>>
jobVars  == <<status, question_round, questions, answers, result, shown>>
lawVars  == <<day, ministry, dbUp, stored, bodies, check, checked, reader, used, reported,
              announced>>
toolVars == <<stage, run>>
agentVars == <<at, call, copy, gave, standing, sinks, summary>>
logVars   == <<files, lines, broke>>
traceVars == <<opened, trace, info, calls, flying, raised, failure, finish, origin, aliases, counter>>

runVars    == <<callbackVars, pipelineVars, jobVars, lawVars, toolVars>>
mockVars   == <<markers, known, attempts, mock_runs>>
sessionMeters == <<now, runs, teller, stages, series>>
recordMeters  == <<entered, listening, publishing, registry, gauges, heard, told_of>>
meterVars  == <<sessionMeters, recordMeters>>
recordVars == <<agentVars, logVars, traceVars, meterVars, mockVars>>
loadVars   == <<evidenceOf, clock, lock, cached, loading, served>>
annexVars  == <<lines_read, table>>
rowsVars   == <<annex, closeness>>
caseVars   == <<published, withdrawn, cases, ingest>>
sourceVars == <<loadVars, annexVars, rowsVars, caseVars>>
extractVars == <<listing, output, product>>
showVars   == <<diagnosis, assessment>>
intakeVars == <<request, verdict, taken, ending>>
tokenVars  == <<valid, issued_tokens, cookie, calls_out, strays, loggedIn, waiting, leaving, fate>>
fileVars   == <<file_rows, aged, bucket, uploads, on_way, arrived, diagnosed, removals, refused, cleaner>>
inputVars  == <<extractVars, showVars, intakeVars, tokenVars, fileVars>>
partVars   == <<part, runVars, recordVars, sourceVars, inputVars>>

TwoRuns   == {1, 2}
TwoStages == {"extraction", "tool_execution"}

-----------------------------------------------------------------------------
(* Pipeline: t1 judges with and without evidence and may be left out at       *)
(* first, t2 is always run; both may fail.                                    *)
Judged(name, determination, risk, cites, requires) ==
  [name |-> name, determination |-> determination, risk |-> risk, cites |-> cites,
   requires |-> requires]

Bare  == Judged("bare", "required", "high", "nothing", {"label", "test"})
Sound == Judged("sound", "required", "low", "law", {"label"})
Clear == Judged("clear", "not_applicable", "low", "mock", {})

Says(as, claims, actions, missing) ==
  [status |-> as, claims |-> claims, actions |-> actions, missing |-> missing]

Raised == Says("raised", {}, {}, {})

Answer ==
  [t1 |-> {Raised, Says("partial", {Bare, Sound}, {"tell"}, {"m"}), Says("success", {Sound}, {}, {})},
   t2 |-> {Raised, Says("success", {Clear}, {}, {})}]

ToolName       == <<"t1", "t2">>
AlwaysRun      == {"t2"}
MaxParallel    == 2
MaxRetryRounds == 2
Signal         == [tool : {"t1"}, sure : BOOLEAN]
Question       == {"q"}

Pipe == INSTANCE Pipeline WITH stage <- pipeline_stage

ASSUME Pipe!PipelineAssumption

-----------------------------------------------------------------------------
(* DiagnosisJob: two rounds of questions out of two sentences and a blank; the   *)
(* verification joins questions of one sentence.                              *)
MaxQuestionRounds == 2
Text  == {"a", "b", "blank"}
Blank == "blank"

ModelQuestions ==
  LET some == [text : Text, required : BOOLEAN, by : {"model"}]
  IN {<<>>} \cup {<<q>> : q \in some}
            \cup {<<p, q>> : <<p, q>> \in {e \in some \X some: e[1].text # e[2].text}}

Job == INSTANCE DiagnosisJob

ASSUME Job!JobAssumption

(* LawLibrary: v2 comes into force on day 2, v3 too, which was issued before, *)
(* and its text is another law's.                                            *)
Version(id, enforce, issued) == [id |-> id, enforce |-> enforce, issued |-> issued]

Lists(items) == [items |-> items, complete |-> TRUE]

LawLists ==
  LET v1 == Version("v1", 1, 0)
      v2 == Version("v2", 2, 2)
      v3 == Version("v3", 2, 1)
  IN <<Lists({v1}), Lists({v1, v2, v3}), Lists({})>>

LastDay    == 2
Recheck    == 1
WrongTexts == {"v3"}

Law == INSTANCE LawLibrary
-----------------------------------------------------------------------------
(* The tools: one text to quote.  What a model reads out of it is in it (Q),   *)
(* made up (Made), or quoted from somewhere else (Elsewhere).                *)
Q(field, value) == [field |-> field, value |-> value, snippet |-> "t1", verbatim |-> TRUE]
Made(field, value) == [field |-> field, value |-> value, snippet |-> "t1", verbatim |-> FALSE]
Elsewhere(field, value) == [field |-> field, value |-> value, snippet |-> "t2", verbatim |-> TRUE]
Sel(row, cites, needs) == [row |-> row, applies |-> TRUE, cites |-> cites, needs |-> needs]
Against(row) == [Sel(row, {"product_type"}, {}) EXCEPT !.applies = FALSE]
Texts == {{"t1"}, {"blank"}}

RadioTexts == Texts
RadioFacts ==
  {{}, {Q("product_type", "speaker")}, {Q("product_type", "speaker"), Made("wireless_feature", "bt")}}
    \cup {{Q("product_type", "speaker"), Q("wireless_feature", "bt")} \cup more :
            more \in {{}, {Q("frequency", "band")}, {Elsewhere("frequency", "band")}}}
RadioItems == {[id |-> "r1", assessment |-> {"certification"}], [id |-> "r2", assessment |-> {"registration"}]}
RadioReviews ==
  LET one == {Sel(row, cites, needs) : row \in {"r1", "r2", "r9"}, cites \in {{"wireless_feature"}, {"frequency"}},
               needs \in {{}, {"product_type", "frequency"}}} \cup {Against("r1")}
  IN {<<>>} \cup {<<s>> : s \in one} \cup (one \X one)

Val(text, current, volts) == [text |-> text, current |-> current, volts |-> volts]
ElectricalTexts == Texts
ElectricalFacts ==
  LET kind   == {Q("product_type", Val(t, "none", {})) : t \in {"lamp", "storage"}}
      source == {Q("power_source", Val("battery", "none", {})), Q("power_source", Val("socket", "AC", {}))}
      volts  == {Q("rated_voltage", Val("v", c, v)) : c \in {"AC", "DC"}, v \in {{24}, {36}, {24, 220}}}
                  \cup {Q("rated_voltage", Val("v", "DC", {5}))}
      alone  == {Q("battery_only", Val(t, "none", {})) : t \in {"yes", "no", "perhaps"}}
      upTo(S) == {{}} \cup {{x} : x \in S}
  IN {{}} \cup {{k} \cup s \cup v \cup b : k \in kind, s \in upTo(source), v \in upTo(volts), b \in upTo(alone)}
     \cup {{Q("product_type", Val("lamp", "none", {}))} \cup alone}
AnnexBlocks ==
  {[id |-> "lamp", scheme |-> "safety", ess |-> FALSE, supply |-> FALSE, includesLow |-> {}, listing |-> "listed"],
   [id |-> "cell", scheme |-> "supplier", ess |-> FALSE, supply |-> TRUE, includesLow |-> {"DC"}, listing |-> "listed"],
   [id |-> "store", scheme |-> "safety", ess |-> TRUE, supply |-> TRUE, includesLow |-> {}, listing |-> "unmatched"]}
ElectricalReviews ==
  {<<>>} \cup {<<Sel(row, {c}, needs)>> : row \in {"lamp", "cell"}, c \in {"product_type", "power_source"}, needs \in {{}, {"rated_voltage"}}}
     \cup {<<Sel("lamp", {"product_type"}, {}), Sel("cell", {"product_type"}, {}), Sel("store", {"product_type"}, {})>>}

Age(shape, low, op, ban) == [shape |-> shape, low |-> low, high |-> 16, unit |-> "year", op |-> op, ban |-> ban]
ChildrenProducts ==
  {[for_children |-> c, target_age |-> a, in_listing |-> l] : c \in BOOLEAN,
     a \in {Age("single", 3, "from", FALSE), Age("single", 14, "from", FALSE)}, l \in BOOLEAN}
AllAges ==
  {[Age("single", 3, op, FALSE) EXCEPT !.unit = u] : op \in {"none", "from", "above", "below", "to"}, u \in {"year", "month"}}
    \cup {[Age("range", 3, op, FALSE) EXCEPT !.unit = u] : op \in {"none", "below"}, u \in {"year", "month"}}
    \cup {Age("under", 3, "none", b) : b \in BOOLEAN} \cup {Age("plus", 3, "none", FALSE)}
ChildrenFacts ==
  {{Q("target_age", [said |-> a, quoted |-> a]), Q("product_type", "toy")} : a \in AllAges} \cup
  LET ages == {Q("target_age", [said |-> s, quoted |-> q]) :
                 <<s, q>> \in {<<Age("single", 3, "none", FALSE), Age("single", 3, "none", FALSE)>>,
                              <<Age("single", 14, "from", FALSE), Age("single", 14, "from", FALSE)>>,
                              <<Age("under", 14, "none", FALSE), Age("under", 14, "none", TRUE)>>,
                              <<Age("word", 0, "none", FALSE), Age("word", 0, "none", FALSE)>>}}
  IN {a \cup k : a \in {{}} \cup {{x} : x \in ages} \cup {{x, y} : x \in ages, y \in ages},
                k \in {{}, {Q("product_type", "toy")}, {Made("product_type", "toy")},
                       {Q("product_type", "toy"), Q("excluded_kind", "medicine")},
                       {Q("product_type", "toy"), Q("excluded_kind", "furniture")}}}
ChildrenItems == {[id |-> "ride", scheme |-> "certification"], [id |-> "toys", scheme |-> "confirmation"],
                  [id |-> "bag", scheme |-> "supplier"]}
ChildrenReviews ==
  {<<>>, <<Against("toys")>>, <<Sel("toys", {"product_type"}, {"target_age"})>>, <<Sel("bag", {"product_type"}, {})>>,
   <<Sel("none", {"product_type"}, {})>>, <<Sel("ride", {"material"}, {})>>,
   <<Sel("toys", {"product_type"}, {}), Sel("bag", {"target_age"}, {})>>}

FoodReadings ==
  LET judged(field) == {{}, {Q(field, "yes")}, {Q(field, "no")}, {Q(field, "yes"), Q(field, "no")},
                        {Made(field, "yes")}, {Made(field, "yes"), Q(field, "no")}}
      one == UNION {judged(f) : f \in {"food_contact", "edible", "skin_applied"}}
      rest == {{}, {Q("health_claim", "cures")}, {Q("beauty_claim", "whitens"), Q("ingredient", "i1")},
               {Q("ingredient", "i1"), Q("intended_use", "u")}}
  IN {[facts |-> a \cup b \cup {Q("product_type", "p")}, device_terms |-> d, functional |-> t] :
        a \in one \cup {{Q("edible", "yes"), Q("skin_applied", "yes")}, {Q("edible", "no"), Q("skin_applied", "yes")}},
        b \in rest, d \in BOOLEAN, t \in {{}, {1, 7}}}
DeviceItems == {"d1", "d2"}
BannedRows == {[name |-> "i1", conditional |-> FALSE], [name |-> "i2", conditional |-> TRUE]}
FoodReviews == {<<>>, <<Sel("d1", {"product_type"}, {"intended_use"})>>, <<Sel("d9", {"product_type"}, {})>>,
                <<Sel("d1", {"health_claim"}, {}), Sel("d2", {"product_type"}, {"material"})>>}

CustomsFacts == {{}, {Q("product_type", "knife")}, {Q("product_type", "knife"), Made("material", "steel")}}
CaseQueries == {"q1", "q2"}
Code(h, full) == [heading |-> h, full |-> full]
CustomsCases ==
  {[id |-> "c1", hs_codes |-> {Code("8211", TRUE)}], [id |-> "c2", hs_codes |-> {Code("8211", TRUE), Code("9307", TRUE)}],
   [id |-> "c3", hs_codes |-> {Code("7323", FALSE)}], [id |-> "c4", hs_codes |-> {}]}
CustomsLaws ==
  {[name |-> "arms", row |-> TRUE, excepted |-> TRUE, weapons |-> TRUE],
   [name |-> "food", row |-> FALSE, excepted |-> FALSE, weapons |-> FALSE]}
CustomsReviews ==
  LET one(id) == Sel(id, {"product_type"}, {"material"})
  IN {<<>>, <<one("c1")>>, <<one("c2")>>, <<one("c4")>>, <<one("c2"), one("c3")>>, <<one("c1"), one("c2"), one("c3")>>,
      <<Sel("c1", {"material"}, {"use"})>>}

Listings == {{}, {<<"KC">>}, {<<"kc", "none">>, <<"heals", "well">>}, {<<"best", "KC", "mark">>, <<"heals", "well">>}}
AdReviews ==
  LET one == {[quote |-> q, risk_type |-> r] : q \in {<<>>, <<"heals">>, <<"best", "kc">>, <<"best">>}, r \in {"safety", "body", "ranking"}}
  IN {<<>>} \cup {<<c>> : c \in one} \cup (one \X one)

Radio       == INSTANCE RadioTool
Electrical  == INSTANCE ElectricalTool
Children    == INSTANCE ChildrenTool
FoodDrug    == INSTANCE FoodDrugTool
Customs     == INSTANCE CustomsTool
Advertising == INSTANCE AdvertisingTool

-----------------------------------------------------------------------------
(* Records: two threads of one run, one of which gets every reply.             *)
CallThread == {"a", "b"}
RunOf      == [a |-> "run", b |-> "run"]
Reply(what, gateway, metadata) == [what |-> what, gateway |-> gateway, metadata |-> metadata]
Chat ==
  [a |-> {Reply("lost", "no", FALSE), Reply("cut", "all", FALSE), Reply("cut", "no", FALSE),
          Reply("answer", "all", TRUE), Reply("answer", "some", TRUE), Reply("unreadable", "some", FALSE)},
   b |-> {Reply("unreadable", "all", FALSE)}]
Decision ==
  [a |-> {Reply("lost", "no", FALSE), Reply("unreadable", "all", FALSE), Reply("unreadable", "no", FALSE)},
   b |-> {Reply("answer", "all", FALSE)}]
Tokens(input, hit, out) == [input |-> input, cached |-> hit, output |-> out]
Reported == [gateway |-> Tokens(2, 3, 1), metadata |-> Tokens(2, 0, 1), exception |-> Tokens(2, 1, 0)]
ChatPrice == Tokens(2, 1, 3)
Added == {"metrics"}

LogMax   == 2
Backups  == 2
MaxLines == 5
LogRows  == {[agent |-> "x", failed |-> FALSE, phase |-> None, krw |-> 1],
             [agent |-> "y", failed |-> TRUE, phase |-> None, krw |-> 0],
             [agent |-> "x", failed |-> TRUE, phase |-> "call", krw |-> 2]}

MaxSteps      == 3
MaxCalls      == 1
MaxExceptions == 3
Uuids         == {1, 2}
MaxNumber     == 3

Agents == INSTANCE AgentCalls
Trace  == INSTANCE TraceRecorder

ASSUME Agents!CallAssumption /\ Trace!TraceAssumption

(* Metrics: a run with two reports and the sweeper; two apps of a process and a   *)
(* thread that publishes two records, one of each kind or one twice.            *)
Meter == INSTANCE Metrics WITH Records <- {}, Metered <- {}, MeteredStage <- {}, ToolLabel <- {}, Api <- {}, CacheName <- {},
           AppName <- {}, Recorder <- {}, MaxTime <- 0, MaxNews <- 0, MaxRecords <- 0, published <- told_of
Measured ==
  {Meter!CallbackOutcome("product_result", 1, "none"), Meter!CallbackOutcome("product_progress", 2, "retry_exhausted"),
   Meter!SkippedRun("radio"), Meter!RaisedRun("radio", "client"), Meter!ReturnedRun("radio", "failed", <<"required">>),
   Meter!ClientCall("law", "timeout"), Meter!CacheLookup("law.text", "stale"), Meter!HttpRequest("health", "200"),
   Meter!LawRefreshRun("ok"), Meter!LawRefreshRun("partial"), Meter!ReportedIngest(1, 0, 0),
   Meter!ReportedIngest(1, 1, 1), Meter!AgentRun("extraction", TRUE, "none", Meter!Unpriced, 1)}

Meters == INSTANCE Metrics WITH Records <- Measured, Metered <- {1}, MeteredStage <- {"extraction", "selection"},
            ToolLabel <- {"radio"}, Api <- {"law"}, CacheName <- {"law.text"}, AppName <- {"old", "new"},
            Recorder <- {"worker"}, MaxTime <- 3, MaxNews <- 2, MaxRecords <- 2, published <- told_of

-----------------------------------------------------------------------------
(* Sources: where laws and cases come from.                                   *)
LoadThread == {"a", "b"}
FirstThread == "a"
AllThreads == {"customs"}
Days       == {1, 2}
Ttl        == 2
LoadsEach  == 1
LastTick   == 2

MaxRows     == 5
MaxSectionRows == 5
MaxAnnex    == 4
Scopes      == {1, 2}
Items       == {1, 2}

Load == INSTANCE EvidenceLoad
Annex == INSTANCE ElectricalAnnex
Rows == INSTANCE AnnexRows

ASSUME Load!LoadAssumption

(* One run, on an empty table (then it is by hand), or on one that lacks the    *)
(* newest case or an older one; the code of case 2 is not read.  More new cases  *)
(* come than a page holds.                                                    *)
FirstList   == <<3, 2, 1>>
FirstStored == {{}, {1, 2}, {2, 3}}
Withdrawals == 1
LastCase    == 6
Runs        == 1
PageSize    == 2
ChunkSize   == 2
WithoutCode == {2}

Cases == INSTANCE CaseIngest

ASSUME Cases!CaseAssumption

-----------------------------------------------------------------------------
(* Inputs: pages of both malls with and without each landmark, and listings     *)
(* whose title and table say what each rule looks for.                        *)
PageLine(kind, by, says) == [kind |-> kind, by |-> by, says |-> says]
Row(says)   == PageLine("row", "seller", says)
Title(says) == PageLine("title", "seller", says)
Mark(kind)  == PageLine(kind, "mall", {})
Others      == PageLine("text", "others", {<<"capacity", "5000mAh">>, <<"claim", "cosmetic_claim">>})
If(cond, block) == IF cond THEN block ELSE <<>>
Hurts       == {<<"claim", "medical_claim">>}

AliPages ==
  {<<Mark("logo")>> \o (IF cart THEN <<Others, Mark("cart")>> ELSE <<Mark("digits")>>)
     \o <<Title(Hurts)>> \o If(stop # "none", <<Mark(stop), Others>>)
     \o <<Mark("info"), Others>> \o If(spec, <<Mark("info"), Row({<<"voltage", "220V">>})>>)
     \o If(spec /\ end # "none", <<Mark(end), Others>>) :
     cart \in BOOLEAN, stop \in {"none", "ai_summary", "related"}, spec \in BOOLEAN,
     end \in {"none", "buyer_questions", "seller", "promise"}}

TemuPage(marks, titles, notice, box, qty) ==
  <<Mark("temu_app"), Others>> \o If("category" \in marks, <<Mark("category")>>)
    \o <<PageLine("path", "seller", {})>> \o titles \o If(notice, <<Mark("notice")>>)
    \o If("reviews" \in marks, <<Mark("reviews")>>) \o <<Others>>
    \o If("details" \in marks, <<Mark("details"), Row({<<"voltage", "5V">>})>>) \o box
    \o If(qty # "none", <<Mark("quantity"), Mark("digits")>>
                           \o If(qty = "spec", <<Row({<<"capacity", "900mAh">>})>>) \o <<Mark("shipping")>>)
    \o If(box # <<>>, <<Others>>)

Marks == {"category", "reviews", "details"}
Short == PageLine("cut_title", "seller", {})
TemuPages ==
  {TemuPage(Marks, t, n, <<b>>, q) : t \in {<<Short>>, <<Short, Title(Hurts)>>, <<Title(Hurts)>>}, n \in BOOLEAN,
     b \in {Mark("box"), PageLine("box_title", "seller", Hurts), Mark("seller")}, q \in {"none", "number", "spec"}}
  \cup {TemuPage(Marks \ {m}, <<Title(Hurts)>>, FALSE, <<>>, "none") : m \in Marks}

Describes(title, rows) == TemuPage(Marks, <<Title(title)>>, FALSE, <<>>, "none") \o <<Row(rows)>>
MilliWatts(place, digits) == <<"number", [unit |-> "mWh", at |-> place, digits |-> digits]>>
Saying(topic, values) == {<<topic, v>> : v \in values}
FactPages ==
  {Describes(t, {<<"electric", "no">>} \cup p) : t \in {{}, {<<"powered", "rechargeable">>}}, p \in SUBSET Saying("power", {"mains", "none"})}
  \cup {Describes({}, Saying("denies", d)) : d \in SUBSET {"battery_included", "wireless_comm", "wireless_charging"}}
  \cup {Describes(t, Saying("material", m)) : m \in SUBSET {"plastic", "cotton", "metal"},
          t \in {{}, {<<"material", "copper">>}, {<<"part", "glass">>}, {<<"material", "copper">>, <<"part", "plastic">>}}}
  \cup {Describes({<<"gender", "men">>}, {<<"gender", g>>}) : g \in {"men", "unisex"}}
  \cup {Describes({<<"age", <<0, 2>>>>}, {<<"age", a>>}) : a \in {<<0, 2>>, <<0, 0>>, <<1, 3>>}}
  \cup {Describes({<<"season", {"spring", "summer"}>>}, {<<"season", s>>}) : s \in {{"spring", "summer"}, {"spring"}}}
  \cup {Describes(t, n) : t \in {{MilliWatts(1, <<4, 2, 5, 5>>)}, {MilliWatts(1, <<4, 2, 5, 5>>), MilliWatts(2, <<4, 2, 2, 5>>)},
                             {MilliWatts(1, <<1, 0>>), MilliWatts(1, <<2, 0>>)}},
          n \in {{}, {MilliWatts(1, <<4, 2, 5, 5>>)}, {MilliWatts(1, <<9>>)}}}

Pasted(says) == <<PageLine("text", "seller", says)>>
Blocks(blocks, images) == [blocks |-> blocks, images |-> images]
ProductListings ==
  {Blocks(<<p>>, FALSE) : p \in AliPages \cup TemuPages \cup FactPages}
  \cup {Blocks(<<Pasted({<<"capacity", "900mAh">>}), Pasted({<<"battery", b>>})>>, FALSE) : b \in {"not included", "remote's not included"}}
  \cup {Blocks(<<>>, i) : i \in BOOLEAN}

FieldNames ==
  {"electrical_powered", "plant_material", "food_contact", "heating", "battery_included", "wireless_comm",
   "wireless_charging", "battery_is_the_product", "medical_claim", "cosmetic_claim"}
ModelOutputs ==
  {[fields |-> [f \in FieldNames |-> IF f = "electrical_powered" THEN e ELSE v], listing_text |-> {},
    attributes |-> IF v = None THEN {} ELSE {<<IF v THEN "voltage" ELSE "model", {"220V", "AC"}>>}] :
     e \in {TRUE, FALSE, None}, v \in {TRUE, FALSE, None}}

Extracted == INSTANCE Extraction WITH Listing <- ProductListings, Output <- ModelOutputs

-----------------------------------------------------------------------------
(* Presentation: each field may be left out, lack its record, fail or judge.    *)
Seen(tool, determination, risk, length) ==
  [tool |-> tool, determination |-> determination, risk |-> risk, subject |-> length,
   summary |-> 0, rationale |-> 0, sources |-> {0, length}]
Ran(as, todo) == [selected |-> as # "skipped", status |-> as, actions |-> todo]
Fielded(tool, as, todo, judged) == [tool |-> tool, result |-> Ran(as, todo), judged |-> judged]
LeftOut(tool) == Fielded(tool, "skipped", <<>>, {})
CustomsFields ==
  {LeftOut("customs"), [tool |-> "customs", result |-> None, judged |-> {}], Fielded("customs", "failed", <<>>, {}),
   Fielded("customs", "partial", <<"a">>, {Seen("customs", "not_applicable", "low", 2)}),
   Fielded("customs", "success", <<"a", "b">>, {Seen("customs", "required", "high", 9)})}
  \cup {Fielded("customs", "success", <<>>, {Seen("customs", d, r, 3)}) :
          d \in {"not_required", "not_applicable", "insufficient_information"}, r \in {"low", "unknown"}}
RadioFields ==
  {LeftOut("radio"), Fielded("radio", "failed", <<>>, {}), Fielded("radio", "success", <<>>, {Seen("radio", "not_applicable", "low", 2)}),
   Fielded("radio", "success", <<"b", "c">>, {Seen("radio", "possibly_required", "low", 2)})}
LabelFields ==
  {LeftOut("label_ad"), Fielded("label_ad", "failed", <<>>, {}),
   Fielded("label_ad", "success", <<"d">>, {Seen("label_ad", "possibly_required", "low", 2)})}
Diagnoses ==
  {LET all == {c, r, l}
       fieldOf(t) == CHOOSE f \in all : f.tool = t
   IN [verification |-> v, reason |-> w, signals |-> s, missing |-> {"m"}, actions |-> <<"z", "a">>,
       selected |-> {f.tool : f \in {g \in all : g.result = None \/ g.result.status # "skipped"}},
       results |-> [t \in {"customs", "radio", "label_ad"} |-> fieldOf(t).result],
       findings |-> UNION {f.judged : f \in all}] :
     c \in CustomsFields, r \in RadioFields, l \in LabelFields, v \in {"verified", "incomplete"},
     w \in {"completed", "no_progress"}, s \in {{}, {"chemical_product"}}}

Presented == INSTANCE Presentation WITH ToolOrder <- <<"customs", "radio", "label_ad">>, Excluded <- {"label_ad"},
               Diagnosis <- Diagnoses, SubjectMax <- 4, SourceMax <- 4

ASSUME Presented!DiagnosisAssumption

-----------------------------------------------------------------------------
(* Intake: pictures that are tall, small or cannot be read, with room for three   *)
(* pieces and four tiles; a page has a picture more than is taken.               *)
Picture(id, width, height, readable) ==
  [id |-> id, width |-> width, height |-> height, readable |-> readable, gallery |-> id \in {"p1", "p2"}]
Square   == Picture("p1", 5, 5, TRUE)
LongShot == Picture("p2", 5, 13, TRUE)
Longer   == Picture("p3", 5, 9, TRUE)
Broken   == Picture("p4", 5, 13, FALSE)
Small    == Picture("p5", 3, 4, TRUE)
Coming(texts, pictures) ==
  [again |-> FALSE, texts |-> texts, pictures |-> pictures, answers |-> {}, coded |-> FALSE, known |-> TRUE]
Again(found) == [Coming({"t"}, <<Square>>) EXCEPT !.again = TRUE, !.answers = found]
Requests ==
  {Coming(t, p) : t \in {{}, {"t"}}, p \in {<<>>, <<Square>>, <<LongShot>>, <<Broken, Square>>, <<Square, Longer, Small>>,
                                              <<LongShot, Longer>>}}
  \cup {[Coming({"t"}, <<>>) EXCEPT !.coded = TRUE], [Coming({}, <<>>) EXCEPT !.known = FALSE],
        Again({}), Again({[round |-> 1, key |-> "q"], [round |-> 2, key |-> "q"]})}
Shops == {[texts |-> t, pictures |-> p, policy |-> y] : t \in {{}, {"t"}}, p \in {<<>>, <<Square, LongShot, Longer>>, <<Longer>>},
            y \in {"none", "all", "selected"}}
Sortings == UNION {[1..n -> {"specification", "product"}] : n \in 0..4}

Taking == INSTANCE Intake WITH Request <- Requests, Shop <- Shops, Sorting <- Sortings, MaxSide <- 12, MinSide <- 4,
            MaxJudged <- 3, MaxTiles <- 4, MaxSorted <- 3, MaxPicked <- 2, MaxAll <- 2

-----------------------------------------------------------------------------
(* MockServer: two runs of a product without marks, or with one of five sets.   *)
Mock == INSTANCE MockServer WITH MaxRetries <- 1, MaxMockRuns <- 2,
          ToolChoices <- {<<"RADIO">>, <<"CUSTOMS", "RADIO">>},
          Marks <- {{}, {"question"}, {"failed", "certification"}, {"failed-final"}, {"question", "failed"},
                    {"allowed", "recheck"}}

-----------------------------------------------------------------------------
(* TokenRotation: two pages of a browser, each with up to two requests that wait, *)
(* and three tokens: one used by both, its successor and another login.          *)
LogIns == INSTANCE TokenRotation WITH Page <- {"page1", "page2"}, MaxWaiting <- 2, MaxTokens <- 3,
            calls <- calls_out, issued <- issued_tokens

ASSUME LogIns!TokenAssumption

(* FileStore: an attempt with two images and one with one.                     *)
Store == INSTANCE FileStore WITH BatchSize <- 2,
           Key <- {<<"s1", "i1">>, <<"s1", "i2">>, <<"s2", "i1">>}

-----------------------------------------------------------------------------
Parts == {"callbacks", "pipeline", "job", "law", "radio", "electrical", "children", "food_drug",
          "customs", "advertising", "agents", "usage_log", "trace", "trace_ids", "session_meters", "record_meters",
          "mock_server", "evidence", "electrical_annex", "radio_annex", "annex_rows", "cases",
          "extraction", "presentation", "intake", "tokens", "files"}

PartsInit ==
  /\ part \in Parts
  /\ Init /\ Pipe!Init /\ Job!Init /\ Law!Init /\ Radio!Init
  /\ Agents!Init /\ Agents!LogInit /\ Trace!Init /\ Meters!Init /\ Load!Init /\ Annex!Init /\ Rows!Init /\ Cases!Init
  /\ Extracted!Init /\ Presented!Init /\ Taking!Init /\ LogIns!Init /\ Store!Init
  /\ Mock!Init /\ (part # "mock_server" => markers = {})
  /\ (part # "cases" => Cases!Stored = {})

ToolStep ==
  /\ \/ part = "radio" /\ Radio!Next
     \/ part = "electrical" /\ Electrical!Next
     \/ part = "children" /\ Children!Next
     \/ part = "food_drug" /\ FoodDrug!Next
     \/ part = "customs" /\ Customs!Next
     \/ part = "advertising" /\ Advertising!Next
  /\ UNCHANGED <<part, callbackVars, pipelineVars, jobVars, lawVars, recordVars, sourceVars, inputVars>>

CallbackStep ==
  part = "callbacks" /\ Next /\ UNCHANGED <<part, pipelineVars, jobVars, lawVars, toolVars, recordVars, sourceVars, inputVars>>

PipelineStep ==
  part = "pipeline" /\ Pipe!Next /\ UNCHANGED <<part, callbackVars, jobVars, lawVars, toolVars, recordVars, sourceVars, inputVars>>

JobStep ==
  part = "job" /\ Job!Next /\ UNCHANGED <<part, callbackVars, pipelineVars, lawVars, toolVars, recordVars, sourceVars, inputVars>>

LawStep ==
  part = "law" /\ Law!Next /\ UNCHANGED <<part, callbackVars, pipelineVars, jobVars, toolVars, recordVars, sourceVars, inputVars>>

RecordStep ==
  /\ \/ part = "agents" /\ Agents!Next /\ UNCHANGED <<logVars, traceVars, meterVars, mockVars>>
     \/ part = "usage_log" /\ Agents!LogNext /\ UNCHANGED <<agentVars, traceVars, meterVars, mockVars>>
     \/ part = "trace" /\ Trace!StepNext /\ UNCHANGED <<agentVars, logVars, meterVars, mockVars>>
     \/ part = "trace_ids" /\ Trace!IdNext /\ UNCHANGED <<agentVars, logVars, meterVars, mockVars>>
     \/ part = "session_meters" /\ Meters!SessionStep /\ UNCHANGED <<agentVars, logVars, traceVars, recordMeters, mockVars>>
     \/ part = "record_meters" /\ Meters!RecordStep /\ UNCHANGED <<agentVars, logVars, traceVars, sessionMeters, mockVars>>
     \/ part = "mock_server" /\ Mock!Next /\ UNCHANGED <<agentVars, logVars, traceVars, meterVars>>
  /\ UNCHANGED <<part, runVars, sourceVars, inputVars>>

SourceStep ==
  /\ \/ part = "evidence" /\ Load!Next /\ UNCHANGED <<annexVars, rowsVars, caseVars>>
     \/ part = "electrical_annex" /\ Annex!Next /\ UNCHANGED <<loadVars, rowsVars, caseVars>>
     \/ part = "radio_annex" /\ Rows!SectionNext /\ UNCHANGED <<loadVars, rowsVars, caseVars>>
     \/ part = "annex_rows" /\ Rows!Next /\ UNCHANGED <<loadVars, annexVars, caseVars>>
     \/ part = "cases" /\ Cases!Next /\ UNCHANGED <<loadVars, annexVars, rowsVars>>
  /\ UNCHANGED <<part, runVars, recordVars, inputVars>>

InputStep ==
  /\ \/ part = "intake" /\ Taking!Next /\ UNCHANGED <<extractVars, showVars, tokenVars, fileVars>>
     \/ part = "extraction" /\ Extracted!Next /\ UNCHANGED <<showVars, intakeVars, tokenVars, fileVars>>
     \/ part = "presentation" /\ Presented!Next /\ UNCHANGED <<extractVars, intakeVars, tokenVars, fileVars>>
     \/ part = "tokens" /\ LogIns!Next /\ UNCHANGED <<extractVars, showVars, intakeVars, fileVars>>
     \/ part = "files" /\ Store!Next /\ UNCHANGED <<extractVars, showVars, intakeVars, tokenVars>>
  /\ UNCHANGED <<part, runVars, recordVars, sourceVars>>

PartsNext ==
  \/ ToolStep \/ CallbackStep \/ PipelineStep \/ JobStep \/ LawStep \/ RecordStep \/ SourceStep
  \/ InputStep

(* A run of the pipeline goes on: its calls have time limits.                  *)
PartsSpec == PartsInit /\ [][PartsNext]_partVars /\ WF_partVars(PipelineStep)

-----------------------------------------------------------------------------
(* A verdict is earned: the results are those of the tools, in their order and    *)
(* that of the rounds however the threads end; completed means verified, giving   *)
(* up means that nothing else was left, and the summary hides nothing            *)
(* (pipeline/runner.py, tool_executor.py); the user is told that a product may    *)
(* be sold only if all fields answered, and of a duty first whenever the           *)
(* diagnosis is complete (results/status.py).                                      *)
VerdictIsEarned ==
  /\ part = "pipeline" =>
       /\ Pipe!ResultsAreTheTools /\ Pipe!HistoryInOrder
       /\ Pipe!CompletedIsReviewed /\ Pipe!CompletedMeansVerified /\ Pipe!GivesUpInTime /\ Pipe!SummaryHidesNothing
  /\ part = "presentation" => Presented!AllowedIsEarned

(* A retry that fails takes back no judgement nobody challenged                *)
(* (tool_executor.py, _retain_unchallenged_findings).                         *)
UnchallengedFindingsStay == Pipe!UnchallengedFindingsStay

(* A run of the pipeline implements what the job relies on (PipelineContract).  *)
ContractSpec == Pipe!ContractSpec

(* Every run of the pipeline comes to an end, whatever tools and models say.    *)
EveryPipelineEnds == (part = "pipeline") => <>(pipeline_stage \in {"ended", "failed"})

(* Questions and answers find each other over all rounds: keys name their       *)
(* round, each answer stands next to the question the user saw, what a tool     *)
(* misses is asked once, the limit closes only over an open question, and the   *)
(* verdict fits the reason (diagnosis/job.py, answers.py, questions.py).       *)
QuestionsFitAnswers ==
  part = "job" =>
    /\ Job!KeysNameTheirRound /\ Job!AnswersUnderTheirQuestions
    /\ Job!NothingMissingAskedTwice /\ Job!LimitOverOpenQuestions /\ Job!VerdictFitsReason

(* After a check that went through the texts of all versions are stored, and    *)
(* a change of the version in use has been reported (db/law_cache.py); what a   *)
(* tool is given as evidence is of its day and whole, rows of an annex stand     *)
(* under the category, remark and scope the text puts them (evidence.py of each  *)
(* tool, tools/common/law.py); no case is deleted that is still in the list, nor *)
(* is its loss hidden (db/clip_ingest.py).                                    *)
LawsAreReady ==
  /\ part = "law" => Law!TextsAreReady /\ Law!ChangesOfUseReported
  /\ part = "evidence" => Load!EvidenceIsOfItsDay /\ Load!EvidenceIsWhole
  /\ part = "electrical_annex" => Annex!ItemsInTheirCategory /\ Annex!RemarksReachTheirItems
  /\ part = "radio_annex" => Rows!RowsUnderTheirNames
  /\ part = "annex_rows" => Rows!RowsAreBetweenBorders /\ Rows!ScopesFindTheirItems
  /\ part = "cases" => Cases!ListedCasesStay /\ Cases!OkMeansStored

(* A version that is stored with the list of a check has been announced: what   *)
(* refresh_laws promises, and does not keep if a text cannot be fetched.        *)
NewVersionsAnnounced == Law!NewVersionsAnnounced

(* A stored list of versions serves until a better one replaces it.            *)
StoredListsServe == Law!StoredListsServe

(* What is told of calls and failures is what happened: each call once to all   *)
(* who listen, as the failure it was, with what it cost; lines of the log are   *)
(* lost from the oldest on; a failure is traced to the step it began in         *)
(* (agents/base/agent.py, usage.py, observability).                           *)
RecordsAreTrue ==
  /\ part = "agents" => Agents!CallsAreTold /\ Agents!ToldAsItWas /\ Agents!SummaryAddsUp
  /\ part = "usage_log" => Agents!LogKeepsTheLatest /\ Agents!SummaryOfAll
  /\ part = "trace" => Trace!TraceBlamesTheOrigin
  /\ part = "trace_ids" => Trace!NumbersTellIdsApart
  /\ part = "session_meters" => Meters!EndingsAreMeasured /\ Meters!StagesFitTheRun
  /\ part = "record_meters" => Meters!EachHearsItsOwn /\ Meters!CountsAddUp

(* A user stays logged in through the rotation of refresh tokens, and each token  *)
(* serves once (AuthTokenService, client.ts).                                  *)
StaysLoggedIn == part = "tokens" => LogIns!StaysLoggedIn

SearchResults == INSTANCE EvidenceSearch

SearchTools == {"radio", "electrical", "children", "food_drug", "customs"}

(* Whatever the model says, a result stands on what the listing says and the    *)
(* law allows: quoted facts, rows no rule excludes, ages as they are written,   *)
(* the milder scheme only when the stricter were looked at, every mark found    *)
(* (rules.py of each tool, tools/base/evidence_search.py); a "no" that extraction  *)
(* keeps has a ground, and what contradicts itself stays open (agents/extraction). *)
RulesBindTheModel ==
  /\ part \in SearchTools => SearchResults!Grounded
  /\ part = "electrical" => Electrical!ExcludedStayOut
  /\ part = "children" =>
       Children!NeverLoweredUnseen /\ Children!AgesMeanWhatTheySay /\ Children!BansAreRead
  /\ part = "advertising" => Advertising!MarksAreFound
  /\ part = "extraction" => Extracted!FalseHasGround /\ Extracted!ContradictionsStayOpen

(* What is open is asked or explained, and nothing that was found goes missing: *)
(* a contradiction, a claim to heal, a "yes" without a quote, a tariff code (the  *)
(* tools); the seller's lines of a page and the facts in them (agents/extraction); *)
(* what fields found and advise (results/presenter.py); a picture on its way to    *)
(* the guard and to extraction (agents/input_guard, pipeline); the images of a      *)
(* diagnosis, or what finds an unused one again (global/infra/s3); a callback of    *)
(* the server that stands in for the AI server (loadtest/mock-ai).                *)
NothingGoesMissing ==
  /\ part \in SearchTools => SearchResults!AsksWhatIsOpen /\ SearchResults!SilenceExplained
  /\ part = "food_drug" => FoodDrug!ClaimIsNeverDropped /\ FoodDrug!UnprovenYesIsAsked
  /\ part = "customs" => Customs!EveryCodeAnswered /\ Customs!NoLawMeansNone
  /\ part = "extraction" => Extracted!RegionIsTheSellers /\ Extracted!FactsReachTheProduct
  /\ part = "presentation" => Presented!AssessmentIsWhole
  /\ part = "intake" => Taking!PassMeansSeen /\ Taking!PicturesReachExtraction /\ Taking!JudgeAccepts
  /\ part = "files" => Store!ImagesStay /\ Store!ObjectsAreKnown
  /\ part = "mock_server" => Mock!SendsWhatTheServerWould /\ Mock!MarksAreKept
=============================================================================

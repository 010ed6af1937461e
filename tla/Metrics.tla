------------------------------- MODULE Metrics -------------------------------
(* What GET /metrics says (observability/metrics.py).  A subscriber of the      *)
(* session manager measures runs: the worker of a run and the sweeper tell the   *)
(* changes they stored, each in its own time, so that the end of a run may be    *)
(* told before its last stage (SessionStep).  The registries of the apps of one  *)
(* process hear the measurements of all its threads while they are entered       *)
(* (RecordStep).  A series is the name of a metric with its labels; the type of  *)
(* run, a label that never changes, is left out.                                *)
EXTENDS Naturals, Sequences, SequencesExt, FiniteSets, FiniteSetsExt

CONSTANTS
  Metered,      \* the runs of one product, one after another: 1..n
  MeteredStage, \* stages of a run
  ToolLabel, Api, CacheName,   \* labels: tools, servers, caches of answers
  Records,      \* measurements that threads may publish, out of those below
  AppName, Recorder,           \* apps of the process, its threads
  MaxTime, MaxNews, MaxRecords   \* bounds: seconds, reports of a run, measurements

VARIABLES
  now, runs, teller, stages, series,        \* sessions
  entered, listening, publishing, registry, gauges, heard, published   \* measurements

sessionVars == <<now, runs, teller, stages, series>>
recordVars  == <<entered, listening, publishing, registry, gauges, heard, published>>
metricVars  == <<sessionVars, recordVars>>

-----------------------------------------------------------------------------
(* Counters and histograms of prometheus_client: a series is there from its    *)
(* first use, a histogram counts its observations and sums them up.            *)
Inc(meters, entry) ==
  LET s == entry[1]
      before == IF s \in DOMAIN meters THEN meters[s] ELSE 0
  IN [x \in DOMAIN meters \cup {s} |-> IF x = s THEN before + entry[2] ELSE meters[x]]

Counted(meters, entries) == FoldLeft(Inc, meters, entries)

Count(name, labels) == <<<<name>> \o labels, 1>>

Added(name, labels, amount) == <<<<name>> \o labels, amount>>

Observed(name, labels, seconds) ==
  <<<<<<name, "count">> \o labels, 1>>, <<<<name, "sum">> \o labels, seconds>>>>

\* _preset: series that are there before their first use.
Preset(name, labels) == {<<name>> \o l : l \in labels}

PresetHistogram(name, labels) == Preset(name, {<<"count">> \o l : l \in labels})
                                   \cup Preset(name, {<<"sum">> \o l : l \in labels})

Zero(all) == [s \in all |-> 0]

\* The sum over all series of a metric whose next label is the one given.
SumOf(meters, prefix) ==
  FoldSet(LAMBDA s, total : total + meters[s], 0,
          {s \in DOMAIN meters : Len(s) >= Len(prefix) /\ SubSeq(s, 1, Len(prefix)) = prefix})

-----------------------------------------------------------------------------
(* Sessions.                                                                  *)
Outcome == [Complete |-> "completed", AskUser |-> "awaiting_input", Fail |-> "failed"]
Outcomes == {Outcome[k] : k \in DOMAIN Outcome}
ToolReports == {"started", "completed", "skipped"}

NoStage == "none"

\* _seconds: never negative, even if the clock is set back.
Seconds(start, end) == IF end < start THEN 0 ELSE end - start

Waiting == [status |-> "ACCEPTED", accepted |-> now, started |-> MaxTime + 1, updated |-> now,
            stage |-> NoStage, news |-> 0]
Unborn  == [Waiting EXCEPT !.status = "none"]
HasStarted(s) == s.started <= MaxTime
Over(s) == s.status \in Outcomes

\* The workers have the numbers of their runs.
Sweeper == 0
Tellers == Metered \cup {Sweeper}
Silent  == [pc |-> "idle"]

SessionPreset ==
  PresetHistogram("queue_wait", {<<>>})
    \cup PresetHistogram("run", {<<o>> : o \in Outcomes}) \cup PresetHistogram("total", {<<o>> : o \in Outcomes})
    \cup Preset("finished", {<<o>> : o \in Outcomes}) \cup PresetHistogram("stage", {<<g>> : g \in MeteredStage})
    \cup Preset("tool", {<<k>> : k \in ToolReports})

\* The next run of the product: accepted when the one before is over, or resumed.
Accept(r) ==
  /\ runs[r].status = "none" /\ (r > 1 => Over(runs[r - 1]))
  /\ runs' = [runs EXCEPT ![r] = Waiting]
  /\ UNCHANGED <<now, teller, stages, series>>

Tick == now < MaxTime /\ now' = now + 1 /\ UNCHANGED <<runs, teller, stages, series>>

\* A change is stored, and the event waits to be told with the session as it became.
Store(t, r, kind, session, label) ==
  /\ teller[t].pc = "idle"
  /\ runs' = [runs EXCEPT ![r] = session]
  /\ teller' = [teller EXCEPT ![t] = [pc |-> "told", kind |-> kind, run |-> r, session |-> session, label |-> label]]
  /\ UNCHANGED <<now, stages, series>>

Begin(r) == /\ runs[r].status = "ACCEPTED"
            /\ Store(r, r, "Start", [runs[r] EXCEPT !.status = "RUNNING", !.started = now, !.updated = now], "")

ChangeStage(r, stage) ==
  /\ runs[r].status = "RUNNING" /\ runs[r].news < MaxNews
  /\ Store(r, r, "ChangeStage", [runs[r] EXCEPT !.stage = stage, !.updated = now, !.news = @ + 1], stage)

\* The status of the session and its time stay as they are.
ReportTool(r, status) ==
  /\ runs[r].status = "RUNNING" /\ runs[r].news < MaxNews
  /\ Store(r, r, "ReportTool", [runs[r] EXCEPT !.news = @ + 1], status)

Finish(t, r, kind, code) ==
  Store(t, r, kind, [runs[r] EXCEPT !.status = Outcome[kind], !.updated = now], code)

Conclude(r) == /\ runs[r].status = "RUNNING"
               /\ \/ Finish(r, r, "Complete", "") \/ Finish(r, r, "AskUser", "")
                  \/ Finish(r, r, "Fail", "AI_INTERNAL_ERROR")

TimeOut(r) == /\ runs[r].status \in {"ACCEPTED", "RUNNING"}
              /\ Finish(Sweeper, r, "Fail", "AI_TIMEOUT")

\* Mutant: the stage is looked at and stays.
LookedAt(r) == stages

\* The stage is taken out under the lock, so that nobody measures it again.
Popped(r) == [stages EXCEPT ![r] = Silent]

StageTime(r, at) ==
  IF stages[r] = Silent THEN <<>> ELSE Observed("stage", <<stages[r].stage>>, Seconds(stages[r].since, at))

EndingMetered(e) ==
  LET o == Outcome[e.kind]
      s == e.session
  IN <<Count("finished", <<o>>)>> \o Observed("total", <<o>>, Seconds(s.accepted, s.updated))
       \o (IF HasStarted(s) THEN Observed("run", <<o>>, Seconds(s.started, s.updated)) ELSE <<>>)
       \o (IF e.kind = "Fail" THEN <<Count("failed", <<e.label, s.stage>>)>> ELSE <<>>)

\* on_event.  A stage is closed and opened under the lock, but not under the same.
Tell(t) ==
  LET e == teller[t]
      closes == e.kind \in {"ChangeStage"} \cup DOMAIN Outcome
  IN /\ e.pc = "told"
     /\ IF closes
        THEN /\ series' = Counted(series, StageTime(e.run, e.session.updated))
             /\ stages' = Popped(e.run)
             /\ teller' = [teller EXCEPT ![t].pc = "closed"]
        ELSE /\ series' = Counted(series, IF e.kind = "Start"
                            THEN Observed("queue_wait", <<>>, Seconds(e.session.accepted, e.session.started))
                            ELSE <<Count("tool", <<e.label>>)>>)
             /\ teller' = [teller EXCEPT ![t] = Silent]
             /\ UNCHANGED stages
     /\ UNCHANGED <<now, runs>>

OpenStage(t) ==
  /\ teller[t].pc = "closed" /\ teller[t].kind = "ChangeStage"
  /\ stages' = [stages EXCEPT ![teller[t].run] =
                  [pc |-> "open", stage |-> teller[t].label, since |-> teller[t].session.updated]]
  /\ teller' = [teller EXCEPT ![t] = Silent]
  /\ UNCHANGED <<now, runs, series>>

MeterEnding(t) ==
  /\ teller[t].pc = "closed" /\ teller[t].kind \in DOMAIN Outcome
  /\ series' = Counted(series, EndingMetered(teller[t]))
  /\ teller' = [teller EXCEPT ![t] = Silent]
  /\ UNCHANGED <<now, runs, stages>>

SessionInit ==
  /\ now = 0 /\ runs = [r \in Metered |-> Unborn]
  /\ teller = [t \in Tellers |-> Silent] /\ stages = [r \in Metered |-> Silent]
  /\ series = Zero(SessionPreset)

SessionStep ==
  \/ Tick
  \/ \E r \in Metered : \/ Accept(r) \/ Begin(r) \/ Conclude(r) \/ TimeOut(r)
                        \/ \E g \in MeteredStage : ChangeStage(r, g)
                        \/ \E k \in ToolReports : ReportTool(r, k)
  \/ \E t \in Tellers : Tell(t) \/ OpenStage(t) \/ MeterEnding(t)

-----------------------------------------------------------------------------
(* Measurements, as those who publish them make them.                         *)
Deciding  == {"required", "not_required", "possibly_required", "insufficient_information", "not_applicable"}
EventType == {"product_progress", "product_awaiting_input", "product_result", "product_failed"}
DropReasons    == {"retry_exhausted", "not_retryable", "shutdown", "error"}
ClientResults  == {"ok", "http_error", "api_error", "timeout", "connect_error", "other"}
ToolErrors     == {"client", "model", "other"}
CacheResults   == {"hit", "miss", "stale", "skipped"}
CaseCache      == "customs.cases"
RefreshResults == {"ok", "partial", "failed"}
ChangeKinds    == {"announced", "applied", "skipped"}
IngestOutcomes == {"saved", "removed", "failed"}

\* Delivered, or dropped for a reason.
CallbackOutcome(type, retries, reason) ==
  [kind |-> "callback", type |-> type, retries |-> retries, reason |-> reason]
Delivered(record) == record.reason = "none"

ToolRun(tool, status, error, found) ==
  [kind |-> "tool", tool |-> tool, status |-> status, error |-> error, found |-> found]
SkippedRun(tool)       == ToolRun(tool, "skipped", "none", <<>>)
RaisedRun(tool, error) == ToolRun(tool, "failed", error, <<>>)
\* A failure that is returned has a cause nobody knows.
ReturnedRun(tool, status, found) ==
  ToolRun(tool, status, IF status = "failed" THEN "other" ELSE "none", found)

ClientCall(api, result)        == [kind |-> "client", api |-> api, result |-> result]
CacheLookup(cache, result)     == [kind |-> "cache", cache |-> cache, result |-> result]
SellerRegionCut(site, trimmed) == [kind |-> "seller", site |-> site, trimmed |-> trimmed]
HttpRequest(route, status)     == [kind |-> "http", route |-> route, status |-> status]
LawChangeFound(change, tool)   == [kind |-> "law_change", change |-> change, tool |-> tool]
LawRefreshRun(result)          == [kind |-> "law_refresh", result |-> result]

ClipIngestRun(result, saved, removed, failed) ==
  [kind |-> "ingest", result |-> result, saved |-> saved, removed |-> removed, failed |-> failed]
\* _run_result: what was received and could not be stored at all is a failure.
ReportedIngest(saved, removed, failed) ==
  ClipIngestRun(IF failed = 0 THEN "ok" ELSE IF saved = 0 THEN "failed" ELSE "partial", saved, removed, failed)

AgentRun(component, failed, phase, tokens, krw) ==
  [kind |-> "agent", component |-> component, failed |-> failed, phase |-> phase, tokens |-> tokens, krw |-> krw]

Unpriced == 0 - 1

-----------------------------------------------------------------------------
RecordPreset ==
  Preset("callback_sent", {<<y, d>> : y \in EventType, d \in {"delivered", "dropped"}})
    \cup Preset("callback_retries", {<<y>> : y \in EventType}) \cup Preset("callback_dropped", {<<d>> : d \in DropReasons})
    \cup Preset("tool_runs", {<<t, s>> : t \in ToolLabel, s \in {"success", "partial", "failed", "skipped"}})
    \cup Preset("tool_errors", {<<t, e>> : t \in ToolLabel, e \in ToolErrors})
    \cup Preset("tool_findings", {<<t, d>> : t \in ToolLabel, d \in Deciding})
    \cup Preset("client_calls", {<<a, c>> : a \in Api, c \in ClientResults})
    \cup Preset("cache_lookups", {<<c, r>> : c \in CacheName, r \in CacheResults}
                                   \cup {<<CaseCache, r>> : r \in CacheResults \ {"stale"}})
    \cup Preset("seller_region", {<<m, b>> : m \in {"aliexpress", "temu"}, b \in {"true", "false"}})
    \cup Preset("law_refresh_runs", {<<r>> : r \in RefreshResults})
    \cup Preset("law_changes", {<<k, t>> : k \in ChangeKinds, t \in ToolLabel})
    \cup Preset("clip_ingest_runs", {<<r>> : r \in RefreshResults \cup {"skipped"}})
    \cup Preset("clip_ingest_cases", {<<o>> : o \in IngestOutcomes})

\* Mutant: tools that are skipped are measured too.
AllMeasured(r) == Observed("tool_seconds", <<r.tool, r.status>>, 0)

\* A tool that is skipped takes no time.
ToolTime(r) == IF r.status = "skipped" THEN <<>> ELSE Observed("tool_seconds", <<r.tool, r.status>>, 1)

\* on_run of the agents: the phase of a failure may be unknown, and so may tokens and cost.
AgentCounts(r) ==
  LET outcome == IF ~r.failed THEN "ok" ELSE IF r.phase = "none" THEN "failed" ELSE r.phase
  IN <<Count("agent_calls", <<r.component, outcome>>)>> \o Observed("agent_seconds", <<r.component, outcome>>, 1)
       \o (IF r.tokens = Unpriced THEN <<>> ELSE <<Added("agent_tokens", <<r.component>>, r.tokens)>>)
       \o (IF r.krw = Unpriced THEN <<>> ELSE <<Added("agent_cost", <<r.component>>, r.krw)>>)

\* on_record of the measurements; every call, whatever it is, takes a second here.
Counts(r) ==
  CASE r.kind = "callback" ->
         <<Count("callback_sent", <<r.type, IF Delivered(r) THEN "delivered" ELSE "dropped">>),
           Added("callback_retries", <<r.type>>, r.retries)>>
           \o (IF Delivered(r) THEN <<>> ELSE <<Count("callback_dropped", <<r.reason>>)>>)
    [] r.kind = "tool" ->
         <<Count("tool_runs", <<r.tool, r.status>>)>> \o ToolTime(r)
           \o (IF r.error = "none" THEN <<>> ELSE <<Count("tool_errors", <<r.tool, r.error>>)>>)
           \o [i \in DOMAIN r.found |-> Count("tool_findings", <<r.tool, r.found[i]>>)]
    [] r.kind = "client" ->
         <<Count("client_calls", <<r.api, r.result>>)>> \o Observed("client_seconds", <<r.api>>, 1)
    [] r.kind = "cache"  -> <<Count("cache_lookups", <<r.cache, r.result>>)>>
    [] r.kind = "seller" -> <<Count("seller_region", <<r.site, IF r.trimmed THEN "true" ELSE "false">>)>>
    [] r.kind = "http"   ->
         <<Count("http_requests", <<r.route, r.status>>)>> \o Observed("http_seconds", <<r.route>>, 1)
    [] r.kind = "law_change"  -> <<Count("law_changes", <<r.change, r.tool>>)>>
    [] r.kind = "law_refresh" -> <<Count("law_refresh_runs", <<r.result>>)>>
    [] r.kind = "ingest" ->
         <<Count("clip_ingest_runs", <<r.result>>), Added("clip_ingest_cases", <<"saved">>, r.saved),
           Added("clip_ingest_cases", <<"removed">>, r.removed), Added("clip_ingest_cases", <<"failed">>, r.failed)>>
    [] r.kind = "agent"  -> AgentCounts(r)

\* Mutant: a partial check counts as a success.
AnyRun(g, r, at) == [g EXCEPT ![r.kind] = at]

\* The time of the last check, or ingest, without a failure.
LastSuccess(g, r, at) == IF r.result = "ok" THEN [g EXCEPT ![r.kind] = at] ELSE g

Periodic == {"law_refresh", "ingest"}

-----------------------------------------------------------------------------
\* app_metrics: a registry of its own for each app, which hears until the app ends.
Enter(app) ==
  /\ app \notin entered /\ registry[app] = <<>> /\ entered' = entered \cup {app}
  /\ registry' = [registry EXCEPT ![app] = Zero(RecordPreset)]
  /\ listening' = Append(listening, app)
  /\ UNCHANGED <<publishing, gauges, heard, published>>

\* Mutant: the sink stays when the app ends.
StaysIn(app) == UNCHANGED listening

Removed(app) == listening' = RemoveFirst(listening, app)

Leave(app) ==
  /\ app \in entered /\ entered' = entered \ {app} /\ Removed(app)
  /\ UNCHANGED <<publishing, registry, gauges, heard, published>>

\* publish: the list of sinks is copied, then each is called.  One task checks the
\* laws, and one takes in cases.
Publish(t, r) ==
  /\ publishing[t] = <<>> /\ Len(published) < MaxRecords
  /\ r.kind \in Periodic => \A u \in Recorder : publishing[u] # <<>> => publishing[u][1].record.kind # r.kind
  /\ published' = Append(published, [record |-> r, to |-> entered])
  /\ publishing' = [publishing EXCEPT ![t] =
       [i \in DOMAIN listening |-> [record |-> r, id |-> Len(published) + 1, app |-> listening[i]]]]
  /\ UNCHANGED <<entered, listening, registry, gauges, heard>>

Hear(t) ==
  /\ publishing[t] # <<>>
  /\ LET next == Head(publishing[t])
         a == next.app
     IN /\ registry' = [registry EXCEPT ![a] = Counted(@, Counts(next.record))]
        /\ gauges' = IF next.record.kind \in Periodic
                     THEN [gauges EXCEPT ![a] = LastSuccess(@, next.record, next.id)] ELSE gauges
        /\ heard' = [heard EXCEPT ![a] = Append(@, next.id)]
  /\ publishing' = [publishing EXCEPT ![t] = Tail(@)]
  /\ UNCHANGED <<entered, listening, published>>

RecordInit ==
  /\ entered = {} /\ listening = <<>> /\ published = <<>>
  /\ publishing = [t \in Recorder |-> <<>>] /\ registry = [a \in AppName |-> <<>>]
  /\ gauges = [a \in AppName |-> [k \in Periodic |-> 0]] /\ heard = [a \in AppName |-> <<>>]

RecordStep ==
  \/ \E a \in AppName : Enter(a) \/ Leave(a)
  \/ \E t \in Recorder : Hear(t) \/ \E r \in Records : Publish(t, r)

RecordSpec == RecordInit /\ [][RecordStep]_recordVars

Init == SessionInit /\ RecordInit

-----------------------------------------------------------------------------
Quiet == \A t \in Tellers : teller[t] = Silent

Total(time, all) == FoldSet(LAMBDA r, total : total + time[r], 0, all)

(* Once all is told, every run that ended is counted as what it ended as and    *)
(* measured from its own acceptance, those that ran from their start; whoever   *)
(* ended it, and whatever the run before took.                                *)
EndingsAreMeasured ==
  Quiet =>
    \A o \in Outcomes :
      LET ended == {r \in Metered : runs[r].status = o}
          ran   == {r \in ended : HasStarted(runs[r])}
          total == [r \in Metered |-> runs[r].updated - runs[r].accepted]
          spent == [r \in Metered |-> runs[r].updated - runs[r].started]
      IN /\ series[<<"finished", o>>] = Cardinality(ended)
         /\ series[<<"total", "sum", o>>] = Total(total, ended)
         /\ series[<<"run", "count", o>>] = Cardinality(ran)
         /\ series[<<"run", "sum", o>>] = Total(spent, ran)
         /\ o = "failed" => SumOf(series, <<"failed">>) = Cardinality(ended)

(* No second of a run is measured in two stages, however the sweeper and the    *)
(* worker get in each other's way; and a stage is left open only by a run that  *)
(* timed out while its worker was telling of that stage.                      *)
StagesFitTheRun ==
  /\ SumOf(series, <<"stage", "sum">>)
       <= Total([r \in Metered |-> runs[r].updated - runs[r].started], {r \in Metered : HasStarted(runs[r])})
  /\ Quiet => \A r \in Metered : Over(runs[r]) /\ stages[r] # Silent => <<"failed", "AI_TIMEOUT", stages[r].stage>> \in DOMAIN series

(* An app counts what was published while it was entered, each record once, and  *)
(* nothing of what came after it.                                              *)
EachHearsItsOwn ==
  \A a \in AppName :
    LET due == {i \in DOMAIN published : a \in published[i].to}
    IN /\ Range(heard[a]) \subseteq due /\ Len(heard[a]) = Cardinality(Range(heard[a]))
       /\ (\A t \in Recorder : publishing[t] = <<>>) => Range(heard[a]) = due

(* What is counted twice adds up: a callback dropped has one reason, a tool that *)
(* failed one cause, a tool that ran one time; the gauges tell of the last       *)
(* check without a failure; and what can be foreseen was there before it was    *)
(* counted, so that its first count is seen.                                  *)
CountsAddUp ==
  \A a \in AppName :
    LET m == registry[a]
        good(k) == {i \in Range(heard[a]) : published[i].record.kind = k /\ published[i].record.result = "ok"}
    IN m # <<>> =>
         /\ SumOf(m, <<"callback_dropped">>) = FoldSet(LAMBDA y, n : n + m[<<"callback_sent", y, "dropped">>], 0, EventType)
         /\ \A t \in ToolLabel :
              /\ SumOf(m, <<"tool_errors", t>>) = m[<<"tool_runs", t, "failed">>]
              /\ SumOf(m, <<"tool_seconds", "count", t>>) = SumOf(m, <<"tool_runs", t>>) - m[<<"tool_runs", t, "skipped">>]
         /\ SumOf(m, <<"agent_seconds", "count">>) = SumOf(m, <<"agent_calls">>)
         /\ \A k \in Periodic : gauges[a][k] = Max(good(k) \cup {0})
         /\ \A s \in DOMAIN m \ RecordPreset :
              s[1] \in {"tool_seconds", "client_seconds", "http_requests", "http_seconds",
                       "agent_calls", "agent_seconds", "agent_tokens", "agent_cost"}
=============================================================================

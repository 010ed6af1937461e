----------------------------- MODULE AgentCalls -----------------------------
(* Calls of language models by agents on several threads, and how each call   *)
(* is recorded (agents/base/agent.py, usage.py, observability/agent_sinks.py, *)
(* run_summary.py).  A reply is [what, gateway, metadata]: what    *)
(* came, whether the gateway reported "all" counts of tokens, "some" or "no",  *)
(* and whether the library did.  Below, the log of the calls on its own: a line *)
(* per call, and older files that are pushed along when the file is full       *)
(* (usage.py).  File 0 is usage.jsonl, file i is usage.jsonl.i.  A process      *)
(* that dies may leave an open line.                                          *)
EXTENDS Integers, Sequences, SequencesExt, FiniteSets, FiniteSetsExt

CONSTANTS
  None,
  CallThread,     \* threads of tools and steps, each calls a model at most once
  RunOf,          \* the run a thread works for, None outside of one
  Chat, Decision, \* replies of a chat model and of a decision model, by thread
  Reported,       \* tokens by who reports them: gateway, metadata, exception
  ChatPrice,      \* per token of input, of cached input and of output
  Added,          \* the sinks that come and go, the others are there from import on
  LogMax,         \* lines of a full file
  Backups,        \* older files that are kept
  LogRows,        \* what a line may say: [agent, failed, phase, krw]
  MaxLines        \* bound: lines that are written

\* What is remembered of a call: its reply, and what its caller gets.
CallRecord ==
  [kind  : {"chat", "decision"},
   reply : {None} \cup UNION {Chat[t] \cup Decision[t] : t \in CallThread},
   usage : {None, Reported.gateway, Reported.metadata, Reported.exception},
   phase : {None, "call", "parsing", "finalize"},
   gets  : {"result", "exception"}]

Usage == [input : Nat, cached : Nat, output : Nat]

CallAssumption ==
  /\ IsFiniteSet(CallThread) /\ "run_summary" \notin Added
  /\ None \notin {"call", "parsing", "finalize"} /\ None \notin CallRecord /\ None \notin Usage
  /\ \A u \in {Reported.gateway, Reported.metadata, Reported.exception}: u \in Usage /\ u.input + u.output > 0
  /\ ChatPrice \in Usage

VARIABLES
  at, call, copy, gave, standing, sinks, summary,
  files, lines, broke      \* of the log

agentVars == <<at, call, copy, gave, standing, sinks, summary>>

logVars == <<files, lines, broke>>

CallRun == {RunOf[t] : t \in CallThread} \ {None}

\* The sinks that are registered at import, but for those that only write a line.
Imported == <<"run_summary">>

Nothing == [calls |-> 0, failures |-> 0, tokens |-> 0, cost |-> 0]

Init ==
  /\ at = [t \in CallThread |-> "idle"]
  /\ call = [t \in CallThread |-> None]
  /\ copy = [t \in CallThread |-> <<>>]
  /\ gave = [t \in CallThread |-> <<>>]
  /\ standing = [t \in CallThread |-> {}]
  /\ sinks = Imported
  /\ summary = [r \in CallRun |-> Nothing]

-----------------------------------------------------------------------------
(* Usage: the gateway's counts are used only when they are complete.          *)
FromResponse(reply) ==
  IF reply.gateway = "all" THEN Reported.gateway
  ELSE IF reply.metadata THEN Reported.metadata
  ELSE None

(* Mutant: a reply that came as an exception is taken to have cost nothing.    *)
NothingForCut(reply) == None

\* What a cut or unreadable reply cost is in the exception, if anywhere.
FromException(reply) == IF reply.gateway = "all" THEN Reported.exception ELSE None

FromDecision(reply) == Reported.gateway

UncachedInput(usage) == IF usage.input > usage.cached THEN usage.input - usage.cached ELSE 0

EstimateKrw(usage, kind) ==
  IF usage = None \/ kind # "chat" THEN None
  ELSE UncachedInput(usage) * ChatPrice.input + usage.cached * ChatPrice.cached + usage.output * ChatPrice.output

-----------------------------------------------------------------------------
(* RunSummary.add_call.                                                       *)
AddCall(sum, meta) ==
  [calls    |-> sum.calls + 1,
   failures |-> sum.failures + IF meta.phase = None THEN 0 ELSE 1,
   tokens   |-> sum.tokens + IF meta.usage = None THEN 0 ELSE meta.usage.input + meta.usage.output,
   cost     |-> sum.cost + IF meta.cost = None THEN 0 ELSE meta.cost]

-----------------------------------------------------------------------------
(* run_with_meta: the input may settle the result without a call.             *)
RunMeta(kind, usage, phase) ==
  [kind |-> kind, usage |-> usage, phase |-> phase, cost |-> EstimateKrw(usage, kind)]

Skip(t) ==
  /\ at[t] = "idle"
  /\ at' = [at EXCEPT ![t] = "done"]
  /\ UNCHANGED <<call, copy, gave, standing, sinks, summary>>

Ask(t, kind) ==
  /\ at[t] = "idle"
  /\ at' = [at EXCEPT ![t] = "asked"]
  /\ call' = [call EXCEPT ![t] = [kind |-> kind, reply |-> None, usage |-> None, phase |-> None,
                             gets |-> "result"]]
  /\ UNCHANGED <<copy, gave, standing, sinks, summary>>

(* publish goes through a copy of the list, so that sinks may come and go.     *)
FinishCall(t, ended) ==
  /\ at' = [at EXCEPT ![t] = "telling"]
  /\ call' = [call EXCEPT ![t] = ended]
  /\ copy' = [copy EXCEPT ![t] = sinks]
  /\ standing' = [standing EXCEPT ![t] = Range(sinks)]
  /\ UNCHANGED <<gave, sinks, summary>>

(* _call_model: an answer goes on to _finalize, everything else is recorded at *)
(* once, with the tokens it cost if the reply names them.                     *)
CallModel(t) ==
  /\ at[t] = "asked" /\ call[t].kind = "chat"
  /\ \E reply \in Chat[t] :
       LET got(usage, phase) == [call[t] EXCEPT !.reply = reply, !.usage = usage, !.phase = phase,
                                !.gets = IF phase = None THEN "result" ELSE "exception"]
       IN \/ /\ reply.what = "answer"
             /\ at' = [at EXCEPT ![t] = "answered"]
             /\ call' = [call EXCEPT ![t] = got(FromResponse(reply), None)]
             /\ UNCHANGED <<copy, gave, standing, sinks, summary>>
          \/ reply.what = "unreadable" /\ FinishCall(t, got(FromResponse(reply), "parsing"))
          \/ reply.what = "cut" /\ FinishCall(t, got(FromException(reply), "parsing"))
          \/ reply.what = "lost" /\ FinishCall(t, got(None, "call"))

(* _call_decision.                                                            *)
CallDecision(t) ==
  /\ at[t] = "asked" /\ call[t].kind = "decision"
  /\ \E reply \in Decision[t] :
       LET got(usage, phase) == [call[t] EXCEPT !.reply = reply, !.usage = usage, !.phase = phase,
                                !.gets = IF phase = None THEN "result" ELSE "exception"]
       IN \/ /\ reply.what = "answer"
             /\ at' = [at EXCEPT ![t] = "answered"]
             /\ call' = [call EXCEPT ![t] = got(FromDecision(reply), None)]
             /\ UNCHANGED <<copy, gave, standing, sinks, summary>>
          \/ reply.what = "unreadable" /\ FinishCall(t, got(FromException(reply), "parsing"))
          \/ reply.what = "lost" /\ FinishCall(t, got(None, "call"))

(* Mutant: the call is recorded before what is made of its answer fails.       *)
RecordedAtOnce(t, gets) == [call[t] EXCEPT !.gets = gets]

(* _finalize may still fail; the call is recorded once, as what it came to.    *)
AfterFinalize(t, gets) ==
  [call[t] EXCEPT !.gets = gets, !.phase = IF gets = "result" THEN None ELSE "finalize"]

Finalize(t) ==
  /\ at[t] = "answered"
  /\ \E gets \in {"result", "exception"} : FinishCall(t, AfterFinalize(t, gets))

-----------------------------------------------------------------------------
(* publish: one sink after the other; a sink that raises is logged and passed. *)
ToGive(t) == copy[t]

Meta(t) == RunMeta(call[t].kind, call[t].usage, call[t].phase)

Give(t) ==
  /\ at[t] = "telling" /\ Len(gave[t]) < Len(ToGive(t))
  /\ LET sink == ToGive(t)[Len(gave[t]) + 1]
     IN /\ gave' = [gave EXCEPT ![t] = Append(@, sink)]
        /\ summary' = IF sink # "run_summary" \/ RunOf[t] = None THEN summary
                      ELSE [summary EXCEPT ![RunOf[t]] = AddCall(@, Meta(t))]
  /\ UNCHANGED <<at, call, copy, standing, sinks>>

(* The caller has its result, or the exception.                               *)
Return(t) ==
  /\ at[t] = "telling" /\ Len(gave[t]) >= Len(ToGive(t))
  /\ at' = [at EXCEPT ![t] = "done"]
  /\ copy' = [copy EXCEPT ![t] = <<>>]
  /\ gave' = [gave EXCEPT ![t] = <<>>]
  /\ standing' = [standing EXCEPT ![t] = {}]
  /\ UNCHANGED <<call, sinks, summary>>

AddSink(s) ==
  /\ sinks' = IF s \in Range(sinks) THEN sinks ELSE Append(sinks, s)
  /\ UNCHANGED <<at, call, copy, gave, standing, summary>>

RemoveSink(s) ==
  /\ sinks' = RemoveFirst(sinks, s)
  /\ standing' = [t \in CallThread |-> standing[t] \ {s}]
  /\ UNCHANGED <<at, call, copy, gave, summary>>

Next ==
  \/ \E t \in CallThread :
       \/ Skip(t) \/ Ask(t, "chat") \/ Ask(t, "decision")
       \/ CallModel(t) \/ CallDecision(t) \/ Finalize(t) \/ Give(t) \/ Return(t)
  \/ \E s \in Added : AddSink(s) \/ RemoveSink(s)

Spec == Init /\ [][Next]_agentVars

-----------------------------------------------------------------------------
Called(t) == at[t] = "done" /\ call[t] # None

(* A sink that is registered while a call is recorded gets it, and no sink     *)
(* gets it twice, whoever comes and goes meanwhile.                           *)
CallsAreTold ==
  \A t \in CallThread : at[t] = "telling" /\ Len(gave[t]) >= Len(ToGive(t)) =>
    standing[t] \subseteq Range(gave[t]) /\ Cardinality(Range(gave[t])) = Len(gave[t])

(* What is told of a call agrees with what its caller got: the phase of a      *)
(* failure, never a success, for every exception.                             *)
ToldAsItWas ==
  \A t \in CallThread : Called(t) => (call[t].phase = None <=> call[t].gets = "result")

(* The summary of a run counts each of its calls and what a reply said that    *)
(* it cost, and no tokens are taken for less than nothing.                    *)
SummaryAddsUp ==
  \A r \in CallRun :
    LET mine == {t \in CallThread : RunOf[t] = r /\ Called(t)}
        known == {t \in mine : call[t].reply.what # "lost" /\ call[t].reply.gateway = "all"}
    IN (\A t \in CallThread : RunOf[t] = r => at[t] = "done") =>
         /\ summary[r].calls = Cardinality(mine)
         /\ summary[r].failures = Cardinality({t \in mine : call[t].gets = "exception"})
         /\ summary[r].tokens >= Cardinality(known)
         /\ \A t \in known : call[t].usage # None
         /\ summary[r].cost >= 0

-----------------------------------------------------------------------------
File == 0..Backups

LogInit ==
  /\ files = [i \in File |-> None]
  /\ lines = 0
  /\ broke = FALSE

-----------------------------------------------------------------------------
(* Mutant: the youngest first.                                                *)
YoungestFirst == [i \in 1..Backups |-> i - 1]

(* _rotate_if_full: the oldest first, each over the one after it, the file     *)
(* itself last.  An error stops it after some of the renames.                 *)
RenameOrder == [i \in 1..Backups |-> Backups - i]

Rename(on, i) == IF on[i] = None THEN on ELSE [on EXCEPT ![i + 1] = on[i], ![i] = None]

Full(on) == on[0] # None /\ Len(on[0]) >= LogMax

Rotated(on, renames) == FoldLeft(Rename, on, SubSeq(RenameOrder, 1, renames))

(* A line that is appended to an open one cannot be read either, and if it is  *)
(* left open itself, the next one goes the same way.                          *)
Appended(file, line) ==
  LET before == IF file = None THEN <<>> ELSE file
  IN IF before # <<>> /\ Last(before).state = "open"
     THEN Append(Front(before), [Last(before) EXCEPT !.state = IF line.state = "open" THEN "open" ELSE "broken"])
     ELSE Append(before, line)

Line(row, state) == [id |-> lines + 1, row |-> row, state |-> state]

(* record, under the lock of the log: a failure to write is passed over.       *)
Write(line) ==
  /\ lines < MaxLines
  /\ \E renames \in IF Full(files) THEN {Backups} \cup (IF broke THEN {} ELSE 0..Backups) ELSE {0} :
       LET on == Rotated(files, renames)
       IN /\ files' = [on EXCEPT ![0] = Appended(on[0], line)]
          /\ broke' = (broke \/ (Full(files) /\ renames < Backups))
  /\ lines' = lines + 1

Record(row) == Write(Line(row, "whole"))

(* The process dies while it writes.                                          *)
DiesWriting(row) == Write(Line(row, "open"))

LogNext == \E row \in LogRows : Record(row) \/ DiesWriting(row)

-----------------------------------------------------------------------------
(* summarize: the lines of the current file that can be read.                  *)
Readable(file) == IF file = None THEN <<>> ELSE SelectSeq(file, LAMBDA l : l.state = "whole")

CountFailed(rows) == Len(SelectSeq(rows, LAMBDA l : l.row.failed))

\* A failure whose phase nobody told is unknown.
PhaseOf(row) == IF row.phase = None THEN "unknown" ELSE row.phase

FailedByPhase(rows) ==
  [p \in {PhaseOf(l.row) : l \in {l \in Range(rows) : l.row.failed}} |->
     Len(SelectSeq(rows, LAMBDA l : l.row.failed /\ PhaseOf(l.row) = p))]

Totals(rows) ==
  [calls  |-> Len(rows),
   failed |-> CountFailed(rows),
   phases |-> FailedByPhase(rows),
   krw    |-> FoldLeft(LAMBDA total, l : total + l.row.krw, 0, rows)]

Summarize ==
  LET rows == Readable(files[0])
  IN [all    |-> Totals(rows),
      agents |-> [a \in {l.row.agent : l \in Range(rows)} |->
                    Totals(SelectSeq(rows, LAMBDA l : l.row.agent = a))]]

-----------------------------------------------------------------------------
\* All lines there are, the oldest file first.
Kept == FlattenSeq([i \in 1..(Backups + 1) |->
          IF files[Backups + 1 - i] = None THEN <<>> ELSE files[Backups + 1 - i]])

\* The line that holds what was written as the n-th.
Holding(n) == Last(SelectSeq(Kept, LAMBDA l : l.id <= n))

(* The files read from the oldest on are in the order of the calls.  As long   *)
(* as no rotation was cut short the oldest files alone are given up, and every *)
(* later line is there by itself, unless it was written onto an open one.      *)
LogKeepsTheLatest ==
  /\ \A i \in 1..(Len(Kept) - 1) : Kept[i].id < Kept[i + 1].id
  /\ ~broke /\ lines > 0 =>
       /\ Kept # <<>> /\ (Kept[1].id = 1 \/ Len(Kept) > LogMax * Backups)
       /\ \A n \in Kept[1].id..lines : Holding(n).id = n \/ Holding(n).state # "whole"

\* The sum of the numbers of a set of pairs <<name, number>>.
TotalOf(pairs) == FoldSet(LAMBDA p, total : p[2] + total, 0, pairs)

(* What is said of each agent adds up to what is said of all of them.          *)
SummaryOfAll ==
  LET s      == Summarize
      agents == DOMAIN s.agents
  IN /\ TotalOf({<<a, s.agents[a].calls>> : a \in agents}) = s.all.calls
     /\ TotalOf({<<a, s.agents[a].failed>> : a \in agents}) = s.all.failed
     /\ TotalOf({<<a, s.agents[a].krw>> : a \in agents}) = s.all.krw
     /\ TotalOf({<<p, s.all.phases[p]>> : p \in DOMAIN s.all.phases}) = s.all.failed
=============================================================================

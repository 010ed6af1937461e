------------------------------ MODULE MockServer ------------------------------
(* The server that stands in for the AI server in tests of load and of the     *)
(* whole system (loadtest/mock-ai/app.py): it accepts every request, and for     *)
(* each run sends what the AI server would send, one callback after another.     *)
(* Marks in the text of a product fix how its runs end; otherwise a run ends as   *)
(* chance has it.  Requests refused by chance, waits and texts are left out.     *)
EXTENDS Naturals, Sequences, SequencesExt, FiniteSets

CONSTANTS
  Marks,         \* sets of marks a product may carry
  ToolChoices,   \* samples of the tools, as sequences
  MaxRetries,    \* retries of a callback
  MaxMockRuns    \* bound: runs of the product

VARIABLES
  markers,       \* the marks in the text of the product
  known,         \* e2e_markers: those noted when the product was accepted
  attempts,      \* e2e_attempts
  mock_runs      \* runs in the order of their acceptance

mockVars == <<markers, known, attempts, mock_runs>>

Stages == <<"extraction", "selection", "tool_execution", "aggregation", "verification", "finalization">>
QuestionStages == SubSeq(Stages, 1, 2)
ResumeStages   == SubSeq(Stages, 3, Len(Stages))

ResultMarks == <<"allowed", "certification", "recheck">>

-----------------------------------------------------------------------------
\* _result_status: the first of the marks of results, in their order.
ResultStatus(marks) ==
  LET named == SelectSeq(ResultMarks, LAMBDA m : m \in marks)
  IN IF named = <<>> THEN "allowed" ELSE Head(named)

\* Mutant: a failure that can be retried comes again.
FirstOrNot(n) == TRUE

IsFirst(n) == n = 1

\* _e2e_plan: how the n-th accepted run of a marked product ends.
Plan(marks, n) ==
  IF "failed-final" \in marks THEN "failed_final"
  ELSE IF "question" \in marks /\ n = 1 THEN "awaiting_input"
  ELSE IF "failed" \in marks /\ IsFirst(n) THEN "failed"
  ELSE "result"

\* Mutant: the stage before is not completed.
Unfinished(stages, i) == <<>>

StageBefore(stages, i) == IF i = 1 THEN <<>> ELSE <<<<stages[i - 1], "completed", "none">>>>

\* _progress_steps: for each stage the one before ends and it starts; the tools run
\* within theirs.
ProgressSteps(stages, tools) ==
  LET OfTool(tool) == <<<<"tool_execution", "started", tool>>, <<"tool_execution", "completed", tool>>>>
      OfStage(i) == StageBefore(stages, i) \o <<<<stages[i], "started", "none">>>>
                      \o (IF stages[i] = "tool_execution"
                          THEN FlattenSeq([j \in DOMAIN tools |-> OfTool(tools[j])]) ELSE <<>>)
  IN FlattenSeq([i \in DOMAIN stages |-> OfStage(i)])

Event(number, kind, stage, tool) == [number |-> number, kind |-> kind, stage |-> stage, tool |-> tool]
NoEvent == Event(0, "none", "none", "none")

Steps(r)   == ProgressSteps(r.stages, r.tools)
Settled(r) == r.tries = 0
Ended(r)   == Settled(r) /\ r.event.kind = r.terminal

\* base() gives the next number; after the steps comes the last callback.
NextEvent(r) ==
  LET n == r.event.number + 1
  IN IF n > Len(Steps(r)) THEN Event(n, r.terminal, "none", "none")
     ELSE LET step == Steps(r)[n] IN Event(n, step[2], step[1], step[3])

-----------------------------------------------------------------------------
Spawn(resumed, stages, terminal, status) ==
  \E tools \in ToolChoices :
    mock_runs' = Append(mock_runs, [resumed |-> resumed, stages |-> stages, terminal |-> terminal, status |-> status,
                                    tools |-> tools, event |-> NoEvent, tries |-> 0])

StagesFor(terminal) == IF terminal = "awaiting_input" THEN QuestionStages ELSE Stages

\* POST diagnose/content, which may be sent again while a run is on its way.
Diagnose ==
  /\ Len(mock_runs) < MaxMockRuns
  /\ IF markers = {}
     THEN /\ \E terminal \in {"awaiting_input", "failed", "result"} :
               Spawn(FALSE, StagesFor(terminal), terminal, "chance")
          /\ UNCHANGED <<known, attempts>>
     ELSE LET terminal == Plan(markers, attempts + 1)
          IN /\ known' = markers /\ attempts' = attempts + 1
             /\ Spawn(FALSE, StagesFor(terminal), terminal, ResultStatus(markers))
  /\ UNCHANGED markers

\* POST diagnose/resume, for questions that were sent.
Resume ==
  /\ Len(mock_runs) < MaxMockRuns
  /\ \E i \in DOMAIN mock_runs : Ended(mock_runs[i]) /\ mock_runs[i].terminal = "awaiting_input"
  /\ \E terminal \in IF known = {} THEN {"failed", "result"} ELSE {"result"} :
       Spawn(TRUE, ResumeStages, terminal, IF known = {} THEN "chance" ELSE ResultStatus(known))
  /\ UNCHANGED <<markers, known, attempts>>

\* _send: taken or refused for good, the callback is settled; an error of the server,
\* a timeout, a broken connection and a run not yet assigned are tried again.
Send(i) ==
  LET r == mock_runs[i]
      event == IF Settled(r) THEN NextEvent(r) ELSE r.event
  IN /\ ~Ended(r)
     /\ \E again \in BOOLEAN :
          mock_runs' = [mock_runs EXCEPT ![i].event = event,
                                         ![i].tries = IF again /\ r.tries < MaxRetries THEN r.tries + 1 ELSE 0]
     /\ UNCHANGED <<markers, known, attempts>>

Init == /\ markers \in Marks /\ known = {} /\ attempts = 0 /\ mock_runs = <<>>

Next == Diagnose \/ Resume \/ \E i \in DOMAIN mock_runs : Send(i)

-----------------------------------------------------------------------------
(* What the AI server's builder of callbacks makes of the same stages, tools    *)
(* and ending.                                                                *)
Real == INSTANCE EventBuilder WITH Run <- {1}, PublicStages <- Range(Stages)

Reports(r) ==
  LET Report(kind, stage) == [kind |-> kind, run |-> 1, stage |-> stage]
      OfStage(g) == <<Report("StageChanged", g)>>
                      \o (IF g = "tool_execution"
                          THEN [j \in 1..2 * Len(r.tools) |-> Report("ToolProgressed", "none")] ELSE <<>>)
      last == CASE r.terminal = "awaiting_input" -> "AwaitingInput"
                [] r.terminal = "result" -> "Completed"
                [] OTHER -> "Failed"
  IN FlattenSeq([i \in DOMAIN r.stages |-> OfStage(r.stages[i])]) \o <<Report(last, "none")>>

RealCallbacks(r) ==
  FoldLeft(LAMBDA made, e : [builder |-> Real!Remembered(made.builder, e),
                             sent    |-> made.sent \o Real!Built(made.builder, e, TRUE)],
           [builder |-> Real!NewBuilder, sent |-> <<>>], Reports(r)).sent

AsCallback(e) ==
  [run |-> 1, sequence |-> e.number, stage |-> e.stage,
   kind |-> CASE e.tool # "none" -> "tool"
              [] e.kind = "awaiting_input" -> "questions"
              [] e.kind = "failed_final" -> "failed"
              [] OTHER -> e.kind]

(* At every moment of a run, whatever had to be sent again, the callback on its  *)
(* way is the one of that number the AI server would send of the same run, and a  *)
(* run ends with the last of them.                                            *)
SendsWhatTheServerWould ==
  \A i \in DOMAIN mock_runs :
    LET r == mock_runs[i]
        real == RealCallbacks(r)
    IN r.event # NoEvent => /\ r.event.number \in DOMAIN real
                            /\ AsCallback(r.event) = real[r.event.number]
                            /\ Ended(r) <=> Settled(r) /\ r.event.number = Len(real)

(* A marked product comes to the result its marks name, with at most one run      *)
(* before it that asks or fails, unless it is marked to fail for good; no run of   *)
(* answers asks again.                                                        *)
MarksAreKept ==
  LET others == {i \in DOMAIN mock_runs : mock_runs[i].terminal # "result"}
  IN /\ markers # {} => /\ \A i \in DOMAIN mock_runs : mock_runs[i].status = ResultStatus(markers)
                        /\ "failed-final" \notin markers => others \subseteq {1}
                        /\ {"question", "failed"} \cap markers = {} /\ "failed-final" \notin markers => others = {}
     /\ \A i \in DOMAIN mock_runs : mock_runs[i].resumed => mock_runs[i].terminal # "awaiting_input"
=============================================================================

----------------------------- MODULE EventBuilder -----------------------------
(***************************************************************************)
(* From session events to the callbacks sent to the backend                *)
(* (ai/app/callbacks/events.py).  The builder keeps, for each run, the     *)
(* next sequence number and the public stage last announced, and the set   *)
(* of runs whose last callback has been built.  It lives in memory only.   *)
(***************************************************************************)
EXTENDS Naturals, Sequences

CONSTANTS Run,            \* run ids
          PublicStages    \* stages the backend is shown; "pipeline" is internal

ASSUME StagesAssumption == PublicStages \subseteq STRING /\ "none" \notin PublicStages

Endings == {"result", "questions", "failed"}       \* the last callback of a run

EventKinds == {"StageChanged", "ToolProgressed", "Completed", "AwaitingInput", "Failed"}

Progress == [sequence : Nat \ {0}, stage : PublicStages \cup {"none"}]
Zeroed   == [sequence |-> 0, stage |-> "none"]     \* mutant: numbers start at 0
Fresh    == [sequence |-> 1, stage |-> "none"]     \* _RunState()

Builder    == [runs : [Run -> Progress], finished : SUBSET Run]
NewBuilder == [runs |-> [r \in Run |-> Fresh], finished |-> {}]

Callback == [run : Run, sequence : Nat \ {0},
             kind : Endings \cup {"started", "completed", "tool"},
             stage : PublicStages \cup {"none"}]

(* A session event of run r; stage is meaningful for StageChanged only.    *)
Event == [kind : EventKinds, run : Run, stage : PublicStages \cup {"pipeline", "none"}]

Number(r, n, kind, stage) == [run |-> r, sequence |-> n, kind |-> kind, stage |-> stage]

(* _progress: a new public stage completes the previous one and starts.    *)
StartedOnly(r, at, stage) ==                       \* mutant: the previous stage stays open
    << Number(r, at.sequence, "started", stage) >>
StageCallbacks(r, at, stage) ==
    IF at.stage = "none"
    THEN << Number(r, at.sequence, "started", stage) >>
    ELSE << Number(r, at.sequence, "completed", at.stage),
            Number(r, at.sequence + 1, "started", stage) >>

AnnouncesAnyway(b, e) ==                           \* mutant: finished runs are not remembered
    \/ e.kind = "StageChanged"   /\ e.stage \in PublicStages \ {b.runs[e.run].stage}
    \/ e.kind = "ToolProgressed" /\ b.runs[e.run].stage = "tool_execution"
    \/ e.kind \in {"Completed", "AwaitingInput", "Failed"}

Announces(b, e) ==
    /\ e.run \notin b.finished
    /\ \/ e.kind = "StageChanged"   /\ e.stage \in PublicStages \ {b.runs[e.run].stage}
       \/ e.kind = "ToolProgressed" /\ b.runs[e.run].stage = "tool_execution"
       \/ e.kind \in {"Completed", "AwaitingInput", "Failed"}

(* The last callback of the run: a result whose conversion to the public   *)
(* assessment fails is replaced by a failure, so that a last one is sent.  *)
Ending(e, convertible) ==
    CASE e.kind = "Completed"     -> IF convertible THEN "result" ELSE "failed"
      [] e.kind = "AwaitingInput" -> "questions"
      [] OTHER                    -> "failed"

LastIfConvertible(e, at, convertible) ==           \* mutant: no failure stands in for the result
    IF convertible THEN << Number(e.run, at.sequence, Ending(e, TRUE), "none") >> ELSE << >>
Last(e, at, convertible) == << Number(e.run, at.sequence, Ending(e, convertible), "none") >>

(* build: the callbacks of an event, in order.                             *)
Built(b, e, convertible) ==
    LET at == b.runs[e.run] IN
    IF ~Announces(b, e) THEN << >>
    ELSE CASE e.kind = "StageChanged"   -> StageCallbacks(e.run, at, e.stage)
           [] e.kind = "ToolProgressed" -> << Number(e.run, at.sequence, "tool", at.stage) >>
           [] OTHER -> Last(e, at, convertible)

(* build: what the builder remembers afterwards.                           *)
TwoNumbers(e, at) == 2                             \* mutant: every stage is taken to complete one
NumbersUsed(e, at) ==
    IF e.kind = "StageChanged" THEN Len(StageCallbacks(e.run, at, e.stage)) ELSE 1

Remembered(b, e) ==
    LET at == b.runs[e.run] IN
    IF ~Announces(b, e) THEN b
    ELSE IF e.kind \in {"StageChanged", "ToolProgressed"}
    THEN [b EXCEPT !.runs[e.run] =
            [sequence |-> at.sequence + NumbersUsed(e, at),
             stage    |-> IF e.kind = "StageChanged" THEN e.stage ELSE at.stage]]
    ELSE [b EXCEPT !.runs[e.run] = Fresh, !.finished = @ \cup {e.run}]

=============================================================================

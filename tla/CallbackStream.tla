---------------------------- MODULE CallbackStream ----------------------------
(***************************************************************************)
(* The callbacks put in the outbox (ai/app/callbacks/__init__.py): the     *)
(* listener turns a session event into callbacks and puts them in the      *)
(* outbox under one lock.  Events of any runs arrive in any order, since   *)
(* they are announced after the session was stored and outside its lock:   *)
(* a stage may be reported after the failure of its run.                   *)
(***************************************************************************)
EXTENDS EventBuilder

CONSTANT MaxCallbacks     \* bound: callbacks of a behaviour

ASSUME MaxCallbacksAssumption == MaxCallbacks \in Nat

VARIABLES builder,        \* the EventBuilder
          sent            \* the callbacks put in the outbox, in order

vars == <<builder, sent>>

Init == builder = NewBuilder /\ sent = << >>

(* A conversion to the public assessment matters for a result only.        *)
Deliver(e, convertible) ==
    /\ Len(sent) < MaxCallbacks
    /\ builder' = Remembered(builder, e)
    /\ sent' = sent \o Built(builder, e, convertible)

Next == \E e \in Event, convertible \in BOOLEAN : Deliver(e, convertible)

Spec == Init /\ [][Next]_vars

-----------------------------------------------------------------------------
(* The builder and the callbacks have the shape the code gives them.       *)
TypeOK == builder \in Builder /\ sent \in Seq(Callback)

(* After the questions, the result or the failure of a run nothing more is *)
(* sent for it, however late its other events are announced                *)
(* (callbacks/events.py, build; schemas/callback.py:4).                    *)
EndingIsLast ==
    \A i, j \in 1 .. Len(sent) :
      i < j /\ sent[i].run = sent[j].run => sent[i].kind \notin Endings

(* The callbacks of a run enter the outbox in the order of their numbers,  *)
(* although several threads make them (callbacks/__init__.py, deliver).    *)
NumbersIncrease ==
    \A i, j \in 1 .. Len(sent) :
      i < j /\ sent[i].run = sent[j].run => sent[i].sequence < sent[j].sequence

(* No number of a run is skipped, so that a receiver can tell a lost       *)
(* callback: all smaller numbers have been sent before (_base).            *)
NumbersWithoutGap ==
    \A j \in 1 .. Len(sent) : \A n \in 1 .. sent[j].sequence - 1 :
      \E i \in 1 .. j : sent[i].run = sent[j].run /\ sent[i].sequence = n

(* The callbacks before the j-th of the same run that open a stage.        *)
Opened(j) == {i \in 1 .. j - 1 : sent[i].run = sent[j].run /\ sent[i].kind = "started"}

(* The stage that is open when the j-th callback is sent.                  *)
OpenStage(j) ==
    IF Opened(j) = {} THEN "none"
    ELSE sent[CHOOSE i \in Opened(j) : \A k \in Opened(j) : k <= i].stage

(* The stages of a run take turns: one is completed only while it is the   *)
(* open one, the next is started right after that, and the progress of a   *)
(* tool is shown inside the stage that executes tools (_progress, _tool).  *)
StagesInTurn ==
    \A j \in 1 .. Len(sent) :
      CASE sent[j].kind = "completed" -> sent[j].stage = OpenStage(j)
        [] sent[j].kind = "tool"      -> OpenStage(j) = "tool_execution"
        [] sent[j].kind = "started"   ->
             OpenStage(j) # "none" =>
               /\ sent[j].stage # OpenStage(j)
               /\ sent[j - 1].run = sent[j].run /\ sent[j - 1].kind = "completed"
               /\ sent[j - 1].stage = OpenStage(j)
        [] OTHER -> TRUE

=============================================================================

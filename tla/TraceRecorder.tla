---------------------------- MODULE TraceRecorder ----------------------------
(* The trace of one run of a diagnosis: steps within steps, calls of models,   *)
(* and where an exception came from (observability/trace.py).  An exception is *)
(* the sequence of itself and of what it was raised from.  The numbers that    *)
(* stand for ids are counted on from earlier runs (IdNext).                    *)
EXTENDS Integers, Sequences, SequencesExt, FiniteSetsExt

CONSTANTS
  None,
  MaxSteps, MaxCalls, MaxExceptions,  \* bounds: steps, calls and exceptions of a run
  Uuids,      \* ids that are different in each run
  MaxNumber   \* bound: numbers an earlier run may have used are below

TraceAssumption ==
  /\ None \notin Nat /\ MaxNumber \in Nat
  /\ None \notin [exc : Nat, step : Nat, path : Seq(Nat), call : Nat \cup {None}]
  /\ None \notin [step : Nat, path : Seq(Nat), call : Nat \cup {None}]

VARIABLES
  opened,     \* the steps that are open, the innermost last
  trace,      \* the steps, each [calls, error]
  info,       \* calls outside of all steps
  calls,      \* the number of calls
  flying,     \* the exception on its way, <<>> if there is none
  raised,     \* the number of exceptions
  failure,    \* the last exception that left a step, and where
  finish,
  origin,     \* for the innermost cause of an exception, where it really began
  aliases, counter

stepVars == <<opened, trace, info, calls, flying, raised, failure, finish, origin>>
idVars   == <<aliases, counter>>
traceVars == <<stepVars, idVars>>

Number(n) == <<"number", n>>
Uuid(u)   == <<"uuid", u>>

InnermostCause(exc) == Last(exc)

Init ==
  /\ opened = <<>> /\ trace = <<>> /\ info = <<>> /\ calls = 0
  /\ flying = <<>> /\ raised = 0 /\ failure = None /\ finish = None
  /\ origin = <<>>
  /\ aliases = <<>> /\ counter = 0

-----------------------------------------------------------------------------
(* step, and a call of a model within it.                                     *)
Running == flying = <<>> /\ finish = None

OpenStep ==
  /\ Running /\ Len(trace) < MaxSteps
  /\ trace' = Append(trace, [calls |-> <<>>, error |-> None])
  /\ opened' = Append(opened, Len(trace) + 1)
  /\ UNCHANGED <<info, calls, flying, raised, failure, finish, origin, idVars>>

(* begin_call to end_call: it goes to the innermost step.  A failure is raised *)
(* as an error of the agent from its cause.                                   *)
EndCall(fails) ==
  /\ Running /\ calls < MaxCalls
  /\ LET call == [id |-> calls + 1, failed |-> fails]
     IN IF opened = <<>>
        THEN info' = Append(info, call) /\ UNCHANGED trace
        ELSE trace' = [trace EXCEPT ![Last(opened)].calls = Append(@, call)] /\ UNCHANGED info
  /\ calls' = calls + 1
  /\ IF fails
     THEN /\ raised < MaxExceptions - 1
          /\ flying' = <<raised + 2, raised + 1>>
          /\ raised' = raised + 2
          /\ origin' = origin \o <<[step |-> None, call |-> calls + 1], [step |-> None, call |-> None]>>
     ELSE UNCHANGED <<flying, raised, origin>>
  /\ UNCHANGED <<opened, failure, finish, idVars>>

(* Something else raises, also in the place of an exception that was caught.   *)
Raise ==
  /\ finish = None /\ raised < MaxExceptions
  /\ flying' = <<raised + 1>>
  /\ raised' = raised + 1
  /\ origin' = Append(origin, [step |-> None, call |-> None])
  /\ UNCHANGED <<opened, trace, info, calls, failure, finish, idVars>>

RaiseFrom ==
  /\ finish = None /\ flying # <<>> /\ raised < MaxExceptions
  /\ flying' = <<raised + 1>> \o flying
  /\ raised' = raised + 1
  /\ origin' = Append(origin, [step |-> None, call |-> None])
  /\ UNCHANGED <<opened, trace, info, calls, failure, finish, idVars>>

Catch ==
  /\ finish = None /\ flying # <<>>
  /\ flying' = <<>>
  /\ UNCHANGED <<opened, trace, info, calls, raised, failure, finish, origin, idVars>>

-----------------------------------------------------------------------------
(* Mutant: an exception that was raised from another is another failure.       *)
OnlyItself(inner, exc) == inner = Head(exc)

(* _in_chain, _step_error, failure_at.                                        *)
InChain(inner, exc) == inner \in Range(exc)

Known == failure # None /\ InChain(failure.exc, flying)

LastFailed(made) == IF made # <<>> /\ Last(made).failed THEN Last(made).id ELSE None

StepError(node) ==
  [exc |-> flying,
   from |-> IF Known THEN failure.step ELSE None,
   call |-> IF Known THEN None ELSE LastFailed(trace[node].calls)]

FailureAt ==
  IF Known THEN [step |-> failure.step, path |-> failure.path, call |-> failure.call]
  ELSE IF LastFailed(info) # None THEN [step |-> None, path |-> <<>>, call |-> LastFailed(info)]
  ELSE None

LeaveStep ==
  /\ finish = None /\ opened # <<>>
  /\ LET node == Last(opened)
     IN IF flying = <<>>
        THEN UNCHANGED <<trace, failure, origin>>
        ELSE /\ trace' = [trace EXCEPT ![node].error = StepError(node)]
             /\ failure' = IF Known THEN failure
                           ELSE [exc |-> Head(flying), step |-> node, path |-> opened, call |-> StepError(node).call]
             /\ origin' = IF origin[InnermostCause(flying)].step # None THEN origin
                          ELSE [origin EXCEPT ![InnermostCause(flying)].step = node]
  /\ opened' = Front(opened)
  /\ UNCHANGED <<info, calls, flying, raised, finish, idVars>>

(* end: by the job, which caught the exception, or as it leaves trace_run.     *)
End ==
  /\ finish = None /\ opened = <<>>
  /\ finish' = IF flying = <<>> THEN [exc |-> <<>>, at |-> None] ELSE [exc |-> flying, at |-> FailureAt]
  /\ UNCHANGED <<opened, trace, info, calls, flying, raised, failure, origin, idVars>>

StepNext ==
  \/ OpenStep \/ EndCall(TRUE) \/ EndCall(FALSE) \/ Raise \/ RaiseFrom \/ Catch \/ LeaveStep \/ End

-----------------------------------------------------------------------------
(* Mutant: the numbers of earlier runs are kept, and counting starts over.     *)
StartsOver(earlier) ==
  /\ aliases = <<>>
  /\ aliases' = [a \in {Number(n) : n \in earlier} |-> a]
  /\ UNCHANGED <<counter, stepVars>>

(* continue_ids, first thing in a run: the numbers of earlier runs stand for   *)
(* themselves and are counted on from.                                        *)
ContinueIds(earlier) ==
  /\ aliases = <<>>
  /\ aliases' = [a \in {Number(n) : n \in earlier} |-> a]
  /\ counter' = Max(earlier)
  /\ UNCHANGED stepVars

(* alias: a value has one number, whether it is new or of an earlier run.       *)
Alias(value) ==
  /\ value \notin DOMAIN aliases
  /\ aliases' = [a \in DOMAIN aliases \cup {value} |-> IF a = value THEN Number(counter + 1) ELSE aliases[a]]
  /\ counter' = counter + 1
  /\ UNCHANGED stepVars

IdNext ==
  \/ \E earlier \in (SUBSET (1..MaxNumber)) \ {{}} : ContinueIds(earlier)
  \/ \E u \in Uuids : Alias(Uuid(u))

Next == StepNext \/ IdNext

Spec == Init /\ [][Next]_traceVars

-----------------------------------------------------------------------------
(* The innermost step an exception left tells it in full and names the call    *)
(* that failed, the steps around it point there, and so does the end of the    *)
(* run, however it was wrapped and whatever was caught before.                 *)
TraceBlamesTheOrigin ==
  /\ \A i \in DOMAIN trace : trace[i].error # None =>
       LET e     == trace[i].error
           began == origin[InnermostCause(e.exc)]
       IN /\ (e.from = None) <=> (began.step = i)
          /\ e.from # None => e.from = began.step
          /\ e.from = None /\ began.call # None => e.call = began.call
  /\ finish # None /\ finish.exc # <<>> =>
       LET began == origin[InnermostCause(finish.exc)]
       IN /\ began.step # None => finish.at # None /\ finish.at.step = began.step
                                   /\ Last(finish.at.path) = began.step
          /\ began.step = None /\ finish.at # None => finish.at.step = None

(* Two ids never share a number, those of earlier runs included.               *)
NumbersTellIdsApart ==
  \A a, b \in DOMAIN aliases : aliases[a] = aliases[b] => a = b
=============================================================================

------------------------- MODULE CallbackStreamProofs -------------------------
(***************************************************************************)
(* Whatever events arrive, in whatever order, the callbacks of a run are   *)
(* numbered without a gap and end with its result, questions or failure,   *)
(* for any number of runs, stages and callbacks.                           *)
(*                                                                         *)
(* The invariant speaks about a sequence s of callbacks, the next number   *)
(* of each run and the finished runs, so that the two callbacks of a stage *)
(* change can be appended one after the other.                             *)
(***************************************************************************)
EXTENDS CallbackStream, SequenceTheorems, TLAPS

(* The three properties of CallbackStream, for any sequence of callbacks.  *)
EndsOnce(s) == \A i, j \in 1 .. Len(s) :
                 i < j /\ s[i].run = s[j].run => s[i].kind \notin Endings
Increasing(s) == \A i, j \in 1 .. Len(s) :
                   i < j /\ s[i].run = s[j].run => s[i].sequence < s[j].sequence
Gapless(s) == \A j \in 1 .. Len(s) : \A n \in 1 .. s[j].sequence - 1 :
                \E i \in 1 .. j : s[i].run = s[j].run /\ s[i].sequence = n

(* What is known of a callback sent: its run is finished, or it is no      *)
(* ending and its number is below the next one of its run ...              *)
Past(s, next, finished) ==
    \A i \in 1 .. Len(s) : s[i].run \notin finished =>
      s[i].sequence < next[s[i].run] /\ s[i].kind \notin Endings

(* ... and all the numbers below the next one have been used.              *)
Used(s, next, finished) ==
    \A r \in Run \ finished : \A n \in 1 .. next[r] - 1 :
      \E i \in 1 .. Len(s) : s[i].run = r /\ s[i].sequence = n

Sound(s, next, finished) ==
    /\ s \in Seq(Callback) /\ next \in [Run -> Nat \ {0}] /\ finished \subseteq Run
    /\ EndsOnce(s) /\ Increasing(s) /\ Gapless(s)
    /\ Past(s, next, finished) /\ Used(s, next, finished)

NextNumber(b) == [r \in Run |-> b.runs[r].sequence]

Inv == builder \in Builder /\ Sound(sent, NextNumber(builder), builder.finished)

-----------------------------------------------------------------------------
(* What Append does to a sequence of callbacks.                            *)
LEMMA Appended ==
    ASSUME NEW s \in Seq(Callback), NEW c \in Callback
    PROVE  /\ Append(s, c) \in Seq(Callback) /\ Len(s) \in Nat
           /\ Len(Append(s, c)) = Len(s) + 1
           /\ \A i \in 1 .. Len(s) : Append(s, c)[i] = s[i] /\ s[i] \in Callback
           /\ Append(s, c)[Len(s) + 1] = c
           /\ c.run \in Run /\ c.sequence \in Nat \ {0}
<1>1. /\ Append(s, c) \in Seq(Callback) /\ Len(Append(s, c)) = Len(s) + 1
      /\ \A i \in 1 .. Len(s) : Append(s, c)[i] = s[i]
      /\ Append(s, c)[Len(s) + 1] = c
  BY AppendProperties
<1>2. Len(s) \in Nat /\ \A i \in 1 .. Len(s) : s[i] \in Callback
  BY LenProperties, ElementOfSeq
<1>3. c.run \in Run /\ c.sequence \in Nat \ {0}
  BY DEF Callback
<1> QED BY <1>1, <1>2, <1>3

(* A callback with the next number of an unfinished run may be appended.   *)
LEMMA AppendNumbered ==
    ASSUME NEW s, NEW next, NEW finished, Sound(s, next, finished),
           NEW c \in Callback, c.run \notin finished, c.sequence = next[c.run]
    PROVE  /\ Append(s, c) \in Seq(Callback)
           /\ EndsOnce(Append(s, c)) /\ Increasing(Append(s, c)) /\ Gapless(Append(s, c))
<1> DEFINE t == Append(s, c)
<1>0. /\ s \in Seq(Callback) /\ Len(s) \in Nat /\ t \in Seq(Callback) /\ Len(t) = Len(s) + 1
      /\ \A i \in 1 .. Len(s) : t[i] = s[i] /\ s[i] \in Callback
      /\ t[Len(s) + 1] = c
      /\ c.run \in Run /\ c.sequence \in Nat \ {0}
  BY Appended DEF Sound
<1>1. EndsOnce(t)
  BY <1>0 DEF EndsOnce, Sound, Past
<1>2. Increasing(t)
  <2> SUFFICES ASSUME NEW i \in 1 .. Len(t), NEW j \in 1 .. Len(t),
                      i < j, t[i].run = t[j].run
               PROVE  t[i].sequence < t[j].sequence
    BY DEF Increasing
  <2>1. i \in 1 .. Len(s)
    BY <1>0
  <2>2. CASE j \in 1 .. Len(s)
    BY <1>0, <2>1, <2>2 DEF Increasing, Sound
  <2>3. CASE j = Len(s) + 1
    BY <1>0, <2>1, <2>3 DEF Past, Sound
  <2> QED BY <1>0, <2>2, <2>3
<1>3. Gapless(t)
  <2> SUFFICES ASSUME NEW j \in 1 .. Len(t), NEW n \in 1 .. t[j].sequence - 1
               PROVE  \E i \in 1 .. j : t[i].run = t[j].run /\ t[i].sequence = n
    BY DEF Gapless
  <2>1. CASE j \in 1 .. Len(s)
    <3>1. PICK i \in 1 .. j : s[i].run = s[j].run /\ s[i].sequence = n
      BY <1>0, <2>1 DEF Gapless, Sound
    <3>2. i \in 1 .. Len(s)
      BY <1>0, <2>1
    <3> QED BY <1>0, <2>1, <3>1, <3>2
  <2>2. CASE j = Len(s) + 1
    <3>1. n \in 1 .. next[c.run] - 1 /\ c.run \in Run \ finished
      BY <1>0, <2>2
    <3>2. PICK i \in 1 .. Len(s) : s[i].run = c.run /\ s[i].sequence = n
      BY <3>1 DEF Used, Sound
    <3> QED BY <1>0, <2>2, <3>2
  <2> QED BY <1>0, <2>1, <2>2
<1> QED BY <1>0, <1>1, <1>2, <1>3

(* A callback about the progress of a run uses up one number.              *)
LEMMA AppendProgress ==
    ASSUME NEW s, NEW next, NEW finished, Sound(s, next, finished),
           NEW c \in Callback, c.run \notin finished, c.sequence = next[c.run],
           c.kind \notin Endings
    PROVE  Sound(Append(s, c), [next EXCEPT ![c.run] = @ + 1], finished)
<1> DEFINE t == Append(s, c)
           after == [next EXCEPT ![c.run] = @ + 1]
<1>0. /\ s \in Seq(Callback) /\ Len(s) \in Nat /\ Len(t) = Len(s) + 1
      /\ \A i \in 1 .. Len(s) : t[i] = s[i] /\ s[i] \in Callback
      /\ t[Len(s) + 1] = c
      /\ c.run \in Run /\ c.sequence \in Nat \ {0}
      /\ next \in [Run -> Nat \ {0}] /\ after \in [Run -> Nat \ {0}]
  BY Appended DEF Sound
<1>1. t \in Seq(Callback) /\ EndsOnce(t) /\ Increasing(t) /\ Gapless(t)
  BY AppendNumbered
<1>2. Past(t, after, finished)
  <2> SUFFICES ASSUME NEW i \in 1 .. Len(t), t[i].run \notin finished
               PROVE  t[i].sequence < after[t[i].run] /\ t[i].kind \notin Endings
    BY DEF Past
  <2>1. CASE i \in 1 .. Len(s)
    <3>1. s[i].sequence < next[s[i].run] /\ s[i].kind \notin Endings
      BY <1>0, <2>1 DEF Past, Sound
    <3>2. s[i].run \in Run /\ s[i].sequence \in Nat
      BY <1>0, <2>1 DEF Callback
    <3> QED BY <1>0, <2>1, <3>1, <3>2
  <2>2. CASE i = Len(s) + 1
    BY <1>0, <2>2
  <2> QED BY <1>0, <2>1, <2>2
<1>3. Used(t, after, finished)
  <2> SUFFICES ASSUME NEW r \in Run \ finished, NEW n \in 1 .. after[r] - 1
               PROVE  \E i \in 1 .. Len(t) : t[i].run = r /\ t[i].sequence = n
    BY DEF Used
  <2>1. CASE r = c.run /\ n = c.sequence
    BY <1>0, <2>1
  <2>2. CASE ~(r = c.run /\ n = c.sequence)
    <3>1. n \in 1 .. next[r] - 1
      BY <1>0, <2>2
    <3>2. PICK i \in 1 .. Len(s) : s[i].run = r /\ s[i].sequence = n
      BY <3>1 DEF Used, Sound
    <3> QED BY <1>0, <3>2
  <2> QED BY <2>1, <2>2
<1> QED BY <1>0, <1>1, <1>2, <1>3 DEF Sound

(* The last callback of a run finishes it.                                 *)
LEMMA AppendEnding ==
    ASSUME NEW s, NEW next, NEW finished, Sound(s, next, finished),
           NEW c \in Callback, c.run \notin finished, c.sequence = next[c.run],
           NEW after \in [Run -> Nat \ {0}],
           \A r \in Run \ {c.run} : after[r] = next[r]
    PROVE  Sound(Append(s, c), after, finished \cup {c.run})
<1> DEFINE t == Append(s, c)
           over == finished \cup {c.run}
<1>0. /\ s \in Seq(Callback) /\ Len(s) \in Nat /\ Len(t) = Len(s) + 1
      /\ \A i \in 1 .. Len(s) : t[i] = s[i] /\ s[i] \in Callback
      /\ t[Len(s) + 1] = c
      /\ c.run \in Run /\ finished \subseteq Run
  BY Appended DEF Sound
<1>1. t \in Seq(Callback) /\ EndsOnce(t) /\ Increasing(t) /\ Gapless(t)
  BY AppendNumbered
<1>2. Past(t, after, over)
  <2> SUFFICES ASSUME NEW i \in 1 .. Len(t), t[i].run \notin over
               PROVE  t[i].sequence < after[t[i].run] /\ t[i].kind \notin Endings
    BY DEF Past
  <2>1. i \in 1 .. Len(s)
    BY <1>0
  <2>2. s[i].run \in Run \ {c.run}
    BY <1>0, <2>1 DEF Callback
  <2> QED BY <1>0, <2>1, <2>2 DEF Past, Sound
<1>3. Used(t, after, over)
  <2> SUFFICES ASSUME NEW r \in Run \ over, NEW n \in 1 .. after[r] - 1
               PROVE  \E i \in 1 .. Len(t) : t[i].run = r /\ t[i].sequence = n
    BY DEF Used
  <2>1. r \in Run \ finished /\ n \in 1 .. next[r] - 1
    OBVIOUS
  <2>2. PICK i \in 1 .. Len(s) : s[i].run = r /\ s[i].sequence = n
    BY <2>1 DEF Used, Sound
  <2> QED BY <1>0, <2>2
<1> QED BY <1>0, <1>1, <1>2, <1>3 DEF Sound

(* The builder after the progress of one run has changed.                  *)
LEMMA ProgressChanged ==
    ASSUME NEW b \in Builder, NEW r \in Run, NEW x \in Progress
    PROVE  /\ [b EXCEPT !.runs[r] = x] \in Builder
           /\ [b EXCEPT !.runs[r] = x].finished = b.finished
           /\ NextNumber([b EXCEPT !.runs[r] = x]) = [NextNumber(b) EXCEPT ![r] = x.sequence]
<1> DEFINE c == [b EXCEPT !.runs[r] = x]
<1>1. b = [runs |-> b.runs, finished |-> b.finished] /\ b.runs \in [Run -> Progress]
  BY DEF Builder
<1>2. c = [runs |-> [b.runs EXCEPT ![r] = x], finished |-> b.finished]
  BY <1>1
<1>3. c \in Builder /\ c.finished = b.finished /\ c.runs = [b.runs EXCEPT ![r] = x]
  BY <1>1, <1>2 DEF Builder
<1>4. NextNumber(c) = [NextNumber(b) EXCEPT ![r] = x.sequence]
  BY <1>1, <1>3 DEF NextNumber
<1> QED BY <1>3, <1>4

-----------------------------------------------------------------------------
(* The callbacks an event is turned into are appended one by one.          *)
LEMMA DeliverPreservesInv ==
    ASSUME Inv, NEW e \in Event, NEW convertible \in BOOLEAN, Deliver(e, convertible)
    PROVE  Inv'
<1> DEFINE r == e.run
           at == builder.runs[r]
           next == NextNumber(builder)
           new == Built(builder, e, convertible)
           b == Remembered(builder, e)
<1>a. builder \in Builder /\ r \in Run
  BY DEF Inv, Event
<1>0. /\ r \in Run /\ at \in Progress /\ builder \in Builder
      /\ at.sequence \in Nat \ {0} /\ at.stage \in PublicStages \cup {"none"}
      /\ next \in [Run -> Nat \ {0}] /\ next[r] = at.sequence
      /\ Sound(sent, next, builder.finished) /\ sent \in Seq(Callback)
      /\ builder' = b /\ sent' = sent \o new
  BY DEF Inv, Deliver, Event, Builder, Progress, NextNumber, Sound
<1>1. CASE ~Announces(builder, e)
  <2>1. new = << >> /\ b = builder
    BY <1>1 DEF Built, Remembered
  <2>2. sent \o << >> = sent
    BY <1>0, ConcatEmptySeq
  <2> QED BY <1>0, <2>1, <2>2 DEF Inv
<1>2. CASE Announces(builder, e) /\ e.kind = "ToolProgressed"
  <2> DEFINE c == Number(r, at.sequence, "tool", at.stage)
  <2>1. new = << c >> /\ c \in Callback /\ c.run = r /\ c.sequence = next[r] /\ c.kind \notin Endings
    BY <1>0, <1>2 DEF Built, Number, Callback, Endings
  <2>2. b \in Builder /\ b.finished = builder.finished /\ NextNumber(b) = [next EXCEPT ![r] = @ + 1]
    <3> DEFINE x == [sequence |-> at.sequence + 1, stage |-> at.stage]
    <3>1. b = [builder EXCEPT !.runs[r] = x]
      BY <1>2 DEF Remembered, NumbersUsed
    <3>2. x \in Progress /\ x.sequence = next[r] + 1
      BY <1>0 DEF Progress
    <3>3. /\ b \in Builder /\ b.finished = builder.finished
          /\ NextNumber(b) = [NextNumber(builder) EXCEPT ![r] = x.sequence]
      <4> HIDE DEF x, b, r
      <4> QED BY <1>a, <3>1, <3>2, ProgressChanged
    <3> HIDE DEF x, b
    <3> QED BY <3>2, <3>3
  <2>3. sent \o << c >> = Append(sent, c)
    BY <1>0, <2>1, AppendIsConcat
  <2>4. r \notin builder.finished
    BY <1>2 DEF Announces
  <2>5. Sound(Append(sent, c), [next EXCEPT ![r] = @ + 1], builder.finished)
    BY <1>0, <2>1, <2>4, AppendProgress
  <2> QED BY <1>0, <2>1, <2>2, <2>3, <2>5 DEF Inv
<1>3. CASE Announces(builder, e) /\ e.kind = "StageChanged"
  <2> DEFINE opening(n) == Number(r, n, "started", e.stage)
             closing == Number(r, at.sequence, "completed", at.stage)
  <2>0. r \notin builder.finished /\ e.stage \in PublicStages
    BY <1>3 DEF Announces
  <2>1. CASE at.stage = "none"
    <3> DEFINE c == opening(at.sequence)
    <3>1. new = << c >> /\ c \in Callback /\ c.run = r /\ c.sequence = next[r] /\ c.kind \notin Endings
      BY <1>0, <1>3, <2>0, <2>1 DEF Built, StageCallbacks, Number, Callback, Endings
    <3>2. b \in Builder /\ b.finished = builder.finished /\ NextNumber(b) = [next EXCEPT ![r] = @ + 1]
      <4> DEFINE x == [sequence |-> at.sequence + 1, stage |-> e.stage]
      <4>1. b = [builder EXCEPT !.runs[r] = x]
        BY <1>3, <2>1 DEF Remembered, NumbersUsed, StageCallbacks
      <4>2. x \in Progress /\ x.sequence = next[r] + 1
        BY <1>0, <2>0 DEF Progress
      <4>3. /\ b \in Builder /\ b.finished = builder.finished
            /\ NextNumber(b) = [NextNumber(builder) EXCEPT ![r] = x.sequence]
        <5> HIDE DEF x, b, r
        <5> QED BY <1>a, <4>1, <4>2, ProgressChanged
      <4> HIDE DEF x, b
      <4> QED BY <4>2, <4>3
    <3>3. sent \o << c >> = Append(sent, c)
      BY <1>0, <3>1, AppendIsConcat
    <3>4. Sound(Append(sent, c), [next EXCEPT ![r] = @ + 1], builder.finished)
      BY <1>0, <2>0, <3>1, AppendProgress
    <3> QED BY <1>0, <3>1, <3>2, <3>3, <3>4 DEF Inv
  <2>2. CASE at.stage # "none"
    <3> DEFINE c == opening(at.sequence + 1)
               mid == [next EXCEPT ![r] = @ + 1]
               last == [mid EXCEPT ![r] = @ + 1]
    <3>1. /\ new = << closing, c >> /\ closing \in Callback /\ c \in Callback
          /\ closing.run = r /\ closing.sequence = next[r] /\ closing.kind \notin Endings
          /\ c.run = r /\ c.sequence = mid[r] /\ c.kind \notin Endings
      BY <1>0, <1>3, <2>0, <2>2 DEF Built, StageCallbacks, Number, Callback, Endings
    <3>2. b \in Builder /\ b.finished = builder.finished /\ NextNumber(b) = [next EXCEPT ![r] = @ + 2]
      <4> DEFINE x == [sequence |-> at.sequence + 2, stage |-> e.stage]
      <4>1. b = [builder EXCEPT !.runs[r] = x]
        BY <1>3, <2>2 DEF Remembered, NumbersUsed, StageCallbacks
      <4>2. x \in Progress /\ x.sequence = next[r] + 2
        BY <1>0, <2>0 DEF Progress
      <4>3. /\ b \in Builder /\ b.finished = builder.finished
            /\ NextNumber(b) = [NextNumber(builder) EXCEPT ![r] = x.sequence]
        <5> HIDE DEF x, b, r
        <5> QED BY <1>a, <4>1, <4>2, ProgressChanged
      <4> HIDE DEF x, b
      <4> QED BY <4>2, <4>3
    <3>3. last = [next EXCEPT ![r] = @ + 2]
      BY <1>0
    <3>4. sent \o << closing, c >> = Append(Append(sent, closing), c)
      BY <1>0, <3>1
    <3>5. Sound(Append(sent, closing), mid, builder.finished)
      BY <1>0, <2>0, <3>1, AppendProgress
    <3>6. Sound(Append(Append(sent, closing), c), last, builder.finished)
      BY <1>0, <2>0, <3>1, <3>5, AppendProgress
    <3> HIDE DEF last
    <3> QED BY <1>0, <3>1, <3>2, <3>3, <3>4, <3>6 DEF Inv
  <2> QED BY <2>1, <2>2
<1>4. CASE Announces(builder, e) /\ e.kind \in {"Completed", "AwaitingInput", "Failed"}
  <2> DEFINE c == Number(r, at.sequence, Ending(e, convertible), "none")
  <2>1. new = << c >> /\ c \in Callback /\ c.run = r /\ c.sequence = next[r]
    BY <1>0, <1>4 DEF Built, Last, Number, Callback, Ending, Endings
  <2>2. /\ b \in Builder /\ b.finished = builder.finished \cup {r}
        /\ NextNumber(b) \in [Run -> Nat \ {0}]
        /\ \A q \in Run \ {r} : NextNumber(b)[q] = next[q]
    <3> DEFINE b1 == [builder EXCEPT !.runs[r] = Fresh]
    <3>1. b1 \in Builder /\ b1.finished = builder.finished
          /\ NextNumber(b1) = [next EXCEPT ![r] = Fresh.sequence]
      <4>1. Fresh \in Progress
        BY DEF Fresh, Progress
      <4> HIDE DEF r
      <4> QED BY <1>a, <4>1, ProgressChanged
    <3>2. b = [b1 EXCEPT !.finished = @ \cup {r}]
      BY <1>0, <1>4 DEF Remembered, Builder
    <3> HIDE DEF b1
    <3>3. b = [runs |-> b1.runs, finished |-> b1.finished \cup {r}]
      BY <3>1, <3>2 DEF Builder
    <3>4. b \in Builder /\ b.finished = builder.finished \cup {r} /\ b.runs = b1.runs
      BY <1>0, <3>1, <3>3 DEF Builder
    <3>5. NextNumber(b) = [next EXCEPT ![r] = 1]
      BY <3>1, <3>4 DEF NextNumber, Fresh
    <3> QED BY <1>0, <3>4, <3>5
  <2>3. sent \o << c >> = Append(sent, c)
    BY <1>0, <2>1, AppendIsConcat
  <2>4. r \notin builder.finished
    BY <1>4 DEF Announces
  <2>5. Sound(Append(sent, c), NextNumber(b), builder.finished \cup {r})
    <3> HIDE DEF c, b, r, next
    <3> QED BY <1>0, <2>1, <2>2, <2>4, AppendEnding
  <2> QED BY <1>0, <2>1, <2>2, <2>3, <2>5 DEF Inv
<1> QED BY <1>1, <1>2, <1>3, <1>4 DEF Event, EventKinds

LEMMA InitInv == Init => Inv
<1> SUFFICES ASSUME Init PROVE Inv
  OBVIOUS
<1>1. /\ builder \in Builder /\ builder.finished = {}
      /\ NextNumber(builder) = [r \in Run |-> 1]
  BY DEF Init, NewBuilder, Builder, Fresh, Progress, NextNumber
<1>2. sent \in Seq(Callback) /\ Len(sent) = 0
  BY DEF Init
<1> QED BY <1>1, <1>2 DEF Inv, Sound, EndsOnce, Increasing, Gapless, Past, Used

LEMMA InvHolds == Spec => []Inv
<1>1. Inv /\ [Next]_vars => Inv'
  <2> SUFFICES ASSUME Inv, [Next]_vars PROVE Inv'
    OBVIOUS
  <2>1. CASE Next
    BY <2>1, DeliverPreservesInv DEF Next
  <2>2. CASE UNCHANGED vars
    BY <2>2 DEF vars, Inv
  <2> QED BY <2>1, <2>2
<1> QED BY <1>1, InitInv, PTL DEF Spec

-----------------------------------------------------------------------------
(* The builder and the callbacks keep their types.                         *)
THEOREM TypeCorrect == Spec => []TypeOK
<1>1. Inv => TypeOK
  BY DEF Inv, Sound, TypeOK
<1> QED BY <1>1, InvHolds, PTL

(* Questions, a result or a failure are the last callback of their run     *)
(* (callbacks/events.py, build).                                           *)
THEOREM NothingAfterTheEnding == Spec => []EndingIsLast
<1>1. Inv => EndingIsLast
  BY DEF Inv, Sound, EndsOnce, EndingIsLast
<1> QED BY <1>1, InvHolds, PTL

(* Callbacks of a run enter the outbox in the order of their numbers       *)
(* (callbacks/__init__.py, deliver).                                       *)
THEOREM NumbersInOrder == Spec => []NumbersIncrease
<1>1. Inv => NumbersIncrease
  BY DEF Inv, Sound, Increasing, NumbersIncrease
<1> QED BY <1>1, InvHolds, PTL

(* The numbers of a run have no gap (callbacks/events.py, _base).          *)
THEOREM NoNumberSkipped == Spec => []NumbersWithoutGap
<1>1. Inv => NumbersWithoutGap
  BY DEF Inv, Sound, Gapless, NumbersWithoutGap
<1> QED BY <1>1, InvHolds, PTL

-----------------------------------------------------------------------------
(* The stages of a run take turns.                                         *)

Starts(s, i, r) == s[i].run = r /\ s[i].kind = "started"

(* The stage of run r that is open after the first n callbacks.            *)
IsOpen(s, n, r, stage) ==
    \/ stage = "none" /\ \A i \in 1 .. n : ~Starts(s, i, r)
    \/ \E i \in 1 .. n : /\ Starts(s, i, r) /\ s[i].stage = stage
                         /\ \A k \in 1 .. n : k > i => ~Starts(s, k, r)

(* What a callback says fits the stage that is open.                       *)
Fits(c, stage) ==
    /\ c.kind = "completed" => c.stage = stage
    /\ c.kind = "tool" => stage = "tool_execution"
Follows(s, n, c, stage) ==
    c.kind = "started" /\ stage # "none" =>
      /\ c.stage # stage
      /\ n >= 1 /\ s[n].run = c.run /\ s[n].kind = "completed" /\ s[n].stage = stage

InTurn(s, j) == \E stage : /\ IsOpen(s, j - 1, s[j].run, stage)
                           /\ Fits(s[j], stage) /\ Follows(s, j - 1, s[j], stage)
Turns(s) == \A j \in 1 .. Len(s) : InTurn(s, j)

(* The builder knows the open stage of every run that is not over.         *)
Known(s, b) == \A r \in Run \ b.finished : IsOpen(s, Len(s), r, b.runs[r].stage)

TurnInv == Turns(sent) /\ Known(sent, builder)

LEMMA OpenStays ==
    ASSUME NEW s \in Seq(Callback), NEW c \in Callback, NEW n \in 0 .. Len(s), NEW r, NEW stage,
           IsOpen(s, n, r, stage)
    PROVE  IsOpen(Append(s, c), n, r, stage)
<1>1. \A i \in 1 .. n : Append(s, c)[i] = s[i]
  BY Appended
<1> QED BY <1>1 DEF IsOpen, Starts

LEMMA OpenNext ==
    ASSUME NEW s \in Seq(Callback), NEW c \in Callback, NEW r, NEW stage, IsOpen(s, Len(s), r, stage)
    PROVE  IsOpen(Append(s, c), Len(s) + 1, r,
                  IF c.run = r /\ c.kind = "started" THEN c.stage ELSE stage)
<1> DEFINE t == Append(s, c)
<1>1. /\ Len(s) \in Nat /\ \A i \in 1 .. Len(s) : t[i] = s[i]
      /\ t[Len(s) + 1] = c
  BY Appended
<1>2. PICK n : n = Len(s)
  OBVIOUS
<1>3. n \in Nat /\ (\A i \in 1 .. n : t[i] = s[i]) /\ t[n + 1] = c /\ IsOpen(s, n, r, stage)
  BY <1>1, <1>2
<1>4. \A i \in 1 .. n + 1 : i \in 1 .. n \/ i = n + 1
  BY <1>3
<1>5. CASE c.run = r /\ c.kind = "started"
  <2>1. n + 1 \in 1 .. n + 1 /\ Starts(t, n + 1, r) /\ t[n + 1].stage = c.stage
    BY <1>3, <1>5 DEF Starts
  <2>2. \A k \in 1 .. n + 1 : ~(k > n + 1)
    BY <1>3
  <2>3. IsOpen(t, n + 1, r, c.stage)
    BY <2>1, <2>2 DEF IsOpen
  <2> QED BY <1>2, <1>5, <2>3
<1>6. CASE ~(c.run = r /\ c.kind = "started")
  <2>1. ~Starts(t, n + 1, r) /\ \A i \in 1 .. n : Starts(t, i, r) <=> Starts(s, i, r)
    BY <1>3, <1>6 DEF Starts
  <2>2. IsOpen(t, n + 1, r, stage)
    <3>1. CASE stage = "none" /\ \A i \in 1 .. n : ~Starts(s, i, r)
      BY <1>4, <2>1, <3>1 DEF IsOpen
    <3>2. ASSUME NEW i \in 1 .. n, Starts(s, i, r), s[i].stage = stage,
                 \A k \in 1 .. n : k > i => ~Starts(s, k, r)
          PROVE  IsOpen(t, n + 1, r, stage)
      <4>3. i \in 1 .. n + 1
        BY <1>3
      <4>4. t[i] = s[i] /\ Starts(t, i, r)
        BY <1>3, <2>1, <3>2
      <4>1. i \in 1 .. n + 1 /\ Starts(t, i, r) /\ t[i].stage = stage
        BY <3>2, <4>3, <4>4
      <4>2. \A k \in 1 .. n + 1 : k > i => ~Starts(t, k, r)
        BY <1>4, <2>1, <3>2
      <4> QED BY <4>1, <4>2 DEF IsOpen
    <3> QED BY <1>3, <3>1, <3>2 DEF IsOpen
  <2> QED BY <1>2, <1>6, <2>2
<1> QED BY <1>5, <1>6

(* A callback that fits the open stage of its run may be appended.         *)
LEMMA TurnsMore ==
    ASSUME NEW s \in Seq(Callback), NEW c \in Callback, Turns(s), NEW stage,
           IsOpen(s, Len(s), c.run, stage), Fits(c, stage), Follows(s, Len(s), c, stage)
    PROVE  Turns(Append(s, c))
<1> DEFINE t == Append(s, c)
<1>1. /\ Len(s) \in Nat /\ Len(t) = Len(s) + 1
      /\ \A i \in 1 .. Len(s) : t[i] = s[i]
      /\ t[Len(s) + 1] = c
  BY Appended
<1>2. PICK n : n = Len(s)
  OBVIOUS
<1>3. n \in Nat /\ Len(t) = n + 1 /\ (\A i \in 1 .. n : t[i] = s[i]) /\ t[n + 1] = c
  BY <1>1, <1>2
<1>4. ASSUME NEW j \in 1 .. n PROVE InTurn(t, j)
  <2>1. j - 1 \in 0 .. Len(s) /\ t[j] = s[j] /\ (j - 1 >= 1 => t[j - 1] = s[j - 1])
    BY <1>2, <1>3
  <2>2. PICK open : IsOpen(s, j - 1, s[j].run, open) /\ Fits(s[j], open) /\ Follows(s, j - 1, s[j], open)
    BY <1>2 DEF Turns, InTurn
  <2>3. IsOpen(t, j - 1, s[j].run, open)
    BY <2>1, <2>2, OpenStays
  <2>4. Follows(t, j - 1, t[j], open)
    BY <2>1, <2>2 DEF Follows
  <2> HIDE DEF t
  <2> QED BY <2>1, <2>2, <2>3, <2>4 DEF InTurn
<1>5. InTurn(t, n + 1)
  <2>1. n + 1 - 1 = n /\ n \in 0 .. Len(s)
    BY <1>2, <1>3
  <2>2. IsOpen(t, n, c.run, stage)
    BY <1>2, <2>1, OpenStays
  <2>3. Follows(t, n, c, stage)
    BY <1>2, <1>3 DEF Follows
  <2> HIDE DEF t
  <2> QED BY <1>3, <2>1, <2>2, <2>3 DEF InTurn
<1>6. \A j \in 1 .. n + 1 : j \in 1 .. n \/ j = n + 1
  BY <1>3
<1>7. Turns(t)
  <2> HIDE DEF t
  <2> QED BY <1>3, <1>4, <1>5, <1>6 DEF Turns
<1> QED BY <1>7

(* What the builder remembers of a run, and of the others.                 *)
LEMMA StagesRemembered ==
    ASSUME NEW b \in Builder, NEW e \in Event, Announces(b, e)
    PROVE  /\ \A r \in Run \ {e.run} : Remembered(b, e).runs[r] = b.runs[r]
           /\ e.kind = "StageChanged" => Remembered(b, e).runs[e.run].stage = e.stage
           /\ e.kind = "ToolProgressed" => Remembered(b, e).runs[e.run].stage = b.runs[e.run].stage
           /\ Remembered(b, e).finished = IF e.kind \in {"StageChanged", "ToolProgressed"}
                                          THEN b.finished ELSE b.finished \cup {e.run}
<1>1. /\ b = [runs |-> b.runs, finished |-> b.finished] /\ b.runs \in [Run -> Progress]
      /\ e.run \in Run
  BY DEF Builder, Event
<1>2. CASE e.kind \in {"StageChanged", "ToolProgressed"}
  <2>1. PICK x : /\ x.stage = IF e.kind = "StageChanged" THEN e.stage ELSE b.runs[e.run].stage
                 /\ Remembered(b, e) = [b EXCEPT !.runs[e.run] = x]
    BY <1>2 DEF Remembered
  <2>2. Remembered(b, e) = [runs |-> [b.runs EXCEPT ![e.run] = x], finished |-> b.finished]
    BY <1>1, <2>1
  <2> QED BY <1>1, <1>2, <2>1, <2>2
<1>3. CASE e.kind \notin {"StageChanged", "ToolProgressed"}
  <2>1. Remembered(b, e) = [runs |-> [b.runs EXCEPT ![e.run] = Fresh], finished |-> b.finished \cup {e.run}]
    BY <1>1, <1>3 DEF Remembered
  <2> QED BY <1>1, <1>3, <2>1
<1> QED BY <1>2, <1>3

LEMMA DeliverKeepsTurns ==
    ASSUME Inv, TurnInv, NEW e \in Event, NEW convertible \in BOOLEAN, Deliver(e, convertible)
    PROVE  TurnInv'
<1>1. PICK r, at : r = e.run /\ at = builder.runs[r]
  OBVIOUS
<1>2. /\ r \in Run /\ at \in Progress /\ builder \in Builder /\ sent \in Seq(Callback)
      /\ at.sequence \in Nat \ {0} /\ at.stage \in PublicStages \cup {"none"}
  BY <1>1 DEF Inv, Event, Builder, Progress, Sound
<1>3. builder' = Remembered(builder, e) /\ sent' = sent \o Built(builder, e, convertible)
  BY DEF Deliver
<1>4. Turns(sent) /\ Known(sent, builder)
  BY DEF TurnInv
<1>5. CASE ~Announces(builder, e)
  <2>1. Built(builder, e, convertible) = << >> /\ builder' = builder
    BY <1>3, <1>5 DEF Built, Remembered
  <2>2. sent' = sent
    BY <1>2, <1>3, <2>1, ConcatEmptySeq
  <2> QED BY <1>4, <2>1, <2>2 DEF TurnInv
<1>6. ASSUME Announces(builder, e)
      PROVE  /\ r \notin builder.finished /\ IsOpen(sent, Len(sent), r, at.stage)
             /\ \A q \in Run \ {r} : builder'.runs[q] = builder.runs[q]
             /\ builder'.finished = IF e.kind \in {"StageChanged", "ToolProgressed"}
                                    THEN builder.finished ELSE builder.finished \cup {r}
  <2>1. r \notin builder.finished
    BY <1>1, <1>6 DEF Announces
  <2>2. IsOpen(sent, Len(sent), r, at.stage)
    BY <1>1, <1>2, <1>4, <2>1 DEF Known
  <2> QED BY <1>1, <1>2, <1>3, <1>6, <2>1, <2>2, StagesRemembered
<1>7. ASSUME Announces(builder, e), NEW c \in Callback, c.run = r, sent' = Append(sent, c),
             Fits(c, at.stage), Follows(sent, Len(sent), c, at.stage),
             r \in builder'.finished \/
               builder'.runs[r].stage = IF c.kind = "started" THEN c.stage ELSE at.stage
      PROVE  TurnInv'
  <2>1. Turns(sent')
    BY <1>2, <1>4, <1>6, <1>7, TurnsMore
  <2>2. ASSUME NEW q \in Run \ builder'.finished PROVE IsOpen(sent', Len(sent'), q, builder'.runs[q].stage)
    <3>1. PICK open : open = builder.runs[q].stage
      OBVIOUS
    <3>2. q \in Run \ builder.finished
      BY <1>6, <1>7
    <3>3. IsOpen(sent, Len(sent), q, open)
      BY <1>4, <3>1, <3>2 DEF Known
    <3>4. IsOpen(sent', Len(sent) + 1, q, IF c.run = q /\ c.kind = "started" THEN c.stage ELSE open)
      BY <1>2, <1>7, <3>3, OpenNext
    <3>5. builder'.runs[q].stage = IF c.run = q /\ c.kind = "started" THEN c.stage ELSE open
      BY <1>1, <1>6, <1>7, <3>1
    <3>6. Len(sent') = Len(sent) + 1
      BY <1>2, <1>7, Appended
    <3> QED BY <3>4, <3>5, <3>6
  <2> QED BY <2>1, <2>2 DEF TurnInv, Known
<1>8. CASE Announces(builder, e) /\ e.kind = "ToolProgressed"
  <2>1. PICK c : c = Number(r, at.sequence, "tool", at.stage)
    OBVIOUS
  <2>2. c \in Callback /\ c.run = r /\ Fits(c, at.stage) /\ c.kind = "tool"
    BY <1>1, <1>2, <1>8, <2>1 DEF Number, Callback, Fits, Announces
  <2>3. sent' = Append(sent, c)
    BY <1>1, <1>2, <1>3, <1>8, <2>1, <2>2, AppendIsConcat DEF Built
  <2>4. builder'.runs[r].stage = at.stage
    BY <1>1, <1>2, <1>3, <1>8, StagesRemembered
  <2>5. Follows(sent, Len(sent), c, at.stage)
    BY <2>2 DEF Follows
  <2> QED BY <1>7, <1>8, <2>2, <2>3, <2>4, <2>5
<1>9. CASE Announces(builder, e) /\ e.kind = "StageChanged"
  <2>1. e.stage \in PublicStages /\ e.stage # at.stage /\ builder'.runs[r].stage = e.stage
    BY <1>1, <1>2, <1>3, <1>9, StagesRemembered DEF Announces
  <2>2. CASE at.stage = "none"
    <3>1. PICK c : c = Number(r, at.sequence, "started", e.stage)
      OBVIOUS
    <3>2. c \in Callback /\ c.run = r /\ Fits(c, at.stage) /\ c.kind = "started" /\ c.stage = e.stage
      BY <1>2, <2>1, <3>1 DEF Number, Callback, Fits
    <3>3. sent' = Append(sent, c)
      BY <1>1, <1>2, <1>3, <1>9, <2>2, <3>1, <3>2, AppendIsConcat DEF Built, StageCallbacks
    <3>4. Follows(sent, Len(sent), c, at.stage)
      BY <2>2 DEF Follows
    <3> QED BY <1>7, <1>9, <2>1, <3>2, <3>3, <3>4
  <2>3. CASE at.stage # "none"
    <3>1. PICK closing, c : /\ closing = Number(r, at.sequence, "completed", at.stage)
                            /\ c = Number(r, at.sequence + 1, "started", e.stage)
      OBVIOUS
    <3>2. /\ closing \in Callback /\ closing.run = r /\ closing.kind = "completed" /\ closing.stage = at.stage
          /\ c \in Callback /\ c.run = r /\ c.kind = "started" /\ c.stage = e.stage
      BY <1>2, <2>1, <3>1 DEF Number, Callback
    <3>3. PICK mid : mid = Append(sent, closing)
      OBVIOUS
    <3>4. mid \in Seq(Callback) /\ Len(mid) = Len(sent) + 1 /\ mid[Len(mid)] = closing /\ Len(sent) \in Nat
      BY <1>2, <3>2, <3>3, Appended
    <3>5. sent' = Append(mid, c)
      <4>1. sent' = sent \o << closing, c >>
        BY <1>1, <1>3, <1>9, <2>3, <3>1 DEF Built, StageCallbacks
      <4> QED BY <1>2, <3>2, <3>3, <4>1
    <3>6. Turns(mid)
      <4>1. Fits(closing, at.stage) /\ Follows(sent, Len(sent), closing, at.stage)
        BY <3>2 DEF Fits, Follows
      <4> QED BY <1>2, <1>4, <1>6, <1>9, <3>2, <3>3, <4>1, TurnsMore
    <3>7. \A q, open : IsOpen(sent, Len(sent), q, open) => IsOpen(mid, Len(mid), q, open)
      <4>1. ASSUME NEW q, NEW open, IsOpen(sent, Len(sent), q, open) PROVE IsOpen(mid, Len(mid), q, open)
        <5>1. IsOpen(mid, Len(sent) + 1, q,
                     IF closing.run = q /\ closing.kind = "started" THEN closing.stage ELSE open)
          BY <1>2, <3>2, <3>3, <4>1, OpenNext
        <5> QED BY <3>2, <3>4, <5>1
      <4> QED BY <4>1
    <3>8. Turns(sent')
      <4>1. Fits(c, at.stage) /\ Follows(mid, Len(mid), c, at.stage)
        BY <2>1, <3>2, <3>4 DEF Fits, Follows
      <4>2. IsOpen(mid, Len(mid), r, at.stage)
        BY <1>6, <1>9, <3>7
      <4> QED BY <3>2, <3>4, <3>5, <3>6, <4>1, <4>2, TurnsMore
    <3>9. ASSUME NEW q \in Run \ builder'.finished PROVE IsOpen(sent', Len(sent'), q, builder'.runs[q].stage)
      <4>1. PICK open : open = builder.runs[q].stage
        OBVIOUS
      <4>2. q \in Run \ builder.finished
        BY <1>6, <1>9
      <4>3. IsOpen(mid, Len(mid), q, open)
        BY <1>4, <3>7, <4>1, <4>2 DEF Known
      <4>4. IsOpen(sent', Len(mid) + 1, q, IF c.run = q /\ c.kind = "started" THEN c.stage ELSE open)
        BY <3>2, <3>4, <3>5, <4>3, OpenNext
      <4>5. builder'.runs[q].stage = IF c.run = q /\ c.kind = "started" THEN c.stage ELSE open
        BY <1>1, <1>6, <1>9, <2>1, <3>2, <4>1
      <4>6. Len(sent') = Len(mid) + 1
        BY <3>2, <3>4, <3>5, Appended
      <4> QED BY <4>4, <4>5, <4>6
    <3> QED BY <3>8, <3>9 DEF TurnInv, Known
  <2> QED BY <2>2, <2>3
<1>10. CASE Announces(builder, e) /\ e.kind \in {"Completed", "AwaitingInput", "Failed"}
  <2>1. PICK c : c = Number(r, at.sequence, Ending(e, convertible), "none")
    OBVIOUS
  <2>2. c \in Callback /\ c.run = r /\ c.kind \in Endings
    BY <1>2, <1>10, <2>1 DEF Number, Callback, Ending, Endings
  <2>3. sent' = Append(sent, c)
    BY <1>1, <1>2, <1>3, <1>10, <2>1, <2>2, AppendIsConcat DEF Built, Last
  <2>4. Fits(c, at.stage) /\ Follows(sent, Len(sent), c, at.stage)
    BY <2>2 DEF Fits, Follows, Endings
  <2>5. r \in builder'.finished
    BY <1>6, <1>10
  <2> QED BY <1>7, <1>10, <2>2, <2>3, <2>4, <2>5
<1> QED BY <1>5, <1>8, <1>9, <1>10 DEF Event, EventKinds

LEMMA TurnsHold == Spec => []TurnInv
<1>1. Init => TurnInv
  <2> SUFFICES ASSUME Init PROVE TurnInv
    OBVIOUS
  <2>1. Len(sent) = 0 /\ \A r \in Run : builder.runs[r].stage = "none"
    BY DEF Init, NewBuilder, Fresh
  <2> QED BY <2>1 DEF TurnInv, Turns, Known, IsOpen
<1>2. Inv /\ TurnInv /\ [Next]_vars => TurnInv'
  <2> SUFFICES ASSUME Inv, TurnInv, [Next]_vars PROVE TurnInv'
    OBVIOUS
  <2>1. CASE Next
    BY <2>1, DeliverKeepsTurns DEF Next
  <2>2. CASE UNCHANGED vars
    BY <2>2 DEF vars, TurnInv
  <2> QED BY <2>1, <2>2
<1> QED BY <1>1, <1>2, InvHolds, PTL DEF Spec

(* The open stage of the model is the one of the invariant.                *)
LEMMA OpenStageIsOpen ==
    ASSUME sent \in Seq(Callback), NEW j \in 1 .. Len(sent), NEW stage, IsOpen(sent, j - 1, sent[j].run, stage)
    PROVE  OpenStage(j) = stage
<1>1. \A i : i \in Opened(j) <=> i \in 1 .. j - 1 /\ Starts(sent, i, sent[j].run)
  BY DEF Opened, Starts
<1>2. CASE stage = "none" /\ \A i \in 1 .. j - 1 : ~Starts(sent, i, sent[j].run)
  <2>1. Opened(j) = {}
    BY <1>1, <1>2
  <2> QED BY <1>2, <2>1 DEF OpenStage
<1>3. ASSUME NEW i \in 1 .. j - 1, Starts(sent, i, sent[j].run), sent[i].stage = stage,
             \A k \in 1 .. j - 1 : k > i => ~Starts(sent, k, sent[j].run)
      PROVE  OpenStage(j) = stage
  <2>1. i \in Opened(j) /\ \A k \in Opened(j) : k \in Int /\ k <= i
    BY <1>1, <1>3
  <2>2. \A x \in Opened(j) : (\A k \in Opened(j) : k <= x) => x = i
    BY <2>1
  <2>3. (CHOOSE x \in Opened(j) : \A k \in Opened(j) : k <= x) = i
    BY <2>1, <2>2
  <2> QED BY <1>3, <2>1, <2>3 DEF OpenStage
<1> QED BY <1>2, <1>3 DEF IsOpen

(* The stages of a run take turns: one is completed only while it is the   *)
(* open one, the next is started right after that, and the progress of a   *)
(* tool is shown inside the stage that executes tools, whatever events     *)
(* arrive (callbacks/events.py, _progress and _tool).                      *)
THEOREM StagesTakeTurns == Spec => []StagesInTurn
<1>1. Inv /\ TurnInv => StagesInTurn
  <2> SUFFICES ASSUME Inv, TurnInv, NEW j \in 1 .. Len(sent)
               PROVE  CASE sent[j].kind = "completed" -> sent[j].stage = OpenStage(j)
                        [] sent[j].kind = "tool"      -> OpenStage(j) = "tool_execution"
                        [] sent[j].kind = "started"   ->
                             OpenStage(j) # "none" =>
                               /\ sent[j].stage # OpenStage(j)
                               /\ sent[j - 1].run = sent[j].run /\ sent[j - 1].kind = "completed"
                               /\ sent[j - 1].stage = OpenStage(j)
                        [] OTHER -> TRUE
    BY DEF StagesInTurn
  <2>1. PICK stage : /\ IsOpen(sent, j - 1, sent[j].run, stage)
                     /\ Fits(sent[j], stage) /\ Follows(sent, j - 1, sent[j], stage)
    BY DEF TurnInv, Turns, InTurn
  <2>2. OpenStage(j) = stage
    BY <2>1, OpenStageIsOpen DEF Inv, Sound
  <2> QED BY <2>1, <2>2 DEF Fits, Follows
<1> QED BY <1>1, InvHolds, TurnsHold, PTL
=============================================================================

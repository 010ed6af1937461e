---------------------------- MODULE ProtocolProofs ----------------------------
(***************************************************************************)
(* What the backend and the AI server keep between them, whatever is lost, *)
(* late or repeated, for any number of products, runs and restarts.        *)
(*                                                                         *)
(* A product has three records: its row in the backend, its session in the *)
(* AI server and the callbacks that are on their way.  The invariant says  *)
(* how far apart they may be: a callback fits the session of its run       *)
(* (Messages), a row is at most one run behind the session (RowFits), and  *)
(* while a request about a product is unanswered, its row waits for just   *)
(* that answer (CallFits).  None of this is claimed of a product that went *)
(* astray, when a session came back from a row that was out of date; what  *)
(* such a product does to the others of a request is part of the proof.    *)
(***************************************************************************)
EXTENDS DiagnosisProtocol, SequenceTheorems, FiniteSetTheorems, TLAPS

USE BackendAssumption, ProtocolAssumption DEF BackendAssumption, ProtocolAssumption

Rows == Row(Run, Nat, Nat)

(* A row that means something: the greatest of the rounds stored is there. *)
RoundsFit(row) ==
    /\ LatestQuestionRound(row) \in Nat
    /\ row.rounds # {} => LatestQuestionRound(row) \in row.rounds
    /\ \A n \in row.rounds : n <= LatestQuestionRound(row)
(* PENDING waits for a run, questions and a result come from one.          *)
RunFits(row) ==
    /\ row.status = "PENDING" => row.run = NoRun
    /\ row.status \in {"AWAITING_INPUT", "COMPLETED"} => row.run # NoRun
Stored == {row \in Rows : RoundsFit(row) /\ RunFits(row)}

RowTypes == rows \in [Product -> Stored \cup {NoRow}]

SessionType(s, last) ==
    /\ s \in Session /\ s.run <= last
    /\ s.status = "none" <=> s.run = NoRun
SessionTypes ==
    /\ issued \in 0 .. MaxRuns
    /\ ai = [p \in Product |-> ai[p]] /\ archive = [p \in Product |-> archive[p]]
    /\ \A p \in Product : SessionType(ai[p], issued) /\ SessionType(archive[p], issued)
    /\ astray \subseteq Product

LaneTypes ==
    /\ lanes \in [Product -> Seq(Callback)] /\ late \subseteq Callback
    /\ \A p \in Product : \A i \in 1 .. Len(lanes[p]) : lanes[p][i].product = p

(* What a request is about, and the answers the AI server gives.           *)
AnswerTypes(call) ==
    \/ call.answer = Open
    \/ call.answer.outcome = "conflict"
    \/ call.answer.outcome = "not_found" /\ call.kind = "resume"
    \/ /\ call.answer.outcome = "accepted"
       /\ call.answer.runs \in [call.products -> 1 .. issued]

CallType(c, call) ==
    /\ call.products \subseteq Product
    /\ call.kind \in {"diagnose", "resume"}
    /\ call.kind = "diagnose" =>
         call = [kind |-> "diagnose", products |-> call.products, answer |-> call.answer]
    /\ call.kind = "resume" =>
         call = [kind |-> "resume", products |-> call.products, run |-> call.run,
                 round |-> call.round, resend |-> call.resend, answer |-> call.answer]
    /\ call.kind = "resume" => /\ \E p \in Product : call.products = {p}
                               /\ call.resend = (c = "resume")
    /\ AnswerTypes(call)
CallTypes ==
    /\ calls = [c \in Caller |-> calls[c]]
    /\ \A c \in Caller : calls[c] # NoCall => CallType(c, calls[c])

Types == RowTypes /\ SessionTypes /\ LaneTypes /\ CallTypes

-----------------------------------------------------------------------------
(* The callbacks of a product that the backend may handle yet.             *)
OnTheWay(p) == {lanes[p][i] : i \in 1 .. Len(lanes[p])} \cup {m \in late : m.product = p}

(* What a session s has told of its run: progress, and how the run ended.  *)
Fits(s, m) ==
    \/ m.kind = "progress"
    \/ s.status = "waiting" /\ m.kind = "questions" /\ m.number = s.round
    \/ s.status = "ended" /\ m.kind \in {"result", "failed", "fatal"}

Messages(s, ms, last) ==
    /\ \A m \in ms : /\ m.run <= last
                     /\ s.status # "none" => m.run <= s.run
                     /\ m.run = s.run => Fits(s, m)
    /\ \A m, n \in ms :
         m.run = n.run /\ m.kind # "progress" /\ n.kind # "progress" => m = n

(* The run the row knows has nothing new to say.                           *)
Behind(row, ms) ==
    \A m \in ms : m.run = row.run =>
      \/ m.kind = "progress"
      \/ m.kind = "questions" /\ m.number <= LatestQuestionRound(row)

(* The session is at a later run than the row knows, or waits for the      *)
(* answers to the questions the row has.                                   *)
Ahead(row, s) == s.status # "none" /\ row.run < s.run
Known(row, s) ==
    \/ s.status = "none"
    \/ s.status = "waiting" /\ s.run = row.run /\ s.round = LatestQuestionRound(row)

RowFits(row, s, ms, last) ==
    /\ row.run <= last
    /\ row.run # NoRun /\ s.status # "none" => row.run <= s.run
    /\ row.status = "AWAITING_INPUT" =>
         row.run # NoRun /\ row.rounds # {} /\ ~row.resumePending /\ Behind(row, ms) /\ Known(row, s)
    /\ row.status = "COMPLETED" =>
         /\ row.run # NoRun /\ ~row.resumePending
         /\ s.status = "none" \/ (s.status = "ended" /\ s.run = row.run)
    /\ row.status = "PENDING" => row.run = NoRun /\ ~row.resumePending
    /\ row.status = "FAILED" => ~row.resumePending
    /\ row.resumePending =>
         row.run # NoRun /\ row.rounds # {} /\ Behind(row, ms) /\ (Known(row, s) \/ Ahead(row, s))
    /\ row.run # NoRun /\ Ahead(row, s) => Behind(row, ms)
    /\ row.resumePending /\ "updatedAt" \in row.overdue => "resumePendingSince" \in row.overdue
    /\ row.error # "RESUME_CONFLICT"

(* While a request about a product has no answer, nothing else happens to  *)
(* its row, and an answer that comes is about the session there is.        *)
CallFits(call, p, row, s, ms) ==
    /\ row.status = "IN_PROGRESS" /\ "updatedAt" \notin row.overdue
    /\ call.kind = "diagnose" => row.run = NoRun
    /\ call.kind = "resume" =>
         /\ row.run = call.run /\ row.run # NoRun /\ row.rounds # {}
         /\ LatestQuestionRound(row) = call.round
         /\ Behind(row, ms) /\ (Known(row, s) \/ Ahead(row, s))
         /\ ~call.resend => /\ ~row.resumePending /\ call.answer.outcome # "conflict"
                            /\ call.answer = Open => Known(row, s)
    /\ call.answer.outcome = "accepted" =>
         s.status = "none" \/ (s.run = call.answer.runs[p] /\ row.run < s.run)

ProductFits(p) ==
    /\ Messages(ai[p], OnTheWay(p), issued)
    /\ rows[p] # NoRow =>
         /\ RowFits(rows[p], ai[p], OnTheWay(p), issued)
         /\ \A c \in Caller : calls[c] # NoCall /\ p \in calls[c].products =>
              CallFits(calls[c], p, rows[p], ai[p], OnTheWay(p))

(* All this is claimed of the products that did not go astray.             *)
Sound == Product \ astray
RowFine(p, row)        == p \in Sound => RowFits(row, ai[p], OnTheWay(p), issued)
CallFine(call, p, row) == p \in Sound => CallFits(call, p, row, ai[p], OnTheWay(p))
USE DEF Sound, RowFine, CallFine

(* There is one request about a product at a time.                         *)
OneCall ==
    \A c, d \in Caller : c # d /\ calls[c] # NoCall /\ calls[d] # NoCall =>
      calls[c].products \cap calls[d].products \subseteq astray

(* Nobody asks before there is a row of diagnoses.                         *)
Created == overall = NoRow => \A c \in Caller : calls[c] = NoCall

Inv == /\ Types /\ Created /\ OverallStatus /\ OneCall
       /\ \A p \in Sound : ProductFits(p)

-----------------------------------------------------------------------------
(* What the operations of a row leave.                                     *)

(* Touching a row takes it out of the reach of the stuck scheduler.        *)
LEMMA TouchedRow ==
    ASSUME NEW row \in Rows
    PROVE  /\ Touched(row) \in Rows
           /\ Touched(row).status = row.status /\ Touched(row).run = row.run
           /\ Touched(row).rounds = row.rounds /\ Touched(row).error = row.error
           /\ Touched(row).resumePending = row.resumePending
           /\ Touched(row).progress = row.progress
           /\ "updatedAt" \notin Touched(row).overdue
           /\ "resumePendingSince" \in row.overdue =>
                "resumePendingSince" \in Touched(row).overdue
  BY DEF Touched, Rows, Row

(* Another status, the rest as it was.                                     *)
LEMMA StatusRow ==
    ASSUME NEW row \in Rows, NEW st \in ProcessingStatus
    PROVE  LET next == [row EXCEPT !.status = st] IN
           /\ next \in Rows /\ next.status = st /\ next.run = row.run
           /\ next.rounds = row.rounds /\ next.error = row.error
           /\ next.resumePending = row.resumePending /\ next.overdue = row.overdue
           /\ next.progress = row.progress
  BY DEF Rows, Row

(* The latest round depends on the rounds alone.                           *)
LEMMA SameRounds ==
    ASSUME NEW row \in Stored, NEW next \in Rows, next.rounds = row.rounds, RunFits(next)
    PROVE  next \in Stored /\ LatestQuestionRound(next) = LatestQuestionRound(row)
  BY DEF Stored, RoundsFit, LatestQuestionRound

LEMMA NoRounds ==
    ASSUME NEW next \in Rows, next.rounds = {}, RunFits(next)
    PROVE  next \in Stored /\ LatestQuestionRound(next) = 0
  BY DEF Stored, RoundsFit, LatestQuestionRound

(* Another status and nothing else, except that the row is touched: what   *)
(* StartDiagnoses, ReturnToPending, AnswerQuestions and Complete do.       *)
Becomes(row, next, st) ==
    /\ next \in Stored /\ next.status = st /\ next.run = row.run
    /\ next.rounds = row.rounds /\ LatestQuestionRound(next) = LatestQuestionRound(row)
    /\ next.error = row.error /\ next.resumePending = row.resumePending
    /\ next.progress = row.progress /\ "updatedAt" \notin next.overdue

LEMMA BecomesRow ==
    ASSUME NEW row \in Stored, NEW st \in ProcessingStatus,
           RunFits([status |-> st, run |-> row.run])
    PROVE  Becomes(row, Touched([row EXCEPT !.status = st]), st)
  <1> DEFINE next == [row EXCEPT !.status = st]
  <1>1. row \in Rows
    BY DEF Stored
  <1>2. /\ next \in Rows /\ next.status = st /\ next.run = row.run
        /\ next.rounds = row.rounds /\ next.error = row.error
        /\ next.resumePending = row.resumePending /\ next.progress = row.progress
    BY <1>1, StatusRow
  <1> HIDE DEF next
  <1>3. /\ Touched(next) \in Rows
        /\ Touched(next).status = next.status /\ Touched(next).run = next.run
        /\ Touched(next).rounds = next.rounds /\ Touched(next).error = next.error
        /\ Touched(next).resumePending = next.resumePending
        /\ Touched(next).progress = next.progress
        /\ "updatedAt" \notin Touched(next).overdue
    BY <1>2, TouchedRow
  <1>4. /\ Touched(next) \in Stored
        /\ LatestQuestionRound(Touched(next)) = LatestQuestionRound(row)
    BY <1>2, <1>3, SameRounds DEF RunFits
  <1> QED
    BY <1>2, <1>3, <1>4 DEF Becomes, next

LEMMA StartedRow ==
    ASSUME NEW row \in Stored
    PROVE  Becomes(row, StartDiagnoses(row), "IN_PROGRESS")
  BY BecomesRow DEF RunFits, StartDiagnoses, ProcessingStatus

LEMMA ReturnedRow ==
    ASSUME NEW row \in Stored, row.run = NoRun
    PROVE  Becomes(row, ReturnToPending(row), "PENDING")
  BY BecomesRow DEF RunFits, ReturnToPending, ProcessingStatus

LEMMA AnsweredRow ==
    ASSUME NEW row \in Stored
    PROVE  Becomes(row, AnswerQuestions(row), "IN_PROGRESS")
  BY BecomesRow DEF RunFits, AnswerQuestions, ProcessingStatus

LEMMA CompletedRow ==
    ASSUME NEW row \in Stored, row.run # NoRun
    PROVE  Becomes(row, Complete(row), "COMPLETED")
  BY BecomesRow DEF RunFits, Complete, ProcessingStatus

(* A run, learnt: no resume is pending any more.                           *)
LEMMA AssignedRow ==
    ASSUME NEW row \in Stored, row.status = "IN_PROGRESS", NEW run \in Run
    PROVE  LET next == AssignRun(row, run) IN
           /\ next \in Stored /\ next.status = row.status /\ next.run = run
           /\ next.rounds = row.rounds /\ next.error = row.error /\ next.progress = row.progress
           /\ LatestQuestionRound(next) = LatestQuestionRound(row)
           /\ next.resumePending = FALSE /\ "updatedAt" \notin next.overdue
  <1> DEFINE next == [row EXCEPT !.run = run, !.resumePending = FALSE,
                                 !.overdue = @ \ {"resumePendingSince"}]
  <1>1. row \in Rows
    BY DEF Stored
  <1>2. /\ next \in Rows /\ next.status = row.status /\ next.run = run
        /\ next.rounds = row.rounds /\ next.error = row.error /\ next.progress = row.progress
        /\ next.resumePending = FALSE
    BY <1>1 DEF Rows, Row
  <1> HIDE DEF next
  <1>3. /\ Touched(next) \in Rows
        /\ Touched(next).status = next.status /\ Touched(next).run = next.run
        /\ Touched(next).rounds = next.rounds /\ Touched(next).error = next.error
        /\ Touched(next).resumePending = next.resumePending
        /\ Touched(next).progress = next.progress
        /\ "updatedAt" \notin Touched(next).overdue
    BY <1>2, TouchedRow
  <1>4. /\ Touched(next) \in Stored
        /\ LatestQuestionRound(Touched(next)) = LatestQuestionRound(row)
    BY <1>2, <1>3, SameRounds DEF RunFits
  <1>5. AssignRun(row, run) = Touched(next)
    BY DEF AssignRun, next
  <1> QED
    BY <1>2, <1>3, <1>4, <1>5

(* A failed row: the error is the one given, no resume is pending.         *)
LEMMA FailedRow ==
    ASSUME NEW row \in Stored, NEW error \in Errors
    PROVE  LET next == Fail(row, error) IN
           /\ next \in Stored /\ next.status = "FAILED" /\ next.run = row.run
           /\ next.rounds = row.rounds /\ next.error = error /\ next.progress = row.progress
           /\ LatestQuestionRound(next) = LatestQuestionRound(row)
           /\ next.resumePending = FALSE /\ "updatedAt" \notin next.overdue
  <1> DEFINE next == [row EXCEPT !.status = "FAILED", !.error = error, !.resumePending = FALSE,
                                 !.overdue = @ \ {"resumePendingSince"}]
  <1>1. row \in Rows
    BY DEF Stored
  <1>2. /\ next \in Rows /\ next.status = "FAILED" /\ next.run = row.run
        /\ next.rounds = row.rounds /\ next.error = error /\ next.progress = row.progress
        /\ next.resumePending = FALSE
    BY <1>1 DEF Rows, Row, ProcessingStatus
  <1> HIDE DEF next
  <1>3. /\ Touched(next) \in Rows
        /\ Touched(next).status = next.status /\ Touched(next).run = next.run
        /\ Touched(next).rounds = next.rounds /\ Touched(next).error = next.error
        /\ Touched(next).resumePending = next.resumePending
        /\ Touched(next).progress = next.progress
        /\ "updatedAt" \notin Touched(next).overdue
    BY <1>2, TouchedRow
  <1>4. /\ Touched(next) \in Stored
        /\ LatestQuestionRound(Touched(next)) = LatestQuestionRound(row)
    BY <1>2, <1>3, SameRounds DEF RunFits
  <1>5. Fail(row, error) = Touched(next)
    BY DEF Fail, next
  <1> QED
    BY <1>2, <1>3, <1>4, <1>5

(* Questions of a later round: that round is the latest then.              *)
LEMMA AskedRow ==
    ASSUME NEW row \in Stored, row.run # NoRun, NEW n \in Nat, n > LatestQuestionRound(row)
    PROVE  LET next == AskQuestions(row, n) IN
           /\ next \in Stored /\ next.status = "AWAITING_INPUT" /\ next.run = row.run
           /\ next.rounds # {} /\ next.error = row.error /\ next.progress = row.progress
           /\ LatestQuestionRound(next) = n
           /\ next.resumePending = row.resumePending /\ "updatedAt" \notin next.overdue
  <1> DEFINE next == [row EXCEPT !.status = "AWAITING_INPUT", !.rounds = @ \cup {n}]
             all  == row.rounds \cup {n}
  <1>1. row \in Rows /\ RoundsFit(row)
    BY DEF Stored
  <1>2. /\ next \in Rows /\ next.status = "AWAITING_INPUT" /\ next.run = row.run
        /\ next.rounds = all /\ next.error = row.error /\ next.progress = row.progress
        /\ next.resumePending = row.resumePending
    BY <1>1 DEF Rows, Row, ProcessingStatus
  <1> HIDE DEF next
  <1>3. /\ Touched(next) \in Rows
        /\ Touched(next).status = next.status /\ Touched(next).run = next.run
        /\ Touched(next).rounds = next.rounds /\ Touched(next).error = next.error
        /\ Touched(next).resumePending = next.resumePending
        /\ Touched(next).progress = next.progress
        /\ "updatedAt" \notin Touched(next).overdue
    BY <1>2, TouchedRow
  <1>4. \A x \in all : x \in Nat /\ x <= n
    <2>1. row.rounds \subseteq Nat
      BY <1>1 DEF Rows, Row
    <2> QED
      BY <1>1, <2>1 DEF RoundsFit
  <1>5. Max(all) = n
    <2>1. n \in all /\ \A y \in all : n >= y
      BY <1>4
    <2>2. Max(all) \in all /\ \A y \in all : Max(all) >= y
      BY <2>1 DEF Max
    <2>3. Max(all) >= n /\ n >= Max(all) /\ Max(all) \in Nat
      BY <2>1, <2>2, <1>4
    <2> QED
      BY <2>3
  <1>6. Touched(next).rounds = all /\ all # {}
    BY <1>2, <1>3
  <1>7. LatestQuestionRound(Touched(next)) = n
    BY <1>5, <1>6 DEF LatestQuestionRound
  <1>8. Touched(next) \in Stored
    BY <1>2, <1>3, <1>4, <1>6, <1>7 DEF Stored, RoundsFit, RunFits
  <1>9. AskQuestions(row, n) = Touched(next)
    BY DEF AskQuestions, next
  <1> QED
    BY <1>2, <1>3, <1>6, <1>7, <1>8, <1>9

(* A product that is diagnosed again has no run and no questions.          *)
LEMMA RetriedRow ==
    ASSUME NEW row \in Stored
    PROVE  LET next == RetryRow(row) IN
           /\ next \in Stored /\ next.status = "IN_PROGRESS" /\ next.run = NoRun
           /\ next.rounds = {} /\ next.error = NoError /\ next.progress = NoProgress
           /\ LatestQuestionRound(next) = 0
           /\ next.resumePending = row.resumePending /\ "updatedAt" \notin next.overdue
  <1> DEFINE next == [row EXCEPT !.status = "IN_PROGRESS", !.run = NoRun, !.error = NoError,
                                 !.rounds = {}, !.progress = NoProgress,
                                 !.overdue = @ \ {"requestedAt"}]
  <1>1. row \in Rows
    BY DEF Stored
  <1>2. /\ next \in Rows /\ next.status = "IN_PROGRESS" /\ next.run = NoRun
        /\ next.rounds = {} /\ next.error = NoError /\ next.progress = NoProgress
        /\ next.resumePending = row.resumePending
    BY <1>1 DEF Rows, Row, ProcessingStatus, NoProgress
  <1> HIDE DEF next
  <1>3. /\ Touched(next) \in Rows
        /\ Touched(next).status = next.status /\ Touched(next).run = next.run
        /\ Touched(next).rounds = next.rounds /\ Touched(next).error = next.error
        /\ Touched(next).resumePending = next.resumePending
        /\ Touched(next).progress = next.progress
        /\ "updatedAt" \notin Touched(next).overdue
    BY <1>2, TouchedRow
  <1>4. Touched(next) \in Stored /\ LatestQuestionRound(Touched(next)) = 0
    BY <1>2, <1>3, NoRounds DEF RunFits
  <1>5. RetryRow(row) = Touched(next)
    BY DEF RetryRow, next
  <1> QED
    BY <1>2, <1>3, <1>4, <1>5

(* A resume is pending; the time it became so stays.                       *)
LEMMA PendingResumeRow ==
    ASSUME NEW row \in Stored
    PROVE  LET next == MarkResumePending(row) IN
           /\ next \in Stored /\ next.status = row.status /\ next.run = row.run
           /\ next.rounds = row.rounds /\ next.error = row.error /\ next.progress = row.progress
           /\ LatestQuestionRound(next) = LatestQuestionRound(row)
           /\ next.resumePending = TRUE
           /\ (row.resumePending /\ next = row) \/ "updatedAt" \notin next.overdue
  <1> DEFINE next == [row EXCEPT !.resumePending = TRUE]
  <1>1. row \in Rows /\ row.resumePending \in BOOLEAN /\ RunFits(row)
    BY DEF Stored, Rows, Row
  <1>2. /\ next \in Rows /\ next.status = row.status /\ next.run = row.run
        /\ next.rounds = row.rounds /\ next.error = row.error /\ next.progress = row.progress
        /\ next.resumePending = TRUE
    BY <1>1 DEF Rows, Row
  <1> HIDE DEF next
  <1>3. /\ Touched(next) \in Rows
        /\ Touched(next).status = next.status /\ Touched(next).run = next.run
        /\ Touched(next).rounds = next.rounds /\ Touched(next).error = next.error
        /\ Touched(next).resumePending = next.resumePending
        /\ Touched(next).progress = next.progress
        /\ "updatedAt" \notin Touched(next).overdue
    BY <1>2, TouchedRow
  <1>4. /\ Touched(next) \in Stored
        /\ LatestQuestionRound(Touched(next)) = LatestQuestionRound(row)
    BY <1>1, <1>2, <1>3, SameRounds DEF RunFits
  <1>5. CASE row.resumePending = TRUE
    <2>1. MarkResumePending(row) = row
      BY <1>5 DEF MarkResumePending
    <2> QED
      BY <1>5, <2>1
  <1>6. CASE row.resumePending = FALSE
    <2>1. MarkResumePending(row) = Touched(next)
      BY <1>6 DEF MarkResumePending, next
    <2> QED
      BY <1>2, <1>3, <1>4, <2>1
  <1> QED
    BY <1>1, <1>5, <1>6

(* Progress and passing deadlines are all that may differ.                 *)
Alike(row, next) ==
    /\ next \in Stored /\ next.status = row.status /\ next.run = row.run
    /\ next.rounds = row.rounds /\ LatestQuestionRound(next) = LatestQuestionRound(row)
    /\ next.error = row.error /\ next.resumePending = row.resumePending

LEMMA ProgressRow ==
    ASSUME NEW row \in Stored, NEW run \in Run, NEW n \in Nat
    PROVE  LET next == RecordProgress(row, run, n) IN
           Alike(row, next) /\ next.overdue = row.overdue
  <1> DEFINE next == [row EXCEPT !.progress = [run |-> run, number |-> n]]
  <1>1. row \in Rows /\ RunFits(row)
    BY DEF Stored
  <1>2. /\ next \in Rows /\ next.status = row.status /\ next.run = row.run
        /\ next.rounds = row.rounds /\ next.error = row.error
        /\ next.resumePending = row.resumePending /\ next.overdue = row.overdue
    BY <1>1 DEF Rows, Row
  <1> HIDE DEF next
  <1>3. next \in Stored /\ LatestQuestionRound(next) = LatestQuestionRound(row)
    BY <1>1, <1>2, SameRounds DEF RunFits
  <1>4. RecordProgress(row, run, n) \in {row, next}
    BY DEF RecordProgress, next
  <1> QED
    BY <1>2, <1>3, <1>4 DEF Alike

LEMMA ElapsedRow ==
    ASSUME NEW row \in Stored, NEW clock \in Clocks
    PROVE  LET next == [row EXCEPT !.overdue = @ \cup {clock}] IN
           Alike(row, next) /\ next.overdue = row.overdue \cup {clock} /\ next.progress = row.progress
  <1> DEFINE next == [row EXCEPT !.overdue = @ \cup {clock}]
  <1>1. row \in Rows /\ RunFits(row)
    BY DEF Stored
  <1>2. /\ next \in Rows /\ next.status = row.status /\ next.run = row.run
        /\ next.rounds = row.rounds /\ next.error = row.error /\ next.progress = row.progress
        /\ next.resumePending = row.resumePending /\ next.overdue = row.overdue \cup {clock}
    BY <1>1 DEF Rows, Row
  <1> HIDE DEF next
  <1>3. next \in Stored /\ LatestQuestionRound(next) = LatestQuestionRound(row)
    BY <1>1, <1>2, SameRounds DEF RunFits
  <1> QED
    BY <1>2, <1>3 DEF Alike, next

(* A product the user has just asked about.                                *)
LEMMA NewRow ==
    LET next == StartDiagnoses(Pending) IN
    /\ next \in Stored /\ next.status = "IN_PROGRESS" /\ next.run = NoRun
    /\ next.rounds = {} /\ next.error = NoError /\ next.progress = NoProgress
    /\ LatestQuestionRound(next) = 0
    /\ next.resumePending = FALSE /\ "updatedAt" \notin next.overdue
  <1>1. /\ Pending \in Rows /\ Pending.run = NoRun /\ Pending.rounds = {}
        /\ Pending.status = "PENDING"
        /\ Pending.error = NoError /\ Pending.resumePending = FALSE
        /\ Pending.progress = NoProgress
    BY DEF Pending, Rows, Row, ProcessingStatus, NoProgress
  <1>2. Pending \in Stored /\ LatestQuestionRound(Pending) = 0
    BY <1>1, NoRounds DEF RunFits
  <1>3. Becomes(Pending, StartDiagnoses(Pending), "IN_PROGRESS")
    BY <1>2, StartedRow
  <1> QED
    BY <1>1, <1>2, <1>3 DEF Becomes

-----------------------------------------------------------------------------
(* Callbacks, as fewer of them are on their way or one is told.            *)

LEMMA FewerMessages ==
    ASSUME NEW s \in Session, NEW ms, NEW some \in SUBSET ms,
           NEW last \in Nat, NEW more \in Nat, last <= more,
           ms \subseteq Callback, Messages(s, ms, last)
    PROVE  Messages(s, some, more)
  BY DEF Messages, Callback, Run

(* A forgotten session says nothing of any run.                            *)
LEMMA ForgottenMessages ==
    ASSUME NEW s \in Session, NEW ms, NEW some \in SUBSET ms, NEW last \in Nat,
           ms \subseteq Callback, Messages(s, ms, last)
    PROVE  Messages(NoSession, some, last)
  BY DEF Messages, Callback, Run, NoSession, NoRun

(* A new session has a run no callback is of.                              *)
LEMMA NewMessages ==
    ASSUME NEW s \in Session, NEW next \in Session, NEW ms, NEW last \in Nat, NEW more \in Nat,
           last < next.run, next.run <= more, ms \subseteq Callback, Messages(s, ms, last)
    PROVE  Messages(next, ms, more)
  BY DEF Messages, Callback, Run, Session, NoRun

(* An unfinished session told nothing but progress of its run, so the      *)
(* questions or the end it tells are the first.                            *)
LEMMA ToldMessages ==
    ASSUME NEW s \in Session, NEW next \in Session, NEW ms, NEW told \in SUBSET Callback,
           NEW last \in Nat, NEW new \in Callback,
           s.status \in Unfinished, next.run = s.run, new.run = s.run, Fits(next, new),
           s.run <= last, told \subseteq ms \cup {new},
           ms \subseteq Callback, Messages(s, ms, last)
    PROVE  Messages(next, told, last)
  <1>1. \A m \in ms : m.run = s.run => m.kind = "progress"
    BY DEF Messages, Fits, Unfinished
  <1>2. \A m \in told : m = new \/ m \in ms
    OBVIOUS
  <1>3. \A m \in told : /\ m.run <= last /\ m.run <= next.run
                        /\ m.run = next.run => Fits(next, m)
    <2> TAKE m \in told
    <2>1. CASE m = new
      <3>1. s.run \in Nat
        BY DEF Session, Run, NoRun
      <3> QED
        BY <2>1, <3>1
    <2>2. CASE m \in ms
      <3>1. m.run <= last /\ m.run <= s.run
        BY <2>2 DEF Messages, Unfinished
      <3>2. m.run = s.run => Fits(next, m)
        BY <2>2, <1>1 DEF Fits
      <3> QED
        BY <3>1, <3>2
    <2> QED
      BY <1>2, <2>1, <2>2
  <1>4. \A m, n \in told : m.run = n.run /\ m.kind # "progress" /\ n.kind # "progress" => m = n
    BY <1>1, <1>2 DEF Messages
  <1> QED
    BY <1>3, <1>4 DEF Messages

-----------------------------------------------------------------------------
(* A row, as the session it is about moves on.                             *)

(* What a session may do without a request: report, ask, end, be forgotten *)
(* or lost, and tell of it as long as it runs.                             *)
Moves(s, next, ms, told) ==
    /\ \/ next.status = s.status /\ next.run = s.run /\ next.round = s.round
       \/ next = NoSession
       \/ (s.status \in Unfinished /\ next.status # "none" /\ next.run = s.run)
    /\ \A m \in told : \/ m \in ms \/ m.kind = "progress"
                       \/ s.status \in Unfinished /\ m.run = s.run

LEMMA BehindStays ==
    ASSUME NEW row \in Stored, NEW s \in Session, NEW next \in Session, NEW ms, NEW told,
           Moves(s, next, ms, told), Behind(row, ms),
           s.status \notin Unfinished \/ row.run < s.run
    PROVE  Behind(row, told)
  <1>1. row.run \in Nat /\ s.run \in Nat
    BY DEF Stored, Rows, Row, Session, Run, NoRun
  <1>2. SUFFICES ASSUME NEW m \in told, m.run = row.run
                 PROVE  \/ m.kind = "progress"
                        \/ m.kind = "questions" /\ m.number <= LatestQuestionRound(row)
    BY DEF Behind
  <1>3. m \in ms \/ m.kind = "progress"
    BY <1>1, <1>2 DEF Moves
  <1> QED
    BY <1>2, <1>3 DEF Behind

LEMMA KnownOrAhead ==
    ASSUME NEW row \in Stored, NEW s \in Session, NEW next \in Session, NEW ms, NEW told,
           Moves(s, next, ms, told), Known(row, s) \/ Ahead(row, s)
    PROVE  /\ Known(row, next) \/ Ahead(row, next)
           /\ Known(row, s) => Known(row, next)
           /\ s.status \notin Unfinished \/ row.run < s.run
  BY DEF Moves, Known, Ahead, NoSession, Unfinished

LEMMA SessionMoves ==
    ASSUME NEW row \in Stored, NEW s \in Session, NEW next \in Session, NEW ms, NEW told,
           NEW last \in Nat, Moves(s, next, ms, told), RowFits(row, s, ms, last)
    PROVE  RowFits(row, next, told, last)
  <1>1. row.run <= last
    BY DEF RowFits
  <1>2. row.run # NoRun /\ next.status # "none" => row.run <= next.run
    BY DEF RowFits, Moves, NoSession, Unfinished
  <1>3. row.status = "AWAITING_INPUT" =>
          /\ row.run # NoRun /\ row.rounds # {} /\ ~row.resumePending
          /\ Behind(row, told) /\ Known(row, next)
    <2> HAVE row.status = "AWAITING_INPUT"
    <2>1. /\ row.run # NoRun /\ row.rounds # {} /\ ~row.resumePending
          /\ Behind(row, ms) /\ Known(row, s)
      BY DEF RowFits
    <2> QED
      BY <2>1, KnownOrAhead, BehindStays
  <1>4. row.status = "COMPLETED" =>
          /\ row.run # NoRun /\ ~row.resumePending
          /\ next.status = "none" \/ (next.status = "ended" /\ next.run = row.run)
    BY DEF RowFits, Moves, NoSession, Unfinished
  <1>5. row.resumePending =>
          /\ row.run # NoRun /\ row.rounds # {} /\ Behind(row, told)
          /\ Known(row, next) \/ Ahead(row, next)
    <2> HAVE row.resumePending
    <2>1. row.run # NoRun /\ row.rounds # {} /\ Behind(row, ms) /\ (Known(row, s) \/ Ahead(row, s))
      BY DEF RowFits
    <2> QED
      BY <2>1, KnownOrAhead, BehindStays
  <1>6. row.run # NoRun /\ Ahead(row, next) => Behind(row, told)
    <2> HAVE row.run # NoRun /\ Ahead(row, next)
    <2>1. Ahead(row, s)
      BY DEF Moves, Ahead, NoSession, Unfinished
    <2>2. Behind(row, ms) /\ row.run < s.run
      BY <2>1 DEF RowFits, Ahead
    <2> QED
      BY <2>2, BehindStays
  <1> QED
    BY <1>1, <1>2, <1>3, <1>4, <1>5, <1>6 DEF RowFits

LEMMA CallMoves ==
    ASSUME NEW row \in Stored, NEW s \in Session, NEW next \in Session, NEW ms, NEW told,
           NEW call, NEW p, Moves(s, next, ms, told), CallFits(call, p, row, s, ms)
    PROVE  CallFits(call, p, row, next, told)
  <1>1. call.kind = "resume" =>
          /\ Behind(row, told) /\ (Known(row, next) \/ Ahead(row, next))
          /\ Known(row, s) => Known(row, next)
    <2> HAVE call.kind = "resume"
    <2>1. Behind(row, ms) /\ (Known(row, s) \/ Ahead(row, s))
      BY DEF CallFits
    <2> QED
      BY <2>1, KnownOrAhead, BehindStays
  <1>2. call.answer.outcome = "accepted" =>
          next.status = "none" \/ (next.run = call.answer.runs[p] /\ row.run < next.run)
    BY DEF CallFits, Moves, NoSession, Unfinished
  <1> QED
    BY <1>1, <1>2 DEF CallFits

-----------------------------------------------------------------------------
(* A row, as the backend changes it.  What is called fits the row it finds.*)

(* Fewer callbacks and later run ids change nothing.                       *)
LEMMA FewerFit ==
    ASSUME NEW row \in Stored, NEW s \in Session, NEW ms, NEW some \in SUBSET ms,
           NEW last \in Nat, NEW more \in Nat, last <= more
    PROVE  /\ Behind(row, ms) => Behind(row, some)
           /\ RowFits(row, s, ms, last) => RowFits(row, s, some, more)
           /\ \A call, p : CallFits(call, p, row, s, ms) => CallFits(call, p, row, s, some)
  <1>1. Behind(row, ms) => Behind(row, some)
    BY DEF Behind
  <1>2. row.run \in Nat
    BY DEF Stored, Rows, Row, Run, NoRun
  <1>3. row.run <= last => row.run <= more
    BY <1>2
  <1> QED
    BY <1>1, <1>3 DEF RowFits, CallFits

(* Progress of a row and a deadline that passes unseen by a request.       *)
LEMMA AlikeFits ==
    ASSUME NEW row \in Stored, NEW next, NEW s \in Session, NEW ms, NEW last \in Nat,
           Alike(row, next), RowFits(row, s, ms, last),
           row.resumePending /\ "updatedAt" \in next.overdue => "resumePendingSince" \in next.overdue
    PROVE  /\ RowFits(next, s, ms, last)
           /\ \A call, p : CallFits(call, p, row, s, ms) /\ "updatedAt" \notin next.overdue
                             => CallFits(call, p, next, s, ms)
  <1>1. Behind(row, ms) => Behind(next, ms)
    BY DEF Behind, Alike
  <1>2. /\ Known(row, s) => Known(next, s)
        /\ Ahead(row, s) <=> Ahead(next, s)
    BY DEF Known, Ahead, Alike
  <1>3. RowFits(next, s, ms, last)
    BY <1>1, <1>2 DEF RowFits, Alike
  <1>4. ASSUME NEW call, NEW p, CallFits(call, p, row, s, ms), "updatedAt" \notin next.overdue
        PROVE  CallFits(call, p, next, s, ms)
    BY <1>1, <1>2, <1>4 DEF CallFits, Alike
  <1> QED
    BY <1>3, <1>4

(* A product of a new row of diagnoses, or one that is diagnosed again.    *)
LEMMA FreshFits ==
    ASSUME NEW row \in Stored, NEW s \in Session, NEW ms, NEW last \in Nat, NEW products, NEW p,
           row.status = "IN_PROGRESS", row.run = NoRun, row.resumePending = FALSE,
           "updatedAt" \notin row.overdue, row.error # "RESUME_CONFLICT"
    PROVE  RowFits(row, s, ms, last) /\ CallFits(Diagnose(products), p, row, s, ms)
  BY DEF RowFits, CallFits, Diagnose, Open, NoRun

(* PENDING and back.                                                       *)
LEMMA StartedFits ==
    ASSUME NEW row \in Stored, NEW s \in Session, NEW ms, NEW last \in Nat, NEW products, NEW p,
           row.status = "PENDING", RowFits(row, s, ms, last)
    PROVE  /\ RowFits(StartDiagnoses(row), s, ms, last)
           /\ CallFits(Diagnose(products), p, StartDiagnoses(row), s, ms)
  <1>1. Becomes(row, StartDiagnoses(row), "IN_PROGRESS")
    BY StartedRow
  <1>2. row.run = NoRun /\ ~row.resumePending /\ row.error # "RESUME_CONFLICT"
    BY DEF RowFits
  <1>3. row.resumePending = FALSE
    BY <1>2 DEF Stored, Rows, Row
  <1> QED
    BY <1>1, <1>2, <1>3, FreshFits DEF Becomes

LEMMA ReturnedFits ==
    ASSUME NEW row \in Stored, NEW s \in Session, NEW ms, NEW last \in Nat,
           row.run = NoRun, RowFits(row, s, ms, last)
    PROVE  RowFits(ReturnToPending(row), s, ms, last)
  <1>1. Becomes(row, ReturnToPending(row), "PENDING")
    BY ReturnedRow
  <1> QED
    BY <1>1 DEF RowFits, Becomes, NoRun

(* The run of the session there is, or of one that is gone.                *)
LEMMA AssignedFits ==
    ASSUME NEW row \in Stored, NEW s \in Session, NEW ms, NEW last \in Nat, NEW run \in Run,
           row.status = "IN_PROGRESS", run <= last,
           s.status = "none" \/ s.run = run, RowFits(row, s, ms, last)
    PROVE  RowFits(AssignRun(row, run), s, ms, last)
  <1> DEFINE next == AssignRun(row, run)
  <1>1. /\ next \in Stored /\ next.status = row.status /\ next.run = run
        /\ next.error = row.error /\ next.resumePending = FALSE /\ "updatedAt" \notin next.overdue
    BY AssignedRow
  <1> HIDE DEF next
  <1>2. row.error # "RESUME_CONFLICT"
    BY DEF RowFits
  <1>3. run \in Nat
    BY DEF Run
  <1>4. ~Ahead(next, s)
    BY <1>1, <1>3 DEF Ahead
  <1>5. run <= s.run \/ s.status = "none"
    BY <1>3
  <1>6. RowFits(next, s, ms, last)
    BY <1>1, <1>2, <1>4, <1>5 DEF RowFits
  <1> QED
    BY <1>6 DEF next

(* A failed product has no resume pending; the reason is not the one that  *)
(* blames a first resume.                                                  *)
LEMMA FailedFits ==
    ASSUME NEW row \in Stored, NEW s \in Session, NEW ms, NEW last \in Nat, NEW error \in Errors,
           error # "RESUME_CONFLICT", RowFits(row, s, ms, last)
    PROVE  RowFits(Fail(row, error), s, ms, last)
  <1> DEFINE next == Fail(row, error)
  <1>1. /\ next \in Stored /\ next.status = "FAILED" /\ next.run = row.run
        /\ next.error = error /\ next.resumePending = FALSE /\ "updatedAt" \notin next.overdue
        /\ LatestQuestionRound(next) = LatestQuestionRound(row)
    BY FailedRow
  <1> HIDE DEF next
  <1>2. Behind(row, ms) => Behind(next, ms)
    BY <1>1 DEF Behind
  <1>3. Ahead(next, s) => Ahead(row, s)
    BY <1>1 DEF Ahead
  <1>4. RowFits(next, s, ms, last)
    BY <1>1, <1>2, <1>3 DEF RowFits
  <1> QED
    BY <1>4 DEF next

(* The answers are sent to the session that asked.                         *)
LEMMA AnsweredFits ==
    ASSUME NEW row \in Stored, NEW s \in Session, NEW ms, NEW last \in Nat, NEW p, NEW call,
           row.status = "AWAITING_INPUT", RowFits(row, s, ms, last),
           call.kind = "resume", call.run = row.run, call.round = LatestQuestionRound(row),
           call.answer = Open
    PROVE  /\ RowFits(AnswerQuestions(row), s, ms, last)
           /\ CallFits(call, p, AnswerQuestions(row), s, ms)
  <1> DEFINE next == AnswerQuestions(row)
  <1>1. Becomes(row, next, "IN_PROGRESS")
    BY AnsweredRow
  <1> HIDE DEF next
  <1>2. /\ row.run # NoRun /\ row.rounds # {} /\ ~row.resumePending
        /\ Behind(row, ms) /\ Known(row, s)
    BY DEF RowFits
  <1>3. Behind(next, ms) /\ Known(next, s)
    BY <1>1, <1>2 DEF Behind, Known, Becomes
  <1>4. RowFits(next, s, ms, last)
    BY <1>1, <1>2, <1>3 DEF RowFits, Becomes
  <1>5. CallFits(call, p, next, s, ms)
    BY <1>1, <1>2, <1>3 DEF CallFits, Becomes, Open
  <1> QED
    BY <1>4, <1>5 DEF next

(* A resume that was not received is sent again, so long as it fits.       *)
LEMMA PendingResumeFits ==
    ASSUME NEW row \in Stored, NEW s \in Session, NEW ms, NEW last \in Nat, NEW p, NEW call,
           RowFits(row, s, ms, last), CallFits(call, p, row, s, ms), call.kind = "resume"
    PROVE  RowFits(MarkResumePending(row), s, ms, last)
  <1> DEFINE next == MarkResumePending(row)
  <1>1. /\ next \in Stored /\ next.status = row.status /\ next.run = row.run
        /\ next.rounds = row.rounds /\ next.error = row.error
        /\ LatestQuestionRound(next) = LatestQuestionRound(row)
        /\ next.resumePending = TRUE
        /\ (row.resumePending /\ next = row) \/ "updatedAt" \notin next.overdue
    BY PendingResumeRow
  <1> HIDE DEF next
  <1>2. /\ row.status = "IN_PROGRESS" /\ row.run # NoRun /\ row.rounds # {}
        /\ Behind(row, ms) /\ (Known(row, s) \/ Ahead(row, s))
        /\ "updatedAt" \notin row.overdue
    BY DEF CallFits
  <1>3. Behind(next, ms) /\ (Known(next, s) \/ Ahead(next, s))
    BY <1>1, <1>2 DEF Behind, Known, Ahead
  <1>4. RowFits(next, s, ms, last)
    BY <1>1, <1>2, <1>3 DEF RowFits
  <1> QED
    BY <1>4 DEF next

(* The scheduler sends again what the row says was not received.           *)
LEMMA ResentFits ==
    ASSUME NEW row \in Stored, NEW s \in Session, NEW ms, NEW last \in Nat, NEW p, NEW call,
           row.status = "IN_PROGRESS", row.resumePending, "resumePendingSince" \notin row.overdue,
           RowFits(row, s, ms, last),
           call.kind = "resume", call.run = row.run, call.round = LatestQuestionRound(row),
           call.resend = TRUE, call.answer = Open
    PROVE  CallFits(call, p, row, s, ms)
  BY DEF RowFits, CallFits, Open

-----------------------------------------------------------------------------
(* A callback of the row's run that has something new to say.              *)
News(row, m) ==
    /\ m.run = row.run /\ m.kind # "progress"
    /\ m.kind = "questions" => m.number > LatestQuestionRound(row)

(* It comes only while nobody waits for an answer about the product, and   *)
(* no resume is pending; and it is of the session's last run.              *)
LEMMA NewsFits ==
    ASSUME NEW row \in Stored, NEW s \in Session, NEW ms \in SUBSET Callback, NEW last \in Nat,
           NEW m \in ms, News(row, m), RowFits(row, s, ms, last), Messages(s, ms, last)
    PROVE  /\ row.run # NoRun /\ row.resumePending = FALSE
           /\ ~Behind(row, ms)
           /\ s.status = "none" \/ (s.run = row.run /\ Fits(s, m))
           /\ \A call, p : call.kind \in {"diagnose", "resume"} => ~CallFits(call, p, row, s, ms)
  <1>1. row.run # NoRun /\ row.run \in Nat /\ s.run \in Nat
    BY DEF News, Callback, Run, NoRun, Session
  <1>2. ~Behind(row, ms)
    <2>1. m.number \in Nat /\ LatestQuestionRound(row) \in Nat
      BY DEF Callback, Stored, RoundsFit
    <2>2. m.kind = "questions" => ~(m.number <= LatestQuestionRound(row))
      BY <2>1 DEF News
    <2> QED
      BY <2>2 DEF News, Behind
  <1>3. row.resumePending = FALSE
    BY <1>2 DEF RowFits, Stored, Rows, Row
  <1>4. ~Ahead(row, s)
    BY <1>1, <1>2 DEF RowFits
  <1>5. s.status # "none" => s.run = row.run /\ Fits(s, m)
    <2> HAVE s.status # "none"
    <2>1. row.run <= s.run /\ ~(row.run < s.run)
      BY <1>1, <1>4 DEF RowFits, Ahead
    <2>2. s.run = row.run
      BY <1>1, <2>1
    <2> QED
      BY <2>2 DEF Messages, News
  <1>6. ASSUME NEW call, NEW p, call.kind \in {"diagnose", "resume"}, CallFits(call, p, row, s, ms)
        PROVE  FALSE
    BY <1>1, <1>2, <1>6 DEF CallFits
  <1> QED
    BY <1>1, <1>2, <1>3, <1>5, <1>6

(* Questions: the session waits for just these answers.                    *)
LEMMA AskedFits ==
    ASSUME NEW row \in Stored, NEW s \in Session, NEW ms \in SUBSET Callback, NEW last \in Nat,
           NEW m \in ms, m.kind = "questions", m.run = row.run,
           m.number > LatestQuestionRound(row),
           RowFits(row, s, ms, last), Messages(s, ms, last)
    PROVE  RowFits(AskQuestions(row, m.number), s, ms, last)
  <1> DEFINE next == AskQuestions(row, m.number)
  <1>1. m.number \in Nat /\ row.run # NoRun
    BY DEF Callback, Run, NoRun
  <1>2. /\ next \in Stored /\ next.status = "AWAITING_INPUT" /\ next.run = row.run
        /\ next.rounds # {} /\ next.error = row.error
        /\ LatestQuestionRound(next) = m.number
        /\ next.resumePending = row.resumePending /\ "updatedAt" \notin next.overdue
    BY <1>1, AskedRow
  <1> HIDE DEF next
  <1>3. News(row, m)
    BY DEF News
  <1>4. /\ row.run # NoRun /\ row.resumePending = FALSE
        /\ s.status = "none" \/ (s.run = row.run /\ Fits(s, m))
    BY <1>3, NewsFits
  <1>5. Behind(next, ms)
    <2>1. \A n \in ms : n.run = next.run /\ n.kind # "progress" => n = m
      BY <1>2 DEF Messages
    <2>2. m.number <= LatestQuestionRound(next)
      BY <1>1, <1>2
    <2> QED
      BY <2>1, <2>2 DEF Behind
  <1>6. Known(next, s)
    BY <1>2, <1>4 DEF Known, Fits
  <1>7. RowFits(next, s, ms, last)
    BY <1>2, <1>4, <1>5, <1>6 DEF RowFits
  <1> QED
    BY <1>7 DEF next

(* A result: the session has ended with it.                                *)
LEMMA CompletedFits ==
    ASSUME NEW row \in Stored, NEW s \in Session, NEW ms \in SUBSET Callback, NEW last \in Nat,
           NEW m \in ms, m.kind = "result", m.run = row.run,
           RowFits(row, s, ms, last), Messages(s, ms, last)
    PROVE  RowFits(Complete(row), s, ms, last)
  <1> DEFINE next == Complete(row)
  <1>1. Becomes(row, next, "COMPLETED")
    <2>1. row.run # NoRun
      BY DEF Callback, Run, NoRun
    <2> QED
      BY <2>1, CompletedRow
  <1> HIDE DEF next
  <1>2. News(row, m)
    BY DEF News
  <1>3. /\ row.run # NoRun /\ row.resumePending = FALSE
        /\ s.status = "none" \/ (s.run = row.run /\ Fits(s, m))
    BY <1>2, NewsFits
  <1>4. s.status = "none" \/ (s.run = row.run /\ s.status = "ended")
    BY <1>3 DEF Fits
  <1>5. row.run \in Nat /\ s.run \in Nat
    BY DEF Stored, Rows, Row, Session, Run, NoRun
  <1>6. ~Ahead(next, s) /\ (s.status # "none" => row.run <= s.run)
    BY <1>1, <1>4, <1>5 DEF Ahead, Becomes
  <1>7. RowFits(next, s, ms, last)
    BY <1>1, <1>3, <1>4, <1>6 DEF RowFits, Becomes
  <1> QED
    BY <1>7 DEF next

-----------------------------------------------------------------------------
(* The AI server answers a request.                                        *)

(* A new session for the products of a request: their rows know no run.    *)
LEMMA SubmittedFits ==
    ASSUME NEW row \in Stored, NEW s \in Session, NEW next \in Session, NEW ms,
           NEW last \in Nat, NEW more \in Nat, last <= more, NEW p, NEW call, NEW answered,
           RowFits(row, s, ms, last), CallFits(call, p, row, s, ms), call.kind = "diagnose",
           last < next.run, answered.kind = "diagnose", answered.answer.runs[p] = next.run
    PROVE  RowFits(row, next, ms, more) /\ CallFits(answered, p, row, next, ms)
  <1>1. row.run = NoRun /\ row.status = "IN_PROGRESS" /\ "updatedAt" \notin row.overdue
    BY DEF CallFits
  <1>2. row.run <= more /\ row.run < next.run
    BY <1>1 DEF NoRun, Session, Run
  <1>3. RowFits(row, next, ms, more)
    BY <1>1, <1>2 DEF RowFits
  <1>4. answered.kind # "resume" /\ next.run = answered.answer.runs[p]
    OBVIOUS
  <1>5. CallFits(answered, p, row, next, ms)
    BY <1>1, <1>2, <1>4 DEF CallFits
  <1> QED
    BY <1>3, <1>5

(* The session of a resume goes on with a later run.                       *)
LEMMA ResumedFits ==
    ASSUME NEW row \in Stored, NEW s \in Session, NEW next \in Session, NEW ms,
           NEW last \in Nat, NEW more \in Nat, last <= more, NEW p, NEW call, NEW answered,
           RowFits(row, s, ms, last), CallFits(call, p, row, s, ms), call.kind = "resume",
           last < next.run, next.status # "none",
           answered.kind = "resume", answered.run = call.run, answered.round = call.round,
           answered.resend = call.resend,
           answered.answer.outcome = "accepted", answered.answer.runs[p] = next.run
    PROVE  RowFits(row, next, ms, more) /\ CallFits(answered, p, row, next, ms)
  <1>1. /\ row.status = "IN_PROGRESS" /\ "updatedAt" \notin row.overdue
        /\ row.run = call.run /\ row.run # NoRun /\ row.rounds # {}
        /\ LatestQuestionRound(row) = call.round /\ Behind(row, ms)
        /\ ~call.resend => ~row.resumePending
    BY DEF CallFits
  <1>2. row.run <= last /\ row.run \in Nat /\ next.run \in Nat
    BY DEF RowFits, Stored, Rows, Row, Session, Run, NoRun
  <1>3. row.run <= more /\ row.run < next.run /\ row.run <= next.run
    BY <1>2
  <1>4. Ahead(row, next)
    BY <1>3 DEF Ahead
  <1>5. RowFits(row, next, ms, more)
    BY <1>1, <1>3, <1>4 DEF RowFits
  <1>6. answered.answer # Open
    BY DEF Open
  <1> QED
    BY <1>1, <1>3, <1>4, <1>5, <1>6 DEF CallFits

(* A resume the server refuses.  The first resume finds its session.       *)
LEMMA RefusedFits ==
    ASSUME NEW row \in Stored, NEW s \in Session, NEW ms, NEW p, NEW call, NEW answered,
           CallFits(call, p, row, s, ms), call.answer = Open,
           answered.kind = call.kind, call.kind = "resume" => answered.run = call.run
             /\ answered.round = call.round /\ answered.resend = call.resend,
           answered.answer.outcome \in {"conflict", "not_found"},
           call.kind = "resume" /\ answered.answer.outcome = "conflict" =>
             s.status # "none" /\ ~(s.status = "waiting" /\ s.run = call.run /\ s.round = call.round)
    PROVE  CallFits(answered, p, row, s, ms)
  BY DEF CallFits, Known, Open

-----------------------------------------------------------------------------
(* Transactions of the backend.                                            *)

(* What a transaction about the products who leaves behind, if it is a     *)
(* good one: the callbacks and the sessions are as they were.              *)
Transacted(who) ==
    /\ RowTypes' /\ OverallStatus' /\ (overall' = NoRow => overall = NoRow)
    /\ \A p \in Product : p \notin who => rows'[p] = rows[p]
    /\ \A p \in Product : rows'[p] # NoRow => RowFine(p, rows'[p])

LEMMA StoredRow ==
    ASSUME NEW row \in Stored
    PROVE  row # NoRow /\ row.run \in Nat /\ row.status \in ProcessingStatus
  <1>1. row \in Row(Run, Nat, Nat)
    BY DEF Stored, Rows
  <1>2. row \in Row(Nat, Nat, Nat)
    BY <1>1 DEF Row, Run, NoRun
  <1> QED
    BY <1>1, <1>2, NoRowAssumption DEF Row, Run, NoRun

(* The row of diagnoses is there once its status was stored.               *)
LEMMA RefreshedStatus ==
    ASSUME NEW rs, Refresh(rs)
    PROVE  OverallStatus' /\ overall' # NoRow
  <1>1. overall' = Overall(rs) /\ rows' = rs
    BY DEF Refresh
  <1>2. Overall(rs) \in ProcessingStatus \cup {"DELETED"}
    BY DEF Overall, ProcessingStatusOf, ProcessingStatus
  <1>3. overall' # NoRow
    BY <1>1, <1>2, NoRowAssumption
  <1> QED
    BY <1>1, <1>3 DEF OverallStatus, Overall, Existing

(* A transaction that changes no status need not store the overall one.    *)
LEMMA SavedStatus ==
    ASSUME OverallStatus, overall' = overall,
           \A p \in Product : /\ rows'[p] = NoRow <=> rows[p] = NoRow
                              /\ rows[p] # NoRow => rows'[p].status = rows[p].status
    PROVE  OverallStatus'
  <1>1. Existing(rows') = Existing(rows)
    BY DEF Existing
  <1>2. {rows'[p].status : p \in Existing(rows')} = {rows[p].status : p \in Existing(rows)}
    BY <1>1 DEF Existing
  <1>3. Overall(rows') = Overall(rows)
    BY <1>1, <1>2 DEF Overall
  <1> QED
    BY <1>1, <1>3 DEF OverallStatus

LEMMA NothingStored ==
    ASSUME Inv, UNCHANGED dbVars
    PROVE  Transacted({})
  <1>1. rows' = rows /\ overall' = overall
    BY DEF dbVars
  <1>2. RowTypes' /\ OverallStatus'
    BY <1>1 DEF Inv, Types, RowTypes, OverallStatus, Overall, Existing
  <1> QED
    BY <1>1, <1>2 DEF Transacted, Inv, ProductFits

LEMMA RefreshStores ==
    ASSUME Inv, NEW rs \in [Product -> Stored \cup {NoRow}], NEW who, Refresh(rs),
           \A p \in Product : /\ p \notin who => rs[p] = rows[p]
                              /\ rs[p] # NoRow => RowFine(p, rs[p])
    PROVE  Transacted(who)
  <1>1. rows' = rs
    BY DEF Refresh
  <1>2. OverallStatus' /\ overall' # NoRow
    BY RefreshedStatus
  <1>3. RowTypes'
    BY <1>1 DEF RowTypes
  <1> QED
    BY <1>1, <1>2, <1>3 DEF Transacted

LEMMA SaveStores ==
    ASSUME Inv, NEW rs \in [Product -> Stored \cup {NoRow}], NEW who, Save(rs),
           \A p \in Product :
             /\ p \notin who => rs[p] = rows[p]
             /\ p \in who /\ rs[p] # rows[p] =>
                  /\ rows[p] # NoRow /\ rs[p] \in Stored /\ rs[p].status = rows[p].status
                  /\ RowFine(p, rs[p])
    PROVE  Transacted(who)
  <1>1. rows' = rs /\ overall' = overall
    BY DEF Save
  <1>2. \A p \in Product : /\ rows'[p] = NoRow <=> rows[p] = NoRow
                           /\ rows[p] # NoRow => rows'[p].status = rows[p].status
    BY <1>1, StoredRow
  <1>3. OverallStatus'
    BY <1>1, <1>2, SavedStatus DEF Inv
  <1>4. RowTypes'
    BY <1>1 DEF RowTypes
  <1>5. \A p \in Product : rows[p] # NoRow => RowFine(p, rows[p])
    BY DEF Inv, ProductFits
  <1>6. \A p \in Product : rows'[p] # NoRow => RowFine(p, rows'[p])
    BY <1>1, <1>2, <1>5
  <1> QED
    BY <1>1, <1>3, <1>4, <1>6 DEF Transacted

(* After a good transaction and with the requests in order, the invariant  *)
(* holds, whatever callbacks are gone.                                     *)
LEMMA TransactionKeeps ==
    ASSUME Inv, NEW who, Transacted(who), LaneTypes',
           ai' = ai, archive' = archive, issued' = issued, astray' = astray,
           \A p \in Product : OnTheWay(p)' \subseteq OnTheWay(p),
           CallTypes', Created', OneCall',
           \A c \in Caller, p \in Product :
             calls'[c] # NoCall /\ p \in calls'[c].products /\ rows'[p] # NoRow =>
               \/ p \notin who /\ calls'[c] = calls[c]
               \/ CallFine(calls'[c], p, rows'[p])
    PROVE  Inv'
  <1>1. RowTypes' /\ OverallStatus'
    BY DEF Transacted
  <1>2. SessionTypes'
    BY DEF Inv, Types, SessionTypes, SessionType
  <1>3. ASSUME NEW p \in Sound PROVE ProductFits(p)'
    <2> DEFINE ms == OnTheWay(p)  some == OnTheWay(p)'
    <2>1. ai[p] \in Session /\ issued \in Nat
      BY DEF Inv, Types, SessionTypes, SessionType
    <2>2. some \in SUBSET ms /\ ms \subseteq Callback
      <3>1. \A i \in 1 .. Len(lanes[p]) : lanes[p][i] \in Callback
        BY DEF Inv, Types, LaneTypes
      <3>2. late \subseteq Callback
        BY DEF Inv, Types, LaneTypes
      <3>3. ms \subseteq Callback
        BY <3>1, <3>2 DEF OnTheWay
      <3> QED
        BY <3>3
    <2>3. issued <= issued
      BY <2>1
    <2>4. Messages(ai[p], ms, issued)
      BY DEF Inv, ProductFits
    <2> HIDE DEF ms, some
    <2>5. Messages(ai[p], some, issued)
      BY <2>1, <2>2, <2>3, <2>4, FewerMessages
    <2>6. ASSUME rows'[p] # NoRow
          PROVE  /\ RowFits(rows'[p], ai[p], some, issued)
                 /\ \A c \in Caller : calls'[c] # NoCall /\ p \in calls'[c].products =>
                      CallFits(calls'[c], p, rows'[p], ai[p], some)
      <3>1. rows'[p] \in Stored
        BY <1>1, <2>6 DEF RowTypes
      <3>2. RowFits(rows'[p], ai[p], ms, issued)
        BY <2>6 DEF Transacted, ms
      <3>3. \A c \in Caller : calls'[c] # NoCall /\ p \in calls'[c].products =>
                      CallFits(calls'[c], p, rows'[p], ai[p], ms)
        <4> SUFFICES ASSUME NEW c \in Caller, calls'[c] # NoCall, p \in calls'[c].products
                     PROVE  CallFits(calls'[c], p, rows'[p], ai[p], ms)
          OBVIOUS
        <4>1. CASE p \notin who /\ calls'[c] = calls[c]
          <5>1. rows'[p] = rows[p]
            BY <4>1 DEF Transacted
          <5> QED
            BY <2>6, <4>1, <5>1 DEF Inv, ProductFits, ms
        <4> QED
          BY <2>6, <4>1 DEF ms
      <3>4. /\ RowFits(rows'[p], ai[p], ms, issued) => RowFits(rows'[p], ai[p], some, issued)
            /\ \A call, q : CallFits(call, q, rows'[p], ai[p], ms) =>
                              CallFits(call, q, rows'[p], ai[p], some)
        BY <2>1, <2>2, <2>3, <3>1, FewerFit
      <3> QED
        BY <3>2, <3>3, <3>4
    <2> QED
      BY <2>5, <2>6 DEF ProductFits, some
  <1> QED
    BY <1>1, <1>2, <1>3 DEF Inv, Types

LEMMA KnownRow ==
    ASSUME Inv, NEW p \in Product, rows[p] # NoRow
    PROVE  /\ rows[p] \in Stored /\ ai[p] \in Session /\ issued \in Nat
           /\ RowFine(p, rows[p])
           /\ p \in Sound => Messages(ai[p], OnTheWay(p), issued)
           /\ OnTheWay(p) \in SUBSET Callback
  <1>1. rows[p] \in Stored /\ ai[p] \in Session /\ issued \in Nat
    BY DEF Inv, Types, RowTypes, SessionTypes, SessionType
  <1>2. \A i \in 1 .. Len(lanes[p]) : lanes[p][i] \in Callback
    BY DEF Inv, Types, LaneTypes
  <1>3. late \subseteq Callback
    BY DEF Inv, Types, LaneTypes
  <1>4. OnTheWay(p) \in SUBSET Callback
    BY <1>2, <1>3 DEF OnTheWay
  <1> QED
    BY <1>1, <1>4 DEF Inv, ProductFits

(* The products of a request that know no run fail, or are requested again *)
(* later.                                                                  *)
LEMMA FailUnacceptedStores ==
    ASSUME Inv, NEW products \in SUBSET Product,
           NEW reason \in Errors, reason # "RESUME_CONFLICT", FailUnaccepted(products, reason)
    PROVE  Transacted(products)
  <1> DEFINE hit == Unaccepted(products)
             rs  == With(Failed(products, reason))
  <1>1. \A p \in hit : p \in products /\ rows[p] # NoRow
    BY DEF Unaccepted, StatusIn
  <1>2. rs = [p \in Product |-> IF p \in hit THEN Fail(rows[p], reason) ELSE rows[p]]
    BY DEF With, Failed
  <1>3. Refresh(rs)
    BY DEF FailUnaccepted
  <1>4. \A p \in hit : Fail(rows[p], reason) \in Stored
    BY <1>1, KnownRow, FailedRow
  <1>5. \A p \in Product : rows[p] \in Stored \cup {NoRow}
    BY DEF Inv, Types, RowTypes
  <1>6. rs \in [Product -> Stored \cup {NoRow}]
    BY <1>2, <1>4, <1>5
  <1>7. \A p \in hit : RowFine(p, Fail(rows[p], reason))
    BY <1>1, KnownRow, FailedFits
  <1>8. \A p \in Product : rows[p] # NoRow => RowFine(p, rows[p])
    BY KnownRow
  <1> HIDE DEF hit, rs
  <1>9. \A p \in Product : /\ p \notin products => rs[p] = rows[p]
                           /\ rs[p] # NoRow => RowFine(p, rs[p])
    BY <1>1, <1>2, <1>7, <1>8
  <1> QED
    BY <1>3, <1>6, <1>9, RefreshStores

LEMMA ReturnUnacceptedStores ==
    ASSUME Inv, NEW products \in SUBSET Product, ReturnUnaccepted(products)
    PROVE  Transacted(products)
  <1> DEFINE hit == Unaccepted(products)
             rs  == With([p \in hit |-> ReturnToPending(rows[p])])
  <1>1. \A p \in hit : p \in products /\ rows[p] # NoRow /\ rows[p].run = NoRun
    BY DEF Unaccepted, StatusIn, IsRunAssigned
  <1>2. rs = [p \in Product |-> IF p \in hit THEN ReturnToPending(rows[p]) ELSE rows[p]]
    BY DEF With
  <1>3. Refresh(rs)
    BY DEF ReturnUnaccepted
  <1>4. \A p \in hit : ReturnToPending(rows[p]) \in Stored
    BY <1>1, KnownRow, ReturnedRow DEF Becomes
  <1>5. \A p \in Product : rows[p] \in Stored \cup {NoRow}
    BY DEF Inv, Types, RowTypes
  <1>6. rs \in [Product -> Stored \cup {NoRow}]
    BY <1>2, <1>4, <1>5
  <1>7. \A p \in hit : RowFine(p, ReturnToPending(rows[p]))
    BY <1>1, KnownRow, ReturnedFits
  <1>8. \A p \in Product : rows[p] # NoRow => RowFine(p, rows[p])
    BY KnownRow
  <1> HIDE DEF hit, rs
  <1>9. \A p \in Product : /\ p \notin products => rs[p] = rows[p]
                           /\ rs[p] # NoRow => RowFine(p, rs[p])
    BY <1>1, <1>2, <1>7, <1>8
  <1> QED
    BY <1>3, <1>6, <1>9, RefreshStores

(* The runs of an accepted request, stored if all of them can be.          *)
LEMMA AssignRunsStores ==
    ASSUME Inv, NEW products \in SUBSET Product, NEW runs \in [products -> 1 .. issued],
           \A p \in products : rows[p] # NoRow /\ p \notin astray => ai[p].status = "none" \/ ai[p].run = runs[p],
           AssignRuns(runs)
    PROVE  Transacted(products)
  <1> DEFINE hit == products \cap Existing(rows)
             rs  == With([p \in hit |-> AssignRun(rows[p], runs[p])])
  <1>1. \A p \in hit : p \in products /\ p \in Product /\ rows[p] # NoRow
    BY DEF Existing
  <1>2. rs = [p \in Product |-> IF p \in hit THEN AssignRun(rows[p], runs[p]) ELSE rows[p]]
    BY DEF With
  <1>3. DOMAIN runs \cap Existing(rows) = hit
    OBVIOUS
  <1>4. CASE \A p \in hit : CanAssignRun(rows[p])
    <2>1. Save(rs)
      BY <1>3, <1>4 DEF AssignRuns
    <2>2. \A p \in hit : /\ runs[p] \in Run /\ runs[p] <= issued
                         /\ rows[p].status = "IN_PROGRESS"
      <3>1. issued \in 0 .. MaxRuns
        BY DEF Inv, Types, SessionTypes
      <3> QED
        BY <1>1, <1>4, <3>1 DEF Run, CanAssignRun
    <2>3. \A p \in hit : /\ AssignRun(rows[p], runs[p]) \in Stored
                         /\ AssignRun(rows[p], runs[p]).status = rows[p].status
      BY <1>1, <2>2, KnownRow, AssignedRow
    <2>4. \A p \in Product : rows[p] \in Stored \cup {NoRow}
      BY DEF Inv, Types, RowTypes
    <2>5. rs \in [Product -> Stored \cup {NoRow}]
      BY <1>2, <2>3, <2>4
    <2>6. \A p \in hit : RowFine(p, AssignRun(rows[p], runs[p]))
      <3> TAKE p \in hit
      <3>1. rows[p].status = "IN_PROGRESS"
        BY <1>4 DEF CanAssignRun
      <3>2. p \notin astray => ai[p].status = "none" \/ ai[p].run = runs[p]
        BY <1>1
      <3> QED
        BY <1>1, <2>2, <3>1, <3>2, KnownRow, AssignedFits
    <2> HIDE DEF hit, rs
    <2>7. \A p \in Product : /\ p \notin products => rs[p] = rows[p]
                             /\ p \in products /\ rs[p] # rows[p] =>
                                  /\ rows[p] # NoRow /\ rs[p] \in Stored
                                  /\ rs[p].status = rows[p].status
                                  /\ RowFine(p, rs[p])
      BY <1>1, <1>2, <2>3, <2>6
    <2> QED
      BY <2>1, <2>5, <2>7, SaveStores
  <1>5. CASE ~ \A p \in hit : CanAssignRun(rows[p])
    <2>1. UNCHANGED dbVars
      BY <1>3, <1>5 DEF AssignRuns
    <2>2. Transacted({})
      BY <2>1, NothingStored
    <2> QED
      BY <2>2 DEF Transacted
  <1> QED
    BY <1>4, <1>5

(* One product's row, changed to a row that fits.                          *)
LEMMA OneRowStores ==
    ASSUME Inv, NEW p \in Product, NEW next \in Stored \cup {NoRow},
           next # NoRow => RowFine(p, next)
    PROVE  /\ Refresh([rows EXCEPT ![p] = next]) => Transacted({p})
           /\ Save([rows EXCEPT ![p] = next]) /\ rows[p] # NoRow /\ next # NoRow
                /\ next.status = rows[p].status => Transacted({p})
  <1> DEFINE rs == [rows EXCEPT ![p] = next]
  <1>1. rows \in [Product -> Stored \cup {NoRow}]
    BY DEF Inv, Types, RowTypes
  <1>2. rs \in [Product -> Stored \cup {NoRow}]
    BY <1>1
  <1>3. rs[p] = next /\ \A q \in Product : q \notin {p} => rs[q] = rows[q]
    BY <1>1
  <1> HIDE DEF rs
  <1>4. Refresh(rs) => Transacted({p})
    <2>1. rs[p] # NoRow => RowFine(p, rs[p])
      BY <1>3
    <2>2. \A q \in Product : rows[q] # NoRow => RowFine(q, rows[q])
      BY KnownRow
    <2>3. \A q \in Product : /\ q \notin {p} => rs[q] = rows[q]
                             /\ rs[q] # NoRow => RowFine(q, rs[q])
      BY <1>3, <2>1, <2>2
    <2> QED
      BY <1>2, <2>3, RefreshStores
  <1>5. Save(rs) /\ rows[p] # NoRow /\ next # NoRow /\ next.status = rows[p].status
          => Transacted({p})
    <2> HAVE Save(rs) /\ rows[p] # NoRow /\ next # NoRow /\ next.status = rows[p].status
    <2>1. /\ rows[p] # NoRow /\ rs[p] \in Stored /\ rs[p].status = rows[p].status
          /\ RowFine(p, rs[p])
      BY <1>3
    <2>2. \A q \in Product :
             /\ q \notin {p} => rs[q] = rows[q]
             /\ q \in {p} /\ rs[q] # rows[q] =>
                  /\ rows[q] # NoRow /\ rs[q] \in Stored /\ rs[q].status = rows[q].status
                  /\ RowFine(q, rs[q])
      BY <1>3, <2>1
    <2> QED
      BY <1>2, <2>2, SaveStores
  <1> QED
    BY <1>4, <1>5 DEF rs

LEMMA FailCurrentRunStores ==
    ASSUME Inv, NEW p \in Product, NEW run, NEW reason \in Errors,
           rows[p] # NoRow /\ p \notin astray => reason # "RESUME_CONFLICT", FailCurrentRun(p, run, reason)
    PROVE  Transacted({p})
  <1>1. CASE rows[p] # NoRow /\ Refresh([rows EXCEPT ![p] = Fail(@, reason)])
    <2>1. Fail(rows[p], reason) \in Stored
      BY <1>1, KnownRow, FailedRow
    <2>2. RowFine(p, Fail(rows[p], reason))
      BY <1>1, KnownRow, FailedFits
    <2> QED
      BY <1>1, <2>1, <2>2, OneRowStores
  <1>2. CASE UNCHANGED dbVars
    <2>1. Transacted({})
      BY <1>2, NothingStored
    <2> QED
      BY <2>1 DEF Transacted
  <1> QED
    BY <1>1, <1>2 DEF FailCurrentRun

LEMMA KeepForResendStores ==
    ASSUME Inv, NEW p \in Product, NEW c \in Caller, calls[c] # NoCall, p \in calls[c].products,
           calls[c].kind = "resume", KeepForResend(p, calls[c].run)
    PROVE  Transacted({p})
  <1>1. CASE rows[p] # NoRow /\ Save([rows EXCEPT ![p] = MarkResumePending(@)])
    <2> DEFINE next == MarkResumePending(rows[p])
    <2>1. next \in Stored /\ next.status = rows[p].status
      BY <1>1, KnownRow, PendingResumeRow
    <2>2. CallFine(calls[c], p, rows[p])
      BY <1>1 DEF Inv, ProductFits
    <2>3. RowFine(p, next)
      BY <1>1, <2>2, KnownRow, PendingResumeFits
    <2>4. next # NoRow
      BY <2>1, StoredRow
    <2>5. Save([rows EXCEPT ![p] = next])
      BY <1>1
    <2> HIDE DEF next
    <2> QED
      BY <1>1, <2>1, <2>3, <2>4, <2>5, OneRowStores
  <1>2. CASE UNCHANGED dbVars
    <2>1. Transacted({})
      BY <1>2, NothingStored
    <2> QED
      BY <2>1 DEF Transacted
  <1> QED
    BY <1>1, <1>2 DEF KeepForResend, StatusIn

-----------------------------------------------------------------------------
(* A request begins, goes on or ends.                                      *)

LEMMA BegunCalls ==
    ASSUME Inv, NEW c \in Caller, NEW call, Begin(c, call), issued' = issued,
           call # NoCall => CallType(c, call)
    PROVE  CallTypes' /\ calls'[c] = call /\ \A d \in Caller : d # c => calls'[d] = calls[d]
  <1>1. /\ calls = [d \in Caller |-> calls[d]]
        /\ \A d \in Caller : calls[d] # NoCall => CallType(d, calls[d])
    BY DEF Inv, Types, CallTypes
  <1>2. calls' = [calls EXCEPT ![c] = call]
    BY DEF Begin
  <1>3. calls' = [d \in Caller |-> IF d = c THEN call ELSE calls[d]]
    BY <1>1, <1>2
  <1>4. calls'[c] = call /\ \A d \in Caller : d # c => calls'[d] = calls[d]
    BY <1>3
  <1>5. calls' = [d \in Caller |-> calls'[d]]
    BY <1>3
  <1>6. \A d, x : CallType(d, x)' <=> CallType(d, x)
    BY DEF CallType, AnswerTypes
  <1>7. \A d \in Caller : calls'[d] # NoCall => CallType(d, calls'[d])
    BY <1>1, <1>4
  <1> QED
    BY <1>4, <1>5, <1>6, <1>7 DEF CallTypes, CallType, AnswerTypes

(* A request to diagnose these, or a resume.                               *)
LEMMA DiagnoseType ==
    ASSUME NEW c, NEW products \in SUBSET Product
    PROVE  CallType(c, Diagnose(products)) /\ Diagnose(products).kind = "diagnose"
           /\ Diagnose(products).products = products /\ Diagnose(products).answer = Open
  BY DEF CallType, AnswerTypes, Diagnose

LEMMA ResumeType ==
    ASSUME NEW c, NEW p \in Product
    PROVE  /\ c # "resume" => CallType(c, Resume(p, FALSE))
           /\ CallType("resume", Resume(p, TRUE))
           /\ \A resend \in BOOLEAN :
                /\ Resume(p, resend).kind = "resume" /\ Resume(p, resend).products = {p}
                /\ Resume(p, resend).answer = Open /\ Resume(p, resend).run = rows[p].run
                /\ Resume(p, resend).round = LatestQuestionRound(rows[p])
                /\ Resume(p, resend).resend = resend
  BY DEF CallType, AnswerTypes, Resume

(* A request about products nobody is calling about begins.                *)
LEMMA CallBegins ==
    ASSUME Inv, NEW who \in SUBSET Product, Transacted(who), UNCHANGED aiVars,
           NEW c \in Caller, NEW call, CallType(c, call), Begin(c, call), overall' # NoRow,
           \A d \in Caller : d # c /\ calls[d] # NoCall => calls[d].products \cap (who \cup call.products) \subseteq astray,
           \A p \in call.products : rows'[p] # NoRow =>
             CallFine(call, p, rows'[p])
    PROVE  Inv'
  <1>1. /\ ai' = ai /\ lanes' = lanes /\ late' = late /\ issued' = issued
        /\ archive' = archive /\ astray' = astray
    BY DEF aiVars
  <1>2. CallTypes' /\ calls'[c] = call /\ \A d \in Caller : d # c => calls'[d] = calls[d]
    BY <1>1, BegunCalls
  <1>3. LaneTypes'
    BY <1>1 DEF LaneTypes, Inv, Types
  <1>4. \A p \in Product : OnTheWay(p)' = OnTheWay(p)
    BY <1>1 DEF OnTheWay
  <1>5. OneCall'
    BY <1>1, <1>2 DEF OneCall, Inv
  <1>6. Created'
    BY DEF Created
  <1>7. ASSUME NEW d \in Caller, NEW p \in Product,
               calls'[d] # NoCall, p \in calls'[d].products, rows'[p] # NoRow
        PROVE  \/ p \notin who /\ calls'[d] = calls[d]
               \/ CallFine(calls'[d], p, rows'[p])
    <2>1. CASE d = c
      BY <1>2, <1>7, <2>1
    <2>2. CASE d # c
      BY <1>2, <1>7, <2>2
    <2> QED
      BY <2>1, <2>2
  <1> QED
    BY <1>1, <1>2, <1>3, <1>4, <1>5, <1>6, <1>7, TransactionKeeps

(* The database changes about products nobody is calling about.            *)
LEMMA NobodyCalls ==
    ASSUME Inv, NEW who, Transacted(who), UNCHANGED <<aiVars, calls>>,
           \A c \in Caller, p \in Product :
              p \in who /\ calls[c] # NoCall /\ p \in calls[c].products /\ rows'[p] # NoRow =>
                 CallFine(calls[c], p, rows'[p])
    PROVE  Inv'
  <1>1. /\ ai' = ai /\ lanes' = lanes /\ late' = late /\ issued' = issued /\ calls' = calls
        /\ archive' = archive /\ astray' = astray
    BY DEF aiVars
  <1>2. LaneTypes' /\ CallTypes'
    BY <1>1 DEF LaneTypes, CallTypes, CallType, AnswerTypes, Inv, Types
  <1>3. \A p \in Product : OnTheWay(p)' = OnTheWay(p)
    BY <1>1 DEF OnTheWay
  <1>4. OneCall' /\ Created'
    BY <1>1 DEF OneCall, Created, Inv, Transacted
  <1> QED
    BY <1>1, <1>2, <1>3, <1>4, TransactionKeeps

(* A request ends, or goes on with the products it did not change.         *)
LEMMA CallEnds ==
    ASSUME Inv, NEW who, Transacted(who), UNCHANGED aiVars,
           NEW c \in Caller, calls[c] # NoCall, who \subseteq calls[c].products,
           NEW call, Begin(c, call),
           \/ call = NoCall
           \/ /\ calls[c].kind = "diagnose"
              /\ \E rest \in SUBSET (calls[c].products \ who) : call = Diagnose(rest)
    PROVE  Inv'
  <1>1. /\ ai' = ai /\ lanes' = lanes /\ late' = late /\ issued' = issued
        /\ archive' = archive /\ astray' = astray
    BY DEF aiVars
  <1>2. calls[c].products \subseteq Product
    BY DEF Inv, Types, CallTypes, CallType
  <1>3. call # NoCall => CallType(c, call)
    BY <1>2, DiagnoseType
  <1>4. CallTypes' /\ calls'[c] = call /\ \A d \in Caller : d # c => calls'[d] = calls[d]
    BY <1>1, <1>3, BegunCalls
  <1>5. LaneTypes'
    BY <1>1 DEF LaneTypes, Inv, Types
  <1>6. \A p \in Product : OnTheWay(p)' = OnTheWay(p)
    BY <1>1 DEF OnTheWay
  <1>7. call # NoCall => /\ call.products \subseteq calls[c].products \ who
                         /\ call.kind = "diagnose" /\ call.answer = Open
                         /\ calls[c].kind = "diagnose"
    BY <1>2, DiagnoseType
  <1>8. OneCall'
    BY <1>1, <1>4, <1>7 DEF OneCall, Inv
  <1>9. overall' # NoRow
    BY DEF Transacted, Created, Inv
  <1>10. Created'
    BY <1>9 DEF Created
  <1>11. ASSUME NEW d \in Caller, NEW p \in Product,
                calls'[d] # NoCall, p \in calls'[d].products, rows'[p] # NoRow
         PROVE  \/ p \notin who /\ calls'[d] = calls[d]
                \/ CallFine(calls'[d], p, rows'[p])
    <2>1. CASE d = c
      <3>1. p \in calls[c].products /\ p \notin who
        BY <1>4, <1>7, <1>11, <2>1
      <3>2. rows'[p] = rows[p]
        BY <3>1 DEF Transacted
      <3>3. CallFine(calls[c], p, rows[p])
        BY <1>11, <3>1, <3>2 DEF Inv, ProductFits
      <3>4. call.kind = "diagnose" /\ call.answer = Open /\ calls[c].kind = "diagnose"
        BY <1>4, <1>7, <1>11, <2>1
      <3>5. CallFine(call, p, rows[p])
        BY <3>3, <3>4 DEF CallFits, Open
      <3> QED
        BY <1>4, <2>1, <3>2, <3>5
    <2>2. CASE d # c
      <3>1. p \in calls[d].products /\ calls[d] # NoCall /\ calls'[d] = calls[d]
        BY <1>4, <1>11, <2>2
      <3>2. p \notin calls[c].products \/ p \in astray
        BY <2>2, <3>1 DEF Inv, OneCall
      <3> QED
        BY <3>1, <3>2
    <2> QED
      BY <2>1, <2>2
  <1> QED
    BY <1>1, <1>4, <1>5, <1>6, <1>8, <1>10, <1>11, TransactionKeeps

-----------------------------------------------------------------------------
(* What is done with an answer.  Only the AI server accepts or names a     *)
(* conflict; the rest may also be what the network makes of the call.      *)

LEMMA CalledAbout ==
    ASSUME Inv, NEW c \in Caller, calls[c] # NoCall
    PROVE  /\ CallType(c, calls[c]) /\ calls[c].products \subseteq Product
           /\ \A p \in calls[c].products : rows[p] # NoRow =>
                CallFine(calls[c], p, rows[p])
  BY DEF Inv, Types, CallTypes, CallType, ProductFits

LEMMA AcceptedStores ==
    ASSUME Inv, NEW c \in Caller, calls[c] # NoCall, calls[c].answer.outcome = "accepted",
           AssignRuns(calls[c].answer.runs)
    PROVE  Transacted(calls[c].products)
  <1>1. calls[c].answer.runs \in [calls[c].products -> 1 .. issued]
    <2>1. AnswerTypes(calls[c])
      BY CalledAbout DEF CallType
    <2> QED
      BY <2>1 DEF AnswerTypes, Open
  <1>2. \A p \in calls[c].products : rows[p] # NoRow /\ p \notin astray =>
          ai[p].status = "none" \/ ai[p].run = calls[c].answer.runs[p]
    BY CalledAbout DEF CallFits
  <1>3. calls[c].products \in SUBSET Product
    BY CalledAbout
  <1> QED
    BY <1>1, <1>2, <1>3, AssignRunsStores

LEMMA DiagnoseAnswerKeeps ==
    ASSUME Inv, UNCHANGED aiVars, NEW c \in Caller, calls[c] # NoCall, NEW answer,
           answer.outcome = "accepted" => answer = calls[c].answer,
           calls[c].kind = "diagnose", DiagnoseAnswer(c, answer)
    PROVE  Inv'
  <1> DEFINE products == calls[c].products
  <1>1. products \in SUBSET Product
    BY CalledAbout
  <1>2. CASE answer.outcome = "accepted" /\ AssignRuns(answer.runs) /\ Begin(c, NoCall)
    <2>1. Transacted(products)
      BY <1>2, AcceptedStores
    <2> QED
      BY <1>2, <2>1, CallEnds
  <1>3. CASE /\ FailUnaccepted(products \cap answer.conflicts, "AI_REQUEST_CONFLICT")
             /\ Begin(c, IF Rest(products, answer.conflicts) = {} THEN NoCall
                         ELSE Diagnose(Rest(products, answer.conflicts)))
    <2> DEFINE hit == products \cap answer.conflicts  rest == Rest(products, answer.conflicts)
               next == IF rest = {} THEN NoCall ELSE Diagnose(rest)
    <2>1. hit \in SUBSET Product /\ hit \subseteq products
      BY <1>1
    <2>2. "AI_REQUEST_CONFLICT" \in Errors /\ "AI_REQUEST_CONFLICT" # "RESUME_CONFLICT"
      BY DEF Errors, RetryableReasons
    <2>3. Transacted(hit)
      BY <1>3, <2>1, <2>2, FailUnacceptedStores
    <2>4. rest \in SUBSET (products \ hit)
      BY DEF Rest
    <2>5. next = NoCall \/ next = Diagnose(rest)
      OBVIOUS
    <2>6. Begin(c, next)
      BY <1>3
    <2> HIDE DEF hit, rest, next
    <2> QED
      BY <2>1, <2>3, <2>4, <2>5, <2>6, CallEnds
  <1>4. CASE ReturnUnaccepted(products) /\ Begin(c, NoCall)
    <2>1. Transacted(products)
      BY <1>1, <1>4, ReturnUnacceptedStores
    <2> QED
      BY <1>4, <2>1, CallEnds
  <1>5. CASE UNCHANGED dbVars /\ Begin(c, NoCall)
    <2>1. Transacted({})
      BY <1>5, NothingStored
    <2>2. {} \subseteq calls[c].products
      OBVIOUS
    <2> QED
      BY <1>5, <2>1, <2>2, CallEnds
  <1>6. CASE FailUnaccepted(products, "AI_REQUEST_REJECTED") /\ Begin(c, NoCall)
    <2>1. "AI_REQUEST_REJECTED" \in Errors /\ "AI_REQUEST_REJECTED" # "RESUME_CONFLICT"
      BY DEF Errors, FinalReasons
    <2>2. Transacted(products)
      BY <1>1, <1>6, <2>1, FailUnacceptedStores
    <2> QED
      BY <1>6, <2>2, CallEnds
  <1> QED
    BY <1>2, <1>3, <1>4, <1>5, <1>6 DEF DiagnoseAnswer

LEMMA ResumeAnswerKeeps ==
    ASSUME Inv, UNCHANGED aiVars, NEW c \in Caller, calls[c] # NoCall, NEW answer,
           answer.outcome \in {"accepted", "conflict"} => answer = calls[c].answer,
           calls[c].kind = "resume", ResumeAnswer(c, answer)
    PROVE  Inv'
  <1>1. Begin(c, NoCall)
    BY DEF ResumeAnswer
  <1>2. PICK p \in calls[c].products :
          \/ answer.outcome = "accepted" /\ AssignRuns(answer.runs)
          \/ answer.outcome = "conflict" /\ FailCurrentRun(p, calls[c].run, ConflictReason(calls[c].resend))
          \/ FailCurrentRun(p, calls[c].run, "RESUME_SESSION_NOT_FOUND")
          \/ FailCurrentRun(p, calls[c].run, "RESUME_INVALID_REQUEST")
          \/ KeepForResend(p, calls[c].run)
          \/ UNCHANGED dbVars
    BY DEF ResumeAnswer
  <1>3. p \in Product /\ {p} \subseteq calls[c].products
    BY CalledAbout
  <1>4. CASE answer.outcome = "accepted" /\ AssignRuns(answer.runs)
    <2>1. Transacted(calls[c].products)
      BY <1>4, AcceptedStores
    <2> QED
      BY <1>1, <2>1, CallEnds
  <1>5. ASSUME NEW reason \in Errors, rows[p] # NoRow /\ p \notin astray => reason # "RESUME_CONFLICT",
               FailCurrentRun(p, calls[c].run, reason)
        PROVE  Inv'
    <2>1. Transacted({p})
      BY <1>3, <1>5, FailCurrentRunStores
    <2> QED
      BY <1>1, <1>3, <2>1, CallEnds
  <1>6. CASE answer.outcome = "conflict"
             /\ FailCurrentRun(p, calls[c].run, ConflictReason(calls[c].resend))
    <2>1. calls[c].answer.outcome = "conflict" /\ calls[c].resend \in BOOLEAN
      BY <1>6, CalledAbout DEF CallType
    <2>2. rows[p] # NoRow /\ p \notin astray => calls[c].resend = TRUE
      BY <2>1, CalledAbout DEF CallFits
    <2>3. ConflictReason(calls[c].resend) \in {"RESUME_RESEND_CONFLICT", "RESUME_CONFLICT"}
      BY DEF ConflictReason
    <2>4. ConflictReason(calls[c].resend) \in Errors
      BY <2>3 DEF Errors, RetryableReasons, FinalReasons
    <2>5. rows[p] # NoRow /\ p \notin astray => ConflictReason(calls[c].resend) # "RESUME_CONFLICT"
      BY <2>2 DEF ConflictReason
    <2> QED
      BY <1>5, <1>6, <2>4, <2>5
  <1>7. CASE FailCurrentRun(p, calls[c].run, "RESUME_SESSION_NOT_FOUND")
    BY <1>5, <1>7 DEF Errors, RetryableReasons
  <1>8. CASE FailCurrentRun(p, calls[c].run, "RESUME_INVALID_REQUEST")
    BY <1>5, <1>8 DEF Errors, FinalReasons
  <1>9. CASE KeepForResend(p, calls[c].run)
    <2>1. Transacted({p})
      BY <1>3, <1>9, KeepForResendStores
    <2> QED
      BY <1>1, <1>3, <2>1, CallEnds
  <1>10. CASE UNCHANGED dbVars
    <2>1. Transacted({})
      BY <1>10, NothingStored
    <2>2. {} \subseteq calls[c].products
      OBVIOUS
    <2> QED
      BY <1>1, <2>1, <2>2, CallEnds
  <1> QED
    BY <1>2, <1>4, <1>6, <1>7, <1>8, <1>9, <1>10

LEMMA AnsweredKeeps ==
    ASSUME Inv, UNCHANGED aiVars, NEW c \in Caller, calls[c] # NoCall, NEW answer,
           answer.outcome \in {"accepted", "conflict"} => answer = calls[c].answer,
           Answered(c, answer)
    PROVE  Inv'
  <1>1. calls[c].kind \in {"diagnose", "resume"}
    BY CalledAbout DEF CallType
  <1> QED
    BY <1>1, DiagnoseAnswerKeeps, ResumeAnswerKeeps DEF Answered

LEMMA NetworkKeeps ==
    ASSUME Inv, UNCHANGED aiVars, NEW c \in Caller, TakeAnswer(c) \/ NoAnswer(c) \/ LoseAnswer(c)
    PROVE  Inv'
  <1>1. CASE TakeAnswer(c)
    BY <1>1, AnsweredKeeps DEF TakeAnswer
  <1>2. CASE NoAnswer(c)
    <2>1. PICK outcome \in {"not_received", "unknown", "rejected"} :
            Answered(c, [outcome |-> outcome])
      BY <1>2 DEF NoAnswer
    <2>2. [outcome |-> outcome].outcome \notin {"accepted", "conflict"}
      OBVIOUS
    <2>3. calls[c] # NoCall
      BY <1>2 DEF NoAnswer
    <2> HIDE DEF Answered
    <2> QED
      BY <2>1, <2>2, <2>3, AnsweredKeeps
  <1>3. CASE LoseAnswer(c)
    <2>1. calls[c] # NoCall /\ Answered(c, [outcome |-> "unknown"])
      BY <1>3 DEF LoseAnswer
    <2>2. [outcome |-> "unknown"].outcome \notin {"accepted", "conflict"}
      OBVIOUS
    <2> QED
      BY <2>1, <2>2, AnsweredKeeps
  <1> QED
    BY <1>1, <1>2, <1>3

-----------------------------------------------------------------------------
(* The user, the schedulers and the clocks.                                *)

(* Requests are about products in progress the stuck scheduler cannot see, *)
(* unless a product went astray.                                           *)
LEMMA NotCalledAbout ==
    ASSUME Inv, NEW p \in Product, rows[p] # NoRow,
           rows[p].status # "IN_PROGRESS" \/ "updatedAt" \in rows[p].overdue
    PROVE  \A c \in Caller : calls[c] # NoCall /\ p \in calls[c].products => p \in astray
  BY CalledAbout DEF CallFits

(* While a resume is pending, only the resume scheduler sends it.          *)
LEMMA NotCalledAgain ==
    ASSUME Inv, NEW p \in Product, rows[p] # NoRow, rows[p].resumePending,
           calls["resume"] = NoCall
    PROVE  \A c \in Caller : calls[c] # NoCall /\ p \in calls[c].products => p \in astray
  <1> SUFFICES ASSUME NEW c \in Caller, calls[c] # NoCall, p \in calls[c].products, p \notin astray
               PROVE  FALSE
    OBVIOUS
  <1>1. CallType(c, calls[c]) /\ CallFine(calls[c], p, rows[p])
    BY CalledAbout
  <1>2. rows[p].run # NoRun
    BY KnownRow DEF RowFits
  <1>3. calls[c].kind = "resume" /\ calls[c].resend = (c = "resume")
    BY <1>1, <1>2 DEF CallType, CallFits
  <1>4. c # "resume"
    OBVIOUS
  <1>5. ~calls[c].resend
    BY <1>3, <1>4
  <1> QED
    BY <1>1, <1>3, <1>5 DEF CallFits

LEMMA ThereIsOverall ==
    ASSUME Inv, NEW p \in Product, rows[p] # NoRow
    PROVE  overall # NoRow
  BY DEF Inv, OverallStatus, Existing

LEMMA CreateDiagnosesKeeps ==
    ASSUME Inv, UNCHANGED aiVars, CreateDiagnoses
    PROVE  Inv'
  <1> DEFINE new == StartDiagnoses(Pending)
             rs  == [p \in Product |-> new]
  <1>1. /\ new \in Stored /\ new.status = "IN_PROGRESS" /\ new.run = NoRun
        /\ new.error = NoError /\ new.resumePending = FALSE /\ "updatedAt" \notin new.overdue
    BY NewRow
  <1>2. new.error # "RESUME_CONFLICT"
    BY <1>1 DEF NoError
  <1>3. PICK c \in AsyncCaller : Begin(c, Diagnose(Product))
    BY DEF CreateDiagnoses, AsyncTask
  <1>4. Refresh(rs) /\ overall = NoRow
    BY DEF CreateDiagnoses
  <1>5. \A d \in Caller : calls[d] = NoCall
    BY <1>4 DEF Inv, Created
  <1>6. \A p \in Product : ai[p] \in Session /\ issued \in Nat
    BY DEF Inv, Types, SessionTypes, SessionType
  <1> HIDE DEF new
  <1>7. \A p \in Product : /\ RowFine(p, new)
                           /\ CallFine(Diagnose(Product), p, new)
    BY <1>1, <1>2, <1>6, FreshFits
  <1>8. Transacted(Product)
    <2>1. rs \in [Product -> Stored \cup {NoRow}]
      BY <1>1
    <2>2. \A p \in Product : /\ p \notin Product => rs[p] = rows[p]
                             /\ rs[p] # NoRow => RowFine(p, rs[p])
      BY <1>7
    <2> HIDE DEF rs
    <2> QED
      BY <1>4, <2>1, <2>2, RefreshStores
  <1>9. rows' = rs /\ overall' # NoRow
    BY <1>4, RefreshedStatus DEF Refresh
  <1>10. c \in Caller
    BY DEF Caller
  <1>11. CallType(c, Diagnose(Product)) /\ Diagnose(Product).products = Product
    BY DiagnoseType
  <1>12. \A p \in Product : rows'[p] = new
    BY <1>9
  <1>13. \A p \in Diagnose(Product).products : rows'[p] # NoRow =>
           CallFine(Diagnose(Product), p, rows'[p])
    BY <1>7, <1>11, <1>12
  <1> QED
    BY <1>3, <1>5, <1>8, <1>9, <1>10, <1>11, <1>13, CallBegins

LEMMA AnswerKeeps ==
    ASSUME Inv, UNCHANGED aiVars, NEW p \in Product, Answer(p)
    PROVE  Inv'
  <1> DEFINE new == AnswerQuestions(rows[p])  call == Resume(p, FALSE)
  <1>1. rows[p] # NoRow /\ rows[p].status = "AWAITING_INPUT"
    BY DEF Answer, StatusIn
  <1>2. PICK c \in AsyncCaller : Begin(c, call)
    BY DEF Answer, AsyncTask
  <1>3. c \in Caller /\ c # "resume"
    BY DEF Caller
  <1>4. /\ CallType(c, call) /\ call.kind = "resume" /\ call.products = {p} /\ call.answer = Open
        /\ call.run = rows[p].run /\ call.round = LatestQuestionRound(rows[p])
    BY <1>3, ResumeType
  <1>5. \A d \in Caller : calls[d] # NoCall /\ p \in calls[d].products => p \in astray
    BY <1>1, NotCalledAbout
  <1>6. Refresh([rows EXCEPT ![p] = new])
    BY DEF Answer
  <1>7. new \in Stored
    BY <1>1, KnownRow, AnsweredRow DEF Becomes
  <1> HIDE DEF call
  <1>8. /\ RowFine(p, new)
        /\ CallFine(call, p, new)
    BY <1>1, <1>4, KnownRow, AnsweredFits
  <1> HIDE DEF new
  <1>9. Transacted({p})
    BY <1>6, <1>7, <1>8, OneRowStores
  <1>10. overall' # NoRow
    BY <1>6, RefreshedStatus
  <1>11. rows'[p] = new
    BY <1>6 DEF Refresh, Inv, Types, RowTypes
  <1>12. \A q \in call.products : rows'[q] # NoRow =>
           CallFine(call, q, rows'[q])
    BY <1>4, <1>8, <1>11
  <1>13. \A d \in Caller : d # c /\ calls[d] # NoCall =>
           calls[d].products \cap ({p} \cup call.products) \subseteq astray
    BY <1>4, <1>5
  <1> QED
    BY <1>2, <1>3, <1>4, <1>9, <1>10, <1>12, <1>13, CallBegins

LEMMA RetryDiagnosesKeeps ==
    ASSUME Inv, UNCHANGED aiVars, NEW p \in Product, RetryDiagnoses(p)
    PROVE  Inv'
  <1> DEFINE new == RetryRow(rows[p])  call == Diagnose({p})
  <1>1. rows[p] # NoRow /\ rows[p].status = "FAILED"
    BY DEF RetryDiagnoses, CanRetry
  <1>2. PICK c \in AsyncCaller : Begin(c, call)
    BY DEF RetryDiagnoses, AsyncTask
  <1>3. c \in Caller
    BY DEF Caller
  <1>4. CallType(c, call) /\ call.products = {p}
    BY DiagnoseType
  <1>5. \A d \in Caller : calls[d] # NoCall /\ p \in calls[d].products => p \in astray
    BY <1>1, NotCalledAbout
  <1>6. Refresh([rows EXCEPT ![p] = new])
    BY DEF RetryDiagnoses
  <1>7. /\ new \in Stored /\ new.status = "IN_PROGRESS" /\ new.run = NoRun
        /\ new.error = NoError /\ new.resumePending = rows[p].resumePending
        /\ "updatedAt" \notin new.overdue
    BY <1>1, KnownRow, RetriedRow
  <1>8. (p \in Sound => rows[p].resumePending = FALSE) /\ NoError # "RESUME_CONFLICT"
    BY <1>1, KnownRow DEF RowFits, Stored, Rows, Row, NoError
  <1> HIDE DEF new
  <1>9. /\ RowFine(p, new)
        /\ CallFine(call, p, new)
    BY <1>1, <1>7, <1>8, KnownRow, FreshFits
  <1> HIDE DEF call
  <1>10. Transacted({p})
    BY <1>6, <1>7, <1>9, OneRowStores
  <1>11. overall' # NoRow
    BY <1>6, RefreshedStatus
  <1>12. rows'[p] = new
    BY <1>6 DEF Refresh, Inv, Types, RowTypes
  <1>13. \A q \in call.products : rows'[q] # NoRow =>
           CallFine(call, q, rows'[q])
    BY <1>4, <1>9, <1>12
  <1>14. \A d \in Caller : d # c /\ calls[d] # NoCall =>
           calls[d].products \cap ({p} \cup call.products) \subseteq astray
    BY <1>4, <1>5
  <1> QED
    BY <1>2, <1>3, <1>4, <1>10, <1>11, <1>13, <1>14, CallBegins

LEMMA RemoveProductKeeps ==
    ASSUME Inv, UNCHANGED aiVars, NEW p \in Product, RemoveProduct(p)
    PROVE  Inv'
  <1>1. Refresh([rows EXCEPT ![p] = NoRow]) /\ calls' = calls
    BY DEF RemoveProduct
  <1>2. Transacted({p})
    BY <1>1, OneRowStores
  <1>3. rows'[p] = NoRow
    BY <1>1 DEF Refresh, Inv, Types, RowTypes
  <1> QED
    BY <1>1, <1>2, <1>3, NobodyCalls

(* The schedulers.                                                         *)
LEMMA RestartPendingProductsKeeps ==
    ASSUME Inv, UNCHANGED aiVars, RestartPendingProducts
    PROVE  Inv'
  <1> DEFINE pending == {p \in Product : StatusIn(p, {"PENDING"})}
             again   == {p \in pending : ~RequestedTooLongAgo(rows[p])}
             rs      == With([p \in pending |-> Restarted(rows[p])])
             call    == Diagnose(again)
  <1>1. \A p \in pending : p \in Product /\ rows[p] # NoRow /\ rows[p].status = "PENDING"
    BY DEF StatusIn
  <1>2. /\ Refresh(rs)
        /\ IF again = {} THEN calls' = calls ELSE Begin("pending", call)
    BY DEF RestartPendingProducts
  <1>3. \A p \in pending : p \in again => Restarted(rows[p]) = StartDiagnoses(rows[p])
    BY DEF Restarted
  <1>4. \A p \in pending : Restarted(rows[p]) \in Stored
                           /\ RowFine(p, Restarted(rows[p]))
    <2> TAKE p \in pending
    <2>1. StartDiagnoses(rows[p]) \in Stored
      BY <1>1, KnownRow, StartedRow DEF Becomes
    <2>2. RowFine(p, StartDiagnoses(rows[p]))
      BY <1>1, KnownRow, StartedFits
    <2>3. "AI_REQUEST_UNAVAILABLE" \in Errors /\ "AI_REQUEST_UNAVAILABLE" # "RESUME_CONFLICT"
      BY DEF Errors, RetryableReasons
    <2>4. Fail(rows[p], "AI_REQUEST_UNAVAILABLE") \in Stored
      BY <1>1, <2>3, KnownRow, FailedRow
    <2>5. RowFine(p, Fail(rows[p], "AI_REQUEST_UNAVAILABLE"))
      BY <1>1, <2>3, KnownRow, FailedFits
    <2> QED
      BY <2>1, <2>2, <2>4, <2>5 DEF Restarted
  <1>5. \A p \in again : CallFine(call, p, StartDiagnoses(rows[p]))
    BY <1>1, KnownRow, StartedFits
  <1>6. rs = [p \in Product |-> IF p \in pending THEN Restarted(rows[p]) ELSE rows[p]]
    BY DEF With
  <1>7. rs \in [Product -> Stored \cup {NoRow}]
    <2>1. \A p \in Product : rows[p] \in Stored \cup {NoRow}
      BY DEF Inv, Types, RowTypes
    <2> QED
      BY <1>4, <1>6, <2>1
  <1>8. again \subseteq pending /\ pending \in SUBSET Product
    OBVIOUS
  <1>9. CallType("pending", call) /\ call.products = again
    BY <1>8, DiagnoseType
  <1>10. \A p \in pending, d \in Caller : calls[d] # NoCall /\ p \in calls[d].products => p \in astray
    BY <1>1, NotCalledAbout
  <1> HIDE DEF pending, again, rs, call
  <1>11. Transacted(pending)
    <2>1. \A p \in Product : rows[p] # NoRow => RowFine(p, rows[p])
      BY KnownRow
    <2>2. \A p \in Product : /\ p \notin pending => rs[p] = rows[p]
                             /\ rs[p] # NoRow => RowFine(p, rs[p])
      BY <1>4, <1>6, <2>1
    <2> QED
      BY <1>2, <1>7, <2>2, RefreshStores
  <1>12. CASE again = {}
    <2>1. calls' = calls
      BY <1>2, <1>12
    <2> QED
      BY <1>10, <1>11, <2>1, NobodyCalls
  <1>13. CASE again # {}
    <2>1. Begin("pending", call) /\ "pending" \in Caller
      BY <1>2, <1>13 DEF Caller
    <2>2. overall' # NoRow /\ rows' = rs
      BY <1>2, RefreshedStatus DEF Refresh
    <2>3. \A p \in call.products : rows'[p] # NoRow =>
            CallFine(call, p, rows'[p])
      BY <1>3, <1>5, <1>6, <1>8, <1>9, <2>2
    <2>4. \A d \in Caller : d # "pending" /\ calls[d] # NoCall =>
            calls[d].products \cap (pending \cup call.products) \subseteq astray
      BY <1>8, <1>9, <1>10
    <2> QED
      BY <1>8, <1>9, <1>11, <2>1, <2>2, <2>3, <2>4, CallBegins
  <1> QED
    BY <1>12, <1>13

LEMMA FailOneKeeps ==
    ASSUME Inv, UNCHANGED <<aiVars, calls>>, NEW p \in Product, NEW reason \in Errors,
           reason # "RESUME_CONFLICT", rows[p] # NoRow, Refresh([rows EXCEPT ![p] = Fail(@, reason)]),
           \A c \in Caller : calls[c] # NoCall /\ p \in calls[c].products => p \in astray
    PROVE  Inv'
  <1>1. Fail(rows[p], reason) \in Stored
    BY KnownRow, FailedRow
  <1>2. RowFine(p, Fail(rows[p], reason))
    BY KnownRow, FailedFits
  <1>3. Transacted({p})
    BY <1>1, <1>2, OneRowStores
  <1> QED
    BY <1>3, NobodyCalls

LEMMA RestartPendingResumeKeeps ==
    ASSUME Inv, UNCHANGED aiVars, NEW p \in Product, RestartPendingResume(p)
    PROVE  Inv'
  <1>1. /\ calls["resume"] = NoCall /\ rows[p] # NoRow /\ rows[p].status = "IN_PROGRESS"
        /\ rows[p].resumePending
    BY DEF RestartPendingResume, StatusIn
  <1>2. \A c \in Caller : calls[c] # NoCall /\ p \in calls[c].products => p \in astray
    BY <1>1, NotCalledAgain
  <1>3. CASE "resumePendingSince" \in rows[p].overdue
    <2>1. Refresh([rows EXCEPT ![p] = Fail(@, "AI_RESUME_UNAVAILABLE")]) /\ calls' = calls
      BY <1>3 DEF RestartPendingResume
    <2>2. "AI_RESUME_UNAVAILABLE" \in Errors /\ "AI_RESUME_UNAVAILABLE" # "RESUME_CONFLICT"
      BY DEF Errors, RetryableReasons
    <2> QED
      BY <1>1, <1>2, <2>1, <2>2, FailOneKeeps
  <1>4. CASE "resumePendingSince" \notin rows[p].overdue
    <2> DEFINE call == Resume(p, TRUE)
    <2>1. Begin("resume", call) /\ UNCHANGED dbVars /\ "resume" \in Caller
      BY <1>4 DEF RestartPendingResume, Caller
    <2>2. /\ CallType("resume", call) /\ call.kind = "resume" /\ call.products = {p}
          /\ call.answer = Open /\ call.resend = TRUE
          /\ call.run = rows[p].run /\ call.round = LatestQuestionRound(rows[p])
      BY ResumeType
    <2> HIDE DEF call
    <2>3. CallFine(call, p, rows[p])
      BY <1>1, <1>4, <2>2, KnownRow, ResentFits
    <2>4. Transacted({}) /\ rows' = rows /\ overall' = overall
      BY <2>1, NothingStored DEF dbVars
    <2>5. overall' # NoRow
      BY <1>1, <2>4, ThereIsOverall
    <2>6. \A d \in Caller : d # "resume" /\ calls[d] # NoCall =>
            calls[d].products \cap ({} \cup call.products) \subseteq astray
      BY <1>2, <2>2
    <2>7. \A q \in call.products : rows'[q] # NoRow =>
            CallFine(call, q, rows'[q])
      BY <2>2, <2>3, <2>4
    <2>8. {} \in SUBSET Product
      OBVIOUS
    <2> QED
      BY <2>1, <2>2, <2>4, <2>5, <2>6, <2>7, <2>8, CallBegins
  <1> QED
    BY <1>3, <1>4

LEMMA NothingStoredKeeps ==
    ASSUME Inv, UNCHANGED <<aiVars, calls, dbVars>>
    PROVE  Inv'
  <1>1. Transacted({})
    BY NothingStored
  <1> QED
    BY <1>1, NobodyCalls

LEMMA FailStuckKeeps ==
    ASSUME Inv, UNCHANGED aiVars, NEW p \in Product, FailStuck(p)
    PROVE  Inv'
  <1>1. CASE IsStuck(p)
    <2>1. Refresh([rows EXCEPT ![p] = Fail(@, "DIAGNOSES_TIMEOUT")]) /\ calls' = calls
      BY <1>1 DEF FailStuck
    <2>2. rows[p] # NoRow /\ "updatedAt" \in rows[p].overdue
      BY <1>1 DEF IsStuck, StatusIn
    <2>3. \A c \in Caller : calls[c] # NoCall /\ p \in calls[c].products => p \in astray
      BY <2>2, NotCalledAbout
    <2>4. "DIAGNOSES_TIMEOUT" \in Errors /\ "DIAGNOSES_TIMEOUT" # "RESUME_CONFLICT"
      BY DEF Errors, RetryableReasons
    <2> QED
      BY <2>1, <2>2, <2>3, <2>4, FailOneKeeps
  <1>2. CASE ~IsStuck(p)
    BY <1>2, NothingStoredKeeps DEF FailStuck
  <1> QED
    BY <1>1, <1>2

(* A clock that the stuck scheduler looks at stands still during a request.*)
LEMMA ElapseKeeps ==
    ASSUME Inv, UNCHANGED aiVars, NEW p \in Product, NEW clock \in Clocks, Elapse(p, clock)
    PROVE  Inv'
  <1> DEFINE row == rows[p]  next == [row EXCEPT !.overdue = @ \cup {clock}]
  <1>1. rows[p] # NoRow /\ rows[p].status \in {"PENDING", "IN_PROGRESS"}
    BY DEF Elapse, Matters, StatusIn
  <1>2. row \in Stored
    BY <1>1, KnownRow
  <1>3. Alike(row, next) /\ next.overdue = row.overdue \cup {clock}
    BY <1>2, ElapsedRow
  <1>4. Save([rows EXCEPT ![p] = next]) /\ calls' = calls
    BY DEF Elapse, Save
  <1> HIDE DEF next
  <1>5. next \in Stored /\ next.status = row.status
    BY <1>3 DEF Alike
  <1>6. clock = "updatedAt" =>
          /\ \A c \in Caller : calls[c] # NoCall /\ p \in calls[c].products => p \in astray
          /\ row.resumePending => "resumePendingSince" \in row.overdue
    BY DEF Elapse, Matters, Calling
  <1>7. p \in Sound /\ row.resumePending /\ "updatedAt" \in row.overdue => "resumePendingSince" \in row.overdue
    BY <1>1, KnownRow DEF RowFits
  <1>8. p \in Sound /\ row.resumePending /\ "updatedAt" \in next.overdue => "resumePendingSince" \in next.overdue
    BY <1>3, <1>6, <1>7
  <1>9. /\ RowFine(p, next)
        /\ \A call : CallFine(call, p, row) /\ "updatedAt" \notin next.overdue => CallFine(call, p, next)
    BY <1>1, <1>3, <1>8, KnownRow, AlikeFits
  <1>10. next # NoRow
    BY <1>5, StoredRow
  <1>11. Transacted({p})
    BY <1>1, <1>4, <1>5, <1>9, <1>10, OneRowStores
  <1>12. rows'[p] = next
    BY <1>4 DEF Save, Inv, Types, RowTypes
  <1>13. ASSUME NEW c \in Caller, calls[c] # NoCall, p \in calls[c].products
         PROVE  CallFine(calls[c], p, next)
    <2>1. CallFine(calls[c], p, row)
      BY <1>1, <1>13, CalledAbout
    <2>2. p \in Sound => "updatedAt" \notin row.overdue /\ clock # "updatedAt"
      BY <1>6, <1>13, <2>1 DEF CallFits
    <2> QED
      BY <1>3, <1>9, <2>1, <2>2
  <1> QED
    BY <1>4, <1>11, <1>12, <1>13, NobodyCalls

LEMMA BackendKeeps ==
    ASSUME Inv, Backend
    PROVE  Inv'
  <1>1. UNCHANGED aiVars
    BY DEF Backend
  <1>2. CASE User
    BY <1>1, <1>2, CreateDiagnosesKeeps, AnswerKeeps, RetryDiagnosesKeeps, RemoveProductKeeps
       DEF User
  <1>3. CASE Schedulers
    <2>1. CASE FindStuck
      BY <1>1, <2>1, NothingStoredKeeps DEF FindStuck
    <2> QED
      BY <1>1, <1>3, <2>1, RestartPendingProductsKeeps, RestartPendingResumeKeeps, FailStuckKeeps
         DEF Schedulers
  <1>4. CASE Clock
    BY <1>1, <1>4, ElapseKeeps DEF Clock
  <1>5. CASE Network
    BY <1>1, <1>5, NetworkKeeps DEF Network
  <1> QED
    BY <1>2, <1>3, <1>4, <1>5 DEF Backend, BackendStep

-----------------------------------------------------------------------------
(* Callbacks.                                                              *)

(* A callback that is handled is news, or progress, or changes nothing.    *)
LEMMA HandleStores ==
    ASSUME Inv, NEW p \in Product, NEW m \in OnTheWay(p), m.product = p, NEW reply,
           Handle(m, reply)
    PROVE  /\ Transacted({p})
           /\ \A c \in Caller :
                calls[c] # NoCall /\ p \in calls[c].products /\ rows'[p] # NoRow =>
                  CallFine(calls[c], p, rows'[p])
  <1> DEFINE row == rows[p]  next == RowAfter(m)
  <1>1. CASE UNCHANGED dbVars
    <2>1. Transacted({}) /\ rows' = rows
      BY <1>1, NothingStored DEF dbVars
    <2>2. Transacted({p})
      BY <2>1 DEF Transacted
    <2> QED
      BY <2>1, <2>2, CalledAbout
  <1>2. CASE /\ row # NoRow /\ IsCurrentRun(row, m.run) /\ Acceptable(m)
             /\ IF m.kind = "progress" THEN Save([rows EXCEPT ![p] = next])
                                       ELSE Refresh([rows EXCEPT ![p] = next])
    <2>1. /\ row \in Stored /\ ai[p] \in Session /\ issued \in Nat /\ OnTheWay(p) \in SUBSET Callback
          /\ RowFine(p, row)
          /\ p \in Sound => Messages(ai[p], OnTheWay(p), issued)
      BY <1>2, KnownRow
    <2>2. m.run = row.run /\ m \in Callback
      BY <1>2, <2>1 DEF IsCurrentRun
    <2>3. m.run \in Run /\ m.number \in Nat /\ row.run # NoRun
          /\ m.kind \in {"progress", "questions", "result", "failed", "fatal"}
      BY <2>2 DEF Callback, Run, NoRun
    <2>4. CASE m.kind = "progress"
      <3>1. next = RecordProgress(row, m.run, m.number)
        BY <2>4 DEF RowAfter
      <3>2. Alike(row, next) /\ next.overdue = row.overdue
        BY <2>1, <2>3, <3>1, ProgressRow
      <3>3. Save([rows EXCEPT ![p] = next])
        BY <1>2, <2>4
      <3> HIDE DEF next
      <3>4. next \in Stored /\ next.status = row.status
        BY <3>2 DEF Alike
      <3>5. p \in Sound /\ row.resumePending /\ "updatedAt" \in next.overdue => "resumePendingSince" \in next.overdue
        BY <2>1, <3>2 DEF RowFits
      <3>6. /\ RowFine(p, next)
            /\ \A call : CallFine(call, p, row) /\ "updatedAt" \notin next.overdue => CallFine(call, p, next)
        BY <2>1, <3>2, <3>5, AlikeFits
      <3>7. next # NoRow
        BY <3>4, StoredRow
      <3>8. Transacted({p})
        BY <1>2, <3>3, <3>4, <3>6, <3>7, OneRowStores
      <3>9. rows'[p] = next
        BY <3>3 DEF Save, Inv, Types, RowTypes
      <3>10. ASSUME NEW c \in Caller, calls[c] # NoCall, p \in calls[c].products
             PROVE  CallFine(calls[c], p, next)
        <4>1. CallFine(calls[c], p, row)
          BY <1>2, <3>10, CalledAbout
        <4>2. p \in Sound => "updatedAt" \notin next.overdue
          BY <3>2, <4>1 DEF CallFits
        <4> QED
          BY <3>6, <4>1, <4>2
      <3> QED
        BY <3>8, <3>9, <3>10
    <2>5. CASE m.kind # "progress"
      <3>1. Refresh([rows EXCEPT ![p] = next])
        BY <1>2, <2>5
      <3>2. m.kind = "questions" => m.number > LatestQuestionRound(row)
        BY <1>2 DEF Acceptable, CanAskQuestions
      <3>3. News(row, m)
        BY <2>2, <2>5, <3>2 DEF News
      <3>4. \A c \in Caller : calls[c] # NoCall /\ p \in calls[c].products => p \in astray
        <4>1. \A c \in Caller : calls[c] # NoCall => calls[c].kind \in {"diagnose", "resume"}
          BY CalledAbout DEF CallType
        <4>2. ASSUME p \in Sound
              PROVE  \A call : call.kind \in {"diagnose", "resume"} =>
                       ~CallFits(call, p, row, ai[p], OnTheWay(p))
          <5>1. /\ row \in Stored /\ ai[p] \in Session /\ issued \in Nat
                /\ OnTheWay(p) \in SUBSET Callback
                /\ RowFits(row, ai[p], OnTheWay(p), issued)
                /\ Messages(ai[p], OnTheWay(p), issued)
            BY <2>1, <4>2
          <5>2. m \in OnTheWay(p)
            OBVIOUS
          <5> HIDE DEF row
          <5>3. \A call, q : call.kind \in {"diagnose", "resume"} =>
                  ~CallFits(call, q, row, ai[p], OnTheWay(p))
            BY <3>3, <5>1, <5>2, NewsFits
          <5> QED
            BY <5>3
        <4> QED
          BY <1>2, <4>1, <4>2, CalledAbout
      <3>5. next \in Stored /\ RowFine(p, next)
        <4>1. CASE m.kind = "questions"
          <5>1. next = AskQuestions(row, m.number)
            BY <4>1 DEF RowAfter
          <5>2. m.number > LatestQuestionRound(row)
            BY <3>2, <4>1
          <5>3. next \in Stored
            BY <2>1, <2>3, <5>1, <5>2, AskedRow
          <5>4. RowFine(p, next)
            BY <2>1, <2>2, <4>1, <5>1, <5>2, AskedFits
          <5> QED
            BY <5>3, <5>4
        <4>2. CASE m.kind = "result"
          <5>1. next = Complete(row)
            BY <4>2 DEF RowAfter
          <5>2. next \in Stored
            BY <2>1, <2>3, <5>1, CompletedRow DEF Becomes
          <5>3. RowFine(p, next)
            BY <2>1, <2>2, <4>2, <5>1, CompletedFits
          <5> QED
            BY <5>2, <5>3
        <4>3. CASE m.kind \in {"failed", "fatal"}
          <5>1. PICK reason \in CallbackErrors : next = Fail(row, reason)
            BY <4>3 DEF RowAfter, CallbackErrors
          <5>2. reason \in Errors /\ reason # "RESUME_CONFLICT"
            BY DEF Errors, CallbackErrors
          <5>3. Fail(row, reason) \in Stored
            BY <2>1, <5>2, FailedRow
          <5>4. RowFine(p, next)
            BY <2>1, <5>1, <5>2, FailedFits
          <5> QED
            BY <5>1, <5>3, <5>4
        <4> QED
          BY <2>3, <2>5, <4>1, <4>2, <4>3
      <3> HIDE DEF next
      <3>6. Transacted({p})
        BY <3>1, <3>5, OneRowStores
      <3> QED
        BY <3>4, <3>6
    <2> QED
      BY <2>4, <2>5
  <1> QED
    BY <1>1, <1>2 DEF Handle

(* The first callback of a lane is on its way, and the rest stays so.      *)
LEMMA LaneHead ==
    ASSUME Inv, NEW p \in Product, lanes[p] # <<>>
    PROVE  /\ Head(lanes[p]) \in OnTheWay(p) /\ Head(lanes[p]) \in Callback
           /\ Head(lanes[p]).product = p
  <1>1. lanes[p] \in Seq(Callback) /\ \A i \in 1 .. Len(lanes[p]) : lanes[p][i].product = p
    BY DEF Inv, Types, LaneTypes
  <1>2. Head(lanes[p]) = lanes[p][1] /\ 1 \in 1 .. Len(lanes[p]) /\ Head(lanes[p]) \in Callback
    BY <1>1
  <1> QED
    BY <1>1, <1>2 DEF OnTheWay

LEMMA LaneTail ==
    ASSUME Inv, NEW p \in Product, lanes[p] # <<>>, lanes' = [lanes EXCEPT ![p] = Tail(@)],
           late' = late
    PROVE  LaneTypes' /\ \A q \in Product : OnTheWay(q)' \subseteq OnTheWay(q)
  <1>1. /\ lanes \in [Product -> Seq(Callback)] /\ late \subseteq Callback
        /\ \A q \in Product : \A i \in 1 .. Len(lanes[q]) : lanes[q][i].product = q
    BY DEF Inv, Types, LaneTypes
  <1>2. /\ Tail(lanes[p]) \in Seq(Callback) /\ Len(Tail(lanes[p])) = Len(lanes[p]) - 1
        /\ Len(lanes[p]) \in Nat
        /\ \A i \in 1 .. Len(lanes[p]) - 1 : Tail(lanes[p])[i] = lanes[p][i + 1]
    BY <1>1
  <1>3. \A i \in 1 .. Len(lanes[p]) - 1 : i + 1 \in 1 .. Len(lanes[p])
    BY <1>2
  <1>4. lanes' \in [Product -> Seq(Callback)]
    BY <1>1, <1>2
  <1>5. lanes'[p] = Tail(lanes[p]) /\ \A q \in Product : q # p => lanes'[q] = lanes[q]
    BY <1>1
  <1>6. \A i \in 1 .. Len(lanes'[p]) : \E j \in 1 .. Len(lanes[p]) : lanes'[p][i] = lanes[p][j]
    BY <1>2, <1>3, <1>5
  <1>7. \A q \in Product : \A i \in 1 .. Len(lanes'[q]) :
          \E j \in 1 .. Len(lanes[q]) : lanes'[q][i] = lanes[q][j]
    <2> TAKE q \in Product
    <2>1. CASE q = p
      BY <1>6, <2>1
    <2>2. CASE q # p
      BY <1>5, <2>2
    <2> QED
      BY <2>1, <2>2
  <1>8. LaneTypes'
    BY <1>1, <1>4, <1>7 DEF LaneTypes
  <1>9. \A q \in Product : OnTheWay(q)' \subseteq OnTheWay(q)
    BY <1>7 DEF OnTheWay
  <1> QED
    BY <1>8, <1>9

(* Callbacks go, and the backend did what it does with them.               *)
LEMMA CallbacksGo ==
    ASSUME Inv, NEW who, Transacted(who), UNCHANGED <<calls, ai, archive, issued, astray>>, LaneTypes',
           \A p \in Product : OnTheWay(p)' \subseteq OnTheWay(p),
           \A c \in Caller, p \in Product :
              p \in who /\ calls[c] # NoCall /\ p \in calls[c].products /\ rows'[p] # NoRow =>
                 CallFine(calls[c], p, rows'[p])
    PROVE  Inv'
  <1>1. CallTypes' /\ OneCall' /\ Created'
    BY DEF CallTypes, CallType, AnswerTypes, OneCall, Created, Inv, Types, Transacted
  <1> QED
    BY <1>1, TransactionKeeps

LEMMA DeliverKeeps ==
    ASSUME Inv, NEW p \in Product, Deliver(p)
    PROVE  Inv'
  <1> DEFINE m == Head(lanes[p])
  <1>1. /\ lanes[p] # <<>> /\ lanes' = [lanes EXCEPT ![p] = Tail(@)]
        /\ UNCHANGED <<calls, ai, archive, issued, astray>> /\ late' = late
    BY DEF Deliver
  <1>2. m \in OnTheWay(p) /\ m.product = p
    BY <1>1, LaneHead
  <1>3. PICK reply \in {"ok", "refused"} : Handle(m, reply)
    BY DEF Deliver
  <1>4. LaneTypes' /\ \A q \in Product : OnTheWay(q)' \subseteq OnTheWay(q)
    BY <1>1, LaneTail
  <1> HIDE DEF m
  <1>5. /\ Transacted({p})
        /\ \A c \in Caller :
             calls[c] # NoCall /\ p \in calls[c].products /\ rows'[p] # NoRow =>
               CallFine(calls[c], p, rows'[p])
    BY <1>2, <1>3, HandleStores
  <1> QED
    BY <1>1, <1>4, <1>5, CallbacksGo

LEMMA GiveUpKeeps ==
    ASSUME Inv, NEW p \in Product, GiveUp(p)
    PROVE  Inv'
  <1>1. /\ lanes[p] # <<>> /\ lanes' = [lanes EXCEPT ![p] = Tail(@)]
        /\ UNCHANGED <<calls, ai, archive, issued, astray>> /\ late' = late /\ UNCHANGED dbVars
    BY DEF GiveUp, backendVars, dbVars
  <1>2. LaneTypes' /\ \A q \in Product : OnTheWay(q)' \subseteq OnTheWay(q)
    BY <1>1, LaneTail
  <1>3. Transacted({})
    BY <1>1, NothingStored
  <1> QED
    BY <1>1, <1>2, <1>3, CallbacksGo

LEMMA TimeOutKeeps ==
    ASSUME Inv, NEW p \in Product, TimeOut(p)
    PROVE  Inv'
  <1> DEFINE m == Head(lanes[p])
  <1>1. /\ lanes[p] # <<>> /\ lanes' = lanes /\ late' = late \cup {m}
        /\ UNCHANGED <<calls, ai, archive, issued, astray>> /\ UNCHANGED dbVars
    BY DEF TimeOut, backendVars, dbVars
  <1>2. m \in OnTheWay(p) /\ m \in Callback /\ m.product = p
    BY <1>1, LaneHead
  <1> HIDE DEF m
  <1>3. LaneTypes'
    BY <1>1, <1>2 DEF LaneTypes, Inv, Types
  <1>4. \A q \in Product : OnTheWay(q)' \subseteq OnTheWay(q)
    <2> SUFFICES ASSUME NEW q \in Product, NEW n \in OnTheWay(q)' PROVE n \in OnTheWay(q)
      OBVIOUS
    <2>1. CASE n = m /\ m.product = q
      BY <1>2, <2>1
    <2> QED
      BY <1>1, <2>1 DEF OnTheWay
  <1>5. Transacted({})
    BY <1>1, NothingStored
  <1> QED
    BY <1>1, <1>3, <1>4, <1>5, CallbacksGo

LEMMA HandleLateKeeps ==
    ASSUME Inv, NEW m \in late, HandleLate(m)
    PROVE  Inv'
  <1>1. /\ late' = late \ {m} /\ lanes' = lanes /\ UNCHANGED <<calls, ai, archive, issued, astray>>
    BY DEF HandleLate
  <1>2. PICK reply \in {"ok", "refused", "again"} : Handle(m, reply)
    BY DEF HandleLate
  <1>3. m \in Callback
    BY DEF Inv, Types, LaneTypes
  <1>4. m.product \in Product
    BY <1>3 DEF Callback
  <1>5. m \in OnTheWay(m.product)
    BY DEF OnTheWay
  <1>6. LaneTypes' /\ \A q \in Product : OnTheWay(q)' \subseteq OnTheWay(q)
    BY <1>1 DEF LaneTypes, OnTheWay, Inv, Types
  <1>7. PICK p \in Product : p = m.product
    BY <1>4
  <1>8. /\ Transacted({p})
        /\ \A c \in Caller :
             calls[c] # NoCall /\ p \in calls[c].products /\ rows'[p] # NoRow =>
               CallFine(calls[c], p, rows'[p])
    BY <1>2, <1>5, <1>7, HandleStores
  <1> QED
    BY <1>1, <1>6, <1>8, CallbacksGo

LEMMA DeliveryKeeps ==
    ASSUME Inv, Delivery
    PROVE  Inv'
  BY DeliverKeeps, GiveUpKeeps, TimeOutKeeps, HandleLateKeeps DEF Delivery

-----------------------------------------------------------------------------
(* The AI server by itself.                                                *)

LEMMA SessionsMove ==
    ASSUME Inv, UNCHANGED <<rows, overall, calls, issued>>, LaneTypes', SessionTypes', astray \subseteq astray',
           \A p \in Sound' : /\ Moves(ai[p], ai'[p], OnTheWay(p), OnTheWay(p)')
                             /\ Messages(ai'[p], OnTheWay(p)', issued)
    PROVE  Inv'
  <1>1. RowTypes' /\ CallTypes' /\ OneCall' /\ Created' /\ OverallStatus'
    BY DEF RowTypes, CallTypes, CallType, AnswerTypes, OneCall, Created, OverallStatus,
           Overall, Existing, Inv, Types
  <1>2. ASSUME NEW p \in Sound' PROVE ProductFits(p)'
    <2>1. p \in Sound /\ ai[p] \in Session /\ ai'[p] \in Session /\ issued \in Nat
      BY DEF Inv, Types, SessionTypes, SessionType
    <2>2. ASSUME rows[p] # NoRow
          PROVE  /\ RowFits(rows[p], ai'[p], OnTheWay(p)', issued)
                 /\ \A c \in Caller : calls[c] # NoCall /\ p \in calls[c].products =>
                      CallFits(calls[c], p, rows[p], ai'[p], OnTheWay(p)')
      <3>1. rows[p] \in Stored /\ RowFits(rows[p], ai[p], OnTheWay(p), issued)
        BY <2>1, <2>2, KnownRow
      <3>2. Moves(ai[p], ai'[p], OnTheWay(p), OnTheWay(p)')
        OBVIOUS
      <3>3. RowFits(rows[p], ai'[p], OnTheWay(p)', issued)
        BY <2>1, <3>1, <3>2, SessionMoves
      <3>4. \A c \in Caller : calls[c] # NoCall /\ p \in calls[c].products =>
              CallFits(calls[c], p, rows[p], ai[p], OnTheWay(p))
        BY <2>1, <2>2, CalledAbout
      <3>5. \A c \in Caller : calls[c] # NoCall /\ p \in calls[c].products =>
              CallFits(calls[c], p, rows[p], ai'[p], OnTheWay(p)')
        BY <2>1, <3>1, <3>2, <3>4, CallMoves
      <3> QED
        BY <3>3, <3>5
    <2>3. Messages(ai'[p], OnTheWay(p)', issued)
      OBVIOUS
    <2> QED
      BY <2>2, <2>3 DEF ProductFits
  <1> QED
    BY <1>1, <1>2 DEF Inv, Types

LEMMA StillMoves ==
    ASSUME NEW s, NEW ms, NEW some \in SUBSET ms
    PROVE  Moves(s, s, ms, some)
  BY DEF Moves

LEMMA SessionOf ==
    ASSUME Inv, NEW p \in Product
    PROVE  /\ ai[p] \in Session /\ issued \in Nat /\ OnTheWay(p) \in SUBSET Callback
           /\ p \in Sound => Messages(ai[p], OnTheWay(p), issued)
           /\ ai[p].run <= issued /\ (ai[p].status # "none" => ai[p].run \in Run)
  <1>1. ai[p] \in Session /\ issued \in Nat
    BY DEF Inv, Types, SessionTypes, SessionType
  <1>2. \A i \in 1 .. Len(lanes[p]) : lanes[p][i] \in Callback
    BY DEF Inv, Types, LaneTypes
  <1>3. late \subseteq Callback
    BY DEF Inv, Types, LaneTypes
  <1>4. OnTheWay(p) \in SUBSET Callback
    BY <1>2, <1>3 DEF OnTheWay
  <1>5. ai[p].run <= issued /\ (ai[p].status # "none" => ai[p].run # NoRun)
    BY DEF Inv, Types, SessionTypes, SessionType
  <1> QED
    BY <1>1, <1>4, <1>5 DEF Inv, ProductFits, Session

(* What is kept of a session, and its row, have its run.                   *)
LEMMA NoSessionType ==
    ASSUME NEW last \in Nat
    PROVE  SessionType(NoSession, last) /\ NoSession.status = "none" /\ NoSession.run = NoRun
  BY DEF SessionType, NoSession, Session, NoRun

LEMMA KeptType ==
    ASSUME NEW last \in Nat, NEW s, SessionType(s, last)
    PROVE  SessionType(Kept(s), last)
  <1>1. CASE s.status \in Unfinished \cup {"waiting"}
    BY <1>1 DEF SessionType, Kept, Session
  <1>2. CASE s.status \notin Unfinished \cup {"waiting"}
    BY <1>2, NoSessionType DEF Kept
  <1> QED
    BY <1>1, <1>2

LEMMA OverType ==
    ASSUME NEW last, NEW s, SessionType(s, last), s.status # "none"
    PROVE  SessionType(Over(s), last) /\ Over(s).status = "ended" /\ Over(s).run = s.run
  BY DEF SessionType, Over, Session

(* Whichever writes the archive missed, its rows are of sessions there were.*)
LEMMA PersistTypes ==
    ASSUME Inv, NEW changed, Persist(changed) \/ archive' = archive,
           issued' \in 0 .. MaxRuns, issued <= issued', astray' = astray,
           ai' = [p \in Product |-> ai'[p]], \A p \in Product : SessionType(ai'[p], issued')
    PROVE  SessionTypes'
  <1>1. /\ issued \in Nat /\ issued' \in Nat /\ astray \subseteq Product
        /\ archive = [p \in Product |-> archive[p]]
        /\ \A p \in Product : SessionType(archive[p], issued)
    BY DEF Inv, Types, SessionTypes
  <1>2. \A p \in Product : archive[p].run \in Nat
    BY <1>1 DEF SessionType, Session, Run, NoRun
  <1>3. \A p \in Product : SessionType(archive[p], issued')
    BY <1>1, <1>2 DEF SessionType
  <1>4. \A p \in Product : SessionType(Kept(ai'[p]), issued')
    BY <1>1, KeptType
  <1>5. CASE archive' = archive
    BY <1>1, <1>3, <1>5 DEF SessionTypes
  <1>6. CASE Persist(changed)
    <2>1. PICK done : archive' = [p \in Product |-> IF p \in done THEN Kept(ai'[p]) ELSE archive[p]]
      BY <1>6 DEF Persist
    <2>2. \A p \in Product : archive'[p] = Kept(ai'[p]) \/ archive'[p] = archive[p]
      BY <2>1
    <2>3. \A p \in Product : SessionType(archive'[p], issued')
      BY <1>3, <1>4, <2>2
    <2>4. archive' = [p \in Product |-> archive'[p]]
      BY <2>1
    <2> QED
      BY <1>1, <2>3, <2>4 DEF SessionTypes
  <1> QED
    BY <1>5, <1>6

(* One product's session changes.                                          *)
LEMMA OneSessionTypes ==
    ASSUME Inv, NEW p \in Product, NEW next, ai' = [ai EXCEPT ![p] = next],
           Persist({p}) \/ archive' = archive, issued' = issued, astray' = astray,
           SessionType(next, issued)
    PROVE  /\ SessionTypes'
           /\ ai'[p] = next /\ \A q \in Product : q # p => ai'[q] = ai[q]
  <1>1. /\ ai = [q \in Product |-> ai[q]] /\ issued \in 0 .. MaxRuns
        /\ \A q \in Product : SessionType(ai[q], issued)
    BY DEF Inv, Types, SessionTypes
  <1>2. ai' = [q \in Product |-> IF q = p THEN next ELSE ai[q]]
    BY <1>1
  <1>3. ai'[p] = next /\ \A q \in Product : q # p => ai'[q] = ai[q]
    BY <1>2
  <1>4. \A q \in Product : SessionType(ai'[q], issued')
    BY <1>1, <1>3
  <1>5. ai' = [q \in Product |-> ai'[q]]
    BY <1>2
  <1>6. issued <= issued'
    BY <1>1
  <1> QED
    BY <1>1, <1>3, <1>4, <1>5, <1>6, PersistTypes

(* A run tells something of itself.                                        *)
LEMMA RunTells ==
    ASSUME Inv, NEW p \in Product, NEW next \in Session, NEW kind, NEW number \in Nat,
           UNCHANGED <<rows, overall, calls, issued, late, astray>>,
           ai[p].status \in Unfinished, ai' = [ai EXCEPT ![p] = next],
           Persist({p}) \/ archive' = archive, Tell(p, kind, number),
           next.run = ai[p].run, next.status # "none",
           kind \in {"progress", "questions", "result", "failed", "fatal"},
           Fits(next, [product |-> p, run |-> ai[p].run, kind |-> kind, number |-> number])
    PROVE  Inv'
  <1> DEFINE m == [product |-> p, run |-> ai[p].run, kind |-> kind, number |-> number]
  <1>1. ai[p].status # "none"
    BY DEF Unfinished
  <1>2. /\ ai[p] \in Session /\ issued \in Nat /\ OnTheWay(p) \in SUBSET Callback
        /\ p \in Sound => Messages(ai[p], OnTheWay(p), issued)
        /\ ai[p].run <= issued /\ ai[p].run \in Run
    BY <1>1, SessionOf
  <1>3. m \in Callback /\ m.run = ai[p].run /\ m.product = p
    BY <1>2 DEF Callback
  <1>4. lanes' = [lanes EXCEPT ![p] = Append(@, m)]
    BY DEF Tell
  <1>5. Fits(next, m)
    OBVIOUS
  <1> HIDE DEF m
  <1>6. /\ lanes \in [Product -> Seq(Callback)] /\ late \subseteq Callback
        /\ \A q \in Product : \A i \in 1 .. Len(lanes[q]) : lanes[q][i].product = q
    BY DEF Inv, Types, LaneTypes
  <1>7. lanes'[p] = Append(lanes[p], m) /\ \A q \in Product : q # p => lanes'[q] = lanes[q]
    BY <1>4, <1>6
  <1>8. /\ Append(lanes[p], m) \in Seq(Callback) /\ Len(lanes[p]) \in Nat
        /\ Len(Append(lanes[p], m)) = Len(lanes[p]) + 1
        /\ \A i \in 1 .. Len(lanes[p]) + 1 :
             \/ i \in 1 .. Len(lanes[p]) /\ Append(lanes[p], m)[i] = lanes[p][i]
             \/ Append(lanes[p], m)[i] = m
    BY <1>3, <1>6
  <1>9. LaneTypes'
    <2>1. lanes' \in [Product -> Seq(Callback)]
      BY <1>4, <1>6, <1>8
    <2>2. \A i \in 1 .. Len(lanes'[p]) : lanes'[p][i].product = p
      BY <1>3, <1>6, <1>7, <1>8
    <2>3. ASSUME NEW q \in Product PROVE \A i \in 1 .. Len(lanes'[q]) : lanes'[q][i].product = q
      <3>1. CASE q = p
        BY <2>2, <3>1
      <3>2. CASE q # p
        BY <1>6, <1>7, <3>2
      <3> QED
        BY <3>1, <3>2
    <2> QED
      BY <1>6, <2>1, <2>3 DEF LaneTypes
  <1>10. OnTheWay(p)' \in SUBSET Callback /\ OnTheWay(p)' \subseteq OnTheWay(p) \cup {m}
    <2>1. OnTheWay(p)' \subseteq OnTheWay(p) \cup {m}
      BY <1>7, <1>8 DEF OnTheWay
    <2> QED
      BY <1>2, <1>3, <2>1
  <1>11. /\ SessionTypes'
         /\ ai'[p] = next /\ \A q \in Product : q # p => ai'[q] = ai[q]
    <2>1. SessionType(next, issued)
      BY <1>2 DEF SessionType, Run, NoRun
    <2> QED
      BY <2>1, OneSessionTypes
  <1>12. ASSUME NEW q \in Sound
         PROVE  /\ Moves(ai[q], ai'[q], OnTheWay(q), OnTheWay(q)')
                /\ Messages(ai'[q], OnTheWay(q)', issued)
    <2>1. CASE q = p
      <3>1. Messages(next, OnTheWay(p)', issued)
        BY <1>2, <1>3, <1>5, <1>10, <2>1, ToldMessages
      <3>2. Moves(ai[p], next, OnTheWay(p), OnTheWay(p)')
        BY <1>3, <1>10 DEF Moves
      <3> QED
        BY <1>11, <2>1, <3>1, <3>2
    <2>2. CASE q # p
      <3>1. OnTheWay(q)' = OnTheWay(q)
        BY <1>7, <2>2 DEF OnTheWay
      <3>2. ai'[q] = ai[q]
        BY <1>11, <2>2
      <3>3. Messages(ai[q], OnTheWay(q), issued)
        BY SessionOf
      <3>4. Moves(ai[q], ai[q], OnTheWay(q), OnTheWay(q))
        BY StillMoves
      <3> QED
        BY <3>1, <3>2, <3>3, <3>4
    <2> QED
      BY <2>1, <2>2
  <1> QED
    BY <1>9, <1>11, <1>12, SessionsMove

LEMMA RunKeeps ==
    ASSUME Inv, NEW p \in Product, ReportProgress(p) \/ AskUser(p) \/ EndRun(p) \/ Expire(p)
    PROVE  Inv'
  <1> DEFINE s == ai[p]
  <1>1. s.status \in Unfinished /\ s.status # "none" /\ s \in Session
    BY SessionOf DEF ReportProgress, AskUser, EndRun, Expire, Changes, Unfinished
  <1>2. s.round \in Nat /\ s.told \in Nat /\ s.run \in Run
    BY <1>1, SessionOf DEF Session
  <1>3. UNCHANGED <<rows, overall, calls, issued, late, astray>>
    BY DEF ReportProgress, AskUser, EndRun, Expire, backendVars
  <1>4. CASE ReportProgress(p)
    <2> DEFINE next == [s EXCEPT !.told = @ + 1]
               m == [product |-> p, run |-> s.run, kind |-> "progress", number |-> s.told + 1]
    <2>1. next \in Session /\ next.run = s.run /\ next.status # "none"
      BY <1>1, <1>2 DEF Session
    <2>2. ai' = [ai EXCEPT ![p] = next] /\ archive' = archive /\ Tell(p, "progress", s.told + 1)
      BY <1>4 DEF ReportProgress
    <2>3. Fits(next, m)
      BY DEF Fits
    <2>4. s.told + 1 \in Nat
      BY <1>2
    <2> HIDE DEF next
    <2> QED
      BY <1>1, <1>3, <2>1, <2>2, <2>3, <2>4, RunTells
  <1>5. CASE AskUser(p)
    <2> DEFINE next == [s EXCEPT !.status = "waiting", !.round = @ + 1, !.told = 0]
               m == [product |-> p, run |-> s.run, kind |-> "questions", number |-> s.round + 1]
    <2>1. s.round + 1 \in Nat
      BY <1>2
    <2>2. next \in Session /\ next.run = s.run /\ next.status = "waiting" /\ next.round = s.round + 1
      BY <1>1, <2>1 DEF Session
    <2>3. ai' = [ai EXCEPT ![p] = next] /\ Persist({p}) /\ Tell(p, "questions", s.round + 1)
      BY <1>5 DEF AskUser, Changes
    <2> HIDE DEF next
    <2>4. Fits(next, m)
      BY <2>2 DEF Fits
    <2> QED
      BY <1>1, <1>3, <2>1, <2>2, <2>3, <2>4, RunTells
  <1>6. CASE EndRun(p) \/ Expire(p)
    <2> DEFINE next == Over(s)
    <2>1. next \in Session /\ next.run = s.run /\ next.status = "ended"
      BY <1>1 DEF Session, Over
    <2>2. PICK kind \in {"result", "failed", "fatal"} : Tell(p, kind, 0)
      BY <1>6 DEF EndRun, Expire
    <2>3. ai' = [ai EXCEPT ![p] = next] /\ Persist({p})
      BY <1>6 DEF EndRun, Expire, Changes
    <2> HIDE DEF next
    <2>4. Fits(next, [product |-> p, run |-> s.run, kind |-> kind, number |-> 0])
      BY <2>1, <2>2 DEF Fits
    <2> QED
      BY <1>1, <1>3, <2>1, <2>2, <2>3, <2>4, RunTells
  <1> QED
    BY <1>4, <1>5, <1>6

(* A session that tells nothing: it starts, or is forgotten.               *)
LEMMA QuietKeeps ==
    ASSUME Inv, NEW p \in Product, StartRun(p) \/ Forget(p)
    PROVE  Inv'
  <1>1. UNCHANGED <<rows, overall, calls, issued, late, lanes, astray>> /\ Persist({p})
    BY DEF StartRun, Forget, Changes, backendVars
  <1>2. LaneTypes' /\ \A q \in Product : OnTheWay(q)' = OnTheWay(q)
    BY <1>1 DEF LaneTypes, OnTheWay, Inv, Types
  <1>3. PICK next : /\ ai' = [ai EXCEPT ![p] = next]
                    /\ next = NoSession \/ (ai[p].status = "accepted"
                                            /\ next = [ai[p] EXCEPT !.status = "running"])
    BY DEF StartRun, Forget, Changes
  <1>4. ai[p] \in Session /\ issued \in Nat /\ SessionType(ai[p], issued)
    BY DEF Inv, Types, SessionTypes, SessionType
  <1>5. /\ SessionType(next, issued)
        /\ next = NoSession \/ (ai[p].status \in Unfinished /\ next.status = "running"
                                /\ next.run = ai[p].run)
    BY <1>3, <1>4, NoSessionType DEF SessionType, Session, Unfinished
  <1>6. SessionTypes' /\ ai'[p] = next /\ \A q \in Product : q # p => ai'[q] = ai[q]
    BY <1>1, <1>3, <1>5, OneSessionTypes
  <1>7. ASSUME NEW q \in Sound
        PROVE  /\ Moves(ai[q], ai'[q], OnTheWay(q), OnTheWay(q)')
               /\ Messages(ai'[q], OnTheWay(q)', issued)
    <2>1. /\ ai[q] \in Session /\ OnTheWay(q) \in SUBSET Callback
          /\ Messages(ai[q], OnTheWay(q), issued)
      BY SessionOf
    <2>2. CASE q = p
      <3>1. Messages(NoSession, OnTheWay(p), issued)
        BY <1>4, <2>1, <2>2, ForgottenMessages
      <3>2. next # NoSession => Messages(next, OnTheWay(p), issued)
        BY <1>5, <2>1, <2>2 DEF Messages, Fits, Unfinished
      <3>3. Moves(ai[p], next, OnTheWay(p), OnTheWay(p))
        BY <1>5 DEF Moves
      <3> QED
        BY <1>2, <1>6, <2>2, <3>1, <3>2, <3>3
    <2>3. CASE q # p
      <3>1. Moves(ai[q], ai[q], OnTheWay(q), OnTheWay(q))
        BY StillMoves
      <3> QED
        BY <1>2, <1>6, <2>1, <2>3, <3>1
    <2> QED
      BY <2>2, <2>3
  <1> QED
    BY <1>1, <1>2, <1>6, <1>7, SessionsMove

(* A restart: what waited waits, what ran has failed, the rest is gone.  A *)
(* session that comes back from a row that is out of date is not Sound any *)
(* more; what is kept of the others is the session itself.                 *)
LEMMA CrashKeeps ==
    ASSUME Inv, CrashAI
    PROVE  Inv'
  <1>1. UNCHANGED <<rows, overall, calls, issued, late>>
    BY DEF CrashAI, backendVars
  <1>2. PICK read \in SUBSET {p \in Product : archive[p] # NoSession}, left \in SUBSET Product :
          \E failed \in SUBSET {p \in read : archive[p].status \in Unfinished} :
            Restore(read, failed, left)
    BY DEF CrashAI
  <1>3. PICK failed \in SUBSET {p \in read : archive[p].status \in Unfinished} :
          /\ ai' = [p \in Product |-> IF p \notin read THEN NoSession
                                      ELSE IF p \in failed THEN Over(archive[p]) ELSE archive[p]]
          /\ lanes' = [p \in Product |->
                        IF p \in failed
                        THEN <<[product |-> p, run |-> archive[p].run, kind |-> "failed", number |-> 0]>>
                        ELSE <<>>]
          /\ archive' = [p \in Product |-> IF p \in left THEN archive[p] ELSE NoSession]
          /\ astray' = astray \cup {p \in read : archive[p] # Kept(ai[p])}
    BY <1>2 DEF Restore
  <1> DEFINE last(p) == [product |-> p, run |-> archive[p].run, kind |-> "failed", number |-> 0]
  <1>4. issued \in Nat /\ \A p \in Product : SessionType(ai[p], issued) /\ SessionType(archive[p], issued)
    BY DEF Inv, Types, SessionTypes
  <1>5. \A p \in failed : archive[p].status # "none" /\ archive[p].run \in Run
    BY <1>4 DEF SessionType, Session, Unfinished
  <1>6. \A p \in failed : last(p) \in Callback /\ last(p).product = p
    BY <1>5 DEF Callback
  <1>7. \A p \in Product : SessionType(ai'[p], issued)
    <2> TAKE p \in Product
    <2>1. CASE p \in failed
      BY <1>3, <1>4, <1>5, <2>1, OverType
    <2>2. CASE p \notin failed
      BY <1>3, <1>4, <2>2, NoSessionType
    <2> QED
      BY <2>1, <2>2
  <1>8. SessionTypes'
    <2>1. \A p \in Product : SessionType(archive'[p], issued)
      BY <1>3, <1>4, NoSessionType
    <2>2. ai' = [p \in Product |-> ai'[p]] /\ archive' = [p \in Product |-> archive'[p]]
      BY <1>3
    <2>3. issued' = issued /\ issued \in 0 .. MaxRuns /\ astray' \subseteq Product
      BY <1>1, <1>3 DEF Inv, Types, SessionTypes
    <2> QED
      BY <1>7, <2>1, <2>2, <2>3 DEF SessionTypes
  <1>9. LaneTypes'
    <2>1. \A p \in Product : lanes'[p] = <<>> \/ (p \in failed /\ lanes'[p] = <<last(p)>>)
      BY <1>3
    <2> HIDE DEF last
    <2>2. \A p \in Product : /\ lanes'[p] \in Seq(Callback)
                             /\ \A i \in 1 .. Len(lanes'[p]) : lanes'[p][i].product = p
      <3> TAKE p \in Product
      <3>1. CASE lanes'[p] = <<>>
        BY <3>1
      <3>2. CASE p \in failed /\ lanes'[p] = <<last(p)>>
        BY <1>6, <3>2
      <3> QED
        BY <2>1, <3>1, <3>2
    <2>3. lanes' \in [Product -> Seq(Callback)] /\ late' \subseteq Callback
      BY <1>1, <1>3, <2>2 DEF Inv, Types, LaneTypes
    <2> QED
      BY <2>2, <2>3 DEF LaneTypes
  <1>10. ASSUME NEW p \in Sound'
         PROVE  /\ Moves(ai[p], ai'[p], OnTheWay(p), OnTheWay(p)')
                /\ Messages(ai'[p], OnTheWay(p)', issued)
    <2>1. p \in Sound /\ (p \in read => archive[p] = Kept(ai[p]))
      BY <1>3
    <2>2. /\ ai[p] \in Session /\ OnTheWay(p) \in SUBSET Callback
          /\ Messages(ai[p], OnTheWay(p), issued) /\ ai[p].run <= issued
      BY <2>1, SessionOf
    <2>3. p \in read => /\ archive[p].status = ai[p].status /\ archive[p].run = ai[p].run
                        /\ archive[p].round = ai[p].round /\ ai[p].status # "none"
      <3>1. HAVE p \in read
      <3>2. Kept(ai[p]) # NoSession
        BY <2>1, <3>1
      <3> QED
        BY <2>1, <2>2, <3>1, <3>2 DEF Kept, Session, Unfinished
    <2> DEFINE rest == {m \in late : m.product = p}
    <2>4. rest \in SUBSET OnTheWay(p)
      BY DEF OnTheWay
    <2>5. CASE p \notin read
      <3>1. ai'[p] = NoSession /\ lanes'[p] = <<>>
        BY <1>3, <2>5
      <3>2. OnTheWay(p)' = rest
        BY <1>1, <3>1 DEF OnTheWay
      <3> HIDE DEF rest
      <3>3. Messages(NoSession, rest, issued)
        BY <1>4, <2>2, <2>4, ForgottenMessages
      <3>4. Moves(ai[p], NoSession, OnTheWay(p), rest)
        BY <2>4 DEF Moves
      <3> QED
        BY <3>1, <3>2, <3>3, <3>4
    <2>6. CASE p \in read \ failed
      <3>1. ai'[p] = archive[p] /\ lanes'[p] = <<>>
        BY <1>3, <2>6
      <3>2. OnTheWay(p)' = rest
        BY <1>1, <3>1 DEF OnTheWay
      <3> HIDE DEF rest
      <3>3. issued <= issued
        BY <1>4
      <3>4. Messages(ai[p], rest, issued)
        BY <1>4, <2>2, <2>4, <3>3, FewerMessages
      <3>5. Messages(archive[p], rest, issued)
        BY <2>3, <2>6, <3>4 DEF Messages, Fits
      <3>6. Moves(ai[p], archive[p], OnTheWay(p), rest)
        BY <2>3, <2>4, <2>6 DEF Moves
      <3> QED
        BY <3>1, <3>2, <3>5, <3>6
    <2>7. CASE p \in failed
      <3> DEFINE next == Over(archive[p])
                 m == last(p)
      <3>1. ai'[p] = next /\ lanes'[p] = <<m>>
        BY <1>3, <2>7
      <3>2. next \in Session /\ next.status = "ended" /\ next.run = archive[p].run
        BY <1>4, <1>5, <2>7, OverType DEF SessionType
      <3>3. ai[p].status \in Unfinished /\ next.run = ai[p].run
        BY <2>3, <2>7, <3>2
      <3>4. m \in Callback /\ m.product = p /\ m.run = ai[p].run /\ m.kind = "failed"
        BY <1>6, <2>3, <2>7
      <3> HIDE DEF next, m, last
      <3>5. OnTheWay(p)' = {m} \cup rest
        BY <1>1, <3>1 DEF OnTheWay
      <3> HIDE DEF rest
      <3>6. Fits(next, m)
        BY <3>2, <3>4 DEF Fits
      <3>7. {m} \cup rest \in SUBSET Callback /\ {m} \cup rest \subseteq OnTheWay(p) \cup {m}
        BY <2>2, <2>4, <3>4
      <3>8. Messages(next, {m} \cup rest, issued)
        BY <1>4, <2>2, <3>2, <3>3, <3>4, <3>6, <3>7, ToldMessages
      <3>9. Moves(ai[p], next, OnTheWay(p), {m} \cup rest)
        BY <2>4, <3>2, <3>3, <3>4 DEF Moves
      <3> QED
        BY <3>1, <3>5, <3>8, <3>9
    <2> QED
      BY <2>5, <2>6, <2>7
  <1>11. astray \subseteq astray'
    BY <1>3
  <1> QED
    BY <1>1, <1>8, <1>9, <1>10, <1>11, SessionsMove

-----------------------------------------------------------------------------
(* The AI server answers requests.                                         *)

(* A request keeps what it is about when it gets its answer.               *)
LEMMA RepliedCall ==
    ASSUME NEW c, NEW call, CallType(c, call), NEW answer
    PROVE  LET next == [call EXCEPT !.answer = answer] IN
           /\ next.answer = answer /\ next.kind = call.kind /\ next.products = call.products
           /\ call.kind = "resume" => next.run = call.run /\ next.round = call.round
                                      /\ next.resend = call.resend
           /\ next.kind = "diagnose" =>
                next = [kind |-> "diagnose", products |-> next.products, answer |-> next.answer]
           /\ next.kind = "resume" =>
                next = [kind |-> "resume", products |-> next.products, run |-> next.run,
                        round |-> next.round, resend |-> next.resend, answer |-> next.answer]
  <1> DEFINE next == [call EXCEPT !.answer = answer]
  <1>1. CASE call.kind = "diagnose"
    <2>1. call = [kind |-> "diagnose", products |-> call.products, answer |-> call.answer]
      BY <1>1 DEF CallType
    <2>2. next = [kind |-> "diagnose", products |-> call.products, answer |-> answer]
      BY <2>1
    <2> HIDE DEF next
    <2>3. next.kind = "diagnose" /\ next.products = call.products /\ next.answer = answer
      BY <2>2
    <2> QED
      BY <1>1, <2>2, <2>3 DEF next
  <1>2. CASE call.kind = "resume"
    <2>1. call = [kind |-> "resume", products |-> call.products, run |-> call.run,
                  round |-> call.round, resend |-> call.resend, answer |-> call.answer]
      BY <1>2 DEF CallType
    <2>2. next = [kind |-> "resume", products |-> call.products, run |-> call.run,
                  round |-> call.round, resend |-> call.resend, answer |-> answer]
      BY <2>1
    <2> HIDE DEF next
    <2>3. /\ next.kind = "resume" /\ next.products = call.products /\ next.answer = answer
          /\ next.run = call.run /\ next.round = call.round /\ next.resend = call.resend
      BY <2>2
    <2> QED
      BY <1>2, <2>2, <2>3 DEF next
  <1> QED
    BY <1>1, <1>2 DEF CallType

(* The answer to one request; the sessions of its products, and no others, *)
(* may have changed.                                                       *)
LEMMA RequestAnswered ==
    ASSUME Inv, UNCHANGED <<rows, overall, lanes, late, astray>>, NEW c \in Caller, calls[c] # NoCall,
           NEW answer, Reply(c, answer),
           NEW next, next = [calls[c] EXCEPT !.answer = answer], AnswerTypes(next)',
           issued <= issued', issued' \in Nat, SessionTypes',
           \A p \in Product : p \notin calls[c].products => ai'[p] = ai[p],
           \A p \in calls[c].products \ astray :
             /\ Messages(ai'[p], OnTheWay(p), issued')
             /\ rows[p] # NoRow =>
                  /\ RowFits(rows[p], ai'[p], OnTheWay(p), issued')
                  /\ CallFits(next, p, rows[p], ai'[p], OnTheWay(p))
    PROVE  Inv'
  <1>1. /\ calls = [d \in Caller |-> calls[d]]
        /\ \A d \in Caller : calls[d] # NoCall => CallType(d, calls[d])
    BY DEF Inv, Types, CallTypes
  <1>2. /\ next.kind = calls[c].kind /\ next.products = calls[c].products
        /\ calls[c].kind = "resume" => next.resend = calls[c].resend
        /\ next.kind = "diagnose" =>
             next = [kind |-> "diagnose", products |-> next.products, answer |-> next.answer]
        /\ next.kind = "resume" =>
             next = [kind |-> "resume", products |-> next.products, run |-> next.run,
                     round |-> next.round, resend |-> next.resend, answer |-> next.answer]
    BY <1>1, RepliedCall
  <1>3. calls' = [calls EXCEPT ![c] = next]
    BY DEF Reply
  <1>4. calls' = [d \in Caller |-> IF d = c THEN next ELSE calls[d]]
    BY <1>1, <1>3
  <1>5. calls'[c] = next /\ \A d \in Caller : d # c => calls'[d] = calls[d]
    BY <1>4
  <1>6. AnswerTypes(next)'
    OBVIOUS
  <1>7. CallType(c, next)'
    <2>1. CallType(c, calls[c])
      BY <1>1
    <2> QED
      BY <1>2, <1>6, <2>1 DEF CallType
  <1>8. \A d \in Caller : calls[d] # NoCall => \A x : x = calls[d] => CallType(d, x)'
    <2> SUFFICES ASSUME NEW d \in Caller, calls[d] # NoCall, NEW x, x = calls[d]
                 PROVE  CallType(d, x)'
      OBVIOUS
    <2>1. CallType(d, x)
      BY <1>1
    <2>2. issued \in Nat /\ issued' \in Nat
      BY DEF Inv, Types, SessionTypes
    <2>3. 1 .. issued \subseteq 1 .. issued'
      BY <2>2
    <2>4. x.answer.runs \in [x.products -> 1 .. issued] => x.answer.runs \in [x.products -> 1 .. issued']
      BY <2>3
    <2>5. AnswerTypes(x)'
      BY <2>1, <2>4 DEF CallType, AnswerTypes
    <2> QED
      BY <2>1, <2>5 DEF CallType
  <1>9. CallTypes'
    <2>1. calls' = [d \in Caller |-> calls'[d]]
      BY <1>4
    <2>2. ASSUME NEW d \in Caller, calls'[d] # NoCall PROVE CallType(d, calls[d])'
      <3>1. PICK x : x = calls'[d]
        OBVIOUS
      <3>2. CASE d = c
        <4>1. x = next
          BY <1>5, <3>1, <3>2
        <4>2. CallType(d, x)'
          BY <1>7, <3>2, <4>1
        <4> QED
          BY <3>1, <4>2
      <3>3. CASE d # c
        <4>1. x = calls[d] /\ x # NoCall
          BY <1>5, <2>2, <3>1, <3>3
        <4>2. CallType(d, x)'
          BY <1>8, <4>1
        <4> QED
          BY <3>1, <4>2
      <3> QED
        BY <3>2, <3>3
    <2> QED
      BY <2>1, <2>2 DEF CallTypes
  <1>10. OneCall'
    <2>1. next.products = calls[c].products
      BY <1>2
    <2>2. \A d \in Caller : calls'[d] # NoCall =>
            calls[d] # NoCall /\ calls'[d].products = calls[d].products
      <3> TAKE d \in Caller
      <3>1. CASE d = c
        BY <1>5, <2>1, <3>1
      <3>2. CASE d # c
        BY <1>5, <3>2
      <3> QED
        BY <3>1, <3>2
    <2>3. OneCall
      BY DEF Inv
    <2> QED
      BY <2>2, <2>3 DEF OneCall
  <1>11. Created'
    BY DEF Created, Inv
  <1>12. RowTypes' /\ OverallStatus' /\ LaneTypes'
    BY DEF RowTypes, OverallStatus, Overall, Existing, LaneTypes, Inv, Types
  <1>13. ASSUME NEW p \in Sound PROVE ProductFits(p)'
    <2>1. OnTheWay(p)' = OnTheWay(p)
      BY DEF OnTheWay
    <2>2. CASE p \in calls[c].products
      <3>1. \A d \in Caller : calls'[d] # NoCall /\ p \in calls'[d].products => d = c
        BY <1>2, <1>5, <2>2 DEF Inv, OneCall
      <3>2. rows[p] # NoRow => CallFits(next, p, rows[p], ai'[p], OnTheWay(p))
        BY <2>2
      <3>3. Messages(ai'[p], OnTheWay(p), issued')
        BY <2>2
      <3>4. rows[p] # NoRow => RowFits(rows[p], ai'[p], OnTheWay(p), issued')
        BY <2>2
      <3> QED
        BY <1>5, <2>1, <3>1, <3>2, <3>3, <3>4 DEF ProductFits
    <2>3. CASE p \notin calls[c].products
      <3>1. ai'[p] = ai[p]
        BY <2>3
      <3>2. /\ ai[p] \in Session /\ issued \in Nat /\ OnTheWay(p) \in SUBSET Callback
            /\ Messages(ai[p], OnTheWay(p), issued)
        BY SessionOf
      <3>3. Messages(ai[p], OnTheWay(p), issued')
        BY <3>2, FewerMessages
      <3>4. rows[p] # NoRow => RowFits(rows[p], ai[p], OnTheWay(p), issued')
        <4>1. HAVE rows[p] # NoRow
        <4>2. rows[p] \in Stored /\ RowFits(rows[p], ai[p], OnTheWay(p), issued)
          BY <4>1, KnownRow
        <4> QED
          BY <3>2, <4>2, FewerFit
      <3>5. ASSUME NEW d \in Caller, calls'[d] # NoCall, p \in calls'[d].products, rows[p] # NoRow
            PROVE  CallFits(calls'[d], p, rows[p], ai[p], OnTheWay(p))
        <4>1. d # c /\ calls'[d] = calls[d]
          BY <1>2, <1>5, <2>3, <3>5
        <4> QED
          BY <3>5, <4>1, CalledAbout
      <3> QED
        BY <2>1, <3>1, <3>3, <3>4, <3>5 DEF ProductFits
    <2> QED
      BY <2>2, <2>3
  <1> QED
    BY <1>9, <1>10, <1>11, <1>12, <1>13 DEF Inv, Types

(* The runs of a request are new ones, and the last of them is issued now. *)
LEMMA SubmittedRuns ==
    ASSUME NEW products \in SUBSET Product
    PROVE  LET order == SetToSeq(products) IN
           /\ Cardinality(products) \in Nat
           /\ \A p \in products :
                (CHOOSE i \in DOMAIN order : order[i] = p) \in 1 .. Cardinality(products)
  <1> DEFINE n == Cardinality(products)  order == SetToSeq(products)
  <1>1. IsFiniteSet(products)
    BY FS_Subset
  <1>2. n \in Nat
    BY <1>1, FS_CardinalityType
  <1>3. ExistsBijection(1 .. n, products)
    BY <1>1, FS_CardinalityType
  <1>4. PICK f \in Bijection(1 .. n, products) : TRUE
    BY <1>3 DEF ExistsBijection
  <1>5. f \in [1 .. n -> products] /\ IsInjective(f)
    BY <1>4 DEF Bijection, Injection, IsInjective
  <1>6. order \in [1 .. n -> products] /\ IsInjective(order)
    BY <1>5 DEF SetToSeq
  <1>7. Cardinality(1 .. n) = n
    BY <1>2, FS_Interval
  <1> HIDE DEF n, order
  <1>8. order \in Injection(1 .. n, products)
    BY <1>6 DEF Injection
  <1>9. Cardinality(1 .. n) = Cardinality(products)
    BY <1>7 DEF n
  <1>10. order \in Surjection(1 .. n, products)
    BY <1>1, <1>8, <1>9, FS_Injection
  <1>11. \A p \in products : \E i \in DOMAIN order : order[i] = p
    BY <1>6, <1>10 DEF Surjection
  <1>12. \A p \in products : (CHOOSE i \in DOMAIN order : order[i] = p) \in DOMAIN order
    BY <1>11
  <1> QED
    BY <1>2, <1>6, <1>12 DEF n, order

LEMMA AcceptedSession ==
    ASSUME NEW run \in Run, NEW round \in Nat
    PROVE  LET s == Accepted(run, round) IN
           /\ s \in Session /\ s.status = "accepted" /\ s.run = run /\ s.run # NoRun
  BY DEF Accepted, Session, Run, NoRun

LEMMA SubmitKeeps ==
    ASSUME Inv, NEW c \in Caller, Submit(c)
    PROVE  Inv'
  <1> DEFINE order == SetToSeq(calls[c].products)
  <1>1. /\ calls[c] # NoCall /\ calls[c].answer = Open /\ calls[c].kind = "diagnose"
        /\ UNCHANGED <<rows, overall, lanes, late, astray>>
    BY DEF Submit, Asked
  <1>2. PICK products \in SUBSET Product : products = calls[c].products
    BY <1>1, CalledAbout
  <1>3. issued \in Nat /\ issued \in 0 .. MaxRuns
    BY DEF Inv, Types, SessionTypes
  <1>4. CallType(c, calls[c])
    BY <1>1, CalledAbout
  <1>5. CASE /\ Reply(c, [outcome |-> "conflict", conflicts |-> Conflicts(products)])
             /\ UNCHANGED <<ai, archive, issued>>
    <2>1. PICK answer : answer = [outcome |-> "conflict", conflicts |-> Conflicts(products)]
      OBVIOUS
    <2>2. PICK next : next = [calls[c] EXCEPT !.answer = answer]
      OBVIOUS
    <2>3. next.answer = answer /\ next.kind = "diagnose" /\ next.products = calls[c].products
      BY <1>1, <1>4, <2>2, RepliedCall
    <2>4. next.answer.outcome = "conflict"
      BY <2>1, <2>3
    <2>5. AnswerTypes(next)'
      BY <2>4 DEF AnswerTypes
    <2>6. SessionTypes'
      BY <1>1, <1>5 DEF SessionTypes, Inv, Types
    <2>7. ASSUME NEW p \in calls[c].products \ astray
          PROVE  /\ Messages(ai'[p], OnTheWay(p), issued')
                 /\ rows[p] # NoRow =>
                      /\ RowFits(rows[p], ai'[p], OnTheWay(p), issued')
                      /\ CallFits(next, p, rows[p], ai'[p], OnTheWay(p))
      <3>1. p \in Sound
        BY <1>2
      <3>2. Messages(ai[p], OnTheWay(p), issued)
        BY <3>1, SessionOf
      <3>3. ASSUME rows[p] # NoRow
            PROVE  /\ RowFits(rows[p], ai[p], OnTheWay(p), issued)
                   /\ CallFits(next, p, rows[p], ai[p], OnTheWay(p))
        <4>1. /\ rows[p] \in Stored /\ ai[p] \in Session
              /\ RowFits(rows[p], ai[p], OnTheWay(p), issued)
          BY <3>1, <3>3, KnownRow
        <4>2. CallFits(calls[c], p, rows[p], ai[p], OnTheWay(p))
          BY <1>1, <3>3, CalledAbout
        <4>3. CallFits(next, p, rows[p], ai[p], OnTheWay(p))
          BY <1>1, <2>3, <2>4, <4>1, <4>2, RefusedFits
        <4> QED
          BY <4>1, <4>3
      <3> QED
        BY <1>5, <3>2, <3>3
    <2>8. Reply(c, answer)
      BY <1>5, <2>1
    <2>9. issued <= issued' /\ issued' \in Nat /\ ai' = ai
      BY <1>3, <1>5
    <2> QED
      BY <1>1, <2>2, <2>5, <2>6, <2>7, <2>8, <2>9, RequestAnswered
  <1>6. CASE /\ issued + Cardinality(products) <= MaxRuns
             /\ issued' = issued + Cardinality(products)
             /\ Persist(products)
             /\ \E runs : /\ runs = [p \in products |-> issued + CHOOSE i \in DOMAIN order : order[i] = p]
                          /\ ai' = [p \in Product |-> IF p \in products THEN Accepted(runs[p], 0) ELSE ai[p]]
                          /\ Reply(c, [outcome |-> "accepted", runs |-> runs])
    <2>1. PICK runs : /\ runs = [p \in products |-> issued + CHOOSE i \in DOMAIN order : order[i] = p]
                      /\ ai' = [p \in Product |-> IF p \in products THEN Accepted(runs[p], 0) ELSE ai[p]]
                      /\ Reply(c, [outcome |-> "accepted", runs |-> runs])
      BY <1>6
    <2> DEFINE answer == [outcome |-> "accepted", runs |-> runs]
    <2>2. PICK next : next = [calls[c] EXCEPT !.answer = answer]
      OBVIOUS
    <2>3. next.answer = answer /\ next.kind = "diagnose" /\ next.products = calls[c].products
      BY <1>1, <1>4, <2>2, RepliedCall
    <2>4. next.answer.outcome = "accepted" /\ next.answer.runs = runs /\ next.products = products
      BY <1>2, <2>3
    <2>5. /\ Cardinality(products) \in Nat
          /\ \A p \in products :
               (CHOOSE i \in DOMAIN order : order[i] = p) \in 1 .. Cardinality(products)
      BY <1>2, SubmittedRuns
    <2>6. \A p \in products : runs[p] = issued + CHOOSE i \in DOMAIN order : order[i] = p
      BY <2>1
    <2> HIDE DEF order
    <2>7. issued' \in Nat /\ issued <= issued' /\ issued' \in 0 .. MaxRuns
      BY <1>3, <1>6, <2>5
    <2>8. \A p \in products : /\ runs[p] \in Run /\ runs[p] \in 1 .. issued'
                              /\ issued < runs[p] /\ runs[p] <= issued'
      <3> TAKE p \in products
      <3>1. PICK i \in 1 .. Cardinality(products) : runs[p] = issued + i
        BY <2>5, <2>6
      <3> QED
        BY <1>3, <1>6, <2>5, <3>1 DEF Run
    <2>9. runs \in [products -> 1 .. issued']
      BY <2>1, <2>8
    <2>10. AnswerTypes(next)'
      BY <2>4, <2>9 DEF AnswerTypes
    <2>11. \A p \in products : /\ ai'[p] \in Session /\ ai'[p].status = "accepted"
                               /\ ai'[p].run = runs[p] /\ ai'[p].run # NoRun
      BY <2>1, <2>8, AcceptedSession
    <2>12. \A p \in Product : p \notin products => ai'[p] = ai[p]
      BY <2>1
    <2>13. SessionTypes'
      <3>1. ASSUME NEW p \in Product PROVE SessionType(ai'[p], issued')
        <4>1. CASE p \in products
          BY <2>8, <2>11, <4>1 DEF SessionType
        <4>2. CASE p \notin products
          <5>1. SessionType(ai[p], issued) /\ ai[p].run \in Nat
            BY DEF Inv, Types, SessionTypes, SessionType, Session, Run, NoRun
          <5> QED
            BY <1>3, <2>7, <2>12, <4>2, <5>1 DEF SessionType
        <4> QED
          BY <4>1, <4>2
      <3>2. ai' = [p \in Product |-> ai'[p]]
        BY <2>1
      <3> QED
        BY <1>1, <1>6, <2>7, <3>1, <3>2, PersistTypes
    <2>14. ASSUME NEW p \in calls[c].products \ astray
           PROVE  /\ Messages(ai'[p], OnTheWay(p), issued')
                  /\ rows[p] # NoRow =>
                       /\ RowFits(rows[p], ai'[p], OnTheWay(p), issued')
                       /\ CallFits(next, p, rows[p], ai'[p], OnTheWay(p))
      <3>1. p \in products /\ p \in Sound
        BY <1>2
      <3>2. /\ ai[p] \in Session /\ OnTheWay(p) \in SUBSET Callback
            /\ Messages(ai[p], OnTheWay(p), issued)
        BY <3>1, SessionOf
      <3>3. /\ ai'[p] \in Session /\ issued < ai'[p].run /\ ai'[p].run <= issued'
            /\ ai'[p].run = runs[p]
        BY <2>8, <2>11, <3>1
      <3>4. Messages(ai'[p], OnTheWay(p), issued')
        BY <1>3, <2>7, <3>2, <3>3, NewMessages
      <3>5. ASSUME rows[p] # NoRow
            PROVE  /\ RowFits(rows[p], ai'[p], OnTheWay(p), issued')
                   /\ CallFits(next, p, rows[p], ai'[p], OnTheWay(p))
        <4>1. rows[p] \in Stored /\ RowFits(rows[p], ai[p], OnTheWay(p), issued)
          BY <3>1, <3>5, KnownRow
        <4>2. CallFits(calls[c], p, rows[p], ai[p], OnTheWay(p))
          BY <1>1, <3>5, CalledAbout
        <4>3. next.answer.runs[p] = ai'[p].run
          BY <2>4, <3>3
        <4> QED
          BY <1>1, <1>3, <2>3, <2>7, <3>2, <3>3, <4>1, <4>2, <4>3, SubmittedFits
      <3> QED
        BY <3>4, <3>5
    <2>15. Reply(c, answer)
      BY <2>1
    <2> HIDE DEF answer
    <2> QED
      BY <1>1, <1>2, <2>2, <2>7, <2>10, <2>12, <2>13, <2>14, <2>15, RequestAnswered
  <1> QED
    BY <1>2, <1>5, <1>6 DEF Submit

(* A resume that changes no session: it is refused.                        *)
LEMMA RefusedKeeps ==
    ASSUME Inv, NEW c \in Caller, Asked(c, "resume"), NEW answer, Reply(c, answer),
           answer.outcome \in {"conflict", "not_found"},
           UNCHANGED <<rows, overall, lanes, late, ai, archive, issued, astray>>,
           \A p \in calls[c].products : answer.outcome = "conflict" =>
             ai[p].status # "none" /\ ~Waits(p, calls[c].run, calls[c].round)
    PROVE  Inv'
  <1>1. calls[c] # NoCall /\ calls[c].answer = Open /\ calls[c].kind = "resume"
    BY DEF Asked
  <1>2. CallType(c, calls[c])
    BY <1>1, CalledAbout
  <1>3. PICK next : next = [calls[c] EXCEPT !.answer = answer]
    OBVIOUS
  <1>4. /\ next.answer = answer /\ next.kind = calls[c].kind
        /\ next.run = calls[c].run /\ next.round = calls[c].round /\ next.resend = calls[c].resend
    BY <1>1, <1>2, <1>3, RepliedCall
  <1>5. AnswerTypes(next)'
    BY <1>1, <1>4 DEF AnswerTypes
  <1>6. SessionTypes'
    BY DEF SessionTypes, Inv, Types
  <1>7. issued <= issued' /\ issued' \in Nat
    BY DEF Inv, Types, SessionTypes
  <1>8. ASSUME NEW p \in calls[c].products \ astray
        PROVE  /\ Messages(ai'[p], OnTheWay(p), issued')
               /\ rows[p] # NoRow =>
                    /\ RowFits(rows[p], ai'[p], OnTheWay(p), issued')
                    /\ CallFits(next, p, rows[p], ai'[p], OnTheWay(p))
    <2>1. p \in Sound
      BY <1>1, CalledAbout
    <2>2. Messages(ai[p], OnTheWay(p), issued)
      BY <2>1, SessionOf
    <2>3. ASSUME rows[p] # NoRow
          PROVE  /\ RowFits(rows[p], ai[p], OnTheWay(p), issued)
                 /\ CallFits(next, p, rows[p], ai[p], OnTheWay(p))
      <3>1. /\ rows[p] \in Stored /\ ai[p] \in Session
            /\ RowFits(rows[p], ai[p], OnTheWay(p), issued)
        BY <2>1, <2>3, KnownRow
      <3>2. CallFits(calls[c], p, rows[p], ai[p], OnTheWay(p))
        BY <1>1, <2>3, CalledAbout
      <3>3. next.answer.outcome = "conflict" =>
              /\ ai[p].status # "none"
              /\ ~(ai[p].status = "waiting" /\ ai[p].run = calls[c].run /\ ai[p].round = calls[c].round)
        BY <1>4 DEF Waits
      <3>4. CallFits(next, p, rows[p], ai[p], OnTheWay(p))
        BY <1>1, <1>4, <3>1, <3>2, <3>3, RefusedFits
      <3> QED
        BY <3>1, <3>4
    <2> QED
      BY <2>2, <2>3
  <1> QED
    BY <1>1, <1>3, <1>5, <1>6, <1>7, <1>8, RequestAnswered

LEMMA ResumeSessionKeeps ==
    ASSUME Inv, NEW c \in Caller, ResumeSession(c)
    PROVE  Inv'
  <1>1. /\ calls[c] # NoCall /\ calls[c].answer = Open /\ calls[c].kind = "resume"
        /\ Asked(c, "resume") /\ UNCHANGED <<rows, overall, lanes, late, astray>>
    BY DEF ResumeSession, Asked
  <1>2. CallType(c, calls[c])
    BY <1>1, CalledAbout
  <1>3. PICK p \in calls[c].products :
          \/ ai[p].status = "none" /\ Reply(c, [outcome |-> "not_found"]) /\ UNCHANGED <<ai, archive, issued>>
          \/ /\ ai[p].status # "none" /\ ~Waits(p, calls[c].run, calls[c].round)
             /\ Reply(c, [outcome |-> "conflict"]) /\ UNCHANGED <<ai, archive, issued>>
          \/ /\ Waits(p, calls[c].run, calls[c].round)
             /\ issued < MaxRuns /\ issued' = issued + 1
             /\ ai' = [ai EXCEPT ![p] = Accepted(issued + 1, ai[p].round)]
             /\ Persist({p})
             /\ Reply(c, [outcome |-> "accepted", runs |-> [q \in {p} |-> issued + 1]])
    BY DEF ResumeSession
  <1>4. p \in Product /\ calls[c].products = {p}
    BY <1>1, <1>2, CalledAbout DEF CallType
  <1>5. CASE ai[p].status = "none" /\ Reply(c, [outcome |-> "not_found"]) /\ UNCHANGED <<ai, archive, issued>>
    <2>1. PICK answer : answer = [outcome |-> "not_found"]
      OBVIOUS
    <2>2. answer.outcome = "not_found"
      BY <2>1
    <2> QED
      BY <1>1, <1>5, <2>1, <2>2, RefusedKeeps
  <1>6. CASE /\ ai[p].status # "none" /\ ~Waits(p, calls[c].run, calls[c].round)
             /\ Reply(c, [outcome |-> "conflict"]) /\ UNCHANGED <<ai, archive, issued>>
    <2>1. PICK answer : answer = [outcome |-> "conflict"]
      OBVIOUS
    <2>2. answer.outcome = "conflict"
      BY <2>1
    <2>3. \A q \in calls[c].products :
            ai[q].status # "none" /\ ~Waits(q, calls[c].run, calls[c].round)
      BY <1>4, <1>6
    <2> QED
      BY <1>1, <1>6, <2>1, <2>2, <2>3, RefusedKeeps
  <1>7. CASE /\ Waits(p, calls[c].run, calls[c].round)
             /\ issued < MaxRuns /\ issued' = issued + 1
             /\ ai' = [ai EXCEPT ![p] = Accepted(issued + 1, ai[p].round)]
             /\ Persist({p})
             /\ Reply(c, [outcome |-> "accepted", runs |-> [q \in {p} |-> issued + 1]])
    <2>1. PICK run : run = issued + 1
      OBVIOUS
    <2> DEFINE answer == [outcome |-> "accepted", runs |-> [q \in {p} |-> run]]
    <2>2. PICK next : next = [calls[c] EXCEPT !.answer = answer]
      OBVIOUS
    <2>3. /\ next.answer = answer /\ next.kind = "resume" /\ next.products = {p}
          /\ next.run = calls[c].run /\ next.round = calls[c].round /\ next.resend = calls[c].resend
      BY <1>1, <1>2, <1>4, <2>2, RepliedCall
    <2>4. /\ next.answer.outcome = "accepted" /\ next.answer.runs = [q \in {p} |-> run]
          /\ next.answer.runs[p] = run
      BY <2>3
    <2>5. /\ run \in Run /\ issued \in Nat /\ issued' \in Nat /\ issued <= issued'
          /\ issued' \in 0 .. MaxRuns /\ run \in 1 .. issued' /\ issued < run
      BY <1>7, <2>1 DEF Inv, Types, SessionTypes, Run
    <2>6. AnswerTypes(next)'
      BY <2>3, <2>4, <2>5 DEF AnswerTypes
    <2>7. /\ ai[p] \in Session /\ OnTheWay(p) \in SUBSET Callback
          /\ p \in Sound => Messages(ai[p], OnTheWay(p), issued)
          /\ ai[p].round \in Nat
      BY <1>4, SessionOf DEF Session
    <2>8. Reply(c, answer)
      BY <1>7, <2>1
    <2> HIDE DEF answer
    <2>9. /\ ai'[p] = Accepted(run, ai[p].round)
          /\ \A q \in Product : q # p => ai'[q] = ai[q]
      BY <1>4, <1>7, <2>1 DEF Inv, Types, SessionTypes
    <2>10. /\ ai'[p] \in Session /\ ai'[p].status = "accepted" /\ ai'[p].run = run
           /\ ai'[p].run # NoRun
      BY <2>5, <2>7, <2>9, AcceptedSession
    <2>11. SessionTypes'
      <3>1. ASSUME NEW q \in Product PROVE SessionType(ai'[q], issued')
        <4>1. CASE q = p
          BY <2>5, <2>10, <4>1 DEF SessionType
        <4>2. CASE q # p
          <5>1. SessionType(ai[q], issued) /\ ai[q].run \in Nat
            BY DEF Inv, Types, SessionTypes, SessionType, Session, Run, NoRun
          <5> QED
            BY <2>5, <2>9, <4>2, <5>1 DEF SessionType
        <4> QED
          BY <4>1, <4>2
      <3>2. ai' = [q \in Product |-> ai'[q]]
        BY <1>7 DEF Inv, Types, SessionTypes
      <3> QED
        BY <1>1, <1>7, <2>5, <3>1, <3>2, PersistTypes
    <2>12. p \in Sound =>
           /\ Messages(ai'[p], OnTheWay(p), issued')
           /\ rows[p] # NoRow =>
                /\ RowFits(rows[p], ai'[p], OnTheWay(p), issued')
                /\ CallFits(next, p, rows[p], ai'[p], OnTheWay(p))
      <3> HAVE p \in Sound
      <3>1. issued < ai'[p].run /\ ai'[p].run <= issued'
        BY <2>5, <2>10
      <3>2. Messages(ai'[p], OnTheWay(p), issued')
        BY <2>5, <2>7, <2>10, <3>1, NewMessages
      <3>3. ASSUME rows[p] # NoRow
            PROVE  /\ RowFits(rows[p], ai'[p], OnTheWay(p), issued')
                   /\ CallFits(next, p, rows[p], ai'[p], OnTheWay(p))
        <4>1. rows[p] \in Stored /\ RowFits(rows[p], ai[p], OnTheWay(p), issued)
          BY <1>4, <3>3, KnownRow
        <4>2. CallFits(calls[c], p, rows[p], ai[p], OnTheWay(p))
          BY <1>1, <3>3, CalledAbout
        <4>3. next.answer.runs[p] = ai'[p].run /\ ai'[p].status # "none"
          BY <2>4, <2>10
        <4> QED
          BY <1>1, <2>3, <2>4, <2>5, <2>7, <2>10, <3>1, <4>1, <4>2, <4>3, ResumedFits
      <3> QED
        BY <3>2, <3>3
    <2> QED
      BY <1>1, <1>4, <2>2, <2>5, <2>6, <2>8, <2>9, <2>11, <2>12, RequestAnswered
  <1> QED
    BY <1>3, <1>5, <1>6, <1>7

-----------------------------------------------------------------------------
(* The theorems.                                                           *)

LEMMA InitInv == Init => Inv
  <1> SUFFICES ASSUME Init PROVE Inv
    OBVIOUS
  <1>1. /\ rows = [p \in Product |-> NoRow] /\ overall = NoRow /\ issued = 0
        /\ calls = [c \in Caller |-> NoCall] /\ late = {}
        /\ ai = [p \in Product |-> NoSession] /\ lanes = [p \in Product |-> <<>>]
        /\ archive = [p \in Product |-> NoSession] /\ astray = {}
    BY DEF Init, BackendInit
  <1>2. RowTypes /\ CallTypes /\ Created /\ OneCall
    BY <1>1 DEF RowTypes, CallTypes, Created, OneCall
  <1>3. SessionTypes
    BY <1>1, NoSessionType DEF SessionTypes, NoRun
  <1>4. LaneTypes
    BY <1>1 DEF LaneTypes
  <1>5. OverallStatus
    BY <1>1 DEF OverallStatus, Existing
  <1>6. \A p \in Product : OnTheWay(p) = {} /\ rows[p] = NoRow
    BY <1>1 DEF OnTheWay
  <1>7. \A p \in Product : ProductFits(p)
    BY <1>6 DEF ProductFits, Messages
  <1> QED
    BY <1>2, <1>3, <1>4, <1>5, <1>7 DEF Inv, Types

LEMMA NextInv == Inv /\ [Next]_vars => Inv'
  <1> SUFFICES ASSUME Inv, [Next]_vars PROVE Inv'
    OBVIOUS
  <1>1. CASE Server
    BY <1>1, SubmitKeeps, ResumeSessionKeeps, RunKeeps, QuietKeeps, CrashKeeps DEF Server
  <1>2. CASE UNCHANGED vars
    BY <1>2, NothingStoredKeeps DEF vars, backendVars, dbVars
  <1> QED
    BY <1>1, <1>2, BackendKeeps, DeliveryKeeps DEF Next

(* However requests and callbacks are lost, delayed, repeated or reordered *)
(* and whenever the AI server restarts, a callback fits the session of its *)
(* run, a row is at most one run behind its session, and while a request   *)
(* is unanswered nothing else happens to its row (ProductService.java,     *)
(* AiResumeRequestUseCase.java).                                           *)
THEOREM InvHolds == Spec => []Inv
  BY InitInv, NextInv, PTL DEF Spec

(* The stored overall status is what the products' statuses add up to      *)
(* (Diagnoses.refreshProcessingStatus).                                    *)
THEOREM OverallIsKept == Spec => []OverallStatus
  <1>1. Inv => OverallStatus
    BY DEF Inv
  <1> QED
    BY <1>1, InvHolds, PTL

(* A run id is forgotten and learnt with the statuses (Product.java,       *)
(* assignRun, retry and markResumePending).                                *)
THEOREM RunIdIsKept == Spec => []RunIdFitsStatus
  <1>1. Inv => RunIdFitsStatus
    <2> SUFFICES ASSUME Inv, NEW p \in Product, rows[p] # NoRow
                 PROVE  /\ rows[p].status = "PENDING" => rows[p].run = NoRun
                        /\ rows[p].status \in {"AWAITING_INPUT", "COMPLETED"} => rows[p].run # NoRun
                        /\ rows[p].resumePending /\ p \notin astray =>
                             rows[p].status = "IN_PROGRESS" /\ rows[p].rounds # {}
      BY DEF RunIdFitsStatus, StatusIn, IsRunAssigned
    <2>1. rows[p] \in Stored /\ RowFine(p, rows[p])
      BY KnownRow
    <2>2. rows[p].status \in ProcessingStatus /\ RunFits(rows[p])
      BY <2>1, StoredRow DEF Stored
    <2> QED
      BY <2>1, <2>2 DEF RowFits, RunFits, ProcessingStatus
  <1> QED
    BY <1>1, InvHolds, PTL

(* Nobody is asked a question whose answer the AI server refuses           *)
(* (Product.askQuestions and SessionManager.resume), unless the session    *)
(* was brought back from a row that was out of date.                       *)
THEOREM AsksWhatIsAwaited == Spec => []AsksWhatAIWaitsFor
  <1>1. Inv => AsksWhatAIWaitsFor
    <2> SUFFICES ASSUME Inv, NEW p \in Sound, StatusIn(p, {"AWAITING_INPUT"})
                 PROVE  \/ Waits(p, rows[p].run, LatestQuestionRound(rows[p]))
                        \/ ai[p].status = "none"
      BY DEF AsksWhatAIWaitsFor
    <2>1. rows[p] # NoRow /\ rows[p].status = "AWAITING_INPUT"
      BY DEF StatusIn
    <2>2. Known(rows[p], ai[p])
      BY <2>1, KnownRow DEF RowFits
    <2> QED
      BY <2>2 DEF Known, Waits
  <1> QED
    BY <1>1, InvHolds, PTL

(* Answers that are sent for the first time are not refused with 409       *)
(* (AiResumeRequestUseCase.java), so RESUME_CONFLICT is not blamed, unless *)
(* the session was brought back from a row that was out of date.           *)
THEOREM FirstResumeIsTaken == Spec => []FirstResumeFits
  <1>1. Inv => FirstResumeFits
    BY KnownRow DEF FirstResumeFits, RowFits
  <1> QED
    BY <1>1, InvHolds, PTL

(* A completed product shows the result of the AI's last run for it        *)
(* (Product.complete), with the same exception.                            *)
THEOREM ResultIsTheLast == Spec => []ResultOfLastRun
  <1>1. Inv => ResultOfLastRun
    BY KnownRow DEF ResultOfLastRun, RowFits, StatusIn
  <1> QED
    BY <1>1, InvHolds, PTL

-----------------------------------------------------------------------------
(* An archive that misses no write has no row that is out of date.         *)
UpToDate ==
    /\ astray = {}
    /\ \A p \in Product : archive[p] = Kept(ai[p])

LEMMA KeptTwice ==
    ASSUME NEW s \in Session
    PROVE  /\ Kept(Kept(s)) = Kept(s) /\ Kept(Over(s)) = NoSession
           /\ Kept(NoSession) = NoSession
  BY DEF Session, Kept, Over, NoSession, Unfinished

LEMMA PersistKeepsUp ==
    ASSUME ~ArchiveMayFail, UpToDate, NEW changed, Persist(changed), astray' = astray,
           \A p \in Product : p \notin changed => ai'[p] = ai[p]
    PROVE  UpToDate'
  <1> DEFINE touched == {p \in changed : Kept(ai[p]) # NoSession \/ Kept(ai'[p]) # NoSession}
  <1>1. archive' = [p \in Product |-> IF p \in touched THEN Kept(ai'[p]) ELSE archive[p]]
    BY DEF Persist
  <1>2. ASSUME NEW p \in Product PROVE archive'[p] = Kept(ai'[p])
    <2>1. archive[p] = Kept(ai[p])
      BY DEF UpToDate
    <2>2. CASE p \in touched
      BY <1>1, <2>2
    <2>3. CASE p \in changed /\ p \notin touched
      BY <1>1, <2>1, <2>3
    <2>4. CASE p \notin changed
      BY <1>1, <2>1, <2>4
    <2> QED
      BY <2>2, <2>3, <2>4
  <1> QED
    BY <1>2 DEF UpToDate

LEMMA CrashKeepsUp ==
    ASSUME ~ArchiveMayFail, Inv, UpToDate, CrashAI
    PROVE  UpToDate'
  <1>1. PICK read \in SUBSET {p \in Product : archive[p] # NoSession}, left \in SUBSET Product :
          \E failed \in SUBSET {p \in read : archive[p].status \in Unfinished} :
            Restore(read, failed, left)
    BY DEF CrashAI
  <1>2. PICK failed \in SUBSET {p \in read : archive[p].status \in Unfinished} :
          /\ ai' = [p \in Product |-> IF p \notin read THEN NoSession
                                      ELSE IF p \in failed THEN Over(archive[p]) ELSE archive[p]]
          /\ left = read \ failed
          /\ archive' = [p \in Product |-> IF p \in left THEN archive[p] ELSE NoSession]
          /\ astray' = astray \cup {p \in read : archive[p] # Kept(ai[p])}
    BY <1>1 DEF Restore
  <1>3. \A p \in Product : ai[p] \in Session /\ archive[p] \in Session /\ archive[p] = Kept(ai[p])
    BY DEF Inv, Types, SessionTypes, SessionType, UpToDate
  <1>4. astray' = {}
    <2>1. ASSUME NEW p \in read PROVE archive[p] = Kept(ai[p])
      BY <1>3
    <2>2. {p \in read : archive[p] # Kept(ai[p])} = {}
      BY <2>1
    <2> QED
      BY <1>2, <2>2 DEF UpToDate
  <1>5. ASSUME NEW p \in Product PROVE archive'[p] = Kept(ai'[p])
    <2>1. Kept(archive[p]) = archive[p] /\ Kept(Over(archive[p])) = NoSession
          /\ Kept(NoSession) = NoSession
      <3>1. ai[p] \in Session /\ archive[p] \in Session /\ archive[p] = Kept(ai[p])
        BY <1>3
      <3>2. Kept(Kept(ai[p])) = Kept(ai[p])
        BY <3>1, KeptTwice
      <3>3. Kept(Over(archive[p])) = NoSession /\ Kept(NoSession) = NoSession
        BY <3>1, KeptTwice
      <3> QED
        BY <3>1, <3>2, <3>3
    <2>2. CASE p \in failed
      BY <1>2, <2>1, <2>2
    <2>3. CASE p \notin failed
      BY <1>2, <2>1, <2>3
    <2> QED
      BY <2>2, <2>3
  <1> QED
    BY <1>4, <1>5 DEF UpToDate

LEMMA StaysUpToDate ==
    ASSUME ~ArchiveMayFail, Inv, UpToDate, [Next]_vars
    PROVE  UpToDate'
  <1>1. ASSUME archive' = archive, ai' = ai, astray' = astray PROVE UpToDate'
    BY <1>1 DEF UpToDate
  <1>2. ai = [p \in Product |-> ai[p]] /\ \A p \in Product : ai[p] \in Session
    BY DEF Inv, Types, SessionTypes, SessionType
  <1>3. ASSUME NEW c \in Caller, Submit(c) \/ ResumeSession(c) PROVE UpToDate'
    <2>1. astray' = astray
      BY <1>3 DEF Submit, ResumeSession
    <2>2. CASE archive' = archive /\ ai' = ai
      BY <1>1, <2>1, <2>2
    <2>3. CASE Submit(c) /\ Conflicts(calls[c].products) = {}
      <3>1. Persist(calls[c].products)
        BY <2>3 DEF Submit
      <3>2. \A p \in Product : p \notin calls[c].products => ai'[p] = ai[p]
        BY <2>3 DEF Submit
      <3> QED
        BY <2>1, <3>1, <3>2, PersistKeepsUp
    <2>4. CASE \E p : Persist({p}) /\ \E next : ai' = [ai EXCEPT ![p] = next]
      <3>1. PICK p, next : Persist({p}) /\ ai' = [ai EXCEPT ![p] = next]
        BY <2>4
      <3>2. \A q \in Product : q \notin {p} => ai'[q] = ai[q]
        BY <1>2, <3>1
      <3> QED
        BY <2>1, <3>1, <3>2, PersistKeepsUp
    <2>5. Submit(c) => (archive' = archive /\ ai' = ai) \/ Conflicts(calls[c].products) = {}
      BY DEF Submit
    <2>6. ResumeSession(c) =>
            \/ archive' = archive /\ ai' = ai
            \/ \E p : Persist({p}) /\ \E next : ai' = [ai EXCEPT ![p] = next]
      BY DEF ResumeSession
    <2> QED
      BY <1>3, <2>2, <2>3, <2>4, <2>5, <2>6
  <1>4. ASSUME NEW p \in Product, StartRun(p) \/ AskUser(p) \/ EndRun(p) \/ Expire(p) \/ Forget(p)
        PROVE  UpToDate'
    <2>1. PICK next : ai' = [ai EXCEPT ![p] = next] /\ Persist({p}) /\ astray' = astray
      BY <1>4 DEF StartRun, AskUser, EndRun, Expire, Forget, Changes
    <2>2. \A q \in Product : q \notin {p} => ai'[q] = ai[q]
      BY <1>2, <2>1
    <2> QED
      BY <2>1, <2>2, PersistKeepsUp
  <1>5. ASSUME NEW p \in Product, ReportProgress(p) PROVE UpToDate'
    <2> DEFINE next == [ai[p] EXCEPT !.told = @ + 1]
    <2>1. ai' = [ai EXCEPT ![p] = next] /\ archive' = archive /\ astray' = astray
      BY <1>5 DEF ReportProgress
    <2>2. Kept(next) = Kept(ai[p])
      <3>1. ai[p] \in Session
        BY <1>2
      <3>2. /\ next.status = ai[p].status
            /\ [next EXCEPT !.told = 0] = [ai[p] EXCEPT !.told = 0]
        BY <3>1 DEF Session
      <3> HIDE DEF next
      <3> QED
        BY <3>2 DEF Kept
    <2> HIDE DEF next
    <2>3. \A q \in Product : Kept(ai'[q]) = Kept(ai[q])
      <3> TAKE q \in Product
      <3>1. CASE q = p
        BY <1>2, <2>1, <2>2, <3>1
      <3>2. CASE q # p
        BY <1>2, <2>1, <3>2
      <3> QED
        BY <3>1, <3>2
    <2> QED
      BY <2>1, <2>3 DEF UpToDate
  <1>6. CASE Server
    BY <1>3, <1>4, <1>5, <1>6, CrashKeepsUp DEF Server
  <1>7. CASE Backend \/ UNCHANGED vars
    BY <1>1, <1>7 DEF Backend, vars, aiVars
  <1>8. CASE Delivery
    BY <1>1, <1>8 DEF Delivery, Deliver, GiveUp, TimeOut, HandleLate
  <1> QED
    BY <1>6, <1>7, <1>8 DEF Next

(* As long as no write to the archive is missed, only wrong requests are   *)
(* refused with 409, as AiResumeRequestUseCase.java says of all of them:   *)
(* the writes that are skipped (session_archive.py) are what it takes to   *)
(* end a product with RESUME_CONFLICT.                                     *)
THEOREM OnlyMissedWritesConflict ==
    ASSUME ~ArchiveMayFail
    PROVE  Spec => []OnlyWrongRequestsConflict
  <1>1. Init => UpToDate
    BY DEF Init, UpToDate, Kept, NoSession, Unfinished
  <1>2. Inv /\ UpToDate /\ [Next]_vars => UpToDate'
    BY StaysUpToDate
  <1>3. Inv /\ UpToDate => OnlyWrongRequestsConflict
    BY KnownRow DEF UpToDate, OnlyWrongRequestsConflict, RowFits
  <1> QED
    BY <1>1, <1>2, <1>3, InvHolds, PTL DEF Spec

-----------------------------------------------------------------------------
(* What a step does to a row, for the promises the owner of a product has: *)
(* the status and the rounds go the way Lives allows, progress of a run    *)
(* never goes back.                                                        *)

Working(row) == row.status \in {"PENDING", "IN_PROGRESS"}

Lives(row, next) ==
    \/ /\ LatestQuestionRound(next) = LatestQuestionRound(row)
       /\ \/ Working(row) /\ Working(next)
          \/ next.status = row.status /\ next.error = row.error
          \/ row.status = "AWAITING_INPUT" /\ Working(next)
          \/ Working(row) /\ next.status \in {"COMPLETED", "FAILED"}
    \/ /\ Working(row) /\ next.status = "AWAITING_INPUT"
       /\ LatestQuestionRound(next) > LatestQuestionRound(row)
    \/ CanRetry(row) /\ Working(next) /\ LatestQuestionRound(next) = 0

Progresses(row, next) ==
    \/ next.progress \in {row.progress, NoProgress}
    \/ /\ next.progress.run # NoRun
       /\ next.progress.run = row.progress.run => next.progress.number >= row.progress.number

RowMoves(row, next) == next \in Stored /\ Lives(row, next) /\ Progresses(row, next)

(* The operations whose guards look at the status, and those that keep it. *)
LEMMA StatusMoves ==
    ASSUME NEW row \in Stored
    PROVE  /\ row.status = "PENDING" => RowMoves(row, StartDiagnoses(row))
           /\ row.status = "IN_PROGRESS" /\ row.run = NoRun => RowMoves(row, ReturnToPending(row))
           /\ row.status = "AWAITING_INPUT" => RowMoves(row, AnswerQuestions(row))
           /\ CanComplete(row) /\ row.run # NoRun => RowMoves(row, Complete(row))
  <1>1. \A next : Becomes(row, next, "IN_PROGRESS") /\ row.status = "PENDING" => RowMoves(row, next)
    BY DEF Becomes, RowMoves, Lives, Progresses, Working
  <1>2. \A next : Becomes(row, next, "PENDING") /\ row.status = "IN_PROGRESS" => RowMoves(row, next)
    BY DEF Becomes, RowMoves, Lives, Progresses, Working
  <1>3. \A next : Becomes(row, next, "IN_PROGRESS") /\ row.status = "AWAITING_INPUT"
                    => RowMoves(row, next)
    BY DEF Becomes, RowMoves, Lives, Progresses, Working
  <1>4. \A next : Becomes(row, next, "COMPLETED") /\ row.status = "IN_PROGRESS" => RowMoves(row, next)
    BY DEF Becomes, RowMoves, Lives, Progresses, Working
  <1> QED
    BY <1>1, <1>2, <1>3, <1>4, StartedRow, ReturnedRow, AnsweredRow, CompletedRow DEF CanComplete

LEMMA FailMoves ==
    ASSUME NEW row \in Stored, NEW error \in Errors, CanFail(row)
    PROVE  RowMoves(row, Fail(row, error))
  <1>1. PICK next : next = Fail(row, error)
    OBVIOUS
  <1>2. /\ next \in Stored /\ next.status = "FAILED" /\ next.progress = row.progress
        /\ LatestQuestionRound(next) = LatestQuestionRound(row)
    BY <1>1, FailedRow
  <1> QED
    BY <1>1, <1>2 DEF RowMoves, Lives, Progresses, Working, CanFail

LEMMA AskMoves ==
    ASSUME NEW row \in Stored, NEW n \in Nat, CanAskQuestions(row, n), row.run # NoRun
    PROVE  RowMoves(row, AskQuestions(row, n))
  <1>1. PICK next : next = AskQuestions(row, n)
    OBVIOUS
  <1>2. /\ next \in Stored /\ next.status = "AWAITING_INPUT" /\ next.progress = row.progress
        /\ LatestQuestionRound(next) = n
    BY <1>1, AskedRow DEF CanAskQuestions
  <1> QED
    BY <1>1, <1>2 DEF RowMoves, Lives, Progresses, Working, CanAskQuestions

LEMMA RetryMoves ==
    ASSUME NEW row \in Stored, CanRetry(row)
    PROVE  RowMoves(row, RetryRow(row))
  <1>1. PICK next : next = RetryRow(row)
    OBVIOUS
  <1>2. /\ next \in Stored /\ next.status = "IN_PROGRESS" /\ next.progress = NoProgress
        /\ LatestQuestionRound(next) = 0
    BY <1>1, RetriedRow
  <1> QED
    BY <1>1, <1>2 DEF RowMoves, Lives, Progresses, Working

LEMMA AssignMoves ==
    ASSUME NEW row \in Stored, NEW run \in Run, CanAssignRun(row)
    PROVE  RowMoves(row, AssignRun(row, run))
  <1>1. PICK next : next = AssignRun(row, run)
    OBVIOUS
  <1>2. /\ next \in Stored /\ next.status = row.status /\ next.progress = row.progress
        /\ next.error = row.error /\ LatestQuestionRound(next) = LatestQuestionRound(row)
    BY <1>1, AssignedRow DEF CanAssignRun
  <1> QED
    BY <1>1, <1>2 DEF RowMoves, Lives, Progresses

LEMMA PendingResumeMoves ==
    ASSUME NEW row \in Stored
    PROVE  RowMoves(row, MarkResumePending(row))
  <1>1. PICK next : next = MarkResumePending(row)
    OBVIOUS
  <1>2. /\ next \in Stored /\ next.status = row.status /\ next.progress = row.progress
        /\ next.error = row.error /\ LatestQuestionRound(next) = LatestQuestionRound(row)
    BY <1>1, PendingResumeRow
  <1> QED
    BY <1>1, <1>2 DEF RowMoves, Lives, Progresses

LEMMA ElapsedMoves ==
    ASSUME NEW row \in Stored, NEW clock \in Clocks
    PROVE  RowMoves(row, [row EXCEPT !.overdue = @ \cup {clock}])
  <1>1. PICK next : next = [row EXCEPT !.overdue = @ \cup {clock}]
    OBVIOUS
  <1>2. Alike(row, next) /\ next.progress = row.progress
    BY <1>1, ElapsedRow
  <1> QED
    BY <1>1, <1>2 DEF RowMoves, Lives, Progresses, Alike

(* Only newer progress is recorded (ProductProgress.isNewerOrSame).        *)
LEMMA ProgressMoves ==
    ASSUME NEW row \in Stored, NEW run \in Run, NEW n \in Nat
    PROVE  RowMoves(row, RecordProgress(row, run, n))
  <1>1. PICK next : next = RecordProgress(row, run, n)
    OBVIOUS
  <1>2. Alike(row, next)
    BY <1>1, ProgressRow
  <1>3. row.progress \in [run: Run \cup {NoRun}, number: Nat \cup {0}] /\ row \in Rows
    BY DEF Stored, Rows, Row
  <1>4. CASE IsNewerOrSame(row.progress, run, n)
    <2>1. next = row
      BY <1>1, <1>4 DEF RecordProgress
    <2> QED
      BY <1>1, <1>2, <2>1 DEF RowMoves, Lives, Progresses, Alike
  <1>5. CASE ~IsNewerOrSame(row.progress, run, n)
    <2>1. next.progress = [run |-> run, number |-> n]
      BY <1>1, <1>3, <1>5 DEF RecordProgress, Rows, Row
    <2>2. next.progress.run = run /\ next.progress.number = n /\ run # NoRun
      BY <2>1 DEF Run, NoRun
    <2>3. row.progress.run = run => n >= row.progress.number
      BY <1>3, <1>5 DEF IsNewerOrSame
    <2>4. Progresses(row, next)
      BY <2>2, <2>3 DEF Progresses
    <2> QED
      BY <1>1, <1>2, <2>4 DEF RowMoves, Lives, Alike
  <1> QED
    BY <1>4, <1>5

(* What a transaction does: it keeps the row of diagnoses, and a row stays,*)
(* moves or is removed.                                                    *)
RowSteps(p) == \/ rows'[p] = rows[p]
               \/ rows[p] # NoRow /\ (rows'[p] = NoRow \/ RowMoves(rows[p], rows'[p]))
Stepped == /\ overall # NoRow => overall' # NoRow
           /\ \A p \in Product : RowSteps(p)

LEMMA TransactionSteps ==
    ASSUME NEW rs, Refresh(rs) \/ Save(rs),
           \A p \in Product :
             rs[p] = rows[p] \/ (rows[p] # NoRow /\ (rs[p] = NoRow \/ RowMoves(rows[p], rs[p])))
    PROVE  Stepped
  <1>1. rows' = rs
    BY DEF Refresh, Save
  <1>2. overall # NoRow => overall' # NoRow
    BY RefreshedStatus DEF Save
  <1> QED
    BY <1>1, <1>2 DEF Stepped, RowSteps

LEMMA NothingSteps ==
    ASSUME UNCHANGED dbVars
    PROVE  Stepped
  BY DEF dbVars, Stepped, RowSteps

LEMMA OneRowSteps ==
    ASSUME Inv, NEW p \in Product, NEW next, rows[p] # NoRow,
           next = NoRow \/ RowMoves(rows[p], next),
           Refresh([rows EXCEPT ![p] = next]) \/ Save([rows EXCEPT ![p] = next])
    PROVE  Stepped
  <1> DEFINE rs == [rows EXCEPT ![p] = next]
  <1>1. rows \in [Product -> Stored \cup {NoRow}]
    BY DEF Inv, Types, RowTypes
  <1>2. rs[p] = next /\ \A q \in Product : q # p => rs[q] = rows[q]
    BY <1>1
  <1> HIDE DEF rs
  <1>3. \A q \in Product :
          rs[q] = rows[q] \/ (rows[q] # NoRow /\ (rs[q] = NoRow \/ RowMoves(rows[q], rs[q])))
    BY <1>2
  <1>4. Refresh(rs) \/ Save(rs)
    BY DEF rs
  <1> QED
    BY <1>3, <1>4, TransactionSteps

(* Some rows, each replaced by what an operation makes of it.              *)
LEMMA ManyRowsStep ==
    ASSUME Inv, NEW hit \in SUBSET Product, NEW rs,
           \A p \in Product : p \notin hit => rs[p] = rows[p],
           \A p \in hit : rows[p] # NoRow /\ RowMoves(rows[p], rs[p]),
           Refresh(rs) \/ Save(rs)
    PROVE  Stepped
  BY TransactionSteps

LEMMA FailUnacceptedSteps ==
    ASSUME Inv, NEW products \in SUBSET Product, NEW reason \in Errors,
           FailUnaccepted(products, reason)
    PROVE  Stepped
  <1> DEFINE hit == Unaccepted(products)
             rs  == With(Failed(products, reason))
  <1>1. \A p \in hit : p \in Product /\ rows[p] # NoRow /\ rows[p].status = "IN_PROGRESS"
    BY DEF Unaccepted, StatusIn
  <1>2. rs = [p \in Product |-> IF p \in hit THEN Fail(rows[p], reason) ELSE rows[p]]
    BY DEF With, Failed
  <1>3. Refresh(rs)
    BY DEF FailUnaccepted
  <1>4. \A p \in hit : RowMoves(rows[p], Fail(rows[p], reason))
    BY <1>1, KnownRow, FailMoves DEF CanFail
  <1> HIDE DEF hit, rs
  <1> QED
    BY <1>1, <1>2, <1>3, <1>4, ManyRowsStep

LEMMA ReturnUnacceptedSteps ==
    ASSUME Inv, NEW products \in SUBSET Product, ReturnUnaccepted(products)
    PROVE  Stepped
  <1> DEFINE hit == Unaccepted(products)
             rs  == With([p \in hit |-> ReturnToPending(rows[p])])
  <1>1. \A p \in hit : p \in Product /\ rows[p] # NoRow /\ rows[p].status = "IN_PROGRESS"
                    /\ rows[p].run = NoRun
    BY DEF Unaccepted, StatusIn, IsRunAssigned
  <1>2. rs = [p \in Product |-> IF p \in hit THEN ReturnToPending(rows[p]) ELSE rows[p]]
    BY DEF With
  <1>3. Refresh(rs)
    BY DEF ReturnUnaccepted
  <1>4. \A p \in hit : RowMoves(rows[p], ReturnToPending(rows[p]))
    BY <1>1, KnownRow, StatusMoves
  <1>5. hit \in SUBSET Product
    BY <1>1
  <1> HIDE DEF hit, rs
  <1>6. \A p \in Product : p \notin hit => rs[p] = rows[p]
    BY <1>2
  <1>7. \A p \in hit : rows[p] # NoRow /\ RowMoves(rows[p], rs[p])
    BY <1>1, <1>2, <1>4
  <1> QED
    BY <1>3, <1>5, <1>6, <1>7, ManyRowsStep

LEMMA AssignRunsSteps ==
    ASSUME Inv, NEW products \in SUBSET Product, NEW runs \in [products -> 1 .. issued],
           AssignRuns(runs)
    PROVE  Stepped
  <1> DEFINE hit == products \cap Existing(rows)
             rs  == With([p \in hit |-> AssignRun(rows[p], runs[p])])
  <1>1. \A p \in hit : p \in products /\ p \in Product /\ rows[p] # NoRow
    BY DEF Existing
  <1>2. rs = [p \in Product |-> IF p \in hit THEN AssignRun(rows[p], runs[p]) ELSE rows[p]]
    BY DEF With
  <1>3. DOMAIN runs \cap Existing(rows) = hit
    OBVIOUS
  <1>4. (Save(rs) /\ \A p \in hit : CanAssignRun(rows[p])) \/ UNCHANGED dbVars
    BY <1>3 DEF AssignRuns
  <1>5. \A p \in hit : runs[p] \in Run
    BY <1>1 DEF Inv, Types, SessionTypes, Run
  <1>6. ASSUME \A p \in hit : CanAssignRun(rows[p])
        PROVE  \A p \in hit : RowMoves(rows[p], AssignRun(rows[p], runs[p]))
    BY <1>1, <1>5, <1>6, KnownRow, AssignMoves
  <1> HIDE DEF hit, rs
  <1> QED
    BY <1>1, <1>2, <1>4, <1>6, ManyRowsStep, NothingSteps

LEMMA FailCurrentRunSteps ==
    ASSUME Inv, NEW p \in Product, NEW run, NEW reason \in Errors, FailCurrentRun(p, run, reason)
    PROVE  Stepped
  <1>1. CASE /\ rows[p] # NoRow /\ CanFail(rows[p])
             /\ Refresh([rows EXCEPT ![p] = Fail(@, reason)])
    <2>1. RowMoves(rows[p], Fail(rows[p], reason))
      BY <1>1, KnownRow, FailMoves
    <2> QED
      BY <1>1, <2>1, OneRowSteps
  <1> QED
    BY <1>1, NothingSteps DEF FailCurrentRun

LEMMA KeepForResendSteps ==
    ASSUME Inv, NEW p \in Product, NEW run, KeepForResend(p, run)
    PROVE  Stepped
  <1>1. CASE rows[p] # NoRow /\ Save([rows EXCEPT ![p] = MarkResumePending(@)])
    <2>1. RowMoves(rows[p], MarkResumePending(rows[p]))
      BY <1>1, KnownRow, PendingResumeMoves
    <2> QED
      BY <1>1, <2>1, OneRowSteps
  <1> QED
    BY <1>1, NothingSteps DEF KeepForResend, StatusIn

LEMMA AcceptedSteps ==
    ASSUME Inv, NEW c \in Caller, calls[c] # NoCall, calls[c].answer.outcome = "accepted",
           AssignRuns(calls[c].answer.runs)
    PROVE  Stepped
  <1>1. calls[c].answer.runs \in [calls[c].products -> 1 .. issued]
    <2>1. AnswerTypes(calls[c])
      BY CalledAbout DEF CallType
    <2> QED
      BY <2>1 DEF AnswerTypes, Open
  <1>2. calls[c].products \in SUBSET Product
    BY CalledAbout
  <1> QED
    BY <1>1, <1>2, AssignRunsSteps

LEMMA AnsweredSteps ==
    ASSUME Inv, NEW c \in Caller, calls[c] # NoCall, NEW answer,
           answer.outcome \in {"accepted", "conflict"} => answer = calls[c].answer,
           Answered(c, answer)
    PROVE  Stepped
  <1>1. calls[c].products \in SUBSET Product
    BY CalledAbout
  <1>2. ASSUME NEW reason \in {"AI_REQUEST_CONFLICT", "AI_REQUEST_REJECTED",
                               "RESUME_SESSION_NOT_FOUND", "RESUME_INVALID_REQUEST",
                               "RESUME_RESEND_CONFLICT", "RESUME_CONFLICT"}
        PROVE  reason \in Errors
    BY DEF Errors, RetryableReasons, FinalReasons
  <1>3. CASE DiagnoseAnswer(c, answer)
    <2>1. calls[c].products \cap answer.conflicts \in SUBSET Product
      BY <1>1
    <2>2. \/ answer.outcome = "accepted" /\ AssignRuns(answer.runs)
          \/ FailUnaccepted(calls[c].products \cap answer.conflicts, "AI_REQUEST_CONFLICT")
          \/ ReturnUnaccepted(calls[c].products)
          \/ UNCHANGED dbVars
          \/ FailUnaccepted(calls[c].products, "AI_REQUEST_REJECTED")
      BY <1>3 DEF DiagnoseAnswer
    <2> QED
      BY <1>1, <1>2, <2>1, <2>2, AcceptedSteps, FailUnacceptedSteps, ReturnUnacceptedSteps,
         NothingSteps
  <1>4. CASE ResumeAnswer(c, answer)
    <2>1. PICK p \in calls[c].products :
            \/ answer.outcome = "accepted" /\ AssignRuns(answer.runs)
            \/ FailCurrentRun(p, calls[c].run, ConflictReason(calls[c].resend))
            \/ FailCurrentRun(p, calls[c].run, "RESUME_SESSION_NOT_FOUND")
            \/ FailCurrentRun(p, calls[c].run, "RESUME_INVALID_REQUEST")
            \/ KeepForResend(p, calls[c].run)
            \/ UNCHANGED dbVars
      BY <1>4 DEF ResumeAnswer
    <2>2. ConflictReason(calls[c].resend) \in Errors
      BY <1>2 DEF ConflictReason
    <2>3. "RESUME_SESSION_NOT_FOUND" \in Errors /\ "RESUME_INVALID_REQUEST" \in Errors
      BY <1>2
    <2>4. p \in Product
      BY <1>1
    <2> QED
      BY <2>1, <2>2, <2>3, <2>4, AcceptedSteps, FailCurrentRunSteps, KeepForResendSteps,
         NothingSteps
  <1> QED
    BY <1>3, <1>4 DEF Answered

LEMMA NetworkSteps ==
    ASSUME Inv, NEW c \in Caller, TakeAnswer(c) \/ NoAnswer(c) \/ LoseAnswer(c)
    PROVE  Stepped /\ calls[c] # NoCall
  <1>1. CASE TakeAnswer(c)
    BY <1>1, AnsweredSteps DEF TakeAnswer
  <1>2. CASE NoAnswer(c)
    <2>1. PICK outcome \in {"not_received", "unknown", "rejected"} :
            Answered(c, [outcome |-> outcome])
      BY <1>2 DEF NoAnswer
    <2>2. [outcome |-> outcome].outcome \notin {"accepted", "conflict"}
      OBVIOUS
    <2>3. calls[c] # NoCall
      BY <1>2 DEF NoAnswer
    <2> HIDE DEF Answered
    <2> QED
      BY <2>1, <2>2, <2>3, AnsweredSteps
  <1>3. CASE LoseAnswer(c)
    <2>1. calls[c] # NoCall /\ Answered(c, [outcome |-> "unknown"])
      BY <1>3 DEF LoseAnswer
    <2>2. [outcome |-> "unknown"].outcome \notin {"accepted", "conflict"}
      OBVIOUS
    <2> QED
      BY <2>1, <2>2, AnsweredSteps
  <1> QED
    BY <1>1, <1>2, <1>3

LEMMA UserSteps ==
    ASSUME Inv, NEW p \in Product, Answer(p) \/ RetryDiagnoses(p) \/ RemoveProduct(p)
    PROVE  Stepped /\ rows[p] # NoRow
  <1>1. CASE Answer(p)
    <2>1. /\ rows[p] # NoRow /\ rows[p].status = "AWAITING_INPUT"
          /\ Refresh([rows EXCEPT ![p] = AnswerQuestions(@)])
      BY <1>1 DEF Answer, StatusIn
    <2>2. RowMoves(rows[p], AnswerQuestions(rows[p]))
      BY <2>1, KnownRow, StatusMoves
    <2> QED
      BY <2>1, <2>2, OneRowSteps
  <1>2. CASE RetryDiagnoses(p)
    <2>1. /\ rows[p] # NoRow /\ CanRetry(rows[p])
          /\ Refresh([rows EXCEPT ![p] = RetryRow(@)])
      BY <1>2 DEF RetryDiagnoses
    <2>2. RowMoves(rows[p], RetryRow(rows[p]))
      BY <2>1, KnownRow, RetryMoves
    <2> QED
      BY <2>1, <2>2, OneRowSteps
  <1>3. CASE RemoveProduct(p)
    BY <1>3, OneRowSteps DEF RemoveProduct
  <1> QED
    BY <1>1, <1>2, <1>3

LEMMA RestartPendingProductsSteps ==
    ASSUME Inv, RestartPendingProducts
    PROVE  Stepped /\ \E p \in Product : rows[p] # NoRow
  <1> DEFINE pending == {p \in Product : StatusIn(p, {"PENDING"})}
             rs      == With([p \in pending |-> Restarted(rows[p])])
  <1>1. \A p \in pending : p \in Product /\ rows[p] # NoRow /\ rows[p].status = "PENDING"
    BY DEF StatusIn
  <1>2. Refresh(rs) /\ pending # {}
    BY DEF RestartPendingProducts
  <1>3. \A p \in pending : RowMoves(rows[p], Restarted(rows[p]))
    <2> TAKE p \in pending
    <2>1. RowMoves(rows[p], StartDiagnoses(rows[p]))
      BY <1>1, KnownRow, StatusMoves
    <2>2. "AI_REQUEST_UNAVAILABLE" \in Errors /\ CanFail(rows[p])
      BY <1>1 DEF Errors, RetryableReasons, CanFail
    <2>3. RowMoves(rows[p], Fail(rows[p], "AI_REQUEST_UNAVAILABLE"))
      BY <1>1, <2>2, KnownRow, FailMoves
    <2> QED
      BY <2>1, <2>3 DEF Restarted
  <1>4. rs = [p \in Product |-> IF p \in pending THEN Restarted(rows[p]) ELSE rows[p]]
    BY DEF With
  <1> HIDE DEF pending, rs
  <1>5. pending \in SUBSET Product
    BY <1>1
  <1>6. \A p \in Product : p \notin pending => rs[p] = rows[p]
    BY <1>4
  <1>7. \A p \in pending : rows[p] # NoRow /\ RowMoves(rows[p], rs[p])
    BY <1>1, <1>3, <1>4
  <1> QED
    BY <1>1, <1>2, <1>5, <1>6, <1>7, ManyRowsStep

LEMMA FailOneSteps ==
    ASSUME Inv, NEW p \in Product, NEW reason \in Errors, StatusIn(p, {"IN_PROGRESS"}),
           Refresh([rows EXCEPT ![p] = Fail(@, reason)])
    PROVE  Stepped
  <1>1. rows[p] # NoRow /\ CanFail(rows[p])
    BY DEF StatusIn, CanFail
  <1>2. RowMoves(rows[p], Fail(rows[p], reason))
    BY <1>1, KnownRow, FailMoves
  <1> QED
    BY <1>1, <1>2, OneRowSteps

LEMMA SchedulersStep ==
    ASSUME Inv, NEW p \in Product, RestartPendingResume(p) \/ FailStuck(p)
    PROVE  Stepped /\ (rows[p] # NoRow \/ UNCHANGED dbVars)
  <1>1. "AI_RESUME_UNAVAILABLE" \in Errors /\ "DIAGNOSES_TIMEOUT" \in Errors
    BY DEF Errors, RetryableReasons
  <1>2. CASE RestartPendingResume(p)
    <2>1. StatusIn(p, {"IN_PROGRESS"})
      BY <1>2 DEF RestartPendingResume
    <2>2. \/ Refresh([rows EXCEPT ![p] = Fail(@, "AI_RESUME_UNAVAILABLE")])
          \/ UNCHANGED dbVars
      BY <1>2 DEF RestartPendingResume
    <2> QED
      BY <1>1, <2>1, <2>2, FailOneSteps, NothingSteps DEF StatusIn
  <1>3. CASE FailStuck(p)
    <2>1. \/ StatusIn(p, {"IN_PROGRESS"}) /\ Refresh([rows EXCEPT ![p] = Fail(@, "DIAGNOSES_TIMEOUT")])
          \/ UNCHANGED dbVars
      BY <1>3 DEF FailStuck, IsStuck
    <2> QED
      BY <1>1, <2>1, FailOneSteps, NothingSteps DEF StatusIn
  <1> QED
    BY <1>2, <1>3

LEMMA ElapseSteps ==
    ASSUME Inv, NEW p \in Product, NEW clock \in Clocks, Elapse(p, clock)
    PROVE  Stepped /\ rows[p] # NoRow
  <1>1. rows[p] # NoRow
    BY DEF Elapse, Matters, StatusIn
  <1>2. RowMoves(rows[p], [rows[p] EXCEPT !.overdue = @ \cup {clock}])
    BY <1>1, KnownRow, ElapsedMoves
  <1>3. Save([rows EXCEPT ![p] = [rows[p] EXCEPT !.overdue = @ \cup {clock}]])
    BY DEF Elapse, Save
  <1> QED
    BY <1>1, <1>2, <1>3, OneRowSteps

LEMMA HandleSteps ==
    ASSUME Inv, NEW m \in Callback, NEW reply, Handle(m, reply)
    PROVE  Stepped /\ (rows[m.product] # NoRow \/ UNCHANGED dbVars)
  <1> DEFINE p == m.product  next == RowAfter(m)
  <1>1. /\ p \in Product /\ m.run \in Run /\ m.number \in Nat
        /\ m.kind \in {"progress", "questions", "result", "failed", "fatal"}
    BY DEF Callback
  <1>2. CASE UNCHANGED dbVars
    BY <1>2, NothingSteps
  <1>3. CASE /\ rows[p] # NoRow /\ IsCurrentRun(rows[p], m.run) /\ Acceptable(m)
             /\ Save([rows EXCEPT ![p] = next]) \/ Refresh([rows EXCEPT ![p] = next])
    <2>1. rows[p] \in Stored /\ rows[p].run # NoRun
      BY <1>1, <1>3, KnownRow DEF IsCurrentRun
    <2>2. RowMoves(rows[p], next)
      <3>1. CASE m.kind = "progress"
        <4>1. next = RecordProgress(rows[p], m.run, m.number)
          BY <3>1 DEF RowAfter
        <4>2. RowMoves(rows[p], RecordProgress(rows[p], m.run, m.number))
          BY <1>1, <2>1, ProgressMoves
        <4> QED
          BY <4>1, <4>2
      <3>2. CASE m.kind = "questions"
        <4>1. next = AskQuestions(rows[p], m.number) /\ CanAskQuestions(rows[p], m.number)
          BY <1>3, <3>2 DEF RowAfter, Acceptable
        <4>2. RowMoves(rows[p], AskQuestions(rows[p], m.number))
          BY <1>1, <2>1, <4>1, AskMoves
        <4> QED
          BY <4>1, <4>2
      <3>3. CASE m.kind = "result"
        <4>1. next = Complete(rows[p]) /\ CanComplete(rows[p])
          BY <1>3, <3>3 DEF RowAfter, Acceptable
        <4>2. RowMoves(rows[p], Complete(rows[p]))
          BY <2>1, <4>1, StatusMoves
        <4> QED
          BY <4>1, <4>2
      <3>4. CASE m.kind \in {"failed", "fatal"}
        <4>1. PICK reason \in CallbackErrors : next = Fail(rows[p], reason)
          BY <3>4 DEF RowAfter, CallbackErrors
        <4>2. reason \in Errors /\ CanFail(rows[p])
          BY <1>3, <3>4 DEF Errors, Acceptable
        <4>3. RowMoves(rows[p], Fail(rows[p], reason))
          BY <2>1, <4>2, FailMoves
        <4> QED
          BY <4>1, <4>3
      <3> QED
        BY <1>1, <3>1, <3>2, <3>3, <3>4
    <2> HIDE DEF next
    <2> QED
      BY <1>1, <1>3, <2>2, OneRowSteps
  <1> QED
    BY <1>2, <1>3 DEF Handle

(* Every step but the creation of the row of diagnoses changes rows only   *)
(* the way they may, and before that nothing is stored.                    *)
LEMMA NextSteps ==
    ASSUME Inv, [Next]_vars
    PROVE  \/ CreateDiagnoses
           \/ Stepped /\ (overall = NoRow => UNCHANGED dbVars)
  <1>1. \A p \in Product : rows[p] # NoRow => overall # NoRow
    BY ThereIsOverall
  <1>2. \A c \in Caller : calls[c] # NoCall => overall # NoRow
    BY DEF Inv, Created
  <1>3. ASSUME UNCHANGED dbVars PROVE Stepped /\ (overall = NoRow => UNCHANGED dbVars)
    BY <1>3, NothingSteps
  <1>4. CASE User
    <2>1. CASE \E p \in Product : Answer(p) \/ RetryDiagnoses(p) \/ RemoveProduct(p)
      <3>1. PICK p \in Product : Answer(p) \/ RetryDiagnoses(p) \/ RemoveProduct(p)
        BY <2>1
      <3>2. Stepped /\ rows[p] # NoRow
        BY <3>1, UserSteps
      <3> QED
        BY <1>1, <3>2
    <2> QED
      BY <1>4, <2>1 DEF User
  <1>5. CASE Schedulers
    <2>1. CASE FindStuck
      <3>1. UNCHANGED dbVars
        BY <2>1 DEF FindStuck
      <3> QED
        BY <1>3, <3>1
    <2>2. CASE RestartPendingProducts
      <3>1. Stepped /\ \E p \in Product : rows[p] # NoRow
        BY <2>2, RestartPendingProductsSteps
      <3> QED
        BY <1>1, <3>1
    <2>3. CASE \E p \in Product : RestartPendingResume(p) \/ FailStuck(p)
      <3>1. PICK p \in Product : RestartPendingResume(p) \/ FailStuck(p)
        BY <2>3
      <3>2. Stepped /\ (rows[p] # NoRow \/ UNCHANGED dbVars)
        BY <3>1, SchedulersStep
      <3> QED
        BY <1>1, <3>2
    <2> QED
      BY <1>5, <2>1, <2>2, <2>3 DEF Schedulers
  <1>6. CASE Clock
    <2>1. PICK p \in Product, clock \in Clocks : Elapse(p, clock)
      BY <1>6 DEF Clock
    <2>2. Stepped /\ rows[p] # NoRow
      BY <2>1, ElapseSteps
    <2> QED
      BY <1>1, <2>2
  <1>7. CASE Network
    <2>1. PICK c \in Caller : TakeAnswer(c) \/ NoAnswer(c) \/ LoseAnswer(c)
      BY <1>7 DEF Network
    <2>2. Stepped /\ calls[c] # NoCall
      BY <2>1, NetworkSteps
    <2> QED
      BY <1>2, <2>2
  <1>8. CASE Server
    BY <1>3, <1>8 DEF Server, Submit, ResumeSession, StartRun, ReportProgress, AskUser, EndRun,
       Expire, Forget, CrashAI, backendVars, dbVars
  <1>9. CASE Delivery
    <2>1. CASE \E p \in Product : Deliver(p)
      <3>1. PICK p \in Product : Deliver(p)
        BY <2>1
      <3>2. lanes[p] # <<>> /\ \E reply \in {"ok", "refused"} : Handle(Head(lanes[p]), reply)
        BY <3>1 DEF Deliver
      <3>3. Head(lanes[p]) \in Callback /\ Head(lanes[p]).product = p
        BY <3>2, LaneHead
      <3> QED
        BY <1>1, <3>2, <3>3, HandleSteps
    <2>2. CASE \E p \in Product : GiveUp(p) \/ TimeOut(p)
      BY <1>3, <2>2 DEF GiveUp, TimeOut, backendVars, dbVars
    <2>3. CASE \E m \in late : HandleLate(m)
      <3>1. PICK m \in late : HandleLate(m)
        BY <2>3
      <3>2. m \in Callback
        BY DEF Inv, Types, LaneTypes
      <3>3. PICK reply \in {"ok", "refused", "again"} : Handle(m, reply)
        BY <3>1 DEF HandleLate
      <3>4. m.product \in Product
        BY <3>2 DEF Callback
      <3> QED
        BY <1>1, <3>2, <3>3, <3>4, HandleSteps
    <2> QED
      BY <1>9, <2>1, <2>2, <2>3 DEF Delivery
  <1>10. CASE UNCHANGED vars
    BY <1>3, <1>10 DEF vars, backendVars, dbVars
  <1> QED
    BY <1>4, <1>5, <1>6, <1>7, <1>8, <1>9, <1>10 DEF Next, Backend, BackendStep

-----------------------------------------------------------------------------
(* Progress of a run never goes back.  A row that knows no run of any      *)
(* progress, as after a retry, has no progress.                            *)
ProgressFits == \A p \in Product : rows[p] # NoRow /\ rows[p].progress.run = NoRun
                                     => rows[p].progress.number = 0

LEMMA CreatedRows ==
    ASSUME CreateDiagnoses
    PROVE  /\ overall = NoRow /\ overall' # NoRow
           /\ \A p \in Product : rows'[p] = StartDiagnoses(Pending)
  <1>1. Refresh([p \in Product |-> StartDiagnoses(Pending)]) /\ overall = NoRow
    BY DEF CreateDiagnoses
  <1> QED
    BY <1>1, RefreshedStatus DEF Refresh

(* The progress of a row, in numbers.                                      *)
LEMMA ProgressOf ==
    ASSUME NEW row \in Stored
    PROVE  row.progress.number \in Nat
  BY DEF Stored, Rows, Row

LEMMA ProgressFitsNext ==
    ASSUME Inv, ProgressFits, [Next]_vars
    PROVE  ProgressFits'
  <1>1. CASE CreateDiagnoses
    <2>1. StartDiagnoses(Pending).progress = NoProgress
      BY DEF StartDiagnoses, Pending, Touched
    <2> QED
      BY <1>1, <2>1, CreatedRows DEF ProgressFits, NoProgress
  <1>2. CASE Stepped
    <2> SUFFICES ASSUME NEW p \in Product, rows'[p] # NoRow, rows'[p].progress.run = NoRun
                 PROVE  rows'[p].progress.number = 0
      BY DEF ProgressFits
    <2>1. CASE rows'[p] = rows[p]
      BY <2>1 DEF ProgressFits
    <2>2. CASE rows[p] # NoRow /\ RowMoves(rows[p], rows'[p])
      BY <2>2 DEF RowMoves, Progresses, ProgressFits, NoProgress
    <2> QED
      BY <1>2, <2>1, <2>2 DEF Stepped, RowSteps
  <1> QED
    BY <1>1, <1>2, NextSteps

ForwardNow ==
    \A p \in Product :
      (rows[p] # NoRow /\ rows'[p] # NoRow /\ rows[p].progress.run = rows'[p].progress.run)
         => rows'[p].progress.number >= rows[p].progress.number

(* Progress of a run is never replaced by earlier progress of it, in       *)
(* whatever order repeated callbacks are handled                           *)
(* (ProductProgress.isNewerOrSame).                                        *)
THEOREM ProgressGoesForward == Spec => ProgressForward
  <1>1. Init => ProgressFits
    BY DEF Init, BackendInit, ProgressFits
  <1>2. Inv /\ ProgressFits /\ [Next]_vars => ProgressFits'
    BY ProgressFitsNext
  <1>3. Inv /\ ProgressFits /\ [Next]_vars => [ForwardNow]_vars
    <2> SUFFICES ASSUME Inv, ProgressFits, [Next]_vars, NEW p \in Product,
                        rows[p] # NoRow, rows'[p] # NoRow,
                        rows[p].progress.run = rows'[p].progress.run
                 PROVE  rows'[p].progress.number >= rows[p].progress.number
      BY DEF ForwardNow
    <2>1. rows[p] \in Stored /\ rows[p].progress.number \in Nat
      BY KnownRow, ProgressOf
    <2>2. Stepped
      BY NextSteps, CreatedRows, ThereIsOverall
    <2>3. CASE rows'[p] = rows[p]
      BY <2>1, <2>3
    <2>4. CASE RowMoves(rows[p], rows'[p])
      <3>1. CASE rows'[p].progress = rows[p].progress
        BY <2>1, <3>1
      <3>2. CASE rows'[p].progress = NoProgress
        BY <2>1, <3>2 DEF NoProgress, ProgressFits
      <3> QED
        BY <2>4, <3>1, <3>2 DEF RowMoves, Progresses
    <2> QED
      BY <2>2, <2>3, <2>4 DEF Stepped, RowSteps
  <1> QED
    BY <1>1, <1>2, <1>3, InvHolds, PTL DEF Spec, ProgressForward, ForwardNow

-----------------------------------------------------------------------------
(* The protocol implements ProductLifecycle.                               *)

(* What the owner sees of a row.                                           *)
LEMMA LifeOfRow ==
    ASSUME NEW row \in Stored
    PROVE  row.status \in {"PENDING", "IN_PROGRESS", "AWAITING_INPUT", "COMPLETED", "FAILED"}
  BY DEF Stored, Rows, Row, ProcessingStatus

LEMMA LivesAsPromised ==
    ASSUME Inv, [Next]_vars, NEW p \in Product
    PROVE  LET l == LifeOf(p)  k == LifeOf(p)'  n == RoundOf(p)  m == RoundOf(p)' IN
           \/ l = "none" /\ k = "working" /\ m = n
           \/ l = "working" /\ k = "asking" /\ m > n
           \/ l = "asking" /\ k = "working" /\ m = n
           \/ l = "working" /\ k \in {"done", "failed", "dead"} /\ m = n
           \/ l = "failed" /\ k = "working" /\ m = 0
           \/ l # "none" /\ k = "removed" /\ m = 0
           \/ k = l /\ m = n
  <1>1. CASE CreateDiagnoses
    <2>1. PICK new : new = StartDiagnoses(Pending)
      OBVIOUS
    <2>2. new \in Stored /\ new.status = "IN_PROGRESS" /\ LatestQuestionRound(new) = 0
      BY <2>1, NewRow DEF StartDiagnoses, Pending, Touched, LatestQuestionRound
    <2>3. rows[p] = NoRow /\ overall = NoRow /\ rows'[p] = new
      BY <1>1, <2>1, CreatedRows, ThereIsOverall
    <2>4. rows'[p] # NoRow
      BY <2>2, <2>3, StoredRow
    <2>5. LifeOf(p) = "none" /\ RoundOf(p) = 0
      BY <2>3 DEF LifeOf, RoundOf
    <2>6. LifeOf(p)' = "working" /\ RoundOf(p)' = 0
      BY <2>2, <2>3, <2>4 DEF LifeOf, RoundOf
    <2> QED
      BY <2>5, <2>6
  <1>2. CASE rows'[p] = rows[p] /\ overall' = overall
    BY <1>2 DEF LifeOf, RoundOf
  <1>3. CASE overall # NoRow /\ overall' # NoRow /\ RowSteps(p)
    <2>1. CASE rows'[p] = rows[p]
      <3>1. RoundOf(p)' = RoundOf(p)
        BY <2>1 DEF RoundOf
      <3>2. CASE rows[p] = NoRow
        <4>1. LifeOf(p) = "removed" /\ LifeOf(p)' = "removed"
          BY <1>3, <2>1, <3>2 DEF LifeOf
        <4> QED
          BY <3>1, <4>1
      <3>3. CASE rows[p] # NoRow
        <4>1. PICK row : row = rows[p]
          OBVIOUS
        <4>2. row # NoRow /\ rows[p] = row /\ rows'[p] = row
          BY <2>1, <3>3, <4>1
        <4>3. LifeOf(p)' = LifeOf(p)
          <5>1. row.status \in {"PENDING", "IN_PROGRESS", "AWAITING_INPUT", "COMPLETED", "FAILED"}
            BY <3>3, <4>1, KnownRow, LifeOfRow
          <5> QED
            BY <4>2, <5>1 DEF LifeOf
        <4> QED
          BY <3>1, <4>3
      <3> QED
        BY <3>2, <3>3
    <2>2. CASE rows[p] # NoRow /\ rows'[p] = NoRow
      <3>1. LifeOf(p) # "none"
        BY <2>2, KnownRow, LifeOfRow DEF LifeOf
      <3>2. LifeOf(p)' = "removed" /\ RoundOf(p)' = 0
        BY <1>3, <2>2 DEF LifeOf, RoundOf
      <3> QED
        BY <3>1, <3>2
    <2>3. CASE rows[p] # NoRow /\ rows'[p] # NoRow /\ RowMoves(rows[p], rows'[p])
      <3>1. PICK row : row = rows[p]
        OBVIOUS
      <3>2. PICK next : next = rows'[p]
        OBVIOUS
      <3>3. row \in Stored /\ next \in Stored /\ Lives(row, next)
        BY <2>3, <3>1, <3>2, KnownRow DEF RowMoves
      <3>4. /\ row.status \in {"PENDING", "IN_PROGRESS", "AWAITING_INPUT", "COMPLETED", "FAILED"}
            /\ next.status \in {"PENDING", "IN_PROGRESS", "AWAITING_INPUT", "COMPLETED", "FAILED"}
        BY <3>3, LifeOfRow
      <3>5. /\ LifeOf(p) = CASE Working(row) -> "working"
                             [] row.status = "AWAITING_INPUT" -> "asking"
                             [] row.status = "COMPLETED" -> "done"
                             [] row.status = "FAILED" ->
                                  IF Retryable(row.error) THEN "failed" ELSE "dead"
            /\ RoundOf(p) = LatestQuestionRound(row)
        BY <2>3, <3>1 DEF LifeOf, RoundOf, Working
      <3>6. /\ LifeOf(p)' = CASE Working(next) -> "working"
                              [] next.status = "AWAITING_INPUT" -> "asking"
                              [] next.status = "COMPLETED" -> "done"
                              [] next.status = "FAILED" ->
                                   IF Retryable(next.error) THEN "failed" ELSE "dead"
            /\ RoundOf(p)' = LatestQuestionRound(next)
        BY <2>3, <3>2 DEF LifeOf, RoundOf, Working
      <3> QED
        BY <3>3, <3>4, <3>5, <3>6 DEF Lives, Working, CanRetry
    <2> QED
      BY <1>3, <2>1, <2>2, <2>3 DEF RowSteps
  <1> QED
    BY <1>1, <1>2, <1>3, NextSteps DEF Stepped, dbVars

(* What the owner of a product sees of it keeps the promises of            *)
(* ProductLifecycle: it is worked on, asks in rounds that go up, ends, and *)
(* starts over only after a failure that may be diagnosed again            *)
(* (Product.java).                                                         *)
THEOREM KeepsLifecycle == Spec => LifecycleSpec
  <1>1. Init => Lifecycle!Init
    BY DEF Init, BackendInit, Lifecycle!Init, LifeOf, RoundOf
  <1>2. Inv /\ [Next]_vars => [Lifecycle!Next]_(Lifecycle!vars)
    <2> SUFFICES ASSUME Inv, [Next]_vars
                 PROVE  Lifecycle!Next
      OBVIOUS
    <2>1. \A p \in Product :
            \/ LifeOf(p) = "none" /\ LifeOf(p)' = "working" /\ RoundOf(p)' = RoundOf(p)
            \/ LifeOf(p) = "working" /\ LifeOf(p)' = "asking" /\ RoundOf(p)' > RoundOf(p)
            \/ LifeOf(p) = "asking" /\ LifeOf(p)' = "working" /\ RoundOf(p)' = RoundOf(p)
            \/ /\ LifeOf(p) = "working" /\ LifeOf(p)' \in {"done", "failed", "dead"}
               /\ RoundOf(p)' = RoundOf(p)
            \/ LifeOf(p) = "failed" /\ LifeOf(p)' = "working" /\ RoundOf(p)' = 0
            \/ LifeOf(p) # "none" /\ LifeOf(p)' = "removed" /\ RoundOf(p)' = 0
            \/ LifeOf(p)' = LifeOf(p) /\ RoundOf(p)' = RoundOf(p)
      BY LivesAsPromised
    <2> QED
      BY <2>1 DEF Lifecycle!Next, Lifecycle!Start, Lifecycle!Ask, Lifecycle!Go, Lifecycle!End,
                  Lifecycle!Again, Lifecycle!Leave, Lifecycle!Stay
  <1> QED
    BY <1>1, <1>2, InvHolds, PTL DEF Spec, LifecycleSpec, Lifecycle!Spec
=============================================================================

--------------------------- MODULE ProductEntity ---------------------------
(***************************************************************************)
(* The row of diagnoses and the rows of its products, as the               *)
(* entities Product.java, ProductProgress.java and Diagnoses.java change   *)
(* them.  A row is a record; an operation of the entity is an operator     *)
(* from the row to the row it leaves, and its guard an operator of its     *)
(* own.  Texts, images, answers and the contents of a result are left out: *)
(* no decision of the entities looks at them.                              *)
(***************************************************************************)
EXTENDS Naturals, FiniteSets, FiniteSetsExt

CONSTANT NoRow   \* no such product: not created yet, or removed

NoRun   == 0
NoError == "none"

ProcessingStatus == {"PENDING", "IN_PROGRESS", "AWAITING_INPUT", "COMPLETED", "FAILED"}

(* ProductFailureReason: what may be diagnosed again, and what may not.    *)
RetryableReasons == {"DIAGNOSES_TIMEOUT", "AI_REQUEST_UNAVAILABLE", "AI_REQUEST_CONFLICT",
                     "AI_RESUME_UNAVAILABLE", "RESUME_SESSION_NOT_FOUND",
                     "RESUME_RESEND_CONFLICT"}
FinalReasons == {"AI_REQUEST_REJECTED", "RESUME_INVALID_REQUEST", "RESUME_CONFLICT"}

(* The AI's failed callback carries its own code and retryable.            *)
CallbackErrors == {"AI_RETRYABLE", "AI_FINAL"}
Errors         == RetryableReasons \cup FinalReasons \cup CallbackErrors
Retryable(e)   == e \in RetryableReasons \cup {"AI_RETRYABLE"}

(* Which of the row's times lie before their deadline: requestedAt         *)
(* (requestRetryDeadline), resumePendingSince (requestRetryDeadline) and   *)
(* updatedAt (stuckThreshold).                                             *)
Clocks == {"requestedAt", "resumePendingSince", "updatedAt"}

Row(Runs, Rounds, Numbers) ==
    [status: ProcessingStatus, run: Runs \cup {NoRun}, error: Errors \cup {NoError},
     rounds: SUBSET Rounds,              \* question rounds stored
     resumePending: BOOLEAN,             \* resumePendingSince # null
     progress: [run: Runs \cup {NoRun}, number: Numbers \cup {0}],
     overdue: SUBSET Clocks]

ASSUME NoRowAssumption == NoRow \notin Row(Nat, Nat, Nat) \cup ProcessingStatus \cup {"DELETED"}

NoProgress == [run |-> NoRun, number |-> 0]

(* JPA auditing sets updatedAt when a column of the row changed.           *)
Touched(row) == [row EXCEPT !.overdue = @ \ {"updatedAt"}]

Pending == [status |-> "PENDING", run |-> NoRun, error |-> NoError, rounds |-> {},
            resumePending |-> FALSE, progress |-> NoProgress, overdue |-> {}]

StartDiagnoses(row)  == Touched([row EXCEPT !.status = "IN_PROGRESS"])
ReturnToPending(row) == Touched([row EXCEPT !.status = "PENDING"])

CanAssignRun(row) == row.status = "IN_PROGRESS"
AssignRun(row, run) ==
    Touched([row EXCEPT !.run = run, !.resumePending = FALSE,
                        !.overdue = @ \ {"resumePendingSince"}])

\* Mutant: some run is known, not the one that is asked about.
IsSomeRun(row, run) == row.run # NoRun
IsCurrentRun(row, run) == row.run # NoRun /\ row.run = run
IsRunAssigned(row)     == row.run # NoRun

\* Mutant: only the very same event is recognised.
IsSame(progress, run, number) == progress.run = run /\ progress.number = number
(* One progress row stands for the row of each stage and tool.  It is a    *)
(* child row: updatedAt of the product stays.                              *)
IsNewerOrSame(progress, run, number) == progress.run = run /\ progress.number >= number
RecordProgress(row, run, number) ==
    IF IsNewerOrSame(row.progress, run, number) THEN row
    ELSE [row EXCEPT !.progress = [run |-> run, number |-> number]]

LatestQuestionRound(row) == IF row.rounds = {} THEN 0 ELSE Max(row.rounds)
\* Mutant: the round of the questions is not compared.
CanAskAgain(row, round) == row.status = "IN_PROGRESS"
CanAskQuestions(row, round) == round > LatestQuestionRound(row) /\ row.status = "IN_PROGRESS"
AskQuestions(row, round) ==
    Touched([row EXCEPT !.status = "AWAITING_INPUT", !.rounds = @ \cup {round}])

AnswerQuestions(row) == Touched([row EXCEPT !.status = "IN_PROGRESS"])

CanFail(row) == row.status \in {"IN_PROGRESS", "PENDING"}
\* Mutant: a pending resume outlives the failure.
FailStillPending(row, error) == Touched([row EXCEPT !.status = "FAILED", !.error = error])
Fail(row, error) ==
    Touched([row EXCEPT !.status = "FAILED", !.error = error, !.resumePending = FALSE,
                        !.overdue = @ \ {"resumePendingSince"}])

\* Mutant: whatever failed may be diagnosed again.
CanRetryAll(row) == row.status = "FAILED"
CanRetry(row) == row.status = "FAILED" /\ Retryable(row.error)
RetryRow(row) ==
    Touched([row EXCEPT !.status = "IN_PROGRESS", !.run = NoRun, !.error = NoError,
                        !.rounds = {}, !.progress = NoProgress,
                        !.overdue = @ \ {"requestedAt"}])

\* Mutant: each resend that is not received moves the deadline.
MarkResumePendingAnew(row) ==
    Touched([row EXCEPT !.resumePending = TRUE, !.overdue = @ \ {"resumePendingSince"}])
(* The first time stays: resending does not move the deadline.             *)
MarkResumePending(row) ==
    IF row.resumePending THEN row ELSE Touched([row EXCEPT !.resumePending = TRUE])

CanComplete(row) == row.status = "IN_PROGRESS"
Complete(row)    == Touched([row EXCEPT !.status = "COMPLETED"])

-----------------------------------------------------------------------------
(* Diagnoses.calculateProcessingStatus over the products there are.        *)
ProcessingStatusOf(statuses) ==
    CASE "AWAITING_INPUT" \in statuses               -> "AWAITING_INPUT"
      [] statuses \cap {"PENDING", "IN_PROGRESS"} # {} /\ "AWAITING_INPUT" \notin statuses
                                                     -> "IN_PROGRESS"
      [] statuses = {"FAILED"}                       -> "FAILED"
      [] OTHER                                       -> "COMPLETED"
=============================================================================

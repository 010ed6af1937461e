-------------------------- MODULE DiagnosesBackend --------------------------
(***************************************************************************)
(* The backend's side of one row of diagnoses: the transactions of         *)
(* DiagnosesService and ProductService, the calls to the AI server with    *)
(* what is done with each answer (AiDiagnosesRequestUseCase,               *)
(* AiResumeRequestUseCase), and the three schedulers.  Every transaction   *)
(* takes the lock of that row first (findByIdForUpdate), so each one is a  *)
(* step; a call to the AI holds no lock, so everything may happen between  *)
(* its start and the transaction its answer causes.                        *)
(*                                                                         *)
(* What a thread is doing about the AI is a call: a task of the async      *)
(* executor (AFTER_COMMIT listeners) or the task of a retry scheduler.     *)
(***************************************************************************)
EXTENDS ProductEntity

CONSTANTS
  Product,       \* the products of the row of diagnoses
  AsyncCaller,   \* threads of the async executor: bounds how many tasks wait
  NoCall,
  MaxRuns,       \* run ids the AI may draw
  MaxRounds,     \* question rounds of a product: Product -> Nat
  MaxProgress,   \* progress callbacks of one run of a product: Product -> Nat
  MaxRetries     \* times a user diagnoses a product again: Product -> Nat

ASSUME BackendAssumption ==
    /\ MaxRuns \in Nat
    /\ {MaxRounds, MaxProgress, MaxRetries} \subseteq [Product -> Nat]
    /\ AsyncCaller \cap {"pending", "resume"} = {} /\ IsFiniteSet(Product)

VARIABLES
  rows,      \* products: product -> row
  overall,   \* Diagnoses.processingStatus; NoRow before there is one, "DELETED" after
  retries,   \* times each product was diagnosed again; a bound's counter
  calls,     \* caller -> the request it sent, with the answer when there is one
  stuck      \* ids the stuck-diagnoses scheduler found and has not dealt with yet

dbVars      == <<rows, overall>>
backendVars == <<rows, overall, retries, calls, stuck>>

Run    == 1 .. MaxRuns
Caller == AsyncCaller \cup {"pending", "resume"}
Existing(rs)  == {p \in Product : rs[p] # NoRow}
StatusIn(p, statuses) == rows[p] # NoRow /\ rows[p].status \in statuses

Open        == [outcome |-> "open"]
Diagnose(products) == [kind |-> "diagnose", products |-> products, answer |-> Open]
Resume(p, resend) ==
    [kind |-> "resume", products |-> {p}, run |-> rows[p].run,
     round |-> LatestQuestionRound(rows[p]), resend |-> resend, answer |-> Open]
Calling(p)  == \E c \in Caller : calls[c] # NoCall /\ p \in calls[c].products

(* The rows, some of them new.                                             *)
With(new) == [p \in Product |-> IF p \in DOMAIN new THEN new[p] ELSE rows[p]]

(* A transaction that leaves the overall status alone, and one that        *)
(* ends in refreshProcessingStatus().                                      *)
Save(rs)    == rows' = rs /\ UNCHANGED overall
Overall(rs) == IF Existing(rs) = {} THEN "DELETED"
               ELSE ProcessingStatusOf({rs[p].status : p \in Existing(rs)})
Refresh(rs) == rows' = rs /\ overall' = Overall(rs)

-----------------------------------------------------------------------------
(* The user.                                                               *)

Begin(caller, call) == calls' = [calls EXCEPT ![caller] = call]
AsyncTask(call) == \E c \in AsyncCaller : calls[c] = NoCall /\ Begin(c, call)

CreateDiagnoses ==
    /\ overall = NoRow
    /\ Refresh([p \in Product |-> StartDiagnoses(Pending)])
    /\ AsyncTask(Diagnose(Product))
    /\ UNCHANGED <<retries, stuck>>

Answer(p) ==
    /\ StatusIn(p, {"AWAITING_INPUT"})
    /\ Refresh([rows EXCEPT ![p] = AnswerQuestions(@)])
    /\ AsyncTask(Resume(p, FALSE))
    /\ UNCHANGED <<retries, stuck>>

RetryDiagnoses(p) ==
    /\ rows[p] # NoRow /\ CanRetry(rows[p])
    /\ retries[p] < MaxRetries[p]
    /\ Refresh([rows EXCEPT ![p] = RetryRow(@)])
    /\ retries' = [retries EXCEPT ![p] = @ + 1]
    /\ AsyncTask(Diagnose({p}))
    /\ UNCHANGED stuck

RemoveProduct(p) ==
    /\ rows[p] # NoRow
    /\ Refresh([rows EXCEPT ![p] = NoRow])
    /\ UNCHANGED <<retries, calls, stuck>>

-----------------------------------------------------------------------------
(* What the AI's answers lead to.                                          *)

(* One transaction for all the products of a request: if one of them may   *)
(* not take a run any more, CONFLICT rolls back the others too.            *)
AssignRuns(runs) ==
    LET named == DOMAIN runs \cap Existing(rows) IN
    IF \A p \in named : CanAssignRun(rows[p])
    THEN Save(With([p \in named |-> AssignRun(rows[p], runs[p])]))
    ELSE UNCHANGED dbVars

(* A run id shows that the AI did accept the product.                      *)
Unaccepted(products) ==
    {p \in products : StatusIn(p, {"IN_PROGRESS"}) /\ ~IsRunAssigned(rows[p])}
Failed(products, reason) == [p \in Unaccepted(products) |-> Fail(rows[p], reason)]

ReturnUnaccepted(products) ==
    Refresh(With([p \in Unaccepted(products) |-> ReturnToPending(rows[p])]))
\* Mutant: the products fail, the overall status is not refreshed.
FailUnacceptedOnly(products, reason) == Save(With(Failed(products, reason)))
FailUnaccepted(products, reason) == Refresh(With(Failed(products, reason)))

(* What is left to send after a 409 that names the conflicting products.   *)
Rest(products, conflicts) ==
    IF products \cap conflicts = {} \/ Existing(rows) = {} THEN {} ELSE products \ conflicts

DiagnoseAnswer(c, answer) ==
    LET products == calls[c].products IN
    \/ /\ answer.outcome = "accepted"
       /\ AssignRuns(answer.runs) /\ Begin(c, NoCall)
    \/ /\ answer.outcome = "conflict"
       /\ FailUnaccepted(products \cap answer.conflicts, "AI_REQUEST_CONFLICT")
       /\ Begin(c, IF Rest(products, answer.conflicts) = {} THEN NoCall
                   ELSE Diagnose(Rest(products, answer.conflicts)))
    \/ /\ answer.outcome = "not_received"
       /\ ReturnUnaccepted(products) /\ Begin(c, NoCall)
    \/ /\ answer.outcome = "unknown"
       /\ UNCHANGED dbVars /\ Begin(c, NoCall)
    \/ /\ answer.outcome = "rejected"
       /\ FailUnaccepted(products, "AI_REQUEST_REJECTED") /\ Begin(c, NoCall)

(* ProductService.failDiagnoses: only the current run may fail the product,*)
(* and the first reason stays.                                             *)
FailCurrentRun(p, run, reason) ==
    IF rows[p] # NoRow /\ IsCurrentRun(rows[p], run) /\ CanFail(rows[p])
    THEN Refresh([rows EXCEPT ![p] = Fail(@, reason)])
    ELSE UNCHANGED dbVars

KeepForResend(p, run) ==
    IF StatusIn(p, {"IN_PROGRESS"}) /\ IsCurrentRun(rows[p], run)
    THEN Save([rows EXCEPT ![p] = MarkResumePending(@)])
    ELSE UNCHANGED dbVars

(* A resend's conflict may be with the first request: start over.  A first *)
(* request's conflict is blamed on the request.                            *)
ConflictReason(resend) == IF resend THEN "RESUME_RESEND_CONFLICT" ELSE "RESUME_CONFLICT"

ResumeAnswer(c, answer) ==
    \E p \in calls[c].products :
        LET run == calls[c].run IN
        /\ \/ answer.outcome = "accepted"     /\ AssignRuns(answer.runs)
           \/ answer.outcome = "conflict"     /\ FailCurrentRun(p, run, ConflictReason(calls[c].resend))
           \/ answer.outcome = "not_found"    /\ FailCurrentRun(p, run, "RESUME_SESSION_NOT_FOUND")
           \/ answer.outcome = "rejected"     /\ FailCurrentRun(p, run, "RESUME_INVALID_REQUEST")
           \/ answer.outcome = "not_received" /\ KeepForResend(p, run)
           \/ answer.outcome = "unknown"      /\ UNCHANGED dbVars
        /\ Begin(c, NoCall)

Answered(c, answer) ==
    /\ IF calls[c].kind = "diagnose" THEN DiagnoseAnswer(c, answer) ELSE ResumeAnswer(c, answer)
    /\ UNCHANGED <<retries, stuck>>

(* The answer the AI gave arrives.                                         *)
TakeAnswer(c) ==
    /\ calls[c] # NoCall /\ calls[c].answer # Open
    /\ Answered(c, calls[c].answer)

(* No answer of the AI: 429, 5xx and a failed connection mean not          *)
(* received, the read timeout, a restart of the backend and an answer that *)
(* cannot be read mean unknown, the other statuses mean rejected.          *)
NoAnswer(c) ==
    /\ calls[c] # NoCall /\ calls[c].answer = Open
    /\ \E outcome \in {"not_received", "unknown", "rejected"} : Answered(c, [outcome |-> outcome])

(* The AI answered, and the answer was lost on the way or not stored.      *)
LoseAnswer(c) ==
    /\ calls[c] # NoCall /\ calls[c].answer # Open
    /\ Answered(c, [outcome |-> "unknown"])

-----------------------------------------------------------------------------
(* The schedulers.                                                         *)

(* PendingDiagnosesRetryScheduler: what may no longer be requested fails,  *)
(* the rest is requested by the scheduler's own thread.                    *)
RequestedTooLongAgo(row) == "requestedAt" \in row.overdue
Restarted(row) ==
    IF RequestedTooLongAgo(row) THEN Fail(row, "AI_REQUEST_UNAVAILABLE") ELSE StartDiagnoses(row)

RestartPendingProducts ==
    LET pending == {p \in Product : StatusIn(p, {"PENDING"})}
        again   == {p \in pending : ~RequestedTooLongAgo(rows[p])} IN
    /\ calls["pending"] = NoCall /\ pending # {}
    /\ Refresh(With([p \in pending |-> Restarted(rows[p])]))
    /\ IF again = {} THEN UNCHANGED calls ELSE Begin("pending", Diagnose(again))
    /\ UNCHANGED <<retries, stuck>>

(* PendingResumeRetryScheduler for one of the products it found.           *)
RestartPendingResume(p) ==
    /\ calls["resume"] = NoCall
    /\ StatusIn(p, {"IN_PROGRESS"}) /\ rows[p].resumePending
    /\ IF "resumePendingSince" \in rows[p].overdue
       THEN /\ Refresh([rows EXCEPT ![p] = Fail(@, "AI_RESUME_UNAVAILABLE")])
            /\ UNCHANGED calls
       ELSE /\ Begin("resume", Resume(p, TRUE))
            /\ UNCHANGED dbVars
    /\ UNCHANGED <<retries, stuck>>

(* StuckDiagnosesScheduler: the ids are read without a lock, and each row  *)
(* is looked at again under the lock.                                      *)
IsStuck(p) == StatusIn(p, {"IN_PROGRESS"}) /\ "updatedAt" \in rows[p].overdue

FindStuck ==
    /\ stuck = {}
    /\ stuck' = {p \in Product : IsStuck(p)} /\ stuck' # {}
    /\ UNCHANGED <<dbVars, retries, calls>>

FailStuck(p) ==
    /\ p \in stuck
    /\ stuck' = stuck \ {p}
    /\ IF IsStuck(p) THEN Refresh([rows EXCEPT ![p] = Fail(@, "DIAGNOSES_TIMEOUT")])
                     ELSE UNCHANGED dbVars
    /\ UNCHANGED <<retries, calls>>

(* A deadline passes.  A request is over within seconds (3 s to connect,   *)
(* 5 s to read) and a scheduler's round within minutes, so the 15 minutes  *)
(* of updatedAt do not pass during one; and they pass after the 10 minutes *)
(* of resumePendingSince, because setting it changed the row.              *)
Matters(p, clock) ==
    \/ clock = "requestedAt" /\ StatusIn(p, {"PENDING", "IN_PROGRESS"}) /\ ~IsRunAssigned(rows[p])
    \/ clock = "resumePendingSince" /\ StatusIn(p, {"IN_PROGRESS"}) /\ rows[p].resumePending
    \/ clock = "updatedAt" /\ StatusIn(p, {"IN_PROGRESS"}) /\ ~Calling(p) /\ p \notin stuck
                           /\ (rows[p].resumePending => "resumePendingSince" \in rows[p].overdue)

Elapse(p, clock) ==
    /\ Matters(p, clock) /\ clock \notin rows[p].overdue
    /\ rows' = [rows EXCEPT ![p].overdue = @ \cup {clock}]
    /\ UNCHANGED <<overall, retries, calls, stuck>>

-----------------------------------------------------------------------------
(* A callback of the AI, m, and what the backend replies: "ok" and         *)
(* "refused" end it, "again" (COMMON-009) asks for it once more.           *)

Callback == [product: Product, run: Run, number: Nat,
             kind: {"progress", "questions", "result", "failed", "fatal"}]

Ignored(m) ==
    \/ m.kind \in {"progress", "failed", "fatal"} /\ rows[m.product].status = "FAILED"
    \/ m.kind = "questions" /\ rows[m.product].status = "AWAITING_INPUT"
                            /\ m.number \in rows[m.product].rounds
    \/ m.kind = "result" /\ rows[m.product].status = "COMPLETED"

Acceptable(m) ==
    \/ m.kind = "progress"  /\ rows[m.product].status = "IN_PROGRESS"
    \/ m.kind = "questions" /\ CanAskQuestions(rows[m.product], m.number)
    \/ m.kind = "result"    /\ CanComplete(rows[m.product])
    \/ m.kind \in {"failed", "fatal"} /\ CanFail(rows[m.product])

RowAfter(m) ==
    CASE m.kind = "progress"  -> RecordProgress(rows[m.product], m.run, m.number)
      [] m.kind = "questions" -> AskQuestions(rows[m.product], m.number)
      [] m.kind = "result"    -> Complete(rows[m.product])
      [] m.kind = "failed"    -> Fail(rows[m.product], "AI_RETRYABLE")
      [] m.kind = "fatal"     -> Fail(rows[m.product], "AI_FINAL")

Handle(m, reply) ==
    LET after == [rows EXCEPT ![m.product] = RowAfter(m)] IN
    IF rows[m.product] = NoRow THEN reply = "refused" /\ UNCHANGED dbVars
    ELSE IF ~IsCurrentRun(rows[m.product], m.run) THEN reply = "again" /\ UNCHANGED dbVars
    ELSE IF Ignored(m) THEN reply = "ok" /\ UNCHANGED dbVars
    ELSE IF ~Acceptable(m) THEN reply = "refused" /\ UNCHANGED dbVars
    ELSE reply = "ok" /\ IF m.kind = "progress" THEN Save(after) ELSE Refresh(after)

-----------------------------------------------------------------------------
BackendInit ==
    /\ rows = [p \in Product |-> NoRow] /\ overall = NoRow
    /\ retries = [p \in Product |-> 0]
    /\ calls = [c \in Caller |-> NoCall] /\ stuck = {}

User      == CreateDiagnoses \/ \E p \in Product : Answer(p) \/ RetryDiagnoses(p) \/ RemoveProduct(p)
Schedulers == \/ RestartPendingProducts \/ FindStuck
              \/ \E p \in Product : RestartPendingResume(p) \/ FailStuck(p)
Clock     == \E p \in Product, clock \in Clocks : Elapse(p, clock)
Network   == \E c \in Caller : TakeAnswer(c) \/ NoAnswer(c) \/ LoseAnswer(c)
BackendStep == User \/ Schedulers \/ Clock \/ Network

(* The schedulers run every minute, clocks go on, and a request ends.      *)
BackendFairness ==
    /\ WF_backendVars(RestartPendingProducts) /\ WF_backendVars(FindStuck)
    /\ \A p \in Product : /\ WF_backendVars(RestartPendingResume(p)) /\ WF_backendVars(FailStuck(p))
                          /\ \A clock \in Clocks : WF_backendVars(Elapse(p, clock))
    /\ \A c \in Caller : WF_backendVars(TakeAnswer(c) \/ NoAnswer(c) \/ LoseAnswer(c))
=============================================================================

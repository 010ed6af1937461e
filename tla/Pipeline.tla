------------------------------ MODULE Pipeline ------------------------------
(* One run of the compliance pipeline: extract, select, run the tools,      *)
(* aggregate, verify, and run tools again as verification demands, until it *)
(* is satisfied, needs somebody else, gets no further or has tried often    *)
(* enough (app/pipeline/runner.py).  The selected tools run at once where   *)
(* threads allow (app/pipeline/tool_executor.py).                           *)
EXTENDS VerificationAgent

CONSTANTS
  MaxParallel,   \* MAX_PARALLEL_TOOLS
  Answer,        \* per tool, what a call of it may come to
  MaxRetryRounds,
  Signal,    \* what a feature of some product says of a tool, for sure or not
  None,      \* not there yet
  Question   \* texts of questions the model may ask

(* A result that says it was not selected is an exception, Raised below.     *)
ExecutorAssumption ==
  /\ ToolAssumption /\ MaxParallel \in Nat \ {0}
  /\ \A t \in Tool: \A answer \in Answer[t]: answer.status # "skipped"

PipelineAssumption ==
  /\ ExecutorAssumption /\ MaxRetryRounds \in Nat /\ Signal \subseteq [tool: Tool, sure: BOOLEAN]
  /\ None \notin {"completed", "user_input_required", "revision_required", "retry_limit_exceeded", "no_progress"}

-----------------------------------------------------------------------------
(* A batch is the list of tools submitted to the pool; each of its places   *)
(* ends with a result of its own, in any order.                             *)
(*                                                                          *)
(* An answer has a status, claims, actions that no claim asks for and       *)
(* missing information; or it is an exception: of the tool, or for a result *)
(* that is of another tool or says it was not selected.                     *)
Raised == [status |-> "raised", claims |-> {}, actions |-> {}, missing |-> {}]

Executed(t, round, answer) ==
  IF answer = Raised THEN Failed(t, round)
  ELSE LET findings == {Finding(t, round, c) : c \in answer.claims}
       IN Result(t, answer.status, round, FALSE, findings,
                 Requirements(findings) \cup answer.actions, answer.missing)

-----------------------------------------------------------------------------
(* pool.batch: the tools submitted, pool.selected those really run;          *)
(* pool.started: how many places a thread has taken; pool.ended: the places  *)
(* with their results, in the order they ended.                             *)
Pool(batch, selected) ==
  [batch |-> batch, selected |-> selected, started |-> 0, ended |-> <<>>]

Ended(pool) == {e.place : e \in ToSet(pool.ended)}

Running(pool) == (1..pool.started) \ Ended(pool)

(* Mutant: the calling thread is counted among the workers.                 *)
OneThreadLess(pool) == Min({MaxParallel, Cardinality(pool.selected)}) - 1

(* One selected tool, or none, is run without threads.                      *)
Workers(pool) == Min({MaxParallel, Max({1, Cardinality(pool.selected)})})

MayStart(pool) == pool.started < Len(pool.batch) /\ Cardinality(Running(pool)) < Workers(pool)

Start(pool) == [pool EXCEPT !.started = @ + 1]

EndsWith(pool, place, result) ==
  [pool EXCEPT !.ended = Append(@, [place |-> place, result |-> result])]

AllEnded(pool) == Len(pool.ended) = Len(pool.batch)

(* Mutant: results as they complete.                                        *)
AsCompleted(pool) == [i \in DOMAIN pool.batch |-> pool.ended[i].result]

(* future.result() of each future in the order of submission.               *)
Gathered(pool) ==
  [i \in DOMAIN pool.batch |-> (CHOOSE e \in ToSet(pool.ended): e.place = i).result]

-----------------------------------------------------------------------------
Ran(results) == At(results, {i \in DOMAIN results: results[i].status # "skipped"})

(* A SelectionResult: who is selected, the six latest results, and all that *)
(* was really executed.                                                     *)
Initial(selected, gathered) ==
  [selected |-> selected, results |-> gathered, history |-> Ran(gathered)]

(* Findings that a critical issue says have failed or lack evidence.        *)
Challenged(verification) ==
  UNION {i.related : i \in {j \in verification.issues:
                              j.severity = "critical" /\ j.kind \in Recoverable}}

(* Mutant: an action goes with any finding that asked for it.               *)

SharedActionsGo(previous, retried, verification) ==
  LET kept == previous.findings \ Challenged(verification)
  IN IF retried.status # "failed" \/ kept = {} THEN retried
     ELSE [retried EXCEPT !.status = "partial", !.detail = previous.detail, !.findings = kept,
             !.actions = previous.actions \ Requirements(previous.findings \ kept),
             !.missing = previous.missing]

(* A retry that failed keeps what verification did not challenge, and drops *)
(* the actions only the challenged findings asked for.                      *)
Retained(previous, retried, verification) ==
  LET kept == previous.findings \ Challenged(verification)
      gone == Requirements(previous.findings \ kept) \ Requirements(kept)
  IN IF retried.status # "failed" \/ kept = {} THEN retried
     ELSE [retried EXCEPT !.status = "partial", !.detail = previous.detail, !.findings = kept,
                          !.actions = previous.actions \ gone, !.missing = previous.missing]

(* The verification that asks for the retry is its request.                 *)
RetryBatch(request) == InToolOrder(request.tools)

Answering(results) == SelectSeq(results, LAMBDA r: r.status # "failed")

(* Mutant: retries that failed leave no trace in the history.               *)
RecordsAnswersOnly(state, gathered) == state.history \o Answering(gathered)

HistoryWith(state, gathered) == state.history \o gathered

(* The i-th tool of the retry gets the i-th result.                         *)
Retried(state, request, gathered) ==
  LET batch == RetryBatch(request)
      at(t) == CHOOSE i \in DOMAIN batch: batch[i] = t
      next(r) == IF r.tool \in request.tools
                 THEN Retained(r, gathered[at(r.tool)], request) ELSE r
  IN [selected |-> state.selected \cup request.tools,
      results |-> [i \in DOMAIN state.results |-> next(state.results[i])],
      history |-> HistoryWith(state, gathered)]

-----------------------------------------------------------------------------
(* Did a retry change anything?  Two rounds are compared by content, and only *)
(* when both really ran and answered (app/pipeline/early_stop.py).          *)
Normal(r) == r.selected /\ r.status \in {"success", "partial"} /\ ~r.error /\ r.findings # {}

Executions(state, t) == At(state.history, {i \in DOMAIN state.history: state.history[i].tool = t})

(* The last execution of t is a normal one, and is what its latest result   *)
(* shows.                                                                   *)
HasNormalRecord(state, t) ==
  LET latest == ResultOf(state.results, t)
      runs   == Executions(state, t)
  IN runs # <<>> /\ Normal(latest) /\ Normal(Last(runs)) /\ Last(runs).round = latest.round

Content(findings) == {[tool |-> f.tool, claim |-> f.claim] : f \in findings}

(* Without ids, rounds and times.                                           *)
Snapshot(state, verification) ==
  [tools |-> {[r EXCEPT !.round = 0, !.findings = Content(@)] : r \in ToSet(state.results)},
   issues |-> {[i EXCEPT !.related = Content(@)] : i \in verification.issues},
   verification |-> [verification EXCEPT !.issues = {}, !.checked = Content(@)]]

(* Every finding the verification names is one of the results.              *)
Comparable(state, verification) ==
  verification.checked \cup UNION {i.related : i \in verification.issues}
    \subseteq UNION {r.findings : r \in ToSet(state.results)}

HasNoProgress(before, earlier, after, later, executed, round) ==
  /\ earlier.status = "tools_required" /\ later.status = "tools_required"
  /\ executed # {} /\ executed = earlier.tools /\ round >= 1
  /\ Comparable(before, earlier) /\ Comparable(after, later)
  /\ Snapshot(before, earlier) = Snapshot(after, later)
  /\ \A t \in executed: /\ HasNormalRecord(before, t) /\ HasNormalRecord(after, t)
                        /\ Last(Executions(before, t)).round < round
                        /\ Last(Executions(after, t)).round = round
-----------------------------------------------------------------------------
VARIABLES
  stage,     \* the stage that runs, or how the run ended
  round,
  signals,   \* the product, as far as the rules look at it
  pool,      \* the tools being run
  state,     \* SelectionResult
  draft,
  verification,
  reviewed,  \* whether the verification is the model's as well as the rules'
  previous,  \* what round - 1 had come to, when a retry is under way
  reason     \* termination_reason

vars == <<stage, round, signals, pool, state, draft, verification, reviewed, previous, reason>>

Init ==
  /\ stage = "extraction" /\ round = 0 /\ signals = {} /\ pool = Pool(<<>>, {})
  /\ state = None /\ draft = None /\ verification = None /\ reviewed = FALSE
  /\ previous = None /\ reason = None

(* An exception of a stage leaves run; the job makes a failed run of it.    *)
StageFails ==
  /\ stage \in {"extraction", "selection"}
  /\ stage' = "failed"
  /\ UNCHANGED <<round, signals, pool, state, draft, verification, reviewed, previous, reason>>

Extract ==
  /\ stage = "extraction"
  /\ signals' \in {found \in SUBSET Signal: \A s, t \in found: s.tool = t.tool => s = t}
  /\ stage' = "selection"
  /\ UNCHANGED <<round, pool, state, draft, verification, reviewed, previous, reason>>

(* All six decisions go to the executor; what the model left out and is     *)
(* always run is put back.                                                  *)
Select ==
  /\ stage = "selection"
  /\ \E chosen \in SUBSET Tool: pool' = Pool(ToolName, chosen \cup AlwaysRun)
  /\ stage' = "tool_execution"
  /\ UNCHANGED <<round, signals, state, draft, verification, reviewed, previous, reason>>

-----------------------------------------------------------------------------
StartTool ==
  /\ stage = "tool_execution" /\ MayStart(pool)
  /\ pool' = Start(pool)
  /\ UNCHANGED <<stage, round, signals, state, draft, verification, reviewed, previous, reason>>

(* A tool ends with an answer or an exception, which stays its own.         *)
EndTool ==
  /\ stage = "tool_execution"
  /\ \E place \in Running(pool):
       LET t == pool.batch[place] IN
       \/ /\ t \in pool.selected
          /\ \E answer \in Answer[t]: pool' = EndsWith(pool, place, Executed(t, round, answer))
       \/ t \notin pool.selected /\ pool' = EndsWith(pool, place, Skipped(t, round))
  /\ UNCHANGED <<stage, round, signals, state, draft, verification, reviewed, previous, reason>>

CollectTools ==
  /\ stage = "tool_execution" /\ AllEnded(pool)
  /\ state' = IF round = 0 THEN Initial(pool.selected, Gathered(pool))
              ELSE Retried(previous.state, previous.verification, Gathered(pool))
  /\ pool' = Pool(<<>>, {})
  /\ stage' = "aggregation"
  /\ UNCHANGED <<round, signals, draft, verification, reviewed, previous, reason>>

AggregateResults ==
  /\ stage = "aggregation"
  /\ draft' = Aggregate(state)
  /\ stage' = "verification"
  /\ UNCHANGED <<round, signals, pool, state, verification, reviewed, previous, reason>>

(* What the model may say of a draft, one remark at a time: an objection to *)
(* a finding, with or without a tool to run again, a tool to run, a         *)
(* question, or a finding left unread.                                      *)
Remark(d, issues, tools, questions) ==
  [issues |-> issues, tools |-> tools, questions |-> questions, checked |-> d.findings]

Objections(d, kind) ==
  {Remark(d, {Issue("critical", kind, NoTool, {f})}, {}, {}) : f \in d.findings}
  \cup {Remark(d, {Issue("critical", kind, NoTool, {f})}, {f.tool}, {}) : f \in d.findings}

Reviews(d) ==
  {Remark(d, {}, {}, {})}
  \cup Objections(d, "missing_evidence") \cup Objections(d, "contradiction")
  \cup {Remark(d, {Issue("warning", "unsupported_claim", NoTool, {})}, {}, {})}
  \cup {Remark(d, {}, {t}, {}) : t \in Tool}
  \cup {Remark(d, {}, {}, {q}) : q \in [text: Question, required: BOOLEAN]}
  \cup {[Remark(d, {}, {}, {}) EXCEPT !.checked = d.findings \ {f}] : f \in d.findings}

Verify ==
  /\ stage = "verification"
  /\ \E review \in Reviews(draft) \cup {NoReview}:
       /\ verification' = Verified(draft, signals, review)
       /\ reviewed' = (review # NoReview /\ ScopeHolds(review, draft))
  /\ stage' = "decision"
  /\ UNCHANGED <<round, signals, pool, state, draft, previous, reason>>

-----------------------------------------------------------------------------
Stuck ==
  /\ round > 0
  /\ HasNoProgress(previous.state, previous.verification, state, verification,
                   previous.verification.tools, round)

EndReason(status) ==
  CASE status \in {"approved", "approved_with_warnings"} -> "completed"
    [] status = "user_input_required" -> "user_input_required"
    [] status = "revision_required" -> "revision_required"

FinalStatus(status) ==
  CASE status = "approved" -> "verified"
    [] status = "approved_with_warnings" -> "verified_with_warnings"
    [] OTHER -> "incomplete"

(* Mutant: one round less than the limit.                                   *)
LastRound == round + 1 >= MaxRetryRounds

AtLimit == round >= MaxRetryRounds

WantsRetry == verification.status = "tools_required"

Ends(why) ==
  /\ stage' = "ended" /\ reason' = why
  /\ UNCHANGED <<round, signals, pool, state, draft, verification, reviewed, previous>>

EndNoProgress == stage = "decision" /\ Stuck /\ Ends("no_progress")

EndByStatus ==
  stage = "decision" /\ ~Stuck /\ ~WantsRetry /\ Ends(EndReason(verification.status))

EndAtLimit ==
  stage = "decision" /\ ~Stuck /\ WantsRetry /\ AtLimit /\ Ends("retry_limit_exceeded")

RetryTools ==
  /\ stage = "decision" /\ ~Stuck /\ WantsRetry /\ ~AtLimit
  /\ round' = round + 1
  /\ previous' = [state |-> state, verification |-> verification]
  /\ pool' = Pool(RetryBatch(verification), verification.tools)
  /\ stage' = "tool_execution"
  /\ UNCHANGED <<signals, state, draft, verification, reviewed, reason>>

Next ==
  \/ StageFails \/ Extract \/ Select \/ StartTool \/ EndTool \/ CollectTools
  \/ AggregateResults \/ Verify
  \/ EndNoProgress \/ EndByStatus \/ EndAtLimit \/ RetryTools

Spec == Init /\ [][Next]_vars

(* Calls of tools and models end: they have time limits of their own.       *)
FairSpec == Spec /\ WF_vars(Next)
-----------------------------------------------------------------------------
TypeOK ==
  /\ stage \in {"extraction", "selection", "tool_execution", "aggregation", "verification",
                "decision", "ended", "failed"}
  /\ round \in 0..MaxRetryRounds
  /\ signals \subseteq Signal
  /\ pool.selected \subseteq Tool /\ pool.started \in 0..Len(pool.batch)
  /\ reason \in {None, "completed", "user_input_required", "revision_required",
                 "retry_limit_exceeded", "no_progress"}
  /\ (reason = None) = (stage # "ended")

(* Whatever order the threads end in, there is one latest result per tool,  *)
(* in the order of the tools, with findings of that tool, and it says       *)
(* selected exactly for the tools that are (tool_executor.py, futures       *)
(* gathered by submission): so verification never finds the structure of    *)
(* the pipeline's own draft contradictory.                                  *)
ResultsAreTheTools ==
  state # None =>
    /\ Len(state.results) = Len(ToolName)
    /\ \A i \in DOMAIN state.results:
         LET r == state.results[i]
         IN r.tool = ToolName[i] /\ \A f \in r.findings: f.tool = r.tool
    /\ stage = "decision" =>
         ~\E i \in ToolIssues(draft) \cup FindingIssues(draft): i.kind = "contradiction"

(* The history holds every execution once: no tool runs twice in a round,   *)
(* rounds only go up, the latest result of a tool is of its last execution. *)
HistoryInOrder ==
  state # None =>
    /\ \A i, j \in DOMAIN state.history:
         i < j => LET a == state.history[i] b == state.history[j]
                  IN a.round < b.round \/ (a.round = b.round /\ a.tool # b.tool)
    /\ \A r \in ToSet(state.results):
         LET runs == Executions(state, r.tool)
         IN IF runs = <<>> THEN r.status = "skipped" ELSE Last(runs).round = r.round

NoneCritical(v) == \A i \in v.issues: i.severity # "critical"

(* Completed means that a model has read this draft and objects to nothing     *)
(* critical, that every selected tool answered in full and every tool has its   *)
(* result, and that no definite finding is without a source                    *)
(* (_build_final_assessment, VerificationAgent).                              *)
CompletedIsReviewed ==
  stage = "ended" /\ reason = "completed" =>
    /\ reviewed /\ verification.checked = draft.findings /\ NoneCritical(verification)
    /\ \A r \in ToSet(draft.results): r.selected => r.status = "success" /\ r.findings # {}
    /\ \A t \in Tool: \E r \in ToSet(draft.results): r.tool = t
    /\ draft.findings # {}
    /\ \A f \in draft.findings:
         /\ \E r \in ToSet(draft.results): f \in r.findings
         /\ f.claim.determination \in Definitive => f.claim.cites # "nothing"

(* The contract of ExecutionEndReason: completed exactly for verified       *)
(* results, and then every selected tool succeeded the last time it ran.    *)
CompletedMeansVerified ==
  stage = "ended" =>
    /\ (reason = "completed") = (FinalStatus(verification.status) # "incomplete")
    /\ reason = "completed" =>
         \A t \in draft.selected: Last(Executions(state, t)).status = "success"

(* A run gives up on tools only while verification still asks for some: at  *)
(* the limit after the last round allowed, for lack of progress only after  *)
(* each of them has answered twice in a row with the same claims.           *)
GivesUpInTime ==
  /\ reason = "retry_limit_exceeded" => WantsRetry /\ round = MaxRetryRounds
  /\ reason = "no_progress" =>
       WantsRetry /\ \A t \in previous.verification.tools:
         LET runs == Executions(state, t)
             last == Last(runs)
             before == runs[Len(runs) - 1]
         IN /\ Len(runs) >= 2 /\ last.round = round
            /\ {last.status, before.status} \subseteq {"success", "partial"}
            /\ Content(last.findings) = Content(before.findings)

(* The summary never looks better than what it sums up: a high risk shows,  *)
(* and a product looks compliant only if every selected tool succeeded the  *)
(* last time it ran, none lacks information and none asks for an action.    *)
SummaryHidesNothing ==
  stage = "ended" =>
    /\ (draft.overall = "high_risk") = \E f \in draft.findings: f.claim.risk = "high"
    /\ draft.overall = "likely_compliant" =>
         /\ \A t \in draft.selected: Last(Executions(state, t)).status = "success"
         /\ \A r \in ToSet(state.results): r.missing = {} /\ r.actions = {}

(* Towards the job a run is nothing but its ending, and keeps the contract   *)
(* (PipelineContract): once, with a verdict that fits the reason, and a      *)
(* question that has to be answered only where the run stopped for it.       *)
Outcome ==
  IF stage = "ended"
  THEN [reason |-> reason, status |-> FinalStatus(verification.status),
        asks |-> \E q \in verification.questions: q.required]
  ELSE [reason |-> IF stage = "failed" THEN "failed" ELSE "running",
        status |-> "none", asks |-> FALSE]

Contract == INSTANCE PipelineContract WITH outcome <- Outcome

ContractSpec == Contract!Spec

(* A retry that fails does not make judgements disappear: a finding leaves  *)
(* the latest results only when its tool answered anew or a critical issue  *)
(* challenged it, and an action only with the last finding that asked for   *)
(* it (_retain_unchallenged_findings).                                      *)
FindingsOf(s) == UNION {r.findings : r \in ToSet(s.results)}
Answered(s, t) == Last(Executions(s, t)).status # "failed"

UnchallengedFindingsStay ==
  [][state # None /\ state' # state =>
       \A f \in FindingsOf(state):
         \/ Answered(state', f.tool)
         \/ f \in Challenged(verification)
         \/ /\ f \in FindingsOf(state')
            /\ f.claim.requires \subseteq ResultOf(state'.results, f.tool).actions]_vars

(* Every run comes to an end.                                               *)
EveryRunEnds == <>(stage \in {"ended", "failed"})
=============================================================================

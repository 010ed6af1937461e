---------------------------- MODULE PipelineProofs ----------------------------
(* What a run of the pipeline promises to the job and to the user, for any      *)
(* tools, answers, reviews, number of threads and number of rounds.            *)
(*                                                                            *)
(* While the pipeline decides, and once it has ended, its verification is what *)
(* the agent made of the draft at hand (Verdict); and what an agent can make   *)
(* of a draft fits the contract (VerdictsFit), whether the model's review      *)
(* counts or the rules are on their own.  That is Inv.                         *)
(*                                                                            *)
(* What the draft is worth rests on the state it sums up.  Kept says of it     *)
(* that there is one latest result per tool, which is what its last execution  *)
(* came to or what was kept of the round before when that one failed, and that *)
(* the history holds every execution once, in rounds (StateFits).  The threads *)
(* end the places of a batch in any order, each once (PoolFits): so what is    *)
(* gathered has one result per place (GatheredFits: as many places as there    *)
(* are, none twice, are all of them), and a retry keeps StateFits              *)
(* (RetriedFits).  A round that followed another one still knows which state   *)
(* and which request it came from (RetryIsOfPrevious): that is what makes two  *)
(* rounds comparable.                                                         *)
EXTENDS Pipeline, FiniteSetTheorems, TLAPS

(* The verification is of this draft.                                         *)
Verdict ==
  stage \in {"decision", "ended"} =>
    \E review:
      /\ verification = Verified(draft, signals, review)
      /\ reviewed = (review # NoReview /\ ScopeHolds(review, draft))

(* Why a run ends is what its verification says, unless it asks for tools.     *)
EndedFor ==
  stage = "ended" =>
    IF reason \in {"no_progress", "retry_limit_exceeded"}
    THEN WantsRetry /\ (reason = "retry_limit_exceeded" => round = MaxRetryRounds)
    ELSE ~WantsRetry /\ reason = EndReason(verification.status)

Rounds == MaxRetryRounds \in Nat /\ round \in 0..MaxRetryRounds

Inv == Verdict /\ EndedFor /\ Rounds

-----------------------------------------------------------------------------
Verdicts == {"approved", "approved_with_warnings", "user_input_required", "revision_required", "tools_required"}

Asks(v) == \E q \in v.questions: q.required

(* A status says which of the questions, tools and issues a verification has.  *)
LEMMA StatusFits ==
  ASSUME NEW v
  PROVE  /\ Status(v) \in Verdicts
         /\ Status(v) = "user_input_required" => Asks(v)
         /\ Asks(v) => Status(v) \in {"user_input_required", "revision_required"}
         /\ Status(v) \in {"approved", "approved_with_warnings"} => NoneCritical(v)
BY DEF Status, Verdicts, Asks, NoneCritical

LEMMA RulesFit ==
  ASSUME NEW d, NEW s
  PROVE  LET rules == VerifyRules(d, s)
         IN /\ rules.status \in Verdicts \ {"user_input_required"}
            /\ rules.questions = {}
            /\ rules.issues = ToolIssues(d) \cup SignalIssues(d, s) \cup FindingIssues(d)
<1> DEFINE issues == ToolIssues(d) \cup SignalIssues(d, s) \cup FindingIssues(d)
           tools  == {i.tool : i \in {j \in issues: CallsForTool(j, d)}}
           v == [status |-> "approved", issues |-> issues, questions |-> {}, checked |-> {}, tools |-> tools]
<1>1. VerifyRules(d, s) = [v EXCEPT !.status = Status(v)]
  BY DEF VerifyRules, WithStatus
<1>2. v.questions = {} /\ v.issues = issues
  OBVIOUS
<1>3. Status(v) \in Verdicts \ {"user_input_required"}
  BY <1>2, StatusFits DEF Asks
<1> HIDE DEF issues, tools
<1>4. /\ [v EXCEPT !.status = Status(v)].status = Status(v)
      /\ [v EXCEPT !.status = Status(v)].questions = {}
      /\ [v EXCEPT !.status = Status(v)].issues = issues
  OBVIOUS
<1> QED BY <1>1, <1>3, <1>4 DEF issues

(* A verification whose review counts: what rules and review say, together.    *)
LEMMA MergedFit ==
  ASSUME NEW rules, NEW review
  PROVE  LET v == Merge(rules, review)
         IN /\ v.status \in Verdicts
            /\ v.status = "user_input_required" => Asks(v)
            /\ Asks(v) => v.status \in {"user_input_required", "revision_required"}
            /\ v.status \in {"approved", "approved_with_warnings"} => NoneCritical(v)
            /\ v.issues = rules.issues \cup review.issues
            /\ v.checked = review.checked
<1> DEFINE issues == rules.issues \cup review.issues
           questions == MergedQuestions(rules.questions \cup review.questions)
           tools == rules.tools \cup review.tools
           u == [status |-> "approved", issues |-> issues, questions |-> questions,
                 checked |-> review.checked, tools |-> tools]
           v == [u EXCEPT !.status = Status(u)]
<1>1. Merge(rules, review) = v
  BY DEF Merge, WithStatus
<1>2. v.status = Status(u) /\ v.issues = u.issues /\ v.questions = u.questions
  OBVIOUS
<1>3. v.issues = issues /\ v.checked = review.checked
  OBVIOUS
<1>4. Asks(v) = Asks(u) /\ NoneCritical(v) = NoneCritical(u)
  BY <1>2 DEF Asks, NoneCritical
<1> HIDE DEF u, v
<1> QED BY <1>1, <1>2, <1>3, <1>4, StatusFits DEF issues

(* The rules alone approve nothing.                                           *)
LEMMA RulesAloneFit ==
  ASSUME NEW d, NEW s
  PROVE  LET v == RulesOnly(VerifyRules(d, s))
         IN v.status \in {"revision_required", "tools_required"} /\ ~Asks(v)
<1> DEFINE rules == VerifyRules(d, s)
<1>1. rules.status \in Verdicts \ {"user_input_required"} /\ rules.questions = {}
  BY RulesFit
<1>2. /\ rules = [rules EXCEPT !.status = rules.status]
      /\ [rules EXCEPT !.status = "revision_required"].status = "revision_required"
      /\ [rules EXCEPT !.status = "revision_required"].questions = rules.questions
  BY DEF VerifyRules, WithStatus
<1> HIDE DEF rules
<1>3. CASE rules.status \in {"approved", "approved_with_warnings"}
  BY <1>1, <1>2, <1>3 DEF RulesOnly, Asks, rules
<1>4. CASE rules.status \notin {"approved", "approved_with_warnings"}
  BY <1>1, <1>4 DEF RulesOnly, Asks, Verdicts, rules
<1> QED BY <1>3, <1>4

(* What the agent makes of a draft.                                           *)
LEMMA VerdictsFit ==
  ASSUME NEW d, NEW s, NEW review
  PROVE  LET v == Verified(d, s, review)
             counts == review # NoReview /\ ScopeHolds(review, d)
         IN /\ v.status \in Verdicts
            /\ v.status = "user_input_required" => Asks(v)
            /\ Asks(v) => v.status \in {"user_input_required", "revision_required"}
            /\ v.status \in {"approved", "approved_with_warnings"} =>
                 /\ counts /\ v.checked = d.findings /\ NoneCritical(v)
                 /\ ToolIssues(d) \cup SignalIssues(d, s) \cup FindingIssues(d) \subseteq v.issues
<1> DEFINE counts == review # NoReview /\ ScopeHolds(review, d)
           rules == VerifyRules(d, s)
<1>1. CASE counts
  <2>1. Verified(d, s, review) = Merge(rules, review)
    BY <1>1 DEF Verified
  <2>2. review.checked = d.findings
    BY <1>1 DEF ScopeHolds
  <2>3. ToolIssues(d) \cup SignalIssues(d, s) \cup FindingIssues(d) = rules.issues
    BY RulesFit
  <2> HIDE DEF rules
  <2> QED BY <1>1, <2>1, <2>2, <2>3, MergedFit
<1>2. CASE ~counts
  <2>1. Verified(d, s, review) = RulesOnly(rules)
    BY <1>2 DEF Verified
  <2> QED BY <2>1, RulesAloneFit DEF Verdicts
<1> QED BY <1>1, <1>2

-----------------------------------------------------------------------------
LEMMA InitInv == PipelineAssumption /\ Init => Inv
BY DEF Init, Inv, Verdict, EndedFor, Rounds, PipelineAssumption

LEMMA EndsKeeps ==
  ASSUME Inv, NEW why, stage = "decision", Ends(why),
         IF why \in {"no_progress", "retry_limit_exceeded"}
         THEN WantsRetry /\ (why = "retry_limit_exceeded" => round = MaxRetryRounds)
         ELSE ~WantsRetry /\ why = EndReason(verification.status)
  PROVE  Inv'
<1>1. /\ stage' = "ended" /\ reason' = why
      /\ UNCHANGED <<round, signals, draft, verification, reviewed>>
  BY DEF Ends
<1>2. Verdict'
  BY <1>1 DEF Inv, Verdict
<1>3. EndedFor' /\ Rounds'
  BY <1>1 DEF Inv, EndedFor, Rounds, WantsRetry
<1> QED BY <1>2, <1>3 DEF Inv

LEMMA NextInv == Inv /\ [Next]_vars => Inv'
<1> SUFFICES ASSUME Inv, [Next]_vars PROVE Inv'
  OBVIOUS
<1>1. ASSUME \/ StageFails \/ Extract \/ Select \/ StartTool \/ EndTool \/ CollectTools \/ AggregateResults
      PROVE  Inv'
  <2>1. stage' \notin {"decision", "ended"} /\ UNCHANGED round
    BY <1>1 DEF StageFails, Extract, Select, StartTool, EndTool, CollectTools, AggregateResults
  <2> QED BY <2>1 DEF Inv, Verdict, EndedFor, Rounds
<1>2. ASSUME Verify PROVE Inv'
  <2>1. PICK review : /\ verification' = Verified(draft, signals, review)
                      /\ reviewed' = (review # NoReview /\ ScopeHolds(review, draft))
    BY <1>2 DEF Verify
  <2>2. stage' = "decision" /\ UNCHANGED <<round, signals, draft>>
    BY <1>2 DEF Verify
  <2>3. Verdict'
    BY <2>1, <2>2 DEF Verdict
  <2> QED BY <2>2, <2>3 DEF Inv, EndedFor, Rounds
<1>3. ASSUME EndNoProgress PROVE Inv'
  <2>1. WantsRetry
    BY <1>3 DEF EndNoProgress, Stuck, HasNoProgress, WantsRetry
  <2> QED BY <1>3, <2>1, EndsKeeps DEF EndNoProgress
<1>4. ASSUME EndByStatus PROVE Inv'
  <2>1. verification.status \in Verdicts \ {"tools_required"}
    BY <1>4, VerdictsFit DEF Inv, Verdict, EndByStatus, WantsRetry
  <2>2. EndReason(verification.status) \notin {"no_progress", "retry_limit_exceeded"}
    BY <2>1 DEF EndReason, Verdicts
  <2> QED BY <1>4, <2>2, EndsKeeps DEF EndByStatus
<1>5. ASSUME EndAtLimit PROVE Inv'
  <2>1. round = MaxRetryRounds
    BY <1>5 DEF EndAtLimit, AtLimit, Inv, Rounds
  <2> QED BY <1>5, <2>1, EndsKeeps DEF EndAtLimit
<1>6. ASSUME RetryTools PROVE Inv'
  <2>1. stage' = "tool_execution" /\ round' = round + 1 /\ ~(round >= MaxRetryRounds)
    BY <1>6 DEF RetryTools, AtLimit
  <2> QED BY <2>1 DEF Inv, Verdict, EndedFor, Rounds
<1>7. ASSUME UNCHANGED vars PROVE Inv'
  BY <1>7 DEF vars, Inv, Verdict, EndedFor, Rounds, WantsRetry
<1> QED BY <1>1, <1>2, <1>3, <1>4, <1>5, <1>6, <1>7 DEF Next

LEMMA SpecInv == ASSUME PipelineAssumption PROVE Spec => []Inv
BY InitInv, NextInv, PTL DEF Spec

-----------------------------------------------------------------------------
(* A draft that gives the rules nothing critical to say.                       *)
LEMMA SoundDraft ==
  ASSUME NEW d, \A i \in ToolIssues(d) \cup FindingIssues(d): i.severity # "critical"
  PROVE  /\ \A r \in ToSet(d.results): r.selected => r.status = "success" /\ r.findings # {}
         /\ \A t \in Tool: \E r \in ToSet(d.results): r.tool = t
         /\ d.findings # {}
         /\ \A f \in d.findings:
              /\ \E r \in ToSet(d.results): f \in r.findings
              /\ f.claim.determination \in Definitive => f.claim.cites # "nothing"
<1>1. \A kind, tool, related: Issue("critical", kind, tool, related).severity = "critical"
  BY DEF Issue
<1>2. ASSUME NEW r \in ToSet(d.results), r.selected PROVE r.status = "success" /\ r.findings # {}
  <2> SUFFICES ASSUME Incomplete(r) PROVE FALSE
    BY <1>2 DEF Incomplete
  <2>1. Issue("critical", "tool_failure", r.tool, {}) \in ToolIssues(d)
    BY DEF ToolIssues
  <2> QED BY <1>1, <2>1
<1>3. ASSUME NEW t \in Tool PROVE \E r \in ToSet(d.results): r.tool = t
  <2> SUFFICES ASSUME t \notin {r.tool : r \in ToSet(d.results)} PROVE FALSE
    OBVIOUS
  <2>1. Issue("critical", "missing_tool", t, {}) \in ToolIssues(d)
    BY DEF ToolIssues
  <2> QED BY <1>1, <2>1
<1>4. d.findings # {}
  <2> SUFFICES ASSUME d.findings = {} PROVE FALSE
    OBVIOUS
  <2>1. Issue("critical", "missing_evidence", NoTool, {}) \in FindingIssues(d)
    BY DEF FindingIssues
  <2> QED BY <1>1, <2>1
<1>5. ASSUME NEW f \in d.findings PROVE \E r \in ToSet(d.results): f \in r.findings
  <2> DEFINE original == UNION {r.findings : r \in ToSet(d.results)}
  <2> SUFFICES ASSUME f \notin original PROVE FALSE
    OBVIOUS
  <2>1. f \in (original \cup d.findings) \ (original \cap d.findings)
    OBVIOUS
  <2>2. Issue("critical", "contradiction", f.tool, {f}) \in FindingIssues(d)
    BY <2>1 DEF FindingIssues
  <2> QED BY <1>1, <2>2
<1>6. ASSUME NEW f \in d.findings, f.claim.determination \in Definitive PROVE f.claim.cites # "nothing"
  <2> SUFFICES ASSUME f.claim.cites = "nothing" PROVE FALSE
    OBVIOUS
  <2>1. Issue("critical", "missing_evidence", f.tool, {f}) \in FindingIssues(d)
    BY <1>6 DEF FindingIssues
  <2> QED BY <1>1, <2>1
<1> QED BY <1>2, <1>3, <1>4, <1>5, <1>6

(* What a user reads as verified was read by a model, and stands on tools that  *)
(* answered and on sources (_build_final_assessment, VerificationAgent).       *)
THEOREM CompletedIsReviewedAlways ==
  ASSUME PipelineAssumption PROVE Spec => []CompletedIsReviewed
<1>1. Inv => CompletedIsReviewed
  <2> SUFFICES ASSUME Inv, stage = "ended", reason = "completed"
               PROVE  /\ reviewed /\ verification.checked = draft.findings /\ NoneCritical(verification)
                      /\ \A r \in ToSet(draft.results): r.selected => r.status = "success" /\ r.findings # {}
                      /\ \A t \in Tool: \E r \in ToSet(draft.results): r.tool = t
                      /\ draft.findings # {}
                      /\ \A f \in draft.findings:
                           /\ \E r \in ToSet(draft.results): f \in r.findings
                           /\ f.claim.determination \in Definitive => f.claim.cites # "nothing"
    BY DEF CompletedIsReviewed
  <2>1. PICK review: /\ verification = Verified(draft, signals, review)
                     /\ reviewed = (review # NoReview /\ ScopeHolds(review, draft))
    BY DEF Inv, Verdict
  <2>2. verification.status \in Verdicts /\ verification.status # "tools_required"
        /\ EndReason(verification.status) = "completed"
    BY <2>1, VerdictsFit DEF Inv, EndedFor, WantsRetry
  <2>3. verification.status \in {"approved", "approved_with_warnings"}
    BY <2>2 DEF EndReason, Verdicts
  <2>4. /\ reviewed /\ verification.checked = draft.findings /\ NoneCritical(verification)
        /\ ToolIssues(draft) \cup FindingIssues(draft) \subseteq verification.issues
    BY <2>1, <2>3, VerdictsFit
  <2>5. \A i \in ToolIssues(draft) \cup FindingIssues(draft): i.severity # "critical"
    BY <2>4 DEF NoneCritical
  <2> QED BY <2>4, <2>5, SoundDraft
<1> QED BY SpecInv, <1>1, PTL

-----------------------------------------------------------------------------
(* A run ends once, with a verdict that fits the reason, and asks only where    *)
(* it stopped for that (ExecutionEndReason).                                  *)
LEMMA EndingFits ==
  ASSUME Inv', stage' = "ended"
  PROVE  Outcome' \in Contract!Endings
<1> DEFINE s == verification'.status
           asks == \E q \in verification'.questions: q.required
<1>1. PICK review: verification' = Verified(draft', signals', review)
  BY DEF Inv, Verdict
<1>2. /\ s \in Verdicts
      /\ s = "user_input_required" => asks
      /\ asks => s \in {"user_input_required", "revision_required"}
  BY <1>1, VerdictsFit DEF Asks
<1>3. \/ reason' \in {"no_progress", "retry_limit_exceeded"} /\ s = "tools_required"
      \/ s # "tools_required" /\ reason' = EndReason(s)
  BY DEF Inv, EndedFor, WantsRetry
<1>4. Outcome' = [reason |-> reason', status |-> FinalStatus(s), asks |-> asks]
  BY DEF Outcome
<1> HIDE DEF s
<1>5. reason' \in Contract!Reason /\ FinalStatus(s) \in Contract!Status /\ asks \in BOOLEAN
  BY <1>2, <1>3 DEF Contract!Reason, Contract!Status, FinalStatus, EndReason, Verdicts
<1>6. /\ (reason' = "completed") = (FinalStatus(s) # "incomplete")
      /\ reason' = "user_input_required" => asks
      /\ asks => reason' \in {"user_input_required", "revision_required"}
  BY <1>2, <1>3 DEF FinalStatus, EndReason, Verdicts
<1> HIDE DEF asks
<1>7. Outcome'.reason = reason' /\ Outcome'.status = FinalStatus(s) /\ Outcome'.asks = asks
  BY <1>4
<1>8. Contract!Fits(Outcome')
  BY <1>6, <1>7 DEF Contract!Fits
<1>9. Outcome' \in {Contract!Ending(r, t, a) : r \in Contract!Reason, t \in Contract!Status, a \in BOOLEAN}
  BY <1>4, <1>5 DEF Contract!Ending
<1> QED BY <1>8, <1>9 DEF Contract!Endings

LEMMA InitRefines == Init => Contract!Init
BY DEF Init, Contract!Init, Contract!Without, Contract!Ending, Outcome

LEMMA NextRefines == Inv /\ Inv' /\ [Next]_vars => [Contract!Next]_Outcome
<1> SUFFICES ASSUME Inv, Inv', [Next]_vars PROVE Contract!Next \/ UNCHANGED Outcome
  OBVIOUS
<1>1. stage \notin {"ended", "failed"} => Outcome = Contract!Without("running")
  BY DEF Outcome, Contract!Without, Contract!Ending
<1>2. CASE StageFails
  BY <1>1, <1>2 DEF StageFails, Outcome, Contract!Next, Contract!Without, Contract!Ending
<1>3. CASE Extract \/ Select \/ StartTool \/ EndTool \/ CollectTools \/ AggregateResults \/ Verify \/ RetryTools
  <2>1. stage \notin {"ended", "failed"} /\ stage' \notin {"ended", "failed"}
    BY <1>3 DEF Extract, Select, StartTool, EndTool, CollectTools, AggregateResults, Verify, RetryTools
  <2> QED BY <2>1 DEF Outcome
<1>4. CASE EndNoProgress \/ EndByStatus \/ EndAtLimit
  <2>1. stage = "decision" /\ stage' = "ended"
    BY <1>4 DEF EndNoProgress, EndByStatus, EndAtLimit, Ends
  <2> QED BY <1>1, <2>1, EndingFits DEF Contract!Next
<1>5. CASE UNCHANGED vars
  BY <1>5 DEF vars, Outcome
<1> QED BY <1>2, <1>3, <1>4, <1>5 DEF Next

THEOREM PipelineImplementsContract ==
  ASSUME PipelineAssumption PROVE Spec => ContractSpec
BY SpecInv, InitRefines, NextRefines, PTL DEF Spec, ContractSpec, Contract!Spec

-----------------------------------------------------------------------------
(* Every set of numbers has a least one.                                      *)
Smaller == {p \in Nat \X Nat: p[1] < p[2]}

LEMMA LeastNumber ==
  ASSUME NEW S \in SUBSET Nat, S # {} PROVE \E n \in S: \A m \in S: n <= m
<1>1. OpToRel(<, Nat) = Smaller
  BY Zenon DEF OpToRel, Smaller
<1>2. IsWellFoundedOn(Smaller, Nat)
  BY <1>1, NatLessThanWellFounded, Zenon
<1>3. PICK n \in S: \A m \in S: ~(<<m, n>> \in Smaller)
  BY <1>2, WFMin, Zenon
<1>4. \A m \in S: n \in Nat /\ m \in Nat /\ ~(m < n)
  BY <1>3 DEF Smaller
<1> QED BY <1>4

LEMMA PlacesAreFinite ==
  ASSUME NEW n \in Nat, NEW places \in SUBSET (1..n)
  PROVE  IsFiniteSet(places) /\ Cardinality(places) \in Nat /\ (places # {} => Cardinality(places) # 0)
<1>1. IsFiniteSet(1..n)
  BY FS_Interval
<1>2. IsFiniteSet(places)
  BY <1>1, FS_Subset
<1> QED BY <1>2, FS_CardinalityType, FS_EmptySet

(* Places can be put in order: p is a way to count them upwards.               *)
Upwards(p, places) ==
  /\ p \in [1..Cardinality(places) -> places]
  /\ \A i, j \in 1..Cardinality(places): i < j => p[i] < p[j]

LEMMA UpwardsExists ==
  \A n \in Nat: \A places \in SUBSET (1..n): \E p: Upwards(p, places)
<1> DEFINE Bad == {n \in Nat: \E places \in SUBSET (1..n): \A p: ~Upwards(p, places)}
<1> SUFFICES ASSUME Bad # {} PROVE FALSE
  OBVIOUS
<1>1. PICK n \in Bad: \A m \in Bad: n <= m
  BY LeastNumber
<1>2. PICK places \in SUBSET (1..n): \A p: ~Upwards(p, places)
  BY <1>1
<1>3. n \in Nat /\ IsFiniteSet(places) /\ Cardinality(places) \in Nat
  BY <1>1, PlacesAreFinite
<1>4. n # 0
  <2> SUFFICES ASSUME n = 0 PROVE FALSE
    OBVIOUS
  <2>3. 1..n = {}
    BY <1>3
  <2>1. places = {} /\ Cardinality(places) = 0
    BY <2>3, FS_EmptySet
  <2>2. 1..Cardinality(places) = {} /\ 1..0 = {}
    BY <2>1
  <2>4. [i \in 1..0 |-> i] \in [1..0 -> places]
    BY <2>2
  <2>5. Upwards([i \in 1..0 |-> i], places)
    BY <2>1, <2>2, <2>4 DEF Upwards
  <2> QED BY <1>2, <2>5
<1> DEFINE rest == places \ {n}
<1>5. n - 1 \in Nat /\ n - 1 \notin Bad /\ rest \in SUBSET (1..(n - 1))
  BY <1>1, <1>3, <1>4
<1>6. PICK p: Upwards(p, rest)
  BY <1>5
<1>7. n \in places
  <2> SUFFICES ASSUME n \notin places PROVE FALSE
    OBVIOUS
  <2>1. rest = places
    OBVIOUS
  <2> QED BY <1>2, <1>6, <2>1
<1> DEFINE size == Cardinality(rest)
<1>8. Cardinality(places) = size + 1 /\ size \in Nat
  <2>1. Cardinality(rest) = Cardinality(places) - 1
    BY <1>3, <1>7, FS_RemoveElement
  <2>2. Cardinality(rest) \in Nat
    BY <1>5, PlacesAreFinite
  <2> QED BY <1>3, <2>1, <2>2
<1>9. p \in [1..size -> rest] /\ \A i, j \in 1..size: i < j => p[i] < p[j]
  BY <1>6 DEF Upwards
<1> HIDE DEF size
<1> DEFINE longer == [i \in 1..(size + 1) |-> IF i = size + 1 THEN n ELSE p[i]]
<1>10. \A i \in 1..(size + 1): i # size + 1 => i \in 1..size /\ p[i] \in rest
  BY <1>8, <1>9
<1>11. longer \in [1..(size + 1) -> places]
  BY <1>7, <1>10
<1>12. \A i, j \in 1..(size + 1): i < j => longer[i] < longer[j]
  <2> SUFFICES ASSUME NEW i \in 1..(size + 1), NEW j \in 1..(size + 1), i < j PROVE longer[i] < longer[j]
    OBVIOUS
  <2>1. i # size + 1 /\ i \in 1..size /\ longer[i] = p[i]
    BY <1>8
  <2>4. p[i] \in 1..(n - 1)
    BY <1>5, <1>9, <2>1
  <2>2. CASE j = size + 1
    BY <2>1, <2>2, <2>4, <1>3
  <2>3. CASE j # size + 1
    BY <2>1, <2>3, <1>9, <1>10
  <2> QED BY <2>2, <2>3
<1>13. Upwards(longer, places)
  BY <1>8, <1>11, <1>12 DEF Upwards
<1> QED BY <1>2, <1>13

LEMMA InOrderFits ==
  ASSUME NEW n \in Nat, NEW places \in SUBSET (1..n)
  PROVE  LET p == InOrder(places)
             size == Cardinality(places)
         IN /\ size \in Nat
            /\ p \in [1..size -> places]
            /\ \A i, j \in 1..size: i < j => p[i] < p[j]
            /\ \A i, j \in 1..size: p[i] = p[j] => i = j
            /\ \A x \in places: \E i \in 1..size: p[i] = x
<1> DEFINE p == InOrder(places)
           size == Cardinality(places)
<1>1. IsFiniteSet(places) /\ size \in Nat
  BY PlacesAreFinite
<1>2. \E q \in [1..size -> places]: \A i, j \in 1..size: i < j => q[i] < q[j]
  BY UpwardsExists DEF Upwards
<1>3. p \in [1..size -> places] /\ \A i, j \in 1..size: i < j => p[i] < p[j]
  BY <1>2 DEF InOrder
<1> HIDE DEF p, size
<1>4. \A i, j \in 1..size: p[i] = p[j] => i = j
  <2> SUFFICES ASSUME NEW i \in 1..size, NEW j \in 1..size, p[i] = p[j], i # j PROVE FALSE
    OBVIOUS
  <2>1. i \in Nat /\ j \in Nat
    BY <1>1
  <2>2. p[i] \in 1..n /\ p[j] \in 1..n
    BY <1>3
  <2>3. i < j \/ j < i
    BY <2>1
  <2> QED BY <1>3, <2>2, <2>3
<1>5. IsFiniteSet(1..size) /\ Cardinality(1..size) = size
  BY <1>1, FS_Interval
<1>6. p \in Injection(1..size, places)
  BY <1>3, <1>4 DEF Injection, IsInjective
<1>7. p \in Surjection(1..size, places)
  BY <1>1, <1>5, <1>6, FS_Injection DEF size
<1>8. \A x \in places: \E i \in 1..size: p[i] = x
  BY <1>7 DEF Surjection
<1> QED BY <1>1, <1>3, <1>4, <1>8 DEF p, size

(* What stands at some places of a sequence.                                  *)
LEMMA AtFits ==
  ASSUME NEW n \in Nat, NEW s, NEW places \in SUBSET (1..n)
  PROVE  LET w == At(s, places)
             p == InOrder(places)
         IN /\ Len(w) = Cardinality(places) /\ Len(w) \in Nat /\ DOMAIN w = 1..Len(w) /\ (w = <<>> <=> places = {})
            /\ \A k \in 1..Len(w): w[k] = s[p[k]] /\ p[k] \in places
            /\ \A k, l \in 1..Len(w): k < l => p[k] < p[l]
            /\ \A i \in places: \E k \in 1..Len(w): p[k] = i
<1> DEFINE p == InOrder(places)
           size == Cardinality(places)
           w == At(s, places)
<1>1. /\ size \in Nat /\ p \in [1..size -> places]
      /\ \A i, j \in 1..size: i < j => p[i] < p[j]
      /\ \A x \in places: \E i \in 1..size: p[i] = x
  BY InOrderFits
<1>2. w = [k \in 1..size |-> s[p[k]]]
  BY DEF At
<1> HIDE DEF w, p, size
<1>3. w \in [1..size -> {s[p[k]] : k \in 1..size}]
  BY <1>2
<1>4. Len(w) = size /\ DOMAIN w = 1..size
  BY <1>1, <1>3
<1>5. (w = <<>> <=> places = {})
  <2>1. w = <<>> => size = 0
    BY <1>4
  <2>2. size = 0 => w = <<>>
    BY <1>2
  <2>3. size = 0 <=> places = {}
    BY PlacesAreFinite, FS_EmptySet DEF size
  <2> QED BY <2>1, <2>2, <2>3
<1>6. \A k \in 1..size: w[k] = s[p[k]] /\ p[k] \in places
  BY <1>1, <1>2
<1> QED BY <1>1, <1>4, <1>5, <1>6 DEF w, p, size

Picks(w, s, places) ==
  /\ Len(w) \in Nat /\ DOMAIN w = 1..Len(w)
  /\ \A k \in 1..Len(w): \E i \in places: w[k] = s[i]
  /\ \A i \in places: \E k \in 1..Len(w): w[k] = s[i]
  /\ \A k, l \in 1..Len(w): k < l => \E i, j \in places: i < j /\ w[k] = s[i] /\ w[l] = s[j]

LEMMA AtIs ==
  ASSUME NEW n \in Nat, NEW s, NEW places \in SUBSET (1..n)
  PROVE  Picks(At(s, places), s, places)
<1> DEFINE p == InOrder(places)
           w == At(s, places)
<1>1. /\ Len(w) = Cardinality(places) /\ Len(w) \in Nat /\ DOMAIN w = 1..Len(w) /\ (w = <<>> <=> places = {})
      /\ \A k \in 1..Len(w): w[k] = s[p[k]] /\ p[k] \in places
      /\ \A k, l \in 1..Len(w): k < l => p[k] < p[l]
      /\ \A i \in places: \E k \in 1..Len(w): p[k] = i
  BY AtFits
<1> HIDE DEF w, p
<1>2. \A k \in 1..Len(w): \E i \in places: w[k] = s[i]
  BY <1>1
<1>3. ASSUME NEW i \in places PROVE \E k \in 1..Len(w): w[k] = s[i]
  BY <1>1
<1>4. ASSUME NEW k \in 1..Len(w), NEW l \in 1..Len(w), k < l
      PROVE  \E i, j \in places: i < j /\ w[k] = s[i] /\ w[l] = s[j]
  BY <1>1, <1>4
<1>5. Picks(w, s, places)
  BY <1>1, <1>2, <1>3, <1>4 DEF Picks
<1> QED BY <1>5 DEF w

LastOf(places, m) == m \in places /\ \A i \in places: i <= m

(* The last one stands at the last of the places.                              *)
LEMMA LastPlace ==
  ASSUME NEW n \in Nat, NEW s, NEW places \in SUBSET (1..n), NEW m, LastOf(places, m)
  PROVE  InOrder(places)[Len(At(s, places))] = m
<1> DEFINE p == InOrder(places)
           w == At(s, places)
           size == Len(w)
<1>1. /\ size \in Nat
      /\ \A k \in 1..size: p[k] \in places
      /\ \A k, l \in 1..size: k < l => p[k] < p[l]
      /\ \A i \in places: \E k \in 1..size: p[k] = i
  BY AtFits
<1>5. m \in places /\ (\A i \in places: i <= m) /\ (\A x \in places: x \in Nat)
  BY DEF LastOf
<1> HIDE DEF size, p
<1>2. PICK a \in 1..size: p[a] = m
  BY <1>1, <1>5
<1>3. a = size
  <2> SUFFICES ASSUME a # size PROVE FALSE
    OBVIOUS
  <2>1. size \in 1..size /\ a < size
    BY <1>1
  <2>2. p[a] < p[size] /\ p[size] \in places
    BY <1>1, <2>1
  <2>3. m < p[size] /\ p[size] <= m /\ p[size] \in Nat /\ m \in Nat
    BY <1>2, <1>5, <2>2
  <2> QED BY <2>3
<1> QED BY <1>2, <1>3 DEF p, size

LEMMA LastAt ==
  ASSUME NEW n \in Nat, NEW s, NEW places \in SUBSET (1..n), NEW m, LastOf(places, m)
  PROVE  At(s, places) # <<>> /\ Last(At(s, places)) = s[m]
<1> DEFINE p == InOrder(places)
           w == At(s, places)
           size == Len(w)
<1>1. /\ size \in Nat
      /\ \A k \in 1..size: w[k] = s[p[k]] /\ p[k] \in places
  BY AtFits
<1>8. w = <<>> <=> places = {}
  BY AtFits
<1>2. p[size] = m
  BY LastPlace
<1>3. \E k \in 1..size: TRUE
  <2>1. m \in places
    BY DEF LastOf
  <2>2. \A i \in places: \E k \in 1..size: p[k] = i
    BY AtFits
  <2> QED BY <2>1, <2>2
<1>4. w # <<>>
  BY <1>8 DEF LastOf
<1> HIDE DEF size, p
<1>5. size \in 1..size
  BY <1>1, <1>3
<1>6. w[size] = s[m]
  BY <1>1, <1>2, <1>5
<1> HIDE DEF w
<1>7. Last(w) = w[size]
  BY DEF Last, size
<1> QED BY <1>4, <1>6, <1>7 DEF w

NextToLast(w, e) == Len(w) >= 2 /\ w[Len(w) - 1] = e

(* The one before it stands at the last of the others.                         *)
LEMMA NextToLastAt ==
  ASSUME NEW n \in Nat, NEW s, NEW places \in SUBSET (1..n), NEW m, LastOf(places, m),
         NEW k, LastOf(places \ {m}, k)
  PROVE  NextToLast(At(s, places), s[k])
<1> DEFINE p == InOrder(places)
           w == At(s, places)
           size == Len(w)
<1>1. /\ size \in Nat
      /\ \A l \in 1..size: w[l] = s[p[l]] /\ p[l] \in places
      /\ \A j, l \in 1..size: j < l => p[j] < p[l]
      /\ \A i \in places: \E l \in 1..size: p[l] = i
  BY AtFits
<1>2. p[size] = m
  BY LastPlace
<1>3. k \in places /\ k # m /\ (\A i \in places: i # m => i <= k) /\ (\A x \in places: x \in Nat) /\ m \in places
  BY DEF LastOf
<1> HIDE DEF size, p, w
<1>4. PICK b \in 1..size: p[b] = k
  BY <1>1, <1>3
<1>5. b # size
  BY <1>2, <1>3, <1>4
<1>6. b = size - 1
  <2> SUFFICES ASSUME b # size - 1 PROVE FALSE
    OBVIOUS
  <2>1. size - 1 \in 1..size /\ b < size - 1 /\ size \in 1..size /\ size - 1 < size
    BY <1>1, <1>5
  <2> DEFINE c == size - 1
  <2>2. p[b] < p[c] /\ p[c] \in places /\ p[c] < p[size]
    BY <1>1, <2>1
  <2> HIDE DEF c
  <2>5. p[c] \in Nat /\ m \in Nat /\ p[c] < m
    BY <1>2, <1>3, <2>2
  <2>3. p[c] \in Nat /\ p[c] # m
    BY <2>5
  <2>4. p[c] <= k /\ k < p[c] /\ k \in Nat
    BY <1>3, <1>4, <2>2, <2>3
  <2> QED BY <2>3, <2>4
<1>7. size >= 2 /\ w[size - 1] = s[k]
  BY <1>1, <1>4, <1>5, <1>6
<1> QED BY <1>7 DEF w, size, NextToLast

LEMMA LastIsThere ==
  ASSUME NEW n \in Nat, NEW s, NEW places \in SUBSET (1..n), places # {}
  PROVE  \E m: LastOf(places, m) /\ At(s, places) # <<>> /\ Last(At(s, places)) = s[m]
<1> DEFINE p == InOrder(places)
           w == At(s, places)
           size == Len(w)
<1>1. /\ size \in Nat
      /\ \A k \in 1..size: p[k] \in places
      /\ \A k, l \in 1..size: k < l => p[k] < p[l]
      /\ \A i \in places: \E k \in 1..size: p[k] = i
  BY AtFits
<1> HIDE DEF size, p
<1>2. size \in 1..size
  <2>1. PICK i: i \in places
    OBVIOUS
  <2> QED BY <1>1, <2>1
<1> DEFINE m == p[size]
<1>4. m \in places /\ \A x \in places: x \in Nat
  BY <1>1, <1>2
<1>3. ASSUME NEW i \in places PROVE i <= m
  <2>1. PICK k \in 1..size: p[k] = i
    BY <1>1
  <2>2. p[size] \in Nat /\ i \in Nat
    BY <1>4
  <2>3. CASE k = size
    BY <2>1, <2>2, <2>3
  <2>4. CASE k # size
    <3>1. k < size
      BY <1>1, <2>4
    <3>2. i < m
      BY <1>1, <1>2, <2>1, <3>1
    <3> QED BY <2>2, <3>2
  <2> QED BY <2>3, <2>4
<1>5. LastOf(places, m)
  BY <1>3, <1>4 DEF LastOf
<1> HIDE DEF m
<1>6. At(s, places) # <<>> /\ Last(At(s, places)) = s[m]
  BY <1>5, LastAt
<1> QED BY <1>5, <1>6

-----------------------------------------------------------------------------
IsSequence(s) == s \in Seq(ToSet(s))

LEMMA SequenceIs ==
  ASSUME NEW s, IsSequence(s) PROVE Len(s) \in Nat /\ DOMAIN s = 1..Len(s) /\ \A i \in 1..Len(s): s[i] \in ToSet(s)
BY DEF IsSequence, ToSet

LEMMA FunctionIsSequence ==
  ASSUME NEW n \in Nat, NEW f, f = [i \in 1..n |-> f[i]] PROVE IsSequence(f) /\ Len(f) = n
<1>1. f \in [1..n -> ToSet(f)]
  BY DEF ToSet
<1> QED BY <1>1 DEF IsSequence

LEMMA AppendIs ==
  ASSUME NEW s, IsSequence(s), NEW e
  PROVE  LET w == Append(s, e)
         IN /\ IsSequence(w) /\ Len(w) = Len(s) + 1 /\ w[Len(s) + 1] = e
            /\ \A i \in 1..Len(s): w[i] = s[i]
<1> DEFINE S == ToSet(s) \cup {e}
           w == Append(s, e)
<1>1. s \in Seq(S) /\ Len(s) \in Nat
  BY SequenceIs DEF IsSequence
<1>2. /\ w \in Seq(S) /\ Len(w) = Len(s) + 1 /\ w[Len(s) + 1] = e
      /\ \A i \in 1..Len(s): w[i] = s[i]
  BY <1>1
<1> HIDE DEF w
<1>3. Len(w) \in Nat /\ w \in [1..Len(w) -> S]
  BY <1>1, <1>2
<1>4. IsSequence(w)
  BY <1>3, FunctionIsSequence
<1> QED BY <1>2, <1>4 DEF w

Joins(w, s, t) ==
  /\ IsSequence(w) /\ Len(w) = Len(s) + Len(t)
  /\ \A i \in 1..Len(s): w[i] = s[i]
  /\ \A i \in 1..Len(t): w[Len(s) + i] = t[i]
  /\ \A k \in 1..Len(w): k \in 1..Len(s) \/ \E i \in 1..Len(t): k = Len(s) + i

LEMMA ConcatIs ==
  ASSUME NEW s, IsSequence(s), NEW t, IsSequence(t) PROVE Joins(s \o t, s, t)
<1> DEFINE S == ToSet(s) \cup ToSet(t)
           w == s \o t
<1>1. s \in Seq(S) /\ t \in Seq(S) /\ Len(s) \in Nat /\ Len(t) \in Nat
  BY SequenceIs DEF IsSequence
<1>2. /\ w \in Seq(S) /\ Len(w) = Len(s) + Len(t)
      /\ \A i \in 1..(Len(s) + Len(t)): w[i] = IF i <= Len(s) THEN s[i] ELSE t[i - Len(s)]
  BY <1>1
<1> HIDE DEF w
<1>3. Len(w) \in Nat /\ w \in [1..Len(w) -> S]
  BY <1>1, <1>2
<1>4. IsSequence(w)
  BY <1>3, FunctionIsSequence
<1>5. \A i \in 1..Len(s): w[i] = s[i]
  BY <1>1, <1>2
<1>6. ASSUME NEW i \in 1..Len(t) PROVE w[Len(s) + i] = t[i]
  <2>1. Len(s) + i \in 1..(Len(s) + Len(t)) /\ ~(Len(s) + i <= Len(s)) /\ (Len(s) + i) - Len(s) = i
    BY <1>1
  <2> QED BY <1>2, <2>1
<1>7. ASSUME NEW k \in 1..Len(w), k \notin 1..Len(s) PROVE \E i \in 1..Len(t): k = Len(s) + i
  <2>1. k - Len(s) \in 1..Len(t) /\ k = Len(s) + (k - Len(s))
    BY <1>1, <1>2, <1>7
  <2> QED BY <2>1
<1>8. Joins(w, s, t)
  BY <1>2, <1>4, <1>5, <1>6, <1>7 DEF Joins
<1> QED BY <1>8 DEF w

-----------------------------------------------------------------------------
(* A result, the latest or that of an execution, is of one tool, and asks for   *)
(* what its findings ask for.                                                 *)
Fields == {"tool", "status", "selected", "round", "detail", "findings", "actions", "missing"}

ResultFits(r, n) ==
  /\ Fields \subseteq DOMAIN r
  /\ r.tool \in Tool /\ r.round \in 0..n
  /\ r.selected \in BOOLEAN /\ (r.selected <=> r.status # "skipped")
  /\ ~r.selected => r.findings = {} /\ r.detail = NoTool
  /\ r.detail \in {NoTool, r.tool}
  /\ \A f \in r.findings: f.tool = r.tool /\ f.claim.requires \subseteq r.actions

(* What a batch came to: each of its tools ran in this round, or was left out.  *)
BatchFits(gathered, batch, selected, n) ==
  /\ IsSequence(gathered) /\ DOMAIN gathered = DOMAIN batch
  /\ \A i \in DOMAIN batch:
       /\ ResultFits(gathered[i], n) /\ gathered[i].round = n /\ gathered[i].tool = batch[i]
       /\ gathered[i].selected <=> batch[i] \in selected

(* The threads end the places of the batch, each once.                         *)
EntryFits(e, p, n) ==
  /\ e.place \in 1..p.started
  /\ ResultFits(e.result, n) /\ e.result.round = n /\ e.result.tool = p.batch[e.place]
  /\ e.result.selected <=> p.batch[e.place] \in p.selected

PoolFits(p, n) ==
  /\ p = [batch |-> p.batch, selected |-> p.selected, started |-> p.started, ended |-> p.ended]
  /\ IsSequence(p.batch) /\ ToSet(p.batch) \subseteq Tool
  /\ p.started \in 0..Len(p.batch)
  /\ IsSequence(p.ended) /\ \A k \in DOMAIN p.ended: EntryFits(p.ended[k], p, n)
  /\ \A k, l \in DOMAIN p.ended: p.ended[k].place = p.ended[l].place => k = l

LEMMA ExecutedFits ==
  ASSUME ExecutorAssumption, NEW t \in Tool, NEW n \in Nat, NEW answer \in Answer[t]
  PROVE  LET r == Executed(t, n, answer) IN ResultFits(r, n) /\ r.round = n /\ r.tool = t /\ r.selected
<1> DEFINE r == Executed(t, n, answer)
           findings == {Finding(t, n, c) : c \in answer.claims}
<1>1. CASE answer = Raised
  <2>1. r = Result(t, "failed", n, TRUE, {}, {}, {})
    BY <1>1 DEF Executed, Failed
  <2> HIDE DEF r
  <2>2. Fields \subseteq DOMAIN r /\ r.tool = t /\ r.status = "failed" /\ r.round = n /\ r.findings = {} /\ r.selected
        /\ r.detail = NoTool
    BY <2>1 DEF Result, Fields
  <2> QED BY <2>2 DEF r, ResultFits
<1>2. CASE answer # Raised
  <2>1. r = Result(t, answer.status, n, FALSE, findings, Requirements(findings) \cup answer.actions, answer.missing)
    BY <1>2 DEF Executed
  <2>2. \A f \in findings: f.tool = t /\ f.claim.requires \subseteq Requirements(findings) \cup answer.actions
    BY DEF Finding, Requirements
  <2>3. answer.status # "skipped"
    BY DEF ExecutorAssumption
  <2> HIDE DEF findings, r
  <2>4. /\ Fields \subseteq DOMAIN r /\ r.tool = t /\ r.status = answer.status /\ r.round = n
        /\ r.findings = findings /\ r.actions = Requirements(findings) \cup answer.actions /\ r.selected
        /\ r.detail = t
    BY <2>1, <2>3 DEF Result, Fields
  <2> QED BY <2>2, <2>3, <2>4 DEF r, ResultFits
<1> QED BY <1>1, <1>2

LEMMA SkippedFits ==
  ASSUME NEW t \in Tool, NEW n \in Nat
  PROVE  LET r == Skipped(t, n) IN ResultFits(r, n) /\ r.round = n /\ r.tool = t /\ ~r.selected
<1> DEFINE r == Skipped(t, n)
<1>1. Fields \subseteq DOMAIN r /\ r.tool = t /\ r.status = "skipped" /\ r.round = n /\ r.findings = {}
      /\ r.detail = NoTool
  BY DEF Skipped, Result, Fields
<1>2. r.selected \in BOOLEAN /\ ~r.selected
  BY DEF Skipped, Result
<1> HIDE DEF r
<1>3. r.selected <=> r.status # "skipped"
  BY <1>1, <1>2
<1> QED BY <1>1, <1>2, <1>3 DEF r, ResultFits

(* All have ended: each place has its result, whichever thread was first.      *)
LEMMA GatheredFits ==
  ASSUME NEW m \in Nat, NEW p, PoolFits(p, m), AllEnded(p)
  PROVE  BatchFits(Gathered(p), p.batch, p.selected, m)
<1> DEFINE n == Len(p.batch)
           place == [k \in 1..n |-> p.ended[k].place]
           g == Gathered(p)
<1>1. /\ n \in Nat /\ DOMAIN p.batch = 1..n
      /\ Len(p.ended) = n /\ DOMAIN p.ended = 1..n
  BY SequenceIs DEF PoolFits, AllEnded
<1>2. /\ \A k \in 1..n: EntryFits(p.ended[k], p, m)
      /\ \A k, l \in 1..n: p.ended[k].place = p.ended[l].place => k = l
      /\ p.started \in 0..n
  BY <1>1 DEF PoolFits
<1>3. place \in Injection(1..n, 1..n)
  <2>1. \A k \in 1..n: p.ended[k].place \in 1..n
    BY <1>1, <1>2 DEF EntryFits
  <2> QED BY <1>1, <1>2, <2>1 DEF Injection, IsInjective
<1>4. place \in Surjection(1..n, 1..n)
  BY <1>1, <1>3, FS_Interval, FS_Injection
<1>5. ASSUME NEW i \in 1..n
      PROVE  /\ ResultFits(g[i], m) /\ g[i].round = m /\ g[i].tool = p.batch[i]
             /\ g[i].selected <=> p.batch[i] \in p.selected
  <2> DEFINE e == CHOOSE e \in ToSet(p.ended): e.place = i
  <2>1. PICK k \in 1..n: p.ended[k].place = i
    BY <1>4 DEF Surjection
  <2>2. p.ended[k] \in ToSet(p.ended)
    BY <1>1 DEF ToSet
  <2>3. e \in ToSet(p.ended) /\ e.place = i
    BY <2>1, <2>2
  <2>4. g[i] = e.result
    BY <1>1 DEF Gathered
  <2> HIDE DEF e
  <2>5. PICK l \in 1..n: e = p.ended[l]
    BY <1>1, <2>3 DEF ToSet
  <2> QED BY <1>2, <2>3, <2>4, <2>5 DEF EntryFits
<1>6. IsSequence(g) /\ DOMAIN g = DOMAIN p.batch
  <2>1. g = [i \in 1..n |-> g[i]]
    BY <1>1 DEF Gathered
  <2> HIDE DEF g
  <2> QED BY <1>1, <2>1, FunctionIsSequence
<1> QED BY <1>1, <1>5, <1>6 DEF BatchFits

-----------------------------------------------------------------------------
LEMMA ToolsAre ==
  ASSUME PipelineAssumption
  PROVE  /\ Len(ToolName) \in Nat /\ DOMAIN ToolName = 1..Len(ToolName) /\ Len(ToolName) # 0
         /\ \A i \in 1..Len(ToolName): ToolName[i] \in Tool
         /\ \A t \in Tool: \E i \in 1..Len(ToolName): ToolName[i] = t
         /\ \A i, j \in 1..Len(ToolName): ToolName[i] = ToolName[j] => i = j
<1>1. ToolName \in Seq(Tool) /\ IsInjective(ToolName) /\ ToolName # <<>>
  BY DEF PipelineAssumption, ExecutorAssumption, ToolAssumption
<1>2. Len(ToolName) \in Nat /\ DOMAIN ToolName = 1..Len(ToolName)
  BY <1>1
<1>3. Len(ToolName) # 0
  BY <1>1
<1>4. \A i, j \in 1..Len(ToolName): ToolName[i] = ToolName[j] => i = j
  BY <1>1, <1>2 DEF IsInjective
<1>5. \A t \in Tool: \E i \in 1..Len(ToolName): ToolName[i] = t
  BY <1>2 DEF Tool, ToSet
<1> QED BY <1>1, <1>2, <1>3, <1>4, <1>5

(* The tools of a retry, each once.                                           *)
LEMMA BatchIs ==
  ASSUME PipelineAssumption, NEW T \in SUBSET Tool
  PROVE  /\ IsSequence(InToolOrder(T))
         /\ Len(InToolOrder(T)) \in Nat /\ DOMAIN InToolOrder(T) = 1..Len(InToolOrder(T))
         /\ \A k \in 1..Len(InToolOrder(T)): InToolOrder(T)[k] \in T
         /\ \A t \in T: \E k \in 1..Len(InToolOrder(T)): InToolOrder(T)[k] = t
         /\ \A k, l \in 1..Len(InToolOrder(T)): InToolOrder(T)[k] = InToolOrder(T)[l] => k = l
<1> DEFINE places == {i \in DOMAIN ToolName: ToolName[i] \in T}
           b == At(ToolName, places)
<1>1. /\ Len(ToolName) \in Nat /\ DOMAIN ToolName = 1..Len(ToolName)
      /\ \A t \in Tool: \E i \in 1..Len(ToolName): ToolName[i] = t
      /\ \A i, j \in 1..Len(ToolName): ToolName[i] = ToolName[j] => i = j
  BY ToolsAre
<1>2. places \in SUBSET (1..Len(ToolName)) /\ \A i \in places: ToolName[i] \in T
  BY <1>1
<1>3. b = InToolOrder(T)
  BY DEF InToolOrder
<1>4. \A t \in T: \E i \in places: ToolName[i] = t
  BY <1>1
<1> HIDE DEF places
<1>5. /\ Len(b) \in Nat /\ DOMAIN b = 1..Len(b)
      /\ \A k \in 1..Len(b): \E i \in places: b[k] = ToolName[i]
      /\ \A i \in places: \E k \in 1..Len(b): b[k] = ToolName[i]
      /\ \A k, l \in 1..Len(b): k < l => \E i, j \in places: i < j /\ b[k] = ToolName[i] /\ b[l] = ToolName[j]
  <2>1. Picks(b, ToolName, places)
    BY <1>1, <1>2, AtIs
  <2> QED BY <2>1 DEF Picks
<1>6. b = [k \in 1..Len(b) |-> b[k]]
  BY <1>5 DEF At
<1> HIDE DEF b
<1>7. IsSequence(b)
  BY <1>5, <1>6, FunctionIsSequence
<1>8. ASSUME NEW k \in 1..Len(b), NEW l \in 1..Len(b), k < l PROVE b[k] # b[l]
  <2>1. PICK i \in places, j \in places: i < j /\ b[k] = ToolName[i] /\ b[l] = ToolName[j]
    BY <1>5, <1>8
  <2>2. i # j /\ i \in 1..Len(ToolName) /\ j \in 1..Len(ToolName)
    BY <1>2, <2>1
  <2> QED BY <1>1, <2>1, <2>2
<1>9. \A k, l \in 1..Len(b): b[k] = b[l] => k = l
  <2> SUFFICES ASSUME NEW k \in 1..Len(b), NEW l \in 1..Len(b), b[k] = b[l], k # l PROVE FALSE
    OBVIOUS
  <2>1. k < l \/ l < k
    OBVIOUS
  <2> QED BY <1>8, <2>1
<1>10. \A k \in 1..Len(b): b[k] \in T
  BY <1>2, <1>5
<1>11. ASSUME NEW t \in T PROVE \E k \in 1..Len(b): b[k] = t
  <2>1. PICK i \in places: ToolName[i] = t
    BY <1>4
  <2>2. PICK k \in 1..Len(b): b[k] = ToolName[i]
    BY <1>5
  <2> QED BY <2>1, <2>2
<1> QED BY <1>3, <1>5, <1>7, <1>9, <1>10, <1>11

-----------------------------------------------------------------------------
(* The executions of a tool, as places of the history.                        *)
RunsOf(s, t) == {i \in DOMAIN s.history: s.history[i].tool = t}

(* The latest result of a tool is its last execution, or what was kept when    *)
(* that one failed.                                                           *)
Shows(r, last) ==
  /\ r.round = last.round
  /\ r = last \/ (last.status = "failed" /\ r.status = "partial")

LatestFits(s, r) ==
  \/ RunsOf(s, r.tool) = {} /\ r.status = "skipped"
  \/ \E m: LastOf(RunsOf(s, r.tool), m) /\ Shows(r, s.history[m])

InRounds(h) ==
  \A i, j \in DOMAIN h:
    i < j => h[i].round < h[j].round \/ (h[i].round = h[j].round /\ h[i].tool # h[j].tool)

LatestOf(s, i, n) ==
  /\ ResultFits(s.results[i], n) /\ s.results[i].tool = ToolName[i]
  /\ s.results[i].selected <=> ToolName[i] \in s.selected
  /\ LatestFits(s, s.results[i])

HistoryFits(h, n) ==
  IsSequence(h) /\ InRounds(h) /\ \A k \in DOMAIN h: ResultFits(h[k], n)

StateFits(s, n) ==
  /\ s.selected \subseteq Tool
  /\ IsSequence(s.results) /\ Len(s.results) = Len(ToolName)
  /\ \A i \in 1..Len(ToolName): LatestOf(s, i, n)
  /\ HistoryFits(s.history, n)

(* The first round.                                                           *)
LEMMA RanFits ==
  ASSUME PipelineAssumption, NEW S \in SUBSET Tool, NEW g, BatchFits(g, ToolName, S, 0)
  PROVE  /\ HistoryFits(Ran(g), 0)
         /\ \A k \in 1..Len(Ran(g)): \E i \in 1..Len(ToolName): Ran(g)[k] = g[i] /\ g[i].status # "skipped"
         /\ \A i \in 1..Len(ToolName): g[i].status # "skipped" => \E k \in 1..Len(Ran(g)): Ran(g)[k] = g[i]
         /\ \A k, l \in 1..Len(Ran(g)): Ran(g)[k].tool = Ran(g)[l].tool => k = l
<1> DEFINE places == {i \in DOMAIN g: g[i].status # "skipped"}
           n == Len(ToolName)
           h == At(g, places)
<1>1. /\ n \in Nat /\ DOMAIN ToolName = 1..n
      /\ \A i, j \in 1..n: ToolName[i] = ToolName[j] => i = j
  BY ToolsAre
<1>2. DOMAIN g = 1..n /\ \A i \in 1..n: ResultFits(g[i], 0) /\ g[i].round = 0 /\ g[i].tool = ToolName[i]
  BY <1>1 DEF BatchFits
<1>3. h = Ran(g)
  BY DEF Ran
<1>4. places \in SUBSET (1..n) /\ \A i \in 1..n: i \in places <=> g[i].status # "skipped"
  BY <1>2
<1> HIDE DEF places, n
<1>5. /\ Len(h) \in Nat /\ DOMAIN h = 1..Len(h)
      /\ \A k \in 1..Len(h): \E i \in places: h[k] = g[i]
      /\ \A i \in places: \E k \in 1..Len(h): h[k] = g[i]
      /\ \A k, l \in 1..Len(h): k < l => \E i, j \in places: i < j /\ h[k] = g[i] /\ h[l] = g[j]
  <2>1. Picks(h, g, places)
    BY <1>1, <1>4, AtIs
  <2> QED BY <2>1 DEF Picks
<1>6. h = [k \in 1..Len(h) |-> h[k]]
  BY <1>5 DEF At
<1> HIDE DEF h
<1>7. IsSequence(h)
  BY <1>5, <1>6, FunctionIsSequence
<1>8. ASSUME NEW k \in 1..Len(h), NEW l \in 1..Len(h), k < l
      PROVE  h[k].tool # h[l].tool /\ h[k].round = h[l].round
  <2>1. PICK i \in places, j \in places: i < j /\ h[k] = g[i] /\ h[l] = g[j]
    BY <1>5, <1>8
  <2>2. i # j /\ i \in 1..n /\ j \in 1..n
    BY <1>1, <1>4, <2>1
  <2> QED BY <1>1, <1>2, <2>1, <2>2
<1>9. \A k, l \in 1..Len(h): h[k].tool = h[l].tool => k = l
  <2> SUFFICES ASSUME NEW k \in 1..Len(h), NEW l \in 1..Len(h), h[k].tool = h[l].tool, k # l PROVE FALSE
    OBVIOUS
  <2>1. k < l \/ l < k
    OBVIOUS
  <2> QED BY <1>8, <2>1
<1>10. HistoryFits(h, 0)
  <2>1. InRounds(h)
    BY <1>5, <1>8 DEF InRounds
  <2>2. ASSUME NEW k \in 1..Len(h) PROVE ResultFits(h[k], 0)
    <3>1. PICK i \in places: h[k] = g[i]
      BY <1>5
    <3> QED BY <1>2, <1>4, <3>1
  <2> QED BY <1>5, <1>7, <2>1, <2>2 DEF HistoryFits
<1>11. ASSUME NEW k \in 1..Len(h) PROVE \E i \in 1..n: h[k] = g[i] /\ g[i].status # "skipped"
  <2>1. PICK i \in places: h[k] = g[i]
    BY <1>5
  <2>2. i \in 1..n /\ g[i].status # "skipped"
    BY <1>4, <2>1
  <2> QED BY <2>1, <2>2
<1>12. \A i \in 1..n: g[i].status # "skipped" => \E k \in 1..Len(h): h[k] = g[i]
  BY <1>4, <1>5
<1> QED BY <1>3, <1>9, <1>10, <1>11, <1>12 DEF n

LEMMA InitialFits ==
  ASSUME PipelineAssumption, NEW S \in SUBSET Tool, NEW g, BatchFits(g, ToolName, S, 0)
  PROVE  StateFits(Initial(S, g), 0)
<1> DEFINE s == Initial(S, g)
           n == Len(ToolName)
           h == Ran(g)
<1>1. s.selected = S /\ s.results = g /\ s.history = h
  BY DEF Initial
<1>2. /\ n \in Nat /\ DOMAIN ToolName = 1..n
      /\ \A i, j \in 1..n: ToolName[i] = ToolName[j] => i = j
  BY ToolsAre
<1>3. /\ IsSequence(g) /\ DOMAIN g = 1..n
      /\ \A i \in 1..n: ResultFits(g[i], 0) /\ g[i].tool = ToolName[i] /\ (g[i].selected <=> ToolName[i] \in S)
  BY <1>2 DEF BatchFits
<1>4. Len(g) = n
  BY <1>2, <1>3, SequenceIs
<1>5. HistoryFits(h, 0)
  BY RanFits
<1>6. /\ \A k \in 1..Len(h): \E i \in 1..n: h[k] = g[i] /\ g[i].status # "skipped"
      /\ \A i \in 1..n: g[i].status # "skipped" => \E k \in 1..Len(h): h[k] = g[i]
      /\ \A k, l \in 1..Len(h): h[k].tool = h[l].tool => k = l
  BY RanFits
<1>7. Len(h) \in Nat /\ DOMAIN h = 1..Len(h)
  BY <1>5, SequenceIs DEF HistoryFits
<1> HIDE DEF s, n, h
<1>8. ASSUME NEW i \in 1..n PROVE LatestFits(s, g[i])
  <2>1. CASE g[i].status = "skipped"
    <3>1. ASSUME NEW k \in 1..Len(h), h[k].tool = g[i].tool PROVE FALSE
      <4>1. PICK j \in 1..n: h[k] = g[j] /\ g[j].status # "skipped"
        BY <1>6
      <4>2. j = i
        BY <1>2, <1>3, <3>1, <4>1
      <4> QED BY <2>1, <4>1, <4>2
    <3>2. RunsOf(s, g[i].tool) = {}
      BY <1>1, <1>7, <3>1 DEF RunsOf
    <3> QED BY <2>1, <3>2 DEF LatestFits
  <2>2. CASE g[i].status # "skipped"
    <3>1. PICK k \in 1..Len(h): h[k] = g[i]
      BY <1>6, <2>2
    <3>2. RunsOf(s, g[i].tool) = {k}
      BY <1>1, <1>6, <1>7, <3>1 DEF RunsOf
    <3>3. k \in Nat
      BY <1>7
    <3>4. LastOf(RunsOf(s, g[i].tool), k)
      BY <3>2, <3>3 DEF LastOf
    <3>5. Shows(g[i], s.history[k])
      BY <1>1, <3>1 DEF Shows
    <3> QED BY <3>4, <3>5 DEF LatestFits
  <2> QED BY <2>1, <2>2
<1>9. \A i \in 1..n: LatestOf(s, i, 0)
  BY <1>1, <1>3, <1>8 DEF LatestOf
<1> QED BY <1>1, <1>3, <1>4, <1>5, <1>9 DEF StateFits, n, s

-----------------------------------------------------------------------------
(* What a retry makes of the latest result of its tool.                        *)
Changed(r, detail, findings, actions, missing) ==
  [r EXCEPT !.status = "partial", !.detail = detail, !.findings = findings, !.actions = actions,
            !.missing = missing]

IsChanged(q, r, k, f, a) ==
  /\ Fields \subseteq DOMAIN q
  /\ q.status = "partial" /\ q.detail = k /\ q.findings = f /\ q.actions = a
  /\ q.tool = r.tool /\ q.round = r.round /\ q.selected = r.selected

LEMMA ChangedIs ==
  ASSUME NEW r, Fields \subseteq DOMAIN r, NEW k, NEW f, NEW a, NEW m
  PROVE  IsChanged(Changed(r, k, f, a, m), r, k, f, a)
BY DEF Changed, Fields, IsChanged

LEMMA RetainedFits ==
  ASSUME NEW n \in Nat, NEW p, ResultFits(p, n), NEW r, ResultFits(r, n + 1), NEW v,
         p.tool = r.tool, r.selected
  PROVE  /\ ResultFits(Retained(p, r, v), n + 1)
         /\ Retained(p, r, v).tool = r.tool /\ Retained(p, r, v).selected
         /\ Shows(Retained(p, r, v), r)
         /\ r.status = "failed" =>
              \A f \in p.findings:
                \/ f \in Challenged(v)
                \/ f \in Retained(p, r, v).findings /\ f.claim.requires \subseteq Retained(p, r, v).actions
<1> DEFINE kept == p.findings \ Challenged(v)
           gone == Requirements(p.findings \ kept) \ Requirements(kept)
           actions == p.actions \ gone
           q == Retained(p, r, v)
<1>1. CASE r.status # "failed" \/ kept = {}
  <2>1. q = r
    BY <1>1 DEF Retained
  <2>2. r.status = "failed" => \A f \in p.findings: f \in Challenged(v)
    BY <1>1
  <2> QED BY <2>1, <2>2 DEF Shows
<1>2. CASE r.status = "failed" /\ kept # {}
  <2>1. q = Changed(r, p.detail, kept, actions, p.missing)
    BY <1>2 DEF Retained, Changed
  <2>2. Fields \subseteq DOMAIN r /\ r.tool \in Tool /\ r.round \in 0..(n + 1)
    BY DEF ResultFits
  <2>3. \A f \in kept: f.tool = p.tool /\ f.claim.requires \subseteq actions
    BY DEF ResultFits, Requirements
  <2>4. \A f \in p.findings: f \in Challenged(v) \/ f \in kept
    OBVIOUS
  <2> HIDE DEF kept, actions, q
  <2>5. IsChanged(q, r, p.detail, kept, actions) /\ p.detail \in {NoTool, r.tool}
    BY <2>1, <2>2, ChangedIs DEF ResultFits
  <2>6. q.selected \in BOOLEAN /\ q.selected
    BY <2>5 DEF ResultFits, IsChanged
  <2>7. q.selected <=> q.status # "skipped"
    BY <2>5, <2>6 DEF IsChanged
  <2>8. ResultFits(q, n + 1)
    BY <2>2, <2>3, <2>5, <2>6, <2>7 DEF ResultFits, IsChanged
  <2>9. Shows(q, r)
    BY <1>2, <2>5 DEF Shows, IsChanged
  <2> QED BY <2>3, <2>4, <2>5, <2>6, <2>8, <2>9 DEF q, IsChanged
<1> QED BY <1>1, <1>2

-----------------------------------------------------------------------------
(* The history goes on with the executions of the retry.                       *)
LEMMA HistoryGrows ==
  ASSUME NEW n \in Nat, NEW h, HistoryFits(h, n), NEW g, IsSequence(g),
         \A k \in 1..Len(g): ResultFits(g[k], n + 1) /\ g[k].round = n + 1,
         \A k, l \in 1..Len(g): g[k].tool = g[l].tool => k = l
  PROVE  HistoryFits(h \o g, n + 1)
<1> DEFINE w == h \o g
           a == Len(h)
<1>1. /\ IsSequence(w) /\ Len(w) = a + Len(g)
      /\ \A i \in 1..a: w[i] = h[i]
      /\ \A i \in 1..Len(g): w[a + i] = g[i]
      /\ \A k \in 1..Len(w): k \in 1..a \/ \E i \in 1..Len(g): k = a + i
  BY ConcatIs DEF HistoryFits, Joins
<1>2. a \in Nat /\ DOMAIN h = 1..a /\ Len(g) \in Nat /\ DOMAIN g = 1..Len(g) /\ DOMAIN w = 1..Len(w)
  BY <1>1, SequenceIs DEF HistoryFits
<1>3. \A k \in 1..a: ResultFits(h[k], n)
  BY <1>2 DEF HistoryFits
<1> HIDE DEF w, a
<1>4. ASSUME NEW k \in 1..a PROVE ResultFits(h[k], n + 1) /\ h[k].round < n + 1
  <2>1. h[k].round \in 0..n
    BY <1>3 DEF ResultFits
  <2>2. h[k].round \in 0..(n + 1) /\ h[k].round < n + 1
    BY <2>1
  <2> QED BY <1>3, <2>2 DEF ResultFits
<1>5. ASSUME NEW k \in DOMAIN w PROVE ResultFits(w[k], n + 1)
  BY <1>1, <1>2, <1>4
<1>6. ASSUME NEW i \in DOMAIN w, NEW j \in DOMAIN w, i < j
      PROVE  w[i].round < w[j].round \/ (w[i].round = w[j].round /\ w[i].tool # w[j].tool)
  <2>1. CASE j \in 1..a
    <3>1. i \in 1..a
      BY <1>2, <1>6, <2>1
    <3> QED BY <1>1, <1>2, <1>6, <2>1, <3>1 DEF HistoryFits, InRounds
  <2>2. CASE i \in 1..a /\ j \notin 1..a
    <3>1. PICK l \in 1..Len(g): j = a + l
      BY <1>1, <1>2, <2>2
    <3> QED BY <1>1, <1>4, <2>2, <3>1
  <2>3. CASE i \notin 1..a /\ j \notin 1..a
    <3>1. PICK k \in 1..Len(g), l \in 1..Len(g): i = a + k /\ j = a + l
      BY <1>1, <1>2, <2>3
    <3>2. k # l
      BY <1>1, <1>2, <1>6, <3>1
    <3> QED BY <1>1, <3>1, <3>2
  <2> QED BY <2>1, <2>2, <2>3
<1>7. InRounds(w)
  BY <1>6 DEF InRounds
<1> QED BY <1>1, <1>5, <1>7 DEF HistoryFits, w

(* A retry: its state s, the request and what the batch came to.               *)
Retries(s, request, g, n) ==
  /\ n \in Nat /\ StateFits(s, n) /\ request.tools \subseteq Tool
  /\ BatchFits(g, RetryBatch(request), request.tools, n + 1)

LEMMA RetriesAre ==
  ASSUME PipelineAssumption, NEW s, NEW request, NEW g, NEW n, Retries(s, request, g, n)
  PROVE  /\ IsSequence(g) /\ Len(g) \in Nat /\ DOMAIN g = 1..Len(g) /\ DOMAIN RetryBatch(request) = 1..Len(g)
         /\ \A k \in 1..Len(g): /\ ResultFits(g[k], n + 1) /\ g[k].round = n + 1 /\ g[k].selected
                                /\ g[k].tool = RetryBatch(request)[k] /\ g[k].tool \in request.tools
         /\ \A k, l \in 1..Len(g): g[k].tool = g[l].tool => k = l
         /\ \A t \in request.tools: \E k \in 1..Len(g): g[k].tool = t
<1> DEFINE b == InToolOrder(request.tools)
<1>1. /\ IsSequence(b) /\ Len(b) \in Nat /\ DOMAIN b = 1..Len(b)
      /\ \A k \in 1..Len(b): b[k] \in request.tools
      /\ \A t \in request.tools: \E k \in 1..Len(b): b[k] = t
      /\ \A k, l \in 1..Len(b): b[k] = b[l] => k = l
  BY BatchIs DEF Retries
<1>2. b = RetryBatch(request)
  BY DEF RetryBatch
<1> HIDE DEF b
<1>3. /\ IsSequence(g) /\ DOMAIN g = DOMAIN b
      /\ \A i \in DOMAIN b: /\ ResultFits(g[i], n + 1) /\ g[i].round = n + 1 /\ g[i].tool = b[i]
                            /\ g[i].selected <=> b[i] \in request.tools
  BY <1>2 DEF Retries, BatchFits
<1>4. Len(g) \in Nat /\ DOMAIN g = 1..Len(g)
  BY <1>3, SequenceIs
<1>5. Len(g) = Len(b)
  BY <1>1, <1>3, <1>4
<1> QED BY <1>1, <1>2, <1>3, <1>4, <1>5

(* What becomes of the places of the history, and of the latest results.       *)
LEMMA RetriedIs ==
  ASSUME PipelineAssumption, NEW s, NEW request, NEW g, NEW n, Retries(s, request, g, n)
  PROVE  LET w == Retried(s, request, g)
         IN /\ w.selected = s.selected \cup request.tools
            /\ w.history = s.history \o g
            /\ IsSequence(w.results) /\ Len(w.results) = Len(ToolName)
            /\ \A i \in 1..Len(ToolName): ToolName[i] \notin request.tools => w.results[i] = s.results[i]
            /\ \A i \in 1..Len(ToolName): \A k \in 1..Len(g):
                 ToolName[i] = g[k].tool => w.results[i] = Retained(s.results[i], g[k], request)
<1> DEFINE w == Retried(s, request, g)
           batch == RetryBatch(request)
           at(t) == CHOOSE i \in DOMAIN batch: batch[i] = t
           next(r) == IF r.tool \in request.tools THEN Retained(r, g[at(r.tool)], request) ELSE r
           N == Len(ToolName)
<1>1. N \in Nat
  BY ToolsAre
<1>2. /\ IsSequence(s.results) /\ Len(s.results) = N
      /\ \A i \in 1..N: s.results[i].tool = ToolName[i]
  BY DEF Retries, StateFits, LatestOf
<1>3. DOMAIN s.results = 1..N
  BY <1>2, SequenceIs
<1>4. /\ w.selected = s.selected \cup request.tools
      /\ w.history = s.history \o g
      /\ w.results = [i \in 1..N |-> next(s.results[i])]
  BY <1>3 DEF Retried, HistoryWith
<1>5. /\ DOMAIN batch = 1..Len(g)
      /\ \A k \in 1..Len(g): g[k].tool = batch[k] /\ g[k].tool \in request.tools
      /\ \A k, l \in 1..Len(g): g[k].tool = g[l].tool => k = l
  BY RetriesAre
<1> HIDE DEF batch, w, N
<1>6. ASSUME NEW i \in 1..N, ToolName[i] \notin request.tools PROVE w.results[i] = s.results[i]
  BY <1>2, <1>4, <1>6
<1>7. ASSUME NEW i \in 1..N, NEW k \in 1..Len(g), ToolName[i] = g[k].tool
      PROVE  w.results[i] = Retained(s.results[i], g[k], request)
  <2>1. at(ToolName[i]) \in DOMAIN batch /\ batch[at(ToolName[i])] = ToolName[i]
    BY <1>5, <1>7
  <2>2. at(ToolName[i]) = k
    BY <1>5, <1>7, <2>1
  <2>3. ToolName[i] \in request.tools
    BY <1>5, <1>7
  <2>4. w.results[i] = next(s.results[i])
    BY <1>4
  <2> QED BY <1>2, <2>2, <2>3, <2>4
<1> DEFINE results == w.results
<1>8. results = [i \in 1..N |-> results[i]]
  BY <1>4
<1> HIDE DEF results
<1>9. IsSequence(results) /\ Len(results) = N
  BY <1>1, <1>8, FunctionIsSequence
<1> QED BY <1>4, <1>6, <1>7, <1>9 DEF w, N, results

LEMMA RetriedFits ==
  ASSUME PipelineAssumption, NEW s, NEW request, NEW g, NEW n, Retries(s, request, g, n)
  PROVE  StateFits(Retried(s, request, g), n + 1)
<1> DEFINE w == Retried(s, request, g)
           h == s.history
           N == Len(ToolName)
<1>1. /\ w.selected = s.selected \cup request.tools
      /\ w.history = h \o g
      /\ IsSequence(w.results) /\ Len(w.results) = N
      /\ \A i \in 1..N: ToolName[i] \notin request.tools => w.results[i] = s.results[i]
      /\ \A i \in 1..N: \A k \in 1..Len(g):
           ToolName[i] = g[k].tool => w.results[i] = Retained(s.results[i], g[k], request)
  BY RetriedIs
<1>2. /\ IsSequence(g) /\ Len(g) \in Nat
      /\ \A k \in 1..Len(g): /\ ResultFits(g[k], n + 1) /\ g[k].round = n + 1 /\ g[k].selected
                             /\ g[k].tool \in request.tools
      /\ \A k, l \in 1..Len(g): g[k].tool = g[l].tool => k = l
      /\ \A t \in request.tools: \E k \in 1..Len(g): g[k].tool = t
  BY RetriesAre
<1>3. /\ n \in Nat /\ s.selected \subseteq Tool /\ request.tools \subseteq Tool
      /\ \A i \in 1..N: LatestOf(s, i, n)
      /\ HistoryFits(h, n)
  BY DEF Retries, StateFits
<1> HIDE DEF w
<1>4. HistoryFits(w.history, n + 1)
  BY <1>1, <1>2, <1>3, HistoryGrows
<1>5. /\ Len(w.history) = Len(h) + Len(g)
      /\ \A i \in 1..Len(h): w.history[i] = h[i]
      /\ \A i \in 1..Len(g): w.history[Len(h) + i] = g[i]
      /\ \A k \in 1..Len(w.history): k \in 1..Len(h) \/ \E i \in 1..Len(g): k = Len(h) + i
  <2>1. IsSequence(h)
    BY <1>3 DEF HistoryFits
  <2>2. Joins(h \o g, h, g)
    BY <1>2, <2>1, ConcatIs
  <2>3. Joins(w.history, h, g)
    BY <1>1, <2>2
  <2> QED BY <2>3 DEF Joins
<1>6. Len(h) \in Nat /\ DOMAIN h = 1..Len(h) /\ DOMAIN w.history = 1..(Len(h) + Len(g))
  BY <1>3, <1>4, <1>5, SequenceIs DEF HistoryFits
<1>7. ASSUME NEW i \in 1..N, ToolName[i] \notin request.tools PROVE LatestOf(w, i, n + 1)
  <2> DEFINE r == s.results[i]
  <2>1. w.results[i] = r
    BY <1>1, <1>7
  <2>2. ResultFits(r, n) /\ r.tool = ToolName[i] /\ (r.selected <=> ToolName[i] \in s.selected) /\ LatestFits(s, r)
    BY <1>3 DEF LatestOf
  <2> HIDE DEF r
  <2>3. r.round \in 0..(n + 1)
    BY <1>3, <2>2 DEF ResultFits
  <2>4. ResultFits(r, n + 1)
    BY <2>2, <2>3 DEF ResultFits
  <2>5. RunsOf(w, r.tool) = RunsOf(s, r.tool)
    <3>1. ASSUME NEW k \in 1..Len(w.history), w.history[k].tool = r.tool PROVE k \in 1..Len(h)
      <4> SUFFICES ASSUME k \notin 1..Len(h) PROVE FALSE
        OBVIOUS
      <4>1. PICK l \in 1..Len(g): k = Len(h) + l
        BY <1>5
      <4>2. w.history[k].tool \in request.tools
        BY <1>2, <1>5, <4>1
      <4> QED BY <1>7, <2>2, <3>1, <4>2
    <3>2. \A k \in 1..Len(h): k \in 1..Len(w.history)
      BY <1>2, <1>5, <1>6
    <3> QED BY <1>5, <1>6, <3>1, <3>2 DEF RunsOf
  <2>6. LatestFits(w, r)
    <3>1. CASE RunsOf(s, r.tool) = {} /\ r.status = "skipped"
      BY <2>5, <3>1 DEF LatestFits
    <3>2. CASE \E m: LastOf(RunsOf(s, r.tool), m) /\ Shows(r, h[m])
      <4>1. PICK m: LastOf(RunsOf(s, r.tool), m) /\ Shows(r, h[m])
        BY <3>2
      <4>2. m \in 1..Len(h)
        BY <1>6, <4>1 DEF LastOf, RunsOf
      <4>3. w.history[m] = h[m]
        BY <1>5, <4>2
      <4> QED BY <2>5, <4>1, <4>3 DEF LatestFits
    <3> QED BY <2>2, <3>1, <3>2 DEF LatestFits
  <2>7. r.selected <=> ToolName[i] \in w.selected
    BY <1>1, <1>7, <2>2
  <2> QED BY <2>1, <2>2, <2>4, <2>6, <2>7 DEF LatestOf
<1>8. ASSUME NEW i \in 1..N, ToolName[i] \in request.tools PROVE LatestOf(w, i, n + 1)
  <2>1. PICK k \in 1..Len(g): g[k].tool = ToolName[i]
    BY <1>2, <1>8
  <2> DEFINE p == s.results[i]
             r == g[k]
             q == Retained(p, r, request)
  <2>2. w.results[i] = q
    BY <1>1, <2>1
  <2>3. ResultFits(p, n) /\ p.tool = ToolName[i]
    BY <1>3 DEF LatestOf
  <2>4. ResultFits(r, n + 1) /\ r.selected /\ r.tool = ToolName[i]
    BY <1>2, <2>1
  <2> HIDE DEF p, r
  <2>5. ResultFits(q, n + 1) /\ q.tool = r.tool /\ q.selected /\ Shows(q, r)
    BY <1>3, <2>3, <2>4, RetainedFits
  <2> HIDE DEF q
  <2> DEFINE m == Len(h) + k
  <2>6. m \in 1..Len(w.history) /\ w.history[m] = r
    BY <1>2, <1>5, <1>6 DEF r
  <2>7. ASSUME NEW j \in 1..Len(w.history), w.history[j].tool = q.tool PROVE j <= m
    <3>1. CASE j \in 1..Len(h)
      BY <1>2, <1>6, <3>1
    <3>2. CASE j \notin 1..Len(h)
      <4>1. PICK l \in 1..Len(g): j = Len(h) + l
        BY <1>5, <3>2
      <4>2. l = k
        BY <1>2, <1>5, <2>5, <2>7, <4>1 DEF r
      <4> QED BY <1>2, <1>6, <4>1, <4>2
    <3> QED BY <3>1, <3>2
  <2> HIDE DEF m
  <2>8. LastOf(RunsOf(w, q.tool), m)
    BY <1>5, <1>6, <2>5, <2>6, <2>7 DEF LastOf, RunsOf
  <2>9. LatestFits(w, q)
    BY <2>5, <2>6, <2>8 DEF LatestFits
  <2>10. q.selected <=> ToolName[i] \in w.selected
    BY <1>1, <1>8, <2>5
  <2> QED BY <2>2, <2>4, <2>5, <2>9, <2>10 DEF LatestOf
<1>9. w.selected \subseteq Tool
  BY <1>1, <1>3
<1>10. \A i \in 1..N: LatestOf(w, i, n + 1)
  BY <1>7, <1>8
<1> QED BY <1>1, <1>4, <1>9, <1>10 DEF StateFits, w

-----------------------------------------------------------------------------
LEMMA AtIsEmpty ==
  ASSUME NEW n \in Nat, NEW s, NEW places \in SUBSET (1..n)
  PROVE  At(s, places) = <<>> <=> places = {}
<1> DEFINE w == At(s, places)
<1>1. Len(w) = Cardinality(places) /\ Len(w) \in Nat /\ DOMAIN w = 1..Len(w) /\ (w = <<>> <=> places = {})
  BY AtFits
<1> QED BY <1>1

LEMMA ExecutionsAre ==
  ASSUME NEW s, NEW n, HistoryFits(s.history, n), NEW t
  PROVE  /\ Executions(s, t) = At(s.history, RunsOf(s, t))
         /\ Len(s.history) \in Nat /\ RunsOf(s, t) \in SUBSET (1..Len(s.history))
<1>1. DOMAIN s.history = 1..Len(s.history) /\ Len(s.history) \in Nat
  BY SequenceIs DEF HistoryFits
<1> QED BY <1>1 DEF Executions, RunsOf

(* What the latest result of a tool says of its last execution.                *)
LEMMA LastShown ==
  ASSUME NEW s, NEW n, StateFits(s, n), NEW i \in 1..Len(ToolName)
  PROVE  \/ Executions(s, ToolName[i]) = <<>> /\ s.results[i].status = "skipped"
         \/ Executions(s, ToolName[i]) # <<>> /\ Shows(s.results[i], Last(Executions(s, ToolName[i])))
<1> DEFINE t == ToolName[i]
           r == s.results[i]
           runs == RunsOf(s, t)
<1>1. r.tool = t /\ LatestFits(s, r) /\ HistoryFits(s.history, n)
  BY DEF StateFits, LatestOf
<1>2. /\ Executions(s, t) = At(s.history, runs)
      /\ Len(s.history) \in Nat /\ runs \in SUBSET (1..Len(s.history))
  BY <1>1, ExecutionsAre
<1> HIDE DEF r, t
<1>3. CASE runs = {} /\ r.status = "skipped"
  <2>1. At(s.history, runs) = <<>>
    BY <1>2, <1>3, AtIsEmpty
  <2> QED BY <1>2, <1>3, <2>1 DEF r, t
<1>4. CASE \E m: LastOf(runs, m) /\ Shows(r, s.history[m])
  <2>1. PICK m: LastOf(runs, m) /\ Shows(r, s.history[m])
    BY <1>4
  <2> HIDE DEF runs
  <2>2. At(s.history, runs) # <<>> /\ Last(At(s.history, runs)) = s.history[m]
    BY <1>2, <2>1, LastAt
  <2> QED BY <1>2, <2>1, <2>2 DEF r, t
<1>5. \/ runs = {} /\ r.status = "skipped"
      \/ \E m: LastOf(runs, m) /\ Shows(r, s.history[m])
  BY <1>1 DEF LatestFits
<1> QED BY <1>3, <1>4, <1>5

LEMMA ResultOfIs ==
  ASSUME PipelineAssumption, NEW s, NEW n, StateFits(s, n), NEW i \in 1..Len(ToolName)
  PROVE  ResultOf(s.results, ToolName[i]) = s.results[i]
<1>1. /\ Len(ToolName) \in Nat
      /\ \A k, l \in 1..Len(ToolName): ToolName[k] = ToolName[l] => k = l
  BY ToolsAre
<1>2. /\ DOMAIN s.results = 1..Len(ToolName)
      /\ \A k \in 1..Len(ToolName): s.results[k].tool = ToolName[k]
  BY <1>1, SequenceIs DEF StateFits, LatestOf
<1> DEFINE k == CHOOSE k \in DOMAIN s.results: s.results[k].tool = ToolName[i]
<1>3. k \in DOMAIN s.results /\ s.results[k].tool = ToolName[i]
  BY <1>2
<1> HIDE DEF k
<1>4. k = i
  BY <1>1, <1>2, <1>3
<1> QED BY <1>4 DEF ResultOf, k

LEMMA ResultsAre ==
  ASSUME PipelineAssumption, NEW s, NEW n, StateFits(s, n)
  PROVE  /\ DOMAIN s.results = 1..Len(ToolName)
         /\ \A i \in 1..Len(ToolName): /\ ResultFits(s.results[i], n) /\ s.results[i].tool = ToolName[i]
                                       /\ s.results[i].selected <=> ToolName[i] \in s.selected
         /\ \A r: r \in ToSet(s.results) <=> \E i \in 1..Len(ToolName): r = s.results[i]
<1>1. DOMAIN s.results = 1..Len(ToolName)
  BY ToolsAre, SequenceIs DEF StateFits
<1>2. \A r: r \in ToSet(s.results) <=> \E i \in 1..Len(ToolName): r = s.results[i]
  BY <1>1 DEF ToSet
<1> QED BY <1>1, <1>2 DEF StateFits, LatestOf

LEMMA ResultPlace ==
  ASSUME PipelineAssumption, NEW s, NEW n, StateFits(s, n), NEW r \in ToSet(s.results)
  PROVE  \E i \in 1..Len(ToolName): r = s.results[i]
BY ResultsAre

-----------------------------------------------------------------------------
(* The draft the aggregator makes of such a state.                             *)
LEMMA AggregateIs ==
  ASSUME NEW s
  PROVE  /\ Aggregate(s).selected = s.selected /\ Aggregate(s).results = s.results
         /\ Aggregate(s).findings = FindingsOf(s)
         /\ Aggregate(s).actions = UNION {r.actions : r \in ToSet(s.results)}
         /\ Aggregate(s).missing = UNION {r.missing : r \in ToSet(s.results)}
         /\ Aggregate(s).overall = OverallStatus(ToSet(s.results), Aggregate(s).findings, Aggregate(s).actions,
                                                 Aggregate(s).missing)
BY DEF Aggregate, FindingsOf

LEMMA IssueIs ==
  ASSUME NEW a, NEW b, NEW c, NEW d
  PROVE  Issue(a, b, c, d).kind = b /\ Issue(a, b, c, d).tool = c
BY DEF Issue

(* The rules find nothing contradictory in the results of the executor.        *)
LEMMA NothingContradictory ==
  ASSUME PipelineAssumption, NEW s, NEW n, StateFits(s, n)
  PROVE  \A i \in ToolIssues(Aggregate(s)) \cup FindingIssues(Aggregate(s)): i.kind # "contradiction"
<1> DEFINE d == Aggregate(s)
           records == ToSet(d.results)
           contradictory == {r \in records:
                              \/ r.selected # (r.tool \in d.selected)
                              \/ ~r.selected /\ (r.status # "skipped" \/ r.detail # NoTool \/ r.findings # {})
                              \/ r.detail \notin {NoTool, r.tool}}
           repeated == {r \in records: Cardinality({i \in DOMAIN d.results: d.results[i].tool = r.tool}) > 1}
           original == UNION {r.findings : r \in records}
           unlike == (original \cup d.findings) \ (original \cap d.findings)
<1>1. /\ DOMAIN s.results = 1..Len(ToolName)
      /\ \A i \in 1..Len(ToolName): /\ ResultFits(s.results[i], n) /\ s.results[i].tool = ToolName[i]
                                    /\ s.results[i].selected <=> ToolName[i] \in s.selected
      /\ \A r: r \in ToSet(s.results) <=> \E i \in 1..Len(ToolName): r = s.results[i]
  BY ResultsAre
<1>2. d.selected = s.selected /\ d.results = s.results /\ d.findings = FindingsOf(s)
  BY AggregateIs
<1>3. ASSUME NEW r \in records PROVE r \notin contradictory /\ r \notin repeated
  <2>1. PICK i \in 1..Len(ToolName): r = s.results[i]
    BY <1>1, <1>2
  <2>2. r.selected \in BOOLEAN /\ (r.selected <=> r.tool \in d.selected)
    BY <1>1, <1>2, <2>1 DEF ResultFits
  <2>3. r.selected = (r.tool \in d.selected)
    BY <2>2
  <2>4. /\ ~r.selected => r.status = "skipped" /\ r.findings = {} /\ r.detail = NoTool
        /\ r.detail \in {NoTool, r.tool}
    BY <1>1, <2>1 DEF ResultFits
  <2>5. r \notin contradictory
    BY <2>3, <2>4
  <2>6. {k \in DOMAIN d.results: d.results[k].tool = r.tool} = {i}
    <3>1. \A k, l \in 1..Len(ToolName): ToolName[k] = ToolName[l] => k = l
      BY ToolsAre
    <3> QED BY <1>1, <1>2, <2>1, <3>1
  <2>7. Cardinality({i}) = 1
    BY FS_Singleton
  <2>8. Cardinality({k \in DOMAIN d.results: d.results[k].tool = r.tool}) = 1
    BY <2>6, <2>7
  <2>9. r \notin repeated
    BY <2>8
  <2> QED BY <2>5, <2>9
<1>4. contradictory \cup repeated = {}
  BY <1>3
<1>5. unlike = {}
  BY <1>2 DEF FindingsOf
<1>6. ToolIssues(d) =
        {Issue("critical", "tool_failure", r.tool, {}) : r \in {x \in records: Incomplete(x)}}
        \cup {Issue("critical", "contradiction", r.tool, {}) : r \in contradictory \cup repeated}
        \cup {Issue("critical", "missing_tool", t, {}) : t \in Tool \ {r.tool : r \in records}}
  BY DEF ToolIssues
<1>7. ASSUME NEW i \in ToolIssues(d) PROVE i.kind # "contradiction"
  <2>1. \/ \E r \in records: i = Issue("critical", "tool_failure", r.tool, {})
        \/ \E t \in Tool: i = Issue("critical", "missing_tool", t, {})
    BY <1>4, <1>6
  <2> QED BY <2>1, IssueIs
<1>8. ASSUME NEW i \in FindingIssues(d) PROVE i.kind # "contradiction"
  <2> HIDE DEF d
  <2>1. \/ i = Issue("critical", "missing_evidence", NoTool, {})
        \/ \E f \in unlike: i = Issue("critical", "contradiction", f.tool, {f})
        \/ \E f: i = Issue("critical", "missing_evidence", f.tool, {f})
        \/ \E f: i = Issue("warning", "missing_evidence", NoTool, {f})
    BY DEF FindingIssues
  <2>2. \E a, c, e: i = Issue(a, "missing_evidence", c, e)
    BY <1>5, <2>1
  <2>3. i.kind = "missing_evidence"
    BY <2>2, IssueIs
  <2> QED BY <2>3
<1> QED BY <1>7, <1>8

(* Whatever the rules or the model ask for are tools.                          *)
LEMMA IssuesCallForTools ==
  ASSUME PipelineAssumption, NEW s, NEW n, StateFits(s, n), NEW called \in SUBSET Signal
  PROVE  LET d == Aggregate(s)
             issues == ToolIssues(d) \cup SignalIssues(d, called) \cup FindingIssues(d)
         IN \A i \in issues: CallsForTool(i, d) => i.tool \in Tool
<1> DEFINE d == Aggregate(s)
           records == ToSet(d.results)
<1>1. /\ \A i \in 1..Len(ToolName): ResultFits(s.results[i], n)
      /\ \A r: r \in ToSet(s.results) <=> \E i \in 1..Len(ToolName): r = s.results[i]
  BY ResultsAre
<1>2. d.results = s.results /\ d.findings = FindingsOf(s)
  BY AggregateIs
<1>3. \A r \in records: r.tool \in Tool /\ \A f \in r.findings: f.tool \in Tool
  BY <1>1, <1>2 DEF ResultFits
<1>4. \A f \in d.findings: f.tool \in Tool
  BY <1>2, <1>3 DEF FindingsOf
<1> HIDE DEF d
<1>5. ASSUME NEW i \in ToolIssues(d) PROVE i.tool \in Tool
  <2>1. \/ \E r \in records: \/ i = Issue("critical", "tool_failure", r.tool, {})
                             \/ i = Issue("critical", "contradiction", r.tool, {})
        \/ \E t \in Tool: i = Issue("critical", "missing_tool", t, {})
    BY DEF ToolIssues
  <2> QED BY <1>3, <2>1, IssueIs
<1>6. ASSUME NEW i \in SignalIssues(d, called), CallsForTool(i, d) PROVE i.tool \in Tool
  <2>1. \A u \in called: u.tool \in Tool
    BY DEF PipelineAssumption
  <2>2. \/ \E t \in Tool: i = Issue("warning", "missing_tool", t, {})
        \/ i = Issue("warning", "insufficient_product_data", NoTool, {})
    BY <2>1 DEF SignalIssues
  <2>3. i.kind # "insufficient_product_data"
    BY <1>6 DEF CallsForTool
  <2> QED BY <2>2, <2>3, IssueIs
<1>7. ASSUME NEW i \in FindingIssues(d), CallsForTool(i, d) PROVE i.tool \in Tool
  <2>1. \/ \E e, t, fs: i = Issue(e, "contradiction", t, fs)
        \/ \E e, fs: i = Issue(e, "missing_evidence", NoTool, fs)
        \/ \E f \in d.findings: i = Issue("critical", "missing_evidence", f.tool, {f})
    BY DEF FindingIssues
  <2>2. i.kind # "contradiction" /\ (i.kind = "missing_evidence" => i.tool # NoTool)
    BY <1>7 DEF CallsForTool
  <2>3. CASE \E e, t, fs: i = Issue(e, "contradiction", t, fs)
    BY <2>2, <2>3, IssueIs
  <2>4. CASE \E e, fs: i = Issue(e, "missing_evidence", NoTool, fs)
    BY <2>2, <2>4, IssueIs
  <2>5. CASE \E f \in d.findings: i = Issue("critical", "missing_evidence", f.tool, {f})
    <3>1. PICK f \in d.findings: i = Issue("critical", "missing_evidence", f.tool, {f})
      BY <2>5
    <3>2. i.tool = f.tool
      BY <3>1, IssueIs
    <3> QED BY <1>4, <3>2
  <2> QED BY <2>1, <2>3, <2>4, <2>5
<1> QED BY <1>5, <1>6, <1>7 DEF d

LEMMA RulesAskForTools ==
  ASSUME PipelineAssumption, NEW s, NEW n, StateFits(s, n), NEW called \in SUBSET Signal
  PROVE  VerifyRules(Aggregate(s), called).tools \subseteq Tool
<1> DEFINE d == Aggregate(s)
           issues == ToolIssues(d) \cup SignalIssues(d, called) \cup FindingIssues(d)
           tools  == {i.tool : i \in {j \in issues: CallsForTool(j, d)}}
           v == [status |-> "approved", issues |-> issues, questions |-> {}, checked |-> {}, tools |-> tools]
<1>1. \A i \in issues: CallsForTool(i, d) => i.tool \in Tool
  BY IssuesCallForTools
<1>2. VerifyRules(d, called) = [v EXCEPT !.status = Status(v)]
  BY DEF VerifyRules, WithStatus
<1> HIDE DEF issues, d
<1>3. tools \subseteq Tool
  BY <1>1
<1> HIDE DEF tools
<1>4. [v EXCEPT !.status = Status(v)].tools = tools
  OBVIOUS
<1> QED BY <1>2, <1>3, <1>4 DEF d

LEMMA ReviewsAskForTools ==
  ASSUME NEW d, \A f \in d.findings: f.tool \in Tool, NEW review \in Reviews(d)
  PROVE  review.tools \subseteq Tool
<1> DEFINE unread(f) == [Remark(d, {}, {}, {}) EXCEPT !.checked = d.findings \ {f}]
<1>1. ASSUME NEW i, NEW t, NEW q PROVE Remark(d, i, t, q).tools = t
  BY DEF Remark
<1>2. ASSUME NEW f PROVE unread(f).tools = {}
  BY DEF Remark
<1>4. \/ \E i, q: review = Remark(d, i, {}, q)
      \/ \E i: \E f \in d.findings: review = Remark(d, i, {f.tool}, {})
      \/ \E t \in Tool: review = Remark(d, {}, {t}, {})
      \/ \E f \in d.findings: review = unread(f)
  <2>1. \A kind: review \in Objections(d, kind) =>
          \/ \E i: review = Remark(d, i, {}, {})
          \/ \E i: \E f \in d.findings: review = Remark(d, i, {f.tool}, {})
    BY DEF Objections
  <2>2. \/ review = Remark(d, {}, {}, {}) \/ \E kind: review \in Objections(d, kind)
        \/ review = Remark(d, {Issue("warning", "unsupported_claim", NoTool, {})}, {}, {})
        \/ \E t \in Tool: review = Remark(d, {}, {t}, {})
        \/ \E q: review = Remark(d, {}, {}, {q})
        \/ \E f \in d.findings: review = unread(f)
    BY DEF Reviews
  <2> HIDE DEF unread
  <2> QED BY <2>1, <2>2
<1> HIDE DEF unread
<1>3. CASE \E i, q: review = Remark(d, i, {}, q)
  BY <1>1, <1>3
<1>5. CASE \E i: \E f \in d.findings: review = Remark(d, i, {f.tool}, {})
  BY <1>1, <1>5
<1>6. CASE \E t \in Tool: review = Remark(d, {}, {t}, {})
  BY <1>1, <1>6
<1>7. CASE \E f \in d.findings: review = unread(f)
  BY <1>2, <1>7
<1> QED BY <1>3, <1>4, <1>5, <1>6, <1>7

LEMMA MergedAskForTools ==
  ASSUME NEW rules, NEW review
  PROVE  Merge(rules, review).tools = rules.tools \cup review.tools
<1> DEFINE issues == rules.issues \cup review.issues
           questions == MergedQuestions(rules.questions \cup review.questions)
           tools == rules.tools \cup review.tools
           u == [status |-> "approved", issues |-> issues, questions |-> questions,
                 checked |-> review.checked, tools |-> tools]
           v == [u EXCEPT !.status = Status(u)]
<1>1. Merge(rules, review) = v
  BY DEF Merge, WithStatus
<1>2. v.tools = tools
  OBVIOUS
<1> QED BY <1>1, <1>2

LEMMA RulesOnlyAskForTools ==
  ASSUME NEW d, NEW called
  PROVE  RulesOnly(VerifyRules(d, called)).tools = VerifyRules(d, called).tools
<1> DEFINE issues == ToolIssues(d) \cup SignalIssues(d, called) \cup FindingIssues(d)
           tools  == {i.tool : i \in {j \in issues: CallsForTool(j, d)}}
           v == [status |-> "approved", issues |-> issues, questions |-> {}, checked |-> {}, tools |-> tools]
           rules == [v EXCEPT !.status = Status(v)]
<1>1. VerifyRules(d, called) = rules
  BY DEF VerifyRules, WithStatus
<1> HIDE DEF issues, tools
<1>2. [rules EXCEPT !.status = "revision_required"].tools = rules.tools
  OBVIOUS
<1> HIDE DEF rules
<1> QED BY <1>1, <1>2 DEF RulesOnly

LEMMA VerifiedAsksForTools ==
  ASSUME PipelineAssumption, NEW s, NEW n, StateFits(s, n), NEW called \in SUBSET Signal,
         NEW review \in Reviews(Aggregate(s)) \cup {NoReview}
  PROVE  Verified(Aggregate(s), called, review).tools \subseteq Tool
<1> DEFINE d == Aggregate(s)
           rules == VerifyRules(d, called)
<1>1. rules.tools \subseteq Tool
  BY RulesAskForTools
<1>2. \A f \in d.findings: f.tool \in Tool
  <2>1. /\ \A i \in 1..Len(ToolName): ResultFits(s.results[i], n)
        /\ \A r: r \in ToSet(s.results) <=> \E i \in 1..Len(ToolName): r = s.results[i]
    BY ResultsAre
  <2>2. d.findings = FindingsOf(s)
    BY AggregateIs
  <2> QED BY <2>1, <2>2 DEF FindingsOf, ResultFits
<1> HIDE DEF d
<1>3. CASE review # NoReview /\ ScopeHolds(review, d)
  <2>1. Verified(d, called, review) = Merge(rules, review)
    BY <1>3 DEF Verified
  <2>2. review.tools \subseteq Tool
    BY <1>2, <1>3, ReviewsAskForTools DEF d
  <2>3. Merge(rules, review).tools = rules.tools \cup review.tools
    BY MergedAskForTools
  <2> QED BY <1>1, <2>1, <2>2, <2>3 DEF d
<1>4. CASE ~(review # NoReview /\ ScopeHolds(review, d))
  <2>1. Verified(d, called, review) = RulesOnly(rules)
    BY <1>4 DEF Verified
  <2> QED BY <1>1, <2>1, RulesOnlyAskForTools DEF d
<1> QED BY <1>3, <1>4

-----------------------------------------------------------------------------
LEMMA PoolStarts ==
  ASSUME NEW n \in Nat, NEW batch, IsSequence(batch), ToSet(batch) \subseteq Tool, NEW selected
  PROVE  PoolFits(Pool(batch, selected), n)
<1> DEFINE p == Pool(batch, selected)
<1>1. p.batch = batch /\ p.selected = selected /\ p.started = 0 /\ p.ended = <<>>
  BY DEF Pool
<1>2. p = [batch |-> batch, selected |-> selected, started |-> 0, ended |-> <<>>]
  BY DEF Pool
<1>3. Len(batch) \in Nat
  BY SequenceIs
<1> HIDE DEF p
<1>4. IsSequence(p.ended) /\ DOMAIN p.ended = {}
  BY <1>1 DEF IsSequence, ToSet
<1>5. p.started \in 0..Len(p.batch)
  BY <1>1, <1>3
<1> QED BY <1>1, <1>2, <1>4, <1>5 DEF PoolFits, p

LEMMA StartFits ==
  ASSUME NEW n \in Nat, NEW p, PoolFits(p, n), p.started < Len(p.batch)
  PROVE  PoolFits(Start(p), n)
<1> DEFINE q == Start(p)
           b == p.batch
           s == p.selected
           a == p.started
           e == p.ended
<1>1. p = [batch |-> b, selected |-> s, started |-> a, ended |-> e]
  BY DEF PoolFits
<1>2. q = [p EXCEPT !.started = a + 1]
  BY DEF Start
<1>3. /\ IsSequence(b) /\ ToSet(b) \subseteq Tool
      /\ a \in 0..Len(b)
      /\ IsSequence(e) /\ \A k \in DOMAIN e: EntryFits(e[k], p, n)
      /\ \A k, l \in DOMAIN e: e[k].place = e[l].place => k = l
  BY DEF PoolFits
<1>4. Len(b) \in Nat
  BY <1>3, SequenceIs
<1> HIDE DEF b, s, a, e, q
<1>5. q.batch = b /\ q.selected = s /\ q.started = a + 1 /\ q.ended = e
  BY <1>1, <1>2
<1>6. q = [batch |-> b, selected |-> s, started |-> a + 1, ended |-> e]
  BY <1>1, <1>2
<1>7. a + 1 \in 0..Len(b) /\ \A i \in 1..a: i \in 1..(a + 1)
  BY <1>3, <1>4 DEF a, b
<1>8. ASSUME NEW k \in DOMAIN e PROVE EntryFits(e[k], q, n)
  BY <1>3, <1>5, <1>7 DEF EntryFits, a, b, s
<1> QED BY <1>3, <1>5, <1>6, <1>7, <1>8 DEF PoolFits, q

LEMMA EndFits ==
  ASSUME NEW n \in Nat, NEW p, PoolFits(p, n), NEW place \in Running(p),
         NEW r, ResultFits(r, n), r.round = n, r.tool = p.batch[place],
         r.selected <=> p.batch[place] \in p.selected
  PROVE  PoolFits(EndsWith(p, place, r), n)
<1> DEFINE q == EndsWith(p, place, r)
           x == [place |-> place, result |-> r]
           b == p.batch
           s == p.selected
           a == p.started
           e == p.ended
           w == Append(e, x)
<1>1. p = [batch |-> b, selected |-> s, started |-> a, ended |-> e]
  BY DEF PoolFits
<1>2. q = [p EXCEPT !.ended = w]
  BY DEF EndsWith
<1>3. /\ IsSequence(b) /\ ToSet(b) \subseteq Tool
      /\ a \in 0..Len(b)
      /\ IsSequence(e) /\ \A k \in DOMAIN e: EntryFits(e[k], p, n)
      /\ \A k, l \in DOMAIN e: e[k].place = e[l].place => k = l
  BY DEF PoolFits
<1>4. place \in 1..a /\ \A k \in DOMAIN e: e[k].place # place
  BY DEF Running, Ended, ToSet
<1>5. DOMAIN e = 1..Len(e) /\ Len(e) \in Nat
  BY <1>3, SequenceIs
<1>6. /\ IsSequence(w) /\ Len(w) = Len(e) + 1 /\ w[Len(e) + 1] = x
      /\ \A i \in 1..Len(e): w[i] = e[i]
  BY <1>3, AppendIs
<1>7. x.place = place /\ x.result = r
  OBVIOUS
<1> HIDE DEF x, w, e, q
<1>8. q = [batch |-> b, selected |-> s, started |-> a, ended |-> w]
  BY <1>1, <1>2
<1> HIDE DEF b, s, a
<1>9. q.batch = b /\ q.selected = s /\ q.started = a /\ q.ended = w
  BY <1>8
<1>10. DOMAIN w = 1..(Len(e) + 1)
  BY <1>6, SequenceIs
<1>11. EntryFits(x, q, n)
  BY <1>4, <1>7, <1>9 DEF EntryFits, b, s
<1>12. ASSUME NEW k \in DOMAIN e PROVE EntryFits(e[k], q, n)
  BY <1>3, <1>9 DEF EntryFits, b, s, a
<1>13. ASSUME NEW k \in DOMAIN w PROVE EntryFits(w[k], q, n)
  <2>1. k \in 1..Len(e) \/ k = Len(e) + 1
    BY <1>5, <1>10
  <2> QED BY <1>5, <1>6, <1>11, <1>12, <2>1
<1>14. ASSUME NEW k \in DOMAIN w, NEW l \in DOMAIN w, w[k].place = w[l].place PROVE k = l
  <2>1. (k \in 1..Len(e) \/ k = Len(e) + 1) /\ (l \in 1..Len(e) \/ l = Len(e) + 1)
    BY <1>5, <1>10
  <2> QED BY <1>3, <1>4, <1>5, <1>6, <1>7, <1>14, <2>1
<1> QED BY <1>3, <1>6, <1>8, <1>9, <1>13, <1>14 DEF PoolFits, q

-----------------------------------------------------------------------------
(* The invariant.                                                              *)
PoolIsSound ==
  stage = "tool_execution" =>
    /\ PoolFits(pool, round)
    /\ round = 0 => pool.batch = ToolName /\ pool.selected \subseteq Tool
    /\ round > 0 => /\ pool.batch = RetryBatch(verification) /\ pool.selected = verification.tools
                    /\ previous = [state |-> state, verification |-> verification]

Reviewing == {"verification", "decision", "ended"}

StateIsKept ==
  /\ stage \in {"extraction", "selection", "failed", "tool_execution", "aggregation"} \cup Reviewing
  /\ stage \in {"extraction", "selection", "failed"} => state = None /\ round = 0
  /\ stage = "tool_execution" => IF round = 0 THEN state = None ELSE StateFits(state, round - 1)
  /\ stage \in {"aggregation"} \cup Reviewing => StateFits(state, round)

DraftIsOfState == stage \in Reviewing => draft = Aggregate(state)

RetryIsOfPrevious ==
  round > 0 /\ stage # "tool_execution" =>
    \E g: /\ Retries(previous.state, previous.verification, g, round - 1)
          /\ state = Retried(previous.state, previous.verification, g)

OnlyToolsAreAsked ==
  /\ signals \subseteq Signal
  /\ stage \in {"decision", "ended"} \/ (stage = "tool_execution" /\ round > 0) => verification.tools \subseteq Tool

EndsForAReason ==
  /\ stage # "ended" => reason = None
  /\ reason = "no_progress" => Stuck

Kept == PoolIsSound /\ StateIsKept /\ DraftIsOfState /\ RetryIsOfPrevious /\ OnlyToolsAreAsked /\ EndsForAReason

LEMMA InitKept == PipelineAssumption /\ Init => Kept
<1> SUFFICES ASSUME PipelineAssumption, Init PROVE Kept
  OBVIOUS
<1>1. stage = "extraction" /\ round = 0 /\ signals = {} /\ state = None /\ reason = None
  BY DEF Init
<1>2. EndsForAReason
  BY <1>1 DEF EndsForAReason, PipelineAssumption
<1> QED BY <1>1, <1>2 DEF Kept, PoolIsSound, StateIsKept, Reviewing, DraftIsOfState, RetryIsOfPrevious,
                          OnlyToolsAreAsked

(* Nothing before the first round.                                            *)
LEMMA EarlyKept ==
  ASSUME PipelineAssumption, Inv, Kept, StageFails \/ Extract \/ Select PROVE Kept'
<1>1. stage \in {"extraction", "selection"} /\ round = 0 /\ state = None /\ reason = None
  BY DEF Kept, StateIsKept, EndsForAReason, StageFails, Extract, Select
<1>2. stage' \in {"failed", "selection", "tool_execution"} /\ UNCHANGED <<round, state, reason>>
  BY DEF StageFails, Extract, Select
<1>3. signals' \subseteq Signal
  BY DEF Kept, OnlyToolsAreAsked, StageFails, Extract, Select, PipelineAssumption
<1>4. stage' = "tool_execution" => PoolFits(pool', 0) /\ pool'.batch = ToolName /\ pool'.selected \subseteq Tool
  <2> SUFFICES ASSUME stage' = "tool_execution"
               PROVE PoolFits(pool', 0) /\ pool'.batch = ToolName /\ pool'.selected \subseteq Tool
    OBVIOUS
  <2>1. Select
    BY DEF StageFails, Extract
  <2>2. PICK chosen \in SUBSET Tool: pool' = Pool(ToolName, chosen \cup AlwaysRun)
    BY <2>1 DEF Select
  <2>3. ToolName \in Seq(Tool) /\ AlwaysRun \subseteq Tool
    BY DEF PipelineAssumption, ExecutorAssumption, ToolAssumption
  <2>4. IsSequence(ToolName) /\ ToSet(ToolName) \subseteq Tool
    BY <2>3 DEF IsSequence, Tool
  <2>5. Pool(ToolName, chosen \cup AlwaysRun).batch = ToolName
        /\ Pool(ToolName, chosen \cup AlwaysRun).selected = chosen \cup AlwaysRun
    BY DEF Pool
  <2> QED BY <2>2, <2>3, <2>4, <2>5, PoolStarts
<1>5. EndsForAReason'
  BY <1>1, <1>2 DEF EndsForAReason, PipelineAssumption
<1> QED BY <1>1, <1>2, <1>3, <1>4, <1>5 DEF Kept, PoolIsSound, StateIsKept, Reviewing, DraftIsOfState,
                                           RetryIsOfPrevious, OnlyToolsAreAsked

(* The threads of the pool.                                                   *)
LEMMA PoolKept ==
  ASSUME PipelineAssumption, Inv, Kept, StartTool \/ EndTool PROVE Kept'
<1>1. /\ stage = "tool_execution" /\ PoolFits(pool, round)
      /\ UNCHANGED <<stage, round, signals, state, draft, verification, reviewed, previous, reason>>
  BY DEF Kept, PoolIsSound, StartTool, EndTool
<1>2. round \in Nat
  BY DEF Inv, Rounds
<1>3. PoolFits(pool', round) /\ pool'.batch = pool.batch /\ pool'.selected = pool.selected
  <2>5. pool = [batch |-> pool.batch, selected |-> pool.selected, started |-> pool.started, ended |-> pool.ended]
    BY <1>1 DEF PoolFits
  <2>1. CASE StartTool
    <3>1. pool' = Start(pool) /\ pool.started < Len(pool.batch)
      BY <2>1 DEF StartTool, MayStart
    <3>2. Start(pool).batch = pool.batch /\ Start(pool).selected = pool.selected
      BY <2>5 DEF Start
    <3> QED BY <1>1, <1>2, <3>1, <3>2, StartFits
  <2>2. CASE EndTool
    <3>1. PICK place \in Running(pool):
            \/ /\ pool.batch[place] \in pool.selected
               /\ \E answer \in Answer[pool.batch[place]]:
                    pool' = EndsWith(pool, place, Executed(pool.batch[place], round, answer))
            \/ /\ pool.batch[place] \notin pool.selected
               /\ pool' = EndsWith(pool, place, Skipped(pool.batch[place], round))
      BY <2>2 DEF EndTool
    <3>2. pool.batch[place] \in Tool
      <4>1. place \in 1..pool.started /\ pool.started \in 0..Len(pool.batch) /\ IsSequence(pool.batch)
            /\ ToSet(pool.batch) \subseteq Tool
        BY <1>1 DEF Running, PoolFits
      <4>2. place \in 1..Len(pool.batch) /\ pool.batch[place] \in ToSet(pool.batch)
        BY <4>1, SequenceIs
      <4> QED BY <4>1, <4>2
    <3> DEFINE t == pool.batch[place]
    <3>3. PICK r: /\ pool' = EndsWith(pool, place, r)
                  /\ ResultFits(r, round) /\ r.round = round /\ r.tool = t /\ (r.selected <=> t \in pool.selected)
      <4>1. CASE t \in pool.selected
        <5>1. PICK answer \in Answer[t]: pool' = EndsWith(pool, place, Executed(t, round, answer))
          BY <3>1, <4>1
        <5>2. ResultFits(Executed(t, round, answer), round) /\ Executed(t, round, answer).round = round
              /\ Executed(t, round, answer).tool = t /\ Executed(t, round, answer).selected
          BY <1>2, <3>2, ExecutedFits DEF PipelineAssumption
        <5> QED BY <4>1, <5>1, <5>2
      <4>2. CASE t \notin pool.selected
        <5>1. pool' = EndsWith(pool, place, Skipped(t, round))
          BY <3>1, <4>2
        <5>2. ResultFits(Skipped(t, round), round) /\ Skipped(t, round).round = round
              /\ Skipped(t, round).tool = t /\ ~Skipped(t, round).selected
          BY <1>2, <3>2, SkippedFits
        <5> QED BY <4>2, <5>1, <5>2
      <4> QED BY <4>1, <4>2
    <3>4. PoolFits(EndsWith(pool, place, r), round)
      BY <1>1, <1>2, <3>3, EndFits
    <3>5. EndsWith(pool, place, r).batch = pool.batch /\ EndsWith(pool, place, r).selected = pool.selected
      BY <2>5 DEF EndsWith
    <3> QED BY <3>3, <3>4, <3>5
  <2> QED BY <2>1, <2>2
<1>4. PoolIsSound'
  BY <1>1, <1>3 DEF Kept, PoolIsSound
<1>5. EndsForAReason'
  BY <1>1 DEF Kept, EndsForAReason, Stuck
<1> QED BY <1>1, <1>4, <1>5 DEF Kept, StateIsKept, Reviewing, DraftIsOfState, RetryIsOfPrevious, OnlyToolsAreAsked

(* All results are in: the first state, or the state of before with the retry. *)
LEMMA Collected ==
  ASSUME PipelineAssumption, Inv, Kept, CollectTools
  PROVE  /\ StateFits(state', round)
         /\ round > 0 => /\ previous = [state |-> state, verification |-> verification]
                         /\ Retries(state, verification, Gathered(pool), round - 1)
                         /\ state' = Retried(state, verification, Gathered(pool))
<1>1. stage = "tool_execution" /\ AllEnded(pool) /\ PoolFits(pool, round) /\ round \in Nat
  BY DEF CollectTools, Kept, PoolIsSound, Inv, Rounds
<1>2. BatchFits(Gathered(pool), pool.batch, pool.selected, round)
  BY <1>1, GatheredFits
<1>3. CASE round = 0
  <2>1. state' = Initial(pool.selected, Gathered(pool)) /\ pool.batch = ToolName /\ pool.selected \subseteq Tool
    BY <1>1, <1>3 DEF CollectTools, Kept, PoolIsSound
  <2> QED BY <1>2, <1>3, <2>1, InitialFits
<1>4. CASE round > 0
  <2>1. /\ pool.batch = RetryBatch(verification) /\ pool.selected = verification.tools
        /\ previous = [state |-> state, verification |-> verification]
        /\ StateFits(state, round - 1) /\ verification.tools \subseteq Tool
    BY <1>1, <1>4 DEF Kept, PoolIsSound, StateIsKept, OnlyToolsAreAsked
  <2>2. previous.state = state /\ previous.verification = verification
    BY <2>1
  <2>3. state' = Retried(state, verification, Gathered(pool))
    BY <1>4, <2>2 DEF CollectTools
  <2>4. round - 1 \in Nat /\ (round - 1) + 1 = round
    BY <1>1, <1>4
  <2>5. Retries(state, verification, Gathered(pool), round - 1)
    BY <1>2, <2>1, <2>4 DEF Retries
  <2>6. StateFits(Retried(state, verification, Gathered(pool)), (round - 1) + 1)
    BY <2>5, RetriedFits
  <2> QED BY <2>1, <2>3, <2>4, <2>5, <2>6
<1> QED BY <1>1, <1>3, <1>4

LEMMA CollectKept ==
  ASSUME PipelineAssumption, Inv, Kept, CollectTools PROVE Kept'
<1>1. /\ stage' = "aggregation"
      /\ UNCHANGED <<round, signals, draft, verification, reviewed, previous, reason>>
  BY DEF CollectTools
<1>2. /\ StateFits(state', round)
      /\ round > 0 => /\ previous = [state |-> state, verification |-> verification]
                      /\ Retries(state, verification, Gathered(pool), round - 1)
                      /\ state' = Retried(state, verification, Gathered(pool))
  BY Collected
<1>3. RetryIsOfPrevious'
  <2> SUFFICES ASSUME round > 0
               PROVE  \E g: /\ Retries(previous.state, previous.verification, g, round - 1)
                            /\ state' = Retried(previous.state, previous.verification, g)
    BY <1>1 DEF RetryIsOfPrevious
  <2>1. previous.state = state /\ previous.verification = verification
    BY <1>2
  <2> QED BY <1>2, <2>1
<1>4. stage = "tool_execution" /\ reason = None
  BY DEF CollectTools, Kept, EndsForAReason
<1>5. EndsForAReason'
  BY <1>1, <1>4 DEF EndsForAReason, PipelineAssumption
<1> QED BY <1>1, <1>2, <1>3, <1>5 DEF Kept, PoolIsSound, StateIsKept, Reviewing, DraftIsOfState, OnlyToolsAreAsked

(* The draft, and the verdict on it.                                          *)
LEMMA DraftKept ==
  ASSUME PipelineAssumption, Inv, Kept, AggregateResults \/ Verify PROVE Kept'
<1>1. /\ stage \in {"aggregation", "verification"} /\ stage' \in {"verification", "decision"}
      /\ UNCHANGED <<round, signals, pool, state, previous, reason>>
  BY DEF AggregateResults, Verify
<1>2. StateFits(state, round) /\ reason = None
  BY <1>1 DEF Kept, StateIsKept, Reviewing, EndsForAReason
<1>3. DraftIsOfState'
  BY <1>1 DEF Kept, DraftIsOfState, Reviewing, AggregateResults, Verify
<1>4. OnlyToolsAreAsked'
  <2>1. signals' \subseteq Signal
    BY <1>1 DEF Kept, OnlyToolsAreAsked
  <2>2. CASE AggregateResults
    BY <2>1, <2>2 DEF AggregateResults, OnlyToolsAreAsked
  <2>3. CASE Verify
    <3>1. PICK review \in Reviews(draft) \cup {NoReview}: verification' = Verified(draft, signals, review)
      BY <2>3 DEF Verify
    <3>2. draft = Aggregate(state) /\ signals \in SUBSET Signal
      BY <2>3 DEF Verify, Kept, DraftIsOfState, Reviewing, OnlyToolsAreAsked
    <3>3. verification'.tools \subseteq Tool
      BY <1>2, <3>1, <3>2, VerifiedAsksForTools
    <3> QED BY <2>1, <3>3 DEF OnlyToolsAreAsked
  <2> QED BY <2>2, <2>3
<1>5. EndsForAReason'
  BY <1>1, <1>2 DEF EndsForAReason, PipelineAssumption
<1>6. RetryIsOfPrevious'
  BY <1>1 DEF Kept, RetryIsOfPrevious
<1> QED BY <1>1, <1>2, <1>3, <1>4, <1>5, <1>6 DEF Kept, PoolIsSound, StateIsKept, Reviewing

LEMMA EndKept ==
  ASSUME PipelineAssumption, Inv, Kept, EndNoProgress \/ EndByStatus \/ EndAtLimit PROVE Kept'
<1>1. /\ stage = "decision" /\ stage' = "ended"
      /\ UNCHANGED <<round, signals, pool, state, draft, verification, reviewed, previous>>
  BY DEF EndNoProgress, EndByStatus, EndAtLimit, Ends
<1>2. EndsForAReason'
  <2>1. CASE EndNoProgress
    BY <1>1, <2>1 DEF EndNoProgress, EndsForAReason, Stuck
  <2>2. CASE EndAtLimit
    BY <1>1, <2>2 DEF EndAtLimit, Ends, EndsForAReason
  <2>3. CASE EndByStatus
    <3>1. verification.status \in Verdicts \ {"tools_required"}
      BY <2>3, VerdictsFit DEF Inv, Verdict, EndByStatus, WantsRetry
    <3>2. EndReason(verification.status) # "no_progress"
      BY <3>1 DEF EndReason, Verdicts
    <3> QED BY <1>1, <2>3, <3>2 DEF EndByStatus, Ends, EndsForAReason
  <2> QED BY <2>1, <2>2, <2>3
<1> QED BY <1>1, <1>2 DEF Kept, PoolIsSound, StateIsKept, Reviewing, DraftIsOfState, RetryIsOfPrevious,
                          OnlyToolsAreAsked

LEMMA RetryKept ==
  ASSUME PipelineAssumption, Inv, Kept, RetryTools PROVE Kept'
<1> DEFINE batch == RetryBatch(verification)
<1>1. /\ stage = "decision" /\ stage' = "tool_execution" /\ round' = round + 1
      /\ previous' = [state |-> state, verification |-> verification]
      /\ pool' = Pool(batch, verification.tools)
      /\ UNCHANGED <<signals, state, draft, verification, reviewed, reason>>
  BY DEF RetryTools
<1>2. /\ round \in Nat /\ StateFits(state, round) /\ verification.tools \in SUBSET Tool /\ reason = None
      /\ signals \subseteq Signal
  BY <1>1 DEF Inv, Rounds, Kept, StateIsKept, Reviewing, OnlyToolsAreAsked, EndsForAReason
<1>3. IsSequence(batch) /\ ToSet(batch) \subseteq Tool
  <2>1. /\ IsSequence(batch) /\ DOMAIN batch = 1..Len(batch)
        /\ \A k \in 1..Len(batch): batch[k] \in verification.tools
    BY <1>2, BatchIs DEF RetryBatch
  <2> QED BY <1>2, <2>1 DEF ToSet
<1>4. /\ PoolFits(pool', round + 1) /\ pool'.batch = batch /\ pool'.selected = verification.tools
  <2>1. Pool(batch, verification.tools).batch = batch /\ Pool(batch, verification.tools).selected = verification.tools
    BY DEF Pool
  <2>2. round + 1 \in Nat
    BY <1>2
  <2> QED BY <1>1, <1>3, <2>1, <2>2, PoolStarts
<1> HIDE DEF batch
<1>5. round' > 0 /\ round' # 0 /\ round' - 1 = round
  BY <1>1, <1>2
<1>6. PoolIsSound'
  BY <1>1, <1>4, <1>5 DEF PoolIsSound, batch
<1>7. EndsForAReason'
  BY <1>1, <1>2 DEF EndsForAReason, PipelineAssumption
<1>8. StateIsKept'
  BY <1>1, <1>2, <1>5 DEF StateIsKept, Reviewing
<1> QED BY <1>1, <1>2, <1>6, <1>7, <1>8 DEF Kept, Reviewing, DraftIsOfState, RetryIsOfPrevious, OnlyToolsAreAsked

LEMMA NextKept == PipelineAssumption /\ Inv /\ Kept /\ [Next]_vars => Kept'
<1> SUFFICES ASSUME PipelineAssumption, Inv, Kept, [Next]_vars PROVE Kept'
  OBVIOUS
<1>1. CASE UNCHANGED vars
  BY <1>1 DEF vars, Kept, PoolIsSound, StateIsKept, Reviewing, DraftIsOfState, RetryIsOfPrevious,
              OnlyToolsAreAsked, EndsForAReason, Stuck
<1>2. CASE Next
  BY <1>2, EarlyKept, PoolKept, CollectKept, DraftKept, EndKept, RetryKept DEF Next
<1> QED BY <1>1, <1>2

LEMMA SpecKept == ASSUME PipelineAssumption PROVE Spec => [](Inv /\ Kept)
BY InitInv, InitKept, NextInv, NextKept, PTL DEF Spec

-----------------------------------------------------------------------------
(* Where a state is of use, and what it fits.                                  *)
LEMMA SomeStateFits ==
  ASSUME Inv, Kept, state # None PROVE \E n \in Nat: StateFits(state, n)
<1>1. round \in Nat /\ (round # 0 => round - 1 \in Nat)
  BY DEF Inv, Rounds
<1>2. CASE stage = "tool_execution"
  BY <1>1, <1>2 DEF Kept, StateIsKept
<1>3. CASE stage \in {"aggregation"} \cup Reviewing
  BY <1>1, <1>3 DEF Kept, StateIsKept
<1>4. CASE stage \in {"extraction", "selection", "failed"}
  BY <1>4 DEF Kept, StateIsKept
<1> QED BY <1>2, <1>3, <1>4 DEF Kept, StateIsKept

(* Whatever order the threads end in, the latest results are the tools, each    *)
(* with findings of its own, so the rules never find the structure of such a   *)
(* draft contradictory (ResultsAreTheTools; tool_executor.py, tool_result.py).  *)
THEOREM ResultsAreTheToolsAlways ==
  ASSUME PipelineAssumption PROVE Spec => []ResultsAreTheTools
<1>1. ASSUME Inv, Kept PROVE ResultsAreTheTools
  <2> SUFFICES ASSUME state # None
               PROVE  /\ Len(state.results) = Len(ToolName)
                      /\ \A i \in DOMAIN state.results:
                           state.results[i].tool = ToolName[i]
                           /\ \A f \in state.results[i].findings: f.tool = state.results[i].tool
                      /\ stage = "decision" =>
                           ~\E i \in ToolIssues(draft) \cup FindingIssues(draft): i.kind = "contradiction"
    BY DEF ResultsAreTheTools
  <2>1. PICK n \in Nat: StateFits(state, n)
    BY <1>1, SomeStateFits
  <2>2. /\ DOMAIN state.results = 1..Len(ToolName)
        /\ \A i \in 1..Len(ToolName): ResultFits(state.results[i], n) /\ state.results[i].tool = ToolName[i]
    BY <2>1, ResultsAre
  <2>3. ASSUME stage = "decision"
        PROVE  ~\E i \in ToolIssues(draft) \cup FindingIssues(draft): i.kind = "contradiction"
    <3>1. draft = Aggregate(state)
      BY <1>1, <2>3 DEF Kept, DraftIsOfState, Reviewing
    <3> QED BY <2>1, <3>1, NothingContradictory
  <2> QED BY <2>1, <2>2, <2>3 DEF StateFits, ResultFits
<1> QED BY SpecKept, <1>1, PTL

(* No tool runs twice in a round, rounds only go up, and the latest result of a *)
(* tool is of its last execution (HistoryInOrder; tool_executor.py).           *)
THEOREM HistoryInOrderAlways ==
  ASSUME PipelineAssumption PROVE Spec => []HistoryInOrder
<1>1. ASSUME Inv, Kept PROVE HistoryInOrder
  <2> SUFFICES ASSUME state # None
               PROVE  /\ InRounds(state.history)
                      /\ \A r \in ToSet(state.results):
                           IF Executions(state, r.tool) = <<>> THEN r.status = "skipped"
                           ELSE Last(Executions(state, r.tool)).round = r.round
    BY DEF HistoryInOrder, InRounds
  <2>1. PICK n \in Nat: StateFits(state, n)
    BY <1>1, SomeStateFits
  <2>2. ASSUME NEW r \in ToSet(state.results)
        PROVE  IF Executions(state, r.tool) = <<>> THEN r.status = "skipped"
               ELSE Last(Executions(state, r.tool)).round = r.round
    <3>1. PICK i \in 1..Len(ToolName): r = state.results[i]
      BY <2>1, ResultPlace
    <3>2. r.tool = ToolName[i]
      BY <2>1, <3>1, ResultsAre
    <3> QED BY <2>1, <3>1, <3>2, LastShown DEF Shows
  <2> QED BY <2>1, <2>2 DEF StateFits, HistoryFits
<1> QED BY SpecKept, <1>1, PTL

-----------------------------------------------------------------------------
(* Every tool that is selected, and whose latest result is a success, succeeded *)
(* the last time it ran.                                                       *)
LEMMA SelectedSucceeded ==
  ASSUME PipelineAssumption, NEW s, NEW n, StateFits(s, n), NEW t \in s.selected,
         \A r \in ToSet(s.results): r.selected => r.status = "success"
  PROVE  Last(Executions(s, t)).status = "success"
<1>1. t \in Tool
  BY DEF StateFits
<1>2. PICK i \in 1..Len(ToolName): ToolName[i] = t
  BY <1>1, ToolsAre
<1> DEFINE r == s.results[i]
<1>3. /\ ResultFits(r, n) /\ r.tool = t /\ (r.selected <=> t \in s.selected) /\ r \in ToSet(s.results)
  BY <1>2, ResultsAre
<1>4. \/ Executions(s, t) = <<>> /\ r.status = "skipped"
      \/ Executions(s, t) # <<>> /\ Shows(r, Last(Executions(s, t)))
  BY <1>2, LastShown
<1> HIDE DEF r
<1>5. r.status = "success"
  BY <1>3
<1> QED BY <1>4, <1>5 DEF Shows

(* Completed is said of verified results only, and then every selected tool     *)
(* succeeded the last time it ran (CompletedMeansVerified; runner.py).         *)
THEOREM CompletedMeansVerifiedAlways ==
  ASSUME PipelineAssumption PROVE Spec => []CompletedMeansVerified
<1>1. ASSUME Inv, Kept, CompletedIsReviewed PROVE CompletedMeansVerified
  <2> SUFFICES ASSUME stage = "ended"
               PROVE  /\ (reason = "completed") = (FinalStatus(verification.status) # "incomplete")
                      /\ reason = "completed" =>
                           \A t \in draft.selected: Last(Executions(state, t)).status = "success"
    BY DEF CompletedMeansVerified
  <2>1. verification.status \in Verdicts
    BY <1>1, VerdictsFit DEF Inv, Verdict
  <2>2. (reason = "completed") = (FinalStatus(verification.status) # "incomplete")
    BY <1>1, <2>1 DEF Inv, EndedFor, WantsRetry, EndReason, FinalStatus, Verdicts
  <2>3. ASSUME reason = "completed", NEW t \in draft.selected PROVE Last(Executions(state, t)).status = "success"
    <3>1. StateFits(state, round) /\ draft = Aggregate(state)
      BY <1>1 DEF Kept, StateIsKept, DraftIsOfState, Reviewing
    <3>2. draft.selected = state.selected /\ draft.results = state.results
      BY <3>1, AggregateIs
    <3>3. \A r \in ToSet(state.results): r.selected => r.status = "success"
      BY <1>1, <2>3, <3>2 DEF CompletedIsReviewed
    <3> QED BY <2>3, <3>1, <3>2, <3>3, SelectedSucceeded
  <2> QED BY <2>2, <2>3
<1> QED BY SpecKept, CompletedIsReviewedAlways, <1>1, PTL

(* The summary never looks better than the results it sums up                   *)
(* (SummaryHidesNothing; aggregator.py).                                      *)
THEOREM SummaryHidesNothingAlways ==
  ASSUME PipelineAssumption PROVE Spec => []SummaryHidesNothing
<1>1. ASSUME Inv, Kept PROVE SummaryHidesNothing
  <2> SUFFICES ASSUME stage = "ended"
               PROVE  /\ (draft.overall = "high_risk") = \E f \in draft.findings: f.claim.risk = "high"
                      /\ draft.overall = "likely_compliant" =>
                           /\ \A t \in draft.selected: Last(Executions(state, t)).status = "success"
                           /\ \A r \in ToSet(state.results): r.missing = {} /\ r.actions = {}
    BY DEF SummaryHidesNothing
  <2>1. StateFits(state, round) /\ draft = Aggregate(state)
    BY <1>1 DEF Kept, StateIsKept, DraftIsOfState, Reviewing
  <2>2. /\ draft.selected = state.selected
        /\ draft.actions = UNION {r.actions : r \in ToSet(state.results)}
        /\ draft.missing = UNION {r.missing : r \in ToSet(state.results)}
        /\ draft.overall = OverallStatus(ToSet(state.results), draft.findings, draft.actions, draft.missing)
    BY <2>1, AggregateIs
  <2>3. (draft.overall = "high_risk") = \E f \in draft.findings: f.claim.risk = "high"
    BY <2>2 DEF OverallStatus
  <2>4. ASSUME draft.overall = "likely_compliant"
        PROVE  /\ \A t \in draft.selected: Last(Executions(state, t)).status = "success"
               /\ \A r \in ToSet(state.results): r.missing = {} /\ r.actions = {}
    <3>1. /\ draft.actions = {} /\ draft.missing = {}
          /\ \A r \in ToSet(state.results): r.selected => r.status = "success"
      BY <2>2, <2>4 DEF OverallStatus
    <3>2. \A r \in ToSet(state.results): r.missing = {} /\ r.actions = {}
      BY <2>2, <3>1
    <3> QED BY <2>1, <2>2, <3>1, <3>2, SelectedSucceeded
  <2> QED BY <2>3, <2>4
<1> QED BY SpecKept, <1>1, PTL

-----------------------------------------------------------------------------
(* A tool that was run again: its last execution is the one of this round, the  *)
(* one before it the last of the round before.                                 *)
LEMMA LastTwo ==
  ASSUME PipelineAssumption, NEW s, NEW request, NEW g, NEW n, Retries(s, request, g, n), NEW t \in request.tools
  PROVE  LET w == Retried(s, request, g)
             runs == Executions(w, t)
         IN /\ runs # <<>> /\ \E k \in 1..Len(g): g[k].tool = t /\ Last(runs) = g[k]
            /\ Executions(s, t) # <<>> => NextToLast(runs, Last(Executions(s, t)))
<1> DEFINE w == Retried(s, request, g)
           h == s.history
           runs == RunsOf(w, t)
           earlier == RunsOf(s, t)
<1>1. w.history = h \o g
  BY RetriedIs
<1>2. /\ IsSequence(g) /\ Len(g) \in Nat
      /\ \A k, l \in 1..Len(g): g[k].tool = g[l].tool => k = l
      /\ \E k \in 1..Len(g): g[k].tool = t
  BY RetriesAre
<1>3. HistoryFits(h, n) /\ HistoryFits(w.history, n + 1)
  BY RetriedFits DEF Retries, StateFits
<1>4. /\ Executions(w, t) = At(w.history, runs)
      /\ Len(w.history) \in Nat /\ runs \in SUBSET (1..Len(w.history))
  BY <1>3, ExecutionsAre
<1>5. /\ Executions(s, t) = At(h, earlier)
      /\ Len(h) \in Nat /\ earlier \in SUBSET (1..Len(h))
  BY <1>3, ExecutionsAre
<1>6. Joins(w.history, h, g)
  BY <1>1, <1>2, <1>3, ConcatIs DEF HistoryFits
<1>7. DOMAIN w.history = 1..Len(w.history) /\ DOMAIN h = 1..Len(h)
  BY <1>3, SequenceIs DEF HistoryFits
<1>8. PICK k \in 1..Len(g): g[k].tool = t
  BY <1>2
<1> DEFINE m == Len(h) + k
<1> HIDE DEF w
<1>9. runs = earlier \cup {m}
  <2>1. m \in runs
    BY <1>2, <1>5, <1>6, <1>7, <1>8 DEF RunsOf, Joins
  <2>2. ASSUME NEW i \in earlier PROVE i \in runs
    <3>1. i \in 1..Len(h) /\ h[i].tool = t
      BY <1>7 DEF RunsOf
    <3>2. w.history[i] = h[i] /\ i \in 1..Len(w.history)
      BY <1>2, <1>5, <1>6, <3>1 DEF Joins
    <3> QED BY <1>7, <3>1, <3>2 DEF RunsOf
  <2>3. ASSUME NEW i \in runs PROVE i \in earlier \cup {m}
    <3>1. i \in 1..Len(w.history) /\ w.history[i].tool = t
      BY <1>7 DEF RunsOf
    <3>2. CASE i \in 1..Len(h)
      <4>1. w.history[i] = h[i]
        BY <1>6, <3>2 DEF Joins
      <4> QED BY <1>7, <3>1, <3>2, <4>1 DEF RunsOf
    <3>3. CASE i \notin 1..Len(h)
      <4>1. PICK l \in 1..Len(g): i = Len(h) + l
        BY <1>6, <3>1, <3>3 DEF Joins
      <4>2. w.history[i] = g[l]
        BY <1>6, <4>1 DEF Joins
      <4>3. l = k
        BY <1>2, <1>8, <3>1, <4>2
      <4> QED BY <4>1, <4>3
    <3> QED BY <3>2, <3>3
  <2> QED BY <2>1, <2>2, <2>3
<1>10. m \in Nat /\ m \notin earlier /\ \A i \in earlier: i <= m
  BY <1>2, <1>5
<1>11. w.history[m] = g[k] /\ \A i \in 1..Len(h): w.history[i] = h[i]
  BY <1>6, <1>8 DEF Joins
<1> HIDE DEF m, runs, earlier
<1>12. LastOf(runs, m)
  BY <1>9, <1>10 DEF LastOf
<1>13. At(w.history, runs) # <<>> /\ Last(At(w.history, runs)) = g[k]
  <2>1. At(w.history, runs) # <<>> /\ Last(At(w.history, runs)) = w.history[m]
    BY <1>4, <1>12, LastAt
  <2> QED BY <1>11, <2>1
<1>14. ASSUME Executions(s, t) # <<>>
       PROVE  NextToLast(At(w.history, runs), Last(At(h, earlier)))
  <2>1. earlier # {}
    BY <1>5, <1>14, AtIsEmpty
  <2>2. PICK x: LastOf(earlier, x) /\ Last(At(h, earlier)) = h[x]
    BY <1>5, <2>1, LastIsThere
  <2>3. runs \ {m} = earlier
    BY <1>9, <1>10
  <2>4. LastOf(runs \ {m}, x)
    BY <2>2, <2>3
  <2>5. x \in 1..Len(h)
    BY <1>5, <2>2 DEF LastOf
  <2>6. NextToLast(At(w.history, runs), w.history[x])
    BY <1>4, <1>12, <2>4, NextToLastAt
  <2> QED BY <1>11, <2>2, <2>5, <2>6
<1> QED BY <1>4, <1>5, <1>8, <1>13, <1>14 DEF w

(* Two states that look the same show the same content for every tool.         *)
LEMMA SameContent ==
  ASSUME PipelineAssumption, NEW a, NEW v, NEW b, NEW w, NEW n, NEW m, StateFits(a, n), StateFits(b, m),
         Snapshot(a, v) = Snapshot(b, w), NEW i \in 1..Len(ToolName)
  PROVE  Content(a.results[i].findings) = Content(b.results[i].findings)
<1> DEFINE look(r) == [r EXCEPT !.round = 0, !.findings = Content(@)]
           A == {look(r) : r \in ToSet(a.results)}
           B == {look(r) : r \in ToSet(b.results)}
<1>1. ASSUME NEW s, NEW u PROVE Snapshot(s, u).tools = {look(r) : r \in ToSet(s.results)}
  BY DEF Snapshot
<1>2. A = B
  BY <1>1
<1>3. ASSUME NEW r, Fields \subseteq DOMAIN r PROVE look(r).tool = r.tool /\ look(r).findings = Content(r.findings)
  BY <1>3 DEF Fields
<1> DEFINE r == b.results[i]
<1>4. r \in ToSet(b.results) /\ Fields \subseteq DOMAIN r /\ r.tool = ToolName[i]
  BY ResultsAre DEF ResultFits
<1>5. PICK q \in ToSet(a.results): look(q) = look(r)
  <2>1. look(r) \in B
    BY <1>4
  <2>2. look(r) \in A
    BY <1>2, <2>1
  <2> QED BY <2>2
<1>6. PICK j \in 1..Len(ToolName): q = a.results[j]
  BY <1>5, ResultsAre
<1>7. Fields \subseteq DOMAIN q /\ q.tool = ToolName[j]
  BY <1>6, ResultsAre DEF ResultFits
<1> HIDE DEF look, r
<1>8. ToolName[i] = ToolName[j] /\ Content(q.findings) = Content(r.findings)
  BY <1>3, <1>4, <1>5, <1>7
<1>9. i = j
  BY <1>8, ToolsAre
<1> QED BY <1>6, <1>8, <1>9 DEF r

(* The limit ends a run only after the last round allowed, and lack of progress *)
(* only after every tool asked for has answered twice in a row with the same    *)
(* claims (GivesUpInTime; runner.py, early_stop.py).                           *)
THEOREM GivesUpInTimeAlways ==
  ASSUME PipelineAssumption PROVE Spec => []GivesUpInTime
<1>1. ASSUME Inv, Kept PROVE GivesUpInTime
  <2>1. ASSUME reason = "retry_limit_exceeded" PROVE WantsRetry /\ round = MaxRetryRounds
    <3>1. stage = "ended"
      BY <1>1, <2>1 DEF Kept, EndsForAReason, PipelineAssumption
    <3> QED BY <1>1, <2>1, <3>1 DEF Inv, EndedFor
  <2>2. ASSUME reason = "no_progress", NEW t \in previous.verification.tools
        PROVE  LET runs == Executions(state, t)
                   last == Last(runs)
                   before == runs[Len(runs) - 1]
               IN /\ Len(runs) >= 2 /\ last.round = round
                  /\ {last.status, before.status} \subseteq {"success", "partial"}
                  /\ Content(last.findings) = Content(before.findings)
    <3> DEFINE a == previous.state
               v == previous.verification
    <3>1. stage = "ended" /\ Stuck
      BY <1>1, <2>2 DEF Kept, EndsForAReason, PipelineAssumption
    <3>2. PICK g: Retries(a, v, g, round - 1) /\ state = Retried(a, v, g)
      BY <1>1, <3>1 DEF Kept, RetryIsOfPrevious, Stuck
    <3>3. StateFits(state, round) /\ StateFits(a, round - 1) /\ t \in Tool
      BY <1>1, <2>2, <3>1, <3>2 DEF Kept, StateIsKept, Reviewing, Retries
    <3>4. PICK i \in 1..Len(ToolName): ToolName[i] = t
      BY <3>3, ToolsAre
    <3>5. /\ HasNormalRecord(a, t) /\ HasNormalRecord(state, t)
          /\ Last(Executions(state, t)).round = round
          /\ Snapshot(a, v) = Snapshot(state, verification)
      BY <2>2, <3>1 DEF Stuck, HasNoProgress
    <3> HIDE DEF a, v
    <3>6. ResultOf(a.results, t) = a.results[i] /\ ResultOf(state.results, t) = state.results[i]
      BY <3>3, <3>4, ResultOfIs
    <3> DEFINE last == Last(Executions(state, t))
               before == Last(Executions(a, t))
    <3>7. /\ Executions(a, t) # <<>> /\ Normal(before) /\ Normal(last)
      BY <3>5 DEF HasNormalRecord
    <3>8. before.status \in {"success", "partial"} /\ last.status \in {"success", "partial"}
      BY <3>7 DEF Normal
    <3>9. a.results[i] = before /\ state.results[i] = last
      <4>1. Executions(state, t) # <<>>
        BY <3>5 DEF HasNormalRecord
      <4>2. Shows(a.results[i], before) /\ Shows(state.results[i], last)
        BY <3>3, <3>4, <3>7, <4>1, LastShown
      <4> QED BY <3>8, <4>2 DEF Shows
    <3>10. Content(before.findings) = Content(last.findings)
      <4>1. Content(a.results[i].findings) = Content(state.results[i].findings)
        BY <3>3, <3>5, SameContent
      <4> QED BY <3>9, <4>1
    <3>12. NextToLast(Executions(state, t), before)
      BY <2>2, <3>2, <3>7, LastTwo DEF v
    <3>11. /\ Len(Executions(state, t)) >= 2
           /\ Executions(state, t)[Len(Executions(state, t)) - 1] = before
      BY <3>12 DEF NextToLast
    <3> HIDE DEF last, before
    <3> QED BY <3>5, <3>8, <3>10, <3>11 DEF last
  <2>3. reason = "no_progress" => WantsRetry
    BY <1>1 DEF Kept, EndsForAReason, Stuck, HasNoProgress, WantsRetry
  <2> QED BY <2>1, <2>2, <2>3 DEF GivesUpInTime
<1> QED BY SpecKept, <1>1, PTL

-----------------------------------------------------------------------------
(* What a retry does to a finding that was there.                              *)
LEMMA FindingStays ==
  ASSUME PipelineAssumption, NEW s, NEW request, NEW g, NEW n, Retries(s, request, g, n), NEW f \in FindingsOf(s)
  PROVE  \/ Answered(Retried(s, request, g), f.tool)
         \/ f \in Challenged(request)
         \/ /\ f \in FindingsOf(Retried(s, request, g))
            /\ f.claim.requires \subseteq ResultOf(Retried(s, request, g).results, f.tool).actions
<1> DEFINE w == Retried(s, request, g)
<1>1. StateFits(s, n) /\ StateFits(w, n + 1) /\ n \in Nat
  BY RetriedFits DEF Retries
<1>2. PICK i \in 1..Len(ToolName): f \in s.results[i].findings
  <2>1. PICK r \in ToSet(s.results): f \in r.findings
    BY DEF FindingsOf
  <2> QED BY <1>1, <2>1, ResultPlace
<1> DEFINE p == s.results[i]
           t == ToolName[i]
<1>3. ResultFits(p, n) /\ p.tool = t /\ f.tool = t /\ f.claim.requires \subseteq p.actions
  BY <1>1, <1>2, ResultsAre DEF ResultFits
<1>4. ResultOf(w.results, t) = w.results[i] /\ w.results[i] \in ToSet(w.results)
  BY <1>1, ResultOfIs, ResultsAre
<1>5. CASE t \notin request.tools
  <2>1. w.results[i] = p
    BY <1>5, RetriedIs
  <2>2. f \in FindingsOf(w)
    BY <1>2, <1>4, <2>1 DEF FindingsOf
  <2> QED BY <1>3, <1>4, <2>1, <2>2
<1>6. CASE t \in request.tools
  <2>1. PICK k \in 1..Len(g): g[k].tool = t /\ Last(Executions(w, t)) = g[k]
    BY <1>6, LastTwo
  <2> DEFINE r == g[k]
             q == Retained(p, r, request)
  <2>2. ResultFits(r, n + 1) /\ r.selected
    BY RetriesAre
  <2>3. w.results[i] = q
    BY <2>1, RetriedIs
  <2>4. Answered(w, t) \/ r.status = "failed"
    BY <2>1 DEF Answered
  <2> HIDE DEF p, r, w
  <2>5. r.status = "failed" =>
          \A e \in p.findings: e \in Challenged(request) \/ (e \in q.findings /\ e.claim.requires \subseteq q.actions)
    BY <1>1, <1>3, <2>1, <2>2, RetainedFits DEF r
  <2> HIDE DEF q
  <2>6. f \in q.findings => f \in FindingsOf(w)
    BY <1>4, <2>3 DEF FindingsOf
  <2> QED BY <1>2, <1>3, <1>4, <2>3, <2>4, <2>5, <2>6 DEF p, w
<1> QED BY <1>5, <1>6

(* A retry that fails takes no finding away that nobody challenged, nor an      *)
(* action such a finding asks for (UnchallengedFindingsStay; tool_executor.py). *)
THEOREM UnchallengedFindingsStayAlways ==
  ASSUME PipelineAssumption PROVE Spec => UnchallengedFindingsStay
<1> DEFINE Stay == state # None /\ state' # state =>
                     \A f \in FindingsOf(state):
                       \/ Answered(state', f.tool)
                       \/ f \in Challenged(verification)
                       \/ /\ f \in FindingsOf(state')
                          /\ f.claim.requires \subseteq ResultOf(state'.results, f.tool).actions
<1>1. ASSUME Inv, Kept, [Next]_vars PROVE [Stay]_vars
  <2> SUFFICES ASSUME state # None, state' # state, NEW f \in FindingsOf(state)
               PROVE  \/ Answered(state', f.tool)
                      \/ f \in Challenged(verification)
                      \/ /\ f \in FindingsOf(state')
                         /\ f.claim.requires \subseteq ResultOf(state'.results, f.tool).actions
    OBVIOUS
  <2>1. CollectTools
    BY <1>1 DEF Next, vars, StageFails, Extract, Select, StartTool, EndTool, AggregateResults, Verify,
                EndNoProgress, EndByStatus, EndAtLimit, Ends, RetryTools
  <2>2. round > 0
    BY <1>1, <2>1 DEF CollectTools, Kept, StateIsKept, Inv, Rounds
  <2>3. /\ Retries(state, verification, Gathered(pool), round - 1)
        /\ state' = Retried(state, verification, Gathered(pool))
    BY <1>1, <2>1, <2>2, Collected
  <2> QED BY <2>3, FindingStays
<1> QED BY SpecKept, <1>1, PTL DEF Spec, UnchallengedFindingsStay
-----------------------------------------------------------------------------
(* What the user sees of a diagnosis: an assessment is the verdict of          *)
(* decide_result_status on the diagnosis at hand, which stays as it came.       *)
CONSTANTS ToolOrder, Excluded, Diagnosis, SubjectMax, SourceMax
VARIABLES diagnosis, assessment

Presented == INSTANCE Presentation

Decided(d, seen) ==
  /\ d \in Diagnosis
  /\ seen.decision = Presented!Decide(d)
  /\ seen.completed <=> Presented!Completed(d)

PresentedFits ==
  /\ diagnosis # None => diagnosis \in Diagnosis
  /\ assessment # None => Decided(diagnosis, assessment)

(* The fields a verdict turns on, as the rule of status.py lists them.          *)
Duties(d) ==
  {t \in d.selected \ Excluded : \E f \in Presented!Concerns(d, t): f.determination \in Presented!ActionDeterminations}

Clear(d) ==
  /\ Presented!Completed(d) /\ d.signals = {} /\ Duties(d) = {}
  /\ Presented!Failed(d) = {}
  /\ \A t \in Presented!Regulated(d): \A f \in Presented!Concerns(d, t): ~Presented!Insufficient(f)

Certifications(d) ==
  {f.tool : f \in {g \in {h \in d.findings : h.tool \in Presented!Regulated(d)} :
                     g.determination \in Presented!ActionDeterminations}}

Lacking(d) ==
  {f.tool : f \in {g \in {h \in d.findings : h.tool \in Presented!Regulated(d)} : Presented!Insufficient(g)}}

LEMMA DutiesAreCertifications ==
  ASSUME NEW d
  PROVE  Certifications(d) = Duties(d)
<1>1. ASSUME NEW t \in Certifications(d) PROVE t \in Duties(d)
  BY <1>1 DEF Certifications, Duties, Presented!Regulated, Presented!Concerns
<1>2. ASSUME NEW t \in Duties(d) PROVE t \in Certifications(d)
  BY <1>2 DEF Certifications, Duties, Presented!Regulated, Presented!Concerns
<1> QED BY <1>1, <1>2

DecideAs(d) ==
  IF ~Presented!Completed(d) THEN Presented!Decision("recheck", "incomplete", {})
  ELSE IF Certifications(d) # {}
       THEN Presented!Decision("certification", "certification_required", Certifications(d))
  ELSE IF d.signals # {} THEN Presented!Decision("recheck", "out_of_scope", {})
  ELSE IF Presented!Regulated(d) = {} THEN Presented!Decision("allowed", "no_regulated_tool", {})
  ELSE IF Presented!Failed(d) # {} THEN Presented!Decision("recheck", "tool_failed", Presented!Failed(d))
  ELSE IF Lacking(d) # {} THEN Presented!Decision("recheck", "insufficient_information", Lacking(d))
  ELSE Presented!Decision("allowed", "no_requirement", Presented!Regulated(d))

LEMMA DecideIs ==
  ASSUME NEW d
  PROVE  Presented!Decide(d) = DecideAs(d)
BY DEF Presented!Decide, DecideAs, Certifications, Lacking

(* "May be sold" is the last of the rule's answers.                             *)
LEMMA AllowedIsClear ==
  ASSUME NEW d, Presented!Decide(d).status = "allowed"
  PROVE  Clear(d)
<1>1. Presented!Completed(d) /\ Certifications(d) = {} /\ d.signals = {}
  BY DecideIs DEF DecideAs, Presented!Decision
<1>2. Presented!Regulated(d) = {} \/ (Presented!Failed(d) = {} /\ Lacking(d) = {})
  BY DecideIs DEF DecideAs, Presented!Decision
<1>3. Presented!Failed(d) = {}
  BY <1>2 DEF Presented!Failed
<1>4. ASSUME NEW t \in Presented!Regulated(d), NEW f \in Presented!Concerns(d, t)
      PROVE  ~Presented!Insufficient(f)
  <2>1. Lacking(d) = {}
    BY <1>2, <1>4
  <2>2. f \in {h \in d.findings : h.tool \in Presented!Regulated(d)}
    BY <1>4 DEF Presented!Concerns
  <2> QED BY <2>1, <2>2 DEF Lacking
<1> QED BY <1>1, <1>3, <1>4, DutiesAreCertifications DEF Clear

LEMMA DutiesAreTold ==
  ASSUME NEW d, Presented!Completed(d), Duties(d) # {}
  PROVE  Presented!Decide(d) = Presented!Decision("certification", "certification_required", Duties(d))
BY DecideIs, DutiesAreCertifications DEF DecideAs

LEMMA DeterminationsKnown ==
  ASSUME NEW x \in Presented!Determinations,
         x \notin Presented!ActionDeterminations, x # "insufficient_information"
  PROVE  x \in {"not_required", "not_applicable"}
BY DEF Presented!Determinations, Presented!ActionDeterminations

LEMMA ClearHasNothing ==
  ASSUME Presented!DiagnosisAssumption, NEW d \in Diagnosis, Clear(d),
         NEW t \in d.selected \ Excluded
  PROVE  /\ d.results[t] # None /\ d.results[t].status = "success"
         /\ \A f \in Presented!Concerns(d, t):
              f.determination \in {"not_required", "not_applicable"} /\ f.risk # "unknown"
<1>1. t \in Presented!Regulated(d)
  BY DEF Presented!Regulated
<1>2. d.results[t] # None /\ d.results[t].status = "success"
  BY <1>1 DEF Clear, Presented!Failed
<1>3. ASSUME NEW f \in Presented!Concerns(d, t)
      PROVE  f.determination \in {"not_required", "not_applicable"} /\ f.risk # "unknown"
  <2>1. f.determination \in Presented!Determinations
    BY DEF Presented!DiagnosisAssumption, Presented!Concerns
  <2>2. f.determination # "insufficient_information" /\ f.risk # "unknown"
    BY <1>1, <1>3 DEF Clear, Presented!Insufficient
  <2>3. f.determination \notin Presented!ActionDeterminations
    BY <1>3 DEF Clear, Duties
  <2> QED BY <2>1, <2>2, <2>3, DeterminationsKnown
<1> QED BY <1>2, <1>3

LEMMA DecidedIsEarned ==
  ASSUME Presented!DiagnosisAssumption, PresentedFits
  PROVE  Presented!AllowedIsEarned
<1> SUFFICES ASSUME assessment # None PROVE Presented!AllowedIsEarned
  BY DEF Presented!AllowedIsEarned
<1>1. /\ diagnosis \in Diagnosis /\ assessment.decision = Presented!Decide(diagnosis)
      /\ assessment.completed <=> Presented!Completed(diagnosis)
  BY DEF PresentedFits, Decided
<1>2. ASSUME assessment.decision.status = "allowed"
      PROVE  /\ assessment.completed /\ diagnosis.signals = {} /\ Duties(diagnosis) = {}
             /\ Clear(diagnosis)
  <2>1. Clear(diagnosis)
    BY <1>1, <1>2, AllowedIsClear
  <2> QED BY <1>1, <2>1 DEF Clear
<1>3. ASSUME assessment.completed, Duties(diagnosis) # {}
      PROVE  assessment.decision
               = Presented!Decision("certification", "certification_required", Duties(diagnosis))
  BY <1>1, <1>3, DutiesAreTold
<1>4. ASSUME assessment.decision.status = "allowed", NEW t \in diagnosis.selected \ Excluded
      PROVE  /\ diagnosis.results[t] # None /\ diagnosis.results[t].status = "success"
             /\ \A f \in Presented!Concerns(diagnosis, t):
                  f.determination \in {"not_required", "not_applicable"} /\ f.risk # "unknown"
  BY <1>1, <1>2, <1>4, ClearHasNothing
<1> QED BY <1>2, <1>3, <1>4 DEF Presented!AllowedIsEarned, Duties

LEMMA PresentedFitsAlways ==
  ASSUME Presented!DiagnosisAssumption
  PROVE  Presented!Spec => []PresentedFits
<1>1. Presented!Init => PresentedFits
  BY DEF Presented!Init, PresentedFits
<1>2. PresentedFits /\ [Presented!Next]_Presented!vars => PresentedFits'
  <2> SUFFICES ASSUME PresentedFits, [Presented!Next]_Presented!vars PROVE PresentedFits'
    OBVIOUS
  <2>1. CASE Presented!Diagnose
    <3>1. assessment = None
      BY <2>1 DEF PresentedFits, Presented!Diagnose, Decided, Presented!DiagnosisAssumption
    <3> QED BY <2>1, <3>1 DEF PresentedFits, Presented!Diagnose
  <2>2. CASE Presented!Present
    <3>1. diagnosis \in Diagnosis /\ diagnosis' = diagnosis
      BY <2>2 DEF PresentedFits, Presented!Present
    <3>2. Decided(diagnosis, assessment')
      BY <2>2, <3>1 DEF Presented!Present, Decided
    <3> QED BY <3>1, <3>2 DEF PresentedFits
  <2>3. CASE UNCHANGED Presented!vars
    BY <2>3 DEF PresentedFits, Presented!vars, Decided
  <2> QED BY <2>1, <2>2, <2>3 DEF Presented!Next
<1> QED BY <1>1, <1>2, PTL DEF Presented!Spec

(* "May be sold" is said only of a diagnosis that came to its end, whose fields *)
(* all answered without finding or lacking anything; of one that came to its    *)
(* end, a duty that was found is told first (results/status.py).                *)
THEOREM AllowedIsEarnedAlways ==
  ASSUME Presented!DiagnosisAssumption
  PROVE  Presented!Spec => []Presented!AllowedIsEarned
BY PresentedFitsAlways, DecidedIsEarned, PTL
=============================================================================

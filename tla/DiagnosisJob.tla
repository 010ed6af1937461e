---------------------------- MODULE DiagnosisJob ----------------------------
(* The rounds of one diagnosis: a run of the guard and the pipeline, the    *)
(* questions it leaves, the answers of the user, the next run               *)
(* (app/diagnosis/job.py, guard.py, answers.py, questions.py, what          *)
(* app/sessions/manager/runner.py makes of the outcome).  How runs share    *)
(* the server with others is the matter of SessionManager.                  *)
EXTENDS Naturals, FiniteSets, SequencesExt, FiniteSetsExt

CONSTANTS
  MaxQuestionRounds,   \* MAX_QUESTION_ROUNDS
  Text, Blank,         \* sentences a question may consist of; nothing but spaces
  ModelQuestions,      \* the lists of questions the pipeline may hand over
  None

VARIABLES
  status,          \* of the session
  question_round,  \* questions asked so far
  questions,       \* of the last of these rounds, as the user sees them
  answers,         \* of all rounds
  result,          \* FinalAssessment of the last run that had one
  shown            \* what the user has been shown, by round: the backend keeps it

vars == <<status, question_round, questions, answers, result, shown>>

Contract == INSTANCE PipelineContract WITH outcome <- result

(* An answer names the round it is of.                                      *)
FollowUpQuestion == [text : Text, required : BOOLEAN, by : {"model", "tool"}]

FinalAssessment ==
  [reason : Contract!Reason \cup {"question_limit_exceeded"}, status : Contract!Status,
   questions : Seq(FollowUpQuestion), product : Seq([question : Text, answer : Nat \X Text])]

(* The model may ask any number of questions, twice the same one too.       *)
JobAssumption ==
  /\ MaxQuestionRounds \in Nat
  /\ IsFiniteSet(Text)
  /\ ModelQuestions \subseteq Seq([text : Text, required : BOOLEAN, by : {"model"}])
  /\ None \notin FinalAssessment

(* A FollowUpQuestion of the verification model or, by tools, of a tool.    *)
Question(text, required, by) == [text |-> text, required |-> required, by |-> by]

Texts(qs) == {q.text : q \in ToSet(qs)}

-----------------------------------------------------------------------------
(* Places of a sequence, the first one first.                               *)
InOrder(places) ==
  CHOOSE p \in [1..Cardinality(places) -> places]:
    \A i, j \in 1..Cardinality(places): i < j => p[i] < p[j]

(* Questions as the user sees them: one per sentence, those that have to be *)
(* answered first, keyed by round and order.                                *)
Unique(qs) ==
  LET first == {i \in DOMAIN qs: qs[i].text # Blank /\ \A j \in 1..(i - 1): qs[j].text # qs[i].text}
      last(i) == Max({j \in DOMAIN qs: qs[j].text = qs[i].text})
  IN [i \in 1..Cardinality(first) |-> qs[last(InOrder(first)[i])]]

BuildQuestions(qs, round) ==
  LET unique  == Unique(qs)
      ordered == InOrder({i \in DOMAIN unique: unique[i].required})
                   \o InOrder({i \in DOMAIN unique: ~unique[i].required})
      at(i)   == unique[ordered[i]]
  IN [i \in DOMAIN ordered |-> [key |-> <<round, i>>, text |-> at(i).text, by |-> at(i).by]]

Rounds(given) == {a.question_round : a \in given}

NextRound(given) == Max(Rounds(given) \cup {0}) + 1

(* A line of listing_text that holds an answer.                             *)
Line(question, answer) == [question |-> question, answer |-> answer]

(* Mutant: questions keep the order they were found in.                     *)
InOrderFound(previous, given) ==
  LET latest == Max(Rounds(given))
  IN {Line(Unique(previous.questions)[a.question_key[2]].text, a.answer_text) :
        a \in {b \in given: b.question_round = latest}}

(* The question of an answer is found by building the questions of the      *)
(* previous result anew.                                                    *)
AnswerLines(previous, given) ==
  LET latest == Max(Rounds(given))
      asked == ToSet(BuildQuestions(previous.questions, latest))
  IN {Line((CHOOSE q \in asked: q.key = a.question_key).text, a.answer_text) :
        a \in {b \in given: b.question_round = latest}}

(* The product of this run: extracted anew, or that of the previous run     *)
(* with the last answers.                                                   *)
Product ==
  IF result = None THEN <<>>
  ELSE result.product \o SetToSeq(AnswerLines(result, answers))

-----------------------------------------------------------------------------
(* What a tool misses becomes a question, unless it is one already or was   *)
(* one in an earlier round.                                                 *)
(* Mutant: only the last questions are looked at.                           *)
AskedLast(previous) == IF previous = None THEN {} ELSE Texts(previous.questions)

AskedBefore(previous) ==
  IF previous = None THEN {}
  ELSE Texts(previous.questions) \cup {l.question : l \in ToSet(previous.product)}

NewQuestions(r, missing, previous) ==
  LET new == {x \in missing: x # Blank /\ x \notin AskedBefore(previous) \cup Texts(r.questions)}
  IN [i \in 1..Cardinality(new) |-> Question(SetToSeq(new)[i], TRUE, "tool")]

(* Mutant: the verdict of the pipeline stays.                               *)
AskOnly(r, new) ==
  IF new = <<>> THEN r
  ELSE [r EXCEPT !.reason = "user_input_required", !.questions = @ \o new]

AskMissingInformation(r, new) ==
  IF new = <<>> THEN r
  ELSE [r EXCEPT !.reason = "user_input_required", !.status = "incomplete",
                 !.questions = @ \o new]

(* Past the last round of questions the run ends without an answer.         *)
CloseAtQuestionLimit(r) ==
  [r EXCEPT !.reason = "question_limit_exceeded", !.status = "incomplete"]

-----------------------------------------------------------------------------
Init ==
  /\ status = "accepted" /\ question_round = 0 /\ questions = <<>>
  /\ answers = {} /\ result = None /\ shown = <<>>

Completes(r) ==
  /\ status' = "completed" /\ result' = r
  /\ UNCHANGED <<question_round, questions, answers, shown>>

Asks(r, qs) ==
  /\ status' = "awaiting_input" /\ result' = r /\ questions' = qs
  /\ question_round' = question_round + 1 /\ shown' = Append(shown, qs)
  /\ UNCHANGED answers

Fails ==
  /\ status' = "failed"
  /\ UNCHANGED <<question_round, questions, answers, result, shown>>

(* The guard stops the input, a stage fails with an error of its own, or    *)
(* an exception nobody expected leaves the job.                             *)
FailRun == status = "accepted" /\ Fails

(* What a session may ask (_check_questions); anything else fails the run.  *)
MayAsk(qs) ==
  /\ qs # <<>>
  /\ {q.key : q \in ToSet(qs)} \cap {q.key : q \in ToSet(questions)} = {}

Assessment(ending, asked) ==
  [reason |-> ending.reason, status |-> ending.status, questions |-> asked, product |-> Product]

AtQuestionLimit == question_round >= MaxQuestionRounds

RunJob ==
  /\ status = "accepted"
  /\ \E ending \in Contract!Endings, qs \in ModelQuestions, missing \in SUBSET Text:
       LET assessment == Assessment(ending, qs)
           r == AskMissingInformation(assessment, NewQuestions(assessment, missing, result))
           asked == BuildQuestions(r.questions, NextRound(answers))
       IN /\ ending.asks = (\E q \in ToSet(qs): q.required)
          /\ IF r.reason # "user_input_required" THEN Completes(r)
             ELSE IF AtQuestionLimit THEN Completes(CloseAtQuestionLimit(r))
             ELSE IF MayAsk(asked) THEN Asks(r, asked)
             ELSE Fails

(* Every question of the round is answered, in a request that names each    *)
(* once; the answers go with those of earlier rounds.                       *)
Resume ==
  /\ status = "awaiting_input"
  /\ answers' = answers \cup {[question_round |-> question_round, question_key |-> q.key,
                               answer_text |-> <<question_round, q.text>>] : q \in ToSet(questions)}
  /\ status' = "accepted"
  /\ UNCHANGED <<question_round, questions, result, shown>>

Next == FailRun \/ RunJob \/ Resume

Spec == Init /\ [][Next]_vars
-----------------------------------------------------------------------------
TypeOK ==
  /\ status \in {"accepted", "awaiting_input", "completed", "failed"}
  /\ question_round \in 0..MaxQuestionRounds /\ Len(shown) = question_round
  /\ Rounds(answers) \subseteq 1..question_round
  /\ (status = "awaiting_input") => question_round \notin Rounds(answers)

(* The round in the keys is counted by the job from the answers, by the     *)
(* session from its questions: they agree, so a key never comes back, and   *)
(* the backend finds what an answer is for.                                 *)
KeysNameTheirRound ==
  /\ \A q \in ToSet(questions): q.key[1] = question_round
  /\ \A i \in DOMAIN shown: \A q \in ToSet(shown[i]): q.key[1] = i

(* The product a result is about holds every answer given so far once, next *)
(* to the question the user saw when giving it - although the questions are *)
(* not kept but built anew, from a result that has changed hands since.     *)
AnswersUnderTheirQuestions ==
  status \in {"awaiting_input", "completed"} =>
    /\ Len(result.product) = Cardinality(answers)
    /\ ToSet(result.product) = {Line(a.answer_text[2], a.answer_text) : a \in answers}

(* What a tool misses is asked for once: a question that comes again was    *)
(* put by the verification model, whose questions nobody filters.           *)
NothingMissingAskedTwice ==
  \A i, j \in DOMAIN shown: i < j =>
    \A q \in ToSet(shown[j]): q.text \in {p.text : p \in ToSet(shown[i])} => q.by = "model"

(* A diagnosis is closed at the limit only over a question that is still    *)
(* open: one the user was never asked, or one of the model.                 *)
LimitOverOpenQuestions ==
  status = "completed" /\ result.reason = "question_limit_exceeded" =>
    /\ question_round = MaxQuestionRounds
    /\ \E q \in ToSet(result.questions):
         q.by = "model" \/ \A i \in DOMAIN shown: q.text \notin {p.text : p \in ToSet(shown[i])}

(* Whoever changes a result keeps its reason and its verdict in line: it is *)
(* verified exactly if the pipeline completed and nothing was left to ask.  *)
VerdictFitsReason ==
  /\ result # None => (result.reason = "completed") = (result.status # "incomplete")
  /\ status = "completed" => result.reason # "user_input_required"
  /\ status = "awaiting_input" => result.reason = "user_input_required" /\ questions # <<>>
=============================================================================

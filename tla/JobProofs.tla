------------------------------ MODULE JobProofs ------------------------------
(* The rounds of one diagnosis fit together, for any number of rounds,          *)
(* questions and sentences, whatever the verification model asks and the       *)
(* tools miss.                                                                *)
(*                                                                            *)
(* The questions of a round are not kept: the answers find theirs by building  *)
(* the questions anew from the last result.  So the invariant says that this   *)
(* gives what was shown (QuestionsFit), that the answers are those to what was  *)
(* shown, of all rounds but one that is open (AnswersFit), that a round asks    *)
(* each sentence once under keys of its own (ShownFit), and that a result is    *)
(* about the answers that were there before its run (ProductFits): the run      *)
(* that follows adds those of the last round.  Orders of places and of sets are *)
(* dealt with by induction over the least place that breaks the order.         *)
(*                                                                            *)
(* Below, what is recorded of a run: the step that is blamed for its error, the  *)
(* numbers that stand for ids, the calls of language models, and who hears of a  *)
(* measurement.                                                               *)
EXTENDS DiagnosisJob, FiniteSetTheorems, SequenceTheorems, TLAPS

PublicQuestion == [key : Nat \X Nat, text : Text, by : {"model", "tool"}]

Types ==
  /\ status \in {"accepted", "awaiting_input", "completed", "failed"}
  /\ question_round \in 0..MaxQuestionRounds
  /\ shown \in Seq(Seq(PublicQuestion)) /\ Len(shown) = question_round
  /\ questions = IF question_round = 0 THEN <<>> ELSE shown[question_round]
  /\ result \in FinalAssessment \cup {None}

(* A round asks for something, each sentence once, under the keys of the round.*)
ShownFit ==
  \A i \in 1..question_round:
    /\ shown[i] # <<>>
    /\ \A k \in DOMAIN shown[i]: shown[i][k].key = <<i, k>>
    /\ \A k, l \in DOMAIN shown[i]: shown[i][k].text = shown[i][l].text => k = l

AnswersOf(i) ==
  {[question_round |-> i, question_key |-> q.key, answer_text |-> <<i, q.text>>] : q \in ToSet(shown[i])}

(* All rounds are answered, but for the one the user is asked now.             *)
Answered == IF status = "awaiting_input" THEN question_round - 1 ELSE question_round

AnswersFit == answers = UNION {AnswersOf(i) : i \in 1..Answered} /\ IsFiniteSet(answers)

(* The questions can be built anew from the last result.                       *)
QuestionsFit ==
  /\ status = "completed" => result # None
  /\ status \in {"accepted", "awaiting_input"} =>
       /\ (question_round = 0) = (result = None)
       /\ result # None => questions = BuildQuestions(result.questions, question_round)

(* A result is about the answers that were given before its run.               *)
Told(n) == {a \in answers: a.question_round <= n}

ProductFits ==
  status # "failed" /\ result # None =>
    LET told == Told(IF status = "completed" THEN question_round ELSE question_round - 1)
    IN /\ Len(result.product) = Cardinality(told)
       /\ ToSet(result.product) = {Line(a.answer_text[2], a.answer_text) : a \in told}

Inv ==
  /\ Types /\ ShownFit /\ AnswersFit /\ QuestionsFit /\ ProductFits
  /\ NothingMissingAskedTwice /\ LimitOverOpenQuestions /\ VerdictFitsReason

-----------------------------------------------------------------------------
(* Every set of numbers has a least one.                                      *)
Smaller == {p \in Nat \X Nat: p[1] < p[2]}

LEMMA LeastNumber ==
  ASSUME NEW S \in SUBSET Nat, S # {} PROVE \E n \in S: \A m \in S: n <= m
<1>1. OpToRel(<, Nat) = Smaller
  BY Zenon DEF OpToRel, Smaller
<1>2. IsWellFoundedOn(Smaller, Nat)
  BY <1>1, NatLessThanWellFounded, Zenon
<1>3. PICK n \in S: \A m \in S: ~(<<m, n>> \in Smaller)
  BY <1>2, WFMin, Zenon
<1>4. \A m \in S: n \in Nat /\ m \in Nat /\ ~(m < n)
  BY <1>3 DEF Smaller
<1> QED BY <1>4

LEMMA PlacesAreFinite ==
  ASSUME NEW n \in Nat, NEW places \in SUBSET (1..n)
  PROVE  IsFiniteSet(places) /\ Cardinality(places) \in Nat /\ (places # {} => Cardinality(places) # 0)
<1>1. IsFiniteSet(1..n)
  BY FS_Interval
<1>2. IsFiniteSet(places)
  BY <1>1, FS_Subset
<1> QED BY <1>2, FS_CardinalityType, FS_EmptySet

LEMMA FunctionIsSeq ==
  ASSUME NEW n \in Nat, NEW S, NEW f \in [1..n -> S] PROVE f \in Seq(S) /\ Len(f) = n
OBVIOUS

LEMMA SeqParts ==
  ASSUME NEW S, NEW s \in Seq(S)
  PROVE  Len(s) \in Nat /\ DOMAIN s = 1..Len(s) /\ s \in [1..Len(s) -> S] /\ \A i \in 1..Len(s): s[i] \in S
OBVIOUS

LEMMA ConcatOfSets ==
  ASSUME NEW S, NEW s \in Seq(S), NEW t \in Seq(S)
  PROVE  s \o t \in Seq(S) /\ Len(s \o t) = Len(s) + Len(t) /\ ToSet(s \o t) = ToSet(s) \cup ToSet(t)
<1>1. s \o t \in Seq(S) /\ Len(s \o t) = Len(s) + Len(t) /\ Len(s) \in Nat /\ Len(t) \in Nat
  OBVIOUS
<1>2. \A i \in 1..(Len(s) + Len(t)): (s \o t)[i] = IF i <= Len(s) THEN s[i] ELSE t[i - Len(s)]
  OBVIOUS
<1>3. DOMAIN (s \o t) = 1..(Len(s) + Len(t)) /\ DOMAIN s = 1..Len(s) /\ DOMAIN t = 1..Len(t)
  BY <1>1
<1> DEFINE w == s \o t
<1> HIDE DEF w
<1>4. \A i \in 1..Len(s): i \in 1..(Len(s) + Len(t)) /\ w[i] = s[i]
  BY <1>1, <1>2 DEF w
<1>5. ASSUME NEW i \in 1..Len(t) PROVE Len(s) + i \in 1..(Len(s) + Len(t)) /\ w[Len(s) + i] = t[i]
  <2>1. Len(s) + i \in 1..(Len(s) + Len(t)) /\ ~(Len(s) + i <= Len(s)) /\ (Len(s) + i) - Len(s) = i
    BY <1>1
  <2> QED BY <1>2, <2>1 DEF w
<1>6. \A i \in 1..(Len(s) + Len(t)): (i \in 1..Len(s) /\ w[i] = s[i]) \/ (i - Len(s) \in 1..Len(t) /\ w[i] = t[i - Len(s)])
  BY <1>1, <1>2 DEF w
<1>8. DOMAIN w = 1..(Len(s) + Len(t))
  BY <1>3 DEF w
<1>9. ASSUME NEW x \in ToSet(w) PROVE x \in ToSet(s) \cup ToSet(t)
  <2>1. PICK i \in 1..(Len(s) + Len(t)): x = w[i]
    BY <1>8 DEF ToSet
  <2>2. CASE i \in 1..Len(s) /\ w[i] = s[i]
    BY <1>3, <2>1, <2>2 DEF ToSet
  <2>3. CASE i - Len(s) \in 1..Len(t) /\ w[i] = t[i - Len(s)]
    BY <1>3, <2>1, <2>3 DEF ToSet
  <2> QED BY <1>6, <2>2, <2>3
<1>10. ASSUME NEW x \in ToSet(s) PROVE x \in ToSet(w)
  <2>1. PICK i \in 1..Len(s): x = s[i]
    BY <1>3 DEF ToSet
  <2> QED BY <1>4, <1>8, <2>1 DEF ToSet
<1>11. ASSUME NEW x \in ToSet(t) PROVE x \in ToSet(w)
  <2>1. PICK i \in 1..Len(t): x = t[i]
    BY <1>3 DEF ToSet
  <2> QED BY <1>5, <1>8, <2>1 DEF ToSet
<1>7. ToSet(w) = ToSet(s) \cup ToSet(t)
  BY <1>9, <1>10, <1>11
<1> QED BY <1>1, <1>7 DEF w

(* Places can be put in order: p is a way to count them upwards.               *)
Upwards(p, places) ==
  /\ p \in [1..Cardinality(places) -> places]
  /\ \A i, j \in 1..Cardinality(places): i < j => p[i] < p[j]

LEMMA UpwardsExists ==
  \A n \in Nat: \A places \in SUBSET (1..n): \E p: Upwards(p, places)
<1> DEFINE Bad == {n \in Nat: \E places \in SUBSET (1..n): \A p: ~Upwards(p, places)}
<1> SUFFICES ASSUME Bad # {} PROVE FALSE
  OBVIOUS
<1>1. PICK n \in Bad: \A m \in Bad: n <= m
  BY LeastNumber
<1>2. PICK places \in SUBSET (1..n): \A p: ~Upwards(p, places)
  BY <1>1
<1>3. n \in Nat /\ IsFiniteSet(places) /\ Cardinality(places) \in Nat
  BY <1>1, PlacesAreFinite
<1>4. n # 0
  <2> SUFFICES ASSUME n = 0 PROVE FALSE
    OBVIOUS
  <2>3. 1..n = {}
    BY <1>3
  <2>1. places = {} /\ Cardinality(places) = 0
    BY <2>3, FS_EmptySet
  <2>2. 1..Cardinality(places) = {} /\ 1..0 = {}
    BY <2>1
  <2>4. [i \in 1..0 |-> i] \in [1..0 -> places]
    BY <2>2
  <2>5. Upwards([i \in 1..0 |-> i], places)
    BY <2>1, <2>2, <2>4 DEF Upwards
  <2> QED BY <1>2, <2>5
<1> DEFINE rest == places \ {n}
<1>5. n - 1 \in Nat /\ n - 1 \notin Bad /\ rest \in SUBSET (1..(n - 1))
  BY <1>1, <1>3, <1>4
<1>6. PICK p: Upwards(p, rest)
  BY <1>5
<1>7. n \in places
  <2> SUFFICES ASSUME n \notin places PROVE FALSE
    OBVIOUS
  <2>1. rest = places
    OBVIOUS
  <2> QED BY <1>2, <1>6, <2>1
<1> DEFINE size == Cardinality(rest)
<1>8. Cardinality(places) = size + 1 /\ size \in Nat
  <2>1. Cardinality(rest) = Cardinality(places) - 1
    BY <1>3, <1>7, FS_RemoveElement
  <2>2. Cardinality(rest) \in Nat
    BY <1>5, PlacesAreFinite
  <2> QED BY <1>3, <2>1, <2>2
<1>9. p \in [1..size -> rest] /\ \A i, j \in 1..size: i < j => p[i] < p[j]
  BY <1>6 DEF Upwards
<1> HIDE DEF size
<1> DEFINE longer == [i \in 1..(size + 1) |-> IF i = size + 1 THEN n ELSE p[i]]
<1>10. \A i \in 1..(size + 1): i # size + 1 => i \in 1..size /\ p[i] \in rest
  BY <1>8, <1>9
<1>11. longer \in [1..(size + 1) -> places]
  BY <1>7, <1>10
<1>12. \A i, j \in 1..(size + 1): i < j => longer[i] < longer[j]
  <2> SUFFICES ASSUME NEW i \in 1..(size + 1), NEW j \in 1..(size + 1), i < j PROVE longer[i] < longer[j]
    OBVIOUS
  <2>1. i # size + 1 /\ i \in 1..size /\ longer[i] = p[i]
    BY <1>8
  <2>4. p[i] \in 1..(n - 1)
    BY <1>5, <1>9, <2>1
  <2>2. CASE j = size + 1
    BY <2>1, <2>2, <2>4, <1>3
  <2>3. CASE j # size + 1
    BY <2>1, <2>3, <1>9, <1>10
  <2> QED BY <2>2, <2>3
<1>13. Upwards(longer, places)
  BY <1>8, <1>11, <1>12 DEF Upwards
<1> QED BY <1>2, <1>13

LEMMA InOrderFits ==
  ASSUME NEW n \in Nat, NEW places \in SUBSET (1..n)
  PROVE  LET p == InOrder(places)
             size == Cardinality(places)
         IN /\ size \in Nat
            /\ p \in [1..size -> places]
            /\ \A i, j \in 1..size: i < j => p[i] < p[j]
            /\ \A i, j \in 1..size: p[i] = p[j] => i = j
            /\ \A x \in places: \E i \in 1..size: p[i] = x
<1> DEFINE p == InOrder(places)
           size == Cardinality(places)
<1>1. IsFiniteSet(places) /\ size \in Nat
  BY PlacesAreFinite
<1>2. \E q \in [1..size -> places]: \A i, j \in 1..size: i < j => q[i] < q[j]
  BY UpwardsExists DEF Upwards
<1>3. p \in [1..size -> places] /\ \A i, j \in 1..size: i < j => p[i] < p[j]
  BY <1>2 DEF InOrder
<1> HIDE DEF p, size
<1>4. \A i, j \in 1..size: p[i] = p[j] => i = j
  <2> SUFFICES ASSUME NEW i \in 1..size, NEW j \in 1..size, p[i] = p[j], i # j PROVE FALSE
    OBVIOUS
  <2>1. i \in Nat /\ j \in Nat
    BY <1>1
  <2>2. p[i] \in 1..n /\ p[j] \in 1..n
    BY <1>3
  <2>3. i < j \/ j < i
    BY <2>1
  <2> QED BY <1>3, <2>2, <2>3
<1>5. IsFiniteSet(1..size) /\ Cardinality(1..size) = size
  BY <1>1, FS_Interval
<1>6. p \in Injection(1..size, places)
  BY <1>3, <1>4 DEF Injection, IsInjective
<1>7. p \in Surjection(1..size, places)
  BY <1>1, <1>5, <1>6, FS_Injection DEF size
<1>8. \A x \in places: \E i \in 1..size: p[i] = x
  BY <1>7 DEF Surjection
<1> QED BY <1>1, <1>3, <1>4, <1>8 DEF p, size

(* The largest of some of the places of a sequence.                           *)
LEMMA MaxOfPlaces ==
  ASSUME NEW n \in Nat, NEW places \in SUBSET (1..n), places # {}
  PROVE  Max(places) \in places /\ \A i \in places: Max(places) >= i
<1> DEFINE p == InOrder(places)
           size == Cardinality(places)
<1>1. /\ size \in Nat /\ p \in [1..size -> places]
      /\ \A i, j \in 1..size: i < j => p[i] < p[j]
      /\ \A x \in places: \E i \in 1..size: p[i] = x
  BY InOrderFits
<1>4. size # 0
  BY PlacesAreFinite
<1> HIDE DEF p, size
<1>2. size \in 1..size
  BY <1>1, <1>4
<1>3. \A x \in places: p[size] >= x
  <2> SUFFICES ASSUME NEW x \in places PROVE p[size] >= x
    OBVIOUS
  <2>1. PICK i \in 1..size: p[i] = x
    BY <1>1
  <2>2. CASE i = size
    BY <2>1, <2>2
  <2>3. CASE i # size
    <3>1. i < size
      BY <1>1, <2>3
    <3>2. p[i] \in 1..n /\ p[size] \in 1..n /\ p[i] < p[size]
      BY <1>1, <1>2, <3>1
    <3> QED BY <2>1, <3>2
  <2> QED BY <2>2, <2>3
<1>5. \E x \in places: \A i \in places: x >= i
  BY <1>1, <1>2, <1>3
<1> QED BY <1>5 DEF Max

LEMMA SetToSeqFits ==
  ASSUME NEW S, IsFiniteSet(S)
  PROVE  LET s == SetToSeq(S)
             size == Cardinality(S)
         IN /\ size \in Nat
            /\ s \in [1..size -> S]
            /\ \A i, j \in 1..size: s[i] = s[j] => i = j
            /\ \A x \in S: \E i \in 1..size: s[i] = x
<1> DEFINE s == SetToSeq(S)
           size == Cardinality(S)
<1>1. size \in Nat /\ ExistsBijection(1..size, S)
  BY FS_CardinalityType
<1>2. \E f \in [1..size -> S]: IsInjective(f)
  BY <1>1 DEF ExistsBijection, Bijection, Injection
<1>3. s \in [1..size -> S] /\ IsInjective(s)
  BY <1>2 DEF SetToSeq
<1> HIDE DEF s, size
<1>4. s \in Injection(1..size, S) /\ IsFiniteSet(1..size) /\ Cardinality(1..size) = size
  BY <1>1, <1>3, FS_Interval DEF Injection
<1>5. s \in Surjection(1..size, S)
  BY <1>4, FS_Injection DEF size
<1> QED BY <1>1, <1>3, <1>5 DEF Surjection, IsInjective, s, size
-----------------------------------------------------------------------------
(* One question per sentence that is not blank.                               *)
LEMMA UniqueFits ==
  ASSUME NEW S, NEW qs \in Seq(S)
  PROVE  LET u == Unique(qs)
         IN /\ u \in Seq(S)
            /\ \A i \in DOMAIN u: u[i].text # Blank /\ \E k \in 1..Len(qs): u[i] = qs[k]
            /\ \A i, j \in DOMAIN u: u[i].text = u[j].text => i = j
<1> DEFINE n == Len(qs)
           first == {i \in DOMAIN qs: qs[i].text # Blank /\ \A j \in 1..(i - 1): qs[j].text # qs[i].text}
           same(i) == {j \in DOMAIN qs: qs[j].text = qs[i].text}
           p == InOrder(first)
           size == Cardinality(first)
           u == [i \in 1..size |-> qs[Max(same(p[i]))]]
<1>1. n \in Nat /\ DOMAIN qs = 1..n /\ \A i \in 1..n: qs[i] \in S
  OBVIOUS
<1>2. first \in SUBSET (1..n)
  BY <1>1
<1>3. /\ size \in Nat /\ p \in [1..size -> first]
      /\ \A i, j \in 1..size: p[i] = p[j] => i = j
  BY <1>1, <1>2, InOrderFits
<1>4. \A i \in 1..n: Max(same(i)) \in same(i)
  <2> SUFFICES ASSUME NEW i \in 1..n PROVE Max(same(i)) \in same(i)
    OBVIOUS
  <2>1. same(i) \in SUBSET (1..n) /\ i \in same(i)
    BY <1>1
  <2> QED BY <1>1, <2>1, MaxOfPlaces
<1>5. Unique(qs) = u
  BY DEF Unique
<1>6. \A i \in 1..size: p[i] \in first /\ p[i] \in 1..n
  BY <1>2, <1>3
<1>7. ASSUME NEW i \in 1..size
      PROVE  \E k \in 1..n: u[i] = qs[k] /\ qs[k].text = qs[p[i]].text
  BY <1>1, <1>4, <1>6
<1>8. \A i, j \in first: qs[i].text = qs[j].text => i = j
  <2> SUFFICES ASSUME NEW i \in first, NEW j \in first, qs[i].text = qs[j].text, i # j PROVE FALSE
    OBVIOUS
  <2>1. i \in 1..n /\ j \in 1..n /\ (i \in 1..(j - 1) \/ j \in 1..(i - 1))
    BY <1>1, <1>2
  <2> QED BY <2>1
<1>9. DOMAIN u = 1..size
  OBVIOUS
<1>10. \A i \in first: qs[i].text # Blank
  OBVIOUS
<1> HIDE DEF p, size, u, first
<1>11. u \in [1..size -> S]
  <2>1. u = [i \in 1..size |-> u[i]]
    BY DEF u
  <2>2. \A i \in 1..size: u[i] \in S
    BY <1>1, <1>7
  <2> QED BY <2>1, <2>2
<1>12. u \in Seq(S)
  BY <1>3, <1>11
<1>13. \A i, j \in 1..size: u[i].text = u[j].text => i = j
  BY <1>3, <1>6, <1>7, <1>8
<1>14. \A i \in 1..size: u[i].text # Blank /\ \E k \in 1..n: u[i] = qs[k]
  BY <1>6, <1>7, <1>10
<1> QED BY <1>5, <1>9, <1>12, <1>13, <1>14

BuiltFrom(S, round) == [key : {round} \X Nat, text : {q.text : q \in S}, by : {q.by : q \in S}]

(* Each question the user sees has the key of its place, and the sentence and  *)
(* the origin of one of those it was built from.                              *)
LEMMA BuildFits ==
  ASSUME NEW S, NEW qs \in Seq(S), NEW round
  PROVE  LET b == BuildQuestions(qs, round)
         IN /\ b \in Seq(BuiltFrom(S, round))
            /\ \A i \in DOMAIN b:
                 /\ b[i].key = <<round, i>> /\ b[i].text # Blank
                 /\ \E k \in 1..Len(qs): b[i].text = qs[k].text /\ b[i].by = qs[k].by
            /\ \A i, j \in DOMAIN b: b[i].text = b[j].text => i = j
<1> DEFINE u == Unique(qs)
           m == Len(u)
           needed == {i \in DOMAIN u: u[i].required}
           other == {i \in DOMAIN u: ~u[i].required}
           p == InOrder(needed)
           r == InOrder(other)
           ordered == p \o r
           b == [i \in DOMAIN ordered |->
                   [key |-> <<round, i>>, text |-> u[ordered[i]].text, by |-> u[ordered[i]].by]]
<1>1. /\ u \in Seq(S) /\ m \in Nat /\ DOMAIN u = 1..m /\ \A i \in 1..m: u[i] \in S
      /\ \A i \in 1..m: u[i].text # Blank /\ \E k \in 1..Len(qs): u[i] = qs[k]
      /\ \A i, j \in 1..m: u[i].text = u[j].text => i = j
  <2>1. u \in Seq(S)
    BY UniqueFits
  <2>2. m \in Nat /\ DOMAIN u = 1..m /\ \A i \in 1..m: u[i] \in S
    BY <2>1
  <2> QED BY <2>1, <2>2, UniqueFits
<1>2. BuildQuestions(qs, round) = b
  BY DEF BuildQuestions
<1> HIDE DEF u, m
<1>3. needed \in SUBSET (1..m) /\ other \in SUBSET (1..m) /\ needed \cap other = {}
  BY <1>1
<1> DEFINE a == Cardinality(needed)
           c == Cardinality(other)
<1>4. a \in Nat /\ p \in [1..a -> needed] /\ \A i, j \in 1..a: p[i] = p[j] => i = j
  BY <1>1, <1>3, InOrderFits
<1>5. c \in Nat /\ r \in [1..c -> other] /\ \A i, j \in 1..c: r[i] = r[j] => i = j
  BY <1>1, <1>3, InOrderFits
<1> HIDE DEF needed, other, p, r, a, c
<1>6. p \in Seq(1..m) /\ Len(p) = a /\ r \in Seq(1..m) /\ Len(r) = c
  <2>1. p \in [1..a -> 1..m] /\ r \in [1..c -> 1..m]
    BY <1>3, <1>4, <1>5
  <2>2. p \in Seq(1..m) /\ Len(p) = a
    BY <1>4, <2>1, FunctionIsSeq
  <2>3. r \in Seq(1..m) /\ Len(r) = c
    BY <1>5, <2>1, FunctionIsSeq
  <2> QED BY <2>2, <2>3
<1>7. /\ ordered \in Seq(1..m) /\ Len(ordered) = a + c /\ DOMAIN ordered = 1..(a + c)
      /\ \A i \in 1..(a + c): ordered[i] = IF i <= a THEN p[i] ELSE r[i - a]
  BY <1>4, <1>5, <1>6
<1> HIDE DEF ordered
<1>8. \A i \in 1..(a + c): \/ i \in 1..a /\ ordered[i] = p[i] /\ ordered[i] \in needed
                           \/ i - a \in 1..c /\ ordered[i] = r[i - a] /\ ordered[i] \in other
  <2> SUFFICES ASSUME NEW i \in 1..(a + c)
               PROVE  \/ i \in 1..a /\ ordered[i] = p[i] /\ ordered[i] \in needed
                      \/ i - a \in 1..c /\ ordered[i] = r[i - a] /\ ordered[i] \in other
    OBVIOUS
  <2>1. i \in 1..a \/ (i - a \in 1..c /\ ~(i <= a))
    BY <1>4, <1>5
  <2> QED BY <1>4, <1>5, <1>7, <2>1
<1>9. \A i, j \in 1..(a + c): ordered[i] = ordered[j] => i = j
  <2> SUFFICES ASSUME NEW i \in 1..(a + c), NEW j \in 1..(a + c), ordered[i] = ordered[j] PROVE i = j
    OBVIOUS
  <2>1. CASE i \in 1..a /\ j \in 1..a /\ ordered[i] = p[i] /\ ordered[j] = p[j]
    BY <1>4, <2>1
  <2>2. CASE i - a \in 1..c /\ j - a \in 1..c /\ ordered[i] = r[i - a] /\ ordered[j] = r[j - a]
    <3>1. i - a = j - a
      BY <1>5, <2>2
    <3> QED BY <1>4, <1>5, <3>1
  <2> QED BY <1>3, <1>8, <2>1, <2>2
<1>10. \A i \in 1..(a + c): ordered[i] \in 1..m
  BY <1>3, <1>8
<1>12. DOMAIN b = 1..(a + c) /\ b = [i \in 1..(a + c) |-> b[i]]
  BY <1>7
<1> DEFINE key(i) == <<round, i>>
           text(i) == u[ordered[i]].text
           by(i) == u[ordered[i]].by
<1>17. \A i \in 1..(a + c): b[i] = [key |-> key(i), text |-> text(i), by |-> by(i)]
  BY <1>7
<1> HIDE DEF b, key, text, by
<1>18. \A i \in 1..(a + c): b[i].key = key(i) /\ b[i].text = text(i) /\ b[i].by = by(i)
  <2> SUFFICES ASSUME NEW i \in 1..(a + c)
               PROVE  b[i].key = key(i) /\ b[i].text = text(i) /\ b[i].by = by(i)
    OBVIOUS
  <2>1. b[i] = [key |-> key(i), text |-> text(i), by |-> by(i)]
    BY <1>17
  <2> QED BY <2>1
<1>11. \A i \in 1..(a + c):
         b[i].key = <<round, i>> /\ b[i].text = u[ordered[i]].text /\ b[i].by = u[ordered[i]].by
  BY <1>18 DEF key, text, by
<1>13. \A i \in 1..(a + c): b[i] \in BuiltFrom(S, round)
  <2> SUFFICES ASSUME NEW i \in 1..(a + c) PROVE b[i] \in BuiltFrom(S, round)
    OBVIOUS
  <2>1. u[ordered[i]] \in S /\ i \in Nat
    BY <1>1, <1>4, <1>5, <1>10
  <2>2. key(i) \in {round} \X Nat /\ text(i) \in {q.text : q \in S} /\ by(i) \in {q.by : q \in S}
    BY <2>1 DEF key, text, by
  <2>3. b[i] = [key |-> key(i), text |-> text(i), by |-> by(i)]
    BY <1>17
  <2> QED BY <2>2, <2>3 DEF BuiltFrom
<1>14. b \in Seq(BuiltFrom(S, round))
  <2>1. b \in [1..(a + c) -> BuiltFrom(S, round)] /\ a + c \in Nat
    BY <1>4, <1>5, <1>12, <1>13
  <2> QED BY <2>1
<1>15. ASSUME NEW i \in 1..(a + c)
       PROVE  /\ b[i].key = <<round, i>> /\ b[i].text # Blank
              /\ \E k \in 1..Len(qs): b[i].text = qs[k].text /\ b[i].by = qs[k].by
  <2> DEFINE o == ordered[i]
  <2>1. b[i].key = <<round, i>> /\ b[i].text = u[o].text /\ b[i].by = u[o].by /\ o \in 1..m
    BY <1>10, <1>11
  <2> HIDE DEF o
  <2>2. PICK k \in 1..Len(qs): u[o] = qs[k]
    BY <1>1, <2>1
  <2>3. u[o].text # Blank
    BY <1>1, <2>1
  <2>4. b[i].text = qs[k].text /\ b[i].by = qs[k].by
    BY <2>1, <2>2
  <2> QED BY <2>1, <2>3, <2>4
<1>16. \A i, j \in 1..(a + c): b[i].text = b[j].text => i = j
  <2> SUFFICES ASSUME NEW i \in 1..(a + c), NEW j \in 1..(a + c), b[i].text = b[j].text PROVE i = j
    OBVIOUS
  <2>1. u[ordered[i]].text = u[ordered[j]].text /\ ordered[i] \in 1..m /\ ordered[j] \in 1..m
    BY <1>10, <1>11
  <2>2. ordered[i] = ordered[j]
    BY <1>1, <2>1
  <2> QED BY <1>9, <2>2
<1> QED BY <1>2, <1>12, <1>14, <1>15, <1>16
-----------------------------------------------------------------------------
(* What has been asked and answered so far.                                   *)
LEMMA ShownTypes ==
  ASSUME JobAssumption, Inv
  PROVE  /\ question_round \in Nat
         /\ \A i \in 1..question_round: shown[i] \in Seq(PublicQuestion) /\ DOMAIN shown[i] = 1..Len(shown[i])
         /\ (status = "awaiting_input" => question_round # 0)
<1>1. question_round \in Nat /\ shown \in Seq(Seq(PublicQuestion)) /\ Len(shown) = question_round
  BY DEF Inv, Types, JobAssumption
<1>2. \A i \in 1..question_round: shown[i] \in Seq(PublicQuestion)
  BY <1>1
<1>3. \A i \in 1..question_round: DOMAIN shown[i] = 1..Len(shown[i])
  BY <1>2
<1>4. status = "awaiting_input" => question_round # 0
  BY DEF Inv, Types, VerdictFitsReason
<1> QED BY <1>1, <1>2, <1>3, <1>4

LEMMA AnswersAre ==
  ASSUME JobAssumption, Inv
  PROVE  /\ Answered \in Nat /\ Answered <= question_round
         /\ \A a \in answers: a.question_round \in 1..Answered /\ a \in AnswersOf(a.question_round)
         /\ \A i \in 1..Answered: AnswersOf(i) \subseteq answers /\ AnswersOf(i) # {}
         /\ \A i: \A a \in AnswersOf(i): a.question_round = i
<1>1. Answered \in Nat /\ Answered <= question_round
  BY ShownTypes DEF Answered
<1>2. answers = UNION {AnswersOf(i) : i \in 1..Answered}
  BY DEF Inv, AnswersFit
<1>3. \A i: \A a \in AnswersOf(i): a.question_round = i
  BY DEF AnswersOf
<1>4. ASSUME NEW i \in 1..Answered PROVE AnswersOf(i) # {}
  <2>1. i \in 1..question_round
    BY <1>1, ShownTypes
  <2>2. shown[i] # <<>> /\ shown[i] \in Seq(PublicQuestion)
    BY <2>1, ShownTypes DEF Inv, ShownFit
  <2>3. 1 \in DOMAIN shown[i]
    BY <2>2
  <2>4. shown[i][1] \in ToSet(shown[i])
    BY <2>3 DEF ToSet
  <2> QED BY <2>4 DEF AnswersOf
<1> QED BY <1>1, <1>2, <1>3, <1>4

LEMMA RoundsAre ==
  ASSUME JobAssumption, Inv PROVE Rounds(answers) = 1..Answered
<1>1. Rounds(answers) \subseteq 1..Answered
  BY AnswersAre DEF Rounds
<1>2. ASSUME NEW i \in 1..Answered PROVE i \in Rounds(answers)
  <2>1. PICK a \in AnswersOf(i): a \in answers /\ a.question_round = i
    BY AnswersAre
  <2> QED BY <2>1 DEF Rounds
<1> QED BY <1>1, <1>2

LEMMA LatestRound ==
  ASSUME JobAssumption, Inv, status = "accepted"
  PROVE  /\ NextRound(answers) = question_round + 1
         /\ question_round # 0 => Max(Rounds(answers)) = question_round
<1>1. question_round \in Nat /\ Rounds(answers) = 1..question_round
  BY ShownTypes, RoundsAre DEF Answered
<1>2. ASSUME NEW S \in SUBSET Nat, question_round \in S, \A i \in S: i <= question_round
      PROVE  Max(S) = question_round
  <2>1. \E x \in S: \A y \in S: x >= y
    BY <1>1, <1>2
  <2>2. Max(S) \in S /\ \A y \in S: Max(S) >= y
    BY <2>1 DEF Max
  <2>3. Max(S) \in Nat /\ Max(S) >= question_round /\ Max(S) <= question_round
    BY <1>2, <2>2
  <2> QED BY <1>1, <2>3
<1>3. Max(Rounds(answers) \cup {0}) = question_round
  <2>1. Rounds(answers) \cup {0} = 0..question_round
    BY <1>1
  <2> QED BY <1>1, <1>2, <2>1
<1>4. question_round # 0 => Max(Rounds(answers)) = question_round
  BY <1>1, <1>2
<1> QED BY <1>3, <1>4 DEF NextRound

(* The answers of a round are as many as its questions.                       *)
LEMMA AnswersOfRound ==
  ASSUME JobAssumption, Inv, NEW i \in 1..question_round
  PROVE  /\ IsFiniteSet(AnswersOf(i))
         /\ \A a, b \in AnswersOf(i): a.answer_text = b.answer_text => a = b
<1> DEFINE s == shown[i]
           at(k) == [question_round |-> i, question_key |-> s[k].key, answer_text |-> <<i, s[k].text>>]
           f == [k \in 1..Len(s) |-> at(k)]
<1>1. s \in Seq(PublicQuestion) /\ DOMAIN s = 1..Len(s) /\ Len(s) \in Nat
  BY ShownTypes
<1>2. \A k, l \in 1..Len(s): s[k].text = s[l].text => k = l
  BY <1>1 DEF Inv, ShownFit
<1> HIDE DEF s
<1>3. AnswersOf(i) = {at(k) : k \in 1..Len(s)}
  BY <1>1 DEF AnswersOf, ToSet, s
<1>4. f \in [1..Len(s) -> AnswersOf(i)] /\ \A a \in AnswersOf(i): \E k \in 1..Len(s): f[k] = a
  BY <1>3
<1>5. IsFiniteSet(1..Len(s))
  BY <1>1, FS_Interval
<1>6. IsFiniteSet(AnswersOf(i))
  <2>1. f \in Surjection(1..Len(s), AnswersOf(i))
    BY <1>4 DEF Surjection
  <2> QED BY <1>5, <2>1, FS_Surjection
<1>7. ASSUME NEW a \in AnswersOf(i), NEW b \in AnswersOf(i), a.answer_text = b.answer_text PROVE a = b
  <2>1. PICK k \in 1..Len(s): a = at(k)
    BY <1>3
  <2>2. PICK l \in 1..Len(s): b = at(l)
    BY <1>3
  <2>3. a.answer_text = <<i, s[k].text>> /\ b.answer_text = <<i, s[l].text>>
    BY <2>1, <2>2
  <2> DEFINE x == s[k].text
             y == s[l].text
  <2>5. <<i, x>> = <<i, y>>
    BY <1>7, <2>3
  <2> HIDE DEF x, y
  <2>6. x = y
    BY <2>5
  <2>4. s[k].text = s[l].text
    BY <2>6 DEF x, y
  <2> QED BY <1>2, <2>1, <2>2, <2>4
<1> QED BY <1>6, <1>7

(* The lines of the last round are found by building its questions anew.       *)
LEMMA LinesAre ==
  ASSUME JobAssumption, Inv, status = "accepted", question_round # 0
  PROVE  AnswerLines(result, answers) = {Line(a.answer_text[2], a.answer_text) : a \in AnswersOf(question_round)}
<1> DEFINE n == question_round
           asked == ToSet(shown[n])
           line(a) == Line((CHOOSE q \in asked: q.key = a.question_key).text, a.answer_text)
<1>1. n \in 1..question_round /\ Answered = n /\ Max(Rounds(answers)) = n
  BY ShownTypes, LatestRound DEF Answered
<1>2. asked = ToSet(BuildQuestions(result.questions, n))
  BY DEF Inv, Types, QuestionsFit
<1>3. {b \in answers: b.question_round = n} = AnswersOf(n)
  BY <1>1, AnswersAre
<1>4. AnswerLines(result, answers) = {line(a) : a \in {b \in answers: b.question_round = n}}
  BY <1>1, <1>2 DEF AnswerLines
<1>5. \A p, q \in asked: p.key = q.key => p = q
  <2>1. \A k \in DOMAIN shown[n]: shown[n][k].key = <<n, k>>
    BY <1>1 DEF Inv, ShownFit
  <2> QED BY <2>1 DEF ToSet
<1>6. ASSUME NEW a \in AnswersOf(n) PROVE line(a) = Line(a.answer_text[2], a.answer_text)
  <2>1. PICK q \in asked: a = [question_round |-> n, question_key |-> q.key, answer_text |-> <<n, q.text>>]
    BY DEF AnswersOf
  <2>2. a.question_key = q.key /\ a.answer_text = <<n, q.text>> /\ a.answer_text[2] = q.text
    BY <2>1
  <2>3. (CHOOSE p \in asked: p.key = a.question_key) = q
    BY <1>5, <2>2
  <2> QED BY <2>2, <2>3
<1> HIDE DEF line
<1> QED BY <1>3, <1>4, <1>6
-----------------------------------------------------------------------------
(* The product of a run has a line for each answer given so far.              *)
LineOf(a) == Line(a.answer_text[2], a.answer_text)

AnswerLine == [question : Text, answer : Nat \X Text]

LEMMA LineTypes ==
  ASSUME JobAssumption, Inv PROVE \A a \in answers: LineOf(a) \in AnswerLine
<1> SUFFICES ASSUME NEW a \in answers PROVE LineOf(a) \in AnswerLine
  OBVIOUS
<1> DEFINE i == a.question_round
<1>1. i \in 1..question_round /\ i \in Nat /\ a \in AnswersOf(i)
  BY AnswersAre, ShownTypes
<1> HIDE DEF i
<1>2. PICK q \in ToSet(shown[i]): a = [question_round |-> i, question_key |-> q.key, answer_text |-> <<i, q.text>>]
  BY <1>1 DEF AnswersOf
<1>3. q.text \in Text
  <2>1. PICK k \in DOMAIN shown[i]: q = shown[i][k]
    BY DEF ToSet
  <2>2. shown[i] \in Seq(PublicQuestion) /\ k \in 1..Len(shown[i])
    BY <1>1, <2>1, ShownTypes
  <2>3. q \in PublicQuestion
    BY <2>1, <2>2
  <2> QED BY <2>3 DEF PublicQuestion
<1>4. a.answer_text = <<i, q.text>> /\ a.answer_text[2] = q.text
  BY <1>2
<1> QED BY <1>1, <1>3, <1>4 DEF LineOf, Line, AnswerLine

LEMMA ProductNow ==
  ASSUME JobAssumption, Inv, status = "accepted"
  PROVE  /\ Product \in Seq(AnswerLine)
         /\ Len(Product) = Cardinality(answers)
         /\ ToSet(Product) = {LineOf(a) : a \in answers}
<1> DEFINE n == question_round
<1>1. n \in Nat /\ Answered = n
  BY ShownTypes DEF Answered
<1>2. CASE n = 0
  <2>1. result = None
    BY <1>2 DEF Inv, QuestionsFit
  <2>2. Answered = 0 /\ 1..0 = {}
    BY <1>1, <1>2
  <2>3. answers = {}
    BY <2>2, AnswersAre
  <2>4. Product = <<>>
    BY <2>1 DEF Product
  <2> QED BY <2>3, <2>4, FS_EmptySet DEF ToSet
<1>3. CASE n # 0
  <2> DEFINE lines == {LineOf(a) : a \in AnswersOf(n)}
             old == Told(n - 1)
             s == SetToSeq(lines)
             before == result.product
  <2>1. result # None /\ result \in FinalAssessment
    BY <1>3 DEF Inv, QuestionsFit, Types
  <2>2. before \in Seq(AnswerLine) /\ Len(before) = Cardinality(old) /\ ToSet(before) = {LineOf(a) : a \in old}
    BY <2>1 DEF Inv, ProductFits, FinalAssessment, AnswerLine, LineOf
  <2>3. n \in 1..question_round /\ n \in 1..Answered
    BY <1>1, <1>3
  <2>4. answers = old \cup AnswersOf(n) /\ old \cap AnswersOf(n) = {}
    <3>1. \A a \in answers: a.question_round \in 1..n /\ (a.question_round <= n - 1 \/ a.question_round = n)
      BY <1>1, AnswersAre
    <3>2. AnswersOf(n) \subseteq answers /\ \A a \in AnswersOf(n): a.question_round = n /\ ~(n <= n - 1)
      BY <1>1, <2>3, AnswersAre
    <3> QED BY <3>1, <3>2, AnswersAre DEF Told
  <2>5. IsFiniteSet(old) /\ IsFiniteSet(AnswersOf(n))
    BY <2>4, FS_Subset DEF Inv, AnswersFit
  <2>6. Cardinality(answers) = Cardinality(old) + Cardinality(AnswersOf(n))
    <3>1. Cardinality(old \cap AnswersOf(n)) = 0
      BY <2>4, FS_EmptySet
    <3>2. Cardinality(old) \in Nat /\ Cardinality(AnswersOf(n)) \in Nat
      BY <2>5, FS_CardinalityType
    <3>3. Cardinality(old \cup AnswersOf(n))
            = Cardinality(old) + Cardinality(AnswersOf(n)) - Cardinality(old \cap AnswersOf(n))
      BY <2>5, FS_Union
    <3> HIDE DEF old, n
    <3> QED BY <2>4, <3>1, <3>2, <3>3
  <2>7. IsFiniteSet(lines) /\ Cardinality(lines) = Cardinality(AnswersOf(n))
    <3> DEFINE f == [a \in AnswersOf(n) |-> LineOf(a)]
    <3>1. \A a, b \in AnswersOf(n): LineOf(a) = LineOf(b) => a = b
      <4>1. \A a, b \in AnswersOf(n): a.answer_text = b.answer_text => a = b
        BY <2>3, AnswersOfRound
      <4>2. \A a: LineOf(a).answer = a.answer_text
        BY DEF LineOf, Line
      <4> QED BY <4>1, <4>2
    <3>2. f \in [AnswersOf(n) -> lines] /\ \A x \in lines: \E a \in AnswersOf(n): f[a] = x
      OBVIOUS
    <3>3. f \in Surjection(AnswersOf(n), lines) /\ f \in Injection(AnswersOf(n), lines)
      BY <3>1, <3>2 DEF Surjection, Injection, IsInjective
    <3> QED BY <2>5, <3>3, FS_Surjection
  <2>8. s \in [1..Cardinality(lines) -> lines] /\ Cardinality(lines) \in Nat
        /\ \A x \in lines: \E i \in 1..Cardinality(lines): s[i] = x
    BY <2>7, SetToSeqFits
  <2>9. lines \subseteq AnswerLine
    BY <2>4, LineTypes
  <2>10. Product = before \o s
    <3>1. AnswerLines(result, answers) = lines
      BY <1>3, LinesAre DEF LineOf
    <3> QED BY <2>1, <3>1 DEF Product
  <2>11. s \in Seq(AnswerLine) /\ Len(s) = Cardinality(lines) /\ ToSet(s) = lines
    <3>1. s \in [1..Cardinality(lines) -> AnswerLine]
      BY <2>8, <2>9
    <3>2. s \in Seq(AnswerLine) /\ Len(s) = Cardinality(lines)
      BY <2>8, <3>1, FunctionIsSeq
    <3> QED BY <2>8, <3>2 DEF ToSet
  <2> HIDE DEF s, lines, before, old
  <2>12. Product \in Seq(AnswerLine) /\ Len(Product) = Len(before) + Len(s) /\ ToSet(Product) = ToSet(before) \cup ToSet(s)
    <3>1. before \in Seq(AnswerLine) /\ s \in Seq(AnswerLine)
      BY <2>2, <2>11
    <3>2. before \o s \in Seq(AnswerLine) /\ Len(before \o s) = Len(before) + Len(s)
          /\ ToSet(before \o s) = ToSet(before) \cup ToSet(s)
      BY <3>1, ConcatOfSets
    <3> QED BY <2>10, <3>2
  <2>13. ToSet(Product) = {LineOf(a) : a \in answers}
    BY <2>2, <2>4, <2>11, <2>12 DEF lines
  <2> QED BY <2>2, <2>6, <2>7, <2>11, <2>12, <2>13
<1> QED BY <1>2, <1>3
-----------------------------------------------------------------------------
(* What the user was shown is known from the last result.                     *)
LEMMA AskedBeforeCovers ==
  ASSUME JobAssumption, Inv, status = "accepted", NEW i \in 1..question_round, NEW q \in ToSet(shown[i])
  PROVE  q.text \in AskedBefore(result)
<1> DEFINE n == question_round
<1>1. n \in Nat /\ n # 0 /\ Answered = n /\ i \in Nat
  BY ShownTypes DEF Answered
<1>2. result # None /\ result \in FinalAssessment
  BY <1>1 DEF Inv, QuestionsFit, Types
<1>3. CASE i = n
  <2> DEFINE qs == result.questions
  <2>1. q \in ToSet(BuildQuestions(qs, n))
    BY <1>1, <1>2, <1>3 DEF Inv, Types, QuestionsFit
  <2>2. qs \in Seq(FollowUpQuestion)
    BY <1>2 DEF FinalAssessment
  <2>3. PICK k \in DOMAIN BuildQuestions(qs, n): q = BuildQuestions(qs, n)[k]
    BY <2>1 DEF ToSet
  <2> HIDE DEF qs
  <2>7. \A j \in DOMAIN BuildQuestions(qs, n): \E l \in 1..Len(qs): BuildQuestions(qs, n)[j].text = qs[l].text
    BY <2>2, BuildFits
  <2>4. PICK l \in 1..Len(qs): q.text = qs[l].text
    BY <2>3, <2>7
  <2>5. qs[l] \in ToSet(qs)
    BY <2>2 DEF ToSet
  <2>6. q.text \in Texts(qs)
    BY <2>4, <2>5 DEF Texts
  <2> QED BY <1>2, <2>6 DEF AskedBefore, qs
<1>4. CASE i # n
  <2> DEFINE a == [question_round |-> i, question_key |-> q.key, answer_text |-> <<i, q.text>>]
  <2>1. a \in AnswersOf(i) /\ i \in 1..Answered
    BY <1>1 DEF AnswersOf
  <2>2. a \in answers /\ a.question_round = i /\ i <= n - 1
    BY <1>1, <1>4, <2>1, AnswersAre
  <2>3. a \in Told(n - 1)
    BY <2>2 DEF Told
  <2>4. LineOf(a).question = q.text
    BY DEF LineOf, Line
  <2>5. LineOf(a) \in ToSet(result.product)
    BY <1>2, <2>3 DEF Inv, ProductFits, LineOf
  <2> QED BY <1>2, <2>4, <2>5 DEF AskedBefore
<1> QED BY <1>3, <1>4

(* What a tool misses is only asked if it was not.                            *)
LEMMA NewQuestionsFit ==
  ASSUME JobAssumption, NEW r, NEW missing \in SUBSET Text, NEW previous
  PROVE  LET new == NewQuestions(r, missing, previous)
         IN /\ new \in Seq(FollowUpQuestion)
            /\ \A i \in DOMAIN new: new[i].by = "tool" /\ new[i].text \notin AskedBefore(previous)
<1> DEFINE set == {x \in missing: x # Blank /\ x \notin AskedBefore(previous) \cup Texts(r.questions)}
           size == Cardinality(set)
           s == SetToSeq(set)
           new == [i \in 1..size |-> Question(s[i], TRUE, "tool")]
<1>1. IsFiniteSet(set)
  BY FS_Subset DEF JobAssumption
<1>2. size \in Nat /\ s \in [1..size -> set]
  BY <1>1, SetToSeqFits
<1>3. NewQuestions(r, missing, previous) = new
  BY DEF NewQuestions
<1>4. \A x \in set: x \in Text /\ x \notin AskedBefore(previous)
  OBVIOUS
<1> HIDE DEF set, size, s
<1>5. \A i \in 1..size: s[i] \in Text /\ s[i] \notin AskedBefore(previous)
  BY <1>2, <1>4
<1>6. \A i \in 1..size: new[i] = [text |-> s[i], required |-> TRUE, by |-> "tool"]
  BY DEF Question
<1>7. DOMAIN new = 1..size /\ new = [i \in 1..size |-> new[i]]
  OBVIOUS
<1> HIDE DEF new
<1>8. ASSUME NEW i \in 1..size
      PROVE  new[i] \in FollowUpQuestion /\ new[i].by = "tool" /\ new[i].text = s[i]
  <2>1. new[i] = [text |-> s[i], required |-> TRUE, by |-> "tool"] /\ s[i] \in Text
    BY <1>5, <1>6
  <2> QED BY <2>1 DEF FollowUpQuestion
<1>9. new \in [1..size -> FollowUpQuestion]
  BY <1>7, <1>8
<1>10. new \in Seq(FollowUpQuestion)
  BY <1>2, <1>9, FunctionIsSeq
<1> QED BY <1>3, <1>5, <1>7, <1>8, <1>10

(* What a run may come to, before the session looks at it.                    *)
Fresh(r) ==
  /\ r \in FinalAssessment /\ r.product = Product /\ r.reason \in Contract!Reason
  /\ (r.reason = "completed") = (r.status # "incomplete")
  /\ \A i \in DOMAIN r.questions: r.questions[i].by = "model" \/ r.questions[i].text \notin AskedBefore(result)
  /\ r.reason = "user_input_required" =>
       \E i \in DOMAIN r.questions: r.questions[i].by = "model" \/ r.questions[i].text \notin AskedBefore(result)

LEMMA RunIsFresh ==
  ASSUME JobAssumption, Inv, status = "accepted",
         NEW ending \in Contract!Endings, NEW qs \in ModelQuestions, NEW missing \in SUBSET Text,
         ending.asks = (\E q \in ToSet(qs): q.required)
  PROVE  LET a == Assessment(ending, qs)
         IN Fresh(AskMissingInformation(a, NewQuestions(a, missing, result)))
<1> DEFINE a == Assessment(ending, qs)
           new == NewQuestions(a, missing, result)
           r == AskMissingInformation(a, new)
<1> SUFFICES Fresh(r)
  OBVIOUS
<1>1. /\ ending.reason \in Contract!Reason /\ ending.status \in Contract!Status
      /\ (ending.reason = "completed") = (ending.status # "incomplete")
      /\ ending.reason = "user_input_required" => ending.asks
  <2>1. PICK x \in Contract!Reason, y \in Contract!Status, z \in BOOLEAN: ending = [reason |-> x, status |-> y, asks |-> z]
    BY DEF Contract!Endings, Contract!Ending
  <2>2. Contract!Fits(ending)
    BY DEF Contract!Endings
  <2> QED BY <2>1, <2>2 DEF Contract!Fits
<1>2. qs \in Seq([text : Text, required : BOOLEAN, by : {"model"}])
  BY DEF JobAssumption
<1>3. DOMAIN qs = 1..Len(qs) /\ Len(qs) \in Nat /\ \A i \in 1..Len(qs): qs[i] \in [text : Text, required : BOOLEAN, by : {"model"}]
  BY <1>2, SeqParts
<1>4. \A i \in 1..Len(qs): qs[i] \in FollowUpQuestion /\ qs[i].by = "model"
  BY <1>3 DEF FollowUpQuestion
<1>5. qs \in Seq(FollowUpQuestion)
  <2>1. qs \in [1..Len(qs) -> FollowUpQuestion]
    BY <1>2, <1>3, <1>4
  <2> QED BY <1>3, <2>1, FunctionIsSeq
<1>6. new \in Seq(FollowUpQuestion)
      /\ \A i \in DOMAIN new: new[i].by = "tool" /\ new[i].text \notin AskedBefore(result)
  BY NewQuestionsFit
<1>7. Product \in Seq(AnswerLine)
  BY ProductNow
<1>8. a = [reason |-> ending.reason, status |-> ending.status, questions |-> qs, product |-> Product]
  BY DEF Assessment
<1> HIDE DEF a, new
<1>9. CASE new = <<>>
  <2>1. r = a
    BY <1>9 DEF AskMissingInformation
  <2>2. a \in FinalAssessment
    BY <1>1, <1>5, <1>7, <1>8 DEF FinalAssessment, AnswerLine
  <2>3. a.reason = ending.reason /\ a.status = ending.status /\ a.questions = qs /\ a.product = Product
    BY <1>8
  <2>4. ending.asks => \E i \in DOMAIN qs: qs[i].by = "model"
    BY <1>3, <1>4 DEF ToSet
  <2> QED BY <1>1, <1>3, <1>4, <2>1, <2>2, <2>3, <2>4 DEF Fresh
<1>10. CASE new # <<>>
  <2> DEFINE all == qs \o new
  <2>1. r = [reason |-> "user_input_required", status |-> "incomplete", questions |-> all, product |-> Product]
    BY <1>8, <1>10 DEF AskMissingInformation
  <2>2. /\ all \in Seq(FollowUpQuestion) /\ DOMAIN all = 1..(Len(qs) + Len(new))
        /\ Len(new) \in Nat /\ Len(new) # 0 /\ DOMAIN new = 1..Len(new)
        /\ \A i \in 1..(Len(qs) + Len(new)): all[i] = IF i <= Len(qs) THEN qs[i] ELSE new[i - Len(qs)]
    BY <1>5, <1>6, <1>10
  <2> HIDE DEF all
  <2>3. ASSUME NEW i \in DOMAIN all
        PROVE  all[i].by = "model" \/ all[i].text \notin AskedBefore(result)
    <3>1. CASE i \in 1..Len(qs) /\ all[i] = qs[i]
      BY <1>4, <3>1
    <3>2. CASE i - Len(qs) \in 1..Len(new) /\ all[i] = new[i - Len(qs)]
      BY <1>6, <2>2, <3>2
    <3>3. (i \in 1..Len(qs) /\ all[i] = qs[i]) \/ (i - Len(qs) \in 1..Len(new) /\ all[i] = new[i - Len(qs)])
      BY <1>3, <2>2
    <3> QED BY <3>1, <3>2, <3>3
  <2>4. 1 \in DOMAIN all
    BY <1>3, <2>2
  <2>5. r \in FinalAssessment
    BY <1>7, <2>1, <2>2 DEF FinalAssessment, AnswerLine, Contract!Reason, Contract!Status
  <2>6. r.reason = "user_input_required" /\ r.status = "incomplete" /\ r.questions = all /\ r.product = Product
    BY <2>1
  <2> QED BY <2>3, <2>4, <2>5, <2>6 DEF Fresh, Contract!Reason
<1> QED BY <1>9, <1>10
-----------------------------------------------------------------------------
LEMMA InitInv == JobAssumption /\ Init => Inv
<1> SUFFICES ASSUME JobAssumption, Init PROVE Inv
  OBVIOUS
<1> USE DEF Init
<1>1. Types
  BY DEF Types, JobAssumption
<1>2. ShownFit /\ QuestionsFit /\ ProductFits /\ VerdictFitsReason
  BY DEF ShownFit, QuestionsFit, ProductFits, VerdictFitsReason
<1>3. AnswersFit
  <2>1. Answered = 0 /\ 1..0 = {}
    BY DEF Answered
  <2>2. UNION {AnswersOf(i) : i \in 1..Answered} = {}
    BY <2>1
  <2> QED BY <2>2, FS_EmptySet DEF AnswersFit
<1>4. NothingMissingAskedTwice /\ LimitOverOpenQuestions
  BY DEF NothingMissingAskedTwice, LimitOverOpenQuestions
<1> QED BY <1>1, <1>2, <1>3, <1>4 DEF Inv

(* A run that leaves no question, or fails, leaves what was asked and answered. *)
LEMMA EndKeeps ==
  ASSUME JobAssumption, Inv, status = "accepted",
         UNCHANGED <<question_round, questions, answers, shown>>,
         \/ status' = "failed" /\ result' = result
         \/ /\ status' = "completed" /\ result' \in FinalAssessment /\ result'.product = Product
            /\ (result'.reason = "completed") = (result'.status # "incomplete")
            /\ result'.reason # "user_input_required"
            /\ result'.reason = "question_limit_exceeded" =>
                 /\ AtQuestionLimit
                 /\ \E i \in DOMAIN result'.questions:
                      result'.questions[i].by = "model" \/ result'.questions[i].text \notin AskedBefore(result)
  PROVE  Inv'
<1>1. Types'
  BY DEF Inv, Types
<1>2. ShownFit' /\ NothingMissingAskedTwice'
  BY DEF Inv, ShownFit, NothingMissingAskedTwice
<1>3. AnswersFit'
  <2>1. Answered' = Answered
    BY DEF Answered
  <2> QED BY <2>1 DEF Inv, AnswersFit, AnswersOf
<1>4. QuestionsFit'
  BY DEF QuestionsFit, JobAssumption
<1>5. ProductFits'
  <2> SUFFICES ASSUME status' = "completed" PROVE ProductFits'
    BY DEF ProductFits
  <2>1. {a \in answers: a.question_round <= question_round} = answers
    BY AnswersAre, ShownTypes
  <2>2. Len(result'.product) = Cardinality(answers) /\ ToSet(result'.product) = {LineOf(a) : a \in answers}
    BY ProductNow
  <2> QED BY <2>1, <2>2 DEF ProductFits, Told, LineOf
<1>6. VerdictFitsReason'
  BY DEF Inv, VerdictFitsReason
<1>7. LimitOverOpenQuestions'
  <2> SUFFICES ASSUME status' = "completed", result'.reason = "question_limit_exceeded"
               PROVE  /\ question_round = MaxQuestionRounds
                      /\ \E q \in ToSet(result'.questions):
                           q.by = "model" \/ \A i \in DOMAIN shown: q.text \notin {p.text : p \in ToSet(shown[i])}
    BY DEF LimitOverOpenQuestions
  <2>1. question_round = MaxQuestionRounds
    BY DEF Inv, Types, AtQuestionLimit, JobAssumption
  <2>2. PICK k \in DOMAIN result'.questions:
          result'.questions[k].by = "model" \/ result'.questions[k].text \notin AskedBefore(result)
    OBVIOUS
  <2> DEFINE q == result'.questions[k]
  <2>3. q \in ToSet(result'.questions)
    BY <2>2 DEF ToSet
  <2>4. DOMAIN shown = 1..question_round
    BY DEF Inv, Types
  <2> HIDE DEF q
  <2>5. ASSUME q.text \notin AskedBefore(result), NEW i \in DOMAIN shown
        PROVE  q.text \notin {p.text : p \in ToSet(shown[i])}
    BY <2>4, <2>5, AskedBeforeCovers
  <2>6. q.by = "model" \/ q.text \notin AskedBefore(result)
    BY <2>2 DEF q
  <2> QED BY <2>1, <2>3, <2>5, <2>6
<1> QED BY <1>1, <1>2, <1>3, <1>4, <1>5, <1>6, <1>7 DEF Inv

(* The user is asked what was built from the result.                          *)
LEMMA AsksKeeps ==
  ASSUME JobAssumption, Inv, status = "accepted", ~AtQuestionLimit,
         NEW r, Fresh(r), r.reason = "user_input_required",
         MayAsk(BuildQuestions(r.questions, NextRound(answers))),
         Asks(r, BuildQuestions(r.questions, NextRound(answers)))
  PROVE  Inv'
<1> DEFINE n == question_round
           qs == r.questions
           asked == BuildQuestions(qs, n + 1)
<1>1. /\ status' = "awaiting_input" /\ result' = r /\ questions' = asked /\ question_round' = n + 1
      /\ shown' = Append(shown, asked) /\ answers' = answers /\ asked # <<>>
  BY LatestRound DEF Asks, MayAsk
<1>2. n \in Nat /\ n < MaxQuestionRounds /\ shown \in Seq(Seq(PublicQuestion)) /\ Len(shown) = n
      /\ DOMAIN shown = 1..n
  BY DEF Inv, Types, AtQuestionLimit, JobAssumption
<1>3. r \in FinalAssessment /\ qs \in Seq(FollowUpQuestion) /\ r.product = Product
      /\ (r.reason = "completed") = (r.status # "incomplete")
      /\ \A i \in DOMAIN qs: qs[i].by = "model" \/ qs[i].text \notin AskedBefore(result)
  BY DEF Fresh, FinalAssessment
<1>4. r # None
  BY <1>3 DEF JobAssumption
<1> HIDE DEF qs, asked
<1>5. asked \in Seq(BuiltFrom(FollowUpQuestion, n + 1))
  BY <1>3, BuildFits DEF asked
<1>6. /\ \A i \in DOMAIN asked: asked[i].key = <<n + 1, i>>
      /\ \A i \in DOMAIN asked: \E k \in 1..Len(qs): asked[i].text = qs[k].text /\ asked[i].by = qs[k].by
      /\ \A i, j \in DOMAIN asked: asked[i].text = asked[j].text => i = j
  BY <1>3, BuildFits DEF asked
<1>7. asked \in Seq(PublicQuestion)
  <2> DEFINE Q == BuiltFrom(FollowUpQuestion, n + 1)
  <2>1. {q.text : q \in FollowUpQuestion} \subseteq Text /\ {q.by : q \in FollowUpQuestion} \subseteq {"model", "tool"}
        /\ {n + 1} \X Nat \subseteq Nat \X Nat
    BY <1>2 DEF FollowUpQuestion
  <2>2. Q \subseteq PublicQuestion
    BY <2>1 DEF PublicQuestion, BuiltFrom
  <2>3. asked \in [1..Len(asked) -> Q] /\ Len(asked) \in Nat
    BY <1>5, SeqParts
  <2> HIDE DEF Q
  <2>4. asked \in [1..Len(asked) -> PublicQuestion]
    BY <2>2, <2>3
  <2> QED BY <2>3, <2>4, FunctionIsSeq
<1>8. /\ shown' \in Seq(Seq(PublicQuestion)) /\ Len(shown') = n + 1 /\ shown'[n + 1] = asked
      /\ \A i \in 1..n: shown'[i] = shown[i]
      /\ DOMAIN shown' = 1..(n + 1)
  BY <1>1, <1>2, <1>7
<1>9. Types'
  BY <1>1, <1>2, <1>3, <1>8 DEF Types, JobAssumption
<1>10. ShownFit'
  <2> SUFFICES ASSUME NEW i \in 1..(n + 1)
               PROVE  /\ shown'[i] # <<>>
                      /\ \A k \in DOMAIN shown'[i]: shown'[i][k].key = <<i, k>>
                      /\ \A k, l \in DOMAIN shown'[i]: shown'[i][k].text = shown'[i][l].text => k = l
    BY <1>1 DEF ShownFit
  <2>1. CASE i = n + 1
    BY <1>1, <1>6, <1>8, <2>1
  <2>2. CASE i \in 1..n
    BY <1>8, <2>2 DEF Inv, ShownFit
  <2> QED BY <1>2, <2>1, <2>2
<1>11. AnswersFit'
  <2>1. Answered' = n /\ Answered = n
    BY <1>1, <1>2 DEF Answered
  <2>2. \A i \in 1..n: AnswersOf(i)' = AnswersOf(i)
    BY <1>8 DEF AnswersOf
  <2>3. answers = UNION {AnswersOf(i) : i \in 1..n} /\ IsFiniteSet(answers)
    BY <2>1 DEF Inv, AnswersFit
  <2> QED BY <1>1, <2>1, <2>2, <2>3 DEF AnswersFit
<1>12. QuestionsFit'
  BY <1>1, <1>2, <1>4 DEF QuestionsFit, asked, qs
<1>13. ProductFits'
  <2>1. {a \in answers: a.question_round <= n} = answers
    BY AnswersAre, ShownTypes
  <2>2. Len(r.product) = Cardinality(answers) /\ ToSet(r.product) = {LineOf(a) : a \in answers}
    BY <1>3, ProductNow
  <2>3. question_round' - 1 = n
    BY <1>1, <1>2
  <2> QED BY <1>1, <2>1, <2>2, <2>3 DEF ProductFits, Told, LineOf
<1>14. VerdictFitsReason'
  BY <1>1, <1>3 DEF VerdictFitsReason
<1>15. LimitOverOpenQuestions'
  BY <1>1 DEF LimitOverOpenQuestions
<1>16. NothingMissingAskedTwice'
  <2> SUFFICES ASSUME NEW i \in 1..(n + 1), NEW j \in 1..(n + 1), i < j, NEW q \in ToSet(shown'[j]),
                      q.text \in {p.text : p \in ToSet(shown'[i])}
               PROVE  q.by = "model"
    BY <1>8 DEF NothingMissingAskedTwice
  <2>1. i \in 1..n
    BY <1>2
  <2>2. CASE j \in 1..n
    BY <1>2, <1>8, <2>1, <2>2 DEF Inv, NothingMissingAskedTwice
  <2>3. CASE j = n + 1
    <3>1. q.text \in AskedBefore(result)
      BY <1>8, <2>1, AskedBeforeCovers
    <3>2. PICK k \in DOMAIN asked: q = asked[k]
      BY <1>8, <2>3 DEF ToSet
    <3>3. PICK l \in 1..Len(qs): q.text = qs[l].text /\ q.by = qs[l].by
      BY <1>6, <3>2
    <3>4. l \in DOMAIN qs
      BY <1>3, SeqParts
    <3> QED BY <1>3, <3>1, <3>3, <3>4
  <2> QED BY <1>2, <2>2, <2>3
<1> QED BY <1>9, <1>10, <1>11, <1>12, <1>13, <1>14, <1>15, <1>16 DEF Inv

LEMMA RunJobKeeps == ASSUME JobAssumption, Inv, RunJob PROVE Inv'
<1>1. status = "accepted"
  BY DEF RunJob
<1>2. PICK ending \in Contract!Endings, qs \in ModelQuestions, missing \in SUBSET Text:
        LET a == Assessment(ending, qs)
            r == AskMissingInformation(a, NewQuestions(a, missing, result))
            asked == BuildQuestions(r.questions, NextRound(answers))
        IN /\ ending.asks = (\E q \in ToSet(qs): q.required)
           /\ IF r.reason # "user_input_required" THEN Completes(r)
              ELSE IF AtQuestionLimit THEN Completes(CloseAtQuestionLimit(r))
              ELSE IF MayAsk(asked) THEN Asks(r, asked)
              ELSE Fails
  BY DEF RunJob
<1> DEFINE a == Assessment(ending, qs)
           r == AskMissingInformation(a, NewQuestions(a, missing, result))
           asked == BuildQuestions(r.questions, NextRound(answers))
<1>3. Fresh(r)
  BY <1>1, <1>2, RunIsFresh
<1>4. \/ r.reason # "user_input_required" /\ Completes(r)
      \/ r.reason = "user_input_required" /\ AtQuestionLimit /\ Completes(CloseAtQuestionLimit(r))
      \/ r.reason = "user_input_required" /\ ~AtQuestionLimit /\ MayAsk(asked) /\ Asks(r, asked)
      \/ Fails
  BY <1>2
<1> HIDE DEF r
<1>5. CASE r.reason # "user_input_required" /\ Completes(r)
  <2>1. /\ r \in FinalAssessment /\ r.product = Product /\ (r.reason = "completed") = (r.status # "incomplete")
        /\ r.reason # "question_limit_exceeded"
    BY <1>3 DEF Fresh, Contract!Reason
  <2>2. status' = "completed" /\ result' = r /\ UNCHANGED <<question_round, questions, answers, shown>>
    BY <1>5 DEF Completes
  <2> QED BY <1>1, <1>5, <2>1, <2>2, EndKeeps
<1>6. CASE r.reason = "user_input_required" /\ AtQuestionLimit /\ Completes(CloseAtQuestionLimit(r))
  <2> DEFINE c == CloseAtQuestionLimit(r)
  <2>1. /\ r \in FinalAssessment /\ r.product = Product
        /\ \E i \in DOMAIN r.questions: r.questions[i].by = "model" \/ r.questions[i].text \notin AskedBefore(result)
    BY <1>3, <1>6 DEF Fresh
  <2>2. /\ c \in FinalAssessment /\ c.product = r.product /\ c.questions = r.questions
        /\ c.reason = "question_limit_exceeded" /\ c.status = "incomplete"
    BY <2>1 DEF CloseAtQuestionLimit, FinalAssessment, Contract!Status
  <2>3. status' = "completed" /\ result' = c /\ UNCHANGED <<question_round, questions, answers, shown>>
    BY <1>6 DEF Completes
  <2> HIDE DEF c
  <2> QED BY <1>1, <1>6, <2>1, <2>2, <2>3, EndKeeps
<1>7. CASE r.reason = "user_input_required" /\ ~AtQuestionLimit /\ MayAsk(asked) /\ Asks(r, asked)
  BY <1>1, <1>3, <1>7, AsksKeeps
<1>8. CASE Fails
  <2>1. status' = "failed" /\ result' = result /\ UNCHANGED <<question_round, questions, answers, shown>>
    BY <1>8 DEF Fails
  <2> QED BY <1>1, <2>1, EndKeeps
<1> QED BY <1>4, <1>5, <1>6, <1>7, <1>8

LEMMA ResumeKeeps == ASSUME JobAssumption, Inv, Resume PROVE Inv'
<1> DEFINE n == question_round
<1>1. /\ status = "awaiting_input" /\ status' = "accepted"
      /\ UNCHANGED <<question_round, questions, result, shown>>
      /\ answers' = answers \cup {[question_round |-> question_round, question_key |-> q.key,
                                   answer_text |-> <<question_round, q.text>>] : q \in ToSet(questions)}
  BY DEF Resume
<1>2. n \in Nat /\ n # 0 /\ n \in 1..question_round
  BY <1>1, ShownTypes
<1>3. Answered = n - 1 /\ Answered' = n
  BY <1>1 DEF Answered
<1>4. answers' = answers \cup AnswersOf(n)
  <2>1. questions = shown[n]
    BY <1>2 DEF Inv, Types
  <2> QED BY <1>1, <2>1 DEF AnswersOf
<1>5. Types' /\ ShownFit'
  BY <1>1 DEF Inv, Types, ShownFit
<1>6. AnswersFit'
  <2>1. answers = UNION {AnswersOf(i) : i \in 1..(n - 1)} /\ IsFiniteSet(answers)
    BY <1>3 DEF Inv, AnswersFit
  <2>2. \A i: AnswersOf(i)' = AnswersOf(i)
    BY <1>1 DEF AnswersOf
  <2>3. 1..n = (1..(n - 1)) \cup {n}
    BY <1>2
  <2>4. answers' = UNION {AnswersOf(i) : i \in 1..n}
    BY <1>4, <2>1, <2>3
  <2>5. IsFiniteSet(answers')
    BY <1>2, <1>4, <2>1, AnswersOfRound, FS_Union
  <2> QED BY <1>3, <2>2, <2>4, <2>5 DEF AnswersFit
<1>7. QuestionsFit'
  BY <1>1 DEF Inv, QuestionsFit
<1>8. ProductFits'
  <2>1. \A a \in AnswersOf(n): ~(a.question_round <= n - 1)
    BY <1>2, AnswersAre
  <2>2. Told(n - 1)' = Told(n - 1)
    BY <1>1, <1>4, <2>1 DEF Told
  <2> QED BY <1>1, <2>2 DEF Inv, ProductFits
<1>9. NothingMissingAskedTwice' /\ LimitOverOpenQuestions' /\ VerdictFitsReason'
  BY <1>1 DEF Inv, NothingMissingAskedTwice, LimitOverOpenQuestions, VerdictFitsReason
<1> QED BY <1>5, <1>6, <1>7, <1>8, <1>9 DEF Inv

LEMMA NextInv == JobAssumption /\ Inv /\ [Next]_vars => Inv'
<1> SUFFICES ASSUME JobAssumption, Inv, [Next]_vars PROVE Inv'
  OBVIOUS
<1>1. CASE FailRun
  <2>1. status = "accepted" /\ status' = "failed" /\ result' = result
        /\ UNCHANGED <<question_round, questions, answers, shown>>
    BY <1>1 DEF FailRun, Fails
  <2> QED BY <2>1, EndKeeps
<1>2. CASE UNCHANGED vars
  BY <1>2 DEF vars, Inv, Types, ShownFit, AnswersFit, AnswersOf, Answered, QuestionsFit, ProductFits, Told,
              NothingMissingAskedTwice, LimitOverOpenQuestions, VerdictFitsReason
<1> QED BY <1>1, <1>2, RunJobKeeps, ResumeKeeps DEF Next

LEMMA SpecInv == ASSUME JobAssumption PROVE Spec => []Inv
BY InitInv, NextInv, PTL DEF Spec

-----------------------------------------------------------------------------
(* Rounds are counted alike by the session, the answers and what was shown.    *)
THEOREM JobTypes == ASSUME JobAssumption PROVE Spec => []TypeOK
<1>1. Inv => TypeOK
  <2> SUFFICES ASSUME Inv PROVE TypeOK
    OBVIOUS
  <2>1. Rounds(answers) = 1..Answered /\ Answered <= question_round /\ Answered \in Nat /\ question_round \in Nat
    BY RoundsAre, AnswersAre, ShownTypes
  <2>2. status = "awaiting_input" => question_round \notin Rounds(answers)
    BY <2>1 DEF Answered
  <2> QED BY <2>1, <2>2 DEF Inv, Types, TypeOK
<1> QED BY SpecInv, <1>1, PTL

(* A key names the round it was asked in and no other: it never comes back     *)
(* (question_key, _next_round).                                               *)
THEOREM KeysNameTheirRoundAlways == ASSUME JobAssumption PROVE Spec => []KeysNameTheirRound
<1>1. Inv => KeysNameTheirRound
  <2> SUFFICES ASSUME Inv PROVE KeysNameTheirRound
    OBVIOUS
  <2>1. \A i \in 1..question_round: \A q \in ToSet(shown[i]): q.key[1] = i
    <3> SUFFICES ASSUME NEW i \in 1..question_round, NEW q \in ToSet(shown[i]) PROVE q.key[1] = i
      OBVIOUS
    <3>1. PICK k \in DOMAIN shown[i]: q = shown[i][k]
      BY DEF ToSet
    <3>2. q.key = <<i, k>>
      BY <3>1 DEF Inv, ShownFit
    <3> QED BY <3>2
  <2>2. DOMAIN shown = 1..question_round /\ question_round \in Nat
    BY DEF Inv, Types, JobAssumption
  <2>3. \A q \in ToSet(questions): q.key[1] = question_round
    <3>1. CASE question_round = 0
      BY <3>1 DEF Inv, Types, ToSet
    <3>2. CASE question_round # 0
      BY <2>1, <2>2, <3>2 DEF Inv, Types
    <3> QED BY <3>1, <3>2
  <2> QED BY <2>1, <2>2, <2>3 DEF KeysNameTheirRound
<1> QED BY SpecInv, <1>1, PTL

(* Every answer stands once in the product a result is about, next to the      *)
(* question the user saw, over any number of rounds, questions and sentences   *)
(* (with_answers, build_questions).                                           *)
THEOREM AnswersStayUnderTheirQuestions == ASSUME JobAssumption PROVE Spec => []AnswersUnderTheirQuestions
<1>1. Inv => AnswersUnderTheirQuestions
  <2> SUFFICES ASSUME Inv, status \in {"awaiting_input", "completed"}
               PROVE  /\ Len(result.product) = Cardinality(answers)
                      /\ ToSet(result.product) = {Line(a.answer_text[2], a.answer_text) : a \in answers}
    BY DEF AnswersUnderTheirQuestions
  <2> DEFINE n == IF status = "completed" THEN question_round ELSE question_round - 1
  <2>1. n = Answered
    BY DEF Answered
  <2>2. Told(n) = answers
    <3>1. \A a \in answers: a.question_round \in 1..Answered /\ Answered \in Nat
      BY AnswersAre
    <3>2. \A a \in answers: a.question_round <= n
      BY <2>1, <3>1
    <3> QED BY <3>2 DEF Told
  <2>3. result # None
    BY ShownTypes DEF Inv, QuestionsFit, VerdictFitsReason
  <2> QED BY <2>2, <2>3 DEF Inv, ProductFits
<1> QED BY SpecInv, <1>1, PTL

(* What a tool misses is asked once; a question that comes again is one of the *)
(* verification model (_ask_missing_information).                             *)
THEOREM NothingMissingIsAskedTwice == ASSUME JobAssumption PROVE Spec => []NothingMissingAskedTwice
<1>1. Inv => NothingMissingAskedTwice
  BY DEF Inv
<1> QED BY SpecInv, <1>1, PTL

(* The limit of rounds closes a diagnosis only over a question that is open    *)
(* (_close_at_question_limit).                                                *)
THEOREM LimitIsOverOpenQuestions == ASSUME JobAssumption PROVE Spec => []LimitOverOpenQuestions
<1>1. Inv => LimitOverOpenQuestions
  BY DEF Inv
<1> QED BY SpecInv, <1>1, PTL

(* A result that was changed on its way is verified exactly if it says so.     *)
THEOREM VerdictsFitReasons == ASSUME JobAssumption PROVE Spec => []VerdictFitsReason
<1>1. Inv => VerdictFitsReason
  BY DEF Inv
<1> QED BY SpecInv, <1>1, PTL

-----------------------------------------------------------------------------
CONSTANTS MaxSteps, MaxCalls, MaxExceptions, Uuids, MaxNumber
VARIABLES opened, trace, info, calls, flying, raised, failure, finish, origin, aliases, counter

(* Which error the record of a run blames, for any number of steps.            *)
Trace == INSTANCE TraceRecorder

MadeCall == [id : Nat, failed : BOOLEAN]
Place    == Nat \cup {None}
Error    == [exc : Seq(Nat), from : Place, call : Place]
Failure  == [exc : Nat, step : Nat, path : Seq(Nat), call : Place]

Node     == [calls : Seq(MadeCall), error : Error \cup {None}]
Beginning == [step : Place, call : Place]

(* The innermost cause of an exception.                                       *)
Cause(exc) == exc[Len(exc)]

TraceTypes ==
  /\ trace \in Seq(Node)
  /\ info \in Seq(MadeCall) /\ calls \in Nat
  /\ opened \in Seq(1..Len(trace))
  /\ raised \in Nat /\ flying \in Seq(1..raised)
  /\ origin \in [1..raised -> Beginning] /\ Len(origin) = raised

(* Steps are opened one within the other, and an exception began in one that    *)
(* has been left.                                                             *)
StepsNest ==
  /\ \A i, j \in 1..Len(opened): i < j => opened[i] < opened[j]
  /\ \A x \in 1..raised: origin[x].step # None =>
       origin[x].step \in 1..Len(trace) /\ \A i \in 1..Len(opened): opened[i] # origin[x].step

(* The last exception that left a step is remembered with that step.           *)
FailureFits ==
  failure # None =>
    /\ failure \in Failure /\ failure.exc \in 1..raised
    /\ failure.path # <<>> /\ failure.step = failure.path[Len(failure.path)]

(* It is known again, however it was wrapped, exactly if it left a step before. *)
FlyingFits ==
  flying # <<>> =>
    LET began == origin[flying[Len(flying)]]
    IN /\ Trace!Known <=> began.step # None
       /\ Trace!Known => failure.step = began.step
       /\ began.step = None /\ began.call # None /\ opened # <<>> =>
            Trace!LastFailed(trace[opened[Len(opened)]].calls) = began.call

Blames(e, began, i) ==
  /\ began.step # None
  /\ (e.from = None) <=> (began.step = i)
  /\ e.from # None => e.from = began.step
  /\ e.from = None /\ began.call # None => e.call = began.call

ErrorFits(e, i) ==
  /\ e.exc # <<>> /\ Cause(e.exc) \in 1..raised
  /\ Blames(e, origin[Cause(e.exc)], i)

ErrorsFit == \A i \in 1..Len(trace): trace[i].error # None => ErrorFits(trace[i].error, i)

EndBlames(at, began) ==
  /\ began.step # None =>
       /\ at # None /\ at.step = began.step
       /\ at.path[Len(at.path)] = began.step
  /\ began.step = None /\ at # None => at.step = None

EndFits == finish # None /\ finish.exc # <<>> => EndBlames(finish.at, origin[Cause(finish.exc)])

TraceInv == TraceTypes /\ StepsNest /\ FailureFits /\ FlyingFits /\ ErrorsFit /\ EndFits

LEMMA TraceInit == Trace!TraceAssumption /\ Trace!Init => TraceInv
BY DEF Trace!TraceAssumption, Trace!Init, TraceInv, TraceTypes, StepsNest, FailureFits, FlyingFits, ErrorsFit, EndFits

LEMMA LastIs == \A s: Trace!Last(s) = s[Len(s)]
BY DEF Trace!Last

LEMMA FrontIs ==
  ASSUME NEW S, NEW s \in Seq(S), s # <<>>
  PROVE  /\ Trace!Front(s) \in Seq(S) /\ Len(Trace!Front(s)) = Len(s) - 1
         /\ \A i \in 1..Len(s) - 1: Trace!Front(s)[i] = s[i]
<1>1. Len(s) \in Nat \ {0} /\ Trace!Front(s) = SubSeq(s, 1, Len(s) - 1)
  BY DEF Trace!Front
<1>2. 1 \in Int /\ Len(s) - 1 \in Int /\ \A i \in 1..(Len(s) - 1): s[i] \in S
  BY <1>1
<1>3. /\ SubSeq(s, 1, Len(s) - 1) \in Seq(S)
      /\ Len(SubSeq(s, 1, Len(s) - 1)) = IF 1 <= Len(s) - 1 THEN Len(s) - 1 - 1 + 1 ELSE 0
      /\ \A i \in 1..(Len(s) - 1 - 1 + 1): SubSeq(s, 1, Len(s) - 1)[i] = s[1 + i - 1]
  BY <1>1, <1>2, SubSeqProperties
<1>4. Len(SubSeq(s, 1, Len(s) - 1)) = Len(s) - 1
  <2>1. Len(s) \in Nat \ {0}
    BY <1>1
  <2>2. \A n \in Nat \ {0}: n - 1 - 1 + 1 = n - 1 /\ (1 <= n - 1 \/ n - 1 = 0)
    OBVIOUS
  <2>3. Len(s) - 1 - 1 + 1 = Len(s) - 1 /\ (1 <= Len(s) - 1 \/ Len(s) - 1 = 0)
    BY <2>1, <2>2
  <2> QED BY <1>3, <2>3, Zenon
<1>5. ASSUME NEW i \in 1..Len(s) - 1 PROVE SubSeq(s, 1, Len(s) - 1)[i] = s[i]
  <2>1. i \in 1..(Len(s) - 1 - 1 + 1) /\ 1 + i - 1 = i
    BY <1>1
  <2> QED BY <2>1, <1>3
<1> QED BY <1>1, <1>3, <1>4, <1>5

LEMMA NodeIs ==
  ASSUME NEW n \in Node PROVE n.calls \in Seq(MadeCall) /\ n.error \in Error \cup {None}
BY DEF Node

LEMMA KnownIs ==
  ASSUME NEW S, flying \in Seq(S)
  PROVE  Trace!Known <=> failure # None /\ \E i \in 1..Len(flying): flying[i] = failure.exc
BY DEF Trace!Known, Trace!InChain, Trace!Range

LEMMA KnownNext ==
  ASSUME NEW S, flying' \in Seq(S)
  PROVE  Trace!Known' <=> failure' # None /\ \E i \in 1..Len(flying'): flying'[i] = failure'.exc
BY DEF Trace!Known, Trace!InChain, Trace!Range

LEMMA SeqIsFunction == ASSUME NEW S, NEW s \in Seq(S) PROVE s \in [1..Len(s) -> S]
OBVIOUS

(* A step that is opened holds no error and is above all others.               *)
LEMMA OpenStepKeeps == ASSUME Trace!TraceAssumption, TraceInv, Trace!OpenStep PROVE TraceInv'
<1> DEFINE node == [calls |-> <<>>, error |-> None]
<1>1. /\ trace' = Append(trace, node) /\ opened' = Append(opened, Len(trace) + 1)
      /\ flying = <<>> /\ finish = None
      /\ UNCHANGED <<info, calls, flying, raised, failure, finish, origin>>
  BY DEF Trace!OpenStep, Trace!Running
<1>2. TraceTypes /\ StepsNest /\ FailureFits /\ FlyingFits /\ ErrorsFit /\ EndFits
  BY DEF TraceInv
<1>3. node \in Node /\ node.error = None
  BY DEF Node
<1> HIDE DEF node
<1>4. TraceTypes'
  BY <1>1, <1>2, <1>3 DEF TraceTypes
<1>5. /\ Len(trace') = Len(trace) + 1 /\ \A i \in 1..Len(trace): trace'[i] = trace[i]
      /\ trace'[Len(trace) + 1] = node
  BY <1>1, <1>2, <1>3 DEF TraceTypes
<1>6. StepsNest'
  <2>1. /\ Len(opened) \in Nat /\ Len(trace) \in Nat /\ \A i \in 1..Len(opened): opened[i] \in 1..Len(trace)
        /\ Len(opened') = Len(opened) + 1 /\ \A i \in 1..Len(opened): opened'[i] = opened[i]
        /\ opened'[Len(opened) + 1] = Len(trace) + 1
    BY <1>1, <1>2 DEF TraceTypes
  <2>2. \A i, j \in 1..Len(opened'): i < j => opened'[i] < opened'[j]
    <3>1. \A i, j \in 1..Len(opened): i < j => opened[i] < opened[j]
      BY <1>2 DEF StepsNest
    <3> SUFFICES ASSUME NEW i \in 1..Len(opened'), NEW j \in 1..Len(opened'), i < j PROVE opened'[i] < opened'[j]
      OBVIOUS
    <3>2. i \in 1..Len(opened) /\ (j \in 1..Len(opened) \/ j = Len(opened) + 1)
      BY <2>1
    <3>3. CASE j \in 1..Len(opened)
      BY <2>1, <3>1, <3>2, <3>3
    <3>4. CASE j = Len(opened) + 1
      BY <2>1, <3>2, <3>4
    <3> QED BY <3>2, <3>3, <3>4
  <2>3. ASSUME NEW x \in 1..raised, origin[x].step # None
        PROVE  origin[x].step \in 1..Len(trace') /\ \A i \in 1..Len(opened'): opened'[i] # origin[x].step
    BY <2>1, <2>3, <1>2, <1>5 DEF StepsNest
  <2> QED BY <2>2, <2>3, <1>1 DEF StepsNest
<1>7. ErrorsFit'
  <2> SUFFICES ASSUME NEW i \in 1..Len(trace'), trace'[i].error # None PROVE ErrorFits(trace[i].error, i)'
    BY DEF ErrorsFit
  <2>1. Len(trace) \in Nat
    BY <1>2 DEF TraceTypes
  <2>2. i \in 1..Len(trace) /\ trace'[i] = trace[i]
    BY <1>3, <1>5, <2>1
  <2>3. ErrorFits(trace[i].error, i)
    BY <1>2, <2>2 DEF ErrorsFit
  <2> QED BY <1>1, <2>2, <2>3 DEF ErrorFits
<1>8. FailureFits' /\ FlyingFits' /\ EndFits'
  BY <1>1, <1>2 DEF FailureFits, FlyingFits, EndFits
<1> QED BY <1>4, <1>6, <1>7, <1>8 DEF TraceInv

(* While nothing is raised, what is known of the past stays.                   *)
PastStays ==
  /\ Len(trace') = Len(trace) /\ \A i \in 1..Len(trace): trace'[i].error = trace[i].error
  /\ UNCHANGED <<opened, failure, finish>> /\ finish = None
  /\ raised' >= raised
  /\ \A x \in 1..raised: origin'[x] = origin[x]
  /\ \A x \in raised + 1..raised': origin'[x].step = None

LEMMA PastFits ==
  ASSUME TraceInv, TraceTypes', PastStays
  PROVE  StepsNest' /\ FailureFits' /\ ErrorsFit' /\ EndFits'
<1>1. StepsNest'
  BY DEF TraceInv, StepsNest, TraceTypes, PastStays
<1>2. FailureFits'
  BY DEF TraceInv, FailureFits, TraceTypes, PastStays, Failure
<1>3. ErrorsFit'
  <2> SUFFICES ASSUME NEW i \in 1..Len(trace'), trace'[i].error # None PROVE ErrorFits(trace[i].error, i)'
    BY DEF ErrorsFit
  <2>1. i \in 1..Len(trace) /\ trace'[i].error = trace[i].error
    BY DEF PastStays
  <2>2. ErrorFits(trace[i].error, i)
    BY <2>1 DEF TraceInv, ErrorsFit
  <2>3. raised \in Nat /\ raised' \in Nat /\ raised' >= raised
    BY DEF TraceInv, TraceTypes, PastStays
  <2>4. /\ Cause(trace[i].error.exc) \in 1..raised'
        /\ origin'[Cause(trace[i].error.exc)] = origin[Cause(trace[i].error.exc)]
    BY <2>2, <2>3 DEF PastStays, ErrorFits
  <2> QED BY <2>1, <2>2, <2>4 DEF ErrorFits
<1>4. EndFits'
  BY DEF PastStays, EndFits
<1> QED BY <1>1, <1>2, <1>3, <1>4

LEMMA EndCallKeeps ==
  ASSUME Trace!TraceAssumption, TraceInv, NEW fails \in BOOLEAN, Trace!EndCall(fails) PROVE TraceInv'
<1> DEFINE call == [id |-> calls + 1, failed |-> fails]
           last == Len(opened)
           node == opened[last]
<1>1. /\ IF opened = <<>> THEN info' = Append(info, call) /\ trace' = trace
         ELSE trace' = [trace EXCEPT ![node].calls = Append(@, call)] /\ info' = info
      /\ calls' = calls + 1 /\ flying = <<>> /\ finish = None
      /\ IF fails
         THEN /\ flying' = <<raised + 2, raised + 1>> /\ raised' = raised + 2
              /\ origin' = origin \o <<[step |-> None, call |-> calls + 1], [step |-> None, call |-> None]>>
         ELSE UNCHANGED <<flying, raised, origin>>
      /\ UNCHANGED <<opened, failure, finish>>
  BY LastIs DEF Trace!EndCall, Trace!Running
<1>2. TraceTypes /\ StepsNest /\ FailureFits /\ FlyingFits /\ ErrorsFit /\ EndFits
  BY DEF TraceInv
<1>3. call \in MadeCall /\ call.id = calls + 1 /\ (call.failed <=> fails)
  BY <1>2 DEF TraceTypes, MadeCall
<1> HIDE DEF call
<1>4. opened # <<>> => node \in 1..Len(trace)
  BY <1>2 DEF TraceTypes
<1> HIDE DEF node
<1>5. /\ trace' \in Seq(Node)
      /\ Len(trace') = Len(trace) /\ \A i \in 1..Len(trace): trace'[i].error = trace[i].error
      /\ opened # <<>> => trace'[node].calls = Append(trace[node].calls, call)
  <2>1. CASE opened = <<>>
    BY <1>1, <1>2, <2>1 DEF TraceTypes
  <2>2. CASE opened # <<>>
    <3>1. trace' = [trace EXCEPT ![node].calls = Append(@, call)]
      BY <1>1, <2>2
    <3>2. trace[node] \in Node /\ node \in 1..Len(trace)
      BY <1>2, <1>4, <2>2 DEF TraceTypes
    <3>4. trace[node].calls \in Seq(MadeCall) /\ trace[node].error \in Error \cup {None}
      BY <3>2, NodeIs
    <3>3. Append(trace[node].calls, call) \in Seq(MadeCall)
      BY <3>4, <1>3
    <3> DEFINE new == [trace[node] EXCEPT !.calls = Append(@, call)]
    <3>5. new \in Node /\ new.calls = Append(trace[node].calls, call) /\ new.error = trace[node].error
      BY <3>2, <3>3, <3>4 DEF Node
    <3>6. trace' = [trace EXCEPT ![node] = new]
      BY <3>1
    <3> HIDE DEF new
    <3>7. /\ trace' \in Seq(Node) /\ Len(trace') = Len(trace)
          /\ \A i \in 1..Len(trace): trace'[i] = IF i = node THEN new ELSE trace[i]
      BY <3>2, <3>5, <3>6, <1>2 DEF TraceTypes
    <3> QED BY <3>2, <3>5, <3>7
  <2> QED BY <2>1, <2>2
<1>6. /\ origin' \in [1..raised' -> Beginning] /\ Len(origin') = raised'
      /\ raised' \in Nat /\ flying' \in Seq(1..raised') /\ raised' >= raised
      /\ \A x \in 1..raised: origin'[x] = origin[x]
      /\ \A x \in raised + 1..raised': origin'[x].step = None
      /\ fails => flying'[Len(flying')] = raised + 1 /\ origin'[raised + 1].call = calls + 1
                  /\ \A i \in 1..Len(flying'): flying'[i] > raised
  <2>1. CASE ~fails
    BY <1>1, <1>2, <2>1 DEF TraceTypes
  <2>2. CASE fails
    <3> DEFINE o1 == [step |-> None, call |-> calls + 1]
               o2 == [step |-> None, call |-> None]
    <3>1. o1 \in Beginning /\ o2 \in Beginning
      BY <1>2 DEF TraceTypes, Beginning, Place
    <3>2. o1.step = None /\ o2.step = None /\ o1.call = calls + 1
      OBVIOUS
    <3>3. origin' = origin \o <<o1, o2>> /\ raised' = raised + 2 /\ flying' = <<raised + 2, raised + 1>>
      BY <1>1, <2>2
    <3> HIDE DEF o1, o2
    <3>4. origin \in Seq(Beginning) /\ Len(origin) = raised /\ raised \in Nat
      BY <1>2 DEF TraceTypes
    <3>5. /\ origin' \in Seq(Beginning) /\ Len(origin') = raised + 2
          /\ \A x \in 1..raised: origin'[x] = origin[x]
          /\ origin'[raised + 1] = o1 /\ origin'[raised + 2] = o2
      <4> DEFINE two == <<o1, o2>>
      <4>1. two \in Seq(Beginning) /\ Len(two) = 2 /\ two[1] = o1 /\ two[2] = o2
        BY <3>1
      <4>2. origin' = origin \o two
        BY <3>3
      <4> HIDE DEF two
      <4>3. /\ origin' \in Seq(Beginning) /\ Len(origin') = raised + 2
            /\ \A i \in 1..raised + 2: origin'[i] = IF i <= raised THEN origin[i] ELSE two[i - raised]
        <5>1. /\ origin \o two \in Seq(Beginning) /\ Len(origin \o two) = Len(origin) + Len(two)
              /\ \A i \in 1..Len(origin) + Len(two):
                   (origin \o two)[i] = IF i <= Len(origin) THEN origin[i] ELSE two[i - Len(origin)]
          BY <3>4, <4>1, ConcatProperties, Zenon
        <5>2. Len(origin) = raised /\ Len(two) = 2
          BY <3>4, <4>1
        <5> QED BY <4>2, <5>1, <5>2, Zenon
      <4>4. /\ raised + 1 \in 1..raised + 2 /\ ~(raised + 1 <= raised) /\ raised + 1 - raised = 1
            /\ raised + 2 \in 1..raised + 2 /\ ~(raised + 2 <= raised) /\ raised + 2 - raised = 2
            /\ \A x \in 1..raised: x \in 1..raised + 2 /\ x <= raised
        BY <3>4
      <4>5. \A x \in 1..raised: origin'[x] = origin[x]
        BY <4>3, <4>4, Zenon
      <4>6. origin'[raised + 1] = two[1] /\ origin'[raised + 2] = two[2]
        <5> DEFINE m == raised + 1
                   n == raised + 2
        <5>1. /\ m \in 1..raised + 2 /\ ~(m <= raised) /\ m - raised = 1
              /\ n \in 1..raised + 2 /\ ~(n <= raised) /\ n - raised = 2
          BY <3>4
        <5> HIDE DEF m, n
        <5>2. origin'[m] = two[m - raised] /\ origin'[n] = two[n - raised]
          BY <4>3, <5>1
        <5>3. origin'[m] = two[1] /\ origin'[n] = two[2]
          BY <5>1, <5>2, Zenon
        <5> QED BY <5>3 DEF m, n
      <4> QED BY <4>1, <4>3, <4>5, <4>6, Zenon
    <3>6. \A x \in raised + 1..raised': origin'[x].step = None
      BY <3>2, <3>3, <3>4, <3>5
    <3>7. flying' \in Seq(1..raised') /\ flying'[Len(flying')] = raised + 1 /\ \A i \in 1..Len(flying'): flying'[i] > raised
      BY <3>3, <3>4
    <3>8. /\ origin' \in [1..raised' -> Beginning] /\ Len(origin') = raised'
          /\ raised' \in Nat /\ raised' >= raised
      <4>1. raised' = raised + 2 /\ Len(origin') = raised + 2 /\ raised \in Nat
        BY <3>3, <3>4, <3>5
      <4>2. origin' \in [1..Len(origin') -> Beginning]
        BY <3>5
      <4> QED BY <4>1, <4>2
    <3>9. origin'[raised + 1].call = calls + 1
      BY <3>2, <3>5
    <3> QED BY <3>5, <3>6, <3>7, <3>8, <3>9
  <2> QED BY <2>1, <2>2
<1>7. TraceTypes'
  <2>1. info' \in Seq(MadeCall) /\ calls' \in Nat
    <3>1. info \in Seq(MadeCall) /\ calls \in Nat
      BY <1>2 DEF TraceTypes
    <3>2. info' = Append(info, call) \/ info' = info
      BY <1>1
    <3>3. calls' = calls + 1
      BY <1>1
    <3> QED BY <3>1, <3>2, <3>3, <1>3
  <2>2. opened' \in Seq(1..Len(trace'))
    BY <1>1, <1>2, <1>5 DEF TraceTypes
  <2> QED BY <2>1, <2>2, <1>5, <1>6 DEF TraceTypes
<1>8. PastStays
  BY <1>1, <1>5, <1>6 DEF PastStays
<1>9. FlyingFits'
  <2>1. CASE ~fails
    BY <1>1, <2>1 DEF FlyingFits
  <2>2. CASE fails
    <3>1. ~Trace!Known'
      <4>1. Trace!Known' <=> failure' # None /\ \E i \in 1..Len(flying'): flying'[i] = failure'.exc
        <5>1. Trace!Range(flying') = {flying'[i] : i \in 1..Len(flying')}
          BY <1>7 DEF TraceTypes, Trace!Range
        <5>2. Trace!Known' <=> failure' # None /\ failure'.exc \in Trace!Range(flying')
          BY Zenon DEF Trace!Known, Trace!InChain
        <5> QED BY <5>1, <5>2, Zenon
      <4>2. failure # None => failure.exc \in 1..raised
        BY <1>2 DEF FailureFits
      <4> QED BY <4>1, <4>2, <1>1, <1>6, <2>2, <1>2 DEF TraceTypes
    <3>2. opened # <<>> => Trace!LastFailed(trace'[node].calls) = calls + 1
      <4> SUFFICES ASSUME opened # <<>> PROVE Trace!LastFailed(trace'[node].calls) = calls + 1
        OBVIOUS
      <4>1. trace[node].calls \in Seq(MadeCall)
        BY <1>2, <1>4, NodeIs DEF TraceTypes
      <4> DEFINE made == Append(trace[node].calls, call)
      <4>2. made # <<>> /\ made[Len(made)] = call
        BY <4>1, <1>3
      <4> HIDE DEF made
      <4>3. Trace!LastFailed(made) = call.id
        BY <4>2, <1>3, <2>2, LastIs DEF Trace!LastFailed
      <4> QED BY <4>3, <1>3, <1>5 DEF made
    <3>3. origin'[flying'[Len(flying')]].step = None /\ origin'[flying'[Len(flying')]].call = calls + 1
      <4>1. raised + 1 \in raised + 1..raised'
        BY <1>1, <1>2, <2>2 DEF TraceTypes
      <4> QED BY <4>1, <1>6, <2>2
    <3> QED BY <3>1, <3>2, <3>3, <1>1 DEF FlyingFits, node
  <2> QED BY <2>1, <2>2
<1> QED BY <1>7, <1>8, <1>9, PastFits DEF TraceInv

(* A new exception has not left a step yet, but the one it was raised from may. *)
LEMMA OriginGrows ==
  ASSUME Trace!TraceAssumption, TraceInv, raised' = raised + 1,
         origin' = Append(origin, [step |-> None, call |-> None]),
         UNCHANGED <<opened, trace, info, calls, failure, finish>>, finish = None,
         flying' \in Seq(1..raised')
  PROVE  TraceTypes' /\ PastStays /\ origin'[raised + 1].step = None /\ origin'[raised + 1].call = None
<1> DEFINE new == [step |-> None, call |-> None]
<1>1. new \in Beginning /\ new.step = None /\ new.call = None
  BY DEF Beginning, Place
<1> HIDE DEF new
<1>2. origin' = Append(origin, new)
  BY DEF new
<1>3. origin \in Seq(Beginning) /\ Len(origin) = raised /\ raised \in Nat
  BY DEF TraceInv, TraceTypes
<1>4. /\ origin' \in Seq(Beginning) /\ Len(origin') = raised + 1
      /\ \A x \in 1..raised: origin'[x] = origin[x]
      /\ origin'[raised + 1] = new
  BY <1>1, <1>2, <1>3
<1>5. origin' \in [1..raised' -> Beginning] /\ Len(origin') = raised' /\ raised' \in Nat
  <2>1. origin' \in [1..Len(origin') -> Beginning]
    BY <1>4, SeqIsFunction
  <2>2. Len(origin') = raised + 1 /\ raised + 1 = raised' /\ raised' \in Nat
    BY <1>3, <1>4
  <2> QED BY <2>1, <2>2
<1>6. TraceTypes'
  BY <1>5 DEF TraceInv, TraceTypes
<1>7. \A x \in raised + 1..raised': origin'[x].step = None
  BY <1>1, <1>3, <1>4
<1>8. PastStays
  BY <1>3, <1>4, <1>7 DEF PastStays
<1> QED BY <1>1, <1>4, <1>6, <1>8

LEMMA RaiseKeeps == ASSUME Trace!TraceAssumption, TraceInv, Trace!Raise PROVE TraceInv'
<1>1. /\ finish = None /\ flying' = <<raised + 1>> /\ raised' = raised + 1
      /\ origin' = Append(origin, [step |-> None, call |-> None])
      /\ UNCHANGED <<opened, trace, info, calls, failure, finish>>
  BY DEF Trace!Raise
<1>2. raised \in Nat /\ flying' \in Seq(1..raised') /\ Len(flying') = 1 /\ flying'[1] = raised + 1
  BY <1>1 DEF TraceInv, TraceTypes
<1>3. TraceTypes' /\ PastStays /\ origin'[raised + 1].step = None /\ origin'[raised + 1].call = None
  BY <1>1, <1>2, OriginGrows
<1>4. ~Trace!Known'
  <2>1. Trace!Known' <=> failure' # None /\ \E i \in 1..Len(flying'): flying'[i] = failure'.exc
    BY <1>2, KnownNext
  <2>2. failure # None => failure.exc \in 1..raised
    BY DEF TraceInv, FailureFits
  <2> QED BY <2>1, <2>2, <1>1, <1>2
<1>5. FlyingFits'
  BY <1>2, <1>3, <1>4 DEF FlyingFits
<1> QED BY <1>3, <1>5, PastFits DEF TraceInv

LEMMA RaiseFromKeeps == ASSUME Trace!TraceAssumption, TraceInv, Trace!RaiseFrom PROVE TraceInv'
<1>1. /\ finish = None /\ flying # <<>> /\ flying' = <<raised + 1>> \o flying /\ raised' = raised + 1
      /\ origin' = Append(origin, [step |-> None, call |-> None])
      /\ UNCHANGED <<opened, trace, info, calls, failure, finish>>
  BY DEF Trace!RaiseFrom
<1>2. /\ raised \in Nat /\ flying \in Seq(1..raised) /\ flying' \in Seq(1..raised')
      /\ Len(flying') = Len(flying) + 1 /\ flying'[1] = raised + 1
      /\ \A i \in 1..Len(flying): flying'[i + 1] = flying[i]
  <2>1. raised \in Nat /\ flying \in Seq(1..raised)
    BY DEF TraceInv, TraceTypes
  <2>2. flying \in Seq(1..raised') /\ <<raised + 1>> \in Seq(1..raised')
    BY <1>1, <2>1
  <2> QED BY <1>1, <2>1, <2>2
<1>3. TraceTypes' /\ PastStays
  BY <1>1, <1>2, OriginGrows
<1>4. Trace!Known' <=> Trace!Known
  <2>1. Trace!Known' <=> failure' # None /\ \E i \in 1..Len(flying'): flying'[i] = failure'.exc
    BY <1>2, KnownNext
  <2>2. Trace!Known <=> failure # None /\ \E i \in 1..Len(flying): flying[i] = failure.exc
    BY <1>2, KnownIs
  <2>3. failure # None => failure.exc \in 1..raised
    BY DEF TraceInv, FailureFits
  <2>4. ASSUME Trace!Known PROVE Trace!Known'
    <3>1. PICK i \in 1..Len(flying): flying[i] = failure.exc
      BY <2>2, <2>4
    <3>2. i + 1 \in 1..Len(flying') /\ flying'[i + 1] = failure.exc
      BY <1>2, <3>1
    <3> QED BY <2>1, <2>2, <2>4, <3>2, <1>1
  <2>5. ASSUME Trace!Known' PROVE Trace!Known
    <3>1. failure # None
      BY <2>1, <2>5, <1>1
    <3>2. PICK i \in 1..Len(flying'): flying'[i] = failure.exc
      BY <2>1, <2>5, <1>1
    <3>3. i # 1
      BY <1>2, <2>3, <3>1, <3>2
    <3>4. i \in Nat /\ i - 1 \in 1..Len(flying) /\ (i - 1) + 1 = i
      BY <1>2, <3>2, <3>3
    <3>5. flying[i - 1] = failure.exc
      BY <1>2, <3>2, <3>4
    <3> QED BY <2>2, <3>1, <3>4, <3>5
  <2> QED BY <2>4, <2>5
<1>5. Cause(flying') = Cause(flying) /\ Cause(flying) \in 1..raised /\ origin'[Cause(flying)] = origin[Cause(flying)]
  <2>1. Len(flying) \in 1..Len(flying) /\ Len(flying') = Len(flying) + 1
    BY <1>1, <1>2
  <2>2. Cause(flying') = Cause(flying) /\ Cause(flying) \in 1..raised
    BY <2>1, <1>2 DEF Cause
  <2> QED BY <2>2, <1>3 DEF PastStays
<1>6. FlyingFits'
  BY <1>1, <1>4, <1>5 DEF TraceInv, FlyingFits, Cause
<1> QED BY <1>3, <1>6, PastFits DEF TraceInv

LEMMA CatchKeeps == ASSUME Trace!TraceAssumption, TraceInv, Trace!Catch PROVE TraceInv'
<1>1. /\ finish = None /\ flying' = <<>>
      /\ UNCHANGED <<opened, trace, info, calls, raised, failure, finish, origin>>
  BY DEF Trace!Catch
<1>2. TraceTypes'
  BY <1>1 DEF TraceInv, TraceTypes
<1>3. PastStays
  BY <1>1 DEF TraceInv, TraceTypes, PastStays
<1>4. FlyingFits'
  BY <1>1 DEF FlyingFits
<1> QED BY <1>2, <1>3, <1>4, PastFits DEF TraceInv

(* The step that is left is the innermost, and no step is open twice.          *)
LEMMA Innermost ==
  ASSUME TraceInv, opened # <<>>, opened' = Trace!Front(opened)
  PROVE  /\ opened[Len(opened)] \in 1..Len(trace) /\ Len(trace) \in Nat
         /\ opened' \in Seq(1..Len(trace)) /\ Len(opened') = Len(opened) - 1 /\ Len(opened) \in Nat \ {0}
         /\ \A i \in 1..Len(opened'): opened'[i] = opened[i] /\ opened'[i] < opened[Len(opened)]
         /\ \A i, j \in 1..Len(opened'): i < j => opened'[i] < opened'[j]
<1>1. opened \in Seq(1..Len(trace)) /\ Len(trace) \in Nat
  BY DEF TraceInv, TraceTypes
<1>2. /\ opened' \in Seq(1..Len(trace)) /\ Len(opened') = Len(opened) - 1
      /\ \A i \in 1..Len(opened) - 1: opened'[i] = opened[i]
  BY <1>1, FrontIs
<1>3. Len(opened) \in Nat \ {0}
  BY <1>1
<1>4. \A i, j \in 1..Len(opened): i < j => opened[i] < opened[j]
  BY DEF TraceInv, StepsNest
<1>5. ASSUME NEW i \in 1..Len(opened')
      PROVE  /\ i \in 1..Len(opened) - 1 /\ i \in 1..Len(opened) /\ i < Len(opened) /\ Len(opened) \in 1..Len(opened)
  BY <1>2, <1>3
<1>6. ASSUME NEW i \in 1..Len(opened') PROVE opened'[i] = opened[i] /\ opened'[i] < opened[Len(opened)]
  BY <1>2, <1>4, <1>5
<1>7. \A i, j \in 1..Len(opened'): i < j => opened'[i] < opened'[j]
  BY <1>4, <1>5, <1>6
<1>8. opened[Len(opened)] \in 1..Len(trace)
  BY <1>1, <1>3
<1> QED BY <1>1, <1>2, <1>3, <1>6, <1>7, <1>8

(* An exception that was caught, or none, leaves nothing behind.               *)
LEMMA LeaveQuietly ==
  ASSUME Trace!TraceAssumption, TraceInv, Trace!LeaveStep, flying = <<>> PROVE TraceInv'
<1>1. /\ opened # <<>> /\ opened' = Trace!Front(opened)
      /\ UNCHANGED <<trace, failure, origin, info, calls, flying, raised, finish>>
  BY DEF Trace!LeaveStep
<1>2. TraceTypes'
  BY <1>1, Innermost DEF TraceInv, TraceTypes
<1>3. StepsNest'
  BY <1>1, Innermost DEF TraceInv, StepsNest
<1>4. FailureFits' /\ FlyingFits' /\ EndFits'
  BY <1>1 DEF TraceInv, FailureFits, FlyingFits, EndFits
<1>5. ErrorsFit'
  BY <1>1 DEF TraceInv, ErrorsFit, ErrorFits
<1> QED BY <1>2, <1>3, <1>4, <1>5 DEF TraceInv

ErrorNow == Trace!StepError(opened[Len(opened)])

LEMMA ErrorNowIs ==
  ASSUME Trace!TraceAssumption, TraceInv, flying # <<>>, opened # <<>>
  PROVE  /\ ErrorNow \in Error /\ ErrorNow.exc = flying /\ Cause(flying) \in 1..raised
         /\ Trace!Known => /\ ErrorNow.from = failure.step /\ failure \in Failure
                           /\ origin[Cause(flying)].step = failure.step /\ failure.step # None
         /\ ~Trace!Known => /\ ErrorNow.from = None /\ origin[Cause(flying)].step = None
                            /\ origin[Cause(flying)].call # None => ErrorNow.call = origin[Cause(flying)].call
<1> DEFINE made == trace[opened[Len(opened)]].calls
<1>1. made \in Seq(MadeCall)
  <2>1. opened[Len(opened)] \in 1..Len(trace)
    BY DEF TraceInv, TraceTypes
  <2> QED BY <2>1, NodeIs DEF TraceInv, TraceTypes
<1>2. Trace!LastFailed(made) \in Place
  <2>1. made # <<>> => made[Len(made)] \in MadeCall
    BY <1>1
  <2> QED BY <2>1, LastIs DEF Trace!LastFailed, MadeCall, Place
<1>3. /\ Trace!Known <=> origin[Cause(flying)].step # None
      /\ Trace!Known => failure.step = origin[Cause(flying)].step
      /\ origin[Cause(flying)].step = None /\ origin[Cause(flying)].call # None =>
           Trace!LastFailed(made) = origin[Cause(flying)].call
  BY DEF TraceInv, FlyingFits, Cause
<1> HIDE DEF made
<1>4. ErrorNow = [exc |-> flying, from |-> IF Trace!Known THEN failure.step ELSE None,
                  call |-> IF Trace!Known THEN None ELSE Trace!LastFailed(made)]
  BY DEF ErrorNow, Trace!StepError, made
<1>5. raised \in Nat /\ flying \in Seq(1..raised) /\ flying \in Seq(Nat)
  BY DEF TraceInv, TraceTypes
<1>6. Cause(flying) \in 1..raised
  BY <1>5 DEF Cause
<1>7. Trace!Known => failure # None /\ failure \in Failure /\ failure.step \in Nat
  <2>1. Trace!Known => failure # None
    BY <1>5, KnownIs
  <2> QED BY <2>1 DEF TraceInv, FailureFits, Failure
<1>8. CASE Trace!Known
  <2>1. ErrorNow = [exc |-> flying, from |-> failure.step, call |-> None]
    BY <1>4, <1>8
  <2>2. ErrorNow \in Error /\ ErrorNow.exc = flying /\ ErrorNow.from = failure.step
    BY <2>1, <1>5, <1>7, <1>8 DEF Error, Place
  <2> QED BY <2>2, <1>3, <1>6, <1>7, <1>8
<1>9. CASE ~Trace!Known
  <2>1. ErrorNow = [exc |-> flying, from |-> None, call |-> Trace!LastFailed(made)]
    BY <1>4, <1>9
  <2>2. ErrorNow \in Error /\ ErrorNow.exc = flying /\ ErrorNow.from = None
        /\ ErrorNow.call = Trace!LastFailed(made)
    BY <2>1, <1>2, <1>5 DEF Error, Place
  <2> QED BY <2>2, <1>3, <1>6, <1>9
<1> QED BY <1>8, <1>9

(* One that passes a step leaves its error there; the first step it passes is   *)
(* the one it began in.                                                       *)
LEMMA LeaveRaised ==
  ASSUME Trace!TraceAssumption, TraceInv, Trace!LeaveStep, flying # <<>> PROVE TraceInv'
<1> DEFINE node == opened[Len(opened)]
           new == [exc |-> Head(flying), step |-> node, path |-> opened, call |-> ErrorNow.call]
<1>1. /\ finish = None /\ opened # <<>> /\ opened' = Trace!Front(opened)
      /\ trace' = [trace EXCEPT ![node].error = ErrorNow]
      /\ failure' = IF Trace!Known THEN failure ELSE new
      /\ origin' = IF origin[Cause(flying)].step # None THEN origin
                   ELSE [origin EXCEPT ![Cause(flying)].step = node]
      /\ UNCHANGED <<info, calls, flying, raised, finish>>
  BY LastIs DEF Trace!LeaveStep, Trace!InnermostCause, ErrorNow, Cause
<1>2. TraceTypes /\ StepsNest /\ FailureFits /\ FlyingFits /\ ErrorsFit /\ EndFits
  BY DEF TraceInv
<1>3. /\ ErrorNow \in Error /\ ErrorNow.exc = flying /\ Cause(flying) \in 1..raised
      /\ Trace!Known => /\ ErrorNow.from = failure.step /\ failure \in Failure
                        /\ origin[Cause(flying)].step = failure.step /\ failure.step # None
      /\ ~Trace!Known => /\ ErrorNow.from = None /\ origin[Cause(flying)].step = None
                         /\ origin[Cause(flying)].call # None => ErrorNow.call = origin[Cause(flying)].call
  BY <1>1, ErrorNowIs
<1>4. /\ node \in 1..Len(trace) /\ Len(trace) \in Nat
      /\ opened' \in Seq(1..Len(trace)) /\ Len(opened') = Len(opened) - 1 /\ Len(opened) \in Nat \ {0}
      /\ \A i \in 1..Len(opened'): opened'[i] = opened[i] /\ opened'[i] < node
      /\ \A i, j \in 1..Len(opened'): i < j => opened'[i] < opened'[j]
  BY <1>1, Innermost
<1>5. /\ trace' \in Seq(Node) /\ Len(trace') = Len(trace)
      /\ \A i \in 1..Len(trace): trace'[i].error = IF i = node THEN ErrorNow ELSE trace[i].error
  <2> DEFINE left == [trace[node] EXCEPT !.error = ErrorNow]
  <2>1. trace[node] \in Node
    BY <1>2, <1>4 DEF TraceTypes
  <2>2. left \in Node /\ left.error = ErrorNow
    BY <1>3, <2>1, NodeIs DEF Node
  <2>3. trace' = [trace EXCEPT ![node] = left]
    BY <1>1
  <2> HIDE DEF left, node
  <2> QED BY <2>2, <2>3, <1>2, <1>4 DEF TraceTypes
<1>6. raised \in Nat /\ origin \in [1..raised -> Beginning] /\ flying \in Seq(1..raised) /\ Len(origin) = raised
  BY <1>2 DEF TraceTypes
<1>7. /\ origin' \in [1..raised -> Beginning] /\ Len(origin') = raised
      /\ \A x \in 1..raised: origin[x].step # None => origin'[x] = origin[x]
      /\ \A x \in 1..raised: origin'[x].call = origin[x].call
      /\ \A x \in 1..raised: origin[x].step = None =>
           origin'[x].step = IF x = Cause(flying) THEN node ELSE None
  <2>1. CASE origin[Cause(flying)].step # None
    <3>1. origin' = origin
      BY <1>1, <2>1
    <3> QED BY <3>1, <1>6, <2>1
  <2>2. CASE origin[Cause(flying)].step = None
    <3> DEFINE b == [origin[Cause(flying)] EXCEPT !.step = node]
    <3>1. origin[Cause(flying)] \in Beginning
      BY <1>3, <1>6
    <3>2. node \in Nat
      BY <1>4
    <3>3. b \in Beginning /\ b.step = node /\ b.call = origin[Cause(flying)].call
      BY <3>1, <3>2 DEF Beginning, Place
    <3>4. origin' = [origin EXCEPT ![Cause(flying)] = b]
      BY <1>1, <2>2
    <3> HIDE DEF b, node
    <3>5. origin' \in [1..raised -> Beginning]
      BY <3>3, <3>4, <1>6, <1>3
    <3>6. \A x \in 1..raised: origin'[x] = IF x = Cause(flying) THEN b ELSE origin[x]
      BY <3>4, <1>6, <1>3
    <3> QED BY <3>3, <3>5, <3>6, <1>6, <2>2
  <2> QED BY <2>1, <2>2
<1>8. TraceTypes'
  BY <1>1, <1>2, <1>4, <1>5, <1>7 DEF TraceTypes
<1>9. StepsNest'
  <2> SUFFICES ASSUME NEW x \in 1..raised, origin'[x].step # None
               PROVE  origin'[x].step \in 1..Len(trace) /\ \A i \in 1..Len(opened'): opened'[i] # origin'[x].step
    BY <1>1, <1>4, <1>5 DEF StepsNest
  <2>1. CASE origin[x].step # None
    <3>1. origin[x].step \in 1..Len(trace) /\ \A i \in 1..Len(opened): opened[i] # origin[x].step
      BY <1>2, <2>1 DEF StepsNest
    <3> QED BY <3>1, <2>1, <1>4, <1>7
  <2>2. CASE origin[x].step = None
    <3>1. origin'[x].step = node
      BY <1>7, <2>2
    <3>2. \A i \in 1..Len(opened'): opened'[i] \in 1..Len(trace) /\ opened'[i] < node
      <4>1. opened' \in Seq(1..Len(trace)) /\ \A i \in 1..Len(opened'): opened'[i] < node
        BY <1>4
      <4> QED BY <4>1
    <3> QED BY <3>1, <3>2, <1>4
  <2> QED BY <2>1, <2>2
<1>10. Trace!Known' /\ FailureFits' /\ failure'.step = origin'[Cause(flying)].step /\ failure'.step # None
  <2>1. CASE Trace!Known
    <3>1. failure' = failure /\ flying' = flying
      BY <1>1, <2>1
    <3>2. Trace!Known'
      BY <3>1, <2>1 DEF Trace!Known
    <3>3. FailureFits'
      BY <3>1, <1>1, <1>2 DEF FailureFits
    <3> QED BY <3>1, <3>2, <3>3, <2>1, <1>3, <1>7
  <2>2. CASE ~Trace!Known
    <3>1. failure' = new /\ flying' = flying /\ raised' = raised
      BY <1>1, <2>2
    <3>2. Head(flying) = flying[1] /\ 1 \in 1..Len(flying) /\ Head(flying) \in 1..raised
      BY <1>6
    <3>3. ErrorNow.call \in Place
      BY <1>3 DEF Error
    <3>4. new \in Failure
      BY <1>2, <1>4, <1>6, <3>2, <3>3 DEF Failure, TraceTypes
    <3>5. new # None
      BY <3>4 DEF Trace!TraceAssumption, Failure, Place
    <3>6. new.exc = Head(flying) /\ new.step = node /\ new.path = opened
      OBVIOUS
    <3> HIDE DEF new
    <3>7. Trace!Known'
      BY <3>1, <3>2, <3>5, <3>6, <1>6, KnownNext
    <3>8. FailureFits'
      BY <3>1, <3>2, <3>4, <3>6, <1>1 DEF FailureFits
    <3>9. node # None
      BY <1>4 DEF Trace!TraceAssumption
    <3> QED BY <3>1, <3>6, <3>7, <3>8, <3>9, <1>3, <1>7, <2>2
  <2> QED BY <2>1, <2>2
<1>11. FlyingFits'
  BY <1>1, <1>10 DEF FlyingFits, Cause
<1>12. ErrorsFit'
  <2> SUFFICES ASSUME NEW i \in 1..Len(trace), trace'[i].error # None PROVE ErrorFits(trace[i].error, i)'
    BY <1>5 DEF ErrorsFit
  <2>1. CASE i = node
    <3>1. trace'[i].error = ErrorNow
      BY <1>5, <2>1
    <3>2. Cause(ErrorNow.exc) \in 1..raised /\ ErrorNow.exc # <<>>
      BY <1>3
    <3>3. Blames(ErrorNow, origin'[Cause(flying)], i)
      <4>1. CASE Trace!Known
        <5>1. origin'[Cause(flying)] = origin[Cause(flying)]
          BY <4>1, <1>3, <1>7
        <5>2. origin[Cause(flying)].step # node
          BY <4>1, <1>2, <1>3, <1>4 DEF StepsNest
        <5> QED BY <5>1, <5>2, <4>1, <2>1, <1>3 DEF Blames
      <4>2. CASE ~Trace!Known
        <5>1. origin'[Cause(flying)].step = node /\ origin'[Cause(flying)].call = origin[Cause(flying)].call
          BY <4>2, <1>3, <1>7
        <5>2. node # None
          BY <1>4 DEF Trace!TraceAssumption
        <5> QED BY <5>1, <5>2, <4>2, <2>1, <1>3 DEF Blames
      <4> QED BY <4>1, <4>2
    <3> QED BY <3>1, <3>2, <3>3, <1>1, <1>3 DEF ErrorFits
  <2>2. CASE i # node
    <3>1. trace'[i].error = trace[i].error /\ ErrorFits(trace[i].error, i)
      BY <1>2, <1>5, <2>2 DEF ErrorsFit
    <3>2. origin'[Cause(trace[i].error.exc)] = origin[Cause(trace[i].error.exc)]
      BY <3>1, <1>7 DEF ErrorFits, Blames
    <3> QED BY <3>1, <3>2, <1>1 DEF ErrorFits
  <2> QED BY <2>1, <2>2
<1>13. EndFits'
  BY <1>1 DEF EndFits
<1> QED BY <1>8, <1>9, <1>10, <1>11, <1>12, <1>13 DEF TraceInv

(* The run ends with its last exception, which is known if it left a step.      *)
LEMMA CloseKeeps == ASSUME Trace!TraceAssumption, TraceInv, Trace!End PROVE TraceInv'
<1>1. /\ finish' = IF flying = <<>> THEN [exc |-> <<>>, at |-> None] ELSE [exc |-> flying, at |-> Trace!FailureAt]
      /\ UNCHANGED <<opened, trace, info, calls, flying, raised, failure, origin>>
  BY DEF Trace!End
<1>2. TraceTypes /\ StepsNest /\ FailureFits /\ FlyingFits /\ ErrorsFit
  BY DEF TraceInv
<1>3. TraceTypes' /\ StepsNest' /\ FailureFits'
  BY <1>1, <1>2 DEF TraceTypes, StepsNest, FailureFits
<1>4. ErrorsFit'
  BY <1>1, <1>2 DEF ErrorsFit, ErrorFits
<1>5. Trace!Known' <=> Trace!Known
  BY <1>1 DEF Trace!Known
<1>6. FlyingFits'
  BY <1>1, <1>2, <1>5 DEF FlyingFits
<1>7. EndFits'
  <2>1. CASE flying = <<>>
    BY <1>1, <2>1 DEF EndFits
  <2>2. CASE flying # <<>>
    <3>1. finish'.exc = flying /\ finish'.at = Trace!FailureAt /\ UNCHANGED origin
      BY <1>1, <2>2
    <3>2. Trace!Known <=> origin[Cause(flying)].step # None
      BY <1>2, <2>2 DEF FlyingFits, Cause
    <3>3. CASE Trace!Known
      <4> DEFINE at == [step |-> failure.step, path |-> failure.path, call |-> failure.call]
      <4>1. Trace!FailureAt = at
        BY <3>3 DEF Trace!FailureAt
      <4>2. failure # None /\ failure.step = origin[Cause(flying)].step
        BY <1>2, <2>2, <3>3, KnownIs DEF FlyingFits, Cause, TraceTypes
      <4>3. failure \in Failure /\ failure.step = failure.path[Len(failure.path)]
        BY <1>2, <4>2 DEF FailureFits
      <4>4. at \in [step : Nat, path : Seq(Nat), call : Nat \cup {None}]
        BY <4>3 DEF Failure, Place
      <4>5. at # None
        BY <4>4 DEF Trace!TraceAssumption
      <4>6. at.step = failure.step /\ at.path = failure.path
        OBVIOUS
      <4> HIDE DEF at
      <4>7. EndBlames(at, origin[Cause(flying)])
        BY <3>2, <3>3, <4>2, <4>3, <4>5, <4>6 DEF EndBlames
      <4> QED BY <3>1, <4>1, <4>7 DEF EndFits
    <3>4. CASE ~Trace!Known
      <4>1. Trace!FailureAt # None => Trace!FailureAt.step = None
        BY <3>4 DEF Trace!FailureAt
      <4>2. EndBlames(Trace!FailureAt, origin[Cause(flying)])
        BY <3>2, <3>4, <4>1 DEF EndBlames
      <4> QED BY <3>1, <4>2 DEF EndFits
    <3> QED BY <3>3, <3>4
  <2> QED BY <2>1, <2>2
<1> QED BY <1>3, <1>4, <1>6, <1>7 DEF TraceInv

LEMMA TraceNext == Trace!TraceAssumption /\ TraceInv /\ [Trace!Next]_Trace!traceVars => TraceInv'
<1> SUFFICES ASSUME Trace!TraceAssumption, TraceInv, [Trace!Next]_Trace!traceVars PROVE TraceInv'
  OBVIOUS
<1>1. CASE Trace!OpenStep
  BY <1>1, OpenStepKeeps
<1>2. CASE Trace!EndCall(TRUE) \/ Trace!EndCall(FALSE)
  BY <1>2, EndCallKeeps
<1>3. CASE Trace!Raise \/ Trace!RaiseFrom \/ Trace!Catch
  BY <1>3, RaiseKeeps, RaiseFromKeeps, CatchKeeps
<1>4. CASE Trace!LeaveStep
  BY <1>4, LeaveQuietly, LeaveRaised
<1>5. CASE Trace!End
  BY <1>5, CloseKeeps
<1>6. CASE Trace!IdNext \/ UNCHANGED Trace!traceVars
  <2>1. UNCHANGED Trace!stepVars
    BY <1>6 DEF Trace!IdNext, Trace!ContinueIds, Trace!Alias, Trace!traceVars
  <2>2. UNCHANGED <<opened, trace, info, calls, flying, raised, failure, finish, origin>>
    BY <2>1 DEF Trace!stepVars
  <2>3. Trace!Known' <=> Trace!Known
    BY <2>2 DEF Trace!Known
  <2>4. TraceTypes' /\ StepsNest' /\ FailureFits'
    BY <2>2 DEF TraceInv, TraceTypes, StepsNest, FailureFits
  <2>5. FlyingFits' /\ EndFits'
    BY <2>2, <2>3 DEF TraceInv, FlyingFits, EndFits
  <2>6. ErrorsFit'
    BY <2>2 DEF TraceInv, ErrorsFit, ErrorFits
  <2> QED BY <2>4, <2>5, <2>6 DEF TraceInv
<1> QED BY <1>1, <1>2, <1>3, <1>4, <1>5, <1>6 DEF Trace!Next, Trace!StepNext

LEMMA TraceSpecInv == ASSUME Trace!TraceAssumption PROVE Trace!Spec => []TraceInv
BY TraceInit, TraceNext, PTL DEF Trace!Spec

LEMMA TraceInvBlames == TraceInv => Trace!TraceBlamesTheOrigin
<1> SUFFICES ASSUME TraceInv PROVE Trace!TraceBlamesTheOrigin
  OBVIOUS
<1>1. \A exc: Trace!InnermostCause(exc) = Cause(exc)
  BY LastIs DEF Trace!InnermostCause, Cause
<1>2. DOMAIN trace = 1..Len(trace)
  BY DEF TraceInv, TraceTypes
<1>3. ASSUME NEW i \in DOMAIN trace, trace[i].error # None
      PROVE  Blames(trace[i].error, origin[Trace!InnermostCause(trace[i].error.exc)], i)
  BY <1>1, <1>2, <1>3 DEF TraceInv, ErrorsFit, ErrorFits
<1>4. ASSUME finish # None, finish.exc # <<>>
      PROVE  EndBlames(finish.at, origin[Trace!InnermostCause(finish.exc)])
  BY <1>1, <1>4 DEF TraceInv, EndFits
<1> QED BY <1>3, <1>4, LastIs DEF Trace!TraceBlamesTheOrigin, Blames, EndBlames

(* The innermost step an exception left tells it in full and names the call    *)
(* that failed, the steps around it and the end of the run point there, however *)
(* the exception was wrapped and whatever was caught before                    *)
(* (observability/trace.py).                                                  *)
THEOREM TraceBlamesTheOriginAlways ==
  ASSUME Trace!TraceAssumption
  PROVE  Trace!Spec => []Trace!TraceBlamesTheOrigin
BY TraceSpecInv, TraceInvBlames, PTL

-----------------------------------------------------------------------------
(* Every number is one that has been given out, and to one id only.            *)
IdsFit ==
  /\ counter \in Nat
  /\ \A a \in DOMAIN aliases: aliases[a] \in {Trace!Number(n) : n \in 1..counter}
  /\ Trace!NumbersTellIdsApart

LEMMA LargestIs ==
  ASSUME MaxNumber \in Nat, NEW S \in SUBSET (1..MaxNumber), S # {}
  PROVE  Trace!Max(S) \in S /\ \A n \in S: n <= Trace!Max(S)
<1> DEFINE above == {b \in Nat: \A n \in S: n <= b}
<1>1. PICK m \in above: \A b \in above: m <= b
  <2>1. MaxNumber \in above
    OBVIOUS
  <2>2. above \in SUBSET Nat /\ above # {}
    BY <2>1
  <2> HIDE DEF above
  <2> QED BY <2>2, LeastNumber
<1>2. m \in S
  <2> SUFFICES ASSUME m \notin S PROVE FALSE
    OBVIOUS
  <2>1. m \in Nat /\ \A n \in S: n \in Nat /\ n >= 1 /\ n < m
    BY <1>1
  <2>0. PICK n \in S: TRUE
    OBVIOUS
  <2>2. m - 1 \in Nat /\ \A x \in S: x <= m - 1
    BY <2>0, <2>1
  <2>3. m - 1 \in above
    BY <2>2
  <2> QED BY <1>1, <2>1, <2>3
<1>3. \E x \in S: \A y \in S: x >= y
  BY <1>1, <1>2
<1>4. Trace!Max(S) \in S /\ \A y \in S: Trace!Max(S) >= y
  BY <1>3 DEF Trace!Max
<1> QED BY <1>4

LEMMA NumbersDiffer == \A m, n: Trace!Number(m) = Trace!Number(n) => m = n
BY DEF Trace!Number

LEMMA IdsNext == Trace!TraceAssumption /\ IdsFit /\ [Trace!Next]_Trace!traceVars => IdsFit'
<1> SUFFICES ASSUME Trace!TraceAssumption, IdsFit, [Trace!Next]_Trace!traceVars PROVE IdsFit'
  OBVIOUS
<1>1. ASSUME NEW earlier \in SUBSET (1..MaxNumber), earlier # {}, Trace!ContinueIds(earlier) PROVE IdsFit'
  <2>1. Trace!Max(earlier) \in earlier /\ \A n \in earlier: n <= Trace!Max(earlier)
    BY <1>1, LargestIs DEF Trace!TraceAssumption
  <2> DEFINE given == {Trace!Number(n) : n \in earlier}
  <2>2. aliases' = [a \in given |-> a] /\ counter' = Trace!Max(earlier)
    BY <1>1 DEF Trace!ContinueIds
  <2>3. counter' \in Nat /\ \A n \in earlier: n \in 1..counter'
    <3>0. \A n \in 1..MaxNumber: n \in Nat /\ n >= 1
      BY DEF Trace!TraceAssumption
    <3>1. \A n \in earlier: n \in Nat /\ n >= 1
      BY <1>1, <3>0, Zenon
    <3>2. counter' \in earlier /\ \A n \in earlier: n <= counter'
      BY <2>1, <2>2
    <3> QED BY <3>1, <3>2
  <2>4. given \subseteq {Trace!Number(n) : n \in 1..counter'}
    BY <2>3
  <2> HIDE DEF given
  <2> QED BY <2>2, <2>3, <2>4 DEF IdsFit, Trace!NumbersTellIdsApart
<1>2. ASSUME NEW value, Trace!Alias(value) PROVE IdsFit'
  <2> DEFINE given == {Trace!Number(n) : n \in 1..counter}
             next == Trace!Number(counter + 1)
  <2>1. /\ value \notin DOMAIN aliases /\ counter' = counter + 1
        /\ aliases' = [x \in DOMAIN aliases \cup {value} |-> IF x = value THEN next ELSE aliases[x]]
    BY <1>2 DEF Trace!Alias
  <2>2. counter \in Nat /\ \A a \in DOMAIN aliases: aliases[a] \in given
    BY DEF IdsFit
  <2>3. next \notin given
    BY <2>2, NumbersDiffer
  <2>4. next \in {Trace!Number(n) : n \in 1..counter'} /\ given \subseteq {Trace!Number(n) : n \in 1..counter'}
    BY <2>1, <2>2
  <2> HIDE DEF given, next
  <2>5. \A a, b \in DOMAIN aliases: aliases[a] = aliases[b] => a = b
    BY DEF IdsFit, Trace!NumbersTellIdsApart
  <2> QED BY <2>1, <2>2, <2>3, <2>4, <2>5 DEF IdsFit, Trace!NumbersTellIdsApart
<1>3. CASE UNCHANGED <<aliases, counter>>
  BY <1>3 DEF IdsFit, Trace!NumbersTellIdsApart
<1>4. CASE Trace!StepNext \/ UNCHANGED Trace!traceVars
  <2>1. UNCHANGED Trace!idVars
    BY <1>4 DEF Trace!StepNext, Trace!OpenStep, Trace!EndCall, Trace!Raise, Trace!RaiseFrom, Trace!Catch,
                Trace!LeaveStep, Trace!End, Trace!traceVars
  <2> QED BY <2>1, <1>3 DEF Trace!idVars
<1>5. CASE Trace!IdNext
  <2>1. CASE \E earlier \in (SUBSET (1..MaxNumber)) \ {{}}: Trace!ContinueIds(earlier)
    <3>1. PICK earlier \in (SUBSET (1..MaxNumber)) \ {{}}: Trace!ContinueIds(earlier)
      BY <2>1
    <3>2. earlier \in SUBSET (1..MaxNumber) /\ earlier # {}
      BY <3>1, Zenon
    <3> QED BY <3>1, <3>2, <1>1, Zenon
  <2>2. CASE \E u \in Uuids: Trace!Alias(Trace!Uuid(u))
    BY <2>2, <1>2
  <2> QED BY <1>5, <2>1, <2>2 DEF Trace!IdNext
<1> QED BY <1>4, <1>5 DEF Trace!Next

(* Two ids never share a number, those of earlier runs included, whichever      *)
(* numbers those used (observability/trace.py, continue_ids and alias).         *)
THEOREM NumbersTellIdsApartAlways ==
  ASSUME Trace!TraceAssumption
  PROVE  Trace!Spec => []Trace!NumbersTellIdsApart
<1>1. Trace!Init => IdsFit
  BY DEF Trace!Init, IdsFit, Trace!NumbersTellIdsApart
<1>2. IdsFit => Trace!NumbersTellIdsApart
  BY DEF IdsFit
<1> QED BY <1>1, <1>2, IdsNext, PTL DEF Trace!Spec

-----------------------------------------------------------------------------
CONSTANTS CallThread, RunOf, Chat, Decision, Reported, ChatPrice, Added, LogMax, Backups, LogRows, MaxLines
VARIABLES at, call, copy, gave, standing, sinks, summary, files, lines, broke

(* What is told of calls of models, for any number of threads and sinks.       *)
Agents == INSTANCE AgentCalls

(* Each element once.                                                         *)
Once(s)  == \A i, j \in 1..Len(s): s[i] = s[j] => i = j
Elems(s) == {s[i] : i \in 1..Len(s)}

LEMMA RemoveAtFits ==
  ASSUME NEW S, NEW s \in Seq(S), NEW k \in 1..Len(s)
  PROVE  /\ Agents!RemoveAt(s, k) \in Seq(S) /\ Len(Agents!RemoveAt(s, k)) = Len(s) - 1
         /\ \A i \in 1..Len(s) - 1: Agents!RemoveAt(s, k)[i] = s[IF i < k THEN i ELSE i + 1]
<1> DEFINE front == SubSeq(s, 1, k - 1)
           back  == SubSeq(s, k + 1, Len(s))
<1>1. k \in Nat /\ Len(s) \in Nat /\ 1 <= k /\ k <= Len(s) /\ \A i \in 1..Len(s): s[i] \in S
  OBVIOUS
<1>2. /\ front \in Seq(S) /\ Len(front) = k - 1
      /\ \A i \in 1..k - 1: front[i] = s[i]
  <2>1. \A i \in 1..k - 1: s[i] \in S
    BY <1>1
  <2>2. /\ front \in Seq(S)
        /\ Len(front) = IF 1 <= k - 1 THEN k - 1 - 1 + 1 ELSE 0
        /\ \A i \in 1..(k - 1 - 1 + 1): front[i] = s[1 + i - 1]
    BY <1>1, <2>1, SubSeqProperties
  <2> HIDE DEF front
  <2>3. Len(front) = k - 1
    BY <1>1, <2>2
  <2>4. ASSUME NEW i \in 1..k - 1 PROVE i \in 1..(k - 1 - 1 + 1) /\ 1 + i - 1 = i
    BY <1>1
  <2> QED BY <2>2, <2>3, <2>4
<1>3. /\ back \in Seq(S) /\ Len(back) = Len(s) - k
      /\ \A i \in 1..Len(s) - k: back[i] = s[k + i]
  <2>1. \A i \in k + 1..Len(s): s[i] \in S
    BY <1>1
  <2>2. /\ back \in Seq(S)
        /\ Len(back) = IF k + 1 <= Len(s) THEN Len(s) - (k + 1) + 1 ELSE 0
        /\ \A i \in 1..(Len(s) - (k + 1) + 1): back[i] = s[k + 1 + i - 1]
    BY <1>1, <2>1, SubSeqProperties
  <2> HIDE DEF back
  <2>3. Len(back) = Len(s) - k
    BY <1>1, <2>2
  <2>4. ASSUME NEW i \in 1..Len(s) - k PROVE i \in 1..(Len(s) - (k + 1) + 1) /\ k + 1 + i - 1 = k + i
    BY <1>1
  <2> QED BY <2>2, <2>3, <2>4
<1>4. Agents!RemoveAt(s, k) = front \o back
  BY DEF Agents!RemoveAt
<1> HIDE DEF front, back
<1>5. front \o back \in Seq(S) /\ Len(front \o back) = Len(s) - 1
  BY <1>1, <1>2, <1>3
<1>6. ASSUME NEW i \in 1..Len(s) - 1 PROVE (front \o back)[i] = s[IF i < k THEN i ELSE i + 1]
  <2>1. CASE i < k
    BY <1>1, <1>2, <1>3, <2>1
  <2>2. CASE i >= k
    <3>1. (front \o back)[i] = back[i - (k - 1)]
      BY <1>1, <1>2, <1>3, <2>2
    <3>2. i - (k - 1) \in 1..Len(s) - k /\ k + (i - (k - 1)) = i + 1
      BY <1>1, <2>2
    <3> QED BY <1>3, <3>1, <3>2, <2>2, <1>1
  <2>3. i \in Nat /\ (i < k \/ i >= k)
    BY <1>1
  <2> QED BY <2>1, <2>2, <2>3
<1> QED BY <1>4, <1>5, <1>6

LEMMA RemoveFirstFits ==
  ASSUME NEW S, NEW s \in Seq(S), Once(s), NEW e
  PROVE  /\ Agents!RemoveFirst(s, e) \in Seq(S) /\ Once(Agents!RemoveFirst(s, e))
         /\ Elems(Agents!RemoveFirst(s, e)) = Elems(s) \ {e}
<1>1. CASE ~\E i \in 1..Len(s): s[i] = e
  <2>1. Agents!RemoveFirst(s, e) = s
    BY <1>1 DEF Agents!RemoveFirst
  <2> QED BY <2>1, <1>1 DEF Elems
<1>2. CASE \E i \in 1..Len(s): s[i] = e
  <2> DEFINE places == {i \in 1..Len(s): s[i] = e}
             k == Agents!Min(places)
  <2>1. k \in places
    <3>1. \E n \in places: \A m \in places: n <= m
      <4>1. places \in SUBSET Nat /\ places # {}
        BY <1>2
      <4> QED BY <4>1, LeastNumber
    <3> QED BY <3>1 DEF Agents!Min
  <2>2. Agents!RemoveFirst(s, e) = Agents!RemoveAt(s, k)
    <3>1. Agents!SelectInSeq(s, LAMBDA v: v = e) = k
      BY <2>1 DEF Agents!SelectInSeq
    <3> QED BY <1>2, <3>1 DEF Agents!RemoveFirst
  <2>3. k \in 1..Len(s) /\ s[k] = e
    BY <2>1
  <2> HIDE DEF k, places
  <2> DEFINE out == Agents!RemoveFirst(s, e)
  <2>4. /\ out \in Seq(S) /\ Len(out) = Len(s) - 1
        /\ \A i \in 1..Len(s) - 1: out[i] = s[IF i < k THEN i ELSE i + 1]
    BY <2>2, <2>3, RemoveAtFits
  <2> HIDE DEF out
  <2>5. Len(s) \in Nat /\ k \in Nat
    BY <2>3
  <2>6. Once(out)
    <3> SUFFICES ASSUME NEW i \in 1..Len(out), NEW j \in 1..Len(out), out[i] = out[j] PROVE i = j
      BY DEF Once
    <3> DEFINE p == IF i < k THEN i ELSE i + 1
               q == IF j < k THEN j ELSE j + 1
    <3>1. p \in 1..Len(s) /\ q \in 1..Len(s) /\ s[p] = s[q]
      BY <2>4, <2>5
    <3>2. p = q
      BY <3>1 DEF Once
    <3> QED BY <3>2, <2>4, <2>5
  <2>7. ASSUME NEW x \in Elems(out) PROVE x \in Elems(s) \ {e}
    <3>1. PICK i \in 1..Len(out): x = out[i]
      BY <2>7 DEF Elems
    <3> DEFINE p == IF i < k THEN i ELSE i + 1
    <3>2. p \in 1..Len(s) /\ p # k /\ x = s[p]
      BY <3>1, <2>3, <2>4, <2>5
    <3>3. s[p] # e
      BY <3>2, <2>3 DEF Once
    <3> QED BY <3>2, <3>3 DEF Elems
  <2>8. ASSUME NEW x \in Elems(s) \ {e} PROVE x \in Elems(out)
    <3>1. PICK p \in 1..Len(s): x = s[p]
      BY <2>8 DEF Elems
    <3>2. p # k
      BY <3>1, <2>3, <2>8
    <3> DEFINE i == IF p < k THEN p ELSE p - 1
    <3>3. i \in 1..Len(out) /\ (IF i < k THEN i ELSE i + 1) = p
      BY <3>2, <2>3, <2>4, <2>5
    <3>4. out[i] = s[p]
      BY <3>3, <2>4
    <3> QED BY <3>1, <3>3, <3>4 DEF Elems
  <2> QED BY <2>4, <2>6, <2>7, <2>8 DEF out
<1> QED BY <1>1, <1>2

LEMMA AppendFits ==
  ASSUME NEW S, NEW s \in Seq(S), NEW x \in S
  PROVE  /\ Append(s, x) \in Seq(S) /\ Elems(Append(s, x)) = Elems(s) \cup {x}
         /\ Once(s) /\ x \notin Elems(s) => Once(Append(s, x))
<1>1. /\ Append(s, x) \in Seq(S) /\ Len(s) \in Nat /\ Len(Append(s, x)) = Len(s) + 1
      /\ \A i \in 1..Len(s): Append(s, x)[i] = s[i]
      /\ Append(s, x)[Len(s) + 1] = x
  OBVIOUS
<1> DEFINE out == Append(s, x)
<1> HIDE DEF out
<1>2. Elems(out) = Elems(s) \cup {x}
  BY <1>1 DEF Elems, out
<1>3. ASSUME Once(s), x \notin Elems(s) PROVE Once(out)
  BY <1>1, <1>3 DEF Once, Elems, out
<1> QED BY <1>1, <1>2, <1>3 DEF out

LEMMA RangeIsElems == ASSUME NEW S, NEW s \in Seq(S) PROVE Agents!Range(s) = Elems(s)
BY DEF Agents!Range, Elems

-----------------------------------------------------------------------------
Sink  == Added \cup {"run_summary"}
Sum   == [calls : Nat, failures : Nat, tokens : Nat, cost : Nat]
Stage == {"idle", "asked", "answered", "telling", "done"}

CallTypes ==
  /\ at \in [CallThread -> Stage]
  /\ call \in [CallThread -> Agents!CallRecord \cup {None}]
  /\ copy \in [CallThread -> Seq(Sink)] /\ gave \in [CallThread -> Seq(Sink)]
  /\ standing \in [CallThread -> SUBSET Sink]
  /\ sinks \in Seq(Sink) /\ Once(sinks) /\ "run_summary" \in Elems(sinks)
  /\ summary \in [Agents!CallRun -> Sum]

(* Who is told is who was there when the call ended, one after the other.       *)
TellingOf(t) ==
  /\ Once(copy[t]) /\ "run_summary" \in Elems(copy[t]) /\ standing[t] \subseteq Elems(copy[t])
  /\ Len(gave[t]) <= Len(copy[t]) /\ \A i \in 1..Len(gave[t]): gave[t][i] = copy[t][i]

TellingFits ==
  \A t \in CallThread: IF at[t] = "telling" THEN TellingOf(t) ELSE gave[t] = <<>>

(* The gateway said what the call cost.                                        *)
Costs(c) == c.reply.what # "lost" /\ c.reply.gateway = "all"

CallFits ==
  \A t \in CallThread:
    /\ at[t] = "idle" => call[t] = None
    /\ at[t] \in {"asked", "answered", "telling"} => call[t] # None
    /\ at[t] \in {"asked", "answered"} => call[t].gets = "result" /\ call[t].phase = None
    /\ at[t] \in {"answered", "telling"} \/ Agents!Called(t) => (Costs(call[t]) => call[t].usage # None)
    /\ call[t] # None => (call[t].phase = None <=> call[t].gets = "result")

(* The summary of its run has been told of the call.                           *)
Counted(t) == Agents!Called(t) \/ (at[t] = "telling" /\ "run_summary" \in Elems(gave[t]))

CountedOf(r)  == {t \in CallThread: RunOf[t] = r /\ Counted(t)}
FailedOf(r)   == {t \in CountedOf(r): call[t].phase # None}
ReportedOf(r) == {t \in CountedOf(r): Costs(call[t])}

SummaryFits ==
  \A r \in Agents!CallRun:
    /\ summary[r].calls = Cardinality(CountedOf(r))
    /\ summary[r].failures = Cardinality(FailedOf(r))
    /\ summary[r].tokens >= Cardinality(ReportedOf(r))

CallInv == CallTypes /\ TellingFits /\ CallFits /\ SummaryFits

LEMMA CallInitFits ==
  ASSUME Agents!CallAssumption, Agents!Init PROVE CallInv
<1>1. /\ at = [t \in CallThread |-> "idle"] /\ call = [t \in CallThread |-> None]
      /\ copy = [t \in CallThread |-> <<>>] /\ gave = [t \in CallThread |-> <<>>]
      /\ standing = [t \in CallThread |-> {}] /\ sinks = <<"run_summary">>
      /\ summary = [r \in Agents!CallRun |-> Agents!Nothing]
  BY DEF Agents!Init, Agents!Imported
<1>2. CallTypes
  <2>1. sinks \in Seq(Sink) /\ Once(sinks) /\ "run_summary" \in Elems(sinks)
    BY <1>1 DEF Sink, Once, Elems
  <2>2. Agents!Nothing \in Sum
    BY DEF Agents!Nothing, Sum
  <2>3. /\ copy \in [CallThread -> Seq(Sink)] /\ gave \in [CallThread -> Seq(Sink)]
        /\ standing \in [CallThread -> SUBSET Sink]
    BY <1>1
  <2>4. at \in [CallThread -> Stage] /\ call \in [CallThread -> Agents!CallRecord \cup {None}]
    BY <1>1 DEF Stage
  <2>5. summary \in [Agents!CallRun -> Sum]
    BY <1>1, <2>2
  <2> QED BY <2>1, <2>3, <2>4, <2>5 DEF CallTypes
<1>3. TellingFits
  BY <1>1 DEF TellingFits
<1>4. CallFits
  BY <1>1 DEF CallFits, Agents!Called
<1>5. SummaryFits
  <2> SUFFICES ASSUME NEW r \in Agents!CallRun
               PROVE  /\ summary[r].calls = Cardinality(CountedOf(r))
                      /\ summary[r].failures = Cardinality(FailedOf(r))
                      /\ summary[r].tokens >= Cardinality(ReportedOf(r))
    BY DEF SummaryFits
  <2>1. CountedOf(r) = {} /\ FailedOf(r) = {} /\ ReportedOf(r) = {}
    BY <1>1 DEF CountedOf, FailedOf, ReportedOf, Counted, Agents!Called
  <2>2. summary[r] = Agents!Nothing
    BY <1>1
  <2>3. summary[r].calls = 0 /\ summary[r].failures = 0 /\ summary[r].tokens = 0
    BY <2>2 DEF Agents!Nothing
  <2> QED BY <2>1, <2>3, FS_EmptySet
<1> QED BY <1>2, <1>3, <1>4, <1>5 DEF CallInv

(* A step after which the same calls count, and as before.                     *)
CountsKept ==
  /\ summary' = summary
  /\ \A t \in CallThread: RunOf[t] # None =>
       (Counted(t)' <=> Counted(t)) /\ (Counted(t) => call'[t] = call[t])

LEMMA SummaryKept ==
  ASSUME SummaryFits, CountsKept PROVE SummaryFits'
<1> SUFFICES ASSUME NEW r \in Agents!CallRun
             PROVE  /\ summary'[r].calls = Cardinality(CountedOf(r)')
                    /\ summary'[r].failures = Cardinality(FailedOf(r)')
                    /\ summary'[r].tokens >= Cardinality(ReportedOf(r)')
  BY DEF SummaryFits, Agents!CallRun
<1>0. r # None
  BY DEF Agents!CallRun
<1>1. CountedOf(r)' = CountedOf(r)
  BY <1>0 DEF CountsKept, CountedOf
<1>2. \A t \in CountedOf(r): call'[t] = call[t]
  BY <1>0 DEF CountsKept, CountedOf
<1>3. FailedOf(r)' = FailedOf(r) /\ ReportedOf(r)' = ReportedOf(r)
  BY <1>1, <1>2 DEF FailedOf, ReportedOf
<1> QED BY <1>1, <1>3 DEF SummaryFits, CountsKept

(* What the step of a call of one thread has to bring.                         *)
LEMMA ThreadStep ==
  ASSUME CallInv, NEW t \in CallThread, NEW stage \in Stage, NEW c \in Agents!CallRecord \cup {None},
         at' = [at EXCEPT ![t] = stage], call' = [call EXCEPT ![t] = c],
         copy' \in [CallThread -> Seq(Sink)], gave' \in [CallThread -> Seq(Sink)],
         standing' \in [CallThread -> SUBSET Sink], sinks' = sinks, summary' = summary,
         \A u \in CallThread \ {t}: copy'[u] = copy[u] /\ gave'[u] = gave[u] /\ standing'[u] = standing[u],
         IF stage = "telling" THEN TellingOf(t)' ELSE gave'[t] = <<>>,
         stage = "idle" => c = None,
         stage \in {"asked", "answered", "telling"} => c # None,
         stage \in {"asked", "answered"} => c.gets = "result" /\ c.phase = None,
         stage \in {"answered", "telling"} \/ (stage = "done" /\ c # None) => (Costs(c) => c.usage # None),
         c # None => (c.phase = None <=> c.gets = "result"),
         Counted(t)' <=> Counted(t), Counted(t) => c = call[t]
  PROVE  CallInv'
<1>1. /\ at' \in [CallThread -> Stage] /\ at'[t] = stage /\ call'[t] = c
      /\ call' \in [CallThread -> Agents!CallRecord \cup {None}]
      /\ \A u \in CallThread \ {t}: at'[u] = at[u] /\ call'[u] = call[u]
  BY DEF CallInv, CallTypes
<1>2. CallTypes'
  <2>1. summary' \in [Agents!CallRun -> Sum]'
    BY DEF CallInv, CallTypes, Agents!CallRun
  <2>2. sinks' \in Seq(Sink) /\ Once(sinks)' /\ "run_summary" \in Elems(sinks)'
    BY DEF CallInv, CallTypes
  <2> QED BY <1>1, <2>1, <2>2 DEF CallTypes
<1>3. TellingFits'
  <2> SUFFICES ASSUME NEW u \in CallThread PROVE IF at'[u] = "telling" THEN TellingOf(u)' ELSE gave'[u] = <<>>
    BY Zenon DEF TellingFits
  <2>1. CASE u = t
    BY <1>1, <2>1
  <2>2. CASE u # t
    <3>1. at'[u] = at[u] /\ copy'[u] = copy[u] /\ gave'[u] = gave[u] /\ standing'[u] = standing[u]
      BY <1>1, <2>2
    <3>2. IF at[u] = "telling" THEN TellingOf(u) ELSE gave[u] = <<>>
      BY Zenon DEF CallInv, TellingFits
    <3>3. TellingOf(u)' <=> TellingOf(u)
      BY <3>1 DEF TellingOf
    <3> QED BY <3>1, <3>2, <3>3, Zenon
  <2> QED BY <2>1, <2>2
<1>4. CallFits'
  <2> DEFINE Fits(s, d) ==
        /\ s = "idle" => d = None
        /\ s \in {"asked", "answered", "telling"} => d # None
        /\ s \in {"asked", "answered"} => d.gets = "result" /\ d.phase = None
        /\ s \in {"answered", "telling"} \/ (s = "done" /\ d # None) => (Costs(d) => d.usage # None)
        /\ d # None => (d.phase = None <=> d.gets = "result")
  <2>1. \A u \in CallThread: Fits(at[u], call[u])
    BY DEF CallInv, CallFits, Agents!Called
  <2>2. Fits(stage, c)
    OBVIOUS
  <2> HIDE DEF Fits
  <2>3. \A u \in CallThread: Fits(at'[u], call'[u])
    BY <1>1, <2>1, <2>2
  <2> QED BY <2>3 DEF CallFits, Agents!Called, Fits
<1>5. CountsKept
  <2>1. ASSUME NEW u \in CallThread \ {t} PROVE (Counted(u)' <=> Counted(u)) /\ call'[u] = call[u]
    BY <1>1 DEF Counted, Agents!Called, Elems
  <2> QED BY <1>1, <2>1 DEF CountsKept
<1>6. SummaryFits'
  BY <1>5, SummaryKept DEF CallInv
<1> QED BY <1>2, <1>3, <1>4, <1>6 DEF CallInv

(* What a reply makes of a call.                                               *)
Got(c, reply, usage, phase) ==
  [c EXCEPT !.reply = reply, !.usage = usage, !.phase = phase,
            !.gets = IF phase = None THEN "result" ELSE "exception"]

Replies == UNION {Chat[t] \cup Decision[t] : t \in CallThread}
Phase   == {None, "call", "parsing", "finalize"}
UsageOf == {None, Reported.gateway, Reported.metadata, Reported.exception}

LEMMA GotFits ==
  ASSUME NEW c \in Agents!CallRecord, NEW reply \in Replies, NEW usage \in UsageOf, NEW phase \in Phase
  PROVE  /\ Got(c, reply, usage, phase) \in Agents!CallRecord
         /\ Got(c, reply, usage, phase).reply = reply /\ Got(c, reply, usage, phase).usage = usage
         /\ Got(c, reply, usage, phase).phase = phase
         /\ Got(c, reply, usage, phase).gets = IF phase = None THEN "result" ELSE "exception"
<1> DEFINE gets == IF phase = None THEN "result" ELSE "exception"
<1>1. gets \in {"result", "exception"}
  OBVIOUS
<1> HIDE DEF gets
<1> DEFINE Kinds == {"chat", "decision"}
           Gets  == {"result", "exception"}
           All   == {None} \cup Replies
           Record == [kind : Kinds, reply : All, usage : UsageOf, phase : Phase, gets : Gets]
<1>2. Agents!CallRecord = Record
  BY DEF Agents!CallRecord, Replies, UsageOf, Phase
<1>3. reply \in All /\ gets \in Gets
  BY <1>1
<1> HIDE DEF Kinds, Gets, All
<1> DEFINE d == [c EXCEPT !.reply = reply, !.usage = usage, !.phase = phase, !.gets = gets]
<1>4. c \in Record
  BY <1>2
<1>5. /\ d \in Record /\ d.reply = reply /\ d.usage = usage /\ d.phase = phase /\ d.gets = gets
  BY <1>3, <1>4
<1>6. Got(c, reply, usage, phase) = d
  BY DEF Got, gets
<1> QED BY <1>2, <1>5, <1>6 DEF gets

(* The call is over and the sinks are to be told.                              *)
LEMMA FinishCallFits ==
  ASSUME CallInv, NEW t \in CallThread, at[t] \in {"asked", "answered"}, NEW c \in Agents!CallRecord,
         c # None, Costs(c) => c.usage # None, c.phase = None <=> c.gets = "result", Agents!FinishCall(t, c)
  PROVE  CallInv'
<1>1. /\ at' = [at EXCEPT ![t] = "telling"] /\ call' = [call EXCEPT ![t] = c]
      /\ copy' = [copy EXCEPT ![t] = sinks] /\ standing' = [standing EXCEPT ![t] = Agents!Range(sinks)]
      /\ gave' = gave /\ sinks' = sinks /\ summary' = summary
  BY DEF Agents!FinishCall
<1>2. /\ at \in [CallThread -> Stage] /\ copy \in [CallThread -> Seq(Sink)] /\ gave \in [CallThread -> Seq(Sink)]
      /\ standing \in [CallThread -> SUBSET Sink]
      /\ sinks \in Seq(Sink) /\ Once(sinks) /\ "run_summary" \in Elems(sinks)
  BY DEF CallInv, CallTypes
<1>3. Agents!Range(sinks) = Elems(sinks) /\ Elems(sinks) \in SUBSET Sink
  BY <1>2, RangeIsElems DEF Elems
<1>4. /\ copy' \in [CallThread -> Seq(Sink)] /\ copy'[t] = sinks
      /\ standing' \in [CallThread -> SUBSET Sink] /\ standing'[t] = Elems(sinks)
      /\ \A u \in CallThread \ {t}: copy'[u] = copy[u] /\ gave'[u] = gave[u] /\ standing'[u] = standing[u]
  BY <1>1, <1>2, <1>3
<1>5. gave[t] = <<>> /\ at'[t] = "telling"
  BY <1>1, <1>2 DEF CallInv, TellingFits
<1>6. TellingOf(t)'
  <2>1. Len(gave'[t]) = 0 /\ Len(copy'[t]) \in Nat
    BY <1>1, <1>2, <1>4, <1>5
  <2>2. Once(copy[t])' /\ ("run_summary" \in Elems(copy[t]))' /\ (standing[t] \subseteq Elems(copy[t]))'
    BY <1>2, <1>4 DEF Once, Elems
  <2> QED BY <2>1, <2>2 DEF TellingOf
<1>7. ~Counted(t) /\ ~Counted(t)'
  BY <1>1, <1>5 DEF Counted, Agents!Called, Elems
<1>8. "telling" \in Stage /\ c \in Agents!CallRecord \cup {None} /\ gave' \in [CallThread -> Seq(Sink)]
  BY <1>1, <1>2 DEF Stage
<1> QED BY <1>1, <1>4, <1>6, <1>7, <1>8, ThreadStep

(* An answer came and is made into a result.                                    *)
LEMMA AnsweredFits ==
  ASSUME CallInv, NEW t \in CallThread, at[t] = "asked", NEW c \in Agents!CallRecord,
         c # None, Costs(c) => c.usage # None, c.phase = None, c.gets = "result",
         at' = [at EXCEPT ![t] = "answered"], call' = [call EXCEPT ![t] = c],
         UNCHANGED <<copy, gave, standing, sinks, summary>>
  PROVE  CallInv'
<1>1. /\ at \in [CallThread -> Stage] /\ copy' \in [CallThread -> Seq(Sink)] /\ gave' \in [CallThread -> Seq(Sink)]
      /\ standing' \in [CallThread -> SUBSET Sink] /\ sinks' = sinks /\ summary' = summary
      /\ copy' = copy /\ gave' = gave /\ standing' = standing
  BY DEF CallInv, CallTypes
<1>2. gave'[t] = <<>> /\ at'[t] = "answered"
  BY <1>1 DEF CallInv, TellingFits
<1>3. ~Counted(t) /\ ~Counted(t)'
  BY <1>1, <1>2 DEF Counted, Agents!Called
<1>4. "answered" \in Stage /\ c \in Agents!CallRecord \cup {None}
  BY DEF Stage
<1> QED BY <1>1, <1>2, <1>3, <1>4, ThreadStep

LEMMA SumFits ==
  ASSUME Agents!CallAssumption, CallInv, NEW t \in CallThread, at[t] = "telling", NEW sum \in Sum
  PROVE  Agents!AddCall(sum, Agents!Meta(t)) \in Sum
<1> DEFINE c == call[t]
           cost == Agents!EstimateKrw(c.usage, c.kind)
<1>1. c \in Agents!CallRecord
  BY DEF CallInv, CallTypes, CallFits
<1>2. c.usage \in {None, Reported.gateway, Reported.metadata, Reported.exception}
  BY <1>1 DEF Agents!CallRecord
<1>3. c.usage # None => c.usage \in Agents!Usage
  BY <1>2 DEF Agents!CallAssumption
<1>4. c.usage # None => c.usage.input \in Nat /\ c.usage.cached \in Nat /\ c.usage.output \in Nat
  BY <1>3 DEF Agents!Usage
<1>5. cost \in Nat \cup {None}
  <2> SUFFICES ASSUME c.usage # None
               PROVE  Agents!UncachedInput(c.usage) * ChatPrice.input + c.usage.cached * ChatPrice.cached
                        + c.usage.output * ChatPrice.output \in Nat
    BY DEF Agents!EstimateKrw
  <2>1. Agents!UncachedInput(c.usage) \in Nat
    BY <1>4 DEF Agents!UncachedInput
  <2>2. ChatPrice.input \in Nat /\ ChatPrice.cached \in Nat /\ ChatPrice.output \in Nat
    BY DEF Agents!CallAssumption, Agents!Usage
  <2>3. \A m, n \in Nat: m * n \in Nat
    OBVIOUS
  <2>4. \A k, m, n \in Nat: k + m + n \in Nat
    OBVIOUS
  <2>5. /\ Agents!UncachedInput(c.usage) * ChatPrice.input \in Nat
        /\ c.usage.cached * ChatPrice.cached \in Nat /\ c.usage.output * ChatPrice.output \in Nat
    BY <1>4, <2>1, <2>2, <2>3, Zenon
  <2> QED BY <2>4, <2>5, Zenon
<1> HIDE DEF cost
<1> DEFINE meta == [kind |-> c.kind, usage |-> c.usage, phase |-> c.phase, cost |-> cost]
<1>6. Agents!Meta(t) = meta
  BY DEF Agents!Meta, Agents!RunMeta, cost
<1>7. /\ sum.calls \in Nat /\ sum.failures \in Nat /\ sum.tokens \in Nat /\ sum.cost \in Nat
  BY DEF Sum
<1>8. /\ sum.calls + 1 \in Nat
      /\ sum.failures + (IF c.phase = None THEN 0 ELSE 1) \in Nat
      /\ sum.tokens + (IF c.usage = None THEN 0 ELSE c.usage.input + c.usage.output) \in Nat
      /\ sum.cost + (IF cost = None THEN 0 ELSE cost) \in Nat
  BY <1>4, <1>5, <1>7
<1> QED BY <1>6, <1>8 DEF Agents!AddCall, Sum

(* The summary of its run is told of a call once.                              *)
LEMMA CountFits ==
  ASSUME Agents!CallAssumption, CallInv, CallTypes', NEW t \in CallThread,
         at[t] = "telling", RunOf[t] # None, ~Counted(t), Counted(t)',
         \A u \in CallThread \ {t}: Counted(u)' <=> Counted(u),
         call' = call, summary' = [summary EXCEPT ![RunOf[t]] = Agents!AddCall(@, Agents!Meta(t))]
  PROVE  SummaryFits'
<1> DEFINE run == RunOf[t]
           c   == call[t]
           old == summary[run]
<1>1. run \in Agents!CallRun /\ run # None
  BY DEF Agents!CallRun
<1>2. summary \in [Agents!CallRun -> Sum] /\ old \in Sum /\ c \in Agents!CallRecord
  BY <1>1 DEF CallInv, CallTypes, CallFits
<1>3. /\ summary'[run] = Agents!AddCall(old, Agents!Meta(t))
      /\ \A r \in Agents!CallRun \ {run}: summary'[r] = summary[r]
  BY <1>1, <1>2
<1>4. /\ summary'[run].calls = old.calls + 1
      /\ summary'[run].failures = old.failures + IF c.phase = None THEN 0 ELSE 1
      /\ summary'[run].tokens = old.tokens + IF c.usage = None THEN 0 ELSE c.usage.input + c.usage.output
  <2> DEFINE cost == Agents!EstimateKrw(c.usage, c.kind)
             meta == [kind |-> c.kind, usage |-> c.usage, phase |-> c.phase, cost |-> cost]
  <2>1. Agents!Meta(t) = meta
    BY DEF Agents!Meta, Agents!RunMeta
  <2> HIDE DEF cost
  <2>2. meta.phase = c.phase /\ meta.usage = c.usage
    OBVIOUS
  <2> HIDE DEF meta
  <2>3. summary'[run] =
          [calls    |-> old.calls + 1,
           failures |-> old.failures + IF meta.phase = None THEN 0 ELSE 1,
           tokens   |-> old.tokens + IF meta.usage = None THEN 0 ELSE meta.usage.input + meta.usage.output,
           cost     |-> old.cost + IF meta.cost = None THEN 0 ELSE meta.cost]
    BY <1>3, <2>1, Zenon DEF Agents!AddCall
  <2> QED BY <2>2, <2>3
<1>5. old.calls \in Nat /\ old.failures \in Nat /\ old.tokens \in Nat
  BY <1>2 DEF Sum
<1>6. IsFiniteSet(CallThread)
  BY Zenon DEF Agents!CallAssumption, Agents!IsFiniteSet, IsFiniteSet
<1> SUFFICES ASSUME NEW r \in Agents!CallRun
             PROVE  /\ summary'[r].calls = Cardinality(CountedOf(r)')
                    /\ summary'[r].failures = Cardinality(FailedOf(r)')
                    /\ summary'[r].tokens >= Cardinality(ReportedOf(r)')
  BY DEF SummaryFits, Agents!CallRun
<1>7. IsFiniteSet(CountedOf(r)) /\ IsFiniteSet(FailedOf(r)) /\ IsFiniteSet(ReportedOf(r))
  <2>1. CountedOf(r) \subseteq CallThread /\ FailedOf(r) \subseteq CallThread /\ ReportedOf(r) \subseteq CallThread
    BY DEF CountedOf, FailedOf, ReportedOf
  <2> QED BY <1>6, <2>1, FS_Subset
<1>8. /\ Cardinality(CountedOf(r)) \in Nat /\ Cardinality(FailedOf(r)) \in Nat
      /\ Cardinality(ReportedOf(r)) \in Nat
  BY <1>7, FS_CardinalityType
<1>9. /\ summary[r].calls = Cardinality(CountedOf(r)) /\ summary[r].failures = Cardinality(FailedOf(r))
      /\ summary[r].tokens >= Cardinality(ReportedOf(r))
  BY DEF CallInv, SummaryFits
<1>10. CASE r # run
  <2>1. CountedOf(r)' = CountedOf(r)
    BY <1>10 DEF CountedOf
  <2>2. FailedOf(r)' = FailedOf(r) /\ ReportedOf(r)' = ReportedOf(r)
    BY <2>1 DEF FailedOf, ReportedOf
  <2> QED BY <1>3, <1>9, <1>10, <2>1, <2>2
<1>11. CASE r = run
  <2>1. CountedOf(r)' = CountedOf(r) \cup {t} /\ t \notin CountedOf(r)
    BY <1>11 DEF CountedOf
  <2>2. t \notin FailedOf(r) /\ t \notin ReportedOf(r)
    BY <2>1 DEF FailedOf, ReportedOf
  <2>3. /\ FailedOf(r)' = IF c.phase = None THEN FailedOf(r) ELSE FailedOf(r) \cup {t}
        /\ ReportedOf(r)' = IF Costs(c) THEN ReportedOf(r) \cup {t} ELSE ReportedOf(r)
    BY <2>1 DEF FailedOf, ReportedOf
  <2>4. Cardinality(CountedOf(r)') = Cardinality(CountedOf(r)) + 1
    BY <1>7, <2>1, FS_AddElement
  <2>5. Cardinality(FailedOf(r)') = Cardinality(FailedOf(r)) + IF c.phase = None THEN 0 ELSE 1
    <3>1. Cardinality(FailedOf(r) \cup {t}) = Cardinality(FailedOf(r)) + 1
      BY <1>7, <2>2, FS_AddElement
    <3> QED BY <1>8, <2>3, <3>1
  <2>6. Cardinality(ReportedOf(r)') = Cardinality(ReportedOf(r)) + IF Costs(c) THEN 1 ELSE 0
    <3>1. Cardinality(ReportedOf(r) \cup {t}) = Cardinality(ReportedOf(r)) + 1
      BY <1>7, <2>2, FS_AddElement
    <3> QED BY <1>8, <2>3, <3>1
  <2> DEFINE cost == IF c.usage = None THEN 0 ELSE c.usage.input + c.usage.output
  <2>7. cost \in Nat /\ (Costs(c) => cost > 0)
    <3>1. Costs(c) => c.usage # None
      BY DEF CallInv, CallFits
    <3>2. c.usage \in {None, Reported.gateway, Reported.metadata, Reported.exception}
      BY <1>2 DEF Agents!CallRecord
    <3>3. c.usage # None => c.usage \in Agents!Usage /\ c.usage.input + c.usage.output > 0
      BY <3>2 DEF Agents!CallAssumption
    <3>4. c.usage # None => c.usage.input \in Nat /\ c.usage.output \in Nat
      BY <3>3 DEF Agents!Usage
    <3> QED BY <3>1, <3>3, <3>4
  <2>8. summary'[r].tokens = old.tokens + cost
    BY <1>4, <1>11
  <2> HIDE DEF cost
  <2>9. summary'[r].tokens >= Cardinality(ReportedOf(r)')
    BY <1>5, <1>8, <1>9, <1>11, <2>6, <2>7, <2>8
  <2> QED BY <1>4, <1>5, <1>9, <1>11, <2>4, <2>5, <2>9
<1> QED BY <1>10, <1>11

LEMMA CallNextFits ==
  ASSUME Agents!CallAssumption, CallInv, Agents!Next PROVE CallInv'
<1>0. /\ at \in [CallThread -> Stage] /\ call \in [CallThread -> Agents!CallRecord \cup {None}]
      /\ copy \in [CallThread -> Seq(Sink)] /\ gave \in [CallThread -> Seq(Sink)]
      /\ standing \in [CallThread -> SUBSET Sink]
      /\ sinks \in Seq(Sink) /\ Once(sinks) /\ "run_summary" \in Elems(sinks)
      /\ summary \in [Agents!CallRun -> Sum]
  BY DEF CallInv, CallTypes
<1>a. /\ None \notin Phase \ {None} /\ None \notin Agents!CallRecord /\ None \notin Agents!Usage
      /\ Reported.gateway # None /\ Reported.metadata # None /\ Reported.exception # None
      /\ "call" # None /\ "parsing" # None /\ "finalize" # None
  BY DEF Agents!CallAssumption, Phase
<1>b. \A t \in CallThread: /\ at[t] # "telling" => gave[t] = <<>>
                           /\ at[t] = "telling" => TellingOf(t)
  BY Zenon DEF CallInv, TellingFits
<1>1. ASSUME NEW t \in CallThread, Agents!Skip(t) PROVE CallInv'
  <2>1. /\ at' = [at EXCEPT ![t] = "done"] /\ call' = call /\ copy' = copy /\ gave' = gave
        /\ standing' = standing /\ sinks' = sinks /\ summary' = summary /\ at[t] = "idle"
    BY <1>1 DEF Agents!Skip
  <2>2. call[t] = None /\ gave[t] = <<>>
    BY <2>1, <1>b DEF CallInv, CallFits
  <2>3. call' = [call EXCEPT ![t] = None]
    BY <2>1, <2>2, <1>0
  <2>4. ~Counted(t) /\ ~Counted(t)'
    BY <2>1, <2>2, <1>0 DEF Counted, Agents!Called
  <2>5. "done" \in Stage /\ None \in Agents!CallRecord \cup {None}
    BY DEF Stage
  <2> QED BY <1>0, <2>1, <2>2, <2>3, <2>4, <2>5, ThreadStep
<1>2. ASSUME NEW t \in CallThread, NEW kind \in {"chat", "decision"}, Agents!Ask(t, kind) PROVE CallInv'
  <2> DEFINE c == [kind |-> kind, reply |-> None, usage |-> None, phase |-> None, gets |-> "result"]
  <2>1. /\ at' = [at EXCEPT ![t] = "asked"] /\ call' = [call EXCEPT ![t] = c] /\ copy' = copy /\ gave' = gave
        /\ standing' = standing /\ sinks' = sinks /\ summary' = summary /\ at[t] = "idle"
    BY <1>2 DEF Agents!Ask
  <2>2. gave[t] = <<>>
    BY <2>1, <1>b
  <2>3. c \in Agents!CallRecord /\ c.phase = None /\ c.gets = "result"
    BY DEF Agents!CallRecord
  <2> HIDE DEF c
  <2>4. ~Counted(t) /\ ~Counted(t)'
    BY <2>1, <2>2, <1>0 DEF Counted, Agents!Called
  <2>5. "asked" \in Stage /\ c \in Agents!CallRecord \cup {None} /\ c # None
    BY <2>3, <1>a DEF Stage
  <2> QED BY <1>0, <2>1, <2>2, <2>3, <2>4, <2>5, ThreadStep
<1>3. ASSUME NEW t \in CallThread, Agents!CallModel(t) PROVE CallInv'
  <2>1. at[t] = "asked" /\ call[t] \in Agents!CallRecord
    BY <1>3, <1>0 DEF Agents!CallModel, CallInv, CallFits
  <2>2. PICK reply \in Chat[t]:
          \/ /\ reply.what = "answer"
             /\ at' = [at EXCEPT ![t] = "answered"]
             /\ call' = [call EXCEPT ![t] = Got(call[t], reply, Agents!FromResponse(reply), None)]
             /\ UNCHANGED <<copy, gave, standing, sinks, summary>>
          \/ reply.what = "unreadable"
             /\ Agents!FinishCall(t, Got(call[t], reply, Agents!FromResponse(reply), "parsing"))
          \/ reply.what = "cut"
             /\ Agents!FinishCall(t, Got(call[t], reply, Agents!FromException(reply), "parsing"))
          \/ reply.what = "lost" /\ Agents!FinishCall(t, Got(call[t], reply, None, "call"))
    BY <1>3, Zenon DEF Agents!CallModel, Got
  <2>3. reply \in Replies
    BY DEF Replies
  <2>4. /\ Agents!FromResponse(reply) \in UsageOf /\ Agents!FromException(reply) \in UsageOf /\ None \in UsageOf
        /\ reply.gateway = "all" => Agents!FromResponse(reply) # None /\ Agents!FromException(reply) # None
    BY <1>a DEF Agents!FromResponse, Agents!FromException, UsageOf
  <2>5. None \in Phase /\ "call" \in Phase /\ "parsing" \in Phase
    BY DEF Phase
  <2>6. CASE reply.what = "answer" /\ at' = [at EXCEPT ![t] = "answered"]
             /\ call' = [call EXCEPT ![t] = Got(call[t], reply, Agents!FromResponse(reply), None)]
             /\ UNCHANGED <<copy, gave, standing, sinks, summary>>
    <3> DEFINE c == Got(call[t], reply, Agents!FromResponse(reply), None)
    <3>1. /\ c \in Agents!CallRecord /\ c.reply = reply /\ c.usage = Agents!FromResponse(reply)
          /\ c.phase = None /\ c.gets = "result"
      BY <2>1, <2>3, <2>4, <2>5, GotFits
    <3> HIDE DEF c
    <3>2. c # None /\ (Costs(c) => c.usage # None)
      BY <3>1, <2>4, <1>a DEF Costs
    <3>3. call' = [call EXCEPT ![t] = c]
      BY <2>6 DEF c
    <3> QED BY <2>1, <2>6, <3>1, <3>2, <3>3, AnsweredFits
  <2>7. CASE reply.what = "unreadable"
             /\ Agents!FinishCall(t, Got(call[t], reply, Agents!FromResponse(reply), "parsing"))
    <3> DEFINE c == Got(call[t], reply, Agents!FromResponse(reply), "parsing")
    <3>1. /\ c \in Agents!CallRecord /\ c.reply = reply /\ c.usage = Agents!FromResponse(reply)
          /\ c.phase = "parsing" /\ c.gets = "exception"
      BY <2>1, <2>3, <2>4, <2>5, <1>a, GotFits
    <3>2. Agents!FinishCall(t, c)
      BY <2>7
    <3> HIDE DEF c
    <3>3. c # None /\ (Costs(c) => c.usage # None) /\ (c.phase = None <=> c.gets = "result")
      BY <3>1, <2>4, <1>a DEF Costs
    <3> QED BY <2>1, <3>1, <3>2, <3>3, FinishCallFits
  <2>8. CASE reply.what = "cut"
             /\ Agents!FinishCall(t, Got(call[t], reply, Agents!FromException(reply), "parsing"))
    <3> DEFINE c == Got(call[t], reply, Agents!FromException(reply), "parsing")
    <3>1. /\ c \in Agents!CallRecord /\ c.reply = reply /\ c.usage = Agents!FromException(reply)
          /\ c.phase = "parsing" /\ c.gets = "exception"
      BY <2>1, <2>3, <2>4, <2>5, <1>a, GotFits
    <3>2. Agents!FinishCall(t, c)
      BY <2>8
    <3> HIDE DEF c
    <3>3. c # None /\ (Costs(c) => c.usage # None) /\ (c.phase = None <=> c.gets = "result")
      BY <3>1, <2>4, <1>a DEF Costs
    <3> QED BY <2>1, <3>1, <3>2, <3>3, FinishCallFits
  <2>9. CASE reply.what = "lost" /\ Agents!FinishCall(t, Got(call[t], reply, None, "call"))
    <3> DEFINE c == Got(call[t], reply, None, "call")
    <3>1. c \in Agents!CallRecord /\ c.reply = reply /\ c.phase = "call" /\ c.gets = "exception"
      BY <2>1, <2>3, <2>4, <2>5, <1>a, GotFits
    <3>2. Agents!FinishCall(t, c)
      BY <2>9
    <3> HIDE DEF c
    <3>3. c # None /\ (Costs(c) => c.usage # None) /\ (c.phase = None <=> c.gets = "result")
      BY <3>1, <2>9, <1>a DEF Costs
    <3> QED BY <2>1, <3>1, <3>2, <3>3, FinishCallFits
  <2> QED BY <2>2, <2>6, <2>7, <2>8, <2>9
<1>4. ASSUME NEW t \in CallThread, Agents!CallDecision(t) PROVE CallInv'
  <2>1. at[t] = "asked" /\ call[t] \in Agents!CallRecord
    BY <1>4, <1>0 DEF Agents!CallDecision, CallInv, CallFits
  <2>2. PICK reply \in Decision[t]:
          \/ /\ reply.what = "answer"
             /\ at' = [at EXCEPT ![t] = "answered"]
             /\ call' = [call EXCEPT ![t] = Got(call[t], reply, Agents!FromDecision(reply), None)]
             /\ UNCHANGED <<copy, gave, standing, sinks, summary>>
          \/ reply.what = "unreadable"
             /\ Agents!FinishCall(t, Got(call[t], reply, Agents!FromException(reply), "parsing"))
          \/ reply.what = "lost" /\ Agents!FinishCall(t, Got(call[t], reply, None, "call"))
    BY <1>4, Zenon DEF Agents!CallDecision, Got
  <2>3. reply \in Replies
    BY DEF Replies
  <2>4. /\ Agents!FromDecision(reply) \in UsageOf /\ Agents!FromException(reply) \in UsageOf /\ None \in UsageOf
        /\ Agents!FromDecision(reply) # None
        /\ reply.gateway = "all" => Agents!FromException(reply) # None
    BY <1>a DEF Agents!FromDecision, Agents!FromException, UsageOf
  <2>5. None \in Phase /\ "call" \in Phase /\ "parsing" \in Phase
    BY DEF Phase
  <2>6. CASE reply.what = "answer" /\ at' = [at EXCEPT ![t] = "answered"]
             /\ call' = [call EXCEPT ![t] = Got(call[t], reply, Agents!FromDecision(reply), None)]
             /\ UNCHANGED <<copy, gave, standing, sinks, summary>>
    <3> DEFINE c == Got(call[t], reply, Agents!FromDecision(reply), None)
    <3>1. /\ c \in Agents!CallRecord /\ c.usage = Agents!FromDecision(reply)
          /\ c.phase = None /\ c.gets = "result"
      BY <2>1, <2>3, <2>4, <2>5, GotFits
    <3> HIDE DEF c
    <3>2. c # None /\ c.usage # None
      BY <3>1, <2>4, <1>a
    <3>3. call' = [call EXCEPT ![t] = c]
      BY <2>6 DEF c
    <3> QED BY <2>1, <2>6, <3>1, <3>2, <3>3, AnsweredFits
  <2>7. CASE reply.what = "unreadable"
             /\ Agents!FinishCall(t, Got(call[t], reply, Agents!FromException(reply), "parsing"))
    <3> DEFINE c == Got(call[t], reply, Agents!FromException(reply), "parsing")
    <3>1. /\ c \in Agents!CallRecord /\ c.reply = reply /\ c.usage = Agents!FromException(reply)
          /\ c.phase = "parsing" /\ c.gets = "exception"
      BY <2>1, <2>3, <2>4, <2>5, <1>a, GotFits
    <3>2. Agents!FinishCall(t, c)
      BY <2>7
    <3> HIDE DEF c
    <3>3. c # None /\ (Costs(c) => c.usage # None) /\ (c.phase = None <=> c.gets = "result")
      BY <3>1, <2>4, <1>a DEF Costs
    <3> QED BY <2>1, <3>1, <3>2, <3>3, FinishCallFits
  <2>8. CASE reply.what = "lost" /\ Agents!FinishCall(t, Got(call[t], reply, None, "call"))
    <3> DEFINE c == Got(call[t], reply, None, "call")
    <3>1. c \in Agents!CallRecord /\ c.reply = reply /\ c.phase = "call" /\ c.gets = "exception"
      BY <2>1, <2>3, <2>4, <2>5, <1>a, GotFits
    <3>2. Agents!FinishCall(t, c)
      BY <2>8
    <3> HIDE DEF c
    <3>3. c # None /\ (Costs(c) => c.usage # None) /\ (c.phase = None <=> c.gets = "result")
      BY <3>1, <2>8, <1>a DEF Costs
    <3> QED BY <2>1, <3>1, <3>2, <3>3, FinishCallFits
  <2> QED BY <2>2, <2>6, <2>7, <2>8
<1>5. ASSUME NEW t \in CallThread, Agents!Finalize(t) PROVE CallInv'
  <2>1. at[t] = "answered" /\ call[t] \in Agents!CallRecord /\ (Costs(call[t]) => call[t].usage # None)
    BY <1>5, <1>0 DEF Agents!Finalize, CallInv, CallFits
  <2>2. PICK gets \in {"result", "exception"}: Agents!FinishCall(t, Agents!AfterFinalize(t, gets))
    BY <1>5, Zenon DEF Agents!Finalize
  <2> DEFINE c == Agents!AfterFinalize(t, gets)
             phase == IF gets = "result" THEN None ELSE "finalize"
  <2>3. phase \in Phase
    BY DEF Phase
  <2> HIDE DEF phase
  <2>4. c = [call[t] EXCEPT !.gets = gets, !.phase = phase]
    BY DEF Agents!AfterFinalize, phase
  <2>5. /\ c \in Agents!CallRecord /\ c.reply = call[t].reply /\ c.usage = call[t].usage
        /\ c.phase = phase /\ c.gets = gets
    BY <2>1, <2>3, <2>4 DEF Agents!CallRecord, Phase
  <2>6. Agents!FinishCall(t, c)
    BY <2>2
  <2> HIDE DEF c
  <2>7. c # None /\ (Costs(c) => c.usage # None) /\ (c.phase = None <=> c.gets = "result")
    BY <2>1, <2>5, <1>a DEF Costs, phase
  <2> QED BY <2>1, <2>5, <2>6, <2>7, FinishCallFits
<1>6. ASSUME NEW t \in CallThread, Agents!Give(t) PROVE CallInv'
  <2> DEFINE sink == copy[t][Len(gave[t]) + 1]
  <2>1. /\ at[t] = "telling" /\ Len(gave[t]) < Len(copy[t]) /\ at' = at /\ call' = call /\ copy' = copy
        /\ standing' = standing /\ sinks' = sinks
        /\ gave' = [gave EXCEPT ![t] = Append(gave[t], sink)]
        /\ summary' = IF sink # "run_summary" \/ RunOf[t] = None THEN summary
                      ELSE [summary EXCEPT ![RunOf[t]] = Agents!AddCall(@, Agents!Meta(t))]
    BY <1>6 DEF Agents!Give, Agents!ToGive
  <2>2. /\ gave[t] \in Seq(Sink) /\ copy[t] \in Seq(Sink) /\ Len(gave[t]) \in Nat /\ Len(copy[t]) \in Nat
        /\ TellingOf(t) /\ Len(gave[t]) + 1 \in 1..Len(copy[t])
    BY <1>0, <1>b, <2>1
  <2>3. sink \in Sink
    BY <2>2
  <2> HIDE DEF sink
  <2>4. /\ gave' \in [CallThread -> Seq(Sink)] /\ gave'[t] = Append(gave[t], sink)
        /\ \A u \in CallThread \ {t}: gave'[u] = gave[u]
    BY <1>0, <2>1, <2>2, <2>3
  <2>5. /\ Len(gave'[t]) = Len(gave[t]) + 1 /\ gave'[t][Len(gave[t]) + 1] = sink
        /\ \A i \in 1..Len(gave[t]): gave'[t][i] = gave[t][i]
    BY <2>2, <2>3, <2>4
  <2>6. Elems(gave[t])' = Elems(gave[t]) \cup {sink}
    BY <2>2, <2>3, <2>4, AppendFits
  <2>7. sink \notin Elems(gave[t])
    <3> SUFFICES ASSUME NEW i \in 1..Len(gave[t]), gave[t][i] = sink PROVE FALSE
      BY DEF Elems
    <3>1. copy[t][i] = copy[t][Len(gave[t]) + 1] /\ i \in 1..Len(copy[t])
      BY <2>2 DEF TellingOf, sink
    <3>2. i = Len(gave[t]) + 1
      BY <2>2, <3>1 DEF TellingOf, Once
    <3> QED BY <2>2, <3>2
  <2>8. TellingOf(t)'
    <3>1. Len(gave'[t]) <= Len(copy'[t]) /\ \A i \in 1..Len(gave'[t]): gave'[t][i] = copy'[t][i]
      BY <2>1, <2>2, <2>5 DEF TellingOf, sink
    <3>2. copy'[t] = copy[t] /\ standing'[t] = standing[t]
      BY <2>1
    <3> QED BY <2>2, <3>1, <3>2 DEF TellingOf
  <2>9. TellingFits'
    <3> SUFFICES ASSUME NEW u \in CallThread PROVE IF at'[u] = "telling" THEN TellingOf(u)' ELSE gave'[u] = <<>>
      BY Zenon DEF TellingFits
    <3>1. CASE u = t
      BY <2>1, <2>8, <3>1
    <3>2. CASE u # t
      <4>1. at'[u] = at[u] /\ copy'[u] = copy[u] /\ gave'[u] = gave[u] /\ standing'[u] = standing[u]
        BY <2>1, <2>4, <3>2
      <4>2. TellingOf(u)' <=> TellingOf(u)
        BY <4>1 DEF TellingOf
      <4> QED BY <4>1, <4>2, <1>b, Zenon
    <3> QED BY <3>1, <3>2
  <2>10. CallFits'
    BY <2>1 DEF CallInv, CallFits, Agents!Called
  <2>11. \A u \in CallThread \ {t}: Counted(u)' <=> Counted(u)
    BY <2>1, <2>4 DEF Counted, Agents!Called, Elems
  <2>12. summary' \in [Agents!CallRun -> Sum]
    <3> SUFFICES ASSUME RunOf[t] # None,
                        summary' = [summary EXCEPT ![RunOf[t]] = Agents!AddCall(@, Agents!Meta(t))]
                 PROVE  summary' \in [Agents!CallRun -> Sum]
      BY <1>0, <2>1
    <3>1. RunOf[t] \in Agents!CallRun
      BY DEF Agents!CallRun
    <3>2. summary[RunOf[t]] \in Sum
      BY <1>0, <3>1
    <3>3. Agents!AddCall(summary[RunOf[t]], Agents!Meta(t)) \in Sum
      BY <2>1, <3>2, SumFits
    <3> QED BY <1>0, <3>1, <3>3
  <2>13. CallTypes'
    BY <1>0, <2>1, <2>4, <2>12 DEF CallTypes, Once, Elems, Agents!CallRun
  <2>14. SummaryFits'
    <3>1. CASE sink # "run_summary" \/ RunOf[t] = None
      <4>1. RunOf[t] # None => (Counted(t)' <=> Counted(t))
        BY <2>1, <2>6, <3>1 DEF Counted, Agents!Called
      <4>2. CountsKept
        BY <2>1, <2>11, <3>1, <4>1 DEF CountsKept
      <4> QED BY <4>2, SummaryKept DEF CallInv
    <3>2. CASE sink = "run_summary" /\ RunOf[t] # None
      <4>1. ~Counted(t) /\ Counted(t)'
        BY <2>1, <2>6, <2>7, <3>2 DEF Counted, Agents!Called
      <4>2. summary' = [summary EXCEPT ![RunOf[t]] = Agents!AddCall(@, Agents!Meta(t))]
        BY <2>1, <3>2
      <4> QED BY <2>1, <2>11, <2>13, <3>2, <4>1, <4>2, CountFits
    <3> QED BY <3>1, <3>2
  <2> QED BY <2>9, <2>10, <2>13, <2>14 DEF CallInv
<1>7. ASSUME NEW t \in CallThread, Agents!Return(t) PROVE CallInv'
  <2>1. /\ at[t] = "telling" /\ Len(gave[t]) >= Len(copy[t])
        /\ at' = [at EXCEPT ![t] = "done"] /\ copy' = [copy EXCEPT ![t] = <<>>]
        /\ gave' = [gave EXCEPT ![t] = <<>>] /\ standing' = [standing EXCEPT ![t] = {}]
        /\ call' = call /\ sinks' = sinks /\ summary' = summary
    BY <1>7 DEF Agents!Return, Agents!ToGive
  <2>2. TellingOf(t) /\ gave[t] \in Seq(Sink) /\ copy[t] \in Seq(Sink)
    BY <1>0, <1>b, <2>1
  <2>3. "run_summary" \in Elems(gave[t])
    BY <2>1, <2>2 DEF TellingOf, Elems
  <2>4. /\ call[t] # None /\ (Costs(call[t]) => call[t].usage # None)
        /\ (call[t].phase = None <=> call[t].gets = "result")
    BY <2>1 DEF CallInv, CallFits
  <2>5. call' = [call EXCEPT ![t] = call[t]] /\ call[t] \in Agents!CallRecord \cup {None} /\ "done" \in Stage
    BY <2>1, <1>0 DEF Stage
  <2>6. /\ copy' \in [CallThread -> Seq(Sink)] /\ gave' \in [CallThread -> Seq(Sink)]
        /\ standing' \in [CallThread -> SUBSET Sink] /\ gave'[t] = <<>> /\ at'[t] = "done"
        /\ \A u \in CallThread \ {t}: copy'[u] = copy[u] /\ gave'[u] = gave[u] /\ standing'[u] = standing[u]
    BY <1>0, <2>1
  <2>7. Counted(t) /\ Counted(t)'
    BY <2>1, <2>3, <2>4, <2>6 DEF Counted, Agents!Called
  <2> QED BY <2>1, <2>4, <2>5, <2>6, <2>7, ThreadStep
<1>8. ASSUME NEW s \in Added, Agents!AddSink(s) PROVE CallInv'
  <2>1. /\ at' = at /\ call' = call /\ copy' = copy /\ gave' = gave /\ standing' = standing /\ summary' = summary
        /\ sinks' = IF s \in Agents!Range(sinks) THEN sinks ELSE Append(sinks, s)
    BY <1>8 DEF Agents!AddSink
  <2>2. Agents!Range(sinks) = Elems(sinks) /\ s \in Sink
    BY <1>0, RangeIsElems DEF Sink
  <2>3. sinks' \in Seq(Sink) /\ Once(sinks)' /\ "run_summary" \in Elems(sinks)'
    <3>1. CASE s \in Elems(sinks)
      <4>1. sinks' = sinks
        BY <2>1, <2>2, <3>1
      <4> QED BY <1>0, <4>1
    <3>2. CASE s \notin Elems(sinks)
      <4>1. sinks' = Append(sinks, s)
        BY <2>1, <2>2, <3>2
      <4>2. /\ Append(sinks, s) \in Seq(Sink) /\ Once(Append(sinks, s))
            /\ Elems(Append(sinks, s)) = Elems(sinks) \cup {s}
        BY <1>0, <2>2, <3>2, AppendFits
      <4> QED BY <1>0, <4>1, <4>2
    <3> QED BY <3>1, <3>2
  <2>4. CallTypes'
    BY <1>0, <2>1, <2>3 DEF CallTypes, Agents!CallRun
  <2>5. TellingFits' /\ CallFits' /\ CountsKept
    BY <2>1 DEF CallInv, TellingFits, TellingOf, CallFits, CountsKept, Counted, Agents!Called
  <2>6. SummaryFits'
    BY <2>5, SummaryKept DEF CallInv
  <2> QED BY <2>4, <2>5, <2>6 DEF CallInv
<1>9. ASSUME NEW s \in Added, Agents!RemoveSink(s) PROVE CallInv'
  <2>1. /\ at' = at /\ call' = call /\ copy' = copy /\ gave' = gave /\ summary' = summary
        /\ standing' = [t \in CallThread |-> standing[t] \ {s}]
        /\ sinks' = Agents!RemoveFirst(sinks, s)
    BY <1>9 DEF Agents!RemoveSink
  <2>2. /\ sinks' \in Seq(Sink) /\ Once(sinks)' /\ Elems(sinks)' = Elems(sinks) \ {s}
    BY <1>0, <2>1, RemoveFirstFits
  <2>3. "run_summary" \in Elems(sinks)'
    BY <1>0, <2>2 DEF Agents!CallAssumption
  <2>4. standing' \in [CallThread -> SUBSET Sink]
    BY <1>0, <2>1
  <2>5. CallTypes'
    BY <1>0, <2>1, <2>2, <2>3, <2>4 DEF CallTypes, Agents!CallRun
  <2>6. TellingFits'
    BY <1>b, <2>1 DEF TellingFits, TellingOf
  <2>7. CallFits' /\ CountsKept
    BY <2>1 DEF CallInv, CallFits, CountsKept, Counted, Agents!Called
  <2>8. SummaryFits'
    BY <2>7, SummaryKept DEF CallInv
  <2> QED BY <2>5, <2>6, <2>7, <2>8 DEF CallInv
<1> QED BY <1>1, <1>2, <1>3, <1>4, <1>5, <1>6, <1>7, <1>8, <1>9 DEF Agents!Next

(* The calls, their sinks and the summaries fit together in every state.       *)
LEMMA CallInvAlways == ASSUME Agents!CallAssumption PROVE Agents!Spec => []CallInv
<1>1. Agents!Init => CallInv
  BY CallInitFits
<1>2. CallInv /\ [Agents!Next]_Agents!agentVars => CallInv'
  <2> SUFFICES ASSUME CallInv, [Agents!Next]_Agents!agentVars PROVE CallInv'
    OBVIOUS
  <2>1. CASE Agents!Next
    BY <2>1, CallNextFits
  <2>2. CASE UNCHANGED Agents!agentVars
    <3>1. /\ at' = at /\ call' = call /\ copy' = copy /\ gave' = gave /\ standing' = standing
          /\ sinks' = sinks /\ summary' = summary
      BY <2>2 DEF Agents!agentVars
    <3>2. CallTypes'
      BY <3>1 DEF CallInv, CallTypes, Agents!CallRun
    <3>3. TellingFits' /\ CallFits' /\ CountsKept
      BY <3>1 DEF CallInv, TellingFits, TellingOf, CallFits, CountsKept, Counted, Agents!Called
    <3>4. SummaryFits'
      BY <3>3, SummaryKept DEF CallInv
    <3> QED BY <3>2, <3>3, <3>4 DEF CallInv
  <2> QED BY <2>1, <2>2
<1> QED BY <1>1, <1>2, PTL DEF Agents!Spec

LEMMA OnceCounts ==
  ASSUME NEW S, NEW s \in Seq(S), Once(s) PROVE Cardinality(Elems(s)) = Len(s)
<1> DEFINE f == [i \in 1..Len(s) |-> s[i]]
<1>1. Len(s) \in Nat /\ f \in Bijection(1..Len(s), Elems(s))
  BY DEF Bijection, Injection, Surjection, IsInjective, Once, Elems
<1> QED BY <1>1, FS_CountingElements DEF ExistsBijection

(* A sink that is registered while a call is recorded gets it, none gets it     *)
(* twice, and what is told of the call agrees with what its caller got, for any *)
(* number of threads and of sinks that come and go (agent_sinks.py, usage.py).   *)
THEOREM CallsAreToldAlways ==
  ASSUME Agents!CallAssumption PROVE Agents!Spec => [](Agents!CallsAreTold /\ Agents!ToldAsItWas)
<1>1. CallInv => Agents!CallsAreTold /\ Agents!ToldAsItWas
  <2> SUFFICES ASSUME CallInv PROVE Agents!CallsAreTold /\ Agents!ToldAsItWas
    OBVIOUS
  <2>1. Agents!ToldAsItWas
    BY DEF CallInv, CallFits, Agents!ToldAsItWas, Agents!Called
  <2>2. ASSUME NEW t \in CallThread, at[t] = "telling", Len(gave[t]) >= Len(copy[t])
        PROVE  standing[t] \subseteq Agents!Range(gave[t]) /\ Agents!Cardinality(Agents!Range(gave[t])) = Len(gave[t])
    <3>1. TellingOf(t) /\ gave[t] \in Seq(Sink) /\ copy[t] \in Seq(Sink)
      BY <2>2 DEF CallInv, CallTypes, TellingFits
    <3>2. Len(gave[t]) = Len(copy[t]) /\ Once(gave[t]) /\ Elems(gave[t]) = Elems(copy[t])
      BY <2>2, <3>1 DEF TellingOf, Once, Elems
    <3>3. Agents!Range(gave[t]) = Elems(gave[t]) /\ Cardinality(Elems(gave[t])) = Len(gave[t])
      BY <3>1, <3>2, RangeIsElems, OnceCounts
    <3>4. Agents!Cardinality(Elems(gave[t])) = Cardinality(Elems(gave[t]))
      BY Zenon DEF Agents!Cardinality, Cardinality, Agents!IsFiniteSet, IsFiniteSet
    <3> QED BY <3>1, <3>2, <3>3, <3>4 DEF TellingOf
  <2> QED BY <2>1, <2>2 DEF Agents!CallsAreTold, Agents!ToGive
<1> QED BY <1>1, CallInvAlways, PTL

(* When the calls of a run are over, its summary has counted each of them, the   *)
(* failed ones as failed, and tokens for every reply that said what it cost,    *)
(* for any number of threads (run_summary.py).                                *)
THEOREM SummaryAddsUpAlways ==
  ASSUME Agents!CallAssumption PROVE Agents!Spec => []Agents!SummaryAddsUp
<1>1. CallInv => Agents!SummaryAddsUp
  <2> SUFFICES ASSUME CallInv, NEW r \in Agents!CallRun, \A t \in CallThread: RunOf[t] = r => at[t] = "done"
               PROVE  LET mine  == {t \in CallThread: RunOf[t] = r /\ Agents!Called(t)}
                          known == {t \in mine: call[t].reply.what # "lost" /\ call[t].reply.gateway = "all"}
                      IN  /\ summary[r].calls = Agents!Cardinality(mine)
                          /\ summary[r].failures = Agents!Cardinality({t \in mine: call[t].gets = "exception"})
                          /\ summary[r].tokens >= Agents!Cardinality(known)
                          /\ \A t \in known: call[t].usage # None
                          /\ summary[r].cost >= 0
    BY Zenon DEF Agents!SummaryAddsUp
  <2> DEFINE mine  == {t \in CallThread: RunOf[t] = r /\ Agents!Called(t)}
             known == {t \in mine: call[t].reply.what # "lost" /\ call[t].reply.gateway = "all"}
  <2>1. mine = CountedOf(r)
    BY DEF CountedOf, Counted
  <2>2. known = ReportedOf(r)
    BY <2>1 DEF ReportedOf, Costs
  <2>3. {t \in mine: call[t].gets = "exception"} = FailedOf(r)
    <3>1. ASSUME NEW t \in mine PROVE call[t].gets = "exception" <=> call[t].phase # None
      <4>1. call[t] \in Agents!CallRecord /\ (call[t].phase = None <=> call[t].gets = "result")
        BY <3>1 DEF CallInv, CallTypes, CallFits, Agents!Called
      <4>2. call[t].gets \in {"result", "exception"}
        BY <4>1 DEF Agents!CallRecord
      <4> QED BY <4>1, <4>2
    <3> QED BY <2>1, <3>1 DEF FailedOf
  <2>4. \A S: Agents!Cardinality(S) = Cardinality(S)
    BY Zenon DEF Agents!Cardinality, Cardinality, Agents!IsFiniteSet, IsFiniteSet
  <2>5. summary[r].cost \in Nat
    BY DEF CallInv, CallTypes, Sum
  <2>6. \A t \in known: call[t].usage # None
    BY DEF CallInv, CallFits, Costs
  <2> HIDE DEF mine, known
  <2>7. /\ summary[r].calls = Agents!Cardinality(mine)
        /\ summary[r].failures = Agents!Cardinality({t \in mine: call[t].gets = "exception"})
        /\ summary[r].tokens >= Agents!Cardinality(known)
    BY <2>1, <2>2, <2>3, <2>4 DEF CallInv, SummaryFits
  <2>8. summary[r].cost >= 0
    BY <2>5
  <2> QED BY <2>6, <2>7, <2>8, Zenon DEF mine, known
<1> QED BY <1>1, CallInvAlways, PTL

-----------------------------------------------------------------------------
CONSTANTS Metered, MeteredStage, ToolLabel, Api, CacheName, Records, AppName, Recorder, MaxTime, MaxNews, MaxRecords
VARIABLES now, runs, teller, stages, series, entered, listening, publishing, registry, gauges, heard, published

(* Who hears of a measurement, for any number of apps and threads.             *)
Meters == INSTANCE Metrics

Message == [record : Records, to : SUBSET AppName]
Letter  == [record : Records, id : Nat, app : AppName]

HearTypes ==
  /\ published \in Seq(Message) /\ publishing \in [Recorder -> Seq(Letter)]
  /\ heard \in [AppName -> Seq(Nat)]
  /\ listening \in Seq(AppName) /\ Once(listening) /\ Elems(listening) = entered

Due(messages, a) == {i \in DOMAIN messages: a \in messages[i].to}

(* On its way to an app.                                                       *)
Underway(a) == {e.id : e \in {e \in UNION {Elems(publishing[t]) : t \in Recorder}: e.app = a}}

LetterFits(e, messages, ids) == e.id \in Due(messages, e.app) /\ e.id \notin Elems(ids[e.app])

(* A letter is underway once, to who is to hear it and has not.                 *)
LettersFit ==
  /\ \A t \in Recorder: \A i \in 1..Len(publishing[t]):
       LetterFits(publishing[t][i], published, heard)
  /\ \A t, u \in Recorder: \A i \in 1..Len(publishing[t]), j \in 1..Len(publishing[u]):
       publishing[t][i].id = publishing[u][j].id /\ publishing[t][i].app = publishing[u][j].app => t = u /\ i = j

HeardFits == \A a \in AppName: Once(heard[a]) /\ Elems(heard[a]) \subseteq Due(published, a)

NoneIsLost == \A a \in AppName: Due(published, a) \subseteq Elems(heard[a]) \cup Underway(a)

HearInv == HearTypes /\ LettersFit /\ HeardFits /\ NoneIsLost

LEMMA HearInitFits == Meters!RecordInit => HearInv
<1> SUFFICES ASSUME Meters!RecordInit PROVE HearInv
  OBVIOUS
<1>1. /\ entered = {} /\ listening = <<>> /\ published = <<>>
      /\ publishing = [t \in Recorder |-> <<>>] /\ heard = [a \in AppName |-> <<>>]
  BY DEF Meters!RecordInit
<1>2. HearTypes
  BY <1>1 DEF HearTypes, Once, Elems
<1>3. LettersFit
  BY <1>1 DEF LettersFit, LetterFits
<1>4. HeardFits /\ NoneIsLost
  BY <1>1 DEF HeardFits, NoneIsLost, Due, Once, Elems
<1> QED BY <1>2, <1>3, <1>4 DEF HearInv

LEMMA RemovedIs == \A s, e: Meters!RemoveFirst(s, e) = Agents!RemoveFirst(s, e)
BY Zenon DEF Meters!RemoveFirst, Agents!RemoveFirst, Meters!RemoveAt, Agents!RemoveAt,
   Meters!SelectInSeq, Agents!SelectInSeq, Meters!Min, Agents!Min

LEMMA EntersFits ==
  ASSUME HearInv, NEW app \in AppName, Meters!Enter(app) \/ Meters!Leave(app) PROVE HearInv'
<1>1. published' = published /\ publishing' = publishing /\ heard' = heard
  BY DEF Meters!Enter, Meters!Leave
<1>2. listening \in Seq(AppName) /\ Once(listening) /\ Elems(listening) = entered
  BY DEF HearInv, HearTypes
<1>3. listening' \in Seq(AppName) /\ Once(listening)' /\ Elems(listening)' = entered'
  <2>1. CASE Meters!Enter(app)
    <3>1. app \notin entered /\ entered' = entered \cup {app} /\ listening' = Append(listening, app)
      BY <2>1 DEF Meters!Enter
    <3> QED BY <1>2, <3>1, AppendFits
  <2>2. CASE Meters!Leave(app)
    <3>1. entered' = entered \ {app} /\ listening' = Agents!RemoveFirst(listening, app)
      BY <2>2, RemovedIs DEF Meters!Leave, Meters!Removed
    <3> QED BY <1>2, <3>1, RemoveFirstFits
  <2> QED BY <2>1, <2>2
<1>4. HearTypes'
  BY <1>1, <1>3 DEF HearInv, HearTypes
<1>5. LettersFit' /\ HeardFits' /\ NoneIsLost'
  BY <1>1 DEF HearInv, LettersFit, LetterFits, HeardFits, NoneIsLost, Due, Underway
<1> QED BY <1>4, <1>5 DEF HearInv

LEMMA PublishFits ==
  ASSUME HearInv, NEW t \in Recorder, NEW r \in Records, Meters!Publish(t, r) PROVE HearInv'
<1> DEFINE n == Len(published) + 1
           message == [record |-> r, to |-> entered]
           letters == [i \in DOMAIN listening |-> [record |-> r, id |-> n, app |-> listening[i]]]
<1>1. /\ publishing[t] = <<>> /\ published' = Append(published, message)
      /\ publishing' = [publishing EXCEPT ![t] = letters]
      /\ entered' = entered /\ listening' = listening /\ heard' = heard
  BY DEF Meters!Publish
<1>2. /\ published \in Seq(Message) /\ publishing \in [Recorder -> Seq(Letter)]
      /\ heard \in [AppName -> Seq(Nat)]
      /\ listening \in Seq(AppName) /\ Once(listening) /\ Elems(listening) = entered
  BY DEF HearInv, HearTypes
<1>3. entered \in SUBSET AppName /\ n \in Nat /\ n = Len(published) + 1 /\ Len(published) \in Nat
  <2>1. \A i \in 1..Len(listening): listening[i] \in AppName
    BY <1>2
  <2>2. entered \in SUBSET AppName
    BY <1>2, <2>1 DEF Elems
  <2>3. Len(published) \in Nat
    BY <1>2
  <2> QED BY <2>2, <2>3
<1>4. message \in Message /\ message.to = entered
  BY <1>3 DEF Message
<1>5. /\ letters \in Seq(Letter) /\ Len(letters) = Len(listening)
      /\ \A i \in 1..Len(listening): letters[i].id = n /\ letters[i].app = listening[i]
  <2>1. \A i \in 1..Len(listening): [record |-> r, id |-> n, app |-> listening[i]] \in Letter
    BY <1>2, <1>3 DEF Letter
  <2>2. DOMAIN listening = 1..Len(listening) /\ Len(listening) \in Nat
    BY <1>2
  <2> HIDE DEF n
  <2> QED BY <2>1, <2>2
<1> HIDE DEF n, message, letters
<1>6. /\ published' \in Seq(Message) /\ DOMAIN published' = 1..n /\ DOMAIN published = 1..Len(published)
      /\ published'[n] = message /\ \A i \in 1..Len(published): published'[i] = published[i]
  BY <1>1, <1>2, <1>3, <1>4
<1>7. /\ publishing' \in [Recorder -> Seq(Letter)] /\ publishing'[t] = letters
      /\ \A u \in Recorder \ {t}: publishing'[u] = publishing[u]
  BY <1>1, <1>2, <1>5
<1>8. HearTypes'
  BY <1>1, <1>2, <1>6, <1>7 DEF HearTypes, Once, Elems
<1>9. \A a: Due(published', a) = IF a \in entered THEN Due(published, a) \cup {n} ELSE Due(published, a)
  BY <1>3, <1>4, <1>6 DEF Due
<1>10. \A a: Due(published, a) \subseteq 1..Len(published) /\ n \notin Due(published, a)
  BY <1>3, <1>6 DEF Due
<1>a. \A u \in Recorder: \A i \in 1..Len(publishing[u]): publishing[u][i].id \in 1..Len(published)
  BY <1>10 DEF HearInv, LettersFit, LetterFits
<1>b. \A u \in Recorder \ {t}: publishing'[u] = publishing[u] /\ Len(publishing'[u]) = Len(publishing[u])
  BY <1>7
<1>c. \A i \in 1..Len(publishing'[t]):
        i \in 1..Len(listening) /\ publishing'[t][i].id = n /\ publishing'[t][i].app = listening[i]
  BY <1>5, <1>7
<1>11. LettersFit'
  <2>1. ASSUME NEW u \in Recorder, NEW i \in 1..Len(publishing'[u])
        PROVE  LetterFits(publishing'[u][i], published', heard')
    <3>1. CASE u = t
      <4>1. listening[i] \in entered /\ listening[i] \in AppName
        BY <1>2, <1>3, <1>c, <2>1, <3>1 DEF Elems
      <4>2. n \in Due(published', listening[i]) /\ n \notin Elems(heard[listening[i]])
        BY <1>9, <1>10, <4>1 DEF HearInv, HeardFits
      <4> QED BY <1>1, <1>c, <2>1, <3>1, <4>2 DEF LetterFits
    <3>2. CASE u # t
      <4>1. publishing'[u][i] = publishing[u][i] /\ i \in 1..Len(publishing[u])
        BY <1>b, <2>1, <3>2
      <4>2. publishing[u][i].id \in Due(published, publishing[u][i].app)
            /\ publishing[u][i].id \notin Elems(heard[publishing[u][i].app])
        BY <4>1 DEF HearInv, LettersFit, LetterFits
      <4> QED BY <1>1, <1>9, <4>1, <4>2 DEF LetterFits
    <3> QED BY <3>1, <3>2
  <2>2. ASSUME NEW u \in Recorder, NEW v \in Recorder,
               NEW i \in 1..Len(publishing'[u]), NEW j \in 1..Len(publishing'[v]),
               publishing'[u][i].id = publishing'[v][j].id, publishing'[u][i].app = publishing'[v][j].app
        PROVE  u = v /\ i = j
    <3>1. CASE u = t /\ v = t
      BY <1>2, <1>c, <2>2, <3>1 DEF Once
    <3>2. CASE u = t /\ v # t
      BY <1>3, <1>a, <1>b, <1>c, <2>2, <3>2
    <3>3. CASE u # t /\ v = t
      BY <1>3, <1>a, <1>b, <1>c, <2>2, <3>3
    <3>4. CASE u # t /\ v # t
      <4>1. /\ publishing'[u][i] = publishing[u][i] /\ publishing'[v][j] = publishing[v][j]
            /\ i \in 1..Len(publishing[u]) /\ j \in 1..Len(publishing[v])
        BY <1>b, <2>2, <3>4
      <4> QED BY <2>2, <4>1 DEF HearInv, LettersFit, LetterFits
    <3> QED BY <3>1, <3>2, <3>3, <3>4
  <2> QED BY <2>1, <2>2 DEF LettersFit
<1>12. HeardFits'
  BY <1>1, <1>9 DEF HearInv, HeardFits, Once, Elems
<1>13. NoneIsLost'
  <2> SUFFICES ASSUME NEW a \in AppName, NEW k \in Due(published', a) PROVE k \in Elems(heard'[a]) \cup Underway(a)'
    BY DEF NoneIsLost
  <2>1. CASE k \in Due(published, a) /\ k \notin Elems(heard[a])
    <3>1. k \in Underway(a)
      BY <2>1 DEF HearInv, NoneIsLost
    <3>2a. PICK u \in Recorder: \E e \in Elems(publishing[u]): e.app = a /\ e.id = k
      BY <3>1 DEF Underway
    <3>2. PICK e \in Elems(publishing[u]): e.app = a /\ e.id = k
      BY <3>2a
    <3>3. u # t
      BY <1>1, <3>2 DEF Elems
    <3>4. e \in Elems(publishing'[u])
      BY <1>b, <3>2, <3>3
    <3> QED BY <3>2, <3>4 DEF Underway
  <2>2. CASE k \in Elems(heard[a])
    BY <1>1, <2>2
  <2>3. CASE k = n /\ a \in entered
    <3>1. PICK i \in 1..Len(listening): listening[i] = a
      BY <1>2, <2>3 DEF Elems
    <3>2. letters[i] \in Elems(publishing'[t]) /\ letters[i].app = a /\ letters[i].id = n
      BY <1>5, <1>7, <3>1 DEF Elems
    <3> QED BY <2>3, <3>2 DEF Underway
  <2> QED BY <1>9, <2>1, <2>2, <2>3
<1> QED BY <1>8, <1>11, <1>12, <1>13 DEF HearInv

LEMMA HearFits ==
  ASSUME HearInv, NEW t \in Recorder, Meters!Hear(t) PROVE HearInv'
<1>0. /\ published \in Seq(Message) /\ publishing \in [Recorder -> Seq(Letter)]
      /\ heard \in [AppName -> Seq(Nat)]
      /\ listening \in Seq(AppName) /\ Once(listening) /\ Elems(listening) = entered
  BY DEF HearInv, HearTypes
<1>p. PICK next \in Letter: next = Head(publishing[t])
  <2>1. publishing[t] \in Seq(Letter) /\ publishing[t] # <<>>
    BY <1>0 DEF Meters!Hear
  <2> QED BY <2>1
<1>1. /\ publishing[t] # <<>> /\ publishing' = [publishing EXCEPT ![t] = Tail(publishing[t])]
      /\ heard' = [heard EXCEPT ![next.app] = Append(heard[next.app], next.id)]
      /\ entered' = entered /\ listening' = listening /\ published' = published
  BY <1>p DEF Meters!Hear
<1>2. /\ published \in Seq(Message) /\ publishing \in [Recorder -> Seq(Letter)]
      /\ heard \in [AppName -> Seq(Nat)]
      /\ listening \in Seq(AppName) /\ Once(listening) /\ Elems(listening) = entered
  BY DEF HearInv, HearTypes
<1>3. /\ publishing[t] \in Seq(Letter) /\ Len(publishing[t]) \in Nat /\ 1 \in 1..Len(publishing[t])
      /\ next = publishing[t][1]
  BY <1>1, <1>2, <1>p
<1>4. next \in Letter /\ next.app \in AppName /\ next.id \in Nat
  BY <1>3 DEF Letter
<1>5. next.id \in Due(published, next.app) /\ next.id \notin Elems(heard[next.app])
  BY <1>3 DEF HearInv, LettersFit, LetterFits
<1> DEFINE rest == Tail(publishing[t])
<1>6. /\ rest \in Seq(Letter) /\ Len(rest) = Len(publishing[t]) - 1
      /\ \A i \in 1..Len(publishing[t]) - 1: rest[i] = publishing[t][i + 1]
  BY <1>3
<1> HIDE DEF rest
<1>7. /\ publishing' \in [Recorder -> Seq(Letter)] /\ publishing'[t] = rest
      /\ \A u \in Recorder \ {t}: publishing'[u] = publishing[u]
  BY <1>1, <1>2, <1>6 DEF rest
<1>8. /\ heard' \in [AppName -> Seq(Nat)] /\ heard'[next.app] = Append(heard[next.app], next.id)
      /\ \A b \in AppName \ {next.app}: heard'[b] = heard[b]
  BY <1>1, <1>2, <1>4
<1>9. Elems(heard'[next.app]) = Elems(heard[next.app]) \cup {next.id} /\ (Once(heard[next.app]) => Once(heard'[next.app]))
  BY <1>2, <1>4, <1>5, <1>8, AppendFits
<1> DEFINE Old(u, i) == IF u = t THEN i + 1 ELSE i
<1>10. ASSUME NEW u \in Recorder, NEW i \in 1..Len(publishing'[u])
       PROVE  /\ i \in Nat /\ Old(u, i) \in 1..Len(publishing[u]) /\ publishing'[u][i] = publishing[u][Old(u, i)]
              /\ ~(u = t /\ Old(u, i) = 1)
  <2>1. CASE u = t
    <3>1. i \in 1..Len(publishing[t]) - 1
      BY <1>6, <1>7, <1>10, <2>1
    <3> QED BY <1>3, <1>6, <1>7, <2>1, <3>1
  <2>2. CASE u # t
    BY <1>7, <1>10, <2>2
  <2> QED BY <2>1, <2>2
<1>11. ASSUME NEW u \in Recorder, NEW k \in 1..Len(publishing[u]), ~(u = t /\ k = 1)
       PROVE  \E i \in 1..Len(publishing'[u]): publishing'[u][i] = publishing[u][k]
  <2>1. CASE u = t
    <3>1. k - 1 \in 1..Len(publishing[t]) - 1 /\ k - 1 + 1 = k
      BY <1>3, <1>11, <2>1
    <3>2. k - 1 \in 1..Len(publishing'[u]) /\ publishing'[u][k - 1] = publishing[u][k]
      BY <1>6, <1>7, <2>1, <3>1
    <3> QED BY <3>2
  <2>2. CASE u # t
    BY <1>7, <1>11, <2>2
  <2> QED BY <2>1, <2>2
<1> HIDE DEF Old
<1>12. \A b: Due(published', b) = Due(published, b)
  BY <1>1 DEF Due
<1>13. HearTypes'
  BY <1>1, <1>2, <1>7, <1>8 DEF HearTypes, Once, Elems
<1>14. LettersFit'
  <2>1. ASSUME NEW u \in Recorder, NEW i \in 1..Len(publishing'[u])
        PROVE  LetterFits(publishing'[u][i], published', heard')
    <3> DEFINE k == Old(u, i)
               e == publishing[u][k]
    <3>1. k \in 1..Len(publishing[u]) /\ publishing'[u][i] = e /\ ~(u = t /\ k = 1)
      BY <1>10, <2>1
    <3> HIDE DEF k
    <3>2. e.id \in Due(published, e.app) /\ e.id \notin Elems(heard[e.app]) /\ e.app \in AppName
      <4>1. e \in Letter
        BY <1>2, <3>1
      <4> QED BY <3>1, <4>1 DEF HearInv, LettersFit, LetterFits, Letter
    <3>3. ~(e.id = next.id /\ e.app = next.app)
      BY <1>3, <3>1 DEF HearInv, LettersFit, LetterFits
    <3>4. e.id \notin Elems(heard'[e.app])
      BY <1>8, <1>9, <3>2, <3>3
    <3> QED BY <1>12, <3>1, <3>2, <3>4 DEF LetterFits
  <2>2. ASSUME NEW u \in Recorder, NEW v \in Recorder,
               NEW i \in 1..Len(publishing'[u]), NEW j \in 1..Len(publishing'[v]),
               publishing'[u][i].id = publishing'[v][j].id, publishing'[u][i].app = publishing'[v][j].app
        PROVE  u = v /\ i = j
    <3>1. /\ Old(u, i) \in 1..Len(publishing[u]) /\ publishing'[u][i] = publishing[u][Old(u, i)]
          /\ Old(v, j) \in 1..Len(publishing[v]) /\ publishing'[v][j] = publishing[v][Old(v, j)]
          /\ i \in Nat /\ j \in Nat
      BY <1>10, <2>2
    <3>2. u = v /\ Old(u, i) = Old(v, j)
      BY <2>2, <3>1 DEF HearInv, LettersFit, LetterFits
    <3> QED BY <3>1, <3>2 DEF Old
  <2> QED BY <2>1, <2>2 DEF LettersFit
<1>15. HeardFits'
  <2> SUFFICES ASSUME NEW b \in AppName PROVE Once(heard'[b]) /\ Elems(heard'[b]) \subseteq Due(published', b)
    BY DEF HeardFits
  <2>1. Once(heard[b]) /\ Elems(heard[b]) \subseteq Due(published, b)
    BY DEF HearInv, HeardFits
  <2>2. CASE b = next.app
    BY <1>5, <1>9, <1>12, <2>1, <2>2
  <2>3. CASE b # next.app
    BY <1>8, <1>12, <2>1, <2>3
  <2> QED BY <2>2, <2>3
<1>16. NoneIsLost'
  <2> SUFFICES ASSUME NEW b \in AppName, NEW k \in Due(published, b) PROVE k \in Elems(heard'[b]) \cup Underway(b)'
    BY <1>12 DEF NoneIsLost
  <2>1. CASE k \in Elems(heard[b])
    BY <1>8, <1>9, <2>1
  <2>2. CASE k \in Underway(b)
    <3>1a. PICK u \in Recorder: \E e \in Elems(publishing[u]): e.app = b /\ e.id = k
      BY <2>2 DEF Underway
    <3>1. PICK e \in Elems(publishing[u]): e.app = b /\ e.id = k
      BY <3>1a
    <3>2. PICK p \in 1..Len(publishing[u]): e = publishing[u][p]
      BY <3>1 DEF Elems
    <3>3. CASE u = t /\ p = 1
      <4>1. k = next.id /\ b = next.app
        BY <1>3, <3>1, <3>2, <3>3
      <4> QED BY <1>9, <4>1
    <3>4. CASE ~(u = t /\ p = 1)
      <4>1. e \in Elems(publishing'[u])
        BY <1>11, <3>2, <3>4 DEF Elems
      <4> QED BY <3>1, <4>1 DEF Underway
    <3> QED BY <3>3, <3>4
  <2> QED BY <2>1, <2>2 DEF HearInv, NoneIsLost
<1> QED BY <1>13, <1>14, <1>15, <1>16 DEF HearInv

(* What is published and heard fits together in every state.                   *)
LEMMA HearInvAlways == Meters!RecordSpec => []HearInv
<1>1. HearInv /\ [Meters!RecordStep]_Meters!recordVars => HearInv'
  <2> SUFFICES ASSUME HearInv, [Meters!RecordStep]_Meters!recordVars PROVE HearInv'
    OBVIOUS
  <2>1. CASE Meters!RecordStep
    BY <2>1, EntersFits, PublishFits, HearFits DEF Meters!RecordStep
  <2>2. CASE UNCHANGED Meters!recordVars
    <3>1. /\ entered' = entered /\ listening' = listening /\ publishing' = publishing
          /\ heard' = heard /\ published' = published
      BY <2>2 DEF Meters!recordVars
    <3>2. HearTypes'
      BY <3>1 DEF HearInv, HearTypes
    <3>3. LettersFit' /\ HeardFits' /\ NoneIsLost'
      BY <3>1 DEF HearInv, LettersFit, HeardFits, NoneIsLost, Underway
    <3> QED BY <3>2, <3>3 DEF HearInv
  <2> QED BY <2>1, <2>2
<1> QED BY <1>1, HearInitFits, PTL DEF Meters!RecordSpec

(* An app counts what was published while it was entered, each record once, and  *)
(* nothing else, for any number of apps and threads (measurements.py).          *)
THEOREM EachHearsItsOwnAlways == Meters!RecordSpec => []Meters!EachHearsItsOwn
<1>1. HearInv => Meters!EachHearsItsOwn
  <2> SUFFICES ASSUME HearInv, NEW a \in AppName
               PROVE  LET due == {i \in DOMAIN published: a \in published[i].to}
                      IN  /\ Meters!Range(heard[a]) \subseteq due
                          /\ Len(heard[a]) = Meters!Cardinality(Meters!Range(heard[a]))
                          /\ (\A t \in Recorder: publishing[t] = <<>>) => Meters!Range(heard[a]) = due
    BY Zenon DEF Meters!EachHearsItsOwn
  <2>1. heard[a] \in Seq(Nat) /\ Once(heard[a]) /\ Elems(heard[a]) \subseteq Due(published, a)
    BY DEF HearInv, HearTypes, HeardFits
  <2>2. Meters!Range(heard[a]) = Elems(heard[a])
    BY <2>1 DEF Meters!Range, Elems
  <2>3. Meters!Cardinality(Elems(heard[a])) = Len(heard[a])
    <3>1. Meters!Cardinality(Elems(heard[a])) = Cardinality(Elems(heard[a]))
      BY Zenon DEF Meters!Cardinality, Cardinality, Meters!IsFiniteSet, IsFiniteSet
    <3> QED BY <2>1, <3>1, OnceCounts
  <2>4. ASSUME \A t \in Recorder: publishing[t] = <<>> PROVE Due(published, a) \subseteq Elems(heard[a])
    <3>1. Underway(a) = {}
      BY <2>4 DEF Underway, Elems
    <3> QED BY <3>1 DEF HearInv, NoneIsLost
  <2> QED BY <2>1, <2>2, <2>3, <2>4 DEF Due
<1> QED BY <1>1, HearInvAlways, PTL
=============================================================================

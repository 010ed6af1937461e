--------------------------- MODULE AdvertisingTool ---------------------------
(* The claims of a seller that would have to be substantiated                *)
(* (app/tools/advertising/tool.py, rules.py).  A line is a sequence of words;  *)
(* a mark is the word "KC", unless the next says that there is none.           *)
EXTENDS EvidenceSearch

CONSTANTS
  Listings,     \* sets of lines, each a sequence of words
  AdReviews     \* sequences of claims a model may answer with

(* risk_type: "safety", "body", "ranking", ...                               *)
Claim(quote, risk_type) == [quote |-> quote, risk_type |-> risk_type]

(* normalize: case and blanks do not count; only in here is "kc" like "KC".   *)
Spelled(word) == IF word = "kc" THEN "KC" ELSE word

Normalized(words) == [i \in DOMAIN words |-> Spelled(words[i])]

In(quote, line) ==
  \E i \in 0 .. Len(line) - Len(quote):
    Normalized(SubSeq(line, i + 1, i + Len(quote))) = Normalized(quote)

Quoted(quote, lines) == quote # <<>> /\ \E line \in lines: In(quote, line)

(* The claims whose quotes are in the listing, each quote once.               *)
VerifyQuotes(claims, lines) ==
  FoldLeft(LAMBDA kept, c:
             IF Quoted(c.quote, lines) /\ \A k \in ToSet(kept): Normalized(k.quote) # Normalized(c.quote)
             THEN Append(kept, c) ELSE kept,
           <<>>, claims)

(* A mark: "no KC mark" is none.                                             *)
Marks(lines) ==
  {<<line[i]>> : <<line, i>> \in
     {p \in lines \X (1 .. 3): /\ p[2] \in DOMAIN p[1]
                               /\ Spelled(p[1][p[2]]) = "KC"
                               /\ ~(p[2] < Len(p[1]) /\ p[1][p[2] + 1] = "none")}}

(* Mutant: a claim of safety stands for the marks, whatever it quotes.        *)
Represented(mark, kept) == \E k \in ToSet(kept): k.risk_type = "safety"

Overlaps(mark, kept) == \E k \in ToSet(kept): In(mark, k.quote) \/ In(k.quote, mark)

(* Marks are looked for by the code, and added where no claim quotes them.     *)
KcAdded(lines, kept) ==
  {Claim(Normalized(mark), "safety") : mark \in {m \in Marks(lines): ~Overlaps(m, kept)}}

-----------------------------------------------------------------------------
HasWord(claim, word) == In(<<word>>, claim.quote)

ClaimRisk(claim) ==
  IF claim.risk_type = "body" /\ HasWord(claim, "heals") THEN "high" ELSE "medium"

SourcesFor(claim) ==
  {"article 3", "article 5", claim.risk_type}
    \cup (IF ClaimRisk(claim) = "high" THEN {"medicinal"} ELSE {})

IsCertification(claim) == claim.risk_type = "safety" /\ HasWord(claim, "KC")

ClaimAction(claim) ==
  <<claim.quote, IF IsCertification(claim) THEN "check the certificate"
                 ELSE IF ClaimRisk(claim) = "high" THEN "not a medicine" ELSE "substantiate">>

ClaimFinding(claim) ==
  Finding(claim.quote, "possibly_required", ClaimRisk(claim), {claim.quote}, SourcesFor(claim),
          {ClaimAction(claim)})

(* An empty list of findings would be taken for a failure of the tool.        *)
NoClaim == Finding(<<>>, "not_required", "low", {}, {"article 5"}, {})

NoListing == Finding(<<>>, "insufficient_information", "unknown", {}, {}, {})

-----------------------------------------------------------------------------
Init == Idle

(* Without a line nothing is reviewed, and the seller is asked for the text.   *)
Start ==
  /\ stage = "start"
  /\ \E lines \in Listings:
       IF lines = {}
       THEN /\ stage' = "done"
            /\ run' = [NewRun("advertising", {}, {}) EXCEPT !.missing = {"listing"},
                         !.findings = {NoListing}]
       ELSE stage' = "review" /\ run' = NewRun("advertising", {}, lines)

Review ==
  /\ stage = "review"
  /\ \/ Fail
     \/ \E claims \in AdReviews:
          LET kept  == VerifyQuotes(claims, run.snippets)
              found == {ClaimFinding(c) : c \in ToSet(kept) \cup KcAdded(run.snippets, kept)}
          IN /\ stage' = "done"
             /\ run' = [run EXCEPT !.chosen = kept,
                          !.actions  = UNION {f.requires : f \in found},
                          !.findings = IF found = {} THEN {NoClaim} ELSE found]

Next == Start \/ Review

Spec == Init /\ [][Next]_vars

-----------------------------------------------------------------------------
(* What the model overlooks or misquotes, the code does not: every mark of     *)
(* certification in the listing is in a finding, or contains its quote, and    *)
(* no finding quotes what the seller did not write.                           *)
MarksAreFound ==
  stage = "done" /\ run.snippets # {} =>
    /\ \A mark \in Marks(run.snippets):
         \E f \in run.findings: In(mark, f.subject) \/ (f.subject # <<>> /\ In(f.subject, mark))
    /\ \A f \in run.findings: f.determination # "not_required" => Quoted(f.subject, run.snippets)
=============================================================================

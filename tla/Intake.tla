-------------------------------- MODULE Intake --------------------------------
(* A run before the pipeline: the guard looks at what came in, the page is       *)
(* fetched if only an address came, its pictures are chosen and long ones cut   *)
(* into tiles, and extraction is called (app/diagnosis/guard.py,               *)
(* agents/input_guard, agents/image_triage, pipeline/extraction_step.py,        *)
(* url_source.py, image_split.py).  A picture has a width, a height and whether   *)
(* it can be read.                                                           *)
EXTENDS Integers, Sequences, FiniteSets, FiniteSetsExt, SequencesExt

CONSTANTS
  Request,       \* what a run may be started with
  Shop,          \* the pages the mall's client may bring
  Sorting,       \* the classifications the model may answer with
  MaxSide, MinSide,       \* of a picture for the model that judges
  MaxJudged,     \* pictures and tiles the guard looks at
  MaxTiles,      \* tiles given to extraction
  MaxSorted, MaxPicked, MaxAll,   \* pictures classified, picked, taken without choice
  None

VARIABLES
  request,
  verdict,       \* of the guard, GuardVerdict; "unchecked" if it saw nothing or failed
  taken,         \* what is given to extraction
  ending         \* how the step ends

vars == <<request, verdict, taken, ending>>

Init == request = None /\ verdict = None /\ taken = None /\ ending = None

Receive ==
  /\ request = None
  /\ request' \in Request
  /\ UNCHANGED <<verdict, taken, ending>>

-----------------------------------------------------------------------------
(* A tall picture becomes squares that overlap, from the top; the last one ends  *)
(* at the bottom (image_split.py).  The ratios are 1.5 and 0.2.                  *)
Step(width) == Max({1, (8 * width + 5) \div 10})

(* Mutant: the last square begins where the step leads.                         *)
TopsByStep(width, height) == {y \in 0..height - width : y % Step(width) = 0}

Tops(width, height) ==
  {y \in 0..height - width - 1 : y % Step(width) = 0} \cup {height - width}

Tall(picture) == 2 * picture.height > 3 * picture.width

Tiles(picture) ==
  IF picture.readable /\ Tall(picture)
  THEN [k \in 1..Cardinality(Tops(picture.width, picture.height)) |-> <<picture.id, k>>] ELSE <<>>

(* Mutant: a picture that cannot be read is left out.                           *)
OnlyReadable(done, picture) ==
  LET tiles == Tiles(picture)
  IN IF ~picture.readable THEN done
     ELSE IF tiles = <<>> \/ done.tiles + Len(tiles) > MaxTiles
     THEN [done EXCEPT !.pictures = Append(@, <<picture.id, 0>>)]
     ELSE [pictures |-> done.pictures \o tiles, tiles |-> done.tiles + Len(tiles)]

AddPicture(done, picture) ==
  LET tiles == Tiles(picture)
  IN IF tiles = <<>> \/ done.tiles + Len(tiles) > MaxTiles
     THEN [done EXCEPT !.pictures = Append(@, <<picture.id, 0>>)]
     ELSE [pictures |-> done.pictures \o tiles, tiles |-> done.tiles + Len(tiles)]

Prepared(pictures) ==
  FoldLeft(AddPicture, [pictures |-> <<>>, tiles |-> 0], pictures).pictures

-----------------------------------------------------------------------------
(* What the guard looks at (diagnosis/guard.py): of a run that follows answers    *)
(* only those of this round, for the rest was seen before.                      *)
LatestAnswers(r) ==
  {<<a.round, a.key>> : a \in {b \in r.answers : \A c \in r.answers : c.round <= b.round}}

Texts(r) == IF r.again THEN LatestAnswers(r) ELSE r.texts

Pictures(r) == IF r.again THEN <<>> ELSE r.pictures

Verdict(outcome, text, scores, skipped) ==
  [outcome |-> outcome, text |-> text, scores |-> scores, skipped |-> skipped]

(* A reply is a score, a refusal to answer, a failure that may pass, or one that *)
(* stays.  A failure that may pass is tried once more (_score).                   *)
Score == {"low", "middle", "high"}
Tries == {<<r, r>> : r \in Score \cup {"refused", "rejected"}}
           \cup {<<"busy", r>> : r \in Score \cup {"busy", "refused"}}

Judged(tries) ==
  LET reply == IF tries[1] = "busy" THEN tries[2] ELSE tries[1]
  IN IF reply \in Score THEN reply ELSE None

(* A picture the guard can read gives one piece or its tiles, as far as there is  *)
(* room; whatever is left is counted (images.py).                               *)
Pieces(picture) == IF Tiles(picture) = <<>> THEN <<<<picture.id, 0>>>> ELSE Tiles(picture)

(* Mutant: a picture of which a part was seen counts as seen.                    *)
CountUnread(done, picture) ==
  LET room == MaxJudged - Len(done.pieces)
      pieces == Pieces(picture)
  IN IF ~picture.readable THEN [done EXCEPT !.skipped = @ + 1]
     ELSE [done EXCEPT !.pieces = @ \o SubSeq(pieces, 1, Min({room, Len(pieces)}))]

LookAt(done, picture) ==
  LET room == MaxJudged - Len(done.pieces)
      pieces == Pieces(picture)
  IN IF ~picture.readable THEN [done EXCEPT !.skipped = @ + 1]
     ELSE [pieces |-> done.pieces \o SubSeq(pieces, 1, Min({room, Len(pieces)})),
           skipped |-> IF Len(pieces) > room THEN done.skipped + 1 ELSE done.skipped]

JudgeImages(pictures) == FoldLeft(LookAt, [pieces |-> <<>>, skipped |-> 0], pictures)

(* The sides of a picture for the judge: shrunk to MaxSide, then enlarged or     *)
(* padded to MinSide.                                                        *)
CeilDiv(a, b) == (a + b - 1) \div b

Thumbnail(width, height) ==
  LET long == Max({width, height})
      scaled(side) == Max({1, (2 * side * MaxSide + long) \div (2 * long)})
  IN IF long <= MaxSide THEN <<width, height>> ELSE <<scaled(width), scaled(height)>>

FitMinSide(size) ==
  LET short == Min({size[1], size[2]})
      larger(side) == Max({MinSide, CeilDiv(side * MinSide, short)})
  IN IF short >= MinSide THEN size
     ELSE IF CeilDiv(Max({size[1], size[2]}) * MinSide, short) <= MaxSide
     THEN <<larger(size[1]), larger(size[2])>>
     ELSE <<Max({size[1], MinSide}), Max({size[2], MinSide})>>

JudgeSize(width, height) == FitMinSide(Thumbnail(width, height))

(* The worst score decides; what was not seen is no reason to let pass.           *)
Outcome(text, scores, skipped) ==
  LET all == {text} \cup ToSet(scores)
      unseen == skipped > 0 \/ None \in ToSet(scores) \/ (text = None /\ Texts(request) # {})
  IN IF "high" \in all THEN "block"
     ELSE IF "middle" \in all \/ unseen THEN "suspect" ELSE "pass"

Unguarded ==
  /\ request # None /\ verdict = None
  /\ Texts(request) = {} /\ Pictures(request) = <<>>
  /\ verdict' = Verdict("unchecked", None, <<>>, 0)
  /\ UNCHANGED <<request, taken, ending>>

HasWork == request # None /\ verdict = None /\ (Texts(request) # {} \/ Pictures(request) # <<>>)

(* The guard itself fails: the run goes on without it.                          *)
GuardFails ==
  /\ HasWork
  /\ verdict' = Verdict("unchecked", None, <<>>, 0)
  /\ UNCHANGED <<request, taken, ending>>

(* Text in a form no page has is not shown to the model.                        *)
BlockByFormat ==
  /\ HasWork /\ request.coded /\ Texts(request) # {}
  /\ verdict' = Verdict("block", None, <<>>, 0)
  /\ UNCHANGED <<request, taken, ending>>

BlockByText ==
  /\ HasWork /\ ~request.coded /\ Texts(request) # {}
  /\ \E tries \in Tries: Judged(tries) = "high"
  /\ verdict' = Verdict("block", "high", <<>>, 0)
  /\ UNCHANGED <<request, taken, ending>>

(* Scores are in the order of the pictures, whichever call ends first.           *)
Look ==
  /\ HasWork /\ (~request.coded \/ Texts(request) = {})
  /\ LET seen == JudgeImages(Pictures(request))
     IN \E tries \in Tries, scores \in [DOMAIN seen.pieces -> {Judged(t) : t \in Tries}]:
          LET text == IF Texts(request) = {} THEN None ELSE Judged(tries)
          IN /\ text # "high"
             /\ verdict' = Verdict(Outcome(text, scores, seen.skipped), text, scores, seen.skipped)
  /\ UNCHANGED <<request, taken, ending>>

(* What is blocked ends as a run whose extraction failed.                        *)
EndBlocked ==
  /\ verdict # None /\ ending = None /\ verdict.outcome = "block"
  /\ ending' = [code |-> "PIPELINE_ERROR", retryable |-> FALSE, cause |-> "blocked"]
  /\ UNCHANGED <<request, verdict, taken>>

-----------------------------------------------------------------------------
Goes == verdict # None /\ verdict.outcome # "block" /\ ending = None /\ taken = None

(* A run that follows answers keeps the product of the run before.               *)
KeepProduct ==
  /\ Goes /\ request.again
  /\ ending' = [code |-> "kept", retryable |-> FALSE, cause |-> None]
  /\ UNCHANGED <<request, verdict, taken>>

Take(texts, pictures) == [texts |-> texts, pictures |-> Prepared(pictures), of |-> pictures]

UseGiven ==
  /\ Goes /\ ~request.again
  /\ request.texts # {} \/ request.pictures # <<>>
  /\ taken' = Take(request.texts, request.pictures)
  /\ UNCHANGED <<request, verdict, ending>>

OnlyAddress == Goes /\ ~request.again /\ request.texts = {} /\ request.pictures = <<>>

EndsWith(code, retryable, cause) ==
  /\ ending' = [code |-> code, retryable |-> retryable, cause |-> cause]
  /\ UNCHANGED <<request, verdict, taken>>

UnsupportedSite == OnlyAddress /\ ~request.known /\ EndsWith("UNSUPPORTED_SITE", FALSE, "unknown_site")

FetchFails == OnlyAddress /\ request.known /\ EndsWith("SOURCE_FETCH_FAILED", TRUE, "fetch")

(* Failures of a call of a model; "length" is an answer that ran out of tokens.   *)
Failures == {"lost", "status_429", "status_500", "status_400", "unusable", "length"}

(* Mutant: whatever the call failed of.                                        *)
AnyCall(cause) == cause # "unusable"

Retryable(cause) == cause \in {"length", "lost", "status_429", "status_500"}

(* The first picture of the gallery, and those with writing to read; numbers the  *)
(* model made up are an error of the classification.                             *)
Written == {"specification", "certification", "package"}

(* Mutant: a picture the model said nothing of is taken too.                     *)
PickedUnsorted(page, sorted) ==
  {i \in DOMAIN page.pictures : i \notin DOMAIN sorted \/ sorted[i] \in Written}

Representative(page) ==
  LET gallery == {i \in DOMAIN page.pictures : page.pictures[i].gallery}
  IN IF gallery = {} THEN {} ELSE {Min(gallery)}

Chosen(page, sorted) ==
  Representative(page) \cup {i \in DOMAIN page.pictures \cap DOMAIN sorted : sorted[i] \in Written}

PicturesAt(page, chosen, limit) ==
  LET order == SetToSortSeq(chosen, LAMBDA i, j: i < j)
  IN [k \in 1..Min({limit, Len(order)}) |-> page.pictures[order[k]]]

MadeUp(page, sorted) == ~(DOMAIN sorted \subseteq 1..Min({MaxSorted, Len(page.pictures)}))

Usable(page, sorted) ==
  CASE page.policy = "none" -> <<>>
    [] page.policy = "all" -> PicturesAt(page, DOMAIN page.pictures, MaxAll)
    [] page.policy = "selected" -> PicturesAt(page, Chosen(page, sorted), MaxPicked)

Collect ==
  /\ OnlyAddress /\ request.known
  /\ \E page \in Shop, sorted \in Sorting:
       /\ page.policy = "selected" => ~MadeUp(page, sorted)
       /\ IF page.texts = {} /\ Usable(page, sorted) = <<>>
          THEN EndsWith("EMPTY_SOURCE", FALSE, "empty")
          ELSE /\ taken' = Take(page.texts, Usable(page, sorted))
               /\ UNCHANGED <<request, verdict, ending>>

(* The model that classifies does not answer, or with pictures there are none.    *)
SortingFails ==
  /\ OnlyAddress /\ request.known
  /\ \E page \in Shop: page.policy = "selected" /\ page.pictures # <<>>
  /\ \E cause \in Failures: EndsWith("PIPELINE_ERROR", Retryable(cause), cause)

ExtractProduct ==
  /\ taken # None /\ ending = None
  /\ EndsWith("extracted", FALSE, None)

ExtractionFails ==
  /\ taken # None /\ ending = None
  /\ \E cause \in Failures: EndsWith("PIPELINE_ERROR", Retryable(cause), cause)

Next ==
  \/ Receive \/ Unguarded \/ GuardFails \/ BlockByFormat \/ BlockByText \/ Look \/ EndBlocked
  \/ KeepProduct \/ UseGiven \/ UnsupportedSite \/ FetchFails \/ Collect \/ SortingFails
  \/ ExtractProduct \/ ExtractionFails

-----------------------------------------------------------------------------
(* What passes was seen: the text, and every piece of every picture; whatever the *)
(* guard thinks, only what it blocks is kept from extraction                     *)
(* (agents/input_guard/agent.py, diagnosis/guard.py).                           *)
PassMeansSeen ==
  verdict # None =>
    /\ verdict.outcome = "pass" =>
         /\ Texts(request) # {} => verdict.text = "low"
         /\ \A p \in ToSet(Pictures(request)): p.readable
         /\ Len(verdict.scores) = Len(FlattenSeq([i \in DOMAIN Pictures(request) |-> Pieces(Pictures(request)[i])]))
         /\ ToSet(verdict.scores) \subseteq {"low"}
    /\ verdict.outcome = "block" => taken = None
    /\ ending # None => (ending.cause = "blocked") = (verdict.outcome = "block")

(* No picture is lost on the way to extraction, and their order stays: each is    *)
(* there whole or with all its tiles, of which there are not too many; every line *)
(* that is no higher than two squares overlap is whole in one of them; the first  *)
(* picture of the gallery is taken, and of the others only what the model read    *)
(* (image_split.py, url_source.py).                                           *)
PicturesReachExtraction ==
  /\ taken # None =>
       LET given == taken.pictures
           partsOf(p) == SelectSeq(given, LAMBDA part: part[1] = p.id)
       IN /\ \A p \in ToSet(taken.of): partsOf(p) \in {<<<<p.id, 0>>>>, Tiles(p)} \ {<<>>}
          /\ \A i, j \in DOMAIN taken.of: i < j =>
               \A k, l \in DOMAIN given: given[k][1] = taken.of[i].id /\ given[l][1] = taken.of[j].id => k < l
          /\ Cardinality({k \in DOMAIN given : given[k][2] > 0}) <= MaxTiles
          /\ ~request.again
  /\ request = None =>
       /\ \A width \in 1..MaxSide, height \in 1..4 * MaxSide: 2 * height > 3 * width =>
            LET overlap == width - Step(width)
            IN /\ \A y \in Tops(width, height): y + width <= height
               /\ \A y \in 0..height - overlap: \E top \in Tops(width, height): top <= y /\ y + overlap <= top + width
       /\ \A page \in Shop, sorted \in Sorting:
            page.policy = "selected" /\ ~MadeUp(page, sorted) =>
              LET used == ToSet(Usable(page, sorted))
              IN /\ \A i \in DOMAIN page.pictures:
                      page.pictures[i].gallery /\ (\A j \in 1..i - 1: ~page.pictures[j].gallery) =>
                        page.pictures[i] \in used
                 /\ \A i \in DOMAIN page.pictures: page.pictures[i] \in used =>
                      page.pictures[i].gallery \/ (i \in DOMAIN sorted /\ sorted[i] \in Written)

(* The judge accepts the sides of every picture it is sent (images.py), and a     *)
(* failure is told to be worth another run only if that may go better             *)
(* (extraction_step.py).                                                     *)
JudgeAccepts ==
  /\ request = None =>
       \A width, height \in 1..3 * MaxSide: 2 * height <= 3 * width =>
         {JudgeSize(width, height)[1], JudgeSize(width, height)[2]} \subseteq MinSide..MaxSide
  /\ ending # None =>
       ending.retryable = (ending.cause \in {"fetch", "lost", "status_429", "status_500", "length"})
=============================================================================

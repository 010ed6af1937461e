------------------------------- MODULE CaseIngest -------------------------------
(* The cases in which customs has decided a tariff code: once a week the list  *)
(* is read page by page, cases that left it are deleted and new ones fetched,   *)
(* embedded and stored (app/db/clip_ingest.py, repositories/hs_case.py). The    *)
(* first ingest is run by hand (app/db/cli.py).                              *)
(* The list goes on while its pages are read: the newest case comes first.     *)
EXTENDS Naturals, Sequences, FiniteSets, FiniteSetsExt, SequencesExt

CONSTANTS
  FirstList,      \* the list at first, newest first; cases are numbers
  FirstStored,    \* the cases that may be stored at first
  LastCase,       \* bound on the cases that are published
  Withdrawals,    \* bound on those that are withdrawn
  Runs,           \* bound on the runs
  PageSize, ChunkSize,
  WithoutCode     \* cases whose code was not read when they were stored

CaseAssumption ==
  PageSize \in Nat \ {0} /\ LastCase \in Nat /\ FirstList \in Seq(Nat) /\ FirstStored \subseteq SUBSET Nat

VARIABLES
  published,      \* the list of customs
  withdrawn,
  cases,          \* table hs_cases: the cases with their codes, and those without
  ingest          \* the run of this week

caseVars == <<published, withdrawn, cases, ingest>>

Resting ==
  [at |-> "rests", runs |-> 0, total |-> 0, pages |-> {}, doc_ids |-> {}, existing |-> {}, todo |-> {},
   failed |-> {}, saved |-> {}, removed |-> {}, result |-> "none", began |-> {}, crowded |-> FALSE]

Init ==
  /\ published = FirstList
  /\ withdrawn = {}
  /\ \E kept \in FirstStored: cases = [coded |-> kept \ WithoutCode, bare |-> kept \cap WithoutCode]
  /\ ingest = Resting

(* list_doc_ids                                                              *)
Stored == cases.coded \cup cases.bare

-----------------------------------------------------------------------------
Ever == ToSet(FirstList) \cup ToSet(published) \cup withdrawn

(* More cases have come since the run began than a page holds.                 *)
Crowded == \E i \in DOMAIN published: i >= PageSize /\ published[i] \notin ingest.began

Publish(id) ==
  /\ id \notin Ever /\ id - 1 \in Ever
  /\ published' = <<id>> \o published
  /\ ingest' = [ingest EXCEPT !.crowded = IF ingest.at = "lists" /\ Crowded THEN TRUE ELSE @]
  /\ UNCHANGED <<withdrawn, cases>>

Withdraw(place) ==
  /\ Cardinality(withdrawn) < Withdrawals
  /\ published' = RemoveAt(published, place)
  /\ withdrawn' = withdrawn \cup {published[place]}
  /\ UNCHANGED <<cases, ingest>>

Page(number) ==
  ToSet(SubSeq(published, (number - 1) * PageSize + 1, Min({number * PageSize, Len(published)})))

Pages(total) == (total + PageSize - 1) \div PageSize

Ends(result) ==
  ingest' = [ingest EXCEPT !.at = "rests", !.result = result]

(* run_scheduled_clip_ingest: an empty table is left to the first ingest by hand.*)
Skip ==
  /\ ingest.at = "rests" /\ ingest.runs < Runs /\ Stored = {}
  /\ ingest' = [Resting EXCEPT !.runs = ingest.runs + 1, !.result = "skipped"]
  /\ UNCHANGED <<published, withdrawn, cases>>

(* The first page says how many cases and pages there are; by hand the table     *)
(* may be empty.                                                             *)
FirstPage(by_hand) ==
  /\ ingest.at = "rests" /\ ingest.runs < Runs
  /\ Stored # {} \/ by_hand
  /\ published # <<>>
  /\ ingest' = [Resting EXCEPT !.at = "lists", !.runs = ingest.runs + 1, !.total = Len(published),
                               !.pages = 2..Pages(Len(published)), !.doc_ids = Page(1), !.began = ToSet(published)]
  /\ UNCHANGED <<published, withdrawn, cases>>

(* The other pages are read by several workers, in any order, as the list is at *)
(* the time.                                                                 *)
NextPage(number) ==
  /\ ingest.at = "lists" /\ number \in ingest.pages /\ Page(number) # {}
  /\ ingest' = [ingest EXCEPT !.pages = @ \ {number}, !.doc_ids = @ \cup Page(number)]
  /\ UNCHANGED <<published, withdrawn, cases>>

(* A page that stays empty, or fails, ends the run (_retry, collect_doc_ids),   *)
(* as do a failure to embed or to store and a stop of the server.             *)
RunFails ==
  /\ ingest.at # "rests"
  /\ Ends("failed")
  /\ UNCHANGED <<published, withdrawn, cases>>

-----------------------------------------------------------------------------
(* Mutant: what is not in the list has left it, however long the list.         *)
AllGone == ingest.existing \ ingest.doc_ids

(* A list shorter than it says may lack cases that are still there.            *)
Gone ==
  IF Cardinality(ingest.doc_ids) < ingest.total THEN {}
  ELSE ingest.existing \ ingest.doc_ids

Look ==
  /\ ingest.at = "lists" /\ ingest.pages = {}
  /\ ingest' = [ingest EXCEPT !.at = "deletes", !.existing = Stored]
  /\ UNCHANGED <<published, withdrawn, cases>>

Delete ==
  /\ ingest.at = "deletes"
  /\ cases' = [coded |-> cases.coded \ Gone, bare |-> cases.bare \ Gone]
  /\ ingest' = [ingest EXCEPT !.at = "fetches", !.removed = Gone, !.todo = ingest.doc_ids \ ingest.existing]
  /\ UNCHANGED <<published, withdrawn>>

(* One chunk: those that could not be fetched are reported, the rest is stored  *)
(* in one transaction.                                                       *)
StoreChunk(chunk, failed) ==
  /\ ingest.at = "fetches"
  /\ chunk \subseteq ingest.todo /\ failed \subseteq chunk
  /\ Cardinality(chunk) = Min({ChunkSize, Cardinality(ingest.todo)}) /\ chunk # {}
  /\ \A id \in chunk, later \in ingest.todo \ chunk: id > later
  /\ cases' = [coded |-> cases.coded \cup ((chunk \ failed) \ WithoutCode),
               bare  |-> cases.bare \cup ((chunk \ failed) \cap WithoutCode)]
  /\ ingest' = [ingest EXCEPT !.todo = @ \ chunk, !.failed = @ \cup failed, !.saved = @ \cup (chunk \ failed)]
  /\ UNCHANGED <<published, withdrawn>>

(* Mutant: a run that failed to fetch some cases is a success.                 *)
SomeIsEnough(run) == IF run.failed = {} \/ run.saved # {} THEN "ok" ELSE "failed"

RunResult(run) ==
  IF run.failed = {} THEN "ok" ELSE IF run.saved = {} THEN "failed" ELSE "partial"

RunEnds ==
  /\ ingest.at = "fetches" /\ ingest.todo = {}
  /\ Ends(RunResult(ingest))
  /\ UNCHANGED <<published, withdrawn, cases>>

(* refill_hs_codes: cases without a code are fetched again, in one transaction. *)
Refill(filled) ==
  /\ filled \subseteq cases.bare /\ filled # {}
  /\ cases' = [coded |-> cases.coded \cup filled, bare |-> cases.bare \ filled]
  /\ UNCHANGED <<published, withdrawn, ingest>>

Next ==
  \/ \E id \in 1..LastCase: Publish(id)
  \/ \E place \in DOMAIN published: Withdraw(place)
  \/ Skip \/ RunFails \/ Look \/ Delete \/ RunEnds
  \/ \E by_hand \in BOOLEAN: FirstPage(by_hand)
  \/ \E number \in ingest.pages: NextPage(number)
  \/ \E chunk \in SUBSET ingest.todo: \E failed \in SUBSET chunk: StoreChunk(chunk, failed)
  \/ \E filled \in SUBSET cases.bare: Refill(filled)

Spec == Init /\ [][Next]_caseVars

-----------------------------------------------------------------------------
(* A case that was in the list when the run began is not deleted, whatever was  *)
(* withdrawn while its pages were read and as long as no more was published    *)
(* than a page holds; and a case is stored or its loss reported: after a run    *)
(* that calls itself ok all cases it saw are in the database, so that the next  *)
(* run goes on where this one stopped (ingest_clip_cases, _run_result).        *)
ListedCasesStay == ~ingest.crowded => ingest.removed \cap ingest.began = {}

OkMeansStored ==
  /\ ingest.at = "rests" /\ ingest.result = "ok" => ingest.doc_ids \subseteq Stored
  /\ ingest.result = "partial" =>
       ingest.doc_ids \subseteq Stored \cup ingest.failed /\ ingest.failed # {} /\ ingest.saved # {}
=============================================================================
